------------------------------ MODULE JamProofs ------------------------------
(***************************************************************************)
(* Proofs about the jam client: JitterBuffer, for every set of sequence    *)
(* numbers and sizes, every ceiling and every number of packets, and       *)
(* JamSession, for any jams and streams and any number of commands, changes*)
(* of the room and faults.                                                 *)
(***************************************************************************)
EXTENDS MCQueues, WellFoundedInduction, FunctionTheorems, FiniteSetTheorems, TLAPS

-----------------------------------------------------------------------------
(***************************************************************************)
(* JitterBuffer.                                                           *)
(*                                                                         *)
(* ReleasedInOrder and SlotsCounted are about what is handed on; they rest *)
(* on what is held: the queue is sorted, nothing in it is as old as what   *)
(* was released, and next_sequence is ahead of both until a packet is shed.*)
(***************************************************************************)

-----------------------------------------------------------------------------
(* The inductive invariant, in parts that a step can be checked against    *)
(* before its packet is in the queue.                                      *)

JitterTypes ==
  /\ queue \in Seq(Packets) /\ Len(queue) <= MaxQueued
  /\ next \in Nat \cup {NoSeq}
  /\ generation \in Nat
  /\ target \in 1..MaxQueued
  /\ stats \in [Counters -> Nat]
  /\ released \in Nat \X (Nat \cup {NoSeq})
  /\ discarded \in Nat
  /\ slots \in [first : Nat \cup {NoSeq}, out : Nat, lost : Nat, unseen : BOOLEAN]

Sorted(held) == \A i, j \in 1..Len(held) : i < j => held[i].seq < held[j].seq

\* What is held and what is expected is newer than what was released.
Ahead(held, expected, gen, last) ==
  /\ last[1] <= gen
  /\ last[1] = gen =>
       /\ IF expected = NoSeq THEN last[2] = NoSeq ELSE expected > last[2]
       /\ \A i \in 1..Len(held) : held[i].seq > last[2]

\* The slots passed end at the expected one, and the held ones follow.
InStep(held, expected, passed) ==
  ~passed.unseen =>
    IF expected = NoSeq THEN passed = NoSlots
    ELSE /\ passed.first # NoSeq
         /\ expected = passed.first + passed.out + passed.lost
         /\ \A i \in 1..Len(held) : held[i].seq >= expected

JitterInv ==
  /\ JitterTypes
  /\ Sorted(queue)
  /\ Ahead(queue, next, generation, released)
  /\ InStep(queue, next, slots)
  /\ EveryPacketCounted

-----------------------------------------------------------------------------
(* Sequences and the place of a packet.                                    *)

\* A nonempty set of naturals has a least element.
LEMMA Least ==
  ASSUME NEW T \in SUBSET Nat, T # {}
  PROVE  \E x \in T : \A y \in T : x <= y
<1> DEFINE R == {ss \in Nat \X Nat : ss[1] < ss[2]}
<1>1. IsWellFoundedOn(R, Nat)
  BY NatLessThanWellFounded DEF OpToRel
<1> HIDE DEF R
<1>2. PICK x \in T : \A y \in T : ~(<<y, x>> \in R)
  BY <1>1, WFMin
<1>3. \A y \in T : ~(y < x)
  BY <1>2 DEF R
<1> QED
  BY <1>3

\* A nonempty set of positions has a greatest element.
LEMMA Greatest ==
  ASSUME NEW n \in Nat, NEW T \in SUBSET (1..n), T # {}
  PROVE  \E x \in T : \A y \in T : y <= x
<1> DEFINE D == {n - x : x \in T}
<1>1. \A x \in T : n - x \in Nat
  OBVIOUS
<1>2. D \in SUBSET Nat /\ D # {}
  BY <1>1
<1>3. PICK d \in D : \A e \in D : d <= e
  BY <1>2, Least
<1>4. PICK x \in T : d = n - x
  OBVIOUS
<1>5. \A y \in T : n - x <= n - y
  BY <1>3, <1>4
<1> QED
  BY <1>5

\* The first packet and the others.
LEMMA TailFacts ==
  ASSUME NEW q \in Seq(Packets), q # <<>>
  PROVE  /\ Len(q) \in Nat \ {0}
         /\ Head(q) = q[1] /\ Head(q) \in Packets
         /\ Tail(q) \in Seq(Packets) /\ Len(Tail(q)) = Len(q) - 1
         /\ \A i \in 1..Len(Tail(q)) : i + 1 \in 1..Len(q) /\ Tail(q)[i] = q[i + 1]
OBVIOUS

\* The packets of a queue, and their numbers.
LEMMA ElementFacts ==
  ASSUME NEW q \in Seq(Packets), NEW i \in 1..Len(q)
  PROVE  q[i] \in Packets /\ q[i].seq \in Nat
<1>1. q[i] \in Packets
  OBVIOUS
<1> QED
  BY <1>1, JitterAssumption DEF Packets

\* A packet that is not held goes in after the smaller ones, and the queue
\* stays sorted.
LEMMA InsertFacts ==
  ASSUME NEW held \in Seq(Packets), Sorted(held),
         NEW packet \in Packets, ~Held(packet.seq, held)
  PROVE  /\ Insert(held, packet) \in Seq(Packets)
         /\ Len(Insert(held, packet)) = Len(held) + 1
         /\ Sorted(Insert(held, packet))
         /\ \A i \in 1..(Len(held) + 1) :
              \/ Insert(held, packet)[i] = packet
              \/ \E j \in 1..Len(held) : Insert(held, packet)[i] = held[j]
         /\ \E place \in 0..Len(held) :
              Insert(held, packet) =
                [i \in 1..(Len(held) + 1) |->
                   IF i <= place THEN held[i]
                   ELSE IF i = place + 1 THEN packet
                   ELSE held[i - 1]]
<1> DEFINE smaller  == {i \in 1..Len(held) : held[i].seq < packet.seq}
           position == IF smaller = {} THEN 0
                       ELSE CHOOSE i \in smaller : \A j \in smaller : j <= i
           result   == [i \in 1..(Len(held) + 1) |->
                          IF i <= position THEN held[i]
                          ELSE IF i = position + 1 THEN packet
                          ELSE held[i - 1]]
<1>1. Insert(held, packet) = result
  BY DEF Insert
<1>2. /\ Len(held) \in Nat /\ packet.seq \in Nat
      /\ \A i \in 1..Len(held) : held[i] \in Packets /\ held[i].seq \in Nat
  <2>1. Len(held) \in Nat
    OBVIOUS
  <2>2. packet.seq \in Nat
    BY JitterAssumption DEF Packets
  <2> QED
    BY <2>1, <2>2, ElementFacts
<1>3. /\ position \in 0..Len(held)
      /\ \A i \in smaller : i <= position
      /\ position # 0 => position \in smaller
  <2>1. CASE smaller = {}
    BY <2>1, <1>2
  <2>2. CASE smaller # {}
    <3>1. smaller \in SUBSET (1..Len(held))
      OBVIOUS
    <3> HIDE DEF smaller
    <3>2. \E x \in smaller : \A y \in smaller : y <= x
      BY <2>2, <3>1, <1>2, Greatest
    <3>3. position \in smaller /\ \A j \in smaller : j <= position
      BY <3>2, <2>2
    <3> HIDE DEF position
    <3> QED
      BY <3>1, <3>3, <1>2
  <2> QED
    BY <2>1, <2>2
<1> HIDE DEF position
<1>4. \A i \in 1..Len(held) : i <= position => held[i].seq < packet.seq
  <2> SUFFICES ASSUME NEW i \in 1..Len(held), i <= position
               PROVE  held[i].seq < packet.seq
    OBVIOUS
  <2>1. position \in 1..Len(held) /\ held[position].seq < packet.seq
    BY <1>3, <1>2
  <2>2. i = position \/ held[i].seq < held[position].seq
    BY <2>1, <1>2, <1>3 DEF Sorted
  <2> QED
    BY <2>1, <2>2, <1>2
<1>5. \A i \in 1..Len(held) : i > position => held[i].seq > packet.seq
  <2> SUFFICES ASSUME NEW i \in 1..Len(held), i > position
               PROVE  held[i].seq > packet.seq
    OBVIOUS
  <2>1. ~(held[i].seq < packet.seq)
    BY <1>3, <1>2
  <2>2. held[i].seq # packet.seq
    BY DEF Held
  <2> QED
    BY <2>1, <2>2, <1>2
<1>6. \A i \in 1..(Len(held) + 1) :
        \/ result[i] = packet
        \/ i \in 1..Len(held) /\ result[i] = held[i]
        \/ i - 1 \in 1..Len(held) /\ result[i] = held[i - 1]
  BY <1>2, <1>3
<1>7. result \in Seq(Packets) /\ Len(result) = Len(held) + 1
  <2>1. \A i \in 1..(Len(held) + 1) : result[i] \in Packets
    BY <1>6, ElementFacts
  <2>2. result \in [1..(Len(held) + 1) -> Packets] /\ Len(held) + 1 \in Nat
    BY <2>1, <1>2
  <2> HIDE DEF result
  <2> QED
    BY <2>2
<1>8. Sorted(result)
  <2> SUFFICES ASSUME NEW i \in 1..(Len(held) + 1), NEW j \in 1..(Len(held) + 1), i < j
               PROVE  result[i].seq < result[j].seq
    BY <1>7 DEF Sorted
  <2>1. CASE j <= position
    BY <2>1, <1>2, <1>3 DEF Sorted
  <2>2. CASE i <= position /\ j = position + 1
    BY <2>2, <1>2, <1>3, <1>4
  <2>3. CASE i <= position /\ j > position + 1
    BY <2>3, <1>2, <1>3 DEF Sorted
  <2>4. CASE i = position + 1
    BY <2>4, <1>2, <1>3, <1>5
  <2>5. CASE i > position + 1
    BY <2>5, <1>2, <1>3 DEF Sorted
  <2> QED
    BY <2>1, <2>2, <2>3, <2>4, <2>5, <1>2, <1>3
<1> QED
  BY <1>1, <1>3, <1>6, <1>7, <1>8

-----------------------------------------------------------------------------
(* The steps.                                                              *)

\* Packets that arrived and are not accounted for by the counters c.
Unaccounted(c) ==
  c["received"] - c["released"] - c["late"] - c["duplicates"] - c["overflowed"]

\* A packet that is late, a duplicate, or takes the place of one that is shed
\* is accounted for; one that is just counted as received is not.
LEMMA CountFacts ==
  ASSUME stats \in [Counters -> Nat]
  PROVE  /\ \A counters \in SUBSET Counters : Count(counters) \in [Counters -> Nat]
         /\ Unaccounted(Count({"received", "late"})) = Unaccounted(stats)
         /\ Unaccounted(Count({"received", "duplicates"})) = Unaccounted(stats)
         /\ Unaccounted(Count(ShedCounters)) = Unaccounted(stats)
         /\ Unaccounted(Count({"received"})) = Unaccounted(stats) + 1
<1>1. \A c \in Counters : stats[c] \in Nat
  OBVIOUS
<1>2. ASSUME NEW counters \in SUBSET Counters
      PROVE  /\ Count(counters) \in [Counters -> Nat]
             /\ \A c \in Counters :
                  Count(counters)[c] = IF c \in counters THEN stats[c] + 1 ELSE stats[c]
  BY <1>1 DEF Count
<1>3. /\ {"received", "late"} \in SUBSET Counters
      /\ {"received", "duplicates"} \in SUBSET Counters
      /\ {"received", "overflowed"} \in SUBSET Counters
      /\ {"received"} \in SUBSET Counters
  BY DEF Counters
<1>4. Unaccounted(Count({"received", "late"})) = Unaccounted(stats)
  BY <1>1, <1>2, <1>3 DEF Unaccounted, Counters
<1>5. Unaccounted(Count({"received", "duplicates"})) = Unaccounted(stats)
  BY <1>1, <1>2, <1>3 DEF Unaccounted, Counters
<1>6. Unaccounted(Count(ShedCounters)) = Unaccounted(stats)
  BY <1>1, <1>2, <1>3 DEF Unaccounted, Counters, ShedCounters
<1>7. Unaccounted(Count({"received"})) = Unaccounted(stats) + 1
  BY <1>1, <1>2, <1>3 DEF Unaccounted, Counters
<1> QED
  BY <1>2, <1>4, <1>5, <1>6, <1>7

\* What is not accounted for by the counters is held, or went with its
\* connection.
LEMMA AccountFacts ==
  ASSUME NEW c \in [Counters -> Nat], NEW d \in Nat, NEW n \in Nat
  PROVE  /\ Unaccounted(c) \in Int
         /\ Unaccounted(c) = d + n <=>
              c["received"] = c["released"] + c["late"] + c["duplicates"]
                              + c["overflowed"] + d + n
<1>1. /\ c["received"] \in Nat /\ c["released"] \in Nat /\ c["late"] \in Nat
      /\ c["duplicates"] \in Nat /\ c["overflowed"] \in Nat
  BY DEF Counters
<1>2. ASSUME NEW a1 \in Nat, NEW a2 \in Nat, NEW a3 \in Nat, NEW a4 \in Nat, NEW a5 \in Nat
      PROVE  /\ a1 - a2 - a3 - a4 - a5 \in Int
             /\ a1 - a2 - a3 - a4 - a5 = d + n <=> a1 = a2 + a3 + a4 + a5 + d + n
  OBVIOUS
<1>3. /\ Unaccounted(c) \in Int
      /\ Unaccounted(c) = d + n <=>
           c["received"] = c["released"] + c["late"] + c["duplicates"] + c["overflowed"] + d + n
  <2> DEFINE a1 == c["received"]  a2 == c["released"]  a3 == c["late"]
             a4 == c["duplicates"]  a5 == c["overflowed"]
  <2>1. a1 \in Nat /\ a2 \in Nat /\ a3 \in Nat /\ a4 \in Nat /\ a5 \in Nat
    BY <1>1
  <2>2. Unaccounted(c) = a1 - a2 - a3 - a4 - a5
    BY DEF Unaccounted
  <2> HIDE DEF a1, a2, a3, a4, a5
  <2>3. Unaccounted(c) \in Int /\ (Unaccounted(c) = d + n <=> a1 = a2 + a3 + a4 + a5 + d + n)
    BY <1>2, <2>1, <2>2
  <2> QED
    BY <2>3 DEF a1, a2, a3, a4, a5
<1> QED
  BY <1>3

\* A step keeps the account if what is held or dropped changes with it.
LEMMA AccountKept ==
  ASSUME JitterTypes, JitterTypes', EveryPacketCounted, NEW n \in Nat,
         Unaccounted(stats') = Unaccounted(stats) - n,
         discarded' = discarded, Len(queue') = Len(queue) - n
  PROVE  EveryPacketCounted'
<1>1. /\ stats \in [Counters -> Nat] /\ discarded \in Nat /\ Len(queue) \in Nat
      /\ stats' \in [Counters -> Nat] /\ discarded' \in Nat /\ Len(queue') \in Nat
  BY DEF JitterTypes
<1>2. Unaccounted(stats) = discarded + Len(queue)
  BY <1>1, AccountFacts DEF EveryPacketCounted
<1>3. Unaccounted(stats') = discarded' + Len(queue')
  BY <1>1, <1>2
<1> QED
  BY <1>1, <1>3, AccountFacts DEF EveryPacketCounted

\* A release takes its packets off what is unaccounted for.
LEMMA ReleaseFacts ==
  ASSUME NEW c \in [Counters -> Nat], NEW d \in [Counters -> Nat], NEW n \in Nat,
         d["released"] = c["released"] + n,
         \A x \in {"received", "late", "duplicates", "overflowed"} : d[x] = c[x]
  PROVE  Unaccounted(d) = Unaccounted(c) - n
<1>1. /\ c["received"] \in Nat /\ c["released"] \in Nat /\ c["late"] \in Nat
      /\ c["duplicates"] \in Nat /\ c["overflowed"] \in Nat
  BY DEF Counters
<1>2. /\ d["received"] = c["received"] /\ d["late"] = c["late"]
      /\ d["duplicates"] = c["duplicates"] /\ d["overflowed"] = c["overflowed"]
  OBVIOUS
<1>3. Unaccounted(d) = c["received"] - (c["released"] + n) - c["late"] - c["duplicates"]
                       - c["overflowed"]
  BY <1>2 DEF Unaccounted
<1>4. ASSUME NEW a1 \in Nat, NEW a2 \in Nat, NEW a3 \in Nat, NEW a4 \in Nat, NEW a5 \in Nat
      PROVE  a1 - (a2 + n) - a3 - a4 - a5 = (a1 - a2 - a3 - a4 - a5) - n
  OBVIOUS
<1> QED
  BY <1>1, <1>3, <1>4 DEF Unaccounted

\* A buffer that is made anew is empty, and one that goes on keeps its packets.
LEMMA JitterInvInit == JitterInit => JitterInv
<1> SUFFICES ASSUME JitterInit PROVE JitterInv
  OBVIOUS
<1>1. queue \in Seq(Packets) /\ Len(queue) = 0
  BY DEF JitterInit
<1>2. JitterTypes
  BY <1>1, JitterAssumption DEF JitterInit, JitterTypes, NoSlots, NoSeq
<1>3. Sorted(queue) /\ Ahead(queue, next, generation, released)
  BY <1>1 DEF JitterInit, Sorted, Ahead
<1>4. InStep(queue, next, slots) /\ EveryPacketCounted
  BY <1>1 DEF JitterInit, InStep, EveryPacketCounted, Counters
<1> QED
  BY <1>2, <1>3, <1>4 DEF JitterInv

\* A push of a packet of this generation or a newer one.
LEMMA PushCurrentKeeps ==
  ASSUME JitterInv, NEW packet \in Packets, NEW gen \in Generations,
         PushCurrent(packet, gen), UNCHANGED <<target, released>>
  PROVE  JitterInv'
<1> DEFINE renewed  == gen > generation
           held     == IF renewed THEN <<>> ELSE queue
           expected == IF renewed THEN NoSeq ELSE next
           total    == IF renewed THEN 0 ELSE bytes
           passed   == IF renewed THEN NoSlots ELSE slots
<1>0. JitterTypes
  BY DEF JitterInv
<1>1. /\ gen \in Nat /\ gen >= generation /\ generation' = gen
      /\ packet.seq \in Nat
  BY JitterAssumption DEF PushCurrent, Packets
<1>2. /\ held \in Seq(Packets) /\ Len(held) \in Nat /\ Len(held) <= MaxQueued
      /\ expected \in Nat \cup {NoSeq}
      /\ passed \in [first : Nat \cup {NoSeq}, out : Nat, lost : Nat, unseen : BOOLEAN]
  BY <1>0, JitterAssumption DEF JitterTypes, NoSlots
<1>3. Sorted(held) /\ Ahead(held, expected, gen, released) /\ InStep(held, expected, passed)
  <2>1. CASE renewed
    BY <2>1, <1>0, <1>1 DEF Sorted, Ahead, InStep, JitterInv, JitterTypes
  <2>2. CASE ~renewed
    <3>1. gen = generation
      BY <2>2, <1>0, <1>1 DEF JitterTypes
    <3> QED
      BY <2>2, <3>1 DEF JitterInv
  <2> QED
    BY <2>1, <2>2
<1>4. discarded' \in Nat /\ discarded' + Len(held) = discarded + Len(queue)
  BY <1>0 DEF PushCurrent, JitterTypes
<1>5. \/ /\ Late(packet.seq, expected) \/ Held(packet.seq, held)
         /\ stats' = Count({"received", "late"}) \/ stats' = Count({"received", "duplicates"})
         /\ queue' = held /\ next' = expected /\ slots' = passed
      \/ /\ ~Late(packet.seq, expected) /\ ~Held(packet.seq, held)
         /\ ~OverCeiling(held, total, packet.size)
         /\ stats' = Count({"received"})
         /\ queue' = Insert(held, packet) /\ next' = expected /\ slots' = passed
      \/ /\ ~Late(packet.seq, expected) /\ ~Held(packet.seq, held)
         /\ held # <<>>
         /\ stats' = Count(ShedCounters)
         /\ queue' = Insert(Tail(held), packet)
         /\ next' = Head(held).seq + 1
         /\ slots' = [passed EXCEPT !.unseen = TRUE]
  BY DEF PushCurrent
<1> HIDE DEF renewed, held, expected, total, passed
<1>6. target' = target /\ released' = released
  OBVIOUS
<1>6a. /\ Unaccounted(stats) = discarded' + Len(held)
       /\ \A n \in Nat :
            JitterTypes' /\ Unaccounted(stats') = discarded' + n /\ Len(queue') = n
              => EveryPacketCounted'
  <2>1. Unaccounted(stats) = discarded + Len(queue)
    <3>1. stats \in [Counters -> Nat] /\ discarded \in Nat /\ Len(queue) \in Nat
      BY <1>0 DEF JitterTypes
    <3> QED
      BY <3>1, AccountFacts DEF JitterInv, EveryPacketCounted
  <2>2. ASSUME JitterTypes', Len(queue') \in Nat,
               Unaccounted(stats') = discarded' + Len(queue')
        PROVE  EveryPacketCounted'
    <3>1. /\ stats' \in [Counters -> Nat] /\ discarded' \in Nat
      BY <2>2 DEF JitterTypes
    <3> QED
      BY <2>2, <3>1, AccountFacts DEF EveryPacketCounted
  <2> QED
    BY <1>4, <2>1, <2>2
<1>7. CASE /\ stats' = Count({"received", "late"}) \/ stats' = Count({"received", "duplicates"})
           /\ queue' = held /\ next' = expected /\ slots' = passed
  <2>0. stats' \in [Counters -> Nat] /\ Unaccounted(stats') = Unaccounted(stats)
    <3>1. {"received", "late"} \in SUBSET Counters /\ {"received", "duplicates"} \in SUBSET Counters
      BY DEF Counters
    <3>2. stats \in [Counters -> Nat]
      BY <1>0 DEF JitterTypes
    <3> QED
      BY <1>7, <3>1, <3>2, CountFacts
  <2>1. JitterTypes'
    BY <1>0, <1>1, <1>2, <1>4, <1>6, <1>7, <2>0 DEF JitterTypes
  <2>2. EveryPacketCounted'
    BY <1>2, <1>7, <1>6a, <2>0, <2>1
  <2> QED
    BY <1>1, <1>3, <1>6, <1>7, <2>1, <2>2 DEF JitterInv
<1>8. CASE /\ ~Late(packet.seq, expected) /\ ~Held(packet.seq, held)
           /\ ~OverCeiling(held, total, packet.size)
           /\ stats' = Count({"received"})
           /\ queue' = Insert(held, packet) /\ next' = expected /\ slots' = passed
  <2>1. /\ queue' \in Seq(Packets) /\ Len(queue') = Len(held) + 1 /\ Sorted(queue')
        /\ \A i \in 1..(Len(held) + 1) :
             queue'[i] = packet \/ \E j \in 1..Len(held) : queue'[i] = held[j]
    BY <1>2, <1>3, <1>8, InsertFacts
  <2>2. Len(queue') <= MaxQueued
    BY <1>2, <1>8, <2>1, JitterAssumption DEF OverCeiling
  <2>3. expected # NoSeq => packet.seq >= expected
    BY <1>1, <1>2, <1>8 DEF Late, NoSeq
  <2>0. stats' \in [Counters -> Nat] /\ Unaccounted(stats') = Unaccounted(stats) + 1
    <3>1. {"received"} \in SUBSET Counters
      BY DEF Counters
    <3>2. stats \in [Counters -> Nat]
      BY <1>0 DEF JitterTypes
    <3> QED
      BY <1>8, <3>1, <3>2, CountFacts
  <2>4. JitterTypes'
    BY <1>0, <1>1, <1>2, <1>4, <1>6, <1>8, <2>0, <2>1, <2>2 DEF JitterTypes
  <2>5. Ahead(queue', next', generation', released')
    <3>1. released[1] = gen => packet.seq > released[2]
      BY <1>0, <1>1, <1>2, <1>3, <2>3 DEF Ahead, JitterTypes, NoSeq
    <3>2. released[1] = gen => \A i \in 1..Len(queue') : queue'[i].seq > released[2]
      BY <1>2, <1>3, <2>1, <3>1 DEF Ahead
    <3> QED
      BY <1>1, <1>3, <1>6, <1>8, <3>2 DEF Ahead
  <2>6. InStep(queue', next', slots')
    BY <1>1, <1>2, <1>3, <1>8, <2>1, <2>3 DEF InStep
  <2>7. EveryPacketCounted'
    <3>1. Len(held) + 1 \in Nat /\ Unaccounted(stats') = discarded' + (Len(held) + 1)
      BY <1>2, <1>4, <1>6a, <2>0
    <3> QED
      BY <1>6a, <2>1, <2>4, <3>1
  <2> QED
    BY <2>1, <2>4, <2>5, <2>6, <2>7 DEF JitterInv
<1>9. CASE /\ ~Late(packet.seq, expected) /\ ~Held(packet.seq, held)
           /\ held # <<>>
           /\ stats' = Count(ShedCounters)
           /\ queue' = Insert(Tail(held), packet)
           /\ next' = Head(held).seq + 1
           /\ slots' = [passed EXCEPT !.unseen = TRUE]
  <2>1. /\ Len(held) \in Nat \ {0} /\ Head(held) = held[1] /\ Head(held) \in Packets
        /\ Tail(held) \in Seq(Packets) /\ Len(Tail(held)) = Len(held) - 1
        /\ \A i \in 1..Len(Tail(held)) : i + 1 \in 1..Len(held) /\ Tail(held)[i] = held[i + 1]
    BY <1>2, <1>9, TailFacts
  <2>2. Sorted(Tail(held)) /\ ~Held(packet.seq, Tail(held))
    BY <1>2, <1>3, <1>9, <2>1 DEF Sorted, Held
  <2>3. /\ queue' \in Seq(Packets) /\ Len(queue') = Len(held) /\ Sorted(queue')
        /\ \A i \in 1..Len(held) :
             queue'[i] = packet \/ \E j \in 1..Len(Tail(held)) : queue'[i] = Tail(held)[j]
    <3>1. /\ queue' \in Seq(Packets) /\ Len(queue') = Len(Tail(held)) + 1 /\ Sorted(queue')
          /\ \A i \in 1..(Len(Tail(held)) + 1) :
               queue'[i] = packet \/ \E j \in 1..Len(Tail(held)) : queue'[i] = Tail(held)[j]
      BY <1>9, <2>1, <2>2, InsertFacts
    <3>2. Len(Tail(held)) + 1 = Len(held)
      BY <2>1
    <3> QED
      BY <3>1, <3>2
  <2>4. \A i \in 1..Len(held) :
             queue'[i] = packet \/ \E j \in 1..Len(held) : queue'[i] = held[j]
    BY <2>1, <2>3
  <2>5. expected # NoSeq => packet.seq >= expected
    BY <1>1, <1>2, <1>9 DEF Late, NoSeq
  <2>6. next' \in Nat
    BY <1>9, <2>1, JitterAssumption DEF Packets
  <2>0. stats' \in [Counters -> Nat] /\ Unaccounted(stats') = Unaccounted(stats)
    <3>1. ShedCounters \in SUBSET Counters
      BY DEF Counters, ShedCounters
    <3>2. stats \in [Counters -> Nat]
      BY <1>0 DEF JitterTypes
    <3> QED
      BY <1>9, <3>1, <3>2, CountFacts
  <2>7. JitterTypes'
    BY <1>0, <1>1, <1>2, <1>4, <1>6, <1>9, <2>0, <2>3, <2>6 DEF JitterTypes
  <2>8. Ahead(queue', next', generation', released')
    <3>1. \A i \in 1..Len(held) : held[i].seq \in Nat
      BY <1>2, ElementFacts
    <3>2. released[1] = gen => held[1].seq > released[2]
      BY <1>3, <2>1 DEF Ahead
    <3>3. released[1] = gen => packet.seq > released[2]
      BY <1>0, <1>1, <1>2, <1>3, <2>5 DEF Ahead, JitterTypes, NoSeq
    <3>4. released[1] = gen => \A i \in 1..Len(queue') : queue'[i].seq > released[2]
      BY <1>2, <1>3, <2>3, <2>4, <3>3 DEF Ahead
    <3>5. next' = held[1].seq + 1 /\ held[1].seq \in Nat
      BY <1>9, <2>1, <3>1
    <3>6. released[1] = gen => next' > released[2] /\ next' # NoSeq
      BY <1>0, <3>2, <3>5 DEF JitterTypes, NoSeq
    <3> QED
      BY <1>1, <1>3, <1>6, <3>4, <3>6 DEF Ahead
  <2>9. InStep(queue', next', slots')
    BY <1>2, <1>9 DEF InStep
  <2>10. EveryPacketCounted'
    BY <1>2, <1>6a, <2>0, <2>3, <2>7
  <2> QED
    BY <2>3, <2>7, <2>8, <2>9, <2>10 DEF JitterInv
<1> QED
  BY <1>5, <1>7, <1>8, <1>9

\* A packet of a connection that was replaced changes the counters alone.
LEMMA PushStaleKeeps ==
  ASSUME JitterInv, NEW gen, PushStale(gen), UNCHANGED <<target, released>>
  PROVE  JitterInv'
<1>1. JitterTypes
  BY DEF JitterInv
<1>2. /\ queue' = queue /\ next' = next /\ generation' = generation /\ slots' = slots
      /\ discarded' = discarded /\ target' = target /\ released' = released
      /\ stats' = Count({"received", "late"})
  BY DEF PushStale
<1>3. stats \in [Counters -> Nat] /\ discarded \in Nat /\ Len(queue) \in Nat
  BY <1>1 DEF JitterTypes
<1>4. stats' \in [Counters -> Nat] /\ Unaccounted(stats') = Unaccounted(stats)
  <2>1. {"received", "late"} \in SUBSET Counters
    BY DEF Counters
  <2> QED
    BY <1>2, <1>3, <2>1, CountFacts
<1>5. JitterTypes'
  BY <1>1, <1>2, <1>4 DEF JitterTypes
<1>6. EveryPacketCounted'
  <2>1. Unaccounted(stats') = Unaccounted(stats) - 0 /\ Len(queue') = Len(queue) - 0
    BY <1>2, <1>3, <1>4, AccountFacts
  <2> QED
    BY <1>1, <1>2, <1>5, <2>1, AccountKept DEF JitterInv
<1> QED
  BY <1>2, <1>5, <1>6 DEF JitterInv

\* Pop releases the oldest packet held; the slots it skips are counted.
LEMMA PopKeeps ==
  ASSUME JitterInv, Pop
  PROVE  JitterInv'
<1> DEFINE seq == queue[1].seq
<1>1. JitterTypes
  BY DEF JitterInv
<1>2. /\ Len(queue) \in Nat \ {0} /\ Head(queue) = queue[1] /\ Head(queue) \in Packets
      /\ Tail(queue) \in Seq(Packets) /\ Len(Tail(queue)) = Len(queue) - 1
      /\ \A i \in 1..Len(Tail(queue)) : i + 1 \in 1..Len(queue) /\ Tail(queue)[i] = queue[i + 1]
  <2>1. queue \in Seq(Packets) /\ queue # <<>>
    BY <1>1 DEF JitterTypes, Pop
  <2> QED
    BY <2>1, TailFacts
<1>3. seq \in Nat
  BY <1>2, JitterAssumption DEF Packets
<1>4. /\ queue' = Tail(queue) /\ next' = seq + 1 /\ released' = <<generation, seq>>
      /\ generation' = generation /\ target' = target /\ discarded' = discarded
      /\ stats' = [stats EXCEPT !["released"] = @ + 1, !["lost"] = @ + Gap(seq)]
      /\ slots' = [slots EXCEPT !.first = IF @ = NoSeq THEN seq ELSE @, !.out = @ + 1,
                                !.lost = @ + (stats'["lost"] - stats["lost"])]
  BY <1>2 DEF Pop
<1>5. Gap(seq) \in Nat
  BY <1>1, <1>3 DEF Gap, JitterTypes, NoSeq
<1> HIDE DEF seq
<1>6. /\ stats \in [Counters -> Nat] /\ stats' \in [Counters -> Nat]
      /\ stats'["lost"] = stats["lost"] + Gap(seq)
      /\ stats'["released"] = stats["released"] + 1
      /\ \A c \in {"received", "late", "duplicates", "overflowed"} : stats'[c] = stats[c]
  <2>1. stats \in [Counters -> Nat] /\ {"released", "lost"} \subseteq Counters
    BY <1>1 DEF JitterTypes, Counters
  <2>2. \A c \in Counters : stats[c] \in Nat
    BY <2>1
  <2>3. stats' \in [Counters -> Nat]
    BY <1>4, <1>5, <2>1, <2>2
  <2>4. /\ stats'["lost"] = stats["lost"] + Gap(seq)
        /\ stats'["released"] = stats["released"] + 1
    BY <1>4, <2>1
  <2>5. \A c \in {"received", "late", "duplicates", "overflowed"} : stats'[c] = stats[c]
    BY <1>4, <2>1 DEF Counters
  <2> QED
    BY <2>1, <2>3, <2>4, <2>5
<1>7. /\ slots.first \in Nat \cup {NoSeq} /\ slots.out \in Nat /\ slots.lost \in Nat
      /\ slots' = [first |-> IF slots.first = NoSeq THEN seq ELSE slots.first,
                   out |-> slots.out + 1, lost |-> slots.lost + Gap(seq),
                   unseen |-> slots.unseen]
  <2>1. stats["lost"] \in Nat
    BY <1>6 DEF Counters
  <2>2. stats'["lost"] - stats["lost"] = Gap(seq)
    BY <1>5, <1>6, <2>1
  <2> QED
    BY <1>1, <1>4, <2>2 DEF JitterTypes
<1>8. JitterTypes'
  <2>1. Len(queue') <= MaxQueued
    BY <1>1, <1>2, <1>4, JitterAssumption DEF JitterTypes
  <2>2. slots' \in [first : Nat \cup {NoSeq}, out : Nat, lost : Nat, unseen : BOOLEAN]
    BY <1>1, <1>3, <1>5, <1>7 DEF JitterTypes
  <2>3. released' \in Nat \X (Nat \cup {NoSeq}) /\ next' \in Nat \cup {NoSeq}
    BY <1>1, <1>3, <1>4 DEF JitterTypes
  <2> QED
    BY <1>1, <1>2, <1>4, <1>6, <2>1, <2>2, <2>3 DEF JitterTypes
<1>9. Sorted(queue') /\ \A i \in 1..Len(queue') : queue'[i].seq > seq
  <2>1. \A i \in 1..Len(queue) : queue[i].seq \in Nat
    BY <1>1, ElementFacts DEF JitterTypes
  <2>2. /\ Len(queue') \in Nat
        /\ \A i \in 1..Len(queue') : i + 1 \in 1..Len(queue) /\ queue'[i] = queue[i + 1]
    BY <1>2, <1>4
  <2>3. Sorted(queue')
    BY <2>2, <1>2 DEF JitterInv, Sorted
  <2>4. \A i \in 1..Len(queue') : queue'[i].seq > seq
    <3>1. \A i \in 1..Len(queue') : 1 < i + 1 /\ 1 \in 1..Len(queue)
      BY <1>2, <2>2
    <3> QED
      BY <1>2, <2>1, <2>2, <3>1 DEF JitterInv, Sorted, seq
  <2> QED
    BY <2>3, <2>4
<1>10. Ahead(queue', next', generation', released')
  BY <1>1, <1>3, <1>4, <1>9 DEF Ahead, JitterTypes, NoSeq
<1>11. InStep(queue', next', slots')
  <2> SUFFICES ASSUME ~slots.unseen
               PROVE  /\ slots'.first # NoSeq
                      /\ next' = slots'.first + slots'.out + slots'.lost
                      /\ \A i \in 1..Len(queue') : queue'[i].seq >= next'
    BY <1>3, <1>4, <1>7 DEF InStep, NoSeq
  <2>1. \A i \in 1..Len(queue') : queue'[i].seq >= seq + 1
    <3>1. \A i \in 1..Len(queue') : queue'[i].seq \in Nat
      BY <1>8, ElementFacts DEF JitterTypes
    <3> QED
      BY <1>3, <1>9, <3>1
  <2>2. CASE next = NoSeq
    <3>1. slots.first = NoSeq /\ slots.out = 0 /\ slots.lost = 0
      BY <2>2 DEF InStep, JitterInv, NoSlots
    <3>2. Gap(seq) = 0
      BY <2>2 DEF Gap
    <3>3. slots'.first = seq /\ slots'.out = 1 /\ slots'.lost = 0
      BY <1>7, <3>1, <3>2
    <3> QED
      BY <1>3, <1>4, <2>1, <3>3 DEF NoSeq
  <2>3. CASE next # NoSeq
    <3>1. /\ slots.first # NoSeq /\ next = slots.first + slots.out + slots.lost
          /\ seq >= next /\ next \in Nat
      BY <1>1, <1>2, <2>3 DEF InStep, JitterInv, JitterTypes, seq
    <3>2. Gap(seq) = seq - next
      BY <1>3, <2>3, <3>1 DEF Gap
    <3>3. /\ slots'.first = slots.first /\ slots'.out = slots.out + 1
          /\ slots'.lost = slots.lost + (seq - next)
      BY <1>7, <3>1, <3>2
    <3>4. slots.first \in Nat /\ slots.out \in Nat /\ slots.lost \in Nat
      BY <1>7, <3>1
    <3>5. next' = slots'.first + slots'.out + slots'.lost
      BY <1>3, <1>4, <3>1, <3>3, <3>4
    <3> QED
      BY <1>3, <1>4, <2>1, <3>1, <3>3, <3>5
  <2> QED
    BY <2>2, <2>3
<1>12. EveryPacketCounted'
  <2>1. Unaccounted(stats') = Unaccounted(stats) - 1
    BY <1>6, ReleaseFacts
  <2> QED
    BY <1>1, <1>2, <1>4, <1>8, <2>1, AccountKept DEF JitterInv
<1> QED
  BY <1>8, <1>9, <1>10, <1>11, <1>12 DEF JitterInv

\* Drain releases everything that is held, the newest last.
LEMMA DrainKeeps ==
  ASSUME JitterInv, Drain
  PROVE  JitterInv'
<1> DEFINE seq == queue[Len(queue)].seq
<1>1. JitterTypes
  BY DEF JitterInv
<1>2. /\ Len(queue) \in Nat \ {0} /\ seq \in Nat
  <2>1. queue \in Seq(Packets) /\ queue # <<>>
    BY <1>1 DEF JitterTypes, Drain
  <2>2. Len(queue) \in Nat \ {0} /\ Len(queue) \in 1..Len(queue)
    BY <2>1
  <2> QED
    BY <2>1, <2>2, ElementFacts
<1>3. /\ queue' = <<>> /\ next' = seq + 1 /\ released' = <<generation, seq>>
      /\ generation' = generation /\ target' = target /\ discarded' = discarded
      /\ stats' = [stats EXCEPT !["released"] = @ + Len(queue)]
      /\ slots' = [slots EXCEPT !.unseen = TRUE]
  BY DEF Drain
<1> HIDE DEF seq
<1>4. queue' \in Seq(Packets) /\ Len(queue') = 0
  BY <1>3
<1>5. /\ stats \in [Counters -> Nat] /\ stats' \in [Counters -> Nat]
      /\ stats'["released"] = stats["released"] + Len(queue)
      /\ \A c \in {"received", "late", "duplicates", "overflowed"} : stats'[c] = stats[c]
  <2>1. stats \in [Counters -> Nat] /\ "released" \in Counters
    BY <1>1 DEF JitterTypes, Counters
  <2>2. \A c \in Counters : stats[c] \in Nat
    BY <2>1
  <2>3. stats' \in [Counters -> Nat]
    BY <1>2, <1>3, <2>1, <2>2
  <2>4. stats'["released"] = stats["released"] + Len(queue)
    BY <1>3, <2>1
  <2>5. \A c \in {"received", "late", "duplicates", "overflowed"} : stats'[c] = stats[c]
    BY <1>3, <2>1 DEF Counters
  <2> QED
    BY <2>1, <2>3, <2>4, <2>5
<1>6. slots'.unseen /\ slots' \in [first : Nat \cup {NoSeq}, out : Nat, lost : Nat, unseen : BOOLEAN]
  BY <1>1, <1>3 DEF JitterTypes
<1>7. JitterTypes'
  <2>1. released' \in Nat \X (Nat \cup {NoSeq}) /\ next' \in Nat \cup {NoSeq}
    BY <1>1, <1>2, <1>3 DEF JitterTypes
  <2> QED
    BY <1>1, <1>3, <1>4, <1>5, <1>6, <2>1, JitterAssumption DEF JitterTypes
<1>8. Sorted(queue') /\ InStep(queue', next', slots')
  BY <1>4, <1>6 DEF Sorted, InStep
<1>9. Ahead(queue', next', generation', released')
  BY <1>1, <1>2, <1>3, <1>4 DEF Ahead, JitterTypes, NoSeq
<1>10. EveryPacketCounted'
  <2>1. Unaccounted(stats') = Unaccounted(stats) - Len(queue)
    BY <1>2, <1>5, ReleaseFacts
  <2>2. Len(queue') = Len(queue) - Len(queue)
    BY <1>2, <1>4
  <2> QED
    BY <1>1, <1>2, <1>3, <1>7, <2>1, <2>2, AccountKept DEF JitterInv
<1> QED
  BY <1>7, <1>8, <1>9, <1>10 DEF JitterInv

\* A new target changes nothing that is held.
LEMMA SetTargetKeeps ==
  ASSUME JitterInv, NEW packets \in Nat, SetTarget(packets)
  PROVE  JitterInv'
<1>1. target' \in 1..MaxQueued
  BY JitterAssumption DEF SetTarget
<1>2. UNCHANGED <<queue, next, generation, stats, released, discarded, slots>>
  BY DEF SetTarget
<1>3. JitterTypes'
  BY <1>1, <1>2 DEF JitterInv, JitterTypes
<1> QED
  BY <1>2, <1>3 DEF JitterInv, EveryPacketCounted

\* A step that changes nothing keeps the invariant.
LEMMA JitterStutters == JitterInv /\ UNCHANGED jitterVars => JitterInv'
BY DEF JitterInv, JitterTypes, EveryPacketCounted, jitterVars

\* The invariant is inductive.
LEMMA JitterInvNext == JitterInv /\ [JitterNext]_jitterVars => JitterInv'
<1> SUFFICES ASSUME JitterInv, [JitterNext]_jitterVars PROVE JitterInv'
  OBVIOUS
<1>1. ASSUME NEW packet \in Packets, NEW gen \in Generations, Push(packet, gen)
      PROVE  JitterInv'
  BY <1>1, PushStaleKeeps, PushCurrentKeeps DEF Push
<1>2. CASE Pop
  BY <1>2, PopKeeps
<1>3. CASE Drain
  BY <1>3, DrainKeeps
<1>4. ASSUME NEW packets \in {0, 1, MaxQueued + 1}, SetTarget(packets)
      PROVE  JitterInv'
  BY <1>4, SetTargetKeeps, JitterAssumption
<1>5. CASE UNCHANGED jitterVars
  BY <1>5, JitterStutters
<1> QED
  BY <1>1, <1>2, <1>3, <1>4, <1>5 DEF JitterNext

-----------------------------------------------------------------------------
(* The properties.                                                         *)

\* The queue stays sorted and within its packet ceiling, nothing held is as
\* old as what was released, and next_sequence is ahead of it (jitter.rs).
THEOREM JitterSafe == JitterSpec => []JitterInv
BY JitterInvInit, JitterInvNext, PTL DEF JitterSpec

\* JitterStats accounts for every packet that arrived (jitter.rs, push, pop,
\* drain).
THEOREM PacketsAreCounted == JitterSpec => []EveryPacketCounted
<1>1. JitterInv => EveryPacketCounted
  BY DEF JitterInv
<1> QED
  BY <1>1, JitterSafe, PTL

\* `lost` is exact while nothing is shed or drained (jitter.rs, pop).
THEOREM SlotsAreCounted == JitterSpec => []SlotsCounted
<1>1. JitterInv => SlotsCounted
  BY DEF JitterInv, InStep, SlotsCounted
<1> QED
  BY <1>1, JitterSafe, PTL

\* Audio is handed on in order, whatever arrives (jitter.rs, pop, drain).
THEOREM AudioIsInOrder == JitterSpec => ReleasedInOrder
<1>1. ASSUME JitterInv, [JitterNext]_jitterVars
      PROVE  [stats'["released"] # stats["released"] => Newer(released', released)]_jitterVars
  <2>0. JitterTypes
    BY <1>1 DEF JitterInv
  <2>1. ASSUME NEW packet \in Packets, NEW gen \in Generations, Push(packet, gen)
        PROVE  stats'["released"] = stats["released"]
    BY <2>0, <2>1 DEF Push, PushStale, PushCurrent, Count, ShedCounters, JitterTypes, Counters
  <2>2. CASE Pop
    <3>1. queue \in Seq(Packets) /\ queue # <<>>
      BY <2>0, <2>2 DEF JitterTypes, Pop
    <3>2. 1 \in 1..Len(queue) /\ Head(queue) = queue[1]
      BY <3>1
    <3>3. released' = <<generation, queue[1].seq>>
      BY <2>2, <3>2 DEF Pop
    <3> QED
      BY <1>1, <2>0, <3>2, <3>3 DEF JitterInv, JitterTypes, Ahead, Newer
  <2>3. CASE Drain
    <3>1. queue \in Seq(Packets) /\ queue # <<>>
      BY <2>0, <2>3 DEF JitterTypes, Drain
    <3>2. Len(queue) \in 1..Len(queue)
      BY <3>1
    <3>3. released' = <<generation, queue[Len(queue)].seq>>
      BY <2>3 DEF Drain
    <3> QED
      BY <1>1, <2>0, <3>2, <3>3 DEF JitterInv, JitterTypes, Ahead, Newer
  <2>4. ASSUME NEW packets, SetTarget(packets)
        PROVE  stats'["released"] = stats["released"]
    BY <2>4 DEF SetTarget
  <2> QED
    BY <1>1, <2>1, <2>2, <2>3, <2>4 DEF JitterNext, jitterVars
<1> QED
  BY <1>1, JitterSafe, PTL DEF JitterSpec, ReleasedInOrder

-----------------------------------------------------------------------------
(* The bytes held.  That queued_bytes is their sum is kept by handing the  *)
(* sums of the first n packets from step to step.                          *)

Sums(sum, held) ==
  /\ sum \in [0..Len(held) -> Int] /\ sum[0] = 0
  /\ \A n \in 1..Len(held) : sum[n] = sum[n - 1] + held[n].size

Summed(held, total) == \E sum : Sums(sum, held) /\ total = sum[Len(held)]

\* HeldBytes is that sum.
LEMMA HeldIsSummed ==
  ASSUME queue \in Seq(Packets), Summed(queue, bytes)
  PROVE  bytes = HeldBytes
<1> DEFINE n0 == Len(queue)
           Adds(f) == f = [n \in 0..n0 |-> IF n = 0 THEN 0 ELSE f[n - 1] + queue[n].size]
           upTo == CHOOSE f : Adds(f)
<1>1. n0 \in Nat
  OBVIOUS
<1>2. PICK sum : Sums(sum, queue) /\ bytes = sum[n0]
  BY DEF Summed
<1>3. HeldBytes = upTo[n0]
  BY DEF HeldBytes
<1>4. Adds(sum)
  <2>1. \A n \in 0..n0 : sum[n] = IF n = 0 THEN 0 ELSE sum[n - 1] + queue[n].size
    BY <1>1, <1>2 DEF Sums
  <2>2. sum = [n \in 0..n0 |-> sum[n]]
    BY <1>2 DEF Sums
  <2> QED
    BY <2>1, <2>2
<1>5. Adds(upTo)
  <2> HIDE DEF Adds
  <2> QED
    BY <1>4
<1> HIDE DEF upTo, n0
<1> DEFINE Apart == {n \in 0..n0 : upTo[n] # sum[n]}
<1>6. Apart = {}
  <2> SUFFICES ASSUME Apart # {} PROVE FALSE
    OBVIOUS
  <2>1. Apart \in SUBSET Nat
    BY <1>1
  <2> HIDE DEF Apart
  <2>2. PICK n \in Apart : \A m \in Apart : n <= m
    BY <2>1, Least
  <2> USE DEF Apart
  <2>3. n \in 0..n0 /\ upTo[n] # sum[n]
    BY <2>2
  <2>4. /\ upTo[n] = IF n = 0 THEN 0 ELSE upTo[n - 1] + queue[n].size
        /\ sum[n] = IF n = 0 THEN 0 ELSE sum[n - 1] + queue[n].size
    BY <1>4, <1>5, <2>3
  <2>5. n # 0
    BY <2>3, <2>4
  <2>6. n - 1 \in 0..n0 /\ ~(n <= n - 1)
    BY <1>1, <2>3, <2>5
  <2>7. n - 1 \notin Apart
    BY <2>2, <2>6
  <2> QED
    BY <2>3, <2>4, <2>5, <2>6, <2>7
<1>7. n0 \in 0..n0
  BY <1>1
<1> QED
  BY <1>2, <1>3, <1>6, <1>7 DEF n0

LEMMA SummedEmpty == Summed(<<>>, 0)
<1> DEFINE none == [n \in 0..0 |-> 0]
<1>1. Sums(none, <<>>) /\ none[Len(<<>>)] = 0
  BY DEF Sums
<1> QED
  BY <1>1 DEF Summed

LEMMA SummedSizes ==
  ASSUME NEW held \in Seq(Packets)
  PROVE  /\ Len(held) \in Nat /\ \A i \in 1..Len(held) : held[i].size \in Nat
         /\ \A packet \in Packets : packet.size \in Nat
<1>1. \A packet \in Packets : packet.size \in Nat
  BY JitterAssumption DEF Packets
<1>2. \A i \in 1..Len(held) : held[i] \in Packets
  OBVIOUS
<1> QED
  BY <1>1, <1>2

LEMMA SummedTail ==
  ASSUME NEW held \in Seq(Packets), held # <<>>, NEW total, Summed(held, total)
  PROVE  Summed(Tail(held), total - Head(held).size)
<1>1. PICK sum : Sums(sum, held) /\ total = sum[Len(held)]
  BY DEF Summed
<1>2. /\ Len(held) \in Nat \ {0} /\ held[1].size \in Nat /\ Head(held) = held[1]
      /\ Len(Tail(held)) = Len(held) - 1
      /\ \A i \in 1..(Len(held) - 1) : Tail(held)[i] = held[i + 1]
      /\ \A i \in 1..Len(held) : held[i].size \in Nat
  <2>1. Len(held) \in Nat \ {0} /\ 1 \in 1..Len(held)
    OBVIOUS
  <2> QED
    BY <2>1, TailFacts, SummedSizes
<1> DEFINE left == [n \in 0..(Len(held) - 1) |-> sum[n + 1] - held[1].size]
<1>3. \A n \in 0..(Len(held) - 1) : n + 1 \in 0..Len(held) /\ n + 1 \in 1..Len(held) /\ n + 1 - 1 = n
  BY <1>2
<1>4. \A n \in 0..Len(held) : sum[n] \in Int
  BY <1>1 DEF Sums
<1>5. left \in [0..(Len(held) - 1) -> Int]
  BY <1>2, <1>3, <1>4
<1>6. left[0] = 0
  <2>1. 0 \in 0..(Len(held) - 1) /\ 1 \in 1..Len(held)
    BY <1>2
  <2>2. sum[1] = sum[0] + held[1].size /\ sum[0] = 0
    BY <1>1, <2>1 DEF Sums
  <2> QED
    BY <1>2, <2>1, <2>2
<1>7. \A n \in 1..(Len(held) - 1) : left[n] = left[n - 1] + Tail(held)[n].size
  <2> SUFFICES ASSUME NEW n \in 1..(Len(held) - 1)
               PROVE  left[n] = left[n - 1] + Tail(held)[n].size
    OBVIOUS
  <2>1. /\ n \in 0..(Len(held) - 1) /\ n - 1 \in 0..(Len(held) - 1) /\ n - 1 + 1 = n
        /\ n + 1 \in 1..Len(held) /\ n \in 0..Len(held) /\ n + 1 - 1 = n
    BY <1>2
  <2>2. sum[n + 1] = sum[n] + held[n + 1].size
    BY <1>1, <2>1 DEF Sums
  <2>3. left[n] = sum[n + 1] - held[1].size /\ left[n - 1] = sum[n] - held[1].size
    BY <2>1
  <2>4. sum[n] \in Int /\ held[n + 1].size \in Nat /\ Tail(held)[n] = held[n + 1]
    BY <1>2, <1>4, <2>1
  <2> HIDE DEF left
  <2> QED
    BY <1>2, <2>2, <2>3, <2>4
<1>8. left[Len(held) - 1] = total - held[1].size
  BY <1>1, <1>2
<1> HIDE DEF left
<1> QED
  BY <1>2, <1>5, <1>6, <1>7, <1>8 DEF Summed, Sums

LEMMA SummedInsert ==
  ASSUME NEW held \in Seq(Packets), Sorted(held), NEW total, Summed(held, total),
         NEW packet \in Packets, ~Held(packet.seq, held)
  PROVE  Summed(Insert(held, packet), total + packet.size)
<1>1. PICK sum : Sums(sum, held) /\ total = sum[Len(held)]
  BY DEF Summed
<1>2. PICK place \in 0..Len(held) :
        Insert(held, packet) =
          [i \in 1..(Len(held) + 1) |->
             IF i <= place THEN held[i] ELSE IF i = place + 1 THEN packet ELSE held[i - 1]]
  BY InsertFacts
<1> DEFINE all == Insert(held, packet)
           more == [n \in 0..(Len(held) + 1) |->
                      IF n <= place THEN sum[n] ELSE sum[n - 1] + packet.size]
<1>3. /\ Len(held) \in Nat /\ packet.size \in Nat /\ Len(all) = Len(held) + 1
      /\ \A i \in 1..Len(held) : held[i].size \in Nat
  BY InsertFacts, SummedSizes
<1>4. /\ \A n \in 0..Len(held) : sum[n] \in Int
      /\ sum[0] = 0 /\ \A n \in 1..Len(held) : sum[n] = sum[n - 1] + held[n].size
  BY <1>1 DEF Sums
<1>5. \A n \in 0..(Len(held) + 1) :
        IF n <= place THEN n \in 0..Len(held) ELSE n - 1 \in 0..Len(held)
  BY <1>3
<1>6. more \in [0..(Len(held) + 1) -> Int]
  <2>1. ASSUME NEW n \in 0..(Len(held) + 1)
        PROVE  (IF n <= place THEN sum[n] ELSE sum[n - 1] + packet.size) \in Int
    <3>1. CASE n <= place
      BY <1>4, <1>5, <3>1
    <3>2. CASE ~(n <= place)
      <4>1. sum[n - 1] \in Int
        BY <1>4, <1>5, <3>2
      <4> QED
        BY <1>3, <3>2, <4>1
    <3> QED
      BY <3>1, <3>2
  <2> QED
    BY <2>1
<1>7. more[0] = 0 /\ more[Len(held) + 1] = total + packet.size
  BY <1>1, <1>3, <1>4
<1>8. ASSUME NEW n \in 1..(Len(held) + 1) PROVE more[n] = more[n - 1] + all[n].size
  <2>0. n \in 0..(Len(held) + 1) /\ n - 1 \in 0..(Len(held) + 1) /\ n \in Int /\ place \in Int
    BY <1>3
  <2>1. CASE n <= place
    <3>1. n - 1 <= place /\ n \in 1..Len(held) /\ all[n] = held[n]
      BY <1>2, <1>3, <2>1
    <3>2. more[n] = sum[n] /\ more[n - 1] = sum[n - 1]
      BY <2>0, <2>1, <3>1
    <3> QED
      BY <1>4, <3>1, <3>2
  <2>2. CASE n = place + 1
    <3>1. all[n] = packet /\ ~(n <= place) /\ n - 1 <= place /\ n - 1 = place
      BY <1>2, <1>3, <2>2
    <3>2. more[n] = sum[n - 1] + packet.size /\ more[n - 1] = sum[n - 1]
      BY <2>0, <3>1
    <3> QED
      BY <3>1, <3>2
  <2>3. CASE n > place + 1
    <3>1. /\ all[n] = held[n - 1] /\ ~(n <= place) /\ ~(n - 1 <= place) /\ n - 1 \in 1..Len(held)
          /\ n - 1 - 1 \in 0..Len(held)
      BY <1>2, <1>3, <2>3
    <3>2. more[n] = sum[n - 1] + packet.size /\ more[n - 1] = sum[n - 1 - 1] + packet.size
      BY <2>0, <3>1
    <3>3. sum[n - 1] = sum[n - 1 - 1] + held[n - 1].size
      BY <1>4, <3>1
    <3>4. sum[n - 1] \in Int /\ sum[n - 1 - 1] \in Int /\ held[n - 1].size \in Nat /\ packet.size \in Nat
      BY <1>3, <1>4, <3>1
    <3> HIDE DEF more
    <3> QED
      BY <3>1, <3>2, <3>3, <3>4
  <2> QED
    BY <2>0, <2>1, <2>2, <2>3
<1> HIDE DEF more, all
<1> QED
  BY <1>3, <1>6, <1>7, <1>8 DEF Summed, Sums, all

LEMMA BytesNext ==
  ASSUME JitterInv, Summed(queue, bytes), [JitterNext]_jitterVars
  PROVE  Summed(queue, bytes)'
<1>0. queue \in Seq(Packets) /\ Sorted(queue)
  BY DEF JitterInv, JitterTypes
<1>1. CASE UNCHANGED <<queue, bytes>>
  BY <1>1
<1>2. ASSUME NEW packet \in Packets, NEW gen \in Generations, PushCurrent(packet, gen)
      PROVE  Summed(queue, bytes)'
  <2> DEFINE renewed == gen > generation
             held  == IF renewed THEN <<>> ELSE queue
             total == IF renewed THEN 0 ELSE bytes
  <2>1. held \in Seq(Packets) /\ Sorted(held) /\ Summed(held, total)
    BY <1>0, SummedEmpty DEF Sorted
  <2>2. \/ queue' = held /\ bytes' = total
        \/ ~Held(packet.seq, held) /\ queue' = Insert(held, packet) /\ bytes' = total + packet.size
        \/ /\ ~Held(packet.seq, held) /\ held # <<>>
           /\ queue' = Insert(Tail(held), packet)
           /\ bytes' = total - Head(held).size + packet.size
    BY <1>2 DEF PushCurrent
  <2> HIDE DEF held, total
  <2>3. CASE queue' = held /\ bytes' = total
    BY <2>1, <2>3
  <2>4. CASE ~Held(packet.seq, held) /\ queue' = Insert(held, packet) /\ bytes' = total + packet.size
    <3>1. Summed(Insert(held, packet), total + packet.size)
      BY <2>1, <2>4, SummedInsert
    <3> QED
      BY <2>4, <3>1
  <2>5. CASE /\ ~Held(packet.seq, held) /\ held # <<>>
             /\ queue' = Insert(Tail(held), packet)
             /\ bytes' = total - Head(held).size + packet.size
    <3>1. Summed(Tail(held), total - Head(held).size)
      BY <2>1, <2>5, SummedTail
    <3>2. Tail(held) \in Seq(Packets) /\ Sorted(Tail(held)) /\ ~Held(packet.seq, Tail(held))
      BY <2>1, <2>5, TailFacts, ElementFacts DEF Sorted, Held
    <3>3. Summed(Insert(Tail(held), packet), total - Head(held).size + packet.size)
      BY <3>1, <3>2, SummedInsert
    <3> QED
      BY <2>5, <3>3
  <2> QED
    BY <2>2, <2>3, <2>4, <2>5
<1>3. CASE Pop
  <2>1. queue # <<>> /\ queue' = Tail(queue) /\ bytes' = bytes - Head(queue).size
    BY <1>3 DEF Pop
  <2>2. Summed(Tail(queue), bytes - Head(queue).size)
    BY <1>0, <2>1, SummedTail
  <2> QED
    BY <2>1, <2>2
<1>4. CASE Drain
  BY <1>4, SummedEmpty DEF Drain
<1> QED
  BY <1>1, <1>2, <1>3, <1>4 DEF JitterNext, jitterVars, Push, PushStale, SetTarget

\* The queue keeps its packet ceiling and queued_bytes is exact, for any
\* packets (jitter.rs).
THEOREM JitterTyped == JitterSpec => []JitterTypeOK
<1>1. JitterInit => Summed(queue, bytes)
  BY SummedEmpty DEF JitterInit
<1>2. JitterInv /\ Summed(queue, bytes) => JitterTypeOK
  BY HeldIsSummed DEF JitterInv, JitterTypes, JitterTypeOK
<1>3. JitterInv /\ Summed(queue, bytes) /\ [JitterNext]_jitterVars => Summed(queue, bytes)'
  BY BytesNext
<1> QED
  BY <1>1, <1>2, <1>3, JitterSafe, PTL DEF JitterSpec

-----------------------------------------------------------------------------
(***************************************************************************)
(* JamSession.                                                             *)
(*                                                                         *)
(* The queues between worker and server are reasoned about as the sets of  *)
(* what is in them.  The invariant follows the handshake: what may be under*)
(* way while joining (JoinUnderWay), once joined (Linked) and without a    *)
(* connection (Unlinked), and that a participant that never took everything*)
(* is in mode explicit before it is eligible, with no request under way    *)
(* that would change it (Choosing).                                        *)
(***************************************************************************)

-----------------------------------------------------------------------------
(* The queues of the session, as the sets of what is in them.              *)

LEMMA OnEmpty ==
  ASSUME NEW S
  PROVE  <<>> \in Seq(S) /\ ToSet(<<>>) = {}
BY DEF ToSet

LEMMA OnSent ==
  ASSUME NEW S, NEW q \in Seq(S), NEW x \in S
  PROVE  /\ Append(q, x) \in Seq(S) /\ Append(q, x) # <<>>
         /\ ToSet(Append(q, x)) = ToSet(q) \cup {x}
<1>1. /\ DOMAIN Append(q, x) = 1..(Len(q) + 1) /\ DOMAIN q = 1..Len(q) /\ Len(q) \in Nat
      /\ \A k \in 1..Len(q) : Append(q, x)[k] = q[k]
      /\ Append(q, x)[Len(q) + 1] = x
  OBVIOUS
<1>2. ToSet(Append(q, x)) \subseteq ToSet(q) \cup {x}
  BY <1>1 DEF ToSet
<1>3. ToSet(q) \cup {x} \subseteq ToSet(Append(q, x))
  BY <1>1 DEF ToSet
<1>4. Append(q, x) \in Seq(S) /\ Append(q, x) # <<>>
  BY <1>1
<1> QED
  BY <1>2, <1>3, <1>4

LEMMA OnRead ==
  ASSUME NEW S, NEW q \in Seq(S), q # <<>>
  PROVE  /\ Tail(q) \in Seq(S) /\ Head(q) \in S
         /\ ToSet(q) = {Head(q)} \cup ToSet(Tail(q))
<1>1. /\ Tail(q) \in Seq(S) /\ Head(q) \in S /\ Head(q) = q[1]
      /\ DOMAIN Tail(q) = 1..(Len(q) - 1) /\ DOMAIN q = 1..Len(q) /\ Len(q) \in Nat \ {0}
      /\ \A k \in 1..(Len(q) - 1) : Tail(q)[k] = q[k + 1]
  OBVIOUS
<1>2. ToSet(Tail(q)) \subseteq ToSet(q)
  <2>1. \A k \in 1..(Len(q) - 1) : k + 1 \in 1..Len(q)
    BY <1>1
  <2> QED
    BY <1>1, <2>1 DEF ToSet
<1>3. \A k \in 1..Len(q) : q[k] = Head(q) \/ q[k] \in ToSet(Tail(q))
  <2> TAKE k \in 1..Len(q)
  <2>1. CASE k = 1
    BY <1>1, <2>1
  <2>2. CASE k # 1
    <3>1. k - 1 \in 1..(Len(q) - 1) /\ (k - 1) + 1 = k
      BY <1>1, <2>2
    <3> QED
      BY <1>1, <3>1 DEF ToSet
  <2> QED
    BY <2>1, <2>2
<1>4. Head(q) \in ToSet(q)
  BY <1>1 DEF ToSet
<1> QED
  BY <1>1, <1>2, <1>3, <1>4 DEF ToSet

LEMMA OnJoined ==
  ASSUME NEW S, NEW p \in Seq(S), NEW q \in Seq(S)
  PROVE  /\ p \o q \in Seq(S)
         /\ ToSet(p \o q) = ToSet(p) \cup ToSet(q)
<1>1. /\ p \o q \in Seq(S)
      /\ DOMAIN p = 1..Len(p) /\ DOMAIN q = 1..Len(q) /\ Len(p) \in Nat /\ Len(q) \in Nat
      /\ DOMAIN (p \o q) = 1..(Len(p) + Len(q))
      /\ \A k \in 1..(Len(p) + Len(q)) :
           (p \o q)[k] = IF k <= Len(p) THEN p[k] ELSE q[k - Len(p)]
  OBVIOUS
<1>2. ToSet(p) \subseteq ToSet(p \o q)
  <2>1. \A k \in 1..Len(p) : k \in 1..(Len(p) + Len(q)) /\ (p \o q)[k] = p[k]
    BY <1>1
  <2> QED
    BY <1>1, <2>1 DEF ToSet
<1>3. ToSet(q) \subseteq ToSet(p \o q)
  <2>1. \A k \in 1..Len(q) : k + Len(p) \in 1..(Len(p) + Len(q)) /\ (p \o q)[k + Len(p)] = q[k]
    BY <1>1
  <2> QED
    BY <1>1, <2>1 DEF ToSet
<1>4. ToSet(p \o q) \subseteq ToSet(p) \cup ToSet(q)
  <2>1. \A k \in 1..(Len(p) + Len(q)) :
          IF k <= Len(p) THEN k \in 1..Len(p) ELSE k - Len(p) \in 1..Len(q)
    BY <1>1
  <2> QED
    BY <1>1, <2>1 DEF ToSet
<1> QED
  BY <1>1, <1>2, <1>3, <1>4

LEMMA MessagesJoined ==
  ASSUME NEW p \in Seq(Messages), NEW q \in Seq(Messages)
  PROVE  /\ p \o q \in Seq(Messages)
         /\ ToSet(p \o q) = ToSet(p) \cup ToSet(q)
BY OnJoined

LEMMA OnTaken ==
  ASSUME NEW S, NEW q \in Seq(S), NEW i \in 1..Len(q)
  PROVE  /\ SubSeq(q, 1, i - 1) \in Seq(S) /\ SubSeq(q, i + 1, Len(q)) \in Seq(S)
         /\ q[i] \in S /\ q[i] \in ToSet(q)
         /\ ToSet(SubSeq(q, 1, i - 1)) \subseteq ToSet(q)
         /\ ToSet(SubSeq(q, i + 1, Len(q))) \subseteq ToSet(q)
<1>1. /\ DOMAIN q = 1..Len(q) /\ Len(q) \in Nat /\ i \in Nat /\ i >= 1 /\ i <= Len(q)
      /\ \A k \in 1..Len(q) : q[k] \in S
  OBVIOUS
<1>2. \A k \in 1..(i - 1) : k \in 1..Len(q)
  BY <1>1
<1>3. \A k \in 1..(Len(q) - i) : i + k \in 1..Len(q)
  BY <1>1
<1>4. /\ SubSeq(q, 1, i - 1) \in Seq(S)
      /\ DOMAIN SubSeq(q, 1, i - 1) = 1..(i - 1)
      /\ \A k \in 1..(i - 1) : SubSeq(q, 1, i - 1)[k] = q[k]
  BY <1>1, <1>2
<1>5. /\ SubSeq(q, i + 1, Len(q)) \in Seq(S)
      /\ DOMAIN SubSeq(q, i + 1, Len(q)) = 1..(Len(q) - i)
      /\ \A k \in 1..(Len(q) - i) : SubSeq(q, i + 1, Len(q))[k] = q[i + k]
  BY <1>1, <1>3
<1>6. ToSet(SubSeq(q, 1, i - 1)) \subseteq ToSet(q)
  BY <1>1, <1>2, <1>4 DEF ToSet
<1>7. ToSet(SubSeq(q, i + 1, Len(q))) \subseteq ToSet(q)
  BY <1>1, <1>3, <1>5 DEF ToSet
<1> QED
  BY <1>1, <1>4, <1>5, <1>6, <1>7 DEF ToSet

\* The formats of a set of streams are an event for each of them.
LEMMA FormatEvents ==
  ASSUME NEW S \in SUBSET Streams
  PROVE  /\ Formats(S) \in Seq(Messages)
         /\ ToSet(Formats(S)) = {Event("format", s) : s \in S}
<1>1. IsFiniteSet(S)
  BY JamSessionAssumption, FS_Subset
<1>2. Cardinality(S) \in Nat /\ ExistsBijection(1..Cardinality(S), S)
  BY <1>1, FS_CardinalityType
<1> DEFINE n == Cardinality(S)
           f == SetToSeq(S)
<1>3. PICK g \in Bijection(1..n, S) : TRUE
  BY <1>2 DEF ExistsBijection
<1>4. g \in [1..n -> S] /\ IsInjective(g)
  BY <1>3 DEF Bijection, Injection, IsInjective
<1>5. f \in [1..n -> S] /\ IsInjective(f)
  BY <1>4 DEF SetToSeq
<1>6. f \in Injection(1..n, S)
  BY <1>5 DEF Injection, IsInjective
<1>7. f \in Surjection(1..n, S)
  <2>1. IsFiniteSet(1..n) /\ Cardinality(1..n) = n
    BY <1>2, FS_Interval
  <2> QED
    BY <1>1, <1>6, <2>1, FS_Injection
<1>8. \A s \in S : \E i \in 1..n : f[i] = s
  BY <1>7 DEF Surjection
<1>9. \A s \in S : Event("format", s) \in Messages
  BY DEF Event, Messages
<1>10. /\ Formats(S) = [i \in 1..n |-> Event("format", f[i])]
       /\ \A i \in 1..n : f[i] \in S
  BY <1>5 DEF Formats
<1> HIDE DEF f, n
<1>11. n \in Nat
  BY <1>2 DEF n
<1>12. Formats(S) \in Seq(Messages)
  BY <1>9, <1>10, <1>11
<1>13. DOMAIN Formats(S) = 1..n /\ \A i \in 1..n : Formats(S)[i] = Event("format", f[i])
  BY <1>10
<1> QED
  BY <1>8, <1>10, <1>12, <1>13 DEF ToSet

-----------------------------------------------------------------------------
(* Types.                                                                  *)

Queues ==
  /\ toServer \in Seq(Asks) /\ wire \in Seq(Messages) /\ pending \in Seq(Messages)

SessionTypes == SessionTypeOK /\ Queues

LEMMA QueuesFresh ==
  ASSUME Disconnect
  PROVE  Queues' /\ ToSet(toServer') = {} /\ ToSet(wire') = {} /\ ToSet(pending') = {}
BY OnEmpty DEF Disconnect, Queues

\* The shape of a message follows from its kind.
LEMMA Shapes ==
  ASSUME NEW m \in Messages
  PROVE  /\ m.kind \in {"added", "removed", "left", "format"} => m.stream \in Streams
         /\ m.kind = "joined" => m.resumed \in BOOLEAN /\ m.streams \subseteq Streams
         /\ m.kind = "ack" => /\ m.mode \in {"auto", "explicit"}
                              /\ m.held \subseteq Streams /\ m.dropped \subseteq Streams
BY DEF Messages

\* A queue's elements.
LEMMA Elements ==
  ASSUME NEW S, NEW q \in Seq(S)
  PROVE  /\ \A x \in ToSet(q) : x \in S
         /\ \A i \in 1..Len(q) : q[i] \in S
BY DEF ToSet

\* What a reply takes out of the queue, and what it sets aside.
LEMMA OnReceived ==
  ASSUME Queues, NEW reply, Receive(reply)
  PROVE  /\ reply \in Messages /\ reply \in ToSet(wire)
         /\ wire' \in Seq(Messages) /\ pending' \in Seq(Messages)
         /\ ToSet(wire') \subseteq ToSet(wire)
         /\ ToSet(pending') \subseteq ToSet(pending) \cup ToSet(wire)
<1>1. PICK i \in 1..Len(wire) :
        /\ reply = wire[i]
        /\ pending' = pending \o SubSeq(wire, 1, i - 1)
        /\ wire' = SubSeq(wire, i + 1, Len(wire))
  BY DEF Receive
<1>2. /\ SubSeq(wire, 1, i - 1) \in Seq(Messages) /\ SubSeq(wire, i + 1, Len(wire)) \in Seq(Messages)
      /\ wire[i] \in Messages /\ wire[i] \in ToSet(wire)
      /\ ToSet(SubSeq(wire, 1, i - 1)) \subseteq ToSet(wire)
      /\ ToSet(SubSeq(wire, i + 1, Len(wire))) \subseteq ToSet(wire)
  BY OnTaken DEF Queues
<1>3. /\ pending' \in Seq(Messages)
      /\ ToSet(pending') = ToSet(pending) \cup ToSet(SubSeq(wire, 1, i - 1))
  <2> DEFINE before == SubSeq(wire, 1, i - 1)
  <2>1. pending \in Seq(Messages) /\ before \in Seq(Messages) /\ pending' = pending \o before
    BY <1>1, <1>2 DEF Queues
  <2> HIDE DEF before
  <2>2. pending' \in Seq(Messages) /\ ToSet(pending') = ToSet(pending) \cup ToSet(before)
    BY ONLY <2>1, OnJoined
  <2> QED
    BY <2>2 DEF before
<1> QED
  BY <1>1, <1>2, <1>3

\* What a reconcile asks for.
LEMMA Additions ==
  ASSUME SessionTypes, NEW md, NEW held \in SUBSET Streams
  PROVE  \A a \in TakeNext(md, held) : a \in Asks /\ a.kind = "take" /\ a.ids \subseteq wanted
<1> DEFINE add == IF md = "auto" THEN Want ELSE Want \ held
<1>1. add \in SUBSET Streams /\ add \subseteq wanted
  BY DEF Want, SessionTypes, SessionTypeOK
<1>2. TakeNext(md, held) = IF add = {} THEN {} ELSE {Ask("take", add)}
  BY DEF TakeNext
<1> HIDE DEF add
<1>3. epoch \in Nat
  BY DEF SessionTypes, SessionTypeOK
<1>4. Ask("take", add) \in Asks /\ Ask("take", add).kind = "take" /\ Ask("take", add).ids = add
  BY <1>1, <1>3 DEF Ask, Asks, Requests
<1> QED
  BY <1>1, <1>2, <1>4

Reconciling == {"silence", "drop", "take", "all"}

LEMMA Needed ==
  ASSUME SessionTypes
  PROVE  \A a \in FirstNeeded :
           /\ a \in Asks /\ a.kind \in Reconciling
           /\ a.kind = "take" => a.ids \subseteq wanted
           /\ a.kind = "all" => ingress = "everything"
<1>1. epoch \in Nat /\ ingress \in {"everything", "routed"} /\ subscribed \in SUBSET Streams
  BY DEF SessionTypes, SessionTypeOK
<1>2. /\ Ask("all", {}) \in Asks /\ Ask("all", {}).kind = "all"
      /\ Ask("silence", {}) \in Asks /\ Ask("silence", {}).kind = "silence"
  BY <1>1 DEF Ask, Asks, Requests
<1>3. /\ Ask("drop", subscribed \ Want) \in Asks
      /\ Ask("drop", subscribed \ Want).kind = "drop"
  BY <1>1 DEF Ask, Asks, Requests
<1>4. \A a \in TakeNext(serverMode, subscribed) :
        a \in Asks /\ a.kind = "take" /\ a.ids \subseteq wanted
  BY <1>1, Additions
<1>5. CASE ingress = "everything"
  BY <1>2, <1>5 DEF FirstNeeded, Reconciling
<1>6. CASE ingress = "routed" /\ Want = {}
  BY <1>2, <1>6 DEF FirstNeeded, Reconciling
<1>7. CASE ingress = "routed" /\ Want # {}
  BY <1>3, <1>4, <1>7 DEF FirstNeeded, Reconciling
<1> QED
  BY <1>1, <1>5, <1>6, <1>7

-----------------------------------------------------------------------------
(* What a step of the server puts on its way.                              *)

Heard(m, S) == m.kind = "format" /\ m.stream \in S

LEMMA RequestRead ==
  ASSUME Queues, toServer # <<>>, toServer' = Tail(toServer)
  PROVE  /\ toServer' \in Seq(Asks) /\ Request \in Asks
         /\ Request.epoch \in Nat /\ Request.ids \subseteq Streams
         /\ ToSet(toServer) = {Request} \cup ToSet(toServer')
<1>1. toServer' \in Seq(Asks) /\ Request \in Asks /\ ToSet(toServer) = {Request} \cup ToSet(toServer')
  BY OnRead DEF Queues, Request
<1> QED
  BY <1>1 DEF Asks

\* The answer to a join, and the participant it is about.
Attended(m) ==
  \/ /\ m.kind = "joined" /\ m.resumed = TRUE /\ attached' = TRUE
     /\ member # "none" /\ UNCHANGED <<member, mode, declared, eligible, tookAll>>
     /\ adrift' = (adrift \/ member = "unknown")
  \/ /\ m.kind = "rejected"
     /\ UNCHANGED <<member, attached, mode, declared, eligible, tookAll, adrift>>
  \/ /\ m.kind = "joined" /\ m.resumed = FALSE /\ attached' = TRUE /\ member' = "unknown"
     /\ mode' = "auto" /\ declared' = {} /\ eligible' = FALSE
     /\ UNCHANGED <<tookAll, adrift>>
  \/ /\ m.kind = "joined" /\ m.resumed = TRUE /\ attached' = TRUE /\ member' = "unknown"
     /\ mode' \in {"auto", "explicit"} /\ declared' \subseteq Offered /\ eligible' \in BOOLEAN
     /\ tookAll' = TRUE /\ adrift' = TRUE

LEMMA JoinServed ==
  ASSUME SessionTypes, ServeJoin
  PROVE  /\ Queues'
         /\ \E m \in Messages :
              /\ ToSet(wire') = ToSet(wire) \cup {m} /\ wire' = Append(wire, m)
              /\ m.kind = "joined" => m.streams = live
              /\ Attended(m)
<1>1. Request.epoch \in Nat /\ toServer' \in Seq(Asks)
  BY RequestRead DEF SessionTypes, ServeJoin
<1>2. /\ \A r \in BOOLEAN : Joined(r, Request) \in Messages
      /\ Plain("rejected", Request) \in Messages
  BY <1>1 DEF Joined, Plain, Messages, SessionTypes, SessionTypeOK
<1>3. /\ \A r \in BOOLEAN : /\ Joined(r, Request).kind = "joined"
                            /\ Joined(r, Request).resumed = r /\ Joined(r, Request).streams = live
      /\ Plain("rejected", Request).kind = "rejected"
  BY DEF Joined, Plain
<1>4. PICK m \in Messages :
        wire' = Append(wire, m) /\ (m.kind = "joined" => m.streams = live) /\ Attended(m)
  <2>1. CASE Refuse /\ UNCHANGED attached
    BY <1>2, <1>3, <2>1 DEF Refuse, Attended
  <2>2. CASE Reattach /\ attached' = TRUE
    BY <1>2, <1>3, <2>2 DEF Reattach, AtHome, Attended
  <2>3. CASE Admit /\ attached' = TRUE
    BY <1>2, <1>3, <2>3 DEF Admit, Attended
  <2>4. CASE Inherit /\ attached' = TRUE
    <3>1. declared' \subseteq Offered /\ mode' \in {"auto", "explicit"}
      BY <2>4 DEF Inherit
    <3> QED
      BY <1>2, <1>3, <2>4, <3>1 DEF Inherit, Attended
  <2> QED
    BY <2>1, <2>2, <2>3, <2>4 DEF ServeJoin
<1>5. wire' \in Seq(Messages) /\ ToSet(wire') = ToSet(wire) \cup {m}
  BY <1>4, OnSent DEF SessionTypes, Queues
<1>6. Queues'
  BY <1>1, <1>5 DEF Queues, ServeJoin, SessionTypes
<1> QED
  BY <1>4, <1>5, <1>6

\* The answer to a request for streams, and the formats of the streams it
\* adds to what the client is served.
LEMMA IngressServed ==
  ASSUME SessionTypes, ServeIngress
  PROVE  /\ Queues'
         /\ Request.kind \in Reconciling /\ Request \in ToSet(toServer)
         /\ mode' = IF Request.kind = "all" THEN "auto" ELSE "explicit"
         /\ declared' \subseteq declared \cup (IF Request.kind = "take" THEN Request.ids ELSE {})
         /\ declared' \subseteq Streams
         /\ \E ack \in Messages :
              /\ ack.kind = "ack"
              /\ ToSet(toServer) = {Request} \cup ToSet(toServer')
              /\ ToSet(wire) \cup {ack} \subseteq ToSet(wire')
              /\ \A m \in ToSet(wire') :
                   \/ m \in ToSet(wire) \/ m = ack
                   \/ eligible /\ m.kind = "format"
                      /\ m.stream \in (IF Request.kind = "all" THEN Offered ELSE declared')
<1> DEFINE named == Request.ids \cap Offered
           held == CASE Request.kind \in {"silence", "all"} -> {}
                     [] Request.kind = "drop" -> declared \ Request.ids
                     [] Request.kind = "take" /\ mode = "auto" -> named
                     [] Request.kind = "take" /\ mode # "auto" -> declared \cup named
           now == IF Request.kind = "all" THEN Offered ELSE held
           ack == Ack(Request, held, Served \ now)
           tail == IF eligible THEN Formats(now \ Served) ELSE <<>>
<1>1. /\ Request.kind \in Reconciling /\ toServer # <<>> /\ toServer' = Tail(toServer)
      /\ mode' = (IF Request.kind = "all" THEN "auto" ELSE "explicit")
      /\ declared' = held /\ wire' = (wire \o <<ack>>) \o tail /\ UNCHANGED pending
  BY DEF ServeIngress, Reconciling
<1>2. /\ toServer' \in Seq(Asks) /\ Request.epoch \in Nat /\ Request.ids \subseteq Streams
      /\ ToSet(toServer) = {Request} \cup ToSet(toServer')
  BY <1>1, RequestRead DEF SessionTypes
<1>3. /\ declared \subseteq Streams /\ Offered \subseteq Streams /\ mode \in {"auto", "explicit"}
      /\ wire \in Seq(Messages) /\ pending \in Seq(Messages)
  BY DEF SessionTypes, SessionTypeOK, Queues, Offered
<1>4. /\ held \subseteq declared \cup (IF Request.kind = "take" THEN Request.ids ELSE {})
      /\ held \subseteq Streams
  BY <1>1, <1>2, <1>3 DEF Reconciling
<1> HIDE DEF held
<1>5. now \subseteq Streams /\ Served \ now \subseteq Streams /\ now \ Served \in SUBSET Streams
  BY <1>3, <1>4 DEF Served
<1>6. ack \in Messages /\ ack.kind = "ack"
  BY <1>1, <1>2, <1>4, <1>5 DEF Ack, Messages
<1>7. /\ tail \in Seq(Messages)
      /\ \A m \in ToSet(tail) : eligible /\ m.kind = "format" /\ m.stream \in now
  BY <1>5, FormatEvents, OnEmpty DEF Event
<1> HIDE DEF ack, tail, now
<1>8. wire \o <<ack>> \in Seq(Messages) /\ ToSet(wire \o <<ack>>) = ToSet(wire) \cup {ack}
  <2>1. <<ack>> \in Seq(Messages) /\ ToSet(<<ack>>) = {ack} /\ wire \in Seq(Messages)
    BY <1>3, <1>6 DEF ToSet
  <2>2. wire \o <<ack>> \in Seq(Messages) /\ ToSet(wire \o <<ack>>) = ToSet(wire) \cup ToSet(<<ack>>)
    BY ONLY <2>1, MessagesJoined
  <2> QED
    BY <2>1, <2>2
<1> DEFINE before == wire \o <<ack>>
<1>9. wire' \in Seq(Messages) /\ ToSet(wire') = ToSet(wire) \cup {ack} \cup ToSet(tail)
  <2>1. before \in Seq(Messages) /\ tail \in Seq(Messages) /\ wire' = before \o tail
    BY <1>1, <1>7, <1>8
  <2> HIDE DEF before
  <2>2. wire' \in Seq(Messages) /\ ToSet(wire') = ToSet(before) \cup ToSet(tail)
    BY ONLY <2>1, MessagesJoined
  <2> QED
    BY <2>2, <1>8 DEF before
<1>10. Queues'
  BY <1>1, <1>2, <1>3, <1>9 DEF Queues
<1>11. \A m \in ToSet(wire') :
         \/ m \in ToSet(wire) \/ m = ack
         \/ eligible /\ m.kind = "format" /\ m.stream \in (IF Request.kind = "all" THEN Offered ELSE declared')
  BY <1>1, <1>7, <1>9 DEF now
<1> QED
  BY <1>1, <1>2, <1>4, <1>6, <1>9, <1>10, <1>11

\* What the client can decode is known: a format for all it is served.
LEMMA CapabilitiesServed ==
  ASSUME SessionTypes, ServeCapabilities
  PROVE  /\ Queues'
         /\ Request.kind = "capabilities" /\ Request \in ToSet(toServer)
         /\ ToSet(toServer) = {Request} \cup ToSet(toServer')
         /\ \E answer \in Messages :
              /\ answer.kind = "capabilities"
              /\ \A m \in ToSet(wire') :
                   m \in ToSet(wire) \/ m = answer \/ Heard(m, Served)
<1> DEFINE answer == Plain("capabilities", Request)
<1>1. /\ Request.kind = "capabilities" /\ toServer # <<>> /\ toServer' = Tail(toServer)
      /\ wire' = Append(wire, answer) \o Formats(Served) /\ UNCHANGED pending
  BY DEF ServeCapabilities
<1>2. /\ toServer' \in Seq(Asks) /\ Request.epoch \in Nat
      /\ ToSet(toServer) = {Request} \cup ToSet(toServer')
  BY <1>1, RequestRead DEF SessionTypes
<1>3. wire \in Seq(Messages) /\ pending \in Seq(Messages) /\ Served \in SUBSET Streams
  BY DEF SessionTypes, SessionTypeOK, Queues, Served, Offered
<1>4. answer \in Messages /\ answer.kind = "capabilities"
  BY <1>2 DEF Plain, Messages
<1>5. Formats(Served) \in Seq(Messages) /\ \A m \in ToSet(Formats(Served)) : Heard(m, Served)
  BY <1>3, FormatEvents DEF Event, Heard
<1> HIDE DEF answer
<1>6. Append(wire, answer) \in Seq(Messages) /\ ToSet(Append(wire, answer)) = ToSet(wire) \cup {answer}
  BY <1>3, <1>4, OnSent
<1>7. wire' \in Seq(Messages) /\ ToSet(wire') = ToSet(Append(wire, answer)) \cup ToSet(Formats(Served))
  <2>1. /\ Append(wire, answer) \in Seq(Messages) /\ Formats(Served) \in Seq(Messages)
        /\ wire' = Append(wire, answer) \o Formats(Served)
    BY <1>1, <1>5, <1>6
  <2> QED
    BY ONLY <2>1, MessagesJoined
<1>8. Queues'
  BY <1>1, <1>2, <1>3, <1>7 DEF Queues
<1> QED
  BY <1>1, <1>2, <1>4, <1>5, <1>6, <1>7, <1>8

\* News of the room.
LEMMA Announced ==
  ASSUME Queues, NEW events \in Seq(Messages), Announce(events)
  PROVE  /\ wire' \in Seq(Messages)
         /\ ToSet(wire') = ToSet(wire) \cup (IF attached THEN ToSet(events) ELSE {})
<1>1. wire \in Seq(Messages) /\ wire' = IF attached THEN wire \o events ELSE wire
  BY DEF Queues, Announce
<1>2. wire \o events \in Seq(Messages) /\ ToSet(wire \o events) = ToSet(wire) \cup ToSet(events)
  BY ONLY <1>1, events \in Seq(Messages), MessagesJoined
<1> QED
  BY <1>1, <1>2

LEMMA PublishServed ==
  ASSUME SessionTypes, NEW s \in Streams, Publish(s)
  PROVE  /\ Queues' /\ ToSet(wire) \subseteq ToSet(wire')
         /\ \A m \in ToSet(wire') :
              \/ m \in ToSet(wire)
              \/ attached /\ m.kind = "added"
              \/ attached /\ mode = "auto" /\ eligible /\ s \in Decodable /\ Heard(m, {s})
<1> DEFINE more == IF mode = "auto" /\ eligible /\ s \in Decodable THEN <<Event("format", s)>> ELSE <<>>
           news == <<Event("added", s)>>
           events == news \o more
<1>1. Event("added", s) \in Messages /\ Event("format", s) \in Messages
  BY DEF Event, Messages
<1>2. more \in Seq(Messages)
  BY <1>1
<1>3. \A m \in ToSet(more) :
        mode = "auto" /\ eligible /\ s \in Decodable /\ m = Event("format", s)
  BY DEF ToSet
<1>4. news \in Seq(Messages) /\ ToSet(news) = {Event("added", s)}
  BY <1>1 DEF ToSet
<1> HIDE DEF more, news
<1>5. events \in Seq(Messages) /\ ToSet(events) = {Event("added", s)} \cup ToSet(more)
  <2>1. ToSet(events) = ToSet(news) \cup ToSet(more) /\ events \in Seq(Messages)
    BY ONLY <1>2, <1>4, MessagesJoined
  <2> QED
    BY <2>1, <1>4
<1> HIDE DEF events
<1>6. Announce(events) /\ Queues /\ UNCHANGED <<toServer, pending>>
  BY DEF Publish, events, news, more, SessionTypes
<1>7. wire' \in Seq(Messages) /\ ToSet(wire') = ToSet(wire) \cup (IF attached THEN ToSet(events) ELSE {})
  BY ONLY <1>5, <1>6, Announced
<1>8. Queues'
  BY <1>6, <1>7 DEF Queues
<1>9. Event("added", s).kind = "added" /\ Heard(Event("format", s), {s})
  BY DEF Event, Heard
<1> QED
  BY <1>3, <1>5, <1>7, <1>8, <1>9

LEMMA WithdrawServed ==
  ASSUME SessionTypes, NEW s \in Streams, NEW kind \in {"removed", "left"}, Withdraw(s, kind)
  PROVE  /\ Queues' /\ ToSet(wire) \subseteq ToSet(wire')
         /\ \A m \in ToSet(wire') : m \in ToSet(wire) \/ (attached /\ m.kind = kind)
<1> DEFINE events == <<Event(kind, s)>>
<1>1. Event(kind, s) \in Messages /\ Event(kind, s).kind = kind
  BY DEF Event, Messages
<1>2. events \in Seq(Messages) /\ ToSet(events) = {Event(kind, s)}
  BY <1>1 DEF ToSet
<1>3. Announce(events) /\ Queues /\ UNCHANGED <<toServer, pending>>
  BY DEF Withdraw, SessionTypes
<1> HIDE DEF events
<1>4. wire' \in Seq(Messages) /\ ToSet(wire') = ToSet(wire) \cup (IF attached THEN ToSet(events) ELSE {})
  BY ONLY <1>2, <1>3, Announced
<1>5. Queues'
  BY <1>3, <1>4 DEF Queues
<1> QED
  BY <1>1, <1>2, <1>4, <1>5

LEMMA OnAsked ==
  ASSUME Queues, NEW a \in Asks, toServer' = Append(toServer, a)
  PROVE  toServer' \in Seq(Asks) /\ ToSet(toServer') = ToSet(toServer) \cup {a}
BY OnSent DEF Queues

\* The types without those of the queues.
StateTypes ==
  /\ phase \in Phases /\ request \in Requests \cup {NoRequest}
  /\ jam \in Jams \cup {NoJam} /\ token \in Jams \cup {NoJam}
  /\ jam # NoJam => token \in {jam, NoJam}
  /\ ingress \in {"everything", "routed"} /\ wanted \subseteq Streams
  /\ dirty \in BOOLEAN
  /\ subscribed \subseteq Streams /\ serverMode \in {"auto", "explicit"}
  /\ room \subseteq Streams /\ formats \subseteq room /\ table \subseteq Streams
  /\ epoch \in Nat
  /\ live \subseteq Streams /\ gone \subseteq Streams \ live
  /\ member \in {"none", "known", "unknown"} /\ home \in Jams \cup {NoJam}
  /\ attached \in BOOLEAN
  /\ mode \in {"auto", "explicit"} /\ declared \subseteq Streams
  /\ eligible \in BOOLEAN
  /\ asked \subseteq Streams /\ tookAll \in BOOLEAN
  /\ kept \subseteq Streams /\ adrift \in BOOLEAN

\* The counters keep to their bounds.
Counted == budget \in Budgets /\ epoch <= budget.faults

LEMMA TypesSplit == SessionTypes <=> StateTypes /\ Counted /\ Queues
<1>1. Queues => /\ \A i \in 1..Len(toServer) : toServer[i] \in Asks
                /\ \A m \in ToSet(pending) \cup ToSet(wire) : m \in Messages
  BY Elements DEF Queues
<1>2. SessionTypes => StateTypes /\ Counted /\ Queues
  BY DEF SessionTypes, SessionTypeOK, StateTypes, Counted
<1>3. StateTypes /\ Counted /\ Queues => SessionTypes
  BY <1>1 DEF SessionTypes, SessionTypeOK, StateTypes, Counted
<1> QED
  BY <1>2, <1>3

LEMMA TypesNext ==
  ASSUME StateTypes', Counted', Queues'
  PROVE  SessionTypes'
<1>1. (/\ \A i \in 1..Len(toServer) : toServer[i] \in Asks
       /\ \A m \in ToSet(pending) \cup ToSet(wire) : m \in Messages)'
  BY Elements DEF Queues
<1> QED
  BY <1>1 DEF SessionTypes, SessionTypeOK, StateTypes, Counted

\* What is spent stays within its bound.
LEMMA Spending ==
  ASSUME budget \in Budgets
  PROVE  /\ Spend("commands", MaxCommands) => budget' \in Budgets /\ budget'.faults = budget.faults
         /\ Spend("changes", MaxChanges) => budget' \in Budgets /\ budget'.faults = budget.faults
         /\ Spend("faults", MaxFaults) => budget' \in Budgets /\ budget'.faults = budget.faults + 1
BY JamSessionAssumption DEF Spend, Budgets

\* Every step keeps the counters to their bounds.
LEMMA CountedStep ==
  ASSUME epoch \in Nat, Counted, [SessionNext]_sessionVars
  PROVE  Counted'
<1> USE DEF historyVars, linkVars
<1>0. budget \in Budgets /\ budget.faults \in Nat /\ epoch <= budget.faults
  BY JamSessionAssumption DEF Counted, Budgets
<1>1. ASSUME budget' = budget \/ Spend("commands", MaxCommands) \/ Spend("changes", MaxChanges),
             epoch' \in {epoch, 0}
      PROVE  Counted'
  BY <1>0, <1>1, Spending DEF Counted
<1>2. ASSUME Spend("faults", MaxFaults), epoch' \in {epoch, 0, epoch + 1} PROVE Counted'
  BY <1>0, <1>2, Spending DEF Counted
<1>3. CASE UNCHANGED sessionVars
  BY <1>1, <1>3 DEF sessionVars
<1>4. CASE ServeJoin
  BY <1>1, <1>4 DEF ServeJoin, Refuse, Reattach, Admit, Inherit
<1>5. CASE ServeIngress \/ ServeCapabilities \/ Expire
  BY <1>1, <1>5 DEF ServeIngress, ServeCapabilities, Expire
<1>6. CASE \E s \in Streams : Publish(s) \/ \E kind \in {"removed", "left"} : Withdraw(s, kind)
  BY <1>1, <1>6 DEF Publish, Withdraw
<1>7. CASE \/ \E choice \in RouteChoices : HostRoutes(choice)
           \/ \E j \in Jams : JoinJam(j) \/ SwitchJam(j)
  BY <1>1, <1>7 DEF HostRoutes, JoinJam, SwitchJam
<1>8. CASE Redial \/ Leave \/ Shutdown \/ JoinRejected
  BY <1>1, <1>8 DEF Redial, Leave, Shutdown, JoinRejected, Disconnect
<1>9. CASE Drop \/ LoseJam \/ GiveUp
  BY <1>2, <1>9 DEF Drop, LoseJam, GiveUp, Disconnect
<1>10. CASE \/ JoinAnswered \/ SilenceAnswered \/ CapabilitiesAnswered \/ StartReconcile
            \/ IngressAnswered \/ OpenMedia \/ PollEvent \/ PollNothing
  BY <1>1, <1>10
     DEF JoinAnswered, SilenceAnswered, CapabilitiesAnswered, StartReconcile, IngressAnswered,
         OpenMedia, PollEvent, PollNothing
<1> QED
  BY <1>3, <1>4, <1>5, <1>6, <1>7, <1>8, <1>9, <1>10 DEF SessionNext

\* What an answer leaves behind are streams.
LEMMA KeptTypes ==
  ASSUME StateTypes, wire' \in Seq(Messages), pending' \in Seq(Messages), NEW ack
  PROVE  KeptAfter(ack) \subseteq Streams
<1>1. \A m \in ToSet(pending') \cup ToSet(wire') : m.kind = "format" => m.stream \in Streams
  BY Elements, Shapes
<1>2. kept \subseteq Streams /\ formats \subseteq Streams
  BY DEF StateTypes
<1> QED
  BY <1>1, <1>2 DEF KeptAfter

LEMMA TypesInit == SessionInit => SessionTypes
<1> SUFFICES ASSUME SessionInit PROVE SessionTypes
  OBVIOUS
<1>1. Queues
  BY OnEmpty DEF SessionInit, Queues
<1>2. StateTypes
  BY DEF SessionInit, StateTypes, Phases, NoRequest
<1>3. Counted
  BY JamSessionAssumption DEF SessionInit, Counted, Budgets
<1> QED
  BY <1>1, <1>2, <1>3, TypesSplit

LEMMA TypesStep == SessionTypes /\ [SessionNext]_sessionVars => SessionTypes'
<1> SUFFICES ASSUME SessionTypes, [SessionNext]_sessionVars PROVE StateTypes' /\ Queues'
  BY TypesNext, TypesSplit, CountedStep DEF StateTypes
<1> USE DEF workerVars, beliefVars, roomVars, linkVars, serverVars, historyVars
<1>0. StateTypes /\ Queues
  BY TypesSplit
<1>1. CASE UNCHANGED sessionVars
  BY <1>0, <1>1 DEF sessionVars, StateTypes, Queues
<1>2. CASE ServeJoin
  <2>1. Queues'
    BY <1>2, JoinServed
  <2>2. PICK m : Attended(m)
    BY <1>2, JoinServed
  <2>3. /\ attached' \in BOOLEAN /\ eligible' \in BOOLEAN
        /\ tookAll' \in BOOLEAN /\ adrift' \in BOOLEAN
    BY <1>0, <2>2 DEF Attended, StateTypes
  <2>4. /\ member' \in {"none", "known", "unknown"} /\ mode' \in {"auto", "explicit"}
        /\ declared' \subseteq Streams
    BY <1>0, <2>2 DEF Attended, StateTypes, Offered
  <2>5. home' \in Jams \cup {NoJam}
    BY <1>0, <1>2 DEF ServeJoin, Reattach, Refuse, Admit, Inherit, StateTypes
  <2> QED
    BY <1>0, <1>2, <2>1, <2>3, <2>4, <2>5 DEF ServeJoin, StateTypes
<1>3. CASE ServeIngress
  <2>1. Queues' /\ declared' \subseteq Streams
    BY <1>3, IngressServed
  <2> QED
    BY <1>0, <1>3, <2>1 DEF ServeIngress, StateTypes
<1>4. CASE ServeCapabilities
  <2>1. Queues'
    BY <1>4, CapabilitiesServed
  <2> QED
    BY <1>0, <1>4, <2>1 DEF ServeCapabilities, StateTypes
<1>5. ASSUME NEW s \in Streams, Publish(s) PROVE StateTypes' /\ Queues'
  <2>1. Queues'
    BY <1>5, PublishServed
  <2> QED
    BY <1>0, <1>5, <2>1 DEF Publish, StateTypes
<1>6. ASSUME NEW s \in Streams, NEW kind \in {"removed", "left"}, Withdraw(s, kind)
      PROVE  StateTypes' /\ Queues'
  <2>1. Queues'
    BY <1>6, WithdrawServed
  <2> QED
    BY <1>0, <1>6, <2>1 DEF Withdraw, StateTypes
<1>7. CASE Expire
  BY <1>0, <1>7 DEF Expire, StateTypes, Queues
<1>8. ASSUME NEW choice \in RouteChoices, HostRoutes(choice) PROVE StateTypes' /\ Queues'
  <2>1. choice[1] \in {"everything", "routed"} /\ choice[2] \subseteq Streams
    BY <1>0 DEF RouteChoices, StateTypes
  <2>2. tookAll' \in BOOLEAN
    BY <1>8 DEF HostRoutes
  <2> QED
    BY <1>0, <1>8, <2>1, <2>2 DEF HostRoutes, StateTypes, Queues, Phases, Connected
<1>9. ASSUME NEW j \in Jams, NEW t \in {NoJam, token}, j = jam \/ t = NoJam, Dial(j, t),
             UNCHANGED <<pending, wire, epoch>>
      PROVE  Queues' /\ phase' \in Phases /\ request' \in Requests \cup {NoRequest}
             /\ jam' = j /\ token' = t
  <2> DEFINE a == Ask(IF t = NoJam THEN "join" ELSE "rejoin", {})
  <2>1. a \in Asks /\ toServer' = <<a>>
    BY <1>0, <1>9 DEF Dial, Ask, Asks, Requests, StateTypes
  <2> HIDE DEF a
  <2>2. Queues'
    BY <1>0, <1>9, <2>1 DEF Queues
  <2> QED
    BY <1>9, <2>2 DEF Dial, Phases, Connected, Setup
<1>10. ASSUME NEW j \in Jams, JoinJam(j) PROVE StateTypes' /\ Queues'
  <2>1. Dial(j, NoJam) /\ UNCHANGED <<pending, wire, epoch>>
    BY <1>10 DEF JoinJam
  <2>2. Queues' /\ phase' \in Phases /\ request' \in Requests \cup {NoRequest}
        /\ jam' = j /\ token' = NoJam
    BY <2>1, <1>9
  <2> QED
    BY <1>0, <1>10, <2>2 DEF JoinJam, StateTypes
<1>11. ASSUME NEW j \in Jams, SwitchJam(j) PROVE StateTypes' /\ Queues'
  BY <1>0, <1>11 DEF SwitchJam, TokenFor, StateTypes, Queues
<1>12. CASE Redial
  <2>1. Dial(jam, token) /\ UNCHANGED <<pending, wire, epoch>>
    BY <1>12 DEF Redial
  <2> DEFINE a == Ask(IF token = NoJam THEN "join" ELSE "rejoin", {})
  <2>2. a \in Asks /\ toServer' = <<a>>
    BY <1>0, <2>1 DEF Dial, Ask, Asks, Requests, StateTypes
  <2> HIDE DEF a
  <2>3. Queues'
    BY <1>0, <2>1, <2>2 DEF Queues
  <2> QED
    BY <1>0, <1>12, <2>3 DEF Redial, Dial, StateTypes, Phases, Connected, Setup
<1>13. CASE Drop
  <2>1. adrift' \in BOOLEAN
    BY <1>13 DEF Drop
  <2>2. Disconnect /\ Queues'
    BY <1>13, QueuesFresh DEF Drop
  <2>9. attached' \in BOOLEAN /\ eligible' \in BOOLEAN
    BY <1>0, <2>2 DEF Disconnect, StateTypes
  <2> QED
    BY <1>0, <1>13, <2>1, <2>2, <2>9 DEF Drop, Disconnect, StateTypes, Phases
<1>14. CASE LoseJam
  <2>1. Disconnect /\ Queues'
    BY <1>14, QueuesFresh DEF LoseJam
  <2>9. attached' \in BOOLEAN /\ eligible' \in BOOLEAN /\ adrift' \in BOOLEAN
    BY <1>0, <1>14, <2>1 DEF LoseJam, Disconnect, StateTypes
  <2> QED
    BY <1>0, <1>14, <2>1, <2>9 DEF LoseJam, Disconnect, StateTypes, Phases
<1>15. CASE Leave
  <2>1. Disconnect /\ Queues'
    BY <1>15, QueuesFresh DEF Leave
  <2>9. attached' \in BOOLEAN /\ eligible' \in BOOLEAN
    BY <1>0, <2>1 DEF Disconnect, StateTypes
  <2> QED
    BY <1>0, <1>15, <2>1, <2>9 DEF Leave, Disconnect, StateTypes, Phases
<1>16. CASE Shutdown
  <2>1. Disconnect /\ Queues'
    BY <1>16, QueuesFresh DEF Shutdown
  <2>9. attached' \in BOOLEAN /\ eligible' \in BOOLEAN
    BY <1>0, <2>1 DEF Disconnect, StateTypes
  <2> QED
    BY <1>0, <1>16, <2>1, <2>9 DEF Shutdown, Disconnect, StateTypes, Phases
<1>17. CASE JoinAnswered
  <2>1. PICK reply : /\ reply.kind = "joined" /\ Receive(reply)
                     /\ token' = jam /\ member' = "known"
                     /\ room' = reply.streams /\ formats' = {}
                     /\ serverMode' = BeliefAfterJoin(reply.resumed)[1]
                     /\ subscribed' = BeliefAfterJoin(reply.resumed)[2]
                     /\ asked' = wanted \cup (IF reply.resumed THEN asked ELSE {})
                     /\ tookAll' = ((reply.resumed /\ tookAll) \/ ingress = "everything")
                     /\ adrift' = (adrift /\ reply.resumed) /\ kept' = {}
    BY <1>17 DEF JoinAnswered, FormatsAfterReset
  <2>2. /\ phase' = FirstRequest /\ toServer' = Append(toServer, Ask(FirstRequest, {}))
        /\ UNCHANGED <<request, jam, ingress, wanted, dirty, table, epoch, live, gone, home,
                       attached, mode, declared, eligible>>
    BY <1>17 DEF JoinAnswered
  <2>3. reply \in Messages /\ wire' \in Seq(Messages) /\ pending' \in Seq(Messages)
    BY <1>0, <2>1, OnReceived
  <2>4. reply.streams \subseteq Streams /\ reply.resumed \in BOOLEAN
    BY <2>1, <2>3, Shapes
  <2>5. FirstRequest \in {"silence", "capabilities"}
    BY DEF FirstRequest, CapabilitiesFirst
  <2>6. Ask(FirstRequest, {}) \in Asks
    BY <1>0, <2>5 DEF Ask, Asks, Requests, StateTypes
  <2>7. Queues'
    BY <1>0, <2>2, <2>3, <2>6, OnAsked DEF Queues
  <2>8. tookAll' \in BOOLEAN /\ adrift' \in BOOLEAN
    BY <1>0, <2>1 DEF StateTypes
  <2>9. serverMode' \in {"auto", "explicit"} /\ subscribed' \subseteq Streams
    BY <1>0, <2>1 DEF BeliefAfterJoin, StateTypes
  <2> QED
    BY <1>0, <2>1, <2>2, <2>4, <2>5, <2>7, <2>8, <2>9
       DEF StateTypes, Phases, Connected, Setup
<1>18. CASE JoinRejected
  <2>1. Disconnect /\ Queues'
    BY <1>18, QueuesFresh DEF JoinRejected
  <2>9. attached' \in BOOLEAN /\ eligible' \in BOOLEAN
    BY <1>0, <2>1 DEF Disconnect, StateTypes
  <2> QED
    BY <1>0, <1>18, <2>1, <2>9 DEF JoinRejected, Disconnect, StateTypes, Phases
<1>19. CASE SilenceAnswered
  <2>1. PICK reply : reply.kind = "ack" /\ Receive(reply) /\ ApplyUnsubscribed(reply)
    BY <1>19 DEF SilenceAnswered
  <2>2. reply \in Messages /\ wire' \in Seq(Messages) /\ pending' \in Seq(Messages)
    BY <1>0, <2>1, OnReceived
  <2>3. reply.held \subseteq Streams /\ reply.mode \in {"auto", "explicit"}
    BY <2>1, <2>2, Shapes
  <2>4. Ask("capabilities", {}) \in Asks
    BY <1>0 DEF Ask, Asks, Requests, StateTypes
  <2>5. Queues'
    BY <1>0, <1>19, <2>2, <2>4, OnAsked DEF Queues, SilenceAnswered
  <2>6. kept' \subseteq Streams
    BY <1>0, <1>19, <2>2, KeptTypes DEF SilenceAnswered
  <2>7. /\ serverMode' \in {"auto", "explicit"} /\ subscribed' \subseteq Streams
        /\ formats' \subseteq room /\ table' \subseteq Streams
    BY <1>0, <2>1, <2>3 DEF ApplyUnsubscribed, Retire, StateTypes
  <2>8. /\ phase' = "capabilities" /\ adrift' = FALSE
        /\ UNCHANGED <<request, jam, token, ingress, wanted, dirty, room, epoch, serverVars,
                       asked, tookAll>>
    BY <1>19 DEF SilenceAnswered
  <2>9. dirty' \in BOOLEAN /\ attached' \in BOOLEAN /\ eligible' \in BOOLEAN /\ tookAll' \in BOOLEAN
    BY <1>0, <2>8 DEF StateTypes
  <2> QED
    BY <1>0, <2>5, <2>6, <2>7, <2>8, <2>9 DEF StateTypes, Phases, Connected, Setup
<1>20. CASE CapabilitiesAnswered
  <2>1. PICK reply : Receive(reply)
    BY <1>20 DEF CapabilitiesAnswered
  <2>2. wire' \in Seq(Messages) /\ pending' \in Seq(Messages)
    BY <1>0, <2>1, OnReceived
  <2>3. Reconcile("capabilities", "first")
    BY <1>20 DEF CapabilitiesAnswered
  <2>4. toServer' \in Seq(Asks) /\ request' \in Requests \cup {NoRequest} /\ phase' \in Phases
        /\ dirty' \in BOOLEAN
    <3>1. CASE FirstNeeded = {} /\ phase' = AfterReconcile("capabilities") /\ UNCHANGED <<toServer, request>>
      BY <1>0, <2>3, <3>1 DEF Reconcile, Queues, StateTypes, AfterReconcile, Phases, Connected
    <3>2. CASE phase' = "first" /\ \E asking \in FirstNeeded : Send(asking)
      <4>1. PICK asking \in FirstNeeded : Send(asking)
        BY <3>2
      <4>2. asking \in Asks /\ asking.kind \in Requests
        BY <4>1, Needed DEF Asks
      <4> QED
        BY <1>0, <2>3, <3>2, <4>1, <4>2, OnAsked DEF Reconcile, Send, Phases, Connected
    <3> QED
      BY <2>3, <3>1, <3>2 DEF Reconcile
  <2> QED
    BY <1>0, <1>20, <2>2, <2>4 DEF CapabilitiesAnswered, StateTypes, Queues
<1>21. CASE StartReconcile
  <2>3. Reconcile("turn", "reconcile")
    BY <1>21 DEF StartReconcile
  <2>4. toServer' \in Seq(Asks) /\ request' \in Requests \cup {NoRequest} /\ phase' \in Phases
        /\ dirty' \in BOOLEAN
    <3>1. CASE FirstNeeded = {} /\ phase' = AfterReconcile("turn") /\ UNCHANGED <<toServer, request>>
      BY <1>0, <2>3, <3>1 DEF Reconcile, Queues, StateTypes, AfterReconcile, Phases, Connected
    <3>2. CASE phase' = "reconcile" /\ \E asking \in FirstNeeded : Send(asking)
      <4>1. PICK asking \in FirstNeeded : Send(asking)
        BY <3>2
      <4>2. asking \in Asks /\ asking.kind \in Requests
        BY <4>1, Needed DEF Asks
      <4> QED
        BY <1>0, <2>3, <3>2, <4>1, <4>2, OnAsked DEF Reconcile, Send, Phases, Connected
    <3> QED
      BY <2>3, <3>1, <3>2 DEF Reconcile
  <2> QED
    BY <1>0, <1>21, <2>4 DEF StartReconcile, StateTypes, Queues
<1>22. CASE IngressAnswered
  <2>1. PICK reply : /\ reply.kind = "ack" /\ Receive(reply)
                     /\ IF request \in {"silence", "drop"}
                          THEN ApplyUnsubscribed(reply)
                          ELSE ApplySubscribed(reply)
    BY <1>22 DEF IngressAnswered
  <2>2. reply \in Messages /\ wire' \in Seq(Messages) /\ pending' \in Seq(Messages)
    BY <1>0, <2>1, OnReceived
  <2>3. reply.held \subseteq Streams /\ reply.mode \in {"auto", "explicit"}
    BY <2>1, <2>2, Shapes
  <2>4. /\ serverMode' \in {"auto", "explicit"} /\ subscribed' \subseteq Streams
        /\ formats' \subseteq formats /\ table' \subseteq Streams
    BY <1>0, <2>1, <2>3 DEF ApplyUnsubscribed, ApplySubscribed, Retire, StateTypes
  <2> DEFINE more == IF request = "drop" THEN TakeNext(serverMode', subscribed') ELSE {}
  <2>5. \A a \in more : a \in Asks
    BY <2>4, Additions
  <2>6. \/ phase' = AfterReconcile(phase) /\ request' = NoRequest /\ UNCHANGED toServer
        \/ \E asking \in more : Send(asking) /\ UNCHANGED phase
    BY <1>22 DEF IngressAnswered
  <2> HIDE DEF more
  <2>7. toServer' \in Seq(Asks) /\ request' \in Requests \cup {NoRequest} /\ phase' \in Phases
    <3>1. CASE phase' = AfterReconcile(phase) /\ request' = NoRequest /\ UNCHANGED toServer
      BY <1>0, <3>1 DEF Queues, StateTypes, AfterReconcile, Phases, Connected
    <3>2. CASE \E asking \in more : Send(asking) /\ UNCHANGED phase
      <4>1. PICK asking \in more : Send(asking) /\ UNCHANGED phase
        BY <3>2
      <4>2. asking \in Asks /\ asking.kind \in Requests
        BY <4>1, <2>5 DEF Asks
      <4> QED
        BY <1>0, <4>1, <4>2, OnAsked DEF Send, StateTypes
    <3> QED
      BY <2>6, <3>1, <3>2
  <2>8. kept' \subseteq Streams
    BY <1>0, <1>22, <2>2, KeptTypes DEF IngressAnswered
  <2> QED
    BY <1>0, <1>22, <2>2, <2>4, <2>7, <2>8 DEF IngressAnswered, StateTypes, Queues
<1>23. CASE GiveUp
  BY <1>0, <1>23 DEF GiveUp, AfterReconcile, StateTypes, Queues, Phases, Connected
<1>24. CASE OpenMedia
  BY <1>0, <1>24 DEF OpenMedia, StateTypes, Queues, Phases, Connected
<1>25. CASE PollEvent
  <2>1. PICK event \in Messages : Apply(event) /\ wire' \in Seq(Messages) /\ pending' \in Seq(Messages)
    <3>1. CASE pending # <<>>
      BY <1>0, <1>25, <3>1, OnRead DEF PollEvent, Queues
    <3>2. CASE pending = <<>>
      BY <1>0, <1>25, <3>2, OnRead DEF PollEvent, Queues
    <3> QED
      BY <3>1, <3>2
  <2>2. event.kind \in {"added", "removed", "left", "format"} => event.stream \in Streams
    BY <2>1, Shapes
  <2>3. dirty' \in BOOLEAN
    BY <1>0, <2>1 DEF Apply, StateTypes
  <2>4. room' \subseteq Streams /\ formats' \subseteq room' /\ table' \subseteq Streams
        /\ subscribed' \subseteq Streams
    BY <1>0, <2>1, <2>2 DEF Apply, StateTypes
  <2> QED
    BY <1>0, <1>25, <2>1, <2>3, <2>4 DEF PollEvent, StateTypes, Queues, Phases, Connected
<1>26. CASE PollNothing
  BY <1>0, <1>26 DEF PollNothing, StateTypes, Queues, Phases, Connected
<1> QED
  BY <1>1, <1>2, <1>3, <1>4, <1>5, <1>6, <1>7, <1>8, <1>10, <1>11, <1>12, <1>13, <1>14,
     <1>15, <1>16, <1>17, <1>18, <1>19, <1>20, <1>21, <1>22, <1>23, <1>24, <1>25, <1>26
     DEF SessionNext

-----------------------------------------------------------------------------
(* The inductive invariant.                                                *)

Joining == {"join", "rejoin"}
Off     == {"idle", "backoff", "stopped"}

\* Without a connection nothing is under way.
Unlinked ==
  phase \in Off => pending = <<>> /\ wire = <<>> /\ toServer = <<>> /\ ~attached

\* A fresh participant is served nothing until it says what it can decode.
Newcomer == member = "unknown" /\ mode = "auto" /\ ~eligible /\ declared = {}

\* While joining, what arrives is the answer to the join and news of the room,
\* with formats if the server knows what can be decoded.
JoinUnderWay ==
  phase = "join" =>
    /\ pending = <<>>
    /\ toServer # <<>> => wire = <<>> /\ ~attached /\ Tail(toServer) = <<>>
    /\ \A a \in ToSet(toServer) : a.kind \in Joining
    /\ \A m \in ToSet(wire) : m.kind \notin {"ack", "capabilities"}
    /\ \A m \in ToSet(wire) :
         m.kind = "joined" =>
           /\ attached
           /\ ~m.resumed => Newcomer
           /\ m.resumed /\ ~adrift => member = "known"
    /\ \A m \in ToSet(wire) : m.kind = "format" => eligible

\* Once joined, both sides know the participant.
Linked ==
  phase \notin Off \cup {"join"} =>
    /\ member = "known" /\ attached
    /\ \A a \in ToSet(toServer) : a.kind \notin Joining

\* A participant the worker does not know is a fresh one, or one that had
\* everything.
Fresh ==
  /\ member = "unknown" /\ ~tookAll => Newcomer
  /\ attached => member # "none"

Links == Unlinked /\ JoinUnderWay /\ Linked /\ Fresh

-----------------------------------------------------------------------------
(* The steps of the worker on a joined connection.                         *)

Steady == Phases \ (Off \cup {"join"})

\* A request such a step may send.
Rightful(a) ==
  \/ a.kind = "capabilities" /\ phase = "silence"
  \/ /\ a.kind \in Reconciling
     /\ a.kind = "take" => a.ids \subseteq wanted
     /\ a.kind = "all" => ingress = "everything"

Pump ==
  /\ phase \in Steady /\ phase' \in Steady \ {"silence"}
  /\ UNCHANGED <<serverVars, asked, tookAll, wanted, ingress>>
  /\ ToSet(wire') \subseteq ToSet(wire)
  /\ ToSet(pending') \subseteq ToSet(pending) \cup ToSet(wire)
  /\ \A a \in ToSet(toServer') : a \in ToSet(toServer) \/ Rightful(a)
  /\ \A s \in formats' \cup table' :
       s \in formats \cup table \/ \E m \in ToSet(pending) \cup ToSet(wire) : Heard(m, {s})
  /\ phase = "silence" => \E m \in ToSet(wire) : m.kind = "ack"

LEMMA PumpSteps ==
  ASSUME SessionTypes,
         \/ SilenceAnswered \/ CapabilitiesAnswered \/ StartReconcile \/ IngressAnswered
         \/ GiveUp \/ OpenMedia \/ PollEvent \/ PollNothing
  PROVE  Pump
<1> USE DEF workerVars, beliefVars, roomVars, linkVars, serverVars, historyVars
<1>0. StateTypes /\ Queues
  BY TypesSplit
<1> DEFINE Sent == \A a \in ToSet(toServer') : a \in ToSet(toServer) \/ Rightful(a)
<1>1. CASE SilenceAnswered
  <2>1. PICK reply : reply.kind = "ack" /\ Receive(reply) /\ ApplyUnsubscribed(reply)
    BY <1>1 DEF SilenceAnswered
  <2>2. /\ reply \in ToSet(wire) /\ ToSet(wire') \subseteq ToSet(wire)
        /\ ToSet(pending') \subseteq ToSet(pending) \cup ToSet(wire)
    BY <1>0, <2>1, OnReceived
  <2>3. Ask("capabilities", {}) \in Asks /\ Ask("capabilities", {}).kind = "capabilities"
    BY <1>0 DEF Ask, Asks, Requests, StateTypes
  <2>4. ToSet(toServer') = ToSet(toServer) \cup {Ask("capabilities", {})}
    BY <1>0, <1>1, <2>3, OnAsked DEF SilenceAnswered
  <2>5. Sent
    BY <1>1, <2>3, <2>4 DEF Rightful, SilenceAnswered
  <2>6. formats' \cup table' \subseteq formats
    BY <2>1 DEF ApplyUnsubscribed, Retire
  <2> QED
    BY <1>1, <2>1, <2>2, <2>5, <2>6
       DEF SilenceAnswered, Pump, Steady, Phases, Connected, Setup, Off
<1>2. ASSUME NEW from, NEW waiting, Reconcile(from, waiting)
      PROVE  Sent /\ phase' \in {AfterReconcile(from), waiting}
  <2>1. CASE UNCHANGED <<toServer, request>> /\ phase' = AfterReconcile(from)
    BY <2>1
  <2>2. CASE phase' = waiting /\ \E asking \in FirstNeeded : Send(asking)
    <3>1. PICK asking \in FirstNeeded : Send(asking)
      BY <2>2
    <3>2. asking \in Asks /\ Rightful(asking)
      BY <3>1, Needed DEF Rightful
    <3>3. ToSet(toServer') = ToSet(toServer) \cup {asking}
      BY <1>0, <3>1, <3>2, OnAsked DEF Send
    <3> QED
      BY <2>2, <3>2, <3>3
  <2> QED
    BY <1>2, <2>1, <2>2 DEF Reconcile
<1>3. CASE CapabilitiesAnswered
  <2>1. PICK reply : Receive(reply)
    BY <1>3 DEF CapabilitiesAnswered
  <2>2. /\ ToSet(wire') \subseteq ToSet(wire)
        /\ ToSet(pending') \subseteq ToSet(pending) \cup ToSet(wire)
    BY <1>0, <2>1, OnReceived
  <2>3. Reconcile("capabilities", "first")
    BY <1>3 DEF CapabilitiesAnswered
  <2>4. Sent /\ phase' \in {"media", "first"}
    BY <2>3, <1>2 DEF AfterReconcile
  <2> QED
    BY <1>3, <2>2, <2>4
       DEF CapabilitiesAnswered, Pump, Steady, Phases, Connected, Setup, Off
<1>4. CASE StartReconcile
  <2>1. Reconcile("turn", "reconcile")
    BY <1>4 DEF StartReconcile
  <2>2. Sent /\ phase' \in {"turn", "reconcile"}
    BY <2>1, <1>2 DEF AfterReconcile
  <2> QED
    BY <1>4, <2>2 DEF StartReconcile, Pump, Steady, Phases, Connected, Setup, Off
<1>5. CASE IngressAnswered
  <2>1. PICK reply : /\ reply.kind = "ack" /\ Receive(reply)
                     /\ IF request \in {"silence", "drop"}
                          THEN ApplyUnsubscribed(reply)
                          ELSE ApplySubscribed(reply)
    BY <1>5 DEF IngressAnswered
  <2>2. /\ reply \in Messages /\ ToSet(wire') \subseteq ToSet(wire)
        /\ ToSet(pending') \subseteq ToSet(pending) \cup ToSet(wire)
    BY <1>0, <2>1, OnReceived
  <2>3. reply.held \subseteq Streams
    BY <2>1, <2>2, Shapes
  <2>4. subscribed' \in SUBSET Streams /\ formats' \cup table' \subseteq formats \cup table
    BY <1>0, <2>1, <2>3 DEF ApplyUnsubscribed, ApplySubscribed, Retire, StateTypes
  <2> DEFINE more == IF request = "drop" THEN TakeNext(serverMode', subscribed') ELSE {}
  <2>5. \A a \in more : a \in Asks /\ Rightful(a)
    BY <2>4, Additions DEF Rightful, Reconciling
  <2>6. \/ phase' = AfterReconcile(phase) /\ UNCHANGED toServer
        \/ \E asking \in more : Send(asking) /\ UNCHANGED phase
    BY <1>5 DEF IngressAnswered
  <2> HIDE DEF more
  <2>7. Sent /\ phase' \in {phase, AfterReconcile(phase)}
    <3>1. CASE phase' = AfterReconcile(phase) /\ UNCHANGED toServer
      BY <3>1
    <3>2. CASE \E asking \in more : Send(asking) /\ UNCHANGED phase
      <4>1. PICK asking \in more : Send(asking) /\ UNCHANGED phase
        BY <3>2
      <4>2. ToSet(toServer') = ToSet(toServer) \cup {asking}
        BY <1>0, <4>1, <2>5, OnAsked DEF Send
      <4> QED
        BY <2>5, <4>1, <4>2
    <3> QED
      BY <2>6, <3>1, <3>2
  <2>8. UNCHANGED <<serverVars, asked, tookAll, wanted, ingress>> /\ phase \in {"first", "reconcile"}
    BY <1>5 DEF IngressAnswered
  <2> QED
    BY <2>2, <2>4, <2>7, <2>8
       DEF AfterReconcile, Pump, Steady, Phases, Connected, Setup, Off
<1>6. CASE GiveUp
  BY <1>6 DEF GiveUp, AfterReconcile, Pump, Steady, Phases, Connected, Setup, Off
<1>7. CASE OpenMedia
  BY <1>7 DEF OpenMedia, Pump, Steady, Phases, Connected, Setup, Off
<1>8. CASE PollEvent
  <2>1. PICK event : /\ Apply(event) /\ event \in ToSet(pending) \cup ToSet(wire)
                     /\ ToSet(wire') \subseteq ToSet(wire) /\ ToSet(pending') \subseteq ToSet(pending)
    <3>1. CASE pending # <<>>
      BY <1>0, <1>8, <3>1, OnRead DEF PollEvent, Queues
    <3>2. CASE pending = <<>>
      BY <1>0, <1>8, <3>2, OnRead DEF PollEvent, Queues
    <3> QED
      BY <3>1, <3>2
  <2>2. \A s \in formats' \cup table' : s \in formats \cup table \/ Heard(event, {s})
    BY <2>1 DEF Apply, Heard
  <2> QED
    BY <1>8, <2>1, <2>2 DEF PollEvent, Pump, Steady, Phases, Connected, Setup, Off
<1>9. CASE PollNothing
  BY <1>9 DEF PollNothing, Pump, Steady, Phases, Connected, Setup, Off
<1> QED
  BY <1>1, <1>3, <1>4, <1>5, <1>6, <1>7, <1>8, <1>9

LEMMA TypesFact ==
  ASSUME SessionTypes
  PROVE  /\ phase \in Phases /\ attached \in BOOLEAN /\ eligible \in BOOLEAN
         /\ member \in {"none", "known", "unknown"} /\ tookAll \in BOOLEAN /\ adrift \in BOOLEAN
         /\ mode \in {"auto", "explicit"} /\ ingress \in {"everything", "routed"}
BY DEF SessionTypes, SessionTypeOK

LEMMA LinksInit == SessionInit => Links
BY OnEmpty DEF SessionInit, Links, Unlinked, JoinUnderWay, Linked, Fresh, Newcomer, Off

LEMMA LinksStep ==
  ASSUME SessionTypes, Links, [SessionNext]_sessionVars
  PROVE  Links'
<1> USE DEF workerVars, beliefVars, roomVars, linkVars, serverVars, historyVars
<1> USE DEF Links, Unlinked, JoinUnderWay, Linked, Fresh, Newcomer, Off
<1>0. Queues
  BY TypesSplit
<1>1. CASE UNCHANGED sessionVars
  BY <1>1 DEF sessionVars
<1>2. CASE ServeJoin
  <2>1. /\ phase = "join" /\ wire = <<>> /\ ~attached /\ toServer' = <<>> /\ pending = <<>>
        /\ UNCHANGED <<phase, pending>>
    <3>1. toServer # <<>> /\ Request.kind \in Joining /\ Request \in ToSet(toServer)
      BY <1>0, <1>2, RequestRead DEF ServeJoin, Joining
    <3>2. phase = "join"
      BY <3>1
    <3> QED
      BY <1>2, <3>1, <3>2 DEF ServeJoin
  <2>2. PICK m \in Messages : ToSet(wire') = ToSet(wire) \cup {m} /\ Attended(m)
    BY <1>2, JoinServed
  <2>3. ToSet(wire) = {} /\ ToSet(toServer') = {}
    BY <2>1, OnEmpty
  <2>4. \A n \in ToSet(wire') : n = m
    BY <2>2, <2>3
  <2>5. JoinUnderWay'
    BY <2>1, <2>2, <2>3, <2>4, TypesFact DEF Attended
  <2>6. Fresh'
    BY <2>1, <2>2, TypesFact DEF Attended
  <2> QED
    BY <2>1, <2>5, <2>6
<1>3. CASE ServeIngress
  <2>1. Request.kind \in Reconciling /\ Request \in ToSet(toServer)
        /\ ToSet(toServer) = {Request} \cup ToSet(toServer')
    BY <1>3, IngressServed
  <2>2. phase \notin Off \cup {"join"}
    <3>1. Request.kind \notin Joining
      BY <2>1 DEF Reconciling, Joining
    <3>2. toServer # <<>>
      BY <2>1, OnEmpty
    <3> QED
      BY <2>1, <3>1, <3>2
  <2> QED
    BY <1>3, <2>1, <2>2 DEF ServeIngress
<1>4. CASE ServeCapabilities
  <2>1. Request.kind = "capabilities" /\ Request \in ToSet(toServer)
        /\ ToSet(toServer) = {Request} \cup ToSet(toServer')
    BY <1>4, CapabilitiesServed
  <2>2. phase \notin Off \cup {"join"}
    <3>1. Request.kind \notin Joining
      BY <2>1 DEF Joining
    <3>2. toServer # <<>>
      BY <2>1, OnEmpty
    <3> QED
      BY <2>1, <3>1, <3>2
  <2> QED
    BY <1>4, <2>1, <2>2 DEF ServeCapabilities
<1>5. ASSUME NEW s \in Streams, Publish(s) PROVE Links'
  <2>1. UNCHANGED <<phase, pending, toServer, member, attached, eligible, declared, mode,
                    tookAll, adrift>>
    BY <1>5 DEF Publish
  <2>2. \A m \in ToSet(wire') :
              \/ m \in ToSet(wire)
              \/ attached /\ m.kind = "added"
              \/ attached /\ mode = "auto" /\ eligible /\ s \in Decodable /\ Heard(m, {s})
    BY <1>5, PublishServed
  <2>3. ~attached => wire' = wire
    BY <1>5 DEF Publish, Announce
  <2>4. Unlinked' /\ Linked' /\ Fresh'
    BY <2>1, <2>3
  <2>5. JoinUnderWay'
    BY <2>1, <2>2, <2>3, TypesFact DEF Heard
  <2> QED
    BY <2>4, <2>5
<1>6. ASSUME NEW s \in Streams, NEW kind \in {"removed", "left"}, Withdraw(s, kind) PROVE Links'
  <2>1. /\ UNCHANGED <<phase, pending, toServer, member, attached, eligible, mode, tookAll, adrift>>
        /\ declared' \subseteq declared
    BY <1>6 DEF Withdraw
  <2>2. \A m \in ToSet(wire') : m \in ToSet(wire) \/ (attached /\ m.kind = kind)
    BY <1>6, WithdrawServed
  <2>3. ~attached => wire' = wire
    BY <1>6 DEF Withdraw, Announce
  <2>4. Unlinked' /\ Linked' /\ Fresh'
    BY <2>1, <2>3
  <2>5. JoinUnderWay'
    BY <2>1, <2>2, <2>3
  <2> QED
    BY <2>4, <2>5
<1>7. CASE Expire
  BY <1>7, TypesFact DEF Expire
<1>8. ASSUME NEW choice \in RouteChoices, HostRoutes(choice) PROVE Links'
  BY <1>8 DEF HostRoutes
<1>9. ASSUME NEW j, NEW t, Dial(j, t), phase \in Off, UNCHANGED <<pending, wire, serverVars, tookAll>>
      PROVE  Links'
  <2> DEFINE a == Ask(IF t = NoJam THEN "join" ELSE "rejoin", {})
  <2>1. a.kind \in Joining /\ toServer' = <<a>> /\ phase' = "join"
    BY <1>9 DEF Dial, Ask, Joining
  <2> HIDE DEF a
  <2>2. Tail(toServer') = <<>> /\ ToSet(toServer') = {a}
    BY <2>1 DEF ToSet
  <2>3. ToSet(wire') = {}
    BY <1>9, OnEmpty
  <2> QED
    BY <1>9, <2>1, <2>2, <2>3
<1>10. ASSUME NEW j \in Jams, JoinJam(j) PROVE Links'
  BY <1>9, <1>10 DEF JoinJam
<1>11. ASSUME NEW j \in Jams, SwitchJam(j) PROVE Links'
  BY <1>11 DEF SwitchJam
<1>12. CASE Redial
  BY <1>9, <1>12 DEF Redial
<1>13. ASSUME Disconnect, phase' \in Off, member' \in {member, "none"}, UNCHANGED tookAll PROVE Links'
  BY <1>13 DEF Disconnect
<1>14. CASE Drop
  BY <1>13, <1>14 DEF Drop
<1>15. CASE LoseJam
  BY <1>13, <1>15 DEF LoseJam
<1>16. CASE Leave
  BY <1>13, <1>16 DEF Leave
<1>17. CASE Shutdown
  BY <1>13, <1>17 DEF Shutdown
<1>18. CASE JoinRejected
  BY <1>13, <1>18 DEF JoinRejected
<1>19. CASE JoinAnswered
  <2>1. PICK reply : reply.kind = "joined" /\ Receive(reply)
    BY <1>19 DEF JoinAnswered
  <2>2. reply \in ToSet(wire)
    BY <1>0, <2>1, OnReceived
  <2>3. wire # <<>> /\ attached
    BY <1>19, <2>1, <2>2, OnEmpty DEF JoinAnswered
  <2>4. /\ phase' \in {"silence", "capabilities"} /\ member' = "known" /\ UNCHANGED attached
        /\ toServer' = Append(toServer, Ask(FirstRequest, {}))
    BY <1>19 DEF JoinAnswered, FirstRequest, CapabilitiesFirst
  <2>5. toServer = <<>>
    BY <1>19, <2>3 DEF JoinAnswered
  <2>6. ToSet(toServer') = {Ask(FirstRequest, {})}
    BY <2>4, <2>5 DEF ToSet
  <2>7. Ask(FirstRequest, {}).kind \notin Joining
    BY DEF Ask, FirstRequest, CapabilitiesFirst, Joining
  <2> QED
    BY <2>3, <2>4, <2>6, <2>7
<1>20. ASSUME Pump PROVE Links'
  <2>1. \A a \in ToSet(toServer') : a.kind \notin Joining
    BY <1>20 DEF Pump, Rightful, Reconciling, Joining, Steady
  <2> QED
    BY <1>20, <2>1 DEF Pump, Steady
<1>21. CASE \/ SilenceAnswered \/ CapabilitiesAnswered \/ StartReconcile \/ IngressAnswered
            \/ GiveUp \/ OpenMedia \/ PollEvent \/ PollNothing
  BY <1>20, <1>21, PumpSteps
<1> QED
  BY <1>1, <1>2, <1>3, <1>4, <1>5, <1>6, <1>7, <1>8, <1>10, <1>11, <1>12, <1>14,
     <1>15, <1>16, <1>17, <1>18, <1>19, <1>21
     DEF SessionNext

-----------------------------------------------------------------------------
(* The media table.                                                        *)

LEMMA TableInit == SessionInit => TableFollowsRegistry
BY DEF SessionInit, TableFollowsRegistry

LEMMA TableStep ==
  ASSUME TableFollowsRegistry, [SessionNext]_sessionVars
  PROVE  TableFollowsRegistry'
<1> USE DEF workerVars, beliefVars, roomVars, linkVars, serverVars, historyVars
<1> USE DEF TableFollowsRegistry
<1>1. CASE UNCHANGED sessionVars
  BY <1>1 DEF sessionVars
<1>2. CASE \/ ServeJoin \/ ServeIngress \/ ServeCapabilities \/ Expire
           \/ \E s \in Streams : Publish(s)
           \/ \E s \in Streams, kind \in {"removed", "left"} : Withdraw(s, kind)
  BY <1>2 DEF ServeJoin, ServeIngress, ServeCapabilities, Expire, Publish, Withdraw
<1>3. ASSUME NEW choice, HostRoutes(choice) PROVE TableFollowsRegistry'
  BY <1>3 DEF HostRoutes
<1>4. ASSUME NEW j, JoinJam(j) PROVE TableFollowsRegistry'
  BY <1>4 DEF JoinJam, Dial
<1>5. ASSUME NEW j, SwitchJam(j) PROVE TableFollowsRegistry'
  BY <1>5 DEF SwitchJam
<1>6. CASE Redial
  BY <1>6 DEF Redial, Dial
<1>7. CASE Drop \/ LoseJam \/ Leave \/ Shutdown \/ JoinRejected
  BY <1>7 DEF Drop, LoseJam, Leave, Shutdown, JoinRejected, Disconnect
<1>8. CASE JoinAnswered
  BY <1>8 DEF JoinAnswered, FirstRequest, CapabilitiesFirst
<1>9. CASE SilenceAnswered
  BY <1>9 DEF SilenceAnswered
<1>10. CASE CapabilitiesAnswered
  BY <1>10 DEF CapabilitiesAnswered, Reconcile, AfterReconcile
<1>11. CASE StartReconcile
  BY <1>11 DEF StartReconcile, Reconcile, AfterReconcile
<1>12. CASE IngressAnswered
  <2>1. (table' = formats') \/ UNCHANGED <<formats, table>>
    BY <1>12 DEF IngressAnswered, ApplyUnsubscribed, ApplySubscribed, Retire
  <2>2. \/ phase = "first" /\ phase' \in {"first", "media"}
        \/ phase = "reconcile" /\ phase' \in {"reconcile", "turn"}
    BY <1>12 DEF IngressAnswered, AfterReconcile
  <2> QED
    BY <2>1, <2>2
<1>13. CASE GiveUp \/ OpenMedia \/ PollNothing
  BY <1>13 DEF GiveUp, OpenMedia, PollNothing, AfterReconcile
<1>14. CASE PollEvent
  <2>1. (table' = formats') \/ UNCHANGED <<formats, table>>
    BY <1>14 DEF PollEvent, Apply
  <2>2. phase \in {"command", "turn"} /\ phase' = "command"
    BY <1>14 DEF PollEvent
  <2> QED
    BY <2>1, <2>2
<1> QED
  BY <1>1, <1>2, <1>3, <1>4, <1>5, <1>6, <1>7, <1>8, <1>9, <1>10, <1>11, <1>12, <1>13, <1>14
     DEF SessionNext

-----------------------------------------------------------------------------
(* What the client is sent.                                                *)

\* A known participant that never took everything is in mode explicit before
\* it is eligible, and nothing under way will have it served more.
Choosing ==
  /\ ingress = "routed" /\ declared \subseteq asked
  /\ eligible => mode = "explicit"
  /\ (\E m \in ToSet(wire) : m.kind = "ack") => mode = "explicit"
  /\ phase \notin Off \cup {"join", "silence"} => mode = "explicit"
  /\ \A a \in ToSet(toServer) :
       /\ a.kind # "all"
       /\ a.kind = "take" => a.ids \subseteq asked
       /\ a.kind = "capabilities" => mode = "explicit"

Routed ==
  /\ wanted \subseteq asked
  /\ RoutedHearsOnlyRouted
  /\ ~tookAll /\ member = "known" => Choosing

LEMMA RoutedInit == SessionInit => Routed
BY OnEmpty DEF SessionInit, Routed, RoutedHearsOnlyRouted

LEMMA RoutedStep ==
  ASSUME SessionTypes, Links, TableFollowsRegistry, Routed, [SessionNext]_sessionVars
  PROVE  Routed'
<1> USE DEF workerVars, beliefVars, roomVars, linkVars, serverVars, historyVars
<1> USE DEF Routed, RoutedHearsOnlyRouted, Choosing
<1>0. Queues
  BY TypesSplit
<1>1. CASE UNCHANGED sessionVars
  BY <1>1 DEF sessionVars
<1>2. CASE ServeJoin
  <2>1. PICK m \in Messages : ToSet(wire') = ToSet(wire) \cup {m} /\ Attended(m)
    BY <1>2, JoinServed
  <2>2. ToSet(toServer') \subseteq ToSet(toServer)
    BY <1>0, <1>2, RequestRead DEF ServeJoin
  <2>3. UNCHANGED <<phase, ingress, wanted, formats, table, pending, asked>>
    BY <1>2 DEF ServeJoin
  <2>4. RoutedHearsOnlyRouted'
    BY <2>1, <2>3 DEF Attended
  <2>5. ~tookAll' /\ member' = "known" => Choosing'
    BY <2>1, <2>2, <2>3 DEF Attended
  <2> QED
    BY <2>3, <2>4, <2>5
<1>3. CASE ServeIngress
  <2>1. /\ Request.kind \in Reconciling /\ Request \in ToSet(toServer)
        /\ ToSet(toServer) = {Request} \cup ToSet(toServer')
        /\ mode' = (IF Request.kind = "all" THEN "auto" ELSE "explicit")
        /\ declared' \subseteq declared \cup (IF Request.kind = "take" THEN Request.ids ELSE {})
    BY <1>3, IngressServed
  <2>2. PICK ack \in Messages :
          \A m \in ToSet(wire') :
             \/ m \in ToSet(wire) \/ (m = ack /\ ack.kind = "ack")
             \/ eligible /\ m.kind = "format"
                /\ m.stream \in (IF Request.kind = "all" THEN Offered ELSE declared')
    BY <1>3, IngressServed
  <2>3. phase \notin Off \cup {"join"} /\ member = "known"
    <3>1. Request.kind \notin Joining
      BY <2>1 DEF Reconciling, Joining
    <3>2. toServer # <<>>
      BY <2>1, OnEmpty
    <3> QED
      BY <2>1, <3>1, <3>2 DEF Links, Unlinked, JoinUnderWay, Linked
  <2>4. UNCHANGED <<phase, ingress, wanted, formats, table, pending, asked, tookAll, eligible, member>>
    BY <1>3 DEF ServeIngress
  <2>5. ~tookAll => mode' = "explicit" /\ declared' \subseteq asked /\ Request.kind # "all"
    BY <2>1, <2>3
  <2>6. RoutedHearsOnlyRouted'
    BY <2>2, <2>4, <2>5
  <2>7. ~tookAll' /\ member' = "known" => Choosing'
    BY <2>1, <2>3, <2>4, <2>5
  <2> QED
    BY <2>4, <2>6, <2>7
<1>4. CASE ServeCapabilities
  <2>1. Request.kind = "capabilities" /\ Request \in ToSet(toServer)
        /\ ToSet(toServer) = {Request} \cup ToSet(toServer')
    BY <1>4, CapabilitiesServed
  <2>2. PICK answer \in Messages :
          /\ answer.kind = "capabilities"
          /\ \A m \in ToSet(wire') : m \in ToSet(wire) \/ m = answer \/ Heard(m, Served)
    BY <1>4, CapabilitiesServed
  <2>3. member = "known"
    <3>1. Request.kind \notin Joining
      BY <2>1 DEF Joining
    <3>2. toServer # <<>>
      BY <2>1, OnEmpty
    <3> QED
      BY <2>1, <3>1, <3>2 DEF Links, Unlinked, JoinUnderWay, Linked
  <2>4. UNCHANGED <<phase, ingress, wanted, formats, table, pending, asked, tookAll, mode,
                    declared, member>>
    BY <1>4 DEF ServeCapabilities
  <2>5. ~tookAll => mode = "explicit" /\ Served \subseteq asked
    BY <2>1, <2>3 DEF Served
  <2>6. RoutedHearsOnlyRouted'
    BY <2>2, <2>4, <2>5 DEF Heard
  <2>7. ~tookAll' /\ member' = "known" => Choosing'
    BY <2>1, <2>2, <2>4, <2>5 DEF Heard
  <2> QED
    BY <2>4, <2>6, <2>7
<1>5. ASSUME NEW s \in Streams, Publish(s) PROVE Routed'
  <2>1. UNCHANGED <<phase, pending, toServer, member, attached, eligible, declared, mode,
                    ingress, wanted, formats, table, asked, tookAll>>
    BY <1>5 DEF Publish
  <2>2. \A m \in ToSet(wire') :
              \/ m \in ToSet(wire)
              \/ attached /\ m.kind = "added"
              \/ attached /\ mode = "auto" /\ eligible /\ s \in Decodable /\ Heard(m, {s})
    BY <1>5, PublishServed
  <2>3. ~tookAll => ~(attached /\ mode = "auto" /\ eligible)
    BY TypesFact DEF Links, Fresh, Newcomer
  <2>4. RoutedHearsOnlyRouted'
    BY <2>1, <2>2, <2>3
  <2>5. ~tookAll' /\ member' = "known" => Choosing'
    BY <2>1, <2>2, <2>3 DEF Heard
  <2> QED
    BY <2>1, <2>4, <2>5
<1>6. ASSUME NEW s \in Streams, NEW kind \in {"removed", "left"}, Withdraw(s, kind) PROVE Routed'
  <2>1. /\ UNCHANGED <<phase, pending, toServer, member, attached, eligible, mode,
                       ingress, wanted, formats, table, asked, tookAll>>
        /\ declared' \subseteq declared
    BY <1>6 DEF Withdraw
  <2>2. \A m \in ToSet(wire') : m \in ToSet(wire) \/ (attached /\ m.kind = kind)
    BY <1>6, WithdrawServed
  <2>3. RoutedHearsOnlyRouted'
    BY <2>1, <2>2
  <2>4. ~tookAll' /\ member' = "known" => Choosing'
    BY <2>1, <2>2
  <2> QED
    BY <2>1, <2>3, <2>4
<1>7. CASE Expire
  BY <1>7 DEF Expire
<1>8. ASSUME NEW choice \in RouteChoices, HostRoutes(choice) PROVE Routed'
  <2>1. /\ ingress' = choice[1] /\ wanted' = choice[2] /\ asked' = asked \cup choice[2]
        /\ tookAll' = (tookAll \/ choice[1] = "everything")
        /\ phase' = IF phase = "command" THEN "turn" ELSE phase
        /\ UNCHANGED <<roomVars, linkVars, serverVars>>
        /\ choice[1] \in {"routed", "everything"}
    BY <1>8 DEF HostRoutes, RouteChoices
  <2>2. ~tookAll' => ~tookAll /\ ingress' = "routed"
    BY <2>1
  <2> HIDE DEF Choosing
  <2>3. ~tookAll' /\ member' = "known" => Choosing'
    BY <2>1, <2>2 DEF Choosing, Off
  <2> QED
    BY <2>1, <2>2, <2>3
<1>9. ASSUME NEW j, NEW t, Dial(j, t), formats' \subseteq formats,
             UNCHANGED <<ingress, wanted, table, pending, wire, serverVars, asked, tookAll>>
      PROVE  Routed'
  <2> DEFINE a == Ask(IF t = NoJam THEN "join" ELSE "rejoin", {})
  <2>1. a.kind \in Joining /\ toServer' = <<a>> /\ phase' = "join"
    BY <1>9 DEF Dial, Ask, Joining
  <2> HIDE DEF a
  <2>2. ToSet(toServer') = {a}
    BY <2>1 DEF ToSet
  <2>3. ~tookAll' /\ member' = "known" => Choosing'
    BY <1>9, <2>1, <2>2 DEF Joining
  <2> QED
    BY <1>9, <2>3
<1>10. ASSUME NEW j \in Jams, JoinJam(j) PROVE Routed'
  BY <1>9, <1>10 DEF JoinJam
<1>11. ASSUME NEW j \in Jams, SwitchJam(j) PROVE Routed'
  BY <1>11 DEF SwitchJam
<1>12. CASE Redial
  BY <1>9, <1>12 DEF Redial
<1>13. ASSUME Disconnect, phase' \in Off, member' \in {member, "none"},
              UNCHANGED <<ingress, wanted, formats, asked, tookAll>>
       PROVE  Routed'
  <2>1. ToSet(wire') = {} /\ ToSet(toServer') = {} /\ ToSet(pending') = {} /\ table' = {}
    BY <1>13, QueuesFresh DEF Disconnect
  <2>2. ~tookAll' /\ member' = "known" => Choosing'
    BY <1>13, <2>1 DEF Disconnect
  <2> QED
    BY <1>13, <2>1, <2>2
<1>14. CASE Drop
  BY <1>13, <1>14 DEF Drop, Off
<1>15. CASE LoseJam
  BY <1>13, <1>15 DEF LoseJam, Off
<1>16. CASE Leave
  BY <1>13, <1>16 DEF Leave, Off
<1>17. CASE Shutdown
  BY <1>13, <1>17 DEF Shutdown, Off
<1>18. CASE JoinRejected
  BY <1>13, <1>18 DEF JoinRejected, Off
<1>19. CASE JoinAnswered
  <2>1. PICK reply : /\ reply.kind = "joined" /\ Receive(reply)
                     /\ asked' = wanted \cup (IF reply.resumed THEN asked ELSE {})
                     /\ tookAll' = ((reply.resumed /\ tookAll) \/ ingress = "everything")
    BY <1>19 DEF JoinAnswered
  <2>2. /\ reply \in Messages /\ reply \in ToSet(wire) /\ ToSet(wire') \subseteq ToSet(wire)
        /\ ToSet(pending') \subseteq ToSet(pending) \cup ToSet(wire)
    BY <1>0, <2>1, OnReceived
  <2>3. reply.resumed \in BOOLEAN
    BY <2>1, <2>2, Shapes
  <2>4. /\ phase = "join" /\ phase' = FirstRequest /\ formats' = {}
        /\ toServer' = Append(toServer, Ask(FirstRequest, {}))
        /\ UNCHANGED <<ingress, wanted, table, mode, declared, eligible>>
    BY <1>19 DEF JoinAnswered, FormatsAfterReset
  <2>5. pending = <<>> /\ toServer = <<>> /\ attached /\ table = {}
    <3>1. wire # <<>>
      BY <2>2, OnEmpty
    <3> QED
      BY <2>1, <2>2, <2>4, <3>1 DEF Links, JoinUnderWay, TableFollowsRegistry
  <2>6. /\ ToSet(pending') \subseteq ToSet(wire)
        /\ ToSet(toServer') = {Ask(FirstRequest, {})} /\ table' = {}
    BY <2>2, <2>4, <2>5, OnEmpty DEF ToSet
  <2>7. \A m \in ToSet(wire) : m.kind \notin {"ack", "capabilities"}
    BY <2>4 DEF Links, JoinUnderWay
  <2>8. Ask(FirstRequest, {}).kind = FirstRequest
    BY DEF Ask
  <2>9. CASE reply.resumed
    <3>1. /\ wanted \subseteq asked /\ asked' = asked /\ (~tookAll' => ~tookAll /\ ingress = "routed")
      BY <2>1, <2>9, TypesFact
    <3>2. ~tookAll' => declared \subseteq asked /\ (eligible => mode = "explicit")
      BY <2>1, <2>2, <2>4, <2>5, <3>1, TypesFact DEF Links, Fresh, Newcomer
    <3>3. ~tookAll' => FirstRequest = "silence"
      BY <3>1 DEF FirstRequest
    <3>4. RoutedHearsOnlyRouted'
      BY <2>2, <2>4, <2>6, <3>1
    <3>5. ~tookAll' => Choosing'
      BY <2>2, <2>4, <2>6, <2>7, <2>8, <3>1, <3>2, <3>3
    <3> QED
      BY <2>4, <3>1, <3>4, <3>5
  <2>10. CASE ~reply.resumed
    <3>1. /\ asked' = wanted /\ tookAll' = (ingress = "everything")
          /\ ~eligible /\ declared = {}
          /\ \A m \in ToSet(wire) : m.kind # "format"
      BY <2>1, <2>2, <2>4, <2>10 DEF Links, JoinUnderWay, Newcomer
    <3>2. ~tookAll' => FirstRequest = "silence" /\ ingress' = "routed"
      BY <2>4, <3>1, TypesFact DEF FirstRequest, CapabilitiesFirst
    <3>3. RoutedHearsOnlyRouted'
      BY <2>2, <2>4, <2>6, <3>1
    <3>4. ~tookAll' => Choosing'
      BY <2>2, <2>4, <2>6, <2>7, <2>8, <3>1, <3>2
    <3> QED
      BY <2>4, <3>1, <3>3, <3>4
  <2> QED
    BY <2>3, <2>9, <2>10
<1>20. ASSUME Pump PROVE Routed'
  <2>1. /\ UNCHANGED <<mode, declared, eligible, member, asked, tookAll, wanted, ingress>>
        /\ ToSet(wire') \subseteq ToSet(wire)
        /\ ToSet(pending') \subseteq ToSet(pending) \cup ToSet(wire)
        /\ phase \notin Off \cup {"join"}
    BY <1>20 DEF Pump, Steady
  <2>2. member = "known"
    BY <2>1 DEF Links, Linked
  <2>3. ~tookAll => mode = "explicit"
    BY <1>20, <2>1, <2>2 DEF Pump
  <2>4. RoutedHearsOnlyRouted'
    <3>1. \A s \in formats' \cup table' :
            s \in formats \cup table \/ \E m \in ToSet(pending) \cup ToSet(wire) : Heard(m, {s})
      BY <1>20 DEF Pump
    <3> QED
      BY <2>1, <3>1 DEF Heard
  <2>5. ~tookAll => \A a \in ToSet(toServer') :
          /\ a.kind # "all"
          /\ a.kind = "take" => a.ids \subseteq asked
          /\ a.kind = "capabilities" => mode = "explicit"
    <3>1. \A a \in ToSet(toServer') : a \in ToSet(toServer) \/ Rightful(a)
      BY <1>20 DEF Pump
    <3> QED
      BY <2>2, <2>3, <3>1 DEF Rightful
  <2>6. ~tookAll' /\ member' = "known" => Choosing'
    BY <2>1, <2>2, <2>3, <2>5
  <2> QED
    BY <2>1, <2>4, <2>6
<1>21. CASE \/ SilenceAnswered \/ CapabilitiesAnswered \/ StartReconcile \/ IngressAnswered
            \/ GiveUp \/ OpenMedia \/ PollEvent \/ PollNothing
  BY <1>20, <1>21, PumpSteps
<1> QED
  BY <1>1, <1>2, <1>3, <1>4, <1>5, <1>6, <1>7, <1>8, <1>10, <1>11, <1>12, <1>14,
     <1>15, <1>16, <1>17, <1>18, <1>19, <1>21
     DEF SessionNext

-----------------------------------------------------------------------------
(* The theorems.                                                           *)

SessionInv == SessionTypes /\ Links /\ TableFollowsRegistry /\ Routed

\* The invariant holds of every behaviour of worker, server and media threads.
THEOREM SessionInvariant == SessionSpec => []SessionInv
<1>1. SessionInit => SessionInv
  BY TypesInit, LinksInit, TableInit, RoutedInit DEF SessionInv
<1>2. SessionInv /\ [SessionNext]_sessionVars => SessionInv'
  BY TypesStep, LinksStep, TableStep, RoutedStep DEF SessionInv
<1> QED
  BY <1>1, <1>2, PTL DEF SessionSpec

\* The worker and the server keep to the protocol's messages, whatever jams,
\* streams and faults there are.
THEOREM SessionTyped == SessionSpec => []SessionTypeOK
<1>1. SessionInv => SessionTypeOK
  BY DEF SessionInv, SessionTypes
<1> QED
  BY <1>1, SessionInvariant, PTL

\* The media threads decode what the registry has formats for, and nothing
\* once the connection is gone.
THEOREM TableDoesFollow == SessionSpec => []TableFollowsRegistry
<1>1. SessionInv => TableFollowsRegistry
  BY DEF SessionInv
<1> QED
  BY <1>1, SessionInvariant, PTL

\* Silence first: a client that only ever routed is sent nothing else, in any
\* room, over any number of drops, resumes and reconciles.
THEOREM OnlyRoutedIsHeard == SessionSpec => []RoutedHearsOnlyRouted
<1>1. SessionInv => RoutedHearsOnlyRouted
  BY DEF SessionInv, Routed
<1> QED
  BY <1>1, SessionInvariant, PTL

-----------------------------------------------------------------------------
(***************************************************************************)
(* QuietMeansRouted: once everything sent is handled, the server serves    *)
(* what the host wants of the room, all of it can be decoded, and nothing  *)
(* else but what was left behind.                                          *)
(*                                                                         *)
(* Six facts about what is still on its way, each inductive over those     *)
(* before it: the news on the two queues make the worker's room the one on *)
(* the air (RoomFollows); one request is under way or its reply is         *)
(* (Lockstep); what the worker believes the server holds is what it holds, *)
(* or the answer that makes it so is coming (Believed); the server is at   *)
(* the aim, or the request under way takes it there (Reconciled); every    *)
(* stream served has a format, or one is coming (Decodes); and every stream*)
(* with a format is served, or its loss is excused (Spared).               *)
(***************************************************************************)

(* What is in the queues, in its order.                                    *)

\* Messages that are about a stream.
EventKinds == {"added", "removed", "left", "format"}

\* A stream's "added" is the first the queue says of it.
AddedFirst(q) ==
  \A i, j \in 1..Len(q) :
    i < j /\ q[j].kind = "added" /\ q[i].kind \in EventKinds => q[i].stream # q[j].stream

\* Nothing of what p is about enters in q.
NoneBefore(p, q) ==
  \A m \in ToSet(p), n \in ToSet(q) :
    n.kind = "added" /\ m.kind \in EventKinds => m.stream # n.stream

\* At most one reply in a queue.
OneReply(q) ==
  \A i, j \in 1..Len(q) : q[i].kind \in Replies /\ q[j].kind \in Replies => i = j

NoReply(q) == \A m \in ToSet(q) : m.kind \notin Replies

NoAdded(q) == \A m \in ToSet(q) : m.kind # "added"

\* Two queues in order, of which the second says nothing new of a stream the
\* first is about, are one queue in order.
LEMMA Ordered ==
  ASSUME NEW p \in Seq(Messages), NEW q \in Seq(Messages),
         AddedFirst(p), AddedFirst(q), NoneBefore(p, q)
  PROVE  AddedFirst(p \o q)
<1>1. /\ DOMAIN p = 1..Len(p) /\ DOMAIN q = 1..Len(q) /\ Len(p) \in Nat /\ Len(q) \in Nat
      /\ Len(p \o q) = Len(p) + Len(q)
      /\ \A k \in 1..(Len(p) + Len(q)) :
           (p \o q)[k] = IF k <= Len(p) THEN p[k] ELSE q[k - Len(p)]
  OBVIOUS
<1> SUFFICES ASSUME NEW i \in 1..(Len(p) + Len(q)), NEW j \in 1..(Len(p) + Len(q)), i < j,
                    (p \o q)[j].kind = "added", (p \o q)[i].kind \in EventKinds
             PROVE  (p \o q)[i].stream # (p \o q)[j].stream
  BY <1>1 DEF AddedFirst
<1>2. CASE j <= Len(p)
  <2>1. i \in 1..Len(p) /\ j \in 1..Len(p) /\ (p \o q)[i] = p[i] /\ (p \o q)[j] = p[j]
    BY <1>1, <1>2
  <2> QED
    BY <2>1 DEF AddedFirst
<1>3. CASE i <= Len(p) /\ j > Len(p)
  <2>1. i \in 1..Len(p) /\ j - Len(p) \in 1..Len(q)
    BY <1>1, <1>3
  <2>2. (p \o q)[i] = p[i] /\ (p \o q)[j] = q[j - Len(p)]
    BY <1>1, <1>3
  <2>3. p[i] \in ToSet(p) /\ q[j - Len(p)] \in ToSet(q)
    BY <1>1, <2>1 DEF ToSet
  <2> QED
    BY <2>2, <2>3 DEF NoneBefore
<1>4. CASE i > Len(p)
  <2>1. i - Len(p) \in 1..Len(q) /\ j - Len(p) \in 1..Len(q) /\ i - Len(p) < j - Len(p)
    BY <1>1, <1>4
  <2>2. (p \o q)[i] = q[i - Len(p)] /\ (p \o q)[j] = q[j - Len(p)]
    BY <1>1, <1>4
  <2> QED
    BY <2>1, <2>2 DEF AddedFirst
<1> QED
  BY <1>1, <1>2, <1>3, <1>4

\* Queues of one message or none.
LEMMA OrderedShort ==
  /\ AddedFirst(<<>>) /\ OneReply(<<>>) /\ NoReply(<<>>)
  /\ \A m : AddedFirst(<<m>>) /\ OneReply(<<m>>) /\ ToSet(<<m>>) = {m}
  /\ \A q : NoneBefore(<<>>, q) /\ NoneBefore(q, <<>>)
<1>1. \A m : Len(<<m>>) = 1 /\ DOMAIN <<m>> = 1..1 /\ <<m>>[1] = m
  OBVIOUS
<1>2. \A m : ToSet(<<m>>) = {m}
  BY <1>1 DEF ToSet
<1>3. \A i, j \in 1..1 : i = j /\ ~(i < j)
  OBVIOUS
<1>4. \A m : AddedFirst(<<m>>) /\ OneReply(<<m>>)
  BY <1>1, <1>3 DEF AddedFirst, OneReply
<1>5. ToSet(<<>>) = {} /\ Len(<<>>) = 0
  BY DEF ToSet
<1>6. AddedFirst(<<>>) /\ OneReply(<<>>) /\ NoReply(<<>>)
  BY <1>5 DEF AddedFirst, OneReply, NoReply
<1> QED
  BY <1>2, <1>4, <1>5, <1>6 DEF NoneBefore

\* What brings nothing new into the room may follow anything.
LEMMA OrderedOn ==
  ASSUME NEW p, NEW q \in Seq(Messages), NEW r \in Seq(Messages),
         AddedFirst(q), NoneBefore(p, q), NoAdded(r)
  PROVE  AddedFirst(q \o r) /\ NoneBefore(p, q \o r)
<1>1. DOMAIN r = 1..Len(r)
  OBVIOUS
<1>2. AddedFirst(r) /\ NoneBefore(q, r)
  BY <1>1 DEF AddedFirst, NoneBefore, NoAdded, ToSet
<1>3. AddedFirst(q \o r)
  BY <1>2, Ordered
<1>4. ToSet(q \o r) = ToSet(q) \cup ToSet(r)
  BY MessagesJoined
<1> QED
  BY <1>3, <1>4 DEF NoneBefore, NoAdded

\* A queue with a reply, after or before one without.
LEMMA OneReplyOn ==
  ASSUME NEW p \in Seq(Messages), NEW q \in Seq(Messages),
         (OneReply(p) /\ NoReply(q)) \/ (NoReply(p) /\ OneReply(q))
  PROVE  OneReply(p \o q)
<1>1. /\ DOMAIN p = 1..Len(p) /\ DOMAIN q = 1..Len(q) /\ Len(p) \in Nat /\ Len(q) \in Nat
      /\ Len(p \o q) = Len(p) + Len(q)
      /\ \A k \in 1..(Len(p) + Len(q)) :
           (p \o q)[k] = IF k <= Len(p) THEN p[k] ELSE q[k - Len(p)]
  OBVIOUS
<1>2. /\ NoReply(p) => \A k \in 1..Len(p) : p[k].kind \notin Replies
      /\ NoReply(q) => \A k \in 1..Len(q) : q[k].kind \notin Replies
  BY <1>1 DEF NoReply, ToSet
<1> SUFFICES ASSUME NEW i \in 1..(Len(p) + Len(q)), NEW j \in 1..(Len(p) + Len(q)),
                    (p \o q)[i].kind \in Replies, (p \o q)[j].kind \in Replies
             PROVE  i = j
  BY <1>1 DEF OneReply
<1>3. CASE OneReply(p) /\ NoReply(q)
  <2>1. \A k \in 1..(Len(p) + Len(q)) :
          (p \o q)[k].kind \in Replies => k \in 1..Len(p) /\ p[k].kind \in Replies
    <3> SUFFICES ASSUME NEW k \in 1..(Len(p) + Len(q)), (p \o q)[k].kind \in Replies
                 PROVE  k \in 1..Len(p) /\ p[k].kind \in Replies
      OBVIOUS
    <3>1. CASE k <= Len(p)
      BY <1>1, <3>1
    <3>2. CASE k > Len(p)
      <4>1. k - Len(p) \in 1..Len(q) /\ (p \o q)[k] = q[k - Len(p)]
        BY <1>1, <3>2
      <4> QED
        BY <1>2, <1>3, <4>1
    <3> QED
      BY <1>1, <3>1, <3>2
  <2> QED
    BY <1>3, <2>1 DEF OneReply
<1>4. CASE NoReply(p) /\ OneReply(q)
  <2>1. \A k \in 1..(Len(p) + Len(q)) :
          (p \o q)[k].kind \in Replies => k - Len(p) \in 1..Len(q) /\ q[k - Len(p)].kind \in Replies
    <3> SUFFICES ASSUME NEW k \in 1..(Len(p) + Len(q)), (p \o q)[k].kind \in Replies
                 PROVE  k - Len(p) \in 1..Len(q) /\ q[k - Len(p)].kind \in Replies
      OBVIOUS
    <3>1. CASE k <= Len(p)
      BY <1>1, <1>2, <1>4, <3>1
    <3>2. CASE k > Len(p)
      BY <1>1, <3>2
    <3> QED
      BY <1>1, <3>1, <3>2
  <2>2. i - Len(p) = j - Len(p)
    BY <1>4, <2>1 DEF OneReply
  <2> QED
    BY <1>1, <2>2
<1> QED
  BY <1>3, <1>4

\* A sequence is as long as its domain.
LEMMA LengthOf ==
  ASSUME NEW S, NEW r \in Seq(S), NEW n \in Nat, DOMAIN r = 1..n
  PROVE  Len(r) = n
OBVIOUS

\* What is taken out of a queue leaves the rest in its order.
LEMMA OrderedParts ==
  ASSUME NEW q \in Seq(Messages), NEW i \in 1..Len(q)
  PROVE  LET before == SubSeq(q, 1, i - 1)
             after  == SubSeq(q, i + 1, Len(q))
         IN  /\ ToSet(q) = ToSet(before) \cup {q[i]} \cup ToSet(after)
             /\ AddedFirst(q) =>
                  AddedFirst(before) /\ AddedFirst(after) /\ NoneBefore(before, after)
             /\ OneReply(q) /\ q[i].kind \in Replies => NoReply(before) /\ NoReply(after)
<1>1. /\ DOMAIN q = 1..Len(q) /\ Len(q) \in Nat /\ i \in Nat /\ i >= 1 /\ i <= Len(q)
      /\ \A k \in 1..Len(q) : q[k] \in Messages
  OBVIOUS
<1>2. \A k \in 1..(i - 1) : k \in 1..Len(q)
  BY <1>1
<1>3. \A k \in 1..(Len(q) - i) : i + k \in 1..Len(q)
  BY <1>1
<1>4. /\ SubSeq(q, 1, i - 1) \in Seq(Messages)
      /\ DOMAIN SubSeq(q, 1, i - 1) = 1..(i - 1)
      /\ \A k \in 1..(i - 1) : SubSeq(q, 1, i - 1)[k] = q[k]
  BY <1>1, <1>2
<1>5. /\ SubSeq(q, i + 1, Len(q)) \in Seq(Messages)
      /\ DOMAIN SubSeq(q, i + 1, Len(q)) = 1..(Len(q) - i)
      /\ \A k \in 1..(Len(q) - i) : SubSeq(q, i + 1, Len(q))[k] = q[i + k]
  BY <1>1, <1>3
<1> DEFINE before == SubSeq(q, 1, i - 1)
           after  == SubSeq(q, i + 1, Len(q))
<1>10. Len(before) = i - 1 /\ Len(after) = Len(q) - i
  <2>1. i - 1 \in Nat /\ Len(q) - i \in Nat
    BY <1>1
  <2> QED
    BY <1>4, <1>5, <2>1, LengthOf
<1>11. /\ DOMAIN before = 1..(i - 1) /\ DOMAIN after = 1..(Len(q) - i)
       /\ \A k \in 1..(i - 1) : before[k] = q[k]
       /\ \A k \in 1..(Len(q) - i) : after[k] = q[i + k]
  BY <1>4, <1>5
<1> HIDE DEF before, after
<1>6. ToSet(q) \subseteq ToSet(before) \cup {q[i]} \cup ToSet(after)
  <2> SUFFICES ASSUME NEW k \in 1..Len(q)
               PROVE  q[k] \in ToSet(before) \cup {q[i]} \cup ToSet(after)
    BY <1>1 DEF ToSet
  <2>1. CASE k < i
    <3>1. k \in 1..(i - 1)
      BY <1>1, <2>1
    <3> QED
      BY <1>10, <1>11, <3>1 DEF ToSet
  <2>2. CASE k > i
    <3>1. k - i \in 1..(Len(q) - i) /\ i + (k - i) = k
      BY <1>1, <2>2
    <3> QED
      BY <1>10, <1>11, <3>1 DEF ToSet
  <2> QED
    BY <1>1, <2>1, <2>2
<1>7. ToSet(before) \cup {q[i]} \cup ToSet(after) \subseteq ToSet(q)
  BY OnTaken DEF before, after
<1>8. ASSUME AddedFirst(q)
      PROVE  AddedFirst(before) /\ AddedFirst(after) /\ NoneBefore(before, after)
  <2>1. AddedFirst(before)
    BY <1>2, <1>10, <1>11, <1>8 DEF AddedFirst
  <2>2. \A a, b \in 1..(Len(q) - i) : a < b => i + a < i + b
    BY <1>1
  <2>3. AddedFirst(after)
    BY <1>3, <1>10, <1>11, <1>8, <2>2 DEF AddedFirst
  <2>4. \A a \in 1..(i - 1), b \in 1..(Len(q) - i) : a < i + b
    BY <1>1
  <2>5. NoneBefore(before, after)
    <3>1. \A a \in 1..(i - 1), b \in 1..(Len(q) - i) :
            q[i + b].kind = "added" /\ q[a].kind \in EventKinds => q[a].stream # q[i + b].stream
      BY <1>2, <1>3, <1>8, <2>4 DEF AddedFirst
    <3>2. \A a \in 1..(i - 1), b \in 1..(Len(q) - i) :
            after[b].kind = "added" /\ before[a].kind \in EventKinds
              => before[a].stream # after[b].stream
      BY <1>11, <3>1
    <3> QED
      BY <1>11, <3>2 DEF NoneBefore, ToSet
  <2> QED
    BY <2>1, <2>3, <2>5
<1>9. ASSUME OneReply(q), q[i].kind \in Replies
      PROVE  NoReply(before) /\ NoReply(after)
  <2>1. \A k \in 1..Len(q) : k # i => q[k].kind \notin Replies
    BY <1>9 DEF OneReply
  <2>2. \A k \in 1..(i - 1) : k # i
    BY <1>1
  <2>3. \A k \in 1..(Len(q) - i) : i + k # i
    BY <1>1
  <2>4. /\ \A k \in 1..(i - 1) : before[k].kind \notin Replies
        /\ \A k \in 1..(Len(q) - i) : after[k].kind \notin Replies
    BY <1>2, <1>3, <1>11, <2>1, <2>2, <2>3
  <2> QED
    BY <1>11, <2>4 DEF NoReply, ToSet
<1> QED
  BY <1>6, <1>7, <1>8, <1>9 DEF before, after

\* The head of a queue in order says the first of its stream.
LEMMA OrderedTail ==
  ASSUME NEW q \in Seq(Messages), q # <<>>
  PROVE  AddedFirst(q) =>
           /\ AddedFirst(Tail(q))
           /\ \A m \in ToSet(Tail(q)) :
                m.kind = "added" /\ Head(q).kind \in EventKinds => m.stream # Head(q).stream
<1>1. /\ Head(q) = q[1] /\ DOMAIN Tail(q) = 1..(Len(q) - 1) /\ Len(Tail(q)) = Len(q) - 1
      /\ Len(q) \in Nat \ {0}
      /\ \A k \in 1..(Len(q) - 1) : Tail(q)[k] = q[k + 1]
  OBVIOUS
<1>2. \A k \in 1..(Len(q) - 1) : k + 1 \in 1..Len(q) /\ 1 < k + 1
  BY <1>1
<1>3. \A a, b \in 1..(Len(q) - 1) : a < b => a + 1 < b + 1
  BY <1>1
<1>4. 1 \in 1..Len(q)
  BY <1>1
<1> SUFFICES ASSUME AddedFirst(q)
             PROVE  /\ AddedFirst(Tail(q))
                    /\ \A m \in ToSet(Tail(q)) :
                         m.kind = "added" /\ Head(q).kind \in EventKinds => m.stream # Head(q).stream
  OBVIOUS
<1>5. AddedFirst(Tail(q))
  BY <1>1, <1>2, <1>3 DEF AddedFirst
<1>6. \A k \in 1..(Len(q) - 1) :
        q[k + 1].kind = "added" /\ q[1].kind \in EventKinds => q[1].stream # q[k + 1].stream
  BY <1>2, <1>4 DEF AddedFirst
<1> QED
  BY <1>1, <1>5, <1>6 DEF ToSet

-----------------------------------------------------------------------------
(* What the worker knows of the room, and what is on its way.              *)

Arriving == ToSet(pending) \cup ToSet(wire)

\* The queue set aside is read first: together they are one, in order.
InOrder == AddedFirst(pending) /\ AddedFirst(wire) /\ NoneBefore(pending, wire)

\* The streams seen and the news on their way make up those on the air; what
\* was said so far is of streams that are or were.
Roster(seen, news, on, off) ==
  /\ \A s \in Streams :
       s \in on <=> /\ s \in seen \/ Event("added", s) \in news
                    /\ Event("removed", s) \notin news /\ Event("left", s) \notin news
  /\ seen \subseteq on \cup off
  /\ \A m \in news : m.kind \in EventKinds => m.stream \in on \cup off

\* The worker has joined, on this connection.
Online == phase \notin Off \cup {"join"}

\* The room as the worker sees it, once it has read what is on its way, is the
\* one on the air; so is the room an answer to a join brings.
RoomFollows ==
  /\ InOrder
  /\ declared \subseteq Offered
  /\ Online => Roster(room, Arriving, live, gone)
  /\ phase = "join" =>
       \A m \in ToSet(wire) : m.kind = "joined" => Roster(m.streams, ToSet(wire), live, gone)
  /\ phase = "join" /\ attached => \E m \in ToSet(wire) : m.kind = "joined"

\* News that say nothing of who is there change nothing.
LEMMA SameRoster ==
  ASSUME NEW seen, NEW news, NEW more, NEW on, NEW off, Roster(seen, news, on, off),
         \A m : m.kind \in {"added", "removed", "left"} => (m \in news <=> m \in more),
         \A m \in more : m.kind = "format" => m.stream \in on \cup off
  PROVE  Roster(seen, more, on, off)
<1>1. \A s : /\ Event("added", s).kind = "added" /\ Event("removed", s).kind = "removed"
             /\ Event("left", s).kind = "left"
  BY DEF Event
<1>2. \A s : /\ Event("added", s) \in news <=> Event("added", s) \in more
             /\ Event("removed", s) \in news <=> Event("removed", s) \in more
             /\ Event("left", s) \in news <=> Event("left", s) \in more
  BY <1>1
<1>3. \A m \in more : m.kind \in EventKinds => m.stream \in on \cup off
  BY DEF Roster, EventKinds
<1> QED
  BY <1>2, <1>3 DEF Roster

\* A stream that enters the room.
LEMMA RosterEnters ==
  ASSUME NEW seen, NEW news, NEW more, NEW on, NEW off, NEW s, s \notin on \cup off,
         Roster(seen, news, on, off), Event("added", s) \in more,
         \A m \in more : m = Event("added", s) \/ m = Event("format", s)
  PROVE  Roster(seen, news \cup more, on \cup {s}, off)
<1>1. /\ \A u : u # s => Event("added", u) \notin more
      /\ \A u : Event("removed", u) \notin more /\ Event("left", u) \notin more
  BY DEF Event
<1>2. Event("removed", s) \notin news /\ Event("left", s) \notin news
  BY DEF Roster, Event, EventKinds
<1>3. \A u \in Streams :
        u \in on \cup {s} <=> /\ u \in seen \/ Event("added", u) \in news \cup more
                              /\ Event("removed", u) \notin news \cup more
                              /\ Event("left", u) \notin news \cup more
  BY <1>1, <1>2 DEF Roster
<1>4. \A m \in more : m.stream = s
  BY DEF Event
<1> QED
  BY <1>3, <1>4 DEF Roster

\* A stream that leaves it.
LEMMA RosterLeaves ==
  ASSUME NEW seen, NEW news, NEW on, NEW off, NEW s, NEW kind \in {"removed", "left"},
         s \in on, Roster(seen, news, on, off)
  PROVE  Roster(seen, news \cup {Event(kind, s)}, on \ {s}, off \cup {s})
<1> DEFINE m == Event(kind, s)
<1>1. /\ \A u : Event("added", u) # m
      /\ \A u : u # s => Event("removed", u) # m /\ Event("left", u) # m
      /\ Event("removed", s) = m \/ Event("left", s) = m
      /\ m.stream = s
  BY DEF Event
<1> HIDE DEF m
<1>2. Roster(seen, news \cup {m}, on \ {s}, off \cup {s})
  BY <1>1 DEF Roster
<1> QED
  BY <1>2 DEF m

\* The room after the next message, which says the first of its stream that
\* is not yet handled.
RoomAfter(seen, m) ==
  CASE m.kind = "added" -> seen \cup {m.stream}
    [] m.kind \in {"removed", "left"} -> seen \ {m.stream}
    [] OTHER -> seen

LEMMA RosterHeard ==
  ASSUME NEW seen, NEW news, NEW m \in Messages, NEW rest, NEW on, NEW off,
         Roster(seen, news, on, off), news = {m} \cup rest,
         \A n \in rest : n.kind = "added" /\ m.kind \in EventKinds => n.stream # m.stream
  PROVE  Roster(RoomAfter(seen, m), rest, on, off)
<1>1. /\ m.kind = "added" => m = Event("added", m.stream)
      /\ m.kind = "removed" => m = Event("removed", m.stream)
      /\ m.kind = "left" => m = Event("left", m.stream)
  BY DEF Messages, Event
<1>2. \A u : /\ Event("added", u).kind = "added" /\ Event("removed", u).kind = "removed"
             /\ Event("left", u).kind = "left" /\ Event("added", u).stream = u
             /\ Event("removed", u).stream = u /\ Event("left", u).stream = u
  BY DEF Event
<1>3. \A n \in rest : n.kind \in EventKinds => n.stream \in on \cup off
  BY DEF Roster
<1>4. CASE m.kind = "added"
  <2>1. \A u \in Streams :
          u \in on <=> /\ u \in seen \cup {m.stream} \/ Event("added", u) \in rest
                       /\ Event("removed", u) \notin rest /\ Event("left", u) \notin rest
    BY <1>1, <1>2, <1>4 DEF Roster
  <2>2. RoomAfter(seen, m) = seen \cup {m.stream} /\ m.stream \in on \cup off
    BY <1>4 DEF RoomAfter, Roster, EventKinds
  <2> QED
    BY <1>3, <2>1, <2>2 DEF Roster
<1>5. CASE m.kind \in {"removed", "left"}
  <2>1. Event("added", m.stream) \notin rest
    BY <1>2, <1>5 DEF EventKinds
  <2>2. m.stream \in Streams => m.stream \notin on
    BY <1>1, <1>2, <1>5 DEF Roster
  <2>3. \A u : u # m.stream =>
          /\ Event("added", u) \in news <=> Event("added", u) \in rest
          /\ Event("removed", u) \in news <=> Event("removed", u) \in rest
          /\ Event("left", u) \in news <=> Event("left", u) \in rest
    BY <1>2, <1>5
  <2>4. \A u \in Streams :
          u \in on <=> /\ u \in seen \ {m.stream} \/ Event("added", u) \in rest
                       /\ Event("removed", u) \notin rest /\ Event("left", u) \notin rest
    BY <2>1, <2>2, <2>3 DEF Roster
  <2>5. RoomAfter(seen, m) = seen \ {m.stream}
    BY <1>5 DEF RoomAfter
  <2> QED
    BY <1>3, <2>4, <2>5 DEF Roster
<1>6. CASE m.kind \notin {"added", "removed", "left"}
  <2>1. RoomAfter(seen, m) = seen
    BY <1>6 DEF RoomAfter
  <2>2. \A n : n.kind \in {"added", "removed", "left"} => (n \in news <=> n \in rest)
    BY <1>6
  <2>3. \A n \in rest : n.kind = "format" => n.stream \in on \cup off
    BY <1>3 DEF EventKinds
  <2> QED
    BY <2>1, <2>2, <2>3, SameRoster
<1> QED
  BY <1>4, <1>5, <1>6

\* The next message of the worker's two queues.
LEMMA NextHeard ==
  ASSUME Queues, InOrder, PollEvent
  PROVE  \E m \in Messages :
           /\ Apply(m) /\ InOrder' /\ Arriving = {m} \cup Arriving'
           /\ ToSet(pending') \subseteq ToSet(pending) /\ ToSet(wire') \subseteq ToSet(wire)
           /\ \A n \in Arriving' :
                n.kind = "added" /\ m.kind \in EventKinds => n.stream # m.stream
           /\ OneReply(wire)' \/ ~OneReply(wire)
<1>1. CASE pending # <<>>
  <2>1. /\ Apply(Head(pending)) /\ pending' = Tail(pending) /\ UNCHANGED wire
        /\ pending \in Seq(Messages)
    BY <1>1 DEF PollEvent, Queues
  <2>2. /\ Head(pending) \in Messages /\ ToSet(pending) = {Head(pending)} \cup ToSet(pending')
        /\ AddedFirst(pending')
        /\ \A n \in ToSet(pending') :
             n.kind = "added" /\ Head(pending).kind \in EventKinds => n.stream # Head(pending).stream
    BY <1>1, <2>1, OnRead, OrderedTail DEF InOrder
  <2>3. InOrder'
    BY <2>1, <2>2 DEF InOrder, NoneBefore
  <2>4. \A n \in Arriving' :
          n.kind = "added" /\ Head(pending).kind \in EventKinds => n.stream # Head(pending).stream
    BY <2>1, <2>2 DEF InOrder, NoneBefore, Arriving
  <2> QED
    BY <2>1, <2>2, <2>3, <2>4 DEF Arriving
<1>2. CASE pending = <<>>
  <2>1. /\ Apply(Head(wire)) /\ wire' = Tail(wire) /\ UNCHANGED pending /\ wire # <<>>
        /\ wire \in Seq(Messages)
    BY <1>2 DEF PollEvent, Queues
  <2>2. /\ Head(wire) \in Messages /\ ToSet(wire) = {Head(wire)} \cup ToSet(wire')
        /\ AddedFirst(wire')
        /\ \A n \in ToSet(wire') :
             n.kind = "added" /\ Head(wire).kind \in EventKinds => n.stream # Head(wire).stream
    BY <2>1, OnRead, OrderedTail DEF InOrder
  <2>3. InOrder'
    BY <2>1, <2>2 DEF InOrder, NoneBefore
  <2>4. ToSet(pending) = {} /\ ToSet(pending') = {}
    BY <1>2, <2>1, OnEmpty
  <2>5. OneReply(wire) => OneReply(wire')
    <3>1. /\ Len(wire') = Len(wire) - 1 /\ Len(wire) \in Nat \ {0}
          /\ \A k \in 1..(Len(wire) - 1) : wire'[k] = wire[k + 1] /\ k + 1 \in 1..Len(wire)
      BY <2>1
    <3>2. /\ \A k \in 1..Len(wire') : k + 1 \in 1..Len(wire) /\ wire'[k] = wire[k + 1]
          /\ \A a, b \in 1..Len(wire') : a + 1 = b + 1 => a = b
      BY <3>1
    <3> QED
      BY <3>2 DEF OneReply
  <2> QED
    BY <2>1, <2>2, <2>3, <2>4, <2>5 DEF Arriving
<1> QED
  BY <1>1, <1>2

\* A reply is taken out of the wire, what came before it set aside: all but it
\* stays, in order.
LEMMA Received ==
  ASSUME Queues, NEW reply, Receive(reply)
  PROVE  /\ reply \in Messages /\ reply.kind \in Replies /\ reply \in ToSet(wire)
         /\ Arriving = {reply} \cup Arriving'
         /\ ToSet(wire') \subseteq ToSet(wire)
         /\ InOrder => InOrder'
         /\ OneReply(wire) => NoReply(wire') /\ (NoReply(pending) => NoReply(pending'))
         /\ OneReply(wire)' \/ ~OneReply(wire)
<1>1. PICK i \in 1..Len(wire) :
        /\ reply = wire[i] /\ Answers(wire[i])
        /\ pending' = pending \o SubSeq(wire, 1, i - 1)
        /\ wire' = SubSeq(wire, i + 1, Len(wire))
  BY DEF Receive
<1> DEFINE before == SubSeq(wire, 1, i - 1)
           after  == SubSeq(wire, i + 1, Len(wire))
<1>2. /\ before \in Seq(Messages) /\ after \in Seq(Messages) /\ wire[i] \in Messages
      /\ pending \in Seq(Messages) /\ wire \in Seq(Messages) /\ wire[i] \in ToSet(wire)
  BY OnTaken DEF Queues
<1>3. /\ ToSet(wire) = ToSet(before) \cup {wire[i]} \cup ToSet(after)
      /\ AddedFirst(wire) => AddedFirst(before) /\ AddedFirst(after) /\ NoneBefore(before, after)
      /\ OneReply(wire) /\ wire[i].kind \in Replies => NoReply(before) /\ NoReply(after)
  BY <1>2, OrderedParts
<1>4. pending' = pending \o before /\ wire' = after
  BY <1>1
<1> HIDE DEF before, after
<1>5. ToSet(pending') = ToSet(pending) \cup ToSet(before)
  BY <1>2, <1>4, MessagesJoined
<1>6. ASSUME InOrder PROVE InOrder'
  <2>1. NoneBefore(pending, before) /\ NoneBefore(pending, after)
    BY <1>3, <1>6 DEF InOrder, NoneBefore
  <2>2. AddedFirst(pending')
    BY <1>2, <1>3, <1>4, <1>6, <2>1, Ordered DEF InOrder
  <2>3. NoneBefore(pending', after)
    BY <1>3, <1>5, <1>6, <2>1 DEF NoneBefore, InOrder
  <2> QED
    BY <1>3, <1>4, <1>6, <2>2, <2>3 DEF InOrder
<1>7. ASSUME OneReply(wire)
      PROVE  NoReply(wire') /\ (NoReply(pending) => NoReply(pending')) /\ OneReply(wire')
  <2>1. NoReply(before) /\ NoReply(after)
    BY <1>1, <1>3, <1>7 DEF Answers
  <2>2. OneReply(after)
    BY <2>1, <1>2 DEF NoReply, OneReply, ToSet
  <2> QED
    BY <1>4, <1>5, <2>1, <2>2 DEF NoReply
<1> QED
  BY <1>1, <1>2, <1>3, <1>4, <1>5, <1>6, <1>7 DEF Arriving, Answers

\* The streams a client is to be served after a request.
ToServe(kind, held) == IF kind = "all" THEN Offered ELSE held

\* An answer, and what follows it.
LEMMA AnswerThen ==
  ASSUME NEW p \in Seq(Messages), NEW m \in Messages, NEW r \in Seq(Messages)
  PROVE  ToSet((p \o <<m>>) \o r) = ToSet(p) \cup {m} \cup ToSet(r)
<1> DEFINE q == p \o <<m>>
<1>1. <<m>> \in Seq(Messages) /\ ToSet(<<m>>) = {m}
  BY OrderedShort
<1>2. q \in Seq(Messages) /\ ToSet(q) = ToSet(p) \cup ToSet(<<m>>)
  BY <1>1, MessagesJoined
<1> HIDE DEF q
<1>3. ToSet(q \o r) = ToSet(q) \cup ToSet(r)
  BY <1>2, MessagesJoined
<1> QED
  BY <1>1, <1>2, <1>3 DEF q

\* The answer to a request for streams, then a format for what it adds.
LEMMA IngressSends ==
  ASSUME SessionTypes, declared \subseteq Offered, ServeIngress
  PROVE  \E ack \in Messages, tail \in Seq(Messages) :
           /\ wire' = (wire \o <<ack>>) \o tail
           /\ ToSet(wire') = ToSet(wire) \cup {ack} \cup ToSet(tail)
           /\ Request.kind \in Reconciling
           /\ ack.kind = "ack" /\ ack.mode = mode' /\ ack.held = declared'
           /\ ack.dropped = Served \ ToServe(Request.kind, declared')
           /\ mode' = IF Request.kind = "all" THEN "auto" ELSE "explicit"
           /\ declared' = CASE Request.kind \in {"silence", "all"} -> {}
                            [] Request.kind = "drop" -> declared \ Request.ids
                            [] Request.kind = "take" /\ mode = "auto" -> Request.ids \cap Offered
                            [] Request.kind = "take" /\ mode # "auto" ->
                                 declared \cup (Request.ids \cap Offered)
           /\ declared' \subseteq Offered
           /\ Served' = ToServe(Request.kind, declared')
           /\ \A m \in ToSet(tail) :
                m.kind = "format" /\ m.stream \in Offered /\ m.stream \in Served'
           /\ eligible => \A s \in Served' \ Served : Event("format", s) \in ToSet(tail)
<1> DEFINE named == Request.ids \cap Offered
           held == CASE Request.kind \in {"silence", "all"} -> {}
                     [] Request.kind = "drop" -> declared \ Request.ids
                     [] Request.kind = "take" /\ mode = "auto" -> named
                     [] Request.kind = "take" /\ mode # "auto" -> declared \cup named
           now == IF Request.kind = "all" THEN Offered ELSE held
           ack == Ack(Request, held, Served \ now)
           tail == IF eligible THEN Formats(now \ Served) ELSE <<>>
<1>1. /\ Request.kind \in Reconciling /\ toServer # <<>> /\ toServer' = Tail(toServer)
      /\ mode' = (IF Request.kind = "all" THEN "auto" ELSE "explicit")
      /\ declared' = held /\ wire' = (wire \o <<ack>>) \o tail /\ UNCHANGED live
  BY DEF ServeIngress, Reconciling
<1>2. Request.epoch \in Nat /\ Request.ids \subseteq Streams
  BY <1>1, RequestRead DEF SessionTypes
<1>3. /\ declared \subseteq Streams /\ Offered \subseteq Streams /\ mode \in {"auto", "explicit"}
      /\ Offered' = Offered
  BY <1>1 DEF SessionTypes, SessionTypeOK, Offered
<1>4. held \subseteq Offered
  BY <1>1, <1>3 DEF Reconciling
<1>5. now \subseteq Offered /\ Served \subseteq Offered
  BY <1>4 DEF Served
<1>6. Served \ now \subseteq Streams /\ now \ Served \in SUBSET Streams /\ held \subseteq Streams
  BY <1>3, <1>4, <1>5
<1>7. ack \in Messages
  BY <1>1, <1>2, <1>6 DEF Ack, Messages
<1>8. ack.kind = "ack" /\ ack.mode = mode' /\ ack.held = held /\ ack.dropped = Served \ now
  BY DEF Ack
<1>12. declared' = CASE Request.kind \in {"silence", "all"} -> {}
                     [] Request.kind = "drop" -> declared \ Request.ids
                     [] Request.kind = "take" /\ mode = "auto" -> Request.ids \cap Offered
                     [] Request.kind = "take" /\ mode # "auto" ->
                          declared \cup (Request.ids \cap Offered)
  BY <1>1
<1> HIDE DEF held, ack
<1>10. Served' = now
  <2>1. Served' = IF mode' = "auto" THEN Offered ELSE held
    BY <1>1, <1>3 DEF Served
  <2> QED
    BY <1>1, <2>1
<1>11. now = ToServe(Request.kind, declared')
  BY <1>1 DEF ToServe
<1>13. wire' = (wire \o <<ack>>) \o tail
  BY <1>1
<1> DEFINE adds == now \ Served
<1>14. adds \in SUBSET Streams /\ adds \subseteq now
  BY <1>6
<1> HIDE DEF now, adds
<1>9. /\ tail \in Seq(Messages)
      /\ \A m \in ToSet(tail) : m.kind = "format" /\ m.stream \in now
      /\ eligible => \A s \in adds : Event("format", s) \in ToSet(tail)
  <2>1. Formats(adds) \in Seq(Messages) /\ ToSet(Formats(adds)) = {Event("format", s) : s \in adds}
    BY <1>14, FormatEvents
  <2>2. tail = IF eligible THEN Formats(adds) ELSE <<>>
    BY DEF adds
  <2> HIDE DEF tail
  <2>3. CASE eligible
    BY <1>14, <2>1, <2>2, <2>3 DEF Event
  <2>4. CASE ~eligible
    BY <2>2, <2>4, OnEmpty
  <2> QED
    BY <2>3, <2>4
<1> HIDE DEF tail
<1>15. ToSet(wire') = ToSet(wire) \cup {ack} \cup ToSet(tail)
  <2>1. wire \in Seq(Messages)
    BY TypesSplit DEF Queues
  <2>2. ToSet((wire \o <<ack>>) \o tail) = ToSet(wire) \cup {ack} \cup ToSet(tail)
    BY ONLY <1>7, <1>9, <2>1, AnswerThen
  <2> QED
    BY <1>13, <2>2
<1> QED
  BY <1>1, <1>4, <1>5, <1>7, <1>8, <1>9, <1>10, <1>11, <1>12, <1>13, <1>15 DEF adds

\* What the client can decode is known: a format for all it is served.
LEMMA CapabilitiesSends ==
  ASSUME SessionTypes, declared \subseteq Offered, ServeCapabilities
  PROVE  \E answer \in Messages :
           /\ answer.kind = "capabilities" /\ Formats(Served) \in Seq(Messages)
           /\ wire' = (wire \o <<answer>>) \o Formats(Served)
           /\ ToSet(wire') = ToSet(wire) \cup {answer} \cup ToSet(Formats(Served))
           /\ \A m \in ToSet(Formats(Served)) :
                m.kind = "format" /\ m.stream \in Offered /\ m.stream \in Served
           /\ \A s \in Served : Event("format", s) \in ToSet(Formats(Served))
<1> DEFINE answer == Plain("capabilities", Request)
<1>1. Request.kind = "capabilities" /\ wire' = Append(wire, answer) \o Formats(Served)
  BY DEF ServeCapabilities
<1>2. Request.epoch \in Nat
  BY RequestRead DEF SessionTypes, ServeCapabilities
<1>3. Served \in SUBSET Streams /\ Served \subseteq Offered
  BY DEF SessionTypes, SessionTypeOK, Served, Offered
<1>4. answer \in Messages /\ answer.kind = "capabilities"
  BY <1>2 DEF Plain, Messages
<1>5. Formats(Served) \in Seq(Messages) /\ ToSet(Formats(Served)) = {Event("format", s) : s \in Served}
  BY <1>3, FormatEvents
<1>6. \A s : Event("format", s).kind = "format" /\ Event("format", s).stream = s
  BY DEF Event
<1> HIDE DEF answer
<1>7. wire \in Seq(Messages)
  BY TypesSplit DEF Queues
<1>8. wire' = (wire \o <<answer>>) \o Formats(Served)
  <2>1. Append(wire, answer) = wire \o <<answer>>
    BY <1>4, <1>7
  <2> QED
    BY <1>1, <2>1
<1>9. ToSet(wire') = ToSet(wire) \cup {answer} \cup ToSet(Formats(Served))
  <2> DEFINE more == Formats(Served)
  <2>1. more \in Seq(Messages)
    BY <1>5
  <2> HIDE DEF more
  <2>2. ToSet((wire \o <<answer>>) \o more) = ToSet(wire) \cup {answer} \cup ToSet(more)
    BY ONLY <1>4, <1>7, <2>1, AnswerThen
  <2> QED
    BY <1>8, <2>2 DEF more
<1> QED
  BY <1>3, <1>4, <1>5, <1>6, <1>8, <1>9

\* A new stream, and its format if it is served at once.
LEMMA PublishSends ==
  ASSUME SessionTypes, NEW s \in Streams, Publish(s)
  PROVE  /\ s \notin live \cup gone /\ live' = live \cup {s} /\ UNCHANGED gone
         /\ attached => \E more \in Seq(Messages) :
              /\ wire' = wire \o (<<Event("added", s)>> \o more)
              /\ \A m \in ToSet(more) : m = Event("format", s)
              /\ mode = "auto" /\ eligible /\ s \in Decodable => Event("format", s) \in ToSet(more)
         /\ ~attached => UNCHANGED wire
<1> DEFINE more == IF mode = "auto" /\ eligible /\ s \in Decodable THEN <<Event("format", s)>> ELSE <<>>
<1>1. Event("format", s) \in Messages
  BY DEF Event, Messages
<1>2. /\ more \in Seq(Messages) /\ \A m \in ToSet(more) : m = Event("format", s)
      /\ mode = "auto" /\ eligible /\ s \in Decodable => Event("format", s) \in ToSet(more)
  BY <1>1 DEF ToSet
<1>3. wire' = IF attached THEN wire \o (<<Event("added", s)>> \o more) ELSE wire
  BY DEF Publish, Announce
<1> HIDE DEF more
<1> QED
  BY <1>2, <1>3 DEF Publish

\* A stream that goes is announced to those who joined.
LEMMA WithdrawSends ==
  ASSUME SessionTypes, NEW s \in Streams, NEW kind \in {"removed", "left"}, Withdraw(s, kind)
  PROVE  /\ s \in live /\ live' = live \ {s} /\ gone' = gone \cup {s}
         /\ declared' = declared \ {s}
         /\ wire' = IF attached THEN wire \o <<Event(kind, s)>> ELSE wire
BY DEF Withdraw, Announce

\* At first there is no room.
LEMMA RoomInit == SessionInit => RoomFollows
BY OrderedShort, OnEmpty DEF SessionInit, RoomFollows, InOrder, Online, Off, Offered

\* Who may answer: a request is under way on a joined connection only.
LEMMA AskedOnline ==
  ASSUME SessionTypes, Links, ServeIngress \/ ServeCapabilities
  PROVE  Online /\ UNCHANGED <<phase, pending, room, live, gone>> /\ toServer # <<>>
<1>1. toServer # <<>> /\ Request \in ToSet(toServer) /\ Request.kind \notin Joining
  <2>1. toServer # <<>> /\ toServer' = Tail(toServer) /\ Request.kind \notin Joining
    BY DEF ServeIngress, ServeCapabilities, Joining
  <2>2. Request \in ToSet(toServer)
    BY <2>1, RequestRead DEF SessionTypes
  <2> QED
    BY <2>1, <2>2
<1>2. Online
  BY <1>1 DEF Links, Unlinked, JoinUnderWay, Online
<1> QED
  BY <1>1, <1>2 DEF ServeIngress, ServeCapabilities, workerVars, roomVars

\* Every step keeps the worker's room in step with the one on the air.
LEMMA RoomStep ==
  ASSUME SessionTypes, Links, RoomFollows, [SessionNext]_sessionVars
  PROVE  RoomFollows'
<1> USE DEF workerVars, beliefVars, roomVars, linkVars, serverVars, historyVars, Offered
<1>0. /\ Queues /\ InOrder /\ declared \subseteq Offered
      /\ pending \in Seq(Messages) /\ wire \in Seq(Messages)
  BY TypesSplit DEF RoomFollows, Queues
<1>1. ASSUME UNCHANGED <<phase, attached, room, pending, wire, live, gone, declared>>
       PROVE  RoomFollows'
  BY <1>1 DEF RoomFollows, InOrder, Online, Arriving
<1>2. CASE ServeJoin
  <2>1. /\ phase = "join" /\ wire = <<>> /\ pending = <<>>
        /\ UNCHANGED <<phase, pending, live, gone>>
    <3>1. toServer # <<>> /\ Request.kind \in Joining /\ Request \in ToSet(toServer)
      BY <1>0, <1>2, RequestRead DEF ServeJoin, Joining
    <3>2. phase = "join"
      BY <3>1 DEF Links, Unlinked, Linked
    <3> QED
      BY <1>2, <3>1, <3>2 DEF ServeJoin, Links, JoinUnderWay
  <2>2. PICK m \in Messages :
          /\ wire' = Append(wire, m) /\ declared' \subseteq Offered
          /\ \/ m.kind = "joined" /\ m.streams = live
             \/ m.kind = "rejected" /\ UNCHANGED attached
    BY <1>0, <1>2, JoinServed DEF Attended
  <2>3. wire' = <<m>> /\ ToSet(wire') = {m}
    BY <2>1, <2>2, OrderedShort
  <2>4. InOrder'
    BY <2>1, <2>3, OrderedShort DEF InOrder
  <2>5. m.kind = "joined" => Roster(m.streams, {m}, live, gone)
    BY <2>2 DEF Roster, Event, EventKinds
  <2>6. ~attached
    BY <1>2, <2>1 DEF ServeJoin, Links, JoinUnderWay
  <2>7. declared' \subseteq Offered'
    BY <1>0, <2>1, <2>2
  <2>8. \A n \in ToSet(wire') : n.kind = "joined" => Roster(n.streams, ToSet(wire'), live', gone')
    BY <2>1, <2>3, <2>5
  <2>9. attached' => \E n \in ToSet(wire') : n.kind = "joined"
    BY <2>2, <2>3, <2>6
  <2> QED
    BY <2>1, <2>4, <2>7, <2>8, <2>9 DEF RoomFollows, Online
<1>3. ASSUME NEW m \in Messages, NEW tail \in Seq(Messages), wire' = (wire \o <<m>>) \o tail,
             m.kind \in {"ack", "capabilities"}, declared' \subseteq Offered,
             \A n \in ToSet(tail) : n.kind = "format" /\ n.stream \in live,
             Online, UNCHANGED <<phase, pending, room, live, gone>>
      PROVE  RoomFollows'
  <2>1. <<m>> \in Seq(Messages) /\ NoAdded(<<m>>) /\ NoAdded(tail) /\ ToSet(<<m>>) = {m}
    BY <1>3, OrderedShort DEF NoAdded
  <2> DEFINE q == wire \o <<m>>
  <2>2. /\ AddedFirst(q) /\ NoneBefore(pending, q) /\ q \in Seq(Messages)
        /\ ToSet(q) = ToSet(wire) \cup {m}
    <3>1. AddedFirst(q) /\ NoneBefore(pending, q)
      BY <1>0, <2>1, OrderedOn DEF InOrder
    <3>2. q \in Seq(Messages) /\ ToSet(q) = ToSet(wire) \cup ToSet(<<m>>)
      BY <1>0, <2>1, MessagesJoined
    <3> QED
      BY <2>1, <3>1, <3>2
  <2>3. wire' = q \o tail
    BY <1>3
  <2> HIDE DEF q
  <2>4. /\ AddedFirst(wire') /\ NoneBefore(pending, wire')
        /\ ToSet(wire') = ToSet(q) \cup ToSet(tail)
    BY <2>1, <2>2, <2>3, OrderedOn, MessagesJoined
  <2>5. InOrder'
    BY <1>0, <1>3, <2>4 DEF InOrder
  <2>6. Arriving' = Arriving \cup {m} \cup ToSet(tail)
    BY <1>3, <2>2, <2>4 DEF Arriving
  <2>7. Roster(room, Arriving, live, gone)
    BY <1>3 DEF RoomFollows
  <2>8. Roster(room, Arriving', live, gone)
    <3>1. \A n : n.kind \in {"added", "removed", "left"} => (n \in Arriving <=> n \in Arriving')
      BY <1>3, <2>6
    <3>2. \A n \in Arriving' : n.kind = "format" => n.stream \in live \cup gone
      BY <1>3, <2>6, <2>7 DEF Roster, EventKinds
    <3> QED
      BY <2>7, <3>1, <3>2, SameRoster
  <2> QED
    BY <1>3, <2>5, <2>8 DEF RoomFollows, Online
<1>4. CASE ServeIngress
  <2>1. PICK ack \in Messages, tail \in Seq(Messages) :
          /\ wire' = (wire \o <<ack>>) \o tail /\ ack.kind = "ack" /\ declared' \subseteq Offered
          /\ \A n \in ToSet(tail) : n.kind = "format" /\ n.stream \in Offered
    BY <1>0, <1>4, IngressSends
  <2> QED
    BY <1>3, <1>4, <2>1, AskedOnline
<1>5. CASE ServeCapabilities
  <2>1. PICK answer \in Messages :
          /\ answer.kind = "capabilities" /\ Formats(Served) \in Seq(Messages)
          /\ wire' = (wire \o <<answer>>) \o Formats(Served)
          /\ \A m \in ToSet(Formats(Served)) : m.kind = "format" /\ m.stream \in Offered
    BY <1>0, <1>5, CapabilitiesSends
  <2>2. UNCHANGED declared
    BY <1>5 DEF ServeCapabilities
  <2> QED
    BY <1>0, <1>3, <1>5, <2>1, <2>2, AskedOnline
<1>6. ASSUME NEW s \in Streams, Publish(s) PROVE RoomFollows'
  <2>1. /\ s \notin live \cup gone /\ live' = live \cup {s}
        /\ UNCHANGED <<phase, pending, room, gone, declared, attached>>
    BY <1>6 DEF Publish
  <2>2. CASE ~attached
    <3>1. UNCHANGED wire
      BY <1>6, <2>2, PublishSends
    <3>2. ~Online
      BY <2>2 DEF Links, Linked, Online
    <3>3. phase = "join" => \A m \in ToSet(wire) : m.kind # "joined"
      BY <2>2 DEF Links, JoinUnderWay
    <3> QED
      BY <1>0, <2>1, <2>2, <3>1, <3>2, <3>3 DEF RoomFollows, InOrder, Online
  <2>3. CASE attached
    <3>1. PICK more \in Seq(Messages) :
            /\ wire' = wire \o (<<Event("added", s)>> \o more)
            /\ \A m \in ToSet(more) : m = Event("format", s)
      BY <1>6, <2>3, PublishSends
    <3> DEFINE new == <<Event("added", s)>>
               r == new \o more
    <3>2. Event("added", s) \in Messages /\ Event("added", s).kind = "added"
          /\ Event("added", s).stream = s /\ Event("format", s).kind = "format"
          /\ Event("format", s).stream = s
      BY DEF Event, Messages
    <3>3. new \in Seq(Messages) /\ ToSet(new) = {Event("added", s)} /\ AddedFirst(new)
      BY <3>2, OrderedShort
    <3>4. NoAdded(more)
      BY <3>1, <3>2 DEF NoAdded
    <3> HIDE DEF new
    <3>5. AddedFirst(r) /\ r \in Seq(Messages) /\ ToSet(r) = ToSet(new) \cup ToSet(more)
      <4>1. r \in Seq(Messages) /\ ToSet(r) = ToSet(new) \cup ToSet(more)
        BY <3>3, MessagesJoined
      <4>2. NoneBefore(<<>>, new)
        BY OrderedShort
      <4>3. AddedFirst(r)
        BY <3>3, <3>4, <4>2, OrderedOn
      <4> QED
        BY <4>1, <4>3
    <3>6. \A m \in ToSet(r) : m = Event("added", s) \/ m = Event("format", s)
      BY <3>1, <3>3, <3>5
    <3>7. Event("added", s) \in ToSet(r)
      BY <3>3, <3>5
    <3>8. wire' = wire \o r
      BY <3>1 DEF new
    <3> HIDE DEF r
    <3>9. ToSet(wire') = ToSet(wire) \cup ToSet(r)
      BY <1>0, <3>5, <3>8, MessagesJoined
    <3>10. \A m \in Arriving : m.kind \in EventKinds => m.stream # s
      <4>1. CASE Online
        BY <2>1, <4>1 DEF RoomFollows, Roster
      <4>2. CASE phase = "join"
        <5>1. PICK m \in ToSet(wire) : Roster(m.streams, ToSet(wire), live, gone)
          BY <2>3, <4>2 DEF RoomFollows
        <5>2. Arriving = ToSet(wire)
          BY <4>2, OnEmpty DEF Links, JoinUnderWay, Arriving
        <5> QED
          BY <2>1, <5>1, <5>2 DEF Roster
      <4>3. CASE phase \in Off
        BY <2>3, <4>3 DEF Links, Unlinked
      <4> QED
        BY <4>1, <4>2, <4>3 DEF Online
    <3>11. InOrder'
      <4>1. NoneBefore(wire, r) /\ NoneBefore(pending, r)
        BY <3>2, <3>6, <3>10 DEF NoneBefore, Arriving
      <4>2. AddedFirst(wire')
        BY <1>0, <3>5, <3>8, <4>1, Ordered DEF InOrder
      <4>3. NoneBefore(pending, wire')
        BY <1>0, <3>9, <4>1 DEF NoneBefore, InOrder
      <4> QED
        BY <1>0, <2>1, <4>2, <4>3 DEF InOrder
    <3>12. ASSUME NEW seen, NEW news, Roster(seen, news, live, gone)
           PROVE  Roster(seen, news \cup ToSet(r), live', gone)
      BY <2>1, <3>6, <3>7, <3>12, RosterEnters
    <3>13. Online => Roster(room, Arriving', live', gone)
      <4>1. Arriving' = Arriving \cup ToSet(r)
        BY <2>1, <3>9 DEF Arriving
      <4> QED
        BY <3>12, <4>1 DEF RoomFollows
    <3>14. phase = "join" =>
             /\ \A m \in ToSet(wire') :
                  m.kind = "joined" => Roster(m.streams, ToSet(wire'), live', gone)
             /\ \E m \in ToSet(wire') : m.kind = "joined"
      BY <2>3, <3>2, <3>6, <3>9, <3>12 DEF RoomFollows
    <3> QED
      BY <1>0, <2>1, <3>11, <3>13, <3>14 DEF RoomFollows, Online
  <2> QED
    BY <2>2, <2>3
<1>7. ASSUME NEW s \in Streams, NEW kind \in {"removed", "left"}, Withdraw(s, kind)
      PROVE  RoomFollows'
  <2>1. /\ s \in live /\ live' = live \ {s} /\ gone' = gone \cup {s} /\ declared' = declared \ {s}
        /\ wire' = IF attached THEN wire \o <<Event(kind, s)>> ELSE wire
        /\ UNCHANGED <<phase, pending, room, attached>>
    BY <1>7, WithdrawSends DEF Withdraw
  <2>2. CASE ~attached
    <3>1. ~Online
      BY <2>2 DEF Links, Linked, Online
    <3>2. phase = "join" => \A m \in ToSet(wire) : m.kind # "joined"
      BY <2>2 DEF Links, JoinUnderWay
    <3> QED
      BY <1>0, <2>1, <2>2, <3>1, <3>2 DEF RoomFollows, InOrder, Online
  <2>3. CASE attached
    <3> DEFINE r == <<Event(kind, s)>>
    <3>1. /\ r \in Seq(Messages) /\ ToSet(r) = {Event(kind, s)} /\ NoAdded(r)
          /\ Event(kind, s).kind = kind
      BY OrderedShort DEF Event, Messages, NoAdded
    <3>2. wire' = wire \o r
      BY <2>1, <2>3
    <3> HIDE DEF r
    <3>3. /\ AddedFirst(wire') /\ NoneBefore(pending, wire')
          /\ ToSet(wire') = ToSet(wire) \cup {Event(kind, s)}
      BY <1>0, <3>1, <3>2, OrderedOn, OnJoined DEF InOrder
    <3>4. InOrder'
      BY <1>0, <2>1, <3>3 DEF InOrder
    <3>5. Online => Roster(room, Arriving', live', gone')
      <4>1. Arriving' = Arriving \cup {Event(kind, s)}
        BY <2>1, <3>3 DEF Arriving
      <4> QED
        BY <2>1, <4>1, RosterLeaves DEF RoomFollows
    <3>6. phase = "join" =>
             /\ \A m \in ToSet(wire') :
                  m.kind = "joined" => Roster(m.streams, ToSet(wire'), live', gone')
             /\ \E m \in ToSet(wire') : m.kind = "joined"
      <4> SUFFICES ASSUME phase = "join"
                   PROVE  /\ \A m \in ToSet(wire') :
                               m.kind = "joined" => Roster(m.streams, ToSet(wire'), live', gone')
                          /\ \E m \in ToSet(wire') : m.kind = "joined"
        OBVIOUS
      <4>1. \A m \in ToSet(wire') : m.kind = "joined" => m \in ToSet(wire)
        BY <3>1, <3>3
      <4>2. \A m \in ToSet(wire) : m.kind = "joined" => Roster(m.streams, ToSet(wire'), live', gone')
        <5> SUFFICES ASSUME NEW m \in ToSet(wire), m.kind = "joined"
                     PROVE  Roster(m.streams, ToSet(wire'), live', gone')
          OBVIOUS
        <5>1. Roster(m.streams, ToSet(wire), live, gone)
          BY DEF RoomFollows
        <5>2. Roster(m.streams, ToSet(wire) \cup {Event(kind, s)}, live \ {s}, gone \cup {s})
          BY <2>1, <5>1, RosterLeaves
        <5> QED
          BY <2>1, <3>3, <5>2
      <4> QED
        BY <2>3, <3>3, <4>1, <4>2 DEF RoomFollows
    <3> QED
      BY <1>0, <2>1, <3>4, <3>5, <3>6 DEF RoomFollows, Online
  <2> QED
    BY <2>2, <2>3
<1>8. CASE Expire
  BY <1>1, <1>8 DEF Expire
<1>9. ASSUME NEW choice \in RouteChoices, HostRoutes(choice) PROVE RoomFollows'
  BY <1>9 DEF HostRoutes, RoomFollows, InOrder, Online, Arriving, Off
<1>10. ASSUME NEW j, NEW t, Dial(j, t), phase \in Off,
              UNCHANGED <<pending, wire, live, gone, declared, attached>>
       PROVE  RoomFollows'
  <2>1. phase' = "join" /\ wire' = <<>> /\ ~attached'
    BY <1>10 DEF Dial, Links, Unlinked
  <2> QED
    BY <1>0, <1>10, <2>1, OnEmpty DEF RoomFollows, InOrder, Online
<1>11. ASSUME NEW j \in Jams, JoinJam(j) PROVE RoomFollows'
  BY <1>10, <1>11 DEF JoinJam, Off
<1>12. ASSUME NEW j \in Jams, SwitchJam(j) PROVE RoomFollows'
  BY <1>12 DEF SwitchJam, RoomFollows, InOrder, Online, Arriving, Off
<1>13. CASE Redial
  BY <1>10, <1>13 DEF Redial, Off
<1>14. ASSUME Disconnect, phase' \in Off PROVE RoomFollows'
  BY <1>0, <1>14, OrderedShort DEF Disconnect, RoomFollows, InOrder, Online, Off
<1>15. CASE Drop \/ LoseJam \/ Leave \/ Shutdown \/ JoinRejected
  BY <1>14, <1>15 DEF Drop, LoseJam, Leave, Shutdown, JoinRejected, Off
<1>16. CASE JoinAnswered
  <2>1. PICK reply : reply.kind = "joined" /\ Receive(reply) /\ room' = reply.streams
    BY <1>16 DEF JoinAnswered
  <2>2. /\ reply \in ToSet(wire) /\ Arriving = {reply} \cup Arriving' /\ InOrder'
    BY <1>0, <2>1, Received
  <2>3. phase = "join" /\ phase' \in {"silence", "capabilities"} /\ UNCHANGED <<live, gone, declared>>
    BY <1>16 DEF JoinAnswered, FirstRequest, CapabilitiesFirst
  <2>4. Arriving = ToSet(wire)
    BY <2>3, OnEmpty DEF Links, JoinUnderWay, Arriving
  <2>5. Roster(reply.streams, Arriving, live, gone)
    BY <2>1, <2>2, <2>3, <2>4 DEF RoomFollows
  <2>6. Roster(reply.streams, Arriving', live, gone)
    <3>1. \A n : n.kind \in {"added", "removed", "left"} => (n \in Arriving <=> n \in Arriving')
      BY <2>1, <2>2
    <3>2. \A n \in Arriving' : n.kind = "format" => n.stream \in live \cup gone
      BY <2>2, <2>5 DEF Roster, EventKinds
    <3> QED
      BY <2>5, <3>1, <3>2, SameRoster
  <2> QED
    BY <1>0, <2>1, <2>2, <2>3, <2>6 DEF RoomFollows, Online
<1>17. ASSUME Online, Online', UNCHANGED <<room, live, gone, declared>>,
              (UNCHANGED <<pending, wire>>) \/ \E reply : Receive(reply)
       PROVE  RoomFollows'
  <2>1. CASE UNCHANGED <<pending, wire>>
    BY <1>17, <2>1 DEF RoomFollows, InOrder, Online, Arriving
  <2>2. CASE \E reply : Receive(reply)
    <3>1. PICK reply : Receive(reply)
      BY <2>2
    <3>2. /\ reply.kind \in Replies /\ Arriving = {reply} \cup Arriving' /\ InOrder'
      BY <1>0, <3>1, Received
    <3>3. Roster(room, Arriving, live, gone)
      BY <1>17 DEF RoomFollows
    <3>4. Roster(room, Arriving', live, gone)
      <4>1. \A n : n.kind \in {"added", "removed", "left"} => (n \in Arriving <=> n \in Arriving')
        BY <3>2 DEF Replies
      <4>2. \A n \in Arriving' : n.kind = "format" => n.stream \in live \cup gone
        BY <3>2, <3>3 DEF Roster, EventKinds
      <4> QED
        BY <3>3, <4>1, <4>2, SameRoster
    <3> QED
      BY <1>0, <1>17, <3>2, <3>4 DEF RoomFollows, Online
  <2> QED
    BY <1>17, <2>1, <2>2
<1>18. CASE \/ SilenceAnswered \/ CapabilitiesAnswered \/ StartReconcile \/ IngressAnswered
            \/ GiveUp \/ OpenMedia \/ PollNothing
  <2>1. Online /\ Online'
    BY <1>18, PumpSteps DEF Pump, Steady, Online
  <2>2. UNCHANGED <<room, live, gone, declared>>
    BY <1>18 DEF SilenceAnswered, CapabilitiesAnswered, StartReconcile, IngressAnswered, GiveUp,
                 OpenMedia, PollNothing
  <2>3. (UNCHANGED <<pending, wire>>) \/ \E reply : Receive(reply)
    BY <1>18 DEF SilenceAnswered, CapabilitiesAnswered, StartReconcile, IngressAnswered, GiveUp,
                 OpenMedia, PollNothing
  <2> QED
    BY <1>17, <2>1, <2>2, <2>3
<1>19. CASE PollEvent
  <2>1. PICK m \in Messages :
          /\ Apply(m) /\ InOrder' /\ Arriving = {m} \cup Arriving'
          /\ \A n \in Arriving' :
               n.kind = "added" /\ m.kind \in EventKinds => n.stream # m.stream
    BY <1>0, <1>19, NextHeard
  <2>2. Online /\ Online' /\ UNCHANGED <<live, gone, declared>>
    BY <1>19 DEF PollEvent, Online, Off
  <2>3. room' = RoomAfter(room, m)
    BY <2>1 DEF Apply, RoomAfter
  <2>4. Roster(room', Arriving', live, gone)
    BY <2>1, <2>2, <2>3, RosterHeard DEF RoomFollows
  <2> QED
    BY <1>0, <2>1, <2>2, <2>4 DEF RoomFollows, Online
<1>20. CASE UNCHANGED sessionVars
  BY <1>1, <1>20 DEF sessionVars
<1> QED
  BY <1>2, <1>4, <1>5, <1>6, <1>7, <1>8, <1>9, <1>11, <1>12, <1>13, <1>15, <1>16, <1>18,
     <1>19, <1>20 DEF SessionNext

-----------------------------------------------------------------------------
(* One request at a time, and its reply.                                   *)

\* The reply the worker waits for.
Expected == IF phase \in {"silence", "capabilities"} THEN phase ELSE request

\* As long as none was given up: the request or its reply is on its way, not
\* both, and neither unless it is waited for.
InTurn ==
  /\ OneReply(wire) /\ NoReply(pending)
  /\ toServer # <<>> => Expected # NoRequest /\ Tail(toServer) = <<>> /\ NoReply(wire)
  /\ Expected = NoRequest => NoReply(wire)
  /\ \A a \in ToSet(toServer) : a.kind = Expected

\* Nothing was given up since the last join, or only its answer is awaited.
Certain == ~adrift \/ phase = "silence"

Lockstep ==
  /\ request # NoRequest <=> phase \in {"first", "reconcile"}
  /\ request # NoRequest => request \in Reconciling
  /\ phase = "join" => OneReply(wire)
  /\ Online /\ Certain => InTurn

\* At first nothing is under way.
LEMMA LockstepInit == SessionInit => Lockstep
BY DEF SessionInit, Lockstep, Online, Off

\* A request sent when none was under way is the only one.
LEMMA FirstSent ==
  ASSUME NEW a, toServer = <<>>, toServer' = Append(toServer, a)
  PROVE  toServer' # <<>> /\ Tail(toServer') = <<>> /\ ToSet(toServer') = {a}
<1>1. toServer' = <<a>>
  OBVIOUS
<1>2. Tail(<<a>>) = <<>> /\ <<a>> # <<>>
  OBVIOUS
<1> QED
  BY <1>1, <1>2, OrderedShort

\* What a reconcile sends is a request.
LEMMA NeededKinds ==
  ASSUME SessionTypes, NEW a \in FirstNeeded
  PROVE  a.kind \in Reconciling /\ a.kind # NoRequest
BY Needed DEF Reconciling, NoRequest

\* What a reconcile does to the request under way, when there is none.
LEMMA ReconcileSends ==
  ASSUME SessionTypes, toServer = <<>>, request = NoRequest,
         NEW from \in {"capabilities", "turn"}, NEW waiting \in {"first", "reconcile"},
         Reconcile(from, waiting)
  PROVE  /\ dirty' = FALSE
         /\ \/ /\ FirstNeeded = {} /\ UNCHANGED <<toServer, request>>
               /\ phase' = AfterReconcile(from) /\ phase' \in {"media", "turn"}
            \/ /\ phase' = waiting
               /\ \E a \in FirstNeeded :
                    /\ request' = a.kind /\ a.kind \in Reconciling /\ a.kind # NoRequest
                    /\ toServer' # <<>> /\ Tail(toServer') = <<>> /\ ToSet(toServer') = {a}
<1>1. CASE FirstNeeded = {} /\ phase' = AfterReconcile(from) /\ UNCHANGED <<toServer, request>>
  BY <1>1 DEF Reconcile, AfterReconcile
<1>2. CASE phase' = waiting /\ \E a \in FirstNeeded : Send(a)
  <2>1. PICK a \in FirstNeeded : Send(a)
    BY <1>2
  <2> QED
    BY <1>2, <2>1, NeededKinds, FirstSent DEF Send, Reconcile
<1> QED
  BY <1>1, <1>2 DEF Reconcile

\* Every step keeps requests and replies in lockstep.
LEMMA LockstepStep ==
  ASSUME SessionTypes, Links, RoomFollows, Lockstep, [SessionNext]_sessionVars
  PROVE  Lockstep'
<1> USE DEF workerVars, beliefVars, roomVars, linkVars, serverVars, historyVars, Certain
<1>0. /\ Queues /\ declared \subseteq Offered /\ phase \in Phases
      /\ pending \in Seq(Messages) /\ wire \in Seq(Messages)
  BY TypesSplit DEF RoomFollows, Queues, StateTypes
<1>1. CASE UNCHANGED sessionVars
  BY <1>1 DEF sessionVars, Lockstep, InTurn, Expected, Online, NoReply
<1>2. CASE ServeJoin
  <2>1. /\ phase = "join" /\ wire = <<>> /\ toServer' = <<>>
        /\ UNCHANGED <<phase, request, token>> /\ Request \in ToSet(toServer)
    <3>1. toServer # <<>> /\ Request.kind \in Joining /\ Request \in ToSet(toServer)
      BY <1>0, <1>2, RequestRead DEF ServeJoin, Joining
    <3>2. phase = "join"
      BY <3>1 DEF Links, Unlinked, Linked
    <3> QED
      BY <1>2, <3>1, <3>2 DEF ServeJoin, Links, JoinUnderWay
  <2>2. PICK m \in Messages : wire' = Append(wire, m)
    BY <1>2, JoinServed
  <2>3. wire' = <<m>> /\ OneReply(<<m>>)
    BY <2>1, <2>2, OrderedShort
  <2> QED
    BY <2>1, <2>3 DEF Lockstep, Online
<1>3. ASSUME NEW m \in Messages, NEW tail \in Seq(Messages), wire' = (wire \o <<m>>) \o tail,
             \A n \in ToSet(tail) : n.kind = "format",
             Online, toServer # <<>>, toServer' = Tail(toServer),
             UNCHANGED <<phase, pending, request, adrift>>
      PROVE  Lockstep'
  <2>1. ASSUME Certain PROVE InTurn'
    <3>1. InTurn
      BY <1>3, <2>1 DEF Lockstep
    <3>2. toServer' = <<>> /\ Expected' = Expected /\ Expected # NoRequest
      BY <1>3, <3>1 DEF InTurn, Expected
    <3> DEFINE q == wire \o <<m>>
    <3>3. <<m>> \in Seq(Messages) /\ NoReply(wire) /\ OneReply(<<m>>)
      BY <1>3, <3>1, OrderedShort DEF InTurn
    <3>4. q \in Seq(Messages) /\ OneReply(q)
      BY <1>0, <3>3, OneReplyOn, MessagesJoined
    <3>5. NoReply(tail)
      BY <1>3 DEF NoReply, Replies
    <3>6. wire' = q \o tail
      BY <1>3
    <3> HIDE DEF q
    <3>7. OneReply(wire')
      BY <1>3, <3>4, <3>5, <3>6, OneReplyOn
    <3> QED
      BY <1>3, <3>1, <3>2, <3>7, OnEmpty DEF InTurn, NoReply
  <2> QED
    BY <1>3, <2>1 DEF Lockstep, Online
<1>4. CASE ServeIngress
  <2>1. PICK ack \in Messages, tail \in Seq(Messages) :
          /\ wire' = (wire \o <<ack>>) \o tail
          /\ \A n \in ToSet(tail) : n.kind = "format"
    BY <1>0, <1>4, IngressSends
  <2>2. toServer' = Tail(toServer) /\ UNCHANGED <<phase, pending, request, adrift>>
    BY <1>4 DEF ServeIngress
  <2> QED
    BY <1>3, <1>4, <2>1, <2>2, AskedOnline
<1>5. CASE ServeCapabilities
  <2>1. PICK answer \in Messages :
          /\ Formats(Served) \in Seq(Messages)
          /\ wire' = (wire \o <<answer>>) \o Formats(Served)
          /\ \A m \in ToSet(Formats(Served)) : m.kind = "format"
    BY <1>0, <1>5, CapabilitiesSends
  <2>2. toServer' = Tail(toServer) /\ UNCHANGED <<phase, pending, request, adrift>>
    BY <1>5 DEF ServeCapabilities
  <2> QED
    BY <1>3, <1>5, <2>1, <2>2, AskedOnline
<1>6. ASSUME NEW r \in Seq(Messages), NoReply(r), (wire' = wire \o r) \/ UNCHANGED wire,
             declared' \subseteq declared,
             UNCHANGED <<phase, request, token, pending, toServer, adrift, mode>>
      PROVE  Lockstep'
  <2>1. /\ OneReply(wire) => OneReply(wire') /\ (NoReply(wire) => NoReply(wire'))
        /\ \A m \in ToSet(wire') : m.kind \in Replies => m \in ToSet(wire)
    <3>1. CASE UNCHANGED wire
      BY <3>1
    <3>2. CASE wire' = wire \o r
      <4>1. OneReply(wire) => OneReply(wire')
        BY <1>0, <1>6, <3>2, OneReplyOn
      <4>2. ToSet(wire') = ToSet(wire) \cup ToSet(r)
        BY <1>0, <1>6, <3>2, MessagesJoined
      <4> QED
        BY <1>6, <4>1, <4>2 DEF NoReply
    <3> QED
      BY <1>6, <3>1, <3>2
  <2>2. phase = "join" => OneReply(wire')
    BY <2>1 DEF Lockstep
  <2>3. Online /\ Certain => InTurn'
    BY <1>6, <2>1 DEF Lockstep, InTurn, NoReply, Expected
  <2> QED
    BY <1>6, <2>2, <2>3 DEF Lockstep, Online
<1>7. ASSUME NEW s \in Streams, Publish(s) PROVE Lockstep'
  <2>1. UNCHANGED <<phase, request, token, pending, toServer, adrift, mode, declared>>
    BY <1>7 DEF Publish
  <2>2. CASE attached
    <3>1. PICK more \in Seq(Messages) :
            /\ wire' = wire \o (<<Event("added", s)>> \o more)
            /\ \A m \in ToSet(more) : m = Event("format", s)
      BY <1>7, <2>2, PublishSends
    <3> DEFINE new == <<Event("added", s)>>
               r == new \o more
    <3>2. new \in Seq(Messages) /\ ToSet(new) = {Event("added", s)}
      BY OrderedShort DEF Event, Messages
    <3>3. wire' = wire \o r
      BY <3>1
    <3> HIDE DEF new
    <3>4. r \in Seq(Messages) /\ ToSet(r) = ToSet(new) \cup ToSet(more)
      BY <3>2, MessagesJoined
    <3>5. NoReply(r)
      BY <3>1, <3>2, <3>4 DEF NoReply, Event, Replies
    <3> HIDE DEF r
    <3> QED
      BY <1>6, <2>1, <3>3, <3>4, <3>5
  <2>3. CASE ~attached
    <3>1. UNCHANGED wire
      BY <1>7, <2>3, PublishSends
    <3> QED
      BY <1>6, <2>1, <3>1, OrderedShort, OnEmpty
  <2> QED
    BY <2>2, <2>3
<1>8. ASSUME NEW s \in Streams, NEW kind \in {"removed", "left"}, Withdraw(s, kind)
      PROVE  Lockstep'
  <2> DEFINE r == <<Event(kind, s)>>
  <2>1. r \in Seq(Messages) /\ NoReply(r)
    BY OrderedShort DEF Event, Messages, NoReply, Replies
  <2>2. (wire' = wire \o r) \/ UNCHANGED wire
    BY <1>8, WithdrawSends
  <2>3. /\ UNCHANGED <<phase, request, token, pending, toServer, adrift, mode>>
        /\ declared' \subseteq declared
    BY <1>8 DEF Withdraw
  <2> HIDE DEF r
  <2> QED
    BY <1>6, <2>1, <2>2, <2>3
<1>9. CASE Expire
  BY <1>9 DEF Expire, Lockstep, InTurn, Expected, Online, NoReply
<1>10. ASSUME NEW choice \in RouteChoices, HostRoutes(choice) PROVE Lockstep'
  <2>1. /\ phase \in {"idle", "backoff", "command"}
        /\ phase' = (IF phase = "command" THEN "turn" ELSE phase)
        /\ UNCHANGED <<request, token, pending, toServer, wire, adrift>>
    BY <1>10 DEF HostRoutes
  <2> QED
    BY <2>1 DEF Lockstep, InTurn, Expected, Online, Off, NoReply
<1>11. ASSUME NEW j, NEW t, Dial(j, t), phase \in Off, UNCHANGED wire
       PROVE  Lockstep'
  <2>1. phase' = "join" /\ wire' = <<>> /\ request' = NoRequest
    BY <1>11 DEF Dial, Links, Unlinked
  <2>2. OneReply(wire')
    BY <2>1, OrderedShort
  <2> QED
    BY <2>1, <2>2 DEF Lockstep, Online
<1>12. ASSUME NEW j \in Jams, JoinJam(j) PROVE Lockstep'
  BY <1>11, <1>12 DEF JoinJam, Off
<1>13. ASSUME NEW j \in Jams, SwitchJam(j) PROVE Lockstep'
  BY <1>13 DEF SwitchJam, Lockstep, Online, Off
<1>14. CASE Redial
  BY <1>11, <1>14 DEF Redial, Off
<1>15. ASSUME Disconnect, phase' \in Off PROVE Lockstep'
  BY <1>15 DEF Disconnect, Lockstep, Online, Off
<1>16. CASE Drop \/ LoseJam \/ Leave \/ Shutdown \/ JoinRejected
  BY <1>15, <1>16 DEF Drop, LoseJam, Leave, Shutdown, JoinRejected, Off
<1>17. CASE JoinAnswered
  <2>1. PICK reply : reply.kind = "joined" /\ Receive(reply)
    BY <1>17 DEF JoinAnswered
  <2>2. /\ phase = "join" /\ phase' = FirstRequest /\ UNCHANGED request
        /\ toServer' = Append(toServer, Ask(FirstRequest, {}))
        /\ FirstRequest \in {"silence", "capabilities"}
    BY <1>17 DEF JoinAnswered, FirstRequest, CapabilitiesFirst
  <2>3. OneReply(wire) /\ wire # <<>>
    <3>1. reply \in ToSet(wire)
      BY <1>0, <2>1, Received
    <3> QED
      BY <2>2, <3>1, OnEmpty DEF Lockstep
  <2>4. pending = <<>> /\ toServer = <<>>
    BY <2>2, <2>3 DEF Links, JoinUnderWay
  <2>5. NoReply(wire') /\ NoReply(pending') /\ OneReply(wire')
    BY <1>0, <2>1, <2>3, <2>4, Received, OrderedShort
  <2>6. toServer' # <<>> /\ Tail(toServer') = <<>> /\ ToSet(toServer') = {Ask(FirstRequest, {})}
    BY <2>2, <2>4, FirstSent
  <2>7. Ask(FirstRequest, {}).kind = Expected' /\ Expected' # NoRequest
    BY <2>2 DEF Ask, Expected, NoRequest
  <2>8. InTurn'
    BY <2>5, <2>6, <2>7 DEF InTurn
  <2> QED
    BY <2>2, <2>8 DEF Lockstep
\* A reply: nothing is under way any more.
<1>18. ASSUME NEW reply, Receive(reply), Online, Certain
       PROVE  /\ NoReply(wire') /\ NoReply(pending') /\ OneReply(wire') /\ toServer = <<>>
  <2>1. reply.kind \in Replies /\ reply \in ToSet(wire)
    BY <1>0, <1>18, Received
  <2>2. InTurn
    BY <1>18 DEF Lockstep
  <2> QED
    BY <1>0, <1>18, <2>1, <2>2, Received DEF InTurn, NoReply
<1>19. CASE SilenceAnswered
  <2>1. PICK reply : Receive(reply)
    BY <1>19 DEF SilenceAnswered
  <2>2. /\ phase = "silence" /\ phase' = "capabilities" /\ UNCHANGED request
        /\ toServer' = Append(toServer, Ask("capabilities", {}))
    BY <1>19 DEF SilenceAnswered
  <2>3. NoReply(wire') /\ NoReply(pending') /\ OneReply(wire') /\ toServer = <<>>
    BY <1>18, <2>1, <2>2 DEF Online, Off
  <2>4. /\ toServer' # <<>> /\ Tail(toServer') = <<>>
        /\ ToSet(toServer') = {Ask("capabilities", {})}
    BY <2>2, <2>3, FirstSent
  <2>5. Ask("capabilities", {}).kind = "capabilities" /\ Expected' = "capabilities"
    BY <2>2 DEF Ask, Expected
  <2>6. InTurn'
    BY <2>3, <2>4, <2>5 DEF InTurn, NoRequest
  <2> QED
    BY <2>2, <2>6 DEF Lockstep, Online
<1>20. ASSUME NEW from \in {"capabilities", "turn"}, NEW waiting \in {"first", "reconcile"},
              Reconcile(from, waiting), request = NoRequest, UNCHANGED adrift,
              ~adrift =>
                NoReply(wire') /\ NoReply(pending') /\ OneReply(wire') /\ toServer = <<>>
       PROVE  Lockstep'
  <2>1. /\ phase' \in {"media", "turn", "first", "reconcile"}
        /\ request' # NoRequest <=> phase' \in {"first", "reconcile"}
        /\ request' # NoRequest => request' \in Reconciling
    <3>1. CASE phase' = AfterReconcile(from) /\ UNCHANGED <<toServer, request>>
      BY <1>20, <3>1 DEF AfterReconcile
    <3>2. CASE phase' = waiting /\ \E a \in FirstNeeded : Send(a)
      BY <1>20, <3>2, NeededKinds DEF Send
    <3> QED
      BY <1>20, <3>1, <3>2 DEF Reconcile
  <2>2. ASSUME ~adrift PROVE InTurn'
    <3>1. \/ /\ UNCHANGED <<toServer, request>> /\ phase' \in {"media", "turn"}
          \/ /\ phase' = waiting
             /\ \E a \in FirstNeeded :
                  /\ request' = a.kind /\ a.kind # NoRequest
                  /\ toServer' # <<>> /\ Tail(toServer') = <<>> /\ ToSet(toServer') = {a}
      BY <1>20, <2>2, ReconcileSends
    <3>2. CASE UNCHANGED <<toServer, request>> /\ phase' \in {"media", "turn"}
      BY <1>20, <2>2, <3>2, OnEmpty DEF InTurn, Expected
    <3>3. CASE /\ phase' = waiting
               /\ \E a \in FirstNeeded :
                  /\ request' = a.kind /\ a.kind # NoRequest
                  /\ toServer' # <<>> /\ Tail(toServer') = <<>> /\ ToSet(toServer') = {a}
      BY <1>20, <2>2, <3>3 DEF InTurn, Expected
    <3> QED
      BY <3>1, <3>2, <3>3
  <2> QED
    BY <1>20, <2>1, <2>2 DEF Lockstep
<1>21. CASE CapabilitiesAnswered
  <2>1. PICK reply : Receive(reply)
    BY <1>21 DEF CapabilitiesAnswered
  <2>2. /\ phase = "capabilities" /\ Reconcile("capabilities", "first") /\ UNCHANGED adrift
    BY <1>21 DEF CapabilitiesAnswered
  <2>3. request = NoRequest /\ Online
    BY <2>2 DEF Lockstep, Online, Off
  <2> QED
    BY <1>18, <1>20, <2>1, <2>2, <2>3
<1>22. CASE StartReconcile
  <2>1. /\ phase \in {"command", "turn"} /\ Reconcile("turn", "reconcile")
        /\ UNCHANGED <<adrift, wire, pending>>
    BY <1>22 DEF StartReconcile
  <2>2. request = NoRequest /\ Online /\ Expected = NoRequest
    BY <2>1 DEF Lockstep, Online, Off, Expected
  <2>3. ~adrift => NoReply(wire') /\ NoReply(pending') /\ OneReply(wire') /\ toServer = <<>>
    BY <2>1, <2>2 DEF Lockstep, InTurn, NoReply
  <2> QED
    BY <1>20, <2>1, <2>2, <2>3
<1>23. CASE IngressAnswered
  <2>1. PICK reply : reply.kind = "ack" /\ Receive(reply)
    BY <1>23 DEF IngressAnswered
  <2> DEFINE more == IF request = "drop" THEN TakeNext(serverMode', subscribed') ELSE {}
  <2>2. /\ phase \in {"first", "reconcile"} /\ UNCHANGED adrift
        /\ \/ phase' = AfterReconcile(phase) /\ request' = NoRequest /\ UNCHANGED toServer
           \/ \E a \in more : Send(a) /\ UNCHANGED phase
    BY <1>23 DEF IngressAnswered
  <2>3. Online /\ AfterReconcile(phase) \in {"media", "turn"}
    BY <2>2 DEF Online, Off, AfterReconcile
  <2>4. \A a \in more : a.kind = "take"
    BY DEF TakeNext, Ask
  <2> HIDE DEF more
  <2>5. CASE phase' = AfterReconcile(phase) /\ request' = NoRequest /\ UNCHANGED toServer
    <3>1. ASSUME ~adrift PROVE InTurn'
      <4>1. NoReply(wire') /\ NoReply(pending') /\ OneReply(wire') /\ toServer = <<>>
        BY <1>18, <2>1, <2>3, <3>1
      <4> QED
        BY <2>3, <2>5, <4>1, OnEmpty DEF InTurn, Expected
    <3> QED
      BY <2>2, <2>3, <2>5, <3>1 DEF Lockstep
  <2>6. CASE \E a \in more : Send(a) /\ UNCHANGED phase
    <3>1. PICK a \in more : Send(a) /\ UNCHANGED phase
      BY <2>6
    <3>2. /\ request' = "take" /\ request' = a.kind /\ toServer' = Append(toServer, a)
          /\ request' \in Reconciling
      BY <2>4, <3>1 DEF Send, Reconciling
    <3>3. ASSUME ~adrift PROVE InTurn'
      <4>1. NoReply(wire') /\ NoReply(pending') /\ OneReply(wire') /\ toServer = <<>>
        BY <1>18, <2>1, <2>3, <3>3
      <4>2. toServer' # <<>> /\ Tail(toServer') = <<>> /\ ToSet(toServer') = {a}
        BY <3>2, <4>1, FirstSent
      <4> QED
        BY <2>2, <3>1, <3>2, <4>1, <4>2 DEF InTurn, Expected, NoRequest
    <3> QED
      BY <2>2, <3>1, <3>2, <3>3 DEF Lockstep, Online, NoRequest
  <2> QED
    BY <2>2, <2>5, <2>6
<1>24. CASE GiveUp
  BY <1>24 DEF GiveUp, Lockstep, AfterReconcile
<1>25. CASE OpenMedia \/ PollNothing
  <2>1. /\ phase \in {"media", "turn"} /\ phase' = "command"
        /\ UNCHANGED <<request, pending, toServer, wire, adrift>>
    BY <1>25 DEF OpenMedia, PollNothing
  <2> QED
    BY <2>1 DEF Lockstep, InTurn, Expected, Online, Off, NoReply
<1>26. CASE PollEvent
  <2>1. /\ ToSet(pending') \subseteq ToSet(pending) /\ ToSet(wire') \subseteq ToSet(wire)
        /\ OneReply(wire) => OneReply(wire')
    BY <1>0, <1>26, NextHeard DEF RoomFollows
  <2>2. /\ phase \in {"command", "turn"} /\ phase' = "command"
        /\ UNCHANGED <<request, toServer, adrift>>
    BY <1>26 DEF PollEvent
  <2> QED
    BY <2>1, <2>2 DEF Lockstep, InTurn, Expected, Online, Off, NoReply
<1> QED
  BY <1>1, <1>2, <1>4, <1>5, <1>7, <1>8, <1>9, <1>10, <1>12, <1>13, <1>14, <1>16, <1>17,
     <1>19, <1>21, <1>22, <1>23, <1>24, <1>25, <1>26 DEF SessionNext

-----------------------------------------------------------------------------
(* What the worker believes the server holds.                              *)

\* A belief may hold streams that were withdrawn since.
Belief(md, held) ==
  /\ mode = md /\ held \cap live = declared /\ held \subseteq live \cup gone

\* An answer under way makes the belief true again.
Restores(ack) ==
  /\ Belief(ack.mode, ack.held) /\ ack.dropped \cap ack.held = {}
  /\ ack.mode = "auto" => ack.held = {}
  /\ Expected \in {"silence", "drop"} => ack.mode = "explicit"

Believed ==
  /\ ~adrift /\ ~Online /\ member = "known" => Belief(serverMode, subscribed)
  /\ ~adrift /\ Online /\ (toServer # <<>> \/ ~Awaiting) => Belief(serverMode, subscribed)
  /\ Certain /\ Online => \A m \in ToSet(wire) : m.kind = "ack" => Restores(m)

\* At first there is no connection to believe anything of.
LEMMA BelievedInit == SessionInit => Believed
BY DEF SessionInit, Believed, Online, Off

\* A belief survives what is published and withdrawn.
LEMMA BeliefOnAir ==
  ASSUME declared \subseteq live, NEW md, NEW held, Belief(md, held), UNCHANGED mode,
         \/ UNCHANGED <<live, gone, declared>>
         \/ \E s \in Streams : /\ s \notin live \cup gone /\ live' = live \cup {s}
                               /\ UNCHANGED <<gone, declared>>
         \/ \E s \in Streams : /\ s \in live /\ live' = live \ {s} /\ gone' = gone \cup {s}
                               /\ declared' = declared \ {s}
  PROVE  /\ mode' = md /\ held \cap live' = declared' /\ held \subseteq live' \cup gone'
BY DEF Belief

\* Under way at all: the kind is the one expected, and the reply is not here.
LEMMA UnderWay ==
  ASSUME SessionTypes, Lockstep, Online, Certain, toServer # <<>>, toServer' = Tail(toServer)
  PROVE  /\ Request.kind = Expected /\ Request \in ToSet(toServer)
         /\ toServer' = <<>> /\ NoReply(wire)
<1>1. InTurn /\ Request \in ToSet(toServer)
  BY RequestRead DEF Lockstep, SessionTypes
<1> QED
  BY <1>1 DEF InTurn

\* A reply: nothing is under way any more.
LEMMA Answered ==
  ASSUME SessionTypes, Lockstep, Online, Certain, NEW reply, Receive(reply)
  PROVE  /\ NoReply(wire') /\ NoReply(pending') /\ OneReply(wire') /\ toServer = <<>>
         /\ reply \in ToSet(wire) /\ reply \in Messages
<1>1. Queues
  BY TypesSplit
<1>2. reply.kind \in Replies /\ reply \in ToSet(wire) /\ reply \in Messages
  BY <1>1, Received
<1>3. InTurn
  BY DEF Lockstep
<1> QED
  BY <1>1, <1>2, <1>3, Received DEF InTurn, NoReply

\* Every step keeps the belief true, or the answer that restores it coming.
LEMMA BelievedStep ==
  ASSUME SessionTypes, Links, RoomFollows, Lockstep, Believed, [SessionNext]_sessionVars
  PROVE  Believed'
<1> USE DEF workerVars, beliefVars, roomVars, linkVars, serverVars, historyVars, Certain
<1>0. /\ Queues /\ declared \subseteq Offered /\ phase \in Phases
      /\ pending \in Seq(Messages) /\ wire \in Seq(Messages)
  BY TypesSplit DEF RoomFollows, Queues, StateTypes
<1>1. CASE UNCHANGED sessionVars
  BY <1>1 DEF sessionVars, Believed, Belief, Restores, Online, Awaiting, Expected
<1>2. CASE ServeJoin
  <2>1. phase = "join" /\ UNCHANGED <<phase, live, gone, serverMode, subscribed>>
    <3>1. toServer # <<>> /\ Request.kind \in Joining /\ Request \in ToSet(toServer)
      BY <1>0, <1>2, RequestRead DEF ServeJoin, Joining
    <3>2. phase = "join"
      BY <3>1 DEF Links, Unlinked, Linked
    <3> QED
      BY <1>2, <3>2 DEF ServeJoin
  <2>2. member' = "known" /\ ~adrift' => ~adrift /\ UNCHANGED <<member, mode, declared>>
    BY <1>2, JoinServed DEF Attended
  <2> QED
    BY <2>1, <2>2 DEF Believed, Belief, Online
<1>3. CASE ServeIngress
  <2>1. PICK ack \in Messages, tail \in Seq(Messages) :
          /\ ToSet(wire') = ToSet(wire) \cup {ack} \cup ToSet(tail)
          /\ Request.kind \in Reconciling
          /\ ack.kind = "ack" /\ ack.mode = mode' /\ ack.held = declared'
          /\ ack.dropped = Served \ ToServe(Request.kind, declared')
          /\ mode' = (IF Request.kind = "all" THEN "auto" ELSE "explicit")
          /\ Request.kind = "all" => declared' = {}
          /\ declared' \subseteq live
          /\ \A m \in ToSet(tail) : m.kind = "format"
    BY <1>0, <1>3, IngressSends DEF Offered
  <2>2. /\ Online /\ UNCHANGED <<phase, request, live, gone, adrift>> /\ toServer # <<>>
        /\ toServer' = Tail(toServer)
    BY <1>3, AskedOnline DEF ServeIngress
  <2> SUFFICES ASSUME Certain PROVE Believed'
    BY <2>2 DEF Believed, Online
  <2>3. Request.kind = Expected /\ toServer' = <<>> /\ NoReply(wire)
    BY <2>2, UnderWay
  <2>4. Awaiting' /\ Online' /\ Expected' = Expected
    BY <2>1, <2>2, <2>3 DEF Awaiting, Expected, Reconciling, Online, Off, Lockstep, NoRequest
  <2>5. \A m \in ToSet(wire') : m.kind = "ack" => m = ack
    BY <2>1, <2>3 DEF NoReply, Replies
  <2>6. Belief(ack.mode, ack.held)'
    BY <2>1, <2>2 DEF Belief
  <2>7. /\ ack.dropped \cap ack.held = {} /\ (ack.mode = "auto" => ack.held = {})
        /\ Expected \in {"silence", "drop"} => ack.mode = "explicit"
    BY <2>1, <2>3 DEF ToServe
  <2>8. Restores(ack)'
    BY <2>4, <2>6, <2>7 DEF Restores
  <2> QED
    BY <2>3, <2>4, <2>5, <2>8 DEF Believed
<1>4. CASE ServeCapabilities
  <2>1. PICK answer \in Messages :
          /\ answer.kind = "capabilities" /\ Formats(Served) \in Seq(Messages)
          /\ ToSet(wire') = ToSet(wire) \cup {answer} \cup ToSet(Formats(Served))
          /\ \A m \in ToSet(Formats(Served)) : m.kind = "format"
    BY <1>0, <1>4, CapabilitiesSends
  <2>2. /\ Online /\ toServer # <<>> /\ toServer' = Tail(toServer)
        /\ UNCHANGED <<phase, request, live, gone, mode, declared, serverMode, subscribed,
                       adrift>>
    BY <1>4, AskedOnline DEF ServeCapabilities
  <2>3. \A m \in ToSet(wire') : m.kind = "ack" => m \in ToSet(wire)
    BY <2>1
  <2> QED
    BY <2>2, <2>3 DEF Believed, Belief, Restores, Online, Off, Awaiting, Expected
<1>5. ASSUME \/ UNCHANGED <<live, gone, declared>>
             \/ \E s \in Streams : /\ s \notin live \cup gone /\ live' = live \cup {s}
                                   /\ UNCHANGED <<gone, declared>>
             \/ \E s \in Streams : /\ s \in live /\ live' = live \ {s} /\ gone' = gone \cup {s}
                                   /\ declared' = declared \ {s},
             UNCHANGED <<phase, request, token, member, toServer, mode, serverMode, subscribed,
                         adrift>>,
             \A m \in ToSet(wire') : m.kind = "ack" => m \in ToSet(wire)
      PROVE  Believed'
  <2>1. \A md, held : Belief(md, held) =>
          mode' = md /\ held \cap live' = declared' /\ held \subseteq live' \cup gone'
    BY <1>0, <1>5, BeliefOnAir DEF Offered
  <2>2. Belief(serverMode, subscribed) => Belief(serverMode, subscribed)'
    BY <1>5, <2>1 DEF Belief
  <2>3. \A m : Restores(m) => Restores(m)'
    BY <1>5, <2>1 DEF Belief, Restores, Expected
  <2> QED
    BY <1>5, <2>2, <2>3 DEF Believed, Online, Awaiting
<1>6. ASSUME NEW s \in Streams, Publish(s) PROVE Believed'
  <2>1. \A m \in ToSet(wire') : m.kind = "ack" => m \in ToSet(wire)
    BY <1>6, PublishServed DEF Heard
  <2>2. /\ s \notin live \cup gone /\ live' = live \cup {s} /\ UNCHANGED <<gone, declared>>
        /\ UNCHANGED <<phase, request, token, member, toServer, mode, serverMode, subscribed,
                       adrift>>
    BY <1>6 DEF Publish
  <2> QED
    BY <1>5, <2>1, <2>2
<1>7. ASSUME NEW s \in Streams, NEW kind \in {"removed", "left"}, Withdraw(s, kind)
      PROVE  Believed'
  <2>1. \A m \in ToSet(wire') : m.kind = "ack" => m \in ToSet(wire)
    BY <1>7, WithdrawServed
  <2>2. /\ s \in live /\ live' = live \ {s} /\ gone' = gone \cup {s} /\ declared' = declared \ {s}
        /\ UNCHANGED <<phase, request, token, member, toServer, mode, serverMode, subscribed,
                       adrift>>
    BY <1>7 DEF Withdraw
  <2> QED
    BY <1>5, <2>1, <2>2
<1>8. CASE Expire
  BY <1>8 DEF Expire, Believed, Belief, Restores, Online, Awaiting, Expected
<1>9. ASSUME NEW choice \in RouteChoices, HostRoutes(choice) PROVE Believed'
  <2>1. /\ phase \in {"idle", "backoff", "command"}
        /\ phase' = (IF phase = "command" THEN "turn" ELSE phase)
        /\ UNCHANGED <<request, wire, toServer, beliefVars, serverVars, adrift>>
    BY <1>9 DEF HostRoutes
  <2> QED
    BY <2>1 DEF Believed, Belief, Restores, Online, Off, Awaiting, Expected
<1>10. ASSUME NEW j \in Jams, JoinJam(j) PROVE Believed'
  BY <1>10 DEF JoinJam, Dial, Believed, Belief, Online, Off
<1>11. ASSUME NEW j \in Jams, SwitchJam(j) PROVE Believed'
  BY <1>11 DEF SwitchJam, TokenFor, Believed, Belief, Online, Off
<1>12. CASE Redial
  BY <1>12 DEF Redial, Dial, Believed, Belief, Online, Off
<1>13. CASE Drop \/ LoseJam
  <2>1. /\ phase' \in {"backoff", "idle"} /\ adrift' = (adrift \/ Awaiting)
        /\ UNCHANGED <<member, live, gone, mode, declared, serverMode, subscribed>>
    BY <1>13 DEF Drop, LoseJam, Disconnect
  <2> QED
    BY <2>1 DEF Believed, Belief, Online, Off
<1>14. CASE Leave \/ Shutdown
  <2>1. /\ phase' \in {"idle", "stopped"} /\ phase \in {"idle", "backoff", "command"}
        /\ member' = member \/ member' = "none"
        /\ UNCHANGED <<live, gone, mode, declared, serverMode, subscribed, adrift>>
    BY <1>14 DEF Leave, Shutdown, Disconnect
  <2>2. ~Awaiting
    BY <2>1 DEF Awaiting, Lockstep, NoRequest
  <2> QED
    BY <2>1, <2>2 DEF Believed, Belief, Online, Off
<1>15. CASE JoinRejected
  BY <1>15 DEF JoinRejected, Disconnect, Believed, Belief, Online, Off
<1>16. CASE JoinAnswered
  <2>1. PICK reply : /\ reply.kind = "joined" /\ Receive(reply)
                     /\ serverMode' = BeliefAfterJoin(reply.resumed)[1]
                     /\ subscribed' = BeliefAfterJoin(reply.resumed)[2]
                     /\ adrift' = (adrift /\ reply.resumed)
    BY <1>16 DEF JoinAnswered
  <2>2. /\ phase = "join" /\ phase' \in {"silence", "capabilities"}
        /\ UNCHANGED <<live, gone, mode, declared>>
    BY <1>16 DEF JoinAnswered, FirstRequest, CapabilitiesFirst
  <2>3. OneReply(wire)
    BY <2>2 DEF Lockstep
  <2>4. reply \in ToSet(wire) /\ reply \in Messages /\ NoReply(wire')
    BY <1>0, <2>1, <2>3, Received
  <2>5. reply.resumed \in BOOLEAN
    BY <2>1, <2>4, Shapes
  <2>6. ~adrift' => Belief(serverMode, subscribed)'
    <3>1. CASE reply.resumed
      <4>1. serverMode' = serverMode /\ subscribed' = subscribed /\ (adrift => adrift')
        <5>1. BeliefAfterJoin(reply.resumed) = <<serverMode, subscribed>>
          BY <3>1 DEF BeliefAfterJoin
        <5>2. adrift => adrift'
          BY <2>1, <3>1, Zenon
        <5> QED
          BY <2>1, <5>1, <5>2
      <4>2. ~adrift => member = "known" /\ ~Online
        BY <2>1, <2>2, <2>4, <3>1 DEF Links, JoinUnderWay, Online
      <4> QED
        BY <2>2, <4>1, <4>2 DEF Believed, Belief
    <3>2. CASE ~reply.resumed
      <4>1. serverMode' = "auto" /\ subscribed' = {}
        BY <2>1, <3>2 DEF BeliefAfterJoin
      <4>2. mode = "auto" /\ declared = {}
        BY <2>1, <2>2, <2>4, <3>2 DEF Links, JoinUnderWay, Newcomer
      <4> QED
        BY <2>2, <4>1, <4>2 DEF Belief
    <3> QED
      BY <2>5, <3>1, <3>2
  <2>7. \A m \in ToSet(wire') : m.kind # "ack"
    BY <2>4 DEF NoReply, Replies
  <2> QED
    BY <2>2, <2>6, <2>7 DEF Believed, Online, Off
\* A step on a joined connection that leaves the server alone.
<1>17. ASSUME Online, Online', phase' # "silence", ~adrift' => ~adrift,
              UNCHANGED <<live, gone, mode, declared>>,
              ~adrift => /\ Belief(serverMode, subscribed)' /\ (UNCHANGED wire \/ NoReply(wire'))
                         /\ UNCHANGED Expected \/ NoReply(wire')
       PROVE  Believed'
  <2>1. ~adrift => \A m \in ToSet(wire') : m.kind = "ack" => Restores(m)'
    BY <1>17 DEF Believed, Restores, Belief, NoReply, Replies
  <2> QED
    BY <1>17, <2>1 DEF Believed
<1>18. CASE SilenceAnswered
  <2>1. PICK reply : reply.kind = "ack" /\ Receive(reply) /\ ApplyUnsubscribed(reply)
    BY <1>18 DEF SilenceAnswered
  <2>2. /\ phase = "silence" /\ phase' = "capabilities"
        /\ UNCHANGED <<live, gone, mode, declared>>
    BY <1>18 DEF SilenceAnswered
  <2>3. Online /\ Online'
    BY <2>2 DEF Online, Off
  <2>4. reply \in ToSet(wire) /\ NoReply(wire')
    BY <2>1, <2>2, <2>3, Answered
  <2>5. Belief(reply.mode, reply.held)
    BY <2>1, <2>2, <2>3, <2>4 DEF Believed, Restores
  <2>6. Belief(serverMode, subscribed)'
    BY <2>1, <2>2, <2>5 DEF Belief, ApplyUnsubscribed
  <2> QED
    BY <2>3, <2>4, <2>6 DEF Believed, NoReply, Replies
<1>19. CASE CapabilitiesAnswered
  <2>1. PICK reply : Receive(reply)
    BY <1>19 DEF CapabilitiesAnswered
  <2>2. /\ phase = "capabilities"
        /\ UNCHANGED <<live, gone, mode, declared, adrift, serverMode, subscribed>>
    BY <1>19 DEF CapabilitiesAnswered
  <2>3. Online /\ Online' /\ phase' # "silence" /\ ~Awaiting
    BY <1>19, <2>2, PumpSteps DEF Pump, Steady, Online, Off, Lockstep, Awaiting
  <2>4. ~adrift => NoReply(wire') /\ Belief(serverMode, subscribed)
    BY <2>1, <2>3, Answered DEF Believed
  <2> QED
    BY <1>17, <2>2, <2>3, <2>4 DEF Belief
<1>20. CASE StartReconcile
  <2>1. /\ phase \in {"command", "turn"}
        /\ UNCHANGED <<live, gone, mode, declared, adrift, serverMode, subscribed, wire>>
    BY <1>20 DEF StartReconcile
  <2>2. Online /\ Online' /\ phase' # "silence" /\ ~Awaiting /\ Expected = NoRequest
    BY <1>20, <2>1, PumpSteps DEF Pump, Steady, Online, Off, Lockstep, Awaiting, Expected
  <2>3. ~adrift => NoReply(wire') /\ Belief(serverMode, subscribed)
    BY <2>1, <2>2 DEF Believed, Lockstep, InTurn, NoReply
  <2> QED
    BY <1>17, <2>1, <2>2, <2>3 DEF Belief
<1>21. CASE IngressAnswered
  <2>1. PICK reply : /\ reply.kind = "ack" /\ Receive(reply)
                     /\ IF request \in {"silence", "drop"}
                          THEN ApplyUnsubscribed(reply)
                          ELSE ApplySubscribed(reply)
    BY <1>21 DEF IngressAnswered
  <2>2. UNCHANGED <<live, gone, mode, declared, adrift>> /\ phase \in {"first", "reconcile"}
    BY <1>21 DEF IngressAnswered
  <2>3. Online /\ Online' /\ phase' # "silence"
    BY <1>21, <2>2, PumpSteps DEF Pump, Steady, Online, Off
  <2>4. ASSUME ~adrift PROVE Belief(serverMode, subscribed)' /\ NoReply(wire')
    <3>1. reply \in ToSet(wire) /\ NoReply(wire')
      BY <2>1, <2>3, <2>4, Answered
    <3>2. Belief(reply.mode, reply.held) /\ (reply.mode = "auto" => reply.held = {})
      BY <2>1, <2>3, <2>4, <3>1 DEF Believed, Restores
    <3>3. serverMode' = reply.mode /\ subscribed' = reply.held
      BY <2>1, <3>2 DEF ApplyUnsubscribed, ApplySubscribed
    <3> QED
      BY <2>2, <3>1, <3>2, <3>3 DEF Belief
  <2> QED
    BY <1>17, <2>2, <2>3, <2>4
<1>22. CASE GiveUp
  BY <1>22 DEF GiveUp, Believed, AfterReconcile, Online, Off
<1>23. CASE OpenMedia \/ PollNothing
  <2>1. /\ phase \in {"media", "turn"} /\ phase' = "command"
        /\ UNCHANGED <<request, toServer, wire, beliefVars, serverVars, adrift>>
    BY <1>23 DEF OpenMedia, PollNothing
  <2> QED
    BY <2>1 DEF Believed, Belief, Restores, Online, Off, Awaiting, Expected
<1>24. CASE PollEvent
  <2>1. PICK m \in Messages :
          /\ Apply(m) /\ Arriving = {m} \cup Arriving' /\ ToSet(wire') \subseteq ToSet(wire)
    BY <1>0, <1>24, NextHeard DEF RoomFollows
  <2>2. /\ phase \in {"command", "turn"} /\ phase' = "command"
        /\ UNCHANGED <<request, toServer, serverMode, live, gone, mode, declared, adrift>>
    BY <1>24 DEF PollEvent
  <2>3. Online /\ Online' /\ phase' # "silence" /\ ~Awaiting /\ Expected = NoRequest
    BY <2>2 DEF Online, Off, Lockstep, Awaiting, Expected
  <2>4. m.kind = "removed" => m.stream \notin live
    <3>1. m.kind = "removed" => m = Event("removed", m.stream) /\ m.stream \in Streams
      BY DEF Messages, Event
    <3> QED
      BY <2>1, <2>3, <3>1 DEF RoomFollows, Roster
  <2>5. subscribed' \subseteq subscribed /\ subscribed' \cap live = subscribed \cap live
    BY <2>1, <2>4 DEF Apply
  <2>6. ~adrift => Belief(serverMode, subscribed)' /\ NoReply(wire')
    BY <2>1, <2>2, <2>3, <2>5 DEF Believed, Belief, Lockstep, InTurn, NoReply
  <2> QED
    BY <1>17, <2>2, <2>3, <2>6
<1> QED
  BY <1>1, <1>2, <1>3, <1>4, <1>6, <1>7, <1>8, <1>9, <1>10, <1>11, <1>12, <1>13, <1>14, <1>15,
     <1>16, <1>18, <1>19, <1>20, <1>21, <1>22, <1>23, <1>24 DEF SessionNext

-----------------------------------------------------------------------------
(* What a reconcile aims at, and what keeps it on its way there.           *)

\* The server serves what the host wants of the room.
Aim ==
  /\ ingress = "everything" => mode = "auto"
  /\ ingress = "routed" => mode = "explicit" /\ declared = Want \cap Offered

\* A request on its way takes the server to the aim, or a drop to where the
\* streams to add are all that is missing.
Promised(a) ==
  /\ a.kind = "all" => ingress = "everything"
  /\ a.kind = "silence" => ingress = "routed" /\ Want = {}
  /\ a.kind = "drop" =>
       ingress = "routed" /\ serverMode = "explicit" /\ a.ids = subscribed \ Want
  /\ a.kind = "take" =>
       /\ ingress = "routed" /\ a.ids \subseteq Want
       /\ serverMode = "auto" => Want \subseteq a.ids
       /\ serverMode = "explicit" => subscribed \subseteq Want /\ Want \subseteq subscribed \cup a.ids

\* And its answer says so.
Granted(m) ==
  /\ request = "all" => ingress = "everything" /\ m.mode = "auto"
  /\ request = "silence" => ingress = "routed" /\ m.mode = "explicit" /\ m.held = {} /\ Want = {}
  /\ request = "drop" => ingress = "routed" /\ m.mode = "explicit" /\ m.held \subseteq Want
  /\ request = "take" =>
       /\ ingress = "routed" /\ m.mode = "explicit"
       /\ m.held \subseteq Want /\ Want \cap Offered \subseteq m.held

Reconciled ==
  ~adrift =>
    /\ phase \in {"media", "command", "turn"} /\ ~dirty => Aim
    /\ phase \in {"first", "reconcile"} =>
         /\ ~dirty
         /\ \A a \in ToSet(toServer) : Promised(a)
         /\ \A m \in ToSet(wire) : m.kind = "ack" => Granted(m)

\* At first nothing is routed yet.
LEMMA ReconciledInit == SessionInit => Reconciled
BY DEF SessionInit, Reconciled

\* With a true belief, what reconcile_ingress needs is what is missing.
LEMMA NeededIsMissing ==
  ASSUME SessionTypes, declared \subseteq Offered, Belief(serverMode, subscribed)
  PROVE  /\ FirstNeeded = {} => Aim
         /\ \A a \in FirstNeeded : Promised(a)
<1>0. ingress \in {"everything", "routed"} /\ serverMode \in {"auto", "explicit"}
  BY DEF SessionTypes, SessionTypeOK
<1>1. /\ mode = serverMode /\ subscribed \cap live = declared
  BY DEF Belief
<1>2. CASE ingress = "everything"
  <2>1. FirstNeeded = IF serverMode = "auto" THEN {} ELSE {Ask("all", {})}
    BY <1>2 DEF FirstNeeded
  <2>2. Ask("all", {}).kind = "all"
    BY DEF Ask
  <2> QED
    BY <1>1, <1>2, <2>1, <2>2 DEF Aim, Promised
<1>3. CASE ingress = "routed" /\ Want = {}
  <2>1. FirstNeeded = IF serverMode = "explicit" /\ subscribed = {} THEN {} ELSE {Ask("silence", {})}
    BY <1>3 DEF FirstNeeded
  <2>2. Ask("silence", {}).kind = "silence"
    BY DEF Ask
  <2> QED
    BY <1>1, <1>3, <2>1, <2>2 DEF Aim, Promised
<1>4. CASE ingress = "routed" /\ Want # {} /\ serverMode = "explicit" /\ subscribed \ Want # {}
  <2>1. FirstNeeded = {Ask("drop", subscribed \ Want)}
    BY <1>4 DEF FirstNeeded
  <2>2. /\ Ask("drop", subscribed \ Want).kind = "drop"
        /\ Ask("drop", subscribed \ Want).ids = subscribed \ Want
    BY DEF Ask
  <2> QED
    BY <1>4, <2>1, <2>2 DEF Promised
<1>5. CASE ingress = "routed" /\ Want # {} /\ ~(serverMode = "explicit" /\ subscribed \ Want # {})
  <2> DEFINE add == IF serverMode = "auto" THEN Want ELSE Want \ subscribed
  <2>1. FirstNeeded = IF add = {} THEN {} ELSE {Ask("take", add)}
    BY <1>5 DEF FirstNeeded, TakeNext
  <2>2. Ask("take", add).kind = "take" /\ Ask("take", add).ids = add
    BY DEF Ask
  <2>3. FirstNeeded = {} => Aim
    BY <1>0, <1>1, <1>5, <2>1 DEF Aim, Offered
  <2>4. /\ add \subseteq Want /\ (serverMode = "auto" => Want \subseteq add)
        /\ serverMode = "explicit" => subscribed \subseteq Want /\ Want \subseteq subscribed \cup add
    BY <1>5
  <2> HIDE DEF add
  <2>5. Promised(Ask("take", add))
    BY <1>5, <2>2, <2>4 DEF Promised
  <2> QED
    BY <2>1, <2>3, <2>5
<1> QED
  BY <1>0, <1>2, <1>3, <1>4, <1>5

\* The server grants what was promised.
LEMMA PromiseIsKept ==
  ASSUME SessionTypes, declared \subseteq Offered, Belief(serverMode, subscribed), Promised(Request),
         Request.kind = request, ServeIngress, NEW ack, ack.mode = mode', ack.held = declared',
         Request.kind \in Reconciling,
         mode' = (IF Request.kind = "all" THEN "auto" ELSE "explicit"),
         declared' = CASE Request.kind \in {"silence", "all"} -> {}
                       [] Request.kind = "drop" -> declared \ Request.ids
                       [] Request.kind = "take" /\ mode = "auto" -> Request.ids \cap Offered
                       [] Request.kind = "take" /\ mode # "auto" ->
                            declared \cup (Request.ids \cap Offered)
  PROVE  Granted(ack)
<1>1. mode = serverMode /\ subscribed \cap live = declared /\ serverMode \in {"auto", "explicit"}
  BY DEF Belief, SessionTypes, SessionTypeOK
<1>2. CASE request = "all"
  BY <1>2 DEF Promised, Granted
<1>3. CASE request = "silence"
  BY <1>3 DEF Promised, Granted
<1>4. CASE request = "drop"
  BY <1>1, <1>4 DEF Promised, Granted
<1>5. CASE request = "take" /\ mode = "auto"
  BY <1>1, <1>5 DEF Promised, Granted
<1>6. CASE request = "take" /\ mode # "auto"
  <2>1. declared' = declared \cup (Request.ids \cap Offered)
    BY <1>6
  <2>2. /\ Request.ids \subseteq Want /\ subscribed \subseteq Want
        /\ Want \subseteq subscribed \cup Request.ids /\ ingress = "routed"
    BY <1>1, <1>6 DEF Promised
  <2>3. declared' \subseteq Want /\ Want \cap Offered \subseteq declared'
    BY <1>1, <2>1, <2>2 DEF Offered
  <2> QED
    BY <1>6, <2>2, <2>3 DEF Granted
<1> QED
  BY <1>2, <1>3, <1>4, <1>5, <1>6 DEF Reconciling

\* Every step keeps the server at the aim, or on its way there.
LEMMA ReconciledStep ==
  ASSUME SessionTypes, Links, RoomFollows, Lockstep, Believed, Reconciled, [SessionNext]_sessionVars
  PROVE  Reconciled'
<1> USE DEF workerVars, beliefVars, roomVars, linkVars, serverVars, historyVars
<1>0. /\ Queues /\ declared \subseteq Offered /\ phase \in Phases
      /\ pending \in Seq(Messages) /\ wire \in Seq(Messages)
  BY TypesSplit DEF RoomFollows, Queues, StateTypes
<1>1. Online => room \subseteq live \cup gone
  BY DEF RoomFollows, Roster
<1>2. ASSUME phase' \notin {"media", "command", "turn", "first", "reconcile"} PROVE Reconciled'
  BY <1>2 DEF Reconciled
\* A step of the server.
<1>3. ASSUME \/ UNCHANGED <<live, gone, declared>>
             \/ \E s \in Streams : /\ s \notin live \cup gone /\ live' = live \cup {s}
                                   /\ UNCHANGED <<gone, declared>>
             \/ \E s \in Streams : /\ s \in live /\ live' = live \ {s} /\ gone' = gone \cup {s}
                                   /\ declared' = declared \ {s},
             UNCHANGED <<phase, request, ingress, wanted, dirty, room, mode, serverMode,
                         subscribed, adrift>>,
             ToSet(toServer') \subseteq ToSet(toServer),
             \A m \in ToSet(wire') : m.kind = "ack" => m \in ToSet(wire)
      PROVE  Reconciled'
  <2>1. Want' = Want
    BY <1>3 DEF Want
  <2>2. phase \in {"media", "command", "turn", "first", "reconcile"} => Online
    BY DEF Online, Off
  <2>3. /\ Online /\ declared = Want \cap Offered => declared' = Want \cap Offered'
        /\ Online => \A S : Want \cap Offered \subseteq S => Want \cap Offered' \subseteq S
    <3>1. CASE UNCHANGED <<live, gone, declared>>
      BY <3>1 DEF Offered
    <3>2. CASE \E s \in Streams : /\ s \notin live \cup gone /\ live' = live \cup {s}
                                  /\ UNCHANGED <<gone, declared>>
      <4>1. Online => Want \cap live' = Want \cap live
        BY <1>1, <3>2 DEF Want
      <4> QED
        BY <3>2, <4>1 DEF Offered
    <3>3. CASE \E s \in Streams : /\ s \in live /\ live' = live \ {s} /\ gone' = gone \cup {s}
                                  /\ declared' = declared \ {s}
      BY <3>3 DEF Offered
    <3> QED
      BY <1>3, <3>1, <3>2, <3>3
  <2>4. Online /\ Aim => Aim'
    BY <1>3, <2>1, <2>3 DEF Aim
  <2>5. \A a : Promised(a) => Promised(a)'
    BY <1>3, <2>1 DEF Promised
  <2>6. Online => \A m : Granted(m) => Granted(m)'
    BY <1>3, <2>1, <2>3 DEF Granted
  <2> QED
    BY <1>3, <2>2, <2>4, <2>5, <2>6 DEF Reconciled
<1>4. CASE UNCHANGED sessionVars
  BY <1>3, <1>4 DEF sessionVars
<1>5. CASE ServeJoin
  <2>1. toServer # <<>> /\ Request.kind \in Joining /\ Request \in ToSet(toServer)
    BY <1>0, <1>5, RequestRead DEF ServeJoin, Joining
  <2>2. phase = "join" /\ UNCHANGED phase
    BY <1>5, <2>1 DEF Links, Unlinked, Linked, ServeJoin
  <2> QED
    BY <1>2, <2>2
<1>6. CASE ServeIngress
  <2>1. PICK ack \in Messages, tail \in Seq(Messages) :
          /\ ToSet(wire') = ToSet(wire) \cup {ack} \cup ToSet(tail)
          /\ Request.kind \in Reconciling
          /\ ack.mode = mode' /\ ack.held = declared'
          /\ mode' = (IF Request.kind = "all" THEN "auto" ELSE "explicit")
          /\ declared' = CASE Request.kind \in {"silence", "all"} -> {}
                           [] Request.kind = "drop" -> declared \ Request.ids
                           [] Request.kind = "take" /\ mode = "auto" -> Request.ids \cap Offered
                           [] Request.kind = "take" /\ mode # "auto" ->
                                declared \cup (Request.ids \cap Offered)
          /\ \A m \in ToSet(tail) : m.kind = "format" /\ m.stream \in Offered
    BY <1>0, <1>6, IngressSends
  <2>2. /\ Online /\ toServer # <<>> /\ toServer' = Tail(toServer)
        /\ UNCHANGED <<phase, request, ingress, wanted, dirty, room, live, gone, serverMode,
                       subscribed, adrift>>
    BY <1>6, AskedOnline DEF ServeIngress
  <2> SUFFICES ASSUME ~adrift PROVE Reconciled'
    BY <2>2 DEF Reconciled
  <2>3. Request.kind = Expected /\ Request \in ToSet(toServer) /\ toServer' = <<>> /\ NoReply(wire)
    BY <2>2, UnderWay DEF Certain
  <2>4. CASE phase \notin {"first", "reconcile"}
    <3>1. phase \in {"silence", "capabilities"}
      BY <2>1, <2>3, <2>4 DEF Lockstep, Expected, Reconciling, NoRequest
    <3> QED
      BY <1>2, <2>2, <3>1
  <2>5. CASE phase \in {"first", "reconcile"}
    <3>1. Promised(Request) /\ ~dirty
      BY <2>3, <2>5 DEF Reconciled
    <3>2. Request.kind = request
      BY <2>3, <2>5 DEF Expected
    <3>3. Belief(serverMode, subscribed)
      BY <2>2 DEF Believed
    <3>4. Granted(ack)
      BY <1>0, <1>6, <2>1, <3>1, <3>2, <3>3, PromiseIsKept
    <3>5. Granted(ack)'
      BY <2>2, <3>4 DEF Granted, Want, Offered
    <3>6. \A m \in ToSet(wire') : m.kind = "ack" => m = ack
      BY <2>1, <2>3 DEF NoReply, Replies
    <3>7. ToSet(toServer') = {}
      BY <2>3, OnEmpty
    <3> QED
      BY <2>2, <2>5, <3>1, <3>5, <3>6, <3>7 DEF Reconciled
  <2> QED
    BY <2>4, <2>5
<1>7. CASE ServeCapabilities
  <2>1. PICK answer \in Messages :
          /\ answer.kind = "capabilities" /\ Formats(Served) \in Seq(Messages)
          /\ ToSet(wire') = ToSet(wire) \cup {answer} \cup ToSet(Formats(Served))
          /\ \A m \in ToSet(Formats(Served)) : m.kind = "format"
    BY <1>0, <1>7, CapabilitiesSends
  <2>2. /\ toServer # <<>> /\ toServer' = Tail(toServer)
        /\ UNCHANGED <<phase, request, ingress, wanted, dirty, room, mode, serverMode,
                       subscribed, adrift, live, gone, declared>>
    BY <1>7 DEF ServeCapabilities
  <2>3. \A m \in ToSet(wire') : m.kind = "ack" => m \in ToSet(wire)
    BY <2>1
  <2>4. ToSet(toServer') \subseteq ToSet(toServer)
    BY <1>0, <2>2, OnRead DEF Queues
  <2> QED
    BY <1>3, <2>2, <2>3, <2>4
<1>8. ASSUME NEW s \in Streams, Publish(s) PROVE Reconciled'
  <2>1. \A m \in ToSet(wire') : m.kind = "ack" => m \in ToSet(wire)
    BY <1>8, PublishServed DEF Heard
  <2>2. /\ s \notin live \cup gone /\ live' = live \cup {s} /\ UNCHANGED <<gone, declared>>
        /\ UNCHANGED <<phase, request, ingress, wanted, dirty, room, mode, serverMode,
                       subscribed, adrift, toServer>>
    BY <1>8 DEF Publish
  <2> QED
    BY <1>3, <2>1, <2>2
<1>9. ASSUME NEW s \in Streams, NEW kind \in {"removed", "left"}, Withdraw(s, kind)
      PROVE  Reconciled'
  <2>1. \A m \in ToSet(wire') : m.kind = "ack" => m \in ToSet(wire)
    BY <1>9, WithdrawServed
  <2>2. /\ s \in live /\ live' = live \ {s} /\ gone' = gone \cup {s} /\ declared' = declared \ {s}
        /\ UNCHANGED <<phase, request, ingress, wanted, dirty, room, mode, serverMode,
                       subscribed, adrift, toServer>>
    BY <1>9 DEF Withdraw
  <2> QED
    BY <1>3, <2>1, <2>2
<1>10. CASE Expire
  BY <1>3, <1>10 DEF Expire
<1>11. ASSUME NEW choice \in RouteChoices, HostRoutes(choice) PROVE Reconciled'
  BY <1>11 DEF HostRoutes, Reconciled
<1>12. ASSUME NEW j \in Jams, JoinJam(j) PROVE Reconciled'
  BY <1>2, <1>12 DEF JoinJam, Dial
<1>13. ASSUME NEW j \in Jams, SwitchJam(j) PROVE Reconciled'
  BY <1>2, <1>13 DEF SwitchJam
<1>14. CASE Redial
  BY <1>2, <1>14 DEF Redial, Dial
<1>15. CASE Drop \/ LoseJam \/ Leave \/ Shutdown \/ JoinRejected
  BY <1>2, <1>15 DEF Drop, LoseJam, Leave, Shutdown, JoinRejected
<1>16. CASE JoinAnswered \/ SilenceAnswered
  BY <1>2, <1>16 DEF JoinAnswered, SilenceAnswered, FirstRequest
\* A reconcile that starts out with a true belief.
<1>17. ASSUME NEW from \in {"capabilities", "turn"}, NEW waiting \in {"first", "reconcile"},
              Reconcile(from, waiting), request = NoRequest,
              UNCHANGED <<ingress, wanted, room, live, mode, declared, serverMode, subscribed,
                          adrift>>,
              ~adrift => /\ Belief(serverMode, subscribed) /\ toServer = <<>>
                         /\ NoReply(wire')
       PROVE  Reconciled'
  <2> SUFFICES ASSUME ~adrift PROVE Reconciled'
    BY <1>17 DEF Reconciled
  <2>1. /\ dirty' = FALSE
        /\ \/ FirstNeeded = {} /\ phase' \in {"media", "turn"}
           \/ /\ phase' = waiting
              /\ \E a \in FirstNeeded : ToSet(toServer') = {a}
    BY <1>17, ReconcileSends
  <2>2. (FirstNeeded = {} => Aim) /\ \A a \in FirstNeeded : Promised(a)
    BY <1>0, <1>17, NeededIsMissing
  <2>3. Want' = Want
    BY <1>17 DEF Want
  <2>4. FirstNeeded = {} => Aim'
    BY <1>17, <2>2, <2>3 DEF Aim, Offered
  <2>5. \A a \in FirstNeeded : Promised(a)'
    BY <1>17, <2>2, <2>3 DEF Promised
  <2>6. \A m \in ToSet(wire') : m.kind # "ack"
    BY <1>17 DEF NoReply, Replies
  <2> QED
    BY <2>1, <2>4, <2>5, <2>6 DEF Reconciled
<1>18. CASE CapabilitiesAnswered
  <2>1. PICK reply : Receive(reply)
    BY <1>18 DEF CapabilitiesAnswered
  <2>2. /\ phase = "capabilities" /\ Reconcile("capabilities", "first")
        /\ UNCHANGED <<ingress, wanted, room, live, mode, declared, serverMode, subscribed,
                       adrift>>
    BY <1>18 DEF CapabilitiesAnswered
  <2>3. Online /\ ~Awaiting /\ request = NoRequest
    BY <2>2 DEF Online, Off, Lockstep, Awaiting
  <2>4. ~adrift => toServer = <<>> /\ NoReply(wire') /\ Belief(serverMode, subscribed)
    BY <2>1, <2>3, Answered DEF Believed, Certain
  <2> QED
    BY <1>17, <2>2, <2>3, <2>4
<1>19. CASE StartReconcile
  <2>1. /\ phase \in {"command", "turn"} /\ Reconcile("turn", "reconcile")
        /\ UNCHANGED <<ingress, wanted, room, live, mode, declared, serverMode, subscribed,
                       adrift, wire>>
    BY <1>19 DEF StartReconcile
  <2>2. Online /\ ~Awaiting /\ Expected = NoRequest /\ request = NoRequest
    BY <2>1 DEF Online, Off, Lockstep, Awaiting, Expected
  <2>3. ~adrift => toServer = <<>> /\ NoReply(wire') /\ Belief(serverMode, subscribed)
    BY <2>1, <2>2 DEF Believed, Lockstep, InTurn, NoReply, Certain
  <2> QED
    BY <1>17, <2>1, <2>2, <2>3
<1>20. CASE IngressAnswered
  <2>1. PICK reply : /\ reply.kind = "ack" /\ Receive(reply)
                     /\ IF request \in {"silence", "drop"}
                          THEN ApplyUnsubscribed(reply)
                          ELSE ApplySubscribed(reply)
    BY <1>20 DEF IngressAnswered
  <2> DEFINE more == IF request = "drop" THEN TakeNext(serverMode', subscribed') ELSE {}
  <2>2. /\ phase \in {"first", "reconcile"}
        /\ UNCHANGED <<ingress, wanted, room, live, mode, declared, dirty, adrift>>
        /\ \/ more = {} /\ phase' = AfterReconcile(phase)
           \/ \E a \in more : Send(a) /\ UNCHANGED phase
    BY <1>20 DEF IngressAnswered
  <2>3. Online /\ AfterReconcile(phase) \in {"media", "turn"} /\ Want' = Want
        /\ request \in Reconciling
    BY <2>2 DEF Online, Off, AfterReconcile, Want, Lockstep
  <2> SUFFICES ASSUME ~adrift PROVE Reconciled'
    BY <2>2 DEF Reconciled
  <2>4. reply \in ToSet(wire) /\ NoReply(wire') /\ toServer = <<>>
    BY <2>1, <2>3, Answered DEF Certain
  <2>5. Granted(reply) /\ Restores(reply) /\ ~dirty
    BY <2>1, <2>2, <2>3, <2>4 DEF Reconciled, Believed, Certain
  <2>6. mode = reply.mode /\ reply.held \cap Offered = declared
    BY <1>0, <2>5 DEF Restores, Belief, Offered
  <2>7. serverMode' = reply.mode /\ subscribed' = reply.held
    BY <2>1, <2>5 DEF Restores, ApplyUnsubscribed, ApplySubscribed
  <2>8. request = "drop" => more = IF Want \ reply.held = {} THEN {}
                                   ELSE {Ask("take", Want \ reply.held)}
    BY <2>5, <2>7 DEF TakeNext, Granted
  <2> HIDE DEF more
  <2>9. CASE more = {} /\ phase' = AfterReconcile(phase)
    <3>1. Aim
      <4>1. CASE request = "all"
        BY <2>5, <2>6, <4>1 DEF Aim, Granted
      <4>2. CASE request = "silence"
        BY <2>5, <2>6, <4>2 DEF Aim, Granted
      <4>3. CASE request = "drop"
        <5>1. Want \subseteq reply.held
          BY <2>8, <2>9, <4>3
        <5> QED
          BY <2>5, <2>6, <4>3, <5>1 DEF Aim, Granted
      <4>4. CASE request = "take"
        BY <2>5, <2>6, <4>4 DEF Aim, Granted
      <4> QED
        BY <2>3, <4>1, <4>2, <4>3, <4>4 DEF Reconciling
    <3>2. Aim'
      BY <2>2, <2>3, <3>1 DEF Aim, Offered
    <3> QED
      BY <2>3, <2>9, <3>2 DEF Reconciled
  <2>10. CASE \E a \in more : Send(a) /\ UNCHANGED phase
    <3>1. PICK a \in more : Send(a) /\ UNCHANGED phase
      BY <2>10
    <3>2. request = "drop"
      BY <3>1 DEF more
    <3>3. a = Ask("take", Want \ reply.held)
      BY <2>8, <3>1, <3>2
    <3>4. a.kind = "take" /\ a.ids = Want \ reply.held
      BY <3>3 DEF Ask
    <3>5. Promised(a)'
      BY <2>2, <2>3, <2>5, <2>7, <3>2, <3>4 DEF Promised, Granted
    <3>6. ToSet(toServer') = {a}
      BY <2>4, <3>1, FirstSent DEF Send
    <3>7. \A m \in ToSet(wire') : m.kind # "ack"
      BY <2>4 DEF NoReply, Replies
    <3> QED
      BY <2>2, <2>5, <3>1, <3>5, <3>6, <3>7 DEF Reconciled
  <2> QED
    BY <2>2, <2>9, <2>10 DEF more
<1>21. CASE GiveUp
  BY <1>21 DEF GiveUp, Reconciled
<1>22. CASE OpenMedia \/ PollNothing
  BY <1>22 DEF OpenMedia, PollNothing, Reconciled, Aim, Want, Offered
<1>23. CASE PollEvent
  <2>1. PICK m \in Messages : Apply(m) /\ Arriving = {m} \cup Arriving'
    BY <1>0, <1>23, NextHeard DEF RoomFollows
  <2>2. /\ phase \in {"command", "turn"} /\ phase' = "command" /\ ~dirty
        /\ UNCHANGED <<ingress, wanted, live, gone, mode, declared, adrift>>
    BY <1>23 DEF PollEvent
  <2>3. Online
    BY <2>2 DEF Online, Off
  <2>4. m.kind \in {"removed", "left"} => m.stream \notin live
    <3>1. /\ m.kind = "removed" => m = Event("removed", m.stream) /\ m.stream \in Streams
          /\ m.kind = "left" => m = Event("left", m.stream) /\ m.stream \in Streams
      BY DEF Messages, Event
    <3> QED
      BY <2>1, <2>3, <3>1 DEF RoomFollows, Roster
  <2>5. ~dirty' => Want' \cap live = Want \cap live
    <3>1. CASE m.kind = "added"
      BY <2>1, <2>2, <3>1 DEF Apply, Attaches, Want
    <3>2. CASE m.kind \in {"removed", "left"}
      <4>1. room' = room \ {m.stream}
        BY <2>1, <3>2 DEF Apply
      <4> QED
        BY <2>2, <2>4, <3>2, <4>1 DEF Want
    <3>3. CASE m.kind \notin {"added", "removed", "left"}
      <4>1. UNCHANGED room
        BY <2>1, <3>3 DEF Apply
      <4> QED
        BY <2>2, <4>1 DEF Want
    <3> QED
      BY <3>1, <3>2, <3>3
  <2>6. ~adrift /\ ~dirty' => Aim'
    BY <2>2, <2>5 DEF Reconciled, Aim, Offered
  <2> QED
    BY <2>2, <2>6 DEF Reconciled
<1> QED
  BY <1>4, <1>5, <1>6, <1>7, <1>8, <1>9, <1>10, <1>11, <1>12, <1>13, <1>14, <1>15, <1>16,
     <1>18, <1>19, <1>20, <1>21, <1>22, <1>23 DEF SessionNext

-----------------------------------------------------------------------------
(* What is served can be decoded.                                          *)

\* The server knows what this client can decode.
Capable ==
  \/ phase \in {"first", "reconcile", "media", "command", "turn"}
  \/ phase = "capabilities" /\ toServer = <<>>

\* A format is at hand, or on its way.
InFormat(s) == s \in formats \/ Event("format", s) \in Arriving

Decodes == ~adrift /\ Capable => eligible /\ \A s \in Served : InFormat(s)

\* The same after a step.
LEMMA InFormatNext ==
  \A s : InFormat(s)' <=> (s \in formats' \/ Event("format", s) \in Arriving')
BY DEF InFormat, Event

\* At first nobody is capable.
LEMMA DecodesInit == SessionInit => Decodes
BY DEF SessionInit, Decodes, Capable

\* Every step keeps what is served decodable.
LEMMA DecodesStep ==
  ASSUME SessionTypes, Links, RoomFollows, Lockstep, Believed, Decodes, [SessionNext]_sessionVars
  PROVE  Decodes'
<1> USE DEF workerVars, beliefVars, roomVars, linkVars, serverVars, historyVars
<1>0. /\ Queues /\ declared \subseteq Offered /\ mode \in {"auto", "explicit"}
      /\ pending \in Seq(Messages) /\ wire \in Seq(Messages)
  BY TypesSplit DEF RoomFollows, Queues, StateTypes
<1>1. Served \subseteq live
  BY <1>0 DEF Served, Offered
<1>2. ASSUME ~Capable' PROVE Decodes'
  BY <1>2 DEF Decodes
<1>3. ASSUME Capable' => Capable, adrift => adrift', UNCHANGED eligible,
             Served' \subseteq Served, UNCHANGED formats, Arriving \subseteq Arriving'
      PROVE  Decodes'
  BY <1>3 DEF Decodes, InFormat
<1>4. CASE UNCHANGED sessionVars
  BY <1>4 DEF sessionVars, Decodes, Capable, InFormat, Served, Arriving, Offered
<1>5. CASE ServeJoin
  <2>1. toServer # <<>> /\ Request.kind \in Joining /\ Request \in ToSet(toServer)
    BY <1>0, <1>5, RequestRead DEF ServeJoin, Joining
  <2>2. phase = "join" /\ UNCHANGED phase
    BY <1>5, <2>1 DEF Links, Unlinked, Linked, ServeJoin
  <2> QED
    BY <1>2, <2>2 DEF Capable
<1>6. CASE ServeIngress
  <2>1. PICK ack \in Messages, tail \in Seq(Messages) :
          /\ ToSet(wire') = ToSet(wire) \cup {ack} \cup ToSet(tail)
          /\ Request.kind \in Reconciling
          /\ eligible => \A s \in Served' \ Served : Event("format", s) \in ToSet(tail)
    BY <1>0, <1>6, IngressSends
  <2>2. /\ Online /\ toServer # <<>> /\ toServer' = Tail(toServer)
        /\ UNCHANGED <<phase, request, pending, formats, eligible, adrift>>
    BY <1>6, AskedOnline DEF ServeIngress
  <2> SUFFICES ASSUME ~adrift, Capable' PROVE Decodes'
    BY <2>2 DEF Decodes
  <2>3. Request.kind = Expected
    BY <2>2, UnderWay DEF Certain
  <2>4. Capable
    BY <2>1, <2>2, <2>3 DEF Capable, Expected, Reconciling
  <2>5. eligible /\ \A s \in Served : InFormat(s)
    BY <2>4 DEF Decodes
  <2>6. \A s \in Served' : InFormat(s)'
    BY <2>1, <2>2, <2>5, InFormatNext DEF InFormat, Arriving
  <2> QED
    BY <2>2, <2>5, <2>6 DEF Decodes
<1>7. CASE ServeCapabilities
  <2>1. PICK answer \in Messages :
          /\ Formats(Served) \in Seq(Messages)
          /\ ToSet(wire') = ToSet(wire) \cup {answer} \cup ToSet(Formats(Served))
          /\ \A s \in Served : Event("format", s) \in ToSet(Formats(Served))
    BY <1>0, <1>7, CapabilitiesSends
  <2>2. eligible' = TRUE /\ UNCHANGED <<live, mode, declared>>
    BY <1>7 DEF ServeCapabilities
  <2>3. Served' = Served
    BY <2>2 DEF Served, Offered
  <2>4. \A s \in Served : Event("format", s) \in Arriving'
    BY <2>1 DEF Arriving
  <2>5. \A s \in Served : InFormat(s)'
    BY <2>4, InFormatNext
  <2> QED
    BY <2>2, <2>3, <2>5 DEF Decodes
<1>8. ASSUME NEW s \in Streams, Publish(s) PROVE Decodes'
  <2>1. /\ live' = live \cup {s}
        /\ UNCHANGED <<phase, toServer, pending, formats, mode, declared, eligible, attached,
                       adrift>>
    BY <1>8 DEF Publish
  <2> SUFFICES ASSUME Capable, ~adrift PROVE Decodes'
    BY <2>1 DEF Decodes, Capable
  <2>2. attached /\ eligible /\ \A u \in Served : InFormat(u)
    BY DEF Capable, Decodes, Links, Linked, Off
  <2>3. PICK more \in Seq(Messages) :
          /\ wire' = wire \o (<<Event("added", s)>> \o more)
          /\ mode = "auto" /\ eligible /\ s \in Decodable => Event("format", s) \in ToSet(more)
    BY <1>8, <2>2, PublishSends
  <2>4. ToSet(wire) \cup ToSet(more) \subseteq ToSet(wire')
    <3> DEFINE new == <<Event("added", s)>>
               r == new \o more
    <3>1. new \in Seq(Messages)
      BY OrderedShort DEF Event, Messages
    <3>2. wire' = wire \o r
      BY <2>3
    <3> HIDE DEF new
    <3>3. r \in Seq(Messages) /\ ToSet(r) = ToSet(new) \cup ToSet(more)
      BY <3>1, MessagesJoined
    <3> HIDE DEF r
    <3>4. ToSet(wire') = ToSet(wire) \cup ToSet(r)
      BY <1>0, <3>2, <3>3, MessagesJoined
    <3> QED
      BY <3>3, <3>4
  <2>5. \A u \in Served' : u \in Served \/ (u = s /\ mode = "auto" /\ s \in Decodable)
    BY <2>1 DEF Served, Offered
  <2>6. \A u \in Served' : InFormat(u)'
    BY <2>1, <2>2, <2>3, <2>4, <2>5, InFormatNext DEF InFormat, Arriving
  <2> QED
    BY <2>1, <2>2, <2>6 DEF Decodes
<1>9. ASSUME NEW s \in Streams, NEW kind \in {"removed", "left"}, Withdraw(s, kind)
      PROVE  Decodes'
  <2>1. /\ live' \subseteq live /\ declared' \subseteq declared
        /\ UNCHANGED <<phase, toServer, pending, formats, mode, eligible, adrift>>
    BY <1>9 DEF Withdraw
  <2>2. ToSet(wire) \subseteq ToSet(wire')
    <3> DEFINE r == <<Event(kind, s)>>
    <3>1. r \in Seq(Messages)
      BY OrderedShort DEF Event, Messages
    <3>2. (wire' = wire \o r) \/ UNCHANGED wire
      BY <1>9, WithdrawSends
    <3> HIDE DEF r
    <3>3. wire' = wire \o r => ToSet(wire') = ToSet(wire) \cup ToSet(r)
      BY <1>0, <3>1, MessagesJoined
    <3> QED
      BY <3>2, <3>3
  <2>3. Served' \subseteq Served /\ Arriving \subseteq Arriving' /\ Capable' = Capable
    BY <2>1, <2>2 DEF Served, Arriving, Capable, Offered
  <2> QED
    BY <1>3, <2>1, <2>3
<1>10. CASE Expire
  <2>1. phase \in Off \cup {"join"} /\ UNCHANGED phase
    BY <1>10 DEF Expire, Links, Linked
  <2> QED
    BY <1>2, <2>1 DEF Capable, Off
<1>11. ASSUME NEW choice \in RouteChoices, HostRoutes(choice) PROVE Decodes'
  <2>1. /\ phase \in {"idle", "backoff", "command"}
        /\ phase' = (IF phase = "command" THEN "turn" ELSE phase)
        /\ UNCHANGED <<toServer, formats, pending, wire, live, mode, declared, eligible,
                       adrift>>
    BY <1>11 DEF HostRoutes
  <2>2. Served' = Served /\ Arriving' = Arriving /\ (Capable' => Capable)
    BY <2>1 DEF Served, Arriving, Capable, Offered
  <2> QED
    BY <1>3, <2>1, <2>2
<1>12. ASSUME NEW j \in Jams, JoinJam(j) PROVE Decodes'
  BY <1>2, <1>12 DEF JoinJam, Dial, Capable
<1>13. ASSUME NEW j \in Jams, SwitchJam(j) PROVE Decodes'
  BY <1>2, <1>13 DEF SwitchJam, Capable
<1>14. CASE Redial
  BY <1>2, <1>14 DEF Redial, Dial, Capable
<1>15. CASE Drop \/ LoseJam \/ Leave \/ Shutdown \/ JoinRejected
  BY <1>2, <1>15 DEF Drop, LoseJam, Leave, Shutdown, JoinRejected, Capable
<1>16. CASE JoinAnswered \/ SilenceAnswered
  <2>1. phase' \in {"silence", "capabilities"} /\ \E a : toServer' = Append(toServer, a)
    BY <1>16 DEF JoinAnswered, SilenceAnswered, FirstRequest
  <2>2. toServer' # <<>>
    BY <1>0, <2>1 DEF Queues
  <2> QED
    BY <1>2, <2>1, <2>2 DEF Capable
<1>17. CASE CapabilitiesAnswered
  <2>1. PICK reply : reply.kind = "capabilities" /\ Receive(reply)
    BY <1>17 DEF CapabilitiesAnswered
  <2>2. phase = "capabilities" /\ UNCHANGED <<formats, live, mode, declared, eligible, adrift>>
    BY <1>17 DEF CapabilitiesAnswered
  <2> SUFFICES ASSUME ~adrift PROVE Decodes'
    BY <2>2 DEF Decodes
  <2>3. toServer = <<>>
    BY <2>1, <2>2, Answered DEF Online, Off, Certain
  <2>4. eligible /\ \A s \in Served : InFormat(s)
    BY <2>2, <2>3 DEF Decodes, Capable
  <2>5. Arriving = {reply} \cup Arriving'
    BY <1>0, <2>1, Received
  <2>6. Served' = Served
    BY <2>2 DEF Served, Offered
  <2>7. \A s : Event("format", s) # reply /\ Event("format", s)' = Event("format", s)
    BY <2>1 DEF Event
  <2>8. \A s \in Served' : InFormat(s)'
    BY <2>2, <2>4, <2>5, <2>6, <2>7 DEF InFormat
  <2> QED
    BY <2>2, <2>4, <2>8 DEF Decodes
<1>18. CASE StartReconcile
  <2>1. /\ phase \in {"command", "turn"}
        /\ UNCHANGED <<formats, pending, wire, live, mode, declared, eligible, adrift>>
    BY <1>18 DEF StartReconcile
  <2>2. Served' = Served /\ Arriving' = Arriving /\ Capable
    BY <2>1 DEF Served, Arriving, Capable, Offered
  <2> QED
    BY <1>3, <2>1, <2>2
<1>19. CASE IngressAnswered
  <2>1. PICK reply : /\ reply.kind = "ack" /\ Receive(reply)
                     /\ IF request \in {"silence", "drop"}
                          THEN ApplyUnsubscribed(reply)
                          ELSE ApplySubscribed(reply)
    BY <1>19 DEF IngressAnswered
  <2>2. /\ phase \in {"first", "reconcile"}
        /\ UNCHANGED <<live, mode, declared, eligible, adrift>>
    BY <1>19 DEF IngressAnswered
  <2> SUFFICES ASSUME ~adrift PROVE Decodes'
    BY <2>2 DEF Decodes
  <2>3. Online /\ Served' = Served /\ Capable
    BY <2>2 DEF Online, Off, Served, Capable, Offered
  <2>4. reply \in ToSet(wire) /\ Arriving = {reply} \cup Arriving'
    BY <1>0, <2>1, <2>3, Answered, Received DEF Certain
  <2>5. Restores(reply)
    BY <2>3, <2>4, <2>1 DEF Believed, Certain
  <2>6. eligible /\ \A s \in Served : InFormat(s)
    BY <2>3 DEF Decodes
  <2>7. Expected = request
    BY <2>2 DEF Expected
  <2>8. mode = "explicit" => Served \subseteq reply.held
    BY <2>5 DEF Served, Restores, Belief
  <2>9. formats \cap Served \subseteq formats'
    <3>1. CASE request \in {"silence", "drop"}
      <4>1. mode = "explicit" /\ reply.dropped \cap reply.held = {}
        BY <2>5, <2>7, <3>1 DEF Restores, Belief
      <4>2. formats' = formats \ (reply.dropped \cup (subscribed \ reply.held))
        BY <2>1, <3>1 DEF ApplyUnsubscribed, Retire
      <4> QED
        BY <2>8, <4>1, <4>2
    <3>2. CASE request \notin {"silence", "drop"} /\ reply.mode = "auto"
      BY <2>1, <3>2 DEF ApplySubscribed
    <3>3. CASE request \notin {"silence", "drop"} /\ reply.mode # "auto"
      <4>1. formats' = formats \ (subscribed \ reply.held)
        BY <2>1, <3>3 DEF ApplySubscribed, Retire
      <4>2. mode = "explicit"
        BY <1>0, <2>5, <3>3 DEF Restores, Belief
      <4> QED
        BY <2>8, <4>1, <4>2
    <3> QED
      BY <3>1, <3>2, <3>3
  <2>10. \A s : Event("format", s) # reply /\ Event("format", s)' = Event("format", s)
    BY <2>1 DEF Event
  <2>11. \A s \in Served' : InFormat(s)'
    BY <2>3, <2>4, <2>6, <2>9, <2>10 DEF InFormat
  <2> QED
    BY <2>2, <2>6, <2>11 DEF Decodes
<1>20. CASE GiveUp
  BY <1>20 DEF GiveUp, Decodes
<1>21. CASE OpenMedia \/ PollNothing
  <2>1. /\ phase \in {"media", "turn"} /\ phase' = "command"
        /\ UNCHANGED <<formats, pending, wire, live, mode, declared, eligible, adrift>>
    BY <1>21 DEF OpenMedia, PollNothing
  <2>2. Served' = Served /\ Arriving' = Arriving /\ Capable
    BY <2>1 DEF Served, Arriving, Capable, Offered
  <2> QED
    BY <1>3, <2>1, <2>2
<1>22. CASE PollEvent
  <2>1. PICK m \in Messages :
          /\ Apply(m) /\ Arriving = {m} \cup Arriving'
          /\ \A n \in Arriving' :
               n.kind = "added" /\ m.kind \in EventKinds => n.stream # m.stream
    BY <1>0, <1>22, NextHeard DEF RoomFollows
  <2>2. /\ phase \in {"command", "turn"}
        /\ UNCHANGED <<live, gone, mode, declared, eligible, adrift>>
    BY <1>22 DEF PollEvent
  <2> SUFFICES ASSUME ~adrift PROVE Decodes'
    BY <2>2 DEF Decodes
  <2>3. Online /\ Served' = Served /\ Capable
    BY <2>2 DEF Online, Off, Served, Capable, Offered
  <2>4. eligible /\ \A s \in Served : InFormat(s)
    BY <2>3 DEF Decodes
  <2>5. Roster(room, Arriving, live, gone)
    BY <2>3 DEF RoomFollows
  <2>6. m.kind \in {"removed", "left"} => m.stream \notin live
    <3>1. /\ m.kind = "removed" => m = Event("removed", m.stream) /\ m.stream \in Streams
          /\ m.kind = "left" => m = Event("left", m.stream) /\ m.stream \in Streams
      BY DEF Messages, Event
    <3> QED
      BY <2>1, <2>5, <3>1 DEF Roster
  <2>7. formats \cap live \subseteq formats'
    <3>1. CASE m.kind \in {"removed", "left"}
      <4>1. formats' = formats \ {m.stream}
        BY <2>1, <3>1 DEF Apply
      <4> QED
        BY <2>6, <3>1, <4>1
    <3>2. CASE m.kind \notin {"removed", "left"}
      BY <2>1, <3>2 DEF Apply
    <3> QED
      BY <3>1, <3>2
  <2>8. ASSUME NEW s \in Served, Event("format", s) = m PROVE s \in formats'
    <3>1. m.kind = "format" /\ m.stream = s /\ s \in live /\ s \in Streams
      BY <1>1, <2>8, Shapes DEF Event
    <3>2. s \in room \/ Event("added", s) \in Arriving
      BY <2>5, <3>1 DEF Roster
    <3>3. Event("added", s) \notin Arriving
      <4>1. Event("added", s).kind = "added" /\ Event("added", s).stream = s
        BY DEF Event
      <4> QED
        BY <2>1, <3>1, <4>1 DEF EventKinds
    <3> QED
      BY <2>1, <3>1, <3>2, <3>3 DEF Apply
  <2>9. \A s \in Served' : InFormat(s)'
    <3> SUFFICES ASSUME NEW s \in Served PROVE s \in formats' \/ Event("format", s) \in Arriving'
      BY <2>3, InFormatNext
    <3>1. s \in formats \/ Event("format", s) \in Arriving
      BY <2>4 DEF InFormat
    <3> QED
      BY <1>1, <2>1, <2>7, <2>8, <3>1
  <2> QED
    BY <2>2, <2>4, <2>9 DEF Decodes
<1> QED
  BY <1>4, <1>5, <1>6, <1>7, <1>8, <1>9, <1>10, <1>11, <1>12, <1>13, <1>14, <1>15, <1>16,
     <1>17, <1>18, <1>19, <1>20, <1>21, <1>22 DEF SessionNext

-----------------------------------------------------------------------------
(* What is not served is not decoded, but for what was left behind.        *)

\* Something is served, was left behind, or its loss is about to be read.
Excused(s) ==
  \/ s \in Served \cup kept
  \/ \E m \in ToSet(wire) : m.kind = "ack" /\ s \in m.dropped

\* An answer that takes streams away is one the worker reads so.
Thorough(m) ==
  m.dropped # {} =>
    /\ m.mode = "explicit"
    /\ Expected \in {"silence", "drop"} \/ (Expected = "take" /\ serverMode = "auto")

Spared ==
  /\ phase = "silence" => formats = {}
  /\ phase = "join" =>
       \A m \in ToSet(wire) :
         m.kind = "format" => attached /\ (m.stream \in Served \/ m.stream \notin live)
  /\ Certain /\ Online =>
       /\ \A s \in live : InFormat(s) => Excused(s)
       /\ \A m \in ToSet(wire) : m.kind = "ack" => Thorough(m)

\* At first nothing is decoded.
LEMMA SparedInit == SessionInit => Spared
BY DEF SessionInit, Spared, Online, Off

\* A format that is coming is a message that is coming.
LEMMA ComingFormat ==
  ASSUME SessionTypes, Queues', NEW s
  PROVE  /\ Event("format", s).kind = "format" /\ Event("format", s).stream = s
         /\ \A m \in Arriving \cup Arriving' : m.kind = "format" => m = Event("format", m.stream)
<1>1. \A m \in Arriving \cup Arriving' : m \in Messages
  BY Elements DEF Arriving, SessionTypes, Queues
<1>2. \A m \in Messages : m.kind = "format" => m = Event("format", m.stream)
  BY DEF Messages, Event
<1> QED
  BY <1>1, <1>2 DEF Event

\* What the answer to a request leaves decoded is served, or was left behind.
LEMMA AnswerSpares ==
  ASSUME SessionTypes, Queues', Lockstep, Spared, Certain, Online, NEW reply,
         reply.kind = "ack", Receive(reply), Belief(reply.mode, reply.held),
         kept' = KeptAfter(reply), UNCHANGED <<live, mode, declared>>,
         formats' \subseteq formats,
         reply.mode = "explicit" => \A s \in formats' \cap reply.dropped : s \in kept' \cup reply.held
  PROVE  \A s \in live : InFormat(s)' => s \in Served' \cup kept'
<1>1. /\ Arriving = {reply} \cup Arriving' /\ reply \in ToSet(wire)
      /\ \A m \in ToSet(wire) : m.kind = "ack" => m = reply
  <2>1. /\ Queues /\ Arriving = {reply} \cup Arriving' /\ reply \in ToSet(wire)
    BY TypesSplit, Received
  <2>2. NoReply(wire') /\ NoReply(pending')
    BY Answered
  <2> QED
    BY <2>1, <2>2 DEF Arriving, NoReply, Replies
<1>2. Served' = Served /\ kept \subseteq kept'
  BY DEF Served, Offered, KeptAfter
<1>3. \A s : Event("format", s) # reply
  BY DEF Event
<1> SUFFICES ASSUME NEW s \in live, InFormat(s)' PROVE s \in Served \cup kept'
  BY <1>2
<1>4. s \in formats' \/ Event("format", s) \in Arriving'
  BY InFormatNext
<1>5. InFormat(s)
  BY <1>1, <1>4 DEF InFormat
<1>6. s \in Served \cup kept \/ s \in reply.dropped
  BY <1>1, <1>5 DEF Spared, Excused
<1>7. CASE reply.mode = "auto"
  <2>1. s \notin reply.dropped
    BY <1>1, <1>7 DEF Spared, Thorough
  <2> QED
    BY <1>2, <1>6, <2>1
<1>8. CASE reply.mode # "auto"
  <2>1. reply.mode = "explicit" /\ reply.held \cap live = declared /\ Served = declared
    BY <1>8 DEF Belief, Served, SessionTypes, SessionTypeOK
  <2>2. s \in reply.held => s \in Served
    BY <2>1
  <2>3. CASE Event("format", s) \in Arriving'
    <3>1. s \in {m.stream : m \in {n \in Arriving' : n.kind = "format"}}
      BY <2>3, ComingFormat
    <3>2. s \in kept' \cup reply.held
      BY <1>8, <3>1 DEF KeptAfter, Arriving
    <3> QED
      BY <2>2, <3>2
  <2>4. CASE s \in formats'
    BY <1>2, <1>6, <2>1, <2>2, <2>4
  <2> QED
    BY <1>4, <2>3, <2>4
<1> QED
  BY <1>7, <1>8

\* Every step keeps what is decoded excused.
LEMMA SparedStep ==
  ASSUME SessionTypes, Queues', Links, RoomFollows, Lockstep, Believed, Spared,
         [SessionNext]_sessionVars
  PROVE  Spared'
<1> USE DEF workerVars, beliefVars, roomVars, linkVars, serverVars, historyVars
<1>0. /\ Queues /\ declared \subseteq Offered /\ mode \in {"auto", "explicit"}
      /\ pending \in Seq(Messages) /\ wire \in Seq(Messages)
  BY TypesSplit DEF RoomFollows, Queues, StateTypes
<1>1. Served \subseteq Offered
  BY <1>0 DEF Served
<1>2. ASSUME ~Online', phase' # "join" PROVE Spared'
  BY <1>2 DEF Spared, Online, Off
\* What is decoded or announced is or was of the room.
<1>3. /\ Online => \A s : InFormat(s) => s \in live \cup gone
      /\ phase = "join" => \A m \in ToSet(wire) : m.kind = "format" => m.stream \in live \cup gone
  <2>1. ASSUME Online, NEW s, InFormat(s) PROVE s \in live \cup gone
    <3>1. Roster(room, Arriving, live, gone) /\ formats \subseteq room
      BY <2>1 DEF RoomFollows, SessionTypes, SessionTypeOK
    <3>2. Event("format", s).kind = "format" /\ Event("format", s).stream = s
      BY DEF Event
    <3> QED
      BY <2>1, <3>1, <3>2 DEF InFormat, Roster, EventKinds
  <2>2. ASSUME phase = "join", NEW m \in ToSet(wire), m.kind = "format"
        PROVE  m.stream \in live \cup gone
    <3>1. attached
      BY <2>2 DEF Spared
    <3>2. PICK n \in ToSet(wire) : n.kind = "joined"
      BY <2>2, <3>1 DEF RoomFollows
    <3>3. Roster(n.streams, ToSet(wire), live, gone)
      BY <2>2, <3>2 DEF RoomFollows
    <3> QED
      BY <2>2, <3>3 DEF Roster, EventKinds
  <2> QED
    BY <2>1, <2>2
\* A step of the server that answers no request for streams.
<1>4. ASSUME UNCHANGED <<phase, request, serverMode, adrift, kept, formats, pending, attached>>,
             \A s \in live' : s \in Served => s \in Served',
             \A s \in live' : s \in live \/ s \notin live \cup gone,
             ToSet(wire) \subseteq ToSet(wire'),
             \A m \in ToSet(wire') :
               \/ m \in ToSet(wire) \/ m.kind \notin {"format", "ack"}
               \/ m.kind = "format" /\ attached /\ m.stream \in Served'
      PROVE  Spared'
  <2>1. phase = "join" =>
          \A m \in ToSet(wire') :
            m.kind = "format" => attached /\ (m.stream \in Served' \/ m.stream \notin live')
    BY <1>3, <1>4 DEF Spared
  <2>2. ASSUME Certain, Online, NEW s \in live', InFormat(s)' PROVE Excused(s)'
    <3>1. InFormat(s) \/ s \in Served'
      <4>1. s \in formats \/ Event("format", s) \in Arriving'
        BY <1>4, <2>2, InFormatNext
      <4>2. Event("format", s) \in Arriving' => Event("format", s) \in Arriving \/ s \in Served'
        BY <1>4, ComingFormat DEF Arriving
      <4> QED
        BY <4>1, <4>2 DEF InFormat
    <3>2. InFormat(s) => s \in live
      BY <1>3, <1>4, <2>2
    <3>3. InFormat(s) => Excused(s)
      BY <2>2, <3>2 DEF Spared
    <3> QED
      BY <1>4, <2>2, <3>1, <3>3 DEF Excused
  <2>3. ASSUME Certain, Online, NEW m \in ToSet(wire'), m.kind = "ack" PROVE Thorough(m)'
    <3>1. m \in ToSet(wire)
      BY <1>4, <2>3
    <3>2. Thorough(m)
      BY <2>3, <3>1 DEF Spared
    <3> QED
      BY <1>4, <3>2 DEF Thorough, Expected
  <2> QED
    BY <1>4, <2>1, <2>2, <2>3 DEF Spared, Certain, Online
<1>5. CASE UNCHANGED sessionVars
  BY <1>4, <1>5 DEF sessionVars, Served, Offered
<1>6. CASE ServeJoin
  <2>1. /\ phase = "join" /\ wire = <<>> /\ UNCHANGED phase
    <3>1. toServer # <<>> /\ Request.kind \in Joining /\ Request \in ToSet(toServer)
      BY <1>0, <1>6, RequestRead DEF ServeJoin, Joining
    <3>2. phase = "join"
      BY <3>1 DEF Links, Unlinked, Linked
    <3> QED
      BY <1>6, <3>1, <3>2 DEF ServeJoin, Links, JoinUnderWay
  <2>2. PICK m \in Messages : wire' = Append(wire, m) /\ m.kind \in {"joined", "rejected"}
    BY <1>6, JoinServed DEF Attended
  <2>3. ToSet(wire') = {m}
    BY <2>1, <2>2, OrderedShort
  <2> QED
    BY <2>1, <2>2, <2>3 DEF Spared, Online
<1>7. CASE ServeIngress
  <2>1. PICK ack \in Messages, tail \in Seq(Messages) :
          /\ ToSet(wire') = ToSet(wire) \cup {ack} \cup ToSet(tail)
          /\ Request.kind \in Reconciling
          /\ ack.kind = "ack" /\ ack.mode = mode' /\ ack.held = declared'
          /\ ack.dropped = Served \ ToServe(Request.kind, declared')
          /\ mode' = (IF Request.kind = "all" THEN "auto" ELSE "explicit")
          /\ declared' = CASE Request.kind \in {"silence", "all"} -> {}
                           [] Request.kind = "drop" -> declared \ Request.ids
                           [] Request.kind = "take" /\ mode = "auto" -> Request.ids \cap Offered
                           [] Request.kind = "take" /\ mode # "auto" ->
                                declared \cup (Request.ids \cap Offered)
          /\ Served' = ToServe(Request.kind, declared')
          /\ \A m \in ToSet(tail) :
               m.kind = "format" /\ m.stream \in Offered /\ m.stream \in Served'
    BY <1>0, <1>7, IngressSends
  <2>2. /\ Online /\ toServer # <<>> /\ toServer' = Tail(toServer)
        /\ UNCHANGED <<phase, request, serverMode, adrift, kept, formats, pending, live>>
    BY <1>7, AskedOnline DEF ServeIngress
  <2> SUFFICES ASSUME Certain PROVE Spared'
    BY <2>2 DEF Spared, Certain, Online
  <2>3. Request.kind = Expected /\ NoReply(wire)
    BY <2>2, UnderWay
  <2>7. \A m \in Arriving' : m.kind = "format" => m \in Arriving \/ m.stream \in Served'
    <3>1. Arriving' = Arriving \cup {ack} \cup ToSet(tail)
      BY <2>1, <2>2 DEF Arriving
    <3> QED
      BY <2>1, <3>1
  <2>4. ASSUME NEW s \in live, InFormat(s)' PROVE Excused(s)'
    <3>1. s \in Served' \/ InFormat(s)
      <4>1. s \in formats \/ Event("format", s) \in Arriving'
        BY <2>2, <2>4, InFormatNext
      <4>2. Event("format", s) \in Arriving' => Event("format", s) \in Arriving \/ s \in Served'
        BY <2>7, ComingFormat
      <4> QED
        BY <4>1, <4>2 DEF InFormat
    <3>2. InFormat(s) => s \in Served \cup kept
      BY <2>2, <2>3 DEF Spared, Excused, NoReply, Replies
    <3>3. s \in Served => s \in Served' \/ s \in ack.dropped
      BY <2>1
    <3> QED
      BY <2>1, <2>2, <3>1, <3>2, <3>3 DEF Excused
  <2>5. Thorough(ack)'
    <3>1. CASE Request.kind \in {"silence", "drop"}
      BY <2>1, <2>2, <2>3, <3>1 DEF Thorough, Expected
    <3>2. CASE Request.kind = "all"
      BY <1>1, <2>1, <3>2 DEF Thorough, ToServe
    <3>3. CASE Request.kind = "take" /\ mode = "auto"
      <4>1. ~adrift
        BY <2>3, <3>3 DEF Certain, Expected
      <4>2. serverMode = "auto"
        BY <2>2, <3>3, <4>1 DEF Believed, Belief
      <4> QED
        BY <2>1, <2>2, <2>3, <3>3, <4>2 DEF Thorough, Expected
    <3>4. CASE Request.kind = "take" /\ mode # "auto"
      <4>1. declared \subseteq declared' /\ Served = declared
        BY <2>1, <3>4 DEF Served
      <4> QED
        BY <2>1, <3>4, <4>1 DEF Thorough, ToServe
    <3> QED
      BY <2>1, <3>1, <3>2, <3>3, <3>4 DEF Reconciling
  <2>6. \A m \in ToSet(wire') : m.kind = "ack" => m = ack
    BY <2>1, <2>3 DEF NoReply, Replies
  <2> QED
    BY <2>2, <2>4, <2>5, <2>6 DEF Spared, Online
<1>8. CASE ServeCapabilities
  <2>1. PICK answer \in Messages :
          /\ answer.kind = "capabilities"
          /\ ToSet(wire') = ToSet(wire) \cup {answer} \cup ToSet(Formats(Served))
          /\ \A m \in ToSet(Formats(Served)) :
               m.kind = "format" /\ m.stream \in Offered /\ m.stream \in Served
    BY <1>0, <1>8, CapabilitiesSends
  <2>2. /\ UNCHANGED <<phase, request, serverMode, adrift, kept, formats, pending, attached,
                       live, mode, declared>>
    BY <1>8 DEF ServeCapabilities
  <2>3. Served' = Served /\ attached
    BY <1>8, <2>2, AskedOnline DEF Served, Offered, Links, Linked, Online
  <2> QED
    BY <1>4, <2>1, <2>2, <2>3
<1>9. CASE Expire
  BY <1>4, <1>9 DEF Expire, Served, Offered
<1>10. ASSUME NEW s \in Streams, Publish(s) PROVE Spared'
  <2>1. /\ s \notin live \cup gone /\ live' = live \cup {s}
        /\ UNCHANGED <<phase, request, serverMode, adrift, kept, formats, pending, attached,
                       mode, declared>>
    BY <1>10 DEF Publish
  <2>2. /\ ToSet(wire) \subseteq ToSet(wire')
        /\ \A m \in ToSet(wire') :
             \/ m \in ToSet(wire) \/ m.kind = "added"
             \/ attached /\ mode = "auto" /\ s \in Decodable /\ m.kind = "format" /\ m.stream = s
    BY <1>10, PublishServed DEF Heard
  <2>3. Served \subseteq Served' /\ (mode = "auto" /\ s \in Decodable => s \in Served')
    BY <2>1 DEF Served, Offered
  <2> QED
    BY <1>4, <2>1, <2>2, <2>3
<1>11. ASSUME NEW s \in Streams, NEW kind \in {"removed", "left"}, Withdraw(s, kind)
       PROVE  Spared'
  <2>1. /\ live' = live \ {s} /\ declared' = declared \ {s}
        /\ UNCHANGED <<phase, request, serverMode, adrift, kept, formats, pending, attached, mode>>
    BY <1>11 DEF Withdraw
  <2>2. /\ ToSet(wire) \subseteq ToSet(wire')
        /\ \A m \in ToSet(wire') : m \in ToSet(wire) \/ m.kind = kind
    BY <1>11, WithdrawServed
  <2>3. \A u \in live' : u \in Served => u \in Served'
    BY <2>1 DEF Served, Offered
  <2> QED
    BY <1>4, <2>1, <2>2, <2>3
<1>12. ASSUME NEW choice \in RouteChoices, HostRoutes(choice) PROVE Spared'
  <2>1. /\ phase \in {"idle", "backoff", "command"}
        /\ phase' = (IF phase = "command" THEN "turn" ELSE phase)
        /\ UNCHANGED <<request, serverMode, adrift, kept, formats, pending, wire, live, mode,
                       declared>>
    BY <1>12 DEF HostRoutes
  <2>2. CASE phase = "command"
    <3>1. Online /\ Online' /\ Expected' = Expected /\ Served' = Served /\ (Certain' => Certain)
      BY <2>1, <2>2 DEF Online, Off, Expected, Served, Offered, Certain
    <3> QED
      BY <2>1, <2>2, <3>1, InFormatNext DEF Spared, InFormat, Excused, Thorough, Arriving
  <2>3. CASE phase # "command"
    BY <1>2, <2>1, <2>3 DEF Online, Off
  <2> QED
    BY <2>2, <2>3
<1>13. ASSUME phase' = "join", UNCHANGED wire, phase \in Off PROVE Spared'
  BY <1>13, OnEmpty DEF Spared, Online, Links, Unlinked
<1>14. ASSUME NEW j \in Jams, JoinJam(j) PROVE Spared'
  BY <1>13, <1>14 DEF JoinJam, Dial, Off
<1>15. ASSUME NEW j \in Jams, SwitchJam(j) PROVE Spared'
  BY <1>2, <1>15 DEF SwitchJam, Online, Off
<1>16. CASE Redial
  BY <1>13, <1>16 DEF Redial, Dial, Off
<1>17. CASE Drop \/ LoseJam \/ Leave \/ Shutdown \/ JoinRejected
  BY <1>2, <1>17 DEF Drop, LoseJam, Leave, Shutdown, JoinRejected, Online, Off
<1>18. CASE JoinAnswered
  <2>1. PICK reply : reply.kind = "joined" /\ Receive(reply)
    BY <1>18 DEF JoinAnswered
  <2>2. /\ phase = "join" /\ phase' \in {"silence", "capabilities"} /\ formats' = {}
        /\ UNCHANGED <<live, mode, declared>>
    BY <1>18 DEF JoinAnswered, FirstRequest, FormatsAfterReset
  <2>3. /\ Arriving = {reply} \cup Arriving' /\ NoReply(wire') /\ Arriving = ToSet(wire)
    <3>1. Arriving = {reply} \cup Arriving' /\ NoReply(wire')
      BY <1>0, <2>1, <2>2, Received DEF Lockstep
    <3> QED
      BY <2>2, <3>1, OnEmpty DEF Links, JoinUnderWay, Arriving
  <2>4. Served' = Served
    BY <2>2 DEF Served, Offered
  <2>5. ASSUME NEW s \in live, InFormat(s)' PROVE s \in Served
    <3>1. Event("format", s) \in ToSet(wire)
      BY <2>2, <2>3, <2>5, InFormatNext
    <3> QED
      BY <2>2, <3>1, ComingFormat DEF Spared
  <2> QED
    BY <2>2, <2>3, <2>4, <2>5 DEF Spared, Excused, NoReply, Replies
<1>19. CASE SilenceAnswered
  <2>1. PICK reply : /\ reply.kind = "ack" /\ Receive(reply) /\ ApplyUnsubscribed(reply)
                     /\ kept' = KeptAfter(reply)
    BY <1>19 DEF SilenceAnswered
  <2>2. /\ phase = "silence" /\ phase' = "capabilities" /\ UNCHANGED <<live, mode, declared>>
    BY <1>19 DEF SilenceAnswered
  <2>3. Online /\ Certain
    BY <2>2 DEF Online, Off, Certain
  <2>4. reply \in ToSet(wire) /\ NoReply(wire')
    BY <2>1, <2>3, Answered
  <2>5. Belief(reply.mode, reply.held)
    BY <2>1, <2>3, <2>4 DEF Believed, Restores
  <2>6. formats' = {}
    BY <2>1, <2>2 DEF Spared, ApplyUnsubscribed, Retire
  <2>7. \A s \in live : InFormat(s)' => s \in Served' \cup kept'
    BY <2>1, <2>2, <2>3, <2>5, <2>6, AnswerSpares
  <2> QED
    BY <2>2, <2>4, <2>7 DEF Spared, Excused, NoReply, Replies
\* A step of the worker that reads no answer to a request for streams.
<1>20. ASSUME Online, Online', phase' # "silence", ~adrift' => ~adrift,
              UNCHANGED <<kept, live, mode, declared>>,
              ~adrift => /\ NoReply(wire') /\ \A m \in ToSet(wire) : m.kind # "ack"
                         /\ \A s \in live : InFormat(s)' => InFormat(s)
       PROVE  Spared'
  <2>1. Served' = Served
    BY <1>20 DEF Served, Offered
  <2>2. ~adrift => \A s \in live : InFormat(s)' => s \in Served' \cup kept'
    BY <1>20, <2>1 DEF Spared, Excused, Certain
  <2> QED
    BY <1>20, <2>2 DEF Spared, Excused, Certain, Online, NoReply, Replies
<1>21. CASE CapabilitiesAnswered
  <2>1. PICK reply : reply.kind = "capabilities" /\ Receive(reply)
    BY <1>21 DEF CapabilitiesAnswered
  <2>2. UNCHANGED <<kept, live, mode, declared, formats, adrift>>
    BY <1>21 DEF CapabilitiesAnswered
  <2>3. Online /\ Online' /\ phase' # "silence"
    BY <1>21, PumpSteps DEF Pump, Steady, Online, Off
  <2>4. Arriving = {reply} \cup Arriving'
    BY <1>0, <2>1, Received
  <2>5. ~adrift => NoReply(wire') /\ NoReply(pending')
    BY <2>1, <2>3, Answered DEF Certain
  <2>6. ~adrift => \A m \in ToSet(wire) : m.kind # "ack"
    BY <2>1, <2>4, <2>5 DEF Arriving, NoReply, Replies
  <2>7. \A s : InFormat(s)' => InFormat(s)
    BY <2>2, <2>4, InFormatNext DEF InFormat
  <2> QED
    BY <1>20, <2>2, <2>3, <2>5, <2>6, <2>7
<1>22. CASE StartReconcile \/ OpenMedia \/ PollNothing
  <2>1. /\ phase \in {"media", "command", "turn"}
        /\ UNCHANGED <<kept, live, mode, declared, formats, adrift, pending, wire>>
    BY <1>22 DEF StartReconcile, OpenMedia, PollNothing
  <2>2. Online /\ Online' /\ phase' # "silence" /\ Expected = NoRequest
    BY <1>22, <2>1, PumpSteps DEF Pump, Steady, Online, Off, Lockstep, Expected
  <2>3. ~adrift => NoReply(wire)
    BY <2>2 DEF Lockstep, InTurn, Certain
  <2>4. NoReply(wire) => NoReply(wire') /\ \A m \in ToSet(wire) : m.kind # "ack"
    BY <2>1 DEF NoReply, Replies
  <2>5. \A s : InFormat(s)' => InFormat(s)
    BY <2>1, InFormatNext DEF InFormat, Arriving
  <2> QED
    BY <1>20, <2>1, <2>2, <2>3, <2>4, <2>5
<1>23. CASE IngressAnswered
  <2>1. PICK reply : /\ reply.kind = "ack" /\ Receive(reply) /\ kept' = KeptAfter(reply)
                     /\ IF request \in {"silence", "drop"}
                          THEN ApplyUnsubscribed(reply)
                          ELSE ApplySubscribed(reply)
    BY <1>23 DEF IngressAnswered
  <2>2. /\ phase \in {"first", "reconcile"}
        /\ UNCHANGED <<live, mode, declared, adrift>>
    BY <1>23 DEF IngressAnswered
  <2>3. Online /\ Online' /\ phase' # "silence" /\ Expected = request
    BY <1>23, <2>2, PumpSteps DEF Pump, Steady, Online, Off, Expected
  <2> SUFFICES ASSUME ~adrift PROVE Spared'
    BY <2>2, <2>3 DEF Spared, Certain, Online
  <2>4. reply \in ToSet(wire) /\ NoReply(wire')
    BY <2>1, <2>3, Answered DEF Certain
  <2>5. Belief(reply.mode, reply.held) /\ Thorough(reply)
    BY <2>1, <2>3, <2>4 DEF Believed, Restores, Spared, Certain
  <2>6. formats' \subseteq formats
    BY <2>1 DEF ApplyUnsubscribed, ApplySubscribed, Retire
  <2>7. ASSUME reply.mode = "explicit", NEW s \in formats' \cap reply.dropped
        PROVE  s \in kept' \cup reply.held
    <3>1. request \notin {"silence", "drop"}
      BY <2>1, <2>7 DEF ApplyUnsubscribed, Retire
    <3>2. request = "take" /\ serverMode = "auto"
      BY <2>3, <2>5, <2>7, <3>1 DEF Thorough
    <3> QED
      BY <2>1, <2>6, <2>7, <3>2 DEF KeptAfter
  <2>8. \A s \in live : InFormat(s)' => s \in Served' \cup kept'
    BY <2>1, <2>2, <2>3, <2>5, <2>6, <2>7, AnswerSpares DEF Certain
  <2>9. \A s \in live' : InFormat(s)' => Excused(s)'
    BY <2>2, <2>8 DEF Excused
  <2>10. \A m \in ToSet(wire') : m.kind # "ack"
    BY <2>4 DEF NoReply, Replies
  <2>11. phase' # "join"
    BY <2>3 DEF Online
  <2> QED
    BY <2>3, <2>9, <2>10, <2>11 DEF Spared
<1>24. CASE GiveUp
  <2>1. /\ phase \in {"first", "reconcile"} /\ phase' \in {"media", "turn"} /\ adrift'
        /\ UNCHANGED <<kept, live, mode, declared>>
    BY <1>24 DEF GiveUp, AfterReconcile
  <2>2. Online /\ Online'
    BY <2>1 DEF Online, Off
  <2> QED
    BY <2>1, <2>2 DEF Spared, Certain, Online
<1>25. CASE PollEvent
  <2>1. PICK m \in Messages :
          /\ Apply(m) /\ Arriving = {m} \cup Arriving' /\ ToSet(wire') \subseteq ToSet(wire)
    BY <1>0, <1>25, NextHeard DEF RoomFollows
  <2>2. /\ phase \in {"command", "turn"} /\ phase' = "command"
        /\ UNCHANGED <<kept, live, mode, declared, adrift>>
    BY <1>25 DEF PollEvent
  <2>3. Online /\ Online' /\ Expected = NoRequest
    BY <2>2 DEF Online, Off, Lockstep, Expected
  <2>4. ~adrift => NoReply(wire)
    BY <2>3 DEF Lockstep, InTurn, Certain
  <2>5. NoReply(wire) => NoReply(wire') /\ \A n \in ToSet(wire) : n.kind # "ack"
    BY <2>1 DEF NoReply, Replies
  <2>6. ASSUME NEW s, InFormat(s)' PROVE InFormat(s)
    <3>1. s \in formats' \/ Event("format", s) \in Arriving
      BY <2>1, <2>6, InFormatNext
    <3>2. s \in formats' => s \in formats \/ (m.kind = "format" /\ s = m.stream)
      BY <2>1 DEF Apply
    <3>3. m.kind = "format" => m = Event("format", m.stream)
      BY <2>1, ComingFormat
    <3> QED
      BY <2>1, <3>1, <3>2, <3>3 DEF InFormat
  <2> QED
    BY <1>20, <2>2, <2>3, <2>4, <2>5, <2>6
<1> QED
  BY <1>5, <1>6, <1>7, <1>8, <1>9, <1>10, <1>11, <1>12, <1>14, <1>15, <1>16, <1>17, <1>18,
     <1>19, <1>21, <1>22, <1>23, <1>24, <1>25 DEF SessionNext

-----------------------------------------------------------------------------

\* The whole invariant.
QuietInv ==
  SessionInv /\ RoomFollows /\ Lockstep /\ Believed /\ Reconciled /\ Decodes /\ Spared

\* With nothing on its way the invariant is the promise.
LEMMA QuietIsDone ==
  ASSUME QuietInv
  PROVE  QuietMeansRouted
<1> SUFFICES ASSUME Quiet, ~adrift
             PROVE  /\ room = live
                    /\ Served = Decodable \cap
                                  (IF ingress = "everything" THEN live ELSE wanted \cap live)
                    /\ (mode = "auto") = (ingress = "everything")
                    /\ Served \subseteq table /\ table \subseteq Served \cup kept
  BY DEF QuietMeansRouted
<1>1. phase = "command" /\ ~dirty /\ Online /\ Arriving = {} /\ ToSet(wire) = {}
  BY OnEmpty DEF Quiet, Online, Off, Arriving
<1>2. /\ live \subseteq Streams /\ gone \subseteq Streams /\ ingress \in {"everything", "routed"}
      /\ room \subseteq Streams /\ formats \subseteq room
  BY DEF QuietInv, SessionInv, SessionTypes, SessionTypeOK
<1>3. room = live
  <2>1. Roster(room, {}, live, gone)
    BY <1>1 DEF QuietInv, RoomFollows
  <2> QED
    BY <1>2, <2>1 DEF Roster
<1>4. Aim
  BY <1>1 DEF QuietInv, Reconciled
<1>5. /\ Served = Decodable \cap (IF ingress = "everything" THEN live ELSE wanted \cap live)
      /\ (mode = "auto") = (ingress = "everything")
  BY <1>2, <1>3, <1>4 DEF Aim, Served, Want, Offered
<1>6. table = formats
  BY <1>1 DEF QuietInv, SessionInv, TableFollowsRegistry
<1>7. Served \subseteq formats
  BY <1>1 DEF QuietInv, Decodes, Capable, InFormat
<1>8. formats \subseteq Served \cup kept
  BY <1>1, <1>2, <1>3 DEF QuietInv, Spared, Certain, InFormat, Excused
<1> QED
  BY <1>3, <1>5, <1>6, <1>7, <1>8

\* What the server sends is what the host asked for once everything is handled,
\* and what is decoded is that and what was left behind, in any room and over
\* any interleaving of commands, events, refusals, drops, joins and resumes,
\* while the belief about the participant was confirmed.
THEOREM QuietIsRouted == SessionSpec => []QuietMeansRouted
<1>1. SessionInit => QuietInv
  BY TypesInit, LinksInit, TableInit, RoutedInit, RoomInit, LockstepInit, BelievedInit,
     ReconciledInit, DecodesInit, SparedInit DEF QuietInv, SessionInv
<1>2. QuietInv /\ [SessionNext]_sessionVars => QuietInv'
  <2>1. ASSUME QuietInv, [SessionNext]_sessionVars PROVE SessionTypes' /\ Queues'
    BY <2>1, TypesStep DEF QuietInv, SessionInv, SessionTypes
  <2> QED
    BY <2>1, LinksStep, TableStep, RoutedStep, RoomStep, LockstepStep, BelievedStep,
       ReconciledStep, DecodesStep, SparedStep DEF QuietInv, SessionInv
<1>3. QuietInv => QuietMeansRouted
  BY QuietIsDone
<1> QED
  BY <1>1, <1>2, <1>3, PTL DEF SessionSpec
-----------------------------------------------------------------------------
(***************************************************************************)
(* The parts of the jam client together, as they are run.                  *)
(***************************************************************************)

\* A behaviour of the run is one of either part, the other resting.
THEOREM QueuesAreBoth == QueuesSpec => SessionSpec /\ JitterSpec
<1>1. QueuesInit => SessionInit /\ JitterInit
  BY DEF QueuesInit
<1>2. [QueuesNext]_QueuesVars => [SessionNext]_sessionVars /\ [JitterNext]_jitterVars
  BY DEF QueuesNext, QueuesVars, SessionTurn
<1> QED
  BY <1>1, <1>2, PTL DEF QueuesSpec, SessionSpec, JitterSpec

\* The state of the session and of the reorder buffer has its type throughout.
THEOREM JamTyped == QueuesSpec => []JamTypeOK
<1>1. SessionTypeOK /\ JitterTypeOK => JamTypeOK
  BY DEF JamTypeOK
<1> QED
  BY <1>1, QueuesAreBoth, SessionTyped, JitterTyped, PTL
=============================================================================
