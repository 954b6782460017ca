----------------------------- MODULE LoopProofs -----------------------------
(***************************************************************************)
(* Proof that the schedules of MIDI and of the metronome follow the play   *)
(* position, for any length of the timeline, of a block and of a loop.     *)
(*                                                                         *)
(* A walk cuts a block into segments, the publication advances over the    *)
(* whole block at once: both end in the same sample because a wrap takes   *)
(* the length of the loop off the distance, and Advance does not see that  *)
(* (Unfolds, Final).  Two walks agree on whether the block ends in a wrap  *)
(* (Walk, ResetKnown).                                                     *)
(***************************************************************************)
EXTENDS TransportLoop, WellFoundedInduction, TLAPS

-----------------------------------------------------------------------------
(* The arithmetic of a loop.                                               *)

\* The loops a transport can have.
Loops == {loop \in [start : Samples, end : Samples] : loop.start < loop.end}

Distances == 0..(MaxSample + MaxBlock)

LEMMA SampleFacts ==
  /\ 0 \in Samples /\ \A sample \in Samples : sample \in Distances /\ sample >= sample
  /\ Distances \subseteq Nat
BY TransportAssumption DEF Samples, Distances

\* The function Advance defines, for any loop.
Folds(f, loop, last) ==
  \A to \in 0..last :
    f[to] = IF to < loop.end THEN to ELSE f[to - (loop.end - loop.start)]

Folded(loop) ==
  CHOOSE f : f = [to \in Distances |->
                    IF to < loop.end THEN to ELSE f[to - (loop.end - loop.start)]]

\* A nonempty set of naturals has a least element.
LEMMA LeastNatural ==
  ASSUME NEW T \in SUBSET Nat, T # {}
  PROVE  \E x \in T : \A y \in T : x <= y
<1> DEFINE R == {ss \in Nat \X Nat : ss[1] < ss[2]}
<1>1. IsWellFoundedOn(R, Nat)
  BY NatLessThanWellFounded DEF OpToRel
<1> HIDE DEF R
<1>2. PICK x \in T : \A y \in T : ~(<<y, x>> \in R)
  BY <1>1, WFMin
<1>3. \A y \in T : ~(y < x)
  BY <1>2 DEF R
<1> QED
  BY <1>3

\* There is such a function, up to any distance.
LEMMA FoldExists ==
  ASSUME NEW loop \in Loops, NEW last \in Nat
  PROVE  \E f \in [0..last -> Nat] : Folds(f, loop, last)
<1> DEFINE Missing == {n \in Nat : ~\E f \in [0..n -> Nat] : Folds(f, loop, n)}
<1>0. loop.start \in Nat /\ loop.end \in Nat /\ loop.start < loop.end
  BY TransportAssumption DEF Loops, Samples
<1> SUFFICES ASSUME Missing # {} PROVE FALSE
  OBVIOUS
<1>1. PICK n \in Missing : \A m \in Missing : n <= m
  BY LeastNatural
<1>2. n # 0
  <2> DEFINE f == [to \in 0..0 |-> 0]
  <2>1. f \in [0..0 -> Nat] /\ Folds(f, loop, 0)
    BY <1>0 DEF Folds
  <2> QED
    BY <2>1, <1>1
<1>3. n \in Nat /\ n - 1 \in Nat /\ n - 1 \notin Missing
  BY <1>1, <1>2
<1>4. PICK f \in [0..(n - 1) -> Nat] : Folds(f, loop, n - 1)
  BY <1>3
<1> DEFINE g == [to \in 0..n |-> IF to < loop.end THEN to
                                 ELSE f[to - (loop.end - loop.start)]]
<1>5. \A to \in 0..n : to >= loop.end =>
        to - (loop.end - loop.start) \in 0..(n - 1)
  BY <1>0, <1>3
<1>6. g \in [0..n -> Nat]
  <2> SUFFICES ASSUME NEW to \in 0..n PROVE g[to] \in Nat
    OBVIOUS
  <2>1. CASE to < loop.end
    BY <2>1, <1>3
  <2>2. CASE ~(to < loop.end)
    <3>1. to - (loop.end - loop.start) \in 0..(n - 1)
      BY <2>2, <1>5, <1>0, <1>3
    <3> QED
      BY <3>1, <2>2, <1>4
  <2> QED
    BY <2>1, <2>2
<1>7. \A to \in 0..(n - 1) : g[to] = f[to]
  BY <1>4, <1>3 DEF Folds
<1>8. Folds(g, loop, n)
  <2> SUFFICES ASSUME NEW to \in 0..n
               PROVE  g[to] = IF to < loop.end THEN to
                              ELSE g[to - (loop.end - loop.start)]
    BY DEF Folds
  <2>1. CASE to < loop.end
    BY <2>1
  <2>2. CASE ~(to < loop.end)
    <3>1. to - (loop.end - loop.start) \in 0..(n - 1)
      BY <2>2, <1>5, <1>0, <1>3
    <3>2. g[to] = f[to - (loop.end - loop.start)]
      BY <2>2
    <3> HIDE DEF g
    <3> QED
      BY <3>1, <3>2, <2>2, <1>7
  <2> QED
    BY <2>1, <2>2
<1> QED
  BY <1>6, <1>8, <1>1

\* So Advance unfolds: a round takes the length of the loop off.
LEMMA Unfolds ==
  ASSUME NEW loop \in Loops, NEW to \in Distances
  PROVE  Folded(loop)[to] = IF to < loop.end THEN to
                            ELSE Folded(loop)[to - (loop.end - loop.start)]
<1>0. MaxSample + MaxBlock \in Nat
  BY TransportAssumption
<1>1. PICK f \in [Distances -> Nat] : Folds(f, loop, MaxSample + MaxBlock)
  BY <1>0, FoldExists DEF Distances
<1> DEFINE Body(h) == [x \in Distances |->
                         IF x < loop.end THEN x ELSE h[x - (loop.end - loop.start)]]
<1>2. f = Body(f)
  <2>1. \A x \in Distances : f[x] = Body(f)[x]
    BY <1>1 DEF Folds, Distances
  <2>2. DOMAIN Body(f) = Distances /\ DOMAIN f = Distances
    OBVIOUS
  <2>3. Body(f) = [x \in Distances |-> Body(f)[x]] /\ f = [x \in Distances |-> f[x]]
    OBVIOUS
  <2> HIDE DEF Body
  <2> QED
    BY <2>1, <2>3
<1>3. Folded(loop) = Body(Folded(loop))
  BY <1>2 DEF Folded
<1> QED
  BY <1>3

\* What Advance returns from a position before the end of the loop.
LEMMA AdvanceFacts ==
  ASSUME NEW loop \in Loops, NEW from \in Samples, from < loop.end, NEW frames \in 0..MaxBlock
  PROVE  /\ loop # NoLoop
         /\ Advance(from, frames, loop).to = Folded(loop)[from + frames]
         /\ Advance(from, frames, loop).wrapped \in BOOLEAN
         /\ Advance(from, frames, loop).wrapped <=> frames >= loop.end - from
<1>0. /\ loop.start \in Nat /\ loop.end \in Nat /\ from \in Nat /\ frames \in Nat
      /\ loop.start < loop.end
  BY TransportAssumption DEF Loops, Samples
<1>1. loop # NoLoop
  BY <1>0 DEF NoLoop
<1>2. Normalized(from, loop) = from
  BY <1>0 DEF Normalized
<1> QED
  BY <1>1, <1>2 DEF Advance, Folded, Distances

\* It never goes beyond the distance.
LEMMA FoldsBack ==
  ASSUME NEW loop \in Loops, NEW to \in Distances
  PROVE  Folded(loop)[to] \in Nat /\ Folded(loop)[to] <= to
<1> DEFINE Beyond == {x \in Distances : ~(Folded(loop)[x] \in Nat /\ Folded(loop)[x] <= x)}
<1>0. /\ loop.start \in Nat /\ loop.end \in Nat /\ loop.start < loop.end
      /\ MaxSample + MaxBlock \in Nat
  BY TransportAssumption DEF Loops, Samples
<1> SUFFICES ASSUME Beyond # {} PROVE FALSE
  OBVIOUS
<1>1. Beyond \in SUBSET Nat
  BY <1>0 DEF Distances
<1>2. PICK x \in Beyond : \A y \in Beyond : x <= y
  BY <1>1, LeastNatural
<1>3. x \in Distances /\ x \in Nat /\ ~(x < loop.end)
  BY <1>0, <1>2, Unfolds DEF Distances
<1> DEFINE y == x - (loop.end - loop.start)
<1>4. Folded(loop)[x] = Folded(loop)[y]
  BY <1>3, Unfolds
<1>5. y \in Distances /\ y \in Nat /\ y < x
  BY <1>0, <1>3 DEF Distances
<1>6. y \notin Beyond
  BY <1>2, <1>3, <1>5
<1>7. Folded(loop)[y] \in Nat /\ Folded(loop)[y] <= y
  BY <1>5, <1>6
<1> QED
  BY <1>2, <1>3, <1>4, <1>5, <1>7

\* Without a loop it adds.
LEMMA AdvanceOn ==
  ASSUME NEW from, NEW frames
  PROVE  Advance(from, frames, NoLoop) = [to |-> from + frames, wrapped |-> FALSE]
BY DEF Advance

LEMMA MinMaxFacts ==
  ASSUME NEW a \in Int, NEW b \in Int
  PROVE  /\ Min({a, b}) = IF a <= b THEN a ELSE b
         /\ Max({a, b}) = IF a <= b THEN b ELSE a
<1>1. CASE a <= b
  <2>1. a \in {a, b} /\ \A y \in {a, b} : a <= y
    BY <1>1
  <2>2. b \in {a, b} /\ \A y \in {a, b} : b >= y
    BY <1>1
  <2> QED
    BY <1>1, <2>1, <2>2 DEF Min, Max
<1>2. CASE ~(a <= b)
  <2>1. b \in {a, b} /\ \A y \in {a, b} : b <= y
    BY <1>2
  <2>2. a \in {a, b} /\ \A y \in {a, b} : a >= y
    BY <1>2
  <2> QED
    BY <1>2, <2>1, <2>2 DEF Min, Max
<1> QED
  BY <1>1, <1>2

LEMMA MaxOfSum ==
  ASSUME NEW a \in Nat, NEW n \in Nat
  PROVE  Max({a, a + n}) = a + n
<1>1. a \in Int /\ a + n \in Int /\ a <= a + n
  OBVIOUS
<1> QED
  BY <1>1, MinMaxFacts

\* A segment ends with the walk, or where the loop does, and then goes on at
\* its start; what is left of the block still ends in the same sample.
LEMMA SegmentFacts ==
  ASSUME NEW loop \in Loops, NEW seg \in Samples, seg < loop.end, NEW left \in 1..MaxBlock,
         NEW n, n = SegmentFrames(seg, left, loop)
  PROVE  /\ n \in 1..left /\ seg + n <= loop.end
         /\ n = left \/ seg + n = loop.end
         /\ Advance(seg, n, loop).to = IF seg + n = loop.end THEN loop.start ELSE seg + n
         /\ Advance(seg, n, loop).wrapped \in BOOLEAN
         /\ Advance(seg, n, loop).wrapped <=> seg + n = loop.end
         /\ Folded(loop)[Advance(seg, n, loop).to + (left - n)] = Folded(loop)[seg + left]
<1>0. /\ loop.start \in Samples /\ loop.end \in Samples /\ loop.start \in Nat
      /\ loop.end \in Nat /\ seg \in Nat /\ loop.start < loop.end
      /\ MaxSample \in Nat /\ MaxBlock \in Nat /\ left \in Nat
      /\ loop.end <= MaxSample /\ loop.start <= MaxSample /\ left <= MaxBlock
  BY TransportAssumption DEF Loops, Samples
<1>1. loop # NoLoop /\ left # 0 /\ ~(seg >= loop.end)
  BY <1>0, AdvanceFacts
<1>2. n = IF left <= loop.end - seg THEN left ELSE loop.end - seg
  BY <1>0, <1>1, MinMaxFacts DEF SegmentFrames
<1>3. /\ n \in 1..left /\ seg + n <= loop.end /\ n \in 0..MaxBlock
      /\ n = left \/ seg + n = loop.end
  BY <1>0, <1>2
<1>4. /\ Advance(seg, n, loop).to = Folded(loop)[seg + n]
      /\ Advance(seg, n, loop).wrapped \in BOOLEAN
      /\ Advance(seg, n, loop).wrapped <=> n >= loop.end - seg
  BY <1>3, AdvanceFacts
<1>5. Folded(loop)[loop.start] = loop.start
  <2>1. loop.start \in Distances
    BY <1>0 DEF Distances
  <2> QED
    BY <2>1, <1>0, Unfolds
<1>6. CASE seg + n = loop.end
  <2>1. seg + n \in Distances /\ seg + left \in Distances
    BY <1>0, <1>3, <1>6 DEF Distances
  <2>2. loop.end - (loop.end - loop.start) = loop.start
    BY <1>0
  <2>3. Folded(loop)[seg + n] = loop.start
    BY <2>1, <2>2, <1>0, <1>5, <1>6, Unfolds
  <2>4. ~(seg + left < loop.end)
    BY <1>0, <1>3, <1>6
  <2>5. Folded(loop)[seg + left] = Folded(loop)[loop.start + (left - n)]
    <3> DEFINE all == seg + left
    <3>1. all \in Distances /\ ~(all < loop.end)
      BY <2>1, <2>4
    <3> HIDE DEF all
    <3>2. Folded(loop)[all] = Folded(loop)[all - (loop.end - loop.start)]
      BY <3>1, Unfolds
    <3>3. all - (loop.end - loop.start) = loop.start + (left - n)
      BY <1>0, <1>3, <1>6 DEF all
    <3> QED
      BY <3>2, <3>3 DEF all
  <2> QED
    BY <1>0, <1>3, <1>4, <1>6, <2>3, <2>5
<1>7. CASE seg + n # loop.end
  <2>1. n = left /\ seg + n < loop.end /\ seg + n \in Distances
    BY <1>0, <1>3, <1>7 DEF Distances
  <2>2. Folded(loop)[seg + n] = seg + n
    BY <2>1, Unfolds
  <2>3. left - n = 0 /\ (seg + n) + (left - n) = seg + left
    BY <2>1, <1>0
  <2> QED
    BY <1>0, <1>3, <1>4, <1>7, <2>1, <2>2, <2>3
<1> QED
  BY <1>6, <1>7

-----------------------------------------------------------------------------
(* The inductive invariant.                                                *)

TransportTypes ==
  /\ t \in [position : Samples, playing : BOOLEAN, looping : BOOLEAN, start : Samples,
            end : Samples, midi : Samples, metronome : BOOLEAN, click : Distances,
            mono : BOOLEAN]
  /\ block \in [phase : {"none", "midi", "click", "publish"}, base : Samples,
                seg : Samples, left : 0..MaxBlock, frames : 0..MaxBlock,
                reset : 0..NoReset, loop : Loops \cup {NoLoop}]
  /\ block.phase = "none" => block = NoBlock

\* Where the publication will put the position.
Final == Advance(block.base, block.frames, block.loop).to

\* The block begins before the end of the loop, and fits on the timeline.
BlockFits ==
  /\ block.frames > 0
  /\ IF block.loop = NoLoop THEN block.base + block.frames <= MaxSample
     ELSE block.base < block.loop.end

\* A walk is before the end of the loop, has something left, and ends where
\* the publication will; once wrapped, it is in a lap the block goes on to.
Walk ==
  /\ block.left > 0
  /\ IF block.loop = NoLoop THEN block.seg + block.left = block.base + block.frames
     ELSE /\ block.seg < block.loop.end
          /\ Advance(block.seg, block.left, block.loop).to = Final
          /\ \/ block.seg + block.left = block.base + block.frames
             \/ /\ block.seg = block.loop.start
                /\ block.base + block.frames >= block.loop.end

\* The walk of MIDI is over.  Its schedule is at the position to come, and
\* that is not where a lap ends; or the publication will reset both.
ResetKnown ==
  IF block.reset = NoReset
    THEN /\ t.midi = Final
         /\ block.loop # NoLoop =>
              \/ block.base + block.frames < block.loop.end
              \/ Final # block.loop.start
    ELSE block.reset = Final

LoopInv ==
  /\ TransportTypes
  /\ block.phase # "none" => BlockFits
  /\ block.phase = "midi" => Walk /\ t.midi = block.seg /\ ClickFollows(block.base)
  /\ block.phase = "click" => Walk /\ ResetKnown /\ ClickFollows(block.seg)
  /\ block.phase = "publish" => ResetKnown /\ (block.reset = NoReset => ClickFollows(Final))
  /\ block.phase = "none" /\ t.playing => t.midi = t.position /\ ClickFollows(t.position)

-----------------------------------------------------------------------------
(* The invariant holds at first, and says enough.                          *)

LEMMA LoopInit == TransportInit => LoopInv
<1> SUFFICES ASSUME TransportInit PROVE LoopInv
  OBVIOUS
<1>1. 0 \in Samples /\ 0 \in 0..MaxBlock /\ NoReset \in 0..NoReset
  BY TransportAssumption DEF Samples, NoReset
<1>2. TransportTypes
  BY <1>1, SampleFacts DEF TransportInit, TransportTypes, NoBlock
<1>3. /\ block.phase = "none" /\ t.midi = t.position /\ t.click = t.position
      /\ t.position \in Samples
  BY <1>1 DEF TransportInit, NoBlock
<1> QED
  BY <1>2, <1>3, SampleFacts DEF LoopInv, ClickFollows

LEMMA LoopInvSuffices == LoopInv => SchedulesFollowPosition
<1> SUFFICES ASSUME LoopInv PROVE SchedulesFollowPosition
  OBVIOUS
<1>1. Idle => block.phase = "none"
  BY DEF Idle, NoBlock
<1> QED
  BY <1>1 DEF LoopInv, TransportTypes, ClickFollows, SchedulesFollowPosition

-----------------------------------------------------------------------------
(* Commands, which find no block.                                          *)

\* A command keeps the types, and the schedules of a rolling transport at the
\* position.
LEMMA CommandKeeps ==
  ASSUME LoopInv, Idle, UNCHANGED block,
         t' \in [position : Samples, playing : BOOLEAN, looping : BOOLEAN, start : Samples,
                 end : Samples, midi : Samples, metronome : BOOLEAN, click : Distances,
                 mono : BOOLEAN],
         t'.playing => t'.midi = t'.position /\ ClickFollows(t.position)'
  PROVE  LoopInv'
<1>1. block.phase = "none" /\ block'.phase = "none"
  BY DEF Idle, NoBlock
<1>2. TransportTypes'
  BY DEF LoopInv, TransportTypes, NoBlock, Loops, NoReset, Samples, NoLoop
<1> QED
  BY <1>1, <1>2 DEF LoopInv, ClickFollows

\* Each command is one of those.
LEMMA CommandStep ==
  ASSUME LoopInv,
         \/ StartTransport \/ StopTransport \/ LoadProject
         \/ \E p \in Samples : Seek(p) \/ SetTempo(p)
         \/ \E enabled \in BOOLEAN, start, end \in Samples : SetLoop(enabled, start, end)
         \/ \E enabled \in BOOLEAN : SetMetronome(enabled)
  PROVE  LoopInv'
<1> USE DEF Rescheduled
<1>1. /\ t \in [position : Samples, playing : BOOLEAN, looping : BOOLEAN, start : Samples,
                end : Samples, midi : Samples, metronome : BOOLEAN, click : Distances,
                mono : BOOLEAN]
      /\ Idle => (t.playing => t.midi = t.position /\ ClickFollows(t.position))
  BY DEF LoopInv, TransportTypes, ClickFollows, Idle, NoBlock
<1>2. CASE StartTransport
  BY <1>1, <1>2, CommandKeeps, SampleFacts DEF StartTransport, ClickFollows
<1>3. CASE StopTransport
  BY <1>1, <1>3, CommandKeeps, SampleFacts DEF StopTransport, ClickFollows
<1>4. CASE LoadProject
  BY <1>1, <1>4, CommandKeeps, SampleFacts DEF LoadProject, ClickFollows
<1>5. ASSUME NEW p \in Samples, Seek(p) PROVE LoopInv'
  BY <1>1, <1>5, CommandKeeps, SampleFacts DEF Seek, ClickFollows
<1>6. ASSUME NEW p \in Samples, SetTempo(p) PROVE LoopInv'
  BY <1>1, <1>6, CommandKeeps, SampleFacts DEF SetTempo, ClickFollows
<1>7. ASSUME NEW enabled \in BOOLEAN, NEW start \in Samples, NEW end \in Samples,
             SetLoop(enabled, start, end)
      PROVE  LoopInv'
  BY <1>1, <1>7, CommandKeeps, SampleFacts DEF SetLoop, ClickFollows
<1>8. ASSUME NEW enabled \in BOOLEAN, SetMetronome(enabled) PROVE LoopInv'
  BY <1>1, <1>8, CommandKeeps, SampleFacts DEF SetMetronome, ClickFollows
<1> QED
  BY <1>2, <1>3, <1>4, <1>5, <1>6, <1>7, <1>8

-----------------------------------------------------------------------------
(* The callback.                                                           *)

\* A block starts before the end of its loop, with both schedules there.
LEMMA BlockBegins ==
  ASSUME LoopInv, NEW frames \in 1..MaxBlock, BeginBlock(frames)
  PROVE  LoopInv'
<1> DEFINE loop == ActiveLoop
           base == Normalized(t.position, loop)
<1>0. /\ MaxSample \in Nat \ {0} /\ MaxBlock \in Nat \ {0} /\ NoReset \in 0..NoReset
      /\ frames \in 0..MaxBlock /\ frames > 0
  BY TransportAssumption DEF NoReset
<1>1. /\ t \in [position : Samples, playing : BOOLEAN, looping : BOOLEAN, start : Samples,
                end : Samples, midi : Samples, metronome : BOOLEAN, click : Distances,
                mono : BOOLEAN]
      /\ t.midi = t.position /\ ClickFollows(t.position)
  BY DEF LoopInv, TransportTypes, ClickFollows, BeginBlock, Idle, NoBlock
<1>2. /\ loop \in Loops \cup {NoLoop}
      /\ loop # NoLoop => loop \in Loops
  BY <1>1 DEF ActiveLoop, Loops, NoLoop
<1>3. /\ base \in Samples
      /\ loop # NoLoop => base < loop.end
      /\ loop = NoLoop => base = t.position
  BY <1>0, <1>1, <1>2 DEF Normalized, Loops, Samples
<1> HIDE DEF base, loop
<1>4. block' = [phase |-> "midi", base |-> base, seg |-> base, left |-> frames,
                frames |-> frames, reset |-> NoReset, loop |-> loop]
  BY DEF BeginBlock, base, loop
<1>5. /\ t' \in [position : Samples, playing : BOOLEAN, looping : BOOLEAN, start : Samples,
                 end : Samples, midi : Samples, metronome : BOOLEAN, click : Distances,
                 mono : BOOLEAN]
      /\ t'.midi = base
      /\ t'.metronome => IF t'.mono THEN t'.click >= base ELSE t'.click = base
  <2>1. t' = IF base = t.position THEN t
             ELSE Rescheduled([t EXCEPT !.position = base], base)
    BY DEF BeginBlock, base, loop
  <2> QED
    BY <2>1, <1>1, <1>3, SampleFacts DEF Rescheduled, ClickFollows
<1>6. loop = NoLoop => base + frames <= MaxSample
  BY <1>3 DEF BeginBlock, loop
<1>7. TransportTypes'
  BY <1>0, <1>2, <1>3, <1>4, <1>5 DEF TransportTypes
<1>8. BlockFits'
  BY <1>0, <1>3, <1>4, <1>6 DEF BlockFits
<1>9. Walk'
  BY <1>0, <1>3, <1>4 DEF Walk, Final
<1> QED
  BY <1>4, <1>5, <1>7, <1>8, <1>9 DEF LoopInv, ClickFollows

\* A segment of a walk.  What is left of it goes on from the start of the loop;
\* the last one ends where the publication will, and in a wrap only if the block
\* ends where a lap does.
LEMMA WalkStep ==
  ASSUME LoopInv, block.phase \in {"midi", "click"}, BlockFits, Walk,
         NEW n, n = SegmentFrames(block.seg, block.left, block.loop),
         NEW next, next = Advance(block.seg, n, block.loop)
  PROVE  /\ n \in 1..block.left /\ block.seg + n \in Samples /\ next.to \in Samples
         /\ next.wrapped \in BOOLEAN
         /\ Max({block.seg, block.seg + n}) = block.seg + n
         /\ n # block.left =>
              /\ block.loop # NoLoop /\ next.wrapped /\ next.to = block.loop.start
              /\ next.to < block.loop.end
              /\ Advance(next.to, block.left - n, block.loop).to = Final
              /\ block.base + block.frames >= block.loop.end
         /\ n = block.left => next.to = Final
         /\ n = block.left /\ ~next.wrapped =>
              /\ next.to = block.seg + n
              /\ block.loop # NoLoop => \/ block.base + block.frames < block.loop.end
                                       \/ Final # block.loop.start
         /\ n = block.left /\ next.wrapped =>
              /\ block.loop # NoLoop /\ next.to = block.loop.start
              /\ block.base + block.frames >= block.loop.end
<1>0. /\ MaxSample \in Nat /\ MaxBlock \in Nat
      /\ block.seg \in Samples /\ block.base \in Samples /\ block.left \in 1..MaxBlock
      /\ block.frames \in 0..MaxBlock /\ block.loop \in Loops \cup {NoLoop}
      /\ block.seg \in Nat /\ block.base \in Nat /\ block.left \in Nat /\ block.frames \in Nat
  BY TransportAssumption DEF LoopInv, TransportTypes, Walk, Samples
<1>1. CASE block.loop = NoLoop
  <2>1. n = block.left
    BY <1>1 DEF SegmentFrames
  <2>2. next.to = block.seg + block.left /\ next.wrapped \in BOOLEAN /\ ~next.wrapped
    <3>1. next = [to |-> block.seg + block.left, wrapped |-> FALSE]
      BY <1>1, <2>1, AdvanceOn
    <3> QED
      BY <3>1
  <2>3. Final = block.base + block.frames
    BY <1>1, AdvanceOn DEF Final
  <2>4. block.seg + block.left = block.base + block.frames
    BY <1>1 DEF Walk
  <2>5. block.seg + n \in Samples
    BY <1>0, <1>1, <2>1, <2>4 DEF BlockFits, Samples
  <2>6. Max({block.seg, block.seg + n}) = block.seg + n
    BY <1>0, <2>1, MaxOfSum
  <2> QED
    BY <1>0, <1>1, <2>1, <2>2, <2>3, <2>4, <2>5, <2>6
<1>2. CASE block.loop # NoLoop
  <2> DEFINE loop == block.loop
             seg == block.seg
             left == block.left
  <2>1. /\ loop \in Loops /\ loop.start \in Samples /\ loop.end \in Samples
        /\ loop.start \in Nat /\ loop.end \in Nat /\ loop.start < loop.end
        /\ loop.end <= MaxSample
    BY <1>0, <1>2 DEF Loops, Samples
  <2>2. /\ seg < loop.end /\ Advance(seg, left, loop).to = Final
        /\ \/ seg + left = block.base + block.frames
           \/ seg = loop.start /\ block.base + block.frames >= loop.end
        /\ seg \in Nat /\ left \in Nat
    BY <1>0, <1>2 DEF Walk
  <2>3. /\ n \in 1..left /\ seg + n <= loop.end
        /\ n = left \/ seg + n = loop.end
        /\ next.to = IF seg + n = loop.end THEN loop.start ELSE seg + n
        /\ next.wrapped \in BOOLEAN /\ (next.wrapped <=> seg + n = loop.end)
        /\ Folded(loop)[next.to + (left - n)] = Folded(loop)[seg + left]
        /\ n \in Nat
    BY <1>0, <2>1, <2>2, SegmentFacts
  <2>4. left - n \in 0..MaxBlock /\ seg + n \in Samples /\ next.to \in Samples
    BY <1>0, <2>1, <2>3 DEF Samples
  <2>5. next.to < loop.end
    BY <1>0, <2>1, <2>3
  <2>6. Folded(loop)[seg + left] = Final
    BY <1>0, <2>1, <2>2, AdvanceFacts
  <2>7. Advance(next.to, left - n, loop).to = Final
    BY <2>1, <2>3, <2>4, <2>5, <2>6, AdvanceFacts
  <2> HIDE DEF loop, seg, left
  <2>8. n = left => next.to = Final
    <3> SUFFICES ASSUME n = left PROVE next.to = Final
      OBVIOUS
    <3>1. next.to + (left - n) = next.to
      BY <1>0, <2>2, <2>4 DEF Samples
    <3>2. next.to \in Distances
      BY <1>0, <2>4 DEF Samples, Distances
    <3>3. Folded(loop)[next.to] = next.to
      BY <2>1, <2>5, <3>2, Unfolds
    <3> QED
      BY <2>3, <2>6, <3>1, <3>3
  <2>9. Max({seg, seg + n}) = seg + n
    BY <2>2, <2>3, MaxOfSum
  <2>10. n # left => next.wrapped /\ next.to = loop.start /\ block.base + block.frames >= loop.end
    BY <1>0, <2>1, <2>2, <2>3
  <2>11. n = left /\ ~next.wrapped =>
           /\ next.to = seg + n
           /\ \/ block.base + block.frames < loop.end
              \/ Final # loop.start
    BY <1>0, <2>1, <2>2, <2>3, <2>8
  <2>12. n = left /\ next.wrapped =>
           next.to = loop.start /\ block.base + block.frames >= loop.end
    BY <1>0, <2>1, <2>2, <2>3
  <2> QED
    BY <1>2, <2>3, <2>4, <2>5, <2>7, <2>8, <2>9, <2>10, <2>11, <2>12 DEF loop, seg, left
<1> QED
  BY <1>1, <1>2

\* What the walks leave alone.
LEMMA FinalKept ==
  ASSUME block'.base = block.base, block'.frames = block.frames, block'.loop = block.loop
  PROVE  Final' = Final /\ (BlockFits => BlockFits')
BY DEF Final, BlockFits

\* The next segment of a walk has its type.
LEMMA SegmentKeepsTypes ==
  ASSUME TransportTypes, NEW to \in Samples, NEW left \in 1..MaxBlock,
         block' = [block EXCEPT !.seg = to, !.left = left]
  PROVE  block' \in [phase : {"none", "midi", "click", "publish"}, base : Samples,
                     seg : Samples, left : 0..MaxBlock, frames : 0..MaxBlock,
                     reset : 0..NoReset, loop : Loops \cup {NoLoop}]
<1>1. left \in 0..MaxBlock
  OBVIOUS
<1> QED
  BY <1>1 DEF TransportTypes

LEMMA MidiStep ==
  ASSUME LoopInv, MidiSegment
  PROVE  LoopInv'
<1> DEFINE n    == SegmentFrames(block.seg, block.left, block.loop)
           next == Advance(block.seg, n, block.loop)
           left == block.left - n
<1>1. /\ block.phase = "midi" /\ BlockFits /\ Walk /\ t.midi = block.seg
      /\ ClickFollows(block.base) /\ TransportTypes
  BY DEF LoopInv, MidiSegment
<1>2. /\ t' = [t EXCEPT !.midi = IF next.wrapped /\ left > 0 THEN next.to
                                 ELSE Scheduled(t.midi, block.seg, n)]
      /\ block' = IF left > 0 THEN [block EXCEPT !.seg = next.to, !.left = left]
                  ELSE [block EXCEPT !.phase = "click", !.seg = block.base,
                                     !.left = block.frames, !.reset = EndReset(next)]
  BY DEF MidiSegment
<1> HIDE DEF n, next, left
<1>3. /\ n \in 1..block.left /\ block.seg + n \in Samples /\ next.to \in Samples
      /\ next.wrapped \in BOOLEAN
      /\ Max({block.seg, block.seg + n}) = block.seg + n
      /\ n # block.left =>
           /\ block.loop # NoLoop /\ next.wrapped /\ next.to = block.loop.start
           /\ next.to < block.loop.end
           /\ Advance(next.to, block.left - n, block.loop).to = Final
           /\ block.base + block.frames >= block.loop.end
      /\ n = block.left => next.to = Final
      /\ n = block.left /\ ~next.wrapped =>
           /\ next.to = block.seg + n
           /\ block.loop # NoLoop => \/ block.base + block.frames < block.loop.end
                                    \/ Final # block.loop.start
  BY <1>1, WalkStep DEF n, next
<1>4. /\ MaxSample \in Nat /\ MaxBlock \in Nat /\ NoReset \in 0..NoReset
      /\ block.left \in 1..MaxBlock /\ block.frames \in 1..MaxBlock /\ next.to \in 0..NoReset
      /\ next.to # NoReset /\ next.to \in Nat
  BY <1>1, <1>3, TransportAssumption DEF TransportTypes, Walk, BlockFits, NoReset, Samples
<1>5. /\ t' \in [position : Samples, playing : BOOLEAN, looping : BOOLEAN, start : Samples,
                 end : Samples, midi : Samples, metronome : BOOLEAN, click : Distances,
                 mono : BOOLEAN]
      /\ t'.metronome = t.metronome /\ t'.click = t.click /\ t'.mono = t.mono
      /\ t'.midi = IF next.wrapped /\ left > 0 THEN next.to ELSE block.seg + n
  BY <1>1, <1>2, <1>3 DEF TransportTypes, Scheduled
<1>6. CASE left > 0
  <2>1. /\ block' = [block EXCEPT !.seg = next.to, !.left = left]
        /\ n # block.left /\ left = block.left - n /\ left \in 1..MaxBlock
    BY <1>2, <1>3, <1>4, <1>6 DEF left
  <2>2. /\ block'.base = block.base /\ block'.frames = block.frames
        /\ block'.loop = block.loop /\ block'.phase = "midi"
        /\ block'.seg = next.to /\ block'.left = left
    BY <1>1, <2>1 DEF TransportTypes
  <2>3. TransportTypes'
    BY <1>1, <1>5, <2>1, <2>2, <1>3, <1>4, SegmentKeepsTypes DEF TransportTypes
  <2>4. Walk'
    BY <1>3, <1>4, <1>6, <2>1, <2>2, FinalKept DEF Walk
  <2> QED
    BY <1>1, <1>3, <1>5, <1>6, <2>1, <2>2, <2>3, <2>4, FinalKept DEF LoopInv, ClickFollows
<1>7. CASE ~(left > 0)
  <2>1. /\ block' = [block EXCEPT !.phase = "click", !.seg = block.base,
                                  !.left = block.frames, !.reset = EndReset(next)]
        /\ n = block.left
    BY <1>2, <1>3, <1>4, <1>7 DEF left
  <2>2. /\ block'.base = block.base /\ block'.frames = block.frames
        /\ block'.loop = block.loop /\ block'.phase = "click" /\ block'.seg = block.base
        /\ block'.left = block.frames /\ block'.reset = EndReset(next)
    BY <1>1, <2>1 DEF TransportTypes
  <2>3. EndReset(next) \in 0..NoReset
    BY <1>4 DEF EndReset
  <2>4. TransportTypes'
    BY <1>1, <1>4, <1>5, <2>1, <2>2, <2>3 DEF TransportTypes
  <2>5. Walk'
    BY <1>1, <1>4, <2>2 DEF Walk, Final, BlockFits
  <2>6. ResetKnown'
    BY <1>3, <1>4, <1>5, <1>7, <2>1, <2>2, FinalKept DEF ResetKnown, EndReset
  <2> QED
    BY <1>1, <1>5, <2>2, <2>4, <2>5, <2>6, FinalKept DEF LoopInv, ClickFollows
<1> QED
  BY <1>6, <1>7

LEMMA ClickStep ==
  ASSUME LoopInv, ClickSegment
  PROVE  LoopInv'
<1> DEFINE n    == SegmentFrames(block.seg, block.left, block.loop)
           next == Advance(block.seg, n, block.loop)
           left == block.left - n
<1>1. /\ block.phase = "click" /\ BlockFits /\ Walk /\ ResetKnown
      /\ ClickFollows(block.seg) /\ TransportTypes /\ ~t.mono
  BY DEF LoopInv, ClickSegment
<1>2. /\ t' = [t EXCEPT !.click = IF next.wrapped /\ left > 0 THEN next.to
                                  ELSE IF t.metronome THEN Scheduled(t.click, block.seg, n)
                                  ELSE t.click]
      /\ block' = IF left > 0 THEN [block EXCEPT !.seg = next.to, !.left = left]
                  ELSE [block EXCEPT !.phase = "publish"]
  BY DEF ClickSegment
<1> HIDE DEF n, next, left
<1>3. /\ n \in 1..block.left /\ block.seg + n \in Samples /\ next.to \in Samples
      /\ next.wrapped \in BOOLEAN
      /\ Max({block.seg, block.seg + n}) = block.seg + n
      /\ n # block.left =>
           /\ block.loop # NoLoop /\ next.wrapped /\ next.to = block.loop.start
           /\ next.to < block.loop.end
           /\ Advance(next.to, block.left - n, block.loop).to = Final
           /\ block.base + block.frames >= block.loop.end
      /\ n = block.left => next.to = Final
      /\ n = block.left /\ ~next.wrapped => next.to = block.seg + n
      /\ n = block.left /\ next.wrapped =>
           /\ block.loop # NoLoop /\ next.to = block.loop.start
           /\ block.base + block.frames >= block.loop.end
  BY <1>1, WalkStep DEF n, next
<1>4. /\ MaxSample \in Nat /\ MaxBlock \in Nat
      /\ block.left \in 1..MaxBlock /\ block.frames \in 1..MaxBlock
      /\ block.base \in Nat /\ block.loop \in Loops \cup {NoLoop}
      /\ block.loop # NoLoop => block.loop.end \in Nat
  BY <1>1, <1>3, TransportAssumption DEF TransportTypes, Walk, BlockFits, Samples, Loops
<1>5. /\ t' \in [position : Samples, playing : BOOLEAN, looping : BOOLEAN, start : Samples,
                 end : Samples, midi : Samples, metronome : BOOLEAN, click : Distances,
                 mono : BOOLEAN]
      /\ t'.metronome = t.metronome /\ t'.midi = t.midi /\ ~t'.mono
      /\ next.wrapped /\ left > 0 => t'.click = next.to
      /\ t.metronome /\ ~(next.wrapped /\ left > 0) => t'.click = block.seg + n
  BY <1>1, <1>2, <1>3, SampleFacts DEF TransportTypes, Scheduled, ClickFollows
<1>6. CASE left > 0
  <2>1. /\ block' = [block EXCEPT !.seg = next.to, !.left = left]
        /\ n # block.left /\ left = block.left - n /\ left \in 1..MaxBlock
    BY <1>2, <1>3, <1>4, <1>6 DEF left
  <2>2. /\ block'.base = block.base /\ block'.frames = block.frames
        /\ block'.loop = block.loop /\ block'.phase = "click" /\ block'.reset = block.reset
        /\ block'.seg = next.to /\ block'.left = left
    BY <1>1, <2>1 DEF TransportTypes
  <2>3. TransportTypes'
    BY <1>1, <1>5, <2>1, <2>2, <1>3, <1>4, SegmentKeepsTypes DEF TransportTypes
  <2>4. Walk'
    BY <1>3, <1>4, <1>6, <2>1, <2>2, FinalKept DEF Walk
  <2>5. ResetKnown'
    BY <1>1, <1>5, <2>2, FinalKept DEF ResetKnown
  <2> QED
    BY <1>1, <1>3, <1>5, <1>6, <2>1, <2>2, <2>3, <2>4, <2>5, FinalKept DEF LoopInv, ClickFollows
<1>7. CASE ~(left > 0)
  <2>1. block' = [block EXCEPT !.phase = "publish"] /\ n = block.left
    BY <1>2, <1>3, <1>4, <1>7 DEF left
  <2>2. /\ block'.base = block.base /\ block'.frames = block.frames
        /\ block'.loop = block.loop /\ block'.phase = "publish" /\ block'.reset = block.reset
    BY <1>1, <2>1 DEF TransportTypes
  <2>3. TransportTypes'
    BY <1>1, <1>5, <2>1, <2>2 DEF TransportTypes
  <2>4. ResetKnown'
    BY <1>1, <1>5, <2>2, FinalKept DEF ResetKnown
  <2>5. block.reset = NoReset => ~next.wrapped
    BY <1>1, <1>3, <1>4, <2>1 DEF ResetKnown
  <2>6. block.reset = NoReset /\ t.metronome => t'.click = Final
    BY <1>3, <1>5, <2>1, <2>5
  <2> QED
    BY <1>1, <1>5, <2>2, <2>3, <2>4, <2>6, FinalKept DEF LoopInv, ClickFollows
<1> QED
  BY <1>6, <1>7

\* On a mono output the schedule moves to the end of the block, which the
\* publication never goes beyond.
LEMMA MonoStep ==
  ASSUME LoopInv, MonoClick
  PROVE  LoopInv'
<1>1. /\ block.phase = "click" /\ BlockFits /\ Walk /\ ResetKnown
      /\ TransportTypes /\ t.mono
  BY DEF LoopInv, MonoClick
<1>2. /\ t' = [t EXCEPT !.click = IF t.metronome THEN Scheduled(t.click, block.base, block.frames)
                                  ELSE t.click]
      /\ block' = [block EXCEPT !.phase = "publish"]
  BY DEF MonoClick
<1>3. /\ MaxSample \in Nat /\ MaxBlock \in Nat /\ block.base \in 0..MaxSample
      /\ block.frames \in 1..MaxBlock /\ block.base + block.frames \in Distances
      /\ block.base + block.frames \in Int
      /\ t.click \in Distances /\ t.click \in Nat
  BY <1>1, TransportAssumption DEF TransportTypes, BlockFits, Samples, Distances
<1>4. Final <= block.base + block.frames
  <2>1. CASE block.loop = NoLoop
    BY <2>1, <1>3, AdvanceOn DEF Final
  <2>2. CASE block.loop # NoLoop
    <3>1. /\ block.loop \in Loops /\ block.base \in Samples /\ block.base < block.loop.end
          /\ block.frames \in 0..MaxBlock
      BY <1>1, <1>3, <2>2 DEF TransportTypes, BlockFits, Samples
    <3>2. Final = Folded(block.loop)[block.base + block.frames]
      BY <3>1, AdvanceFacts DEF Final
    <3> QED
      BY <1>3, <3>1, <3>2, FoldsBack
  <2> QED
    BY <2>1, <2>2
<1>5. /\ Scheduled(t.click, block.base, block.frames) \in Distances
      /\ Scheduled(t.click, block.base, block.frames) >= block.base + block.frames
  <2> DEFINE a == t.click
             b == block.base + block.frames
  <2>1. a \in Distances /\ b \in Distances /\ a \in Int /\ b \in Int
    BY <1>3
  <2> HIDE DEF a, b
  <2>2. Max({a, b}) = IF a <= b THEN b ELSE a
    BY <2>1, MinMaxFacts
  <2>3. Max({a, b}) \in Distances /\ Max({a, b}) >= b
    BY <2>1, <2>2
  <2> QED
    BY <2>3 DEF a, b, Scheduled
<1>6. /\ t' \in [position : Samples, playing : BOOLEAN, looping : BOOLEAN, start : Samples,
                 end : Samples, midi : Samples, metronome : BOOLEAN, click : Distances,
                 mono : BOOLEAN]
      /\ t'.metronome = t.metronome /\ t'.midi = t.midi /\ t'.mono
      /\ t.metronome => t'.click = Scheduled(t.click, block.base, block.frames)
  BY <1>1, <1>2, <1>5 DEF TransportTypes
<1>7. /\ block'.base = block.base /\ block'.frames = block.frames
      /\ block'.loop = block.loop /\ block'.phase = "publish" /\ block'.reset = block.reset
  BY <1>1, <1>2 DEF TransportTypes
<1>8. TransportTypes'
  BY <1>1, <1>2, <1>6, <1>7 DEF TransportTypes
<1>9. ResetKnown' /\ Final' = Final /\ BlockFits'
  BY <1>1, <1>6, <1>7, FinalKept DEF ResetKnown, BlockFits
<1>10. block.reset = NoReset => ClickFollows(Final)'
  <2> SUFFICES ASSUME block.reset = NoReset, t.metronome PROVE t'.click >= Final
    BY <1>6, <1>9 DEF ClickFollows
  <2>1. Final \in Nat
    BY <1>1, TransportAssumption DEF ResetKnown, TransportTypes, Samples
  <2> QED
    BY <1>3, <1>4, <1>5, <1>6, <2>1 DEF Distances
<1> QED
  BY <1>7, <1>8, <1>9, <1>10 DEF LoopInv

LEMMA PublishStep ==
  ASSUME LoopInv, EndBlock
  PROVE  LoopInv'
<1>1. /\ block.phase = "publish" /\ BlockFits /\ ResetKnown
      /\ (block.reset = NoReset => ClickFollows(Final)) /\ TransportTypes
  BY DEF LoopInv, EndBlock
<1>2. Final \in Samples
  BY <1>1, TransportAssumption DEF ResetKnown, TransportTypes, NoReset, Samples
<1>3. block' = NoBlock
  BY DEF EndBlock
<1>4. t' = IF block.reset = NoReset THEN [t EXCEPT !.position = Final]
           ELSE Rescheduled([t EXCEPT !.position = Final], block.reset)
  BY DEF EndBlock, Final
<1>5. /\ t' \in [position : Samples, playing : BOOLEAN, looping : BOOLEAN, start : Samples,
                 end : Samples, midi : Samples, metronome : BOOLEAN, click : Distances,
                 mono : BOOLEAN]
      /\ t'.midi = t'.position /\ ClickFollows(t.position)'
  <2>1. CASE block.reset = NoReset
    BY <1>1, <1>2, <1>4, <2>1, SampleFacts DEF TransportTypes, ResetKnown, ClickFollows
  <2>2. CASE block.reset # NoReset
    BY <1>1, <1>2, <1>4, <2>2, SampleFacts
       DEF TransportTypes, ResetKnown, ClickFollows, Rescheduled
  <2> QED
    BY <2>1, <2>2
<1>6. TransportTypes'
  <2>1. 0 \in Samples /\ 0 \in 0..MaxBlock /\ NoReset \in 0..NoReset
    BY TransportAssumption DEF Samples, NoReset
  <2> QED
    BY <1>3, <1>5, <2>1 DEF TransportTypes, NoBlock
<1>7. block'.phase = "none"
  BY <1>3 DEF NoBlock
<1> QED
  BY <1>5, <1>6, <1>7 DEF LoopInv

-----------------------------------------------------------------------------

LEMMA LoopNext == LoopInv /\ [TransportNext]_transportVars => LoopInv'
<1> SUFFICES ASSUME LoopInv, [TransportNext]_transportVars PROVE LoopInv'
  OBVIOUS
<1>1. CASE \E frames \in 1..MaxBlock : BeginBlock(frames)
  BY <1>1, BlockBegins
<1>2. CASE MidiSegment
  BY <1>2, MidiStep
<1>3. CASE ClickSegment
  BY <1>3, ClickStep
<1>4. CASE EndBlock
  BY <1>4, PublishStep
<1>6. CASE MonoClick
  BY <1>6, MonoStep
<1>5. CASE UNCHANGED transportVars
  BY <1>5 DEF transportVars, LoopInv, TransportTypes, BlockFits, Walk, Final, ResetKnown,
              ClickFollows
<1> QED
  BY <1>1, <1>2, <1>3, <1>4, <1>5, <1>6, CommandStep DEF TransportNext

\* Through every wrap, seek, tempo and loop change the schedules of MIDI and of
\* the metronome are where the play position is, whatever the lengths of the
\* timeline, of the block and of the loop: advance_loop_position over a block
\* agrees with the segments the two walks cut it into.  On a mono output the
\* metronome is never behind.
THEOREM SchedulesFollow == TransportSpec => []SchedulesFollowPosition
<1> QED
  BY LoopInit, LoopNext, LoopInvSuffices, PTL DEF TransportSpec
=============================================================================
