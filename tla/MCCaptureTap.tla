----------------------------- MODULE MCCaptureTap -----------------------------
(* TLC instances of CaptureTap. *)
EXTENDS CaptureTap, TLC

\* Takes are interchangeable; used by runs without liveness properties only.
TakeSymmetry == Permutations(Takes)

\* Blocks captured on one stream, where there are two.
MaxPerStream == 1

\* A stream is opened anew after one block at most, and gives one more.
FewBlocks ==
  /\ streams' > streams => clock <= MaxPerStream
  /\ cb' = "stamping" => streams = 1 \/ clock < 2 * MaxPerStream
=============================================================================
