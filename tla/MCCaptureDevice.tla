--------------------------- MODULE MCCaptureDevice ---------------------------
(* TLC instances of CaptureDevice. *)
EXTENDS CaptureDevice, TLC

\* Devices are interchangeable, and so are loaders; used by the runs that
\* check no liveness property.
Symmetry == Permutations(Devices) \cup Permutations(Loaders)
=============================================================================
