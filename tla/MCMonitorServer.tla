--------------------------- MODULE MCMonitorServer ---------------------------
(* Instances of MonitorServer for TLC. *)
EXTENDS MonitorServer, TLC

CONSTANTS c1, c2

MCSymmetry == Permutations(Clients)

\* Indices below, in and over the range.
MCAnyIndices == {-1, 0, MAX_ARR_COUNT}
=============================================================================
