--------------------------- MODULE MCJobExecution ---------------------------
(* Instances of JobExecution for TLC.                                      *)
EXTENDS JobExecution, TLC

CONSTANTS feed, s1, s2

MCSourceJobs == {feed}
MCOneJob == {feed}
MCSlots == {s1, s2}
SlotSymmetry == Permutations(MCSlots)

AllFaults == FaultKinds
CrashOnly == {"crash"}
=============================================================================
