-------------------------- MODULE MCDiskLifecycle --------------------------
(* Small instances of DiskLifecycle: sizes of 1, 2 (the threshold) and 3.  *)
EXTENDS DiskLifecycle, TLC

CONSTANTS p1, p2
TwoProcs == {p1, p2}
UpToMiB == 1..MiB
Shells2 == Permutations(TwoProcs)
=============================================================================
