---------------------------- MODULE MCTestRunner ----------------------------
(* Small instances of TestRunner. *)
EXTENDS TestRunner

CONSTANTS r1, r2
TwoRunners == {r1, r2}
OneRunner == {r1}
=============================================================================
