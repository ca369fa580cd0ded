---------------------------- MODULE MCDARuntime ----------------------------
(* Small instances of DARuntime for TLC. *)
EXTENDS DARuntime, TLC

CONSTANTS c1, c2, w1

OneCall == {c1}
TwoCalls == {c1, c2}
OneWatchdog == {w1}

CallSymmetry == Permutations(Calls)
=============================================================================
