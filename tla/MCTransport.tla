---------------------------- MODULE MCTransport ----------------------------
(***************************************************************************)
(* Instances of Transport for TLC: two calls, of any method and path each, *)
(* over two attempts, two versions and two tokens; a third call, with one  *)
(* attempt and one token, for the stale replay.                            *)
(***************************************************************************)
EXTENDS Transport, TLC

CONSTANTS r1, r2, r3

MCCalls == {r1, r2}
MCCalls3 == {r1, r2, r3}
MCSymmetry == Permutations(MCCalls3)
MCSymmetry2 == Permutations(MCCalls)
============================================================================
