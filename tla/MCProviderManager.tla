------------------------- MODULE MCProviderManager -------------------------
(***************************************************************************)
(* Instances of ProviderManager for TLC.                                   *)
(*                                                                         *)
(* MCProviderCache.cfg: two callers over three keys with room for two, so  *)
(* that a full cache has a least and a most recently used entry besides    *)
(* the key being inserted; the clock passes the TTL, so entries are fresh, *)
(* exactly at the TTL and expired.  No janitor; Cleanup is called by hand. *)
(* Keys and callers are symmetric: no action tells them apart.             *)
(*                                                                         *)
(* MCJanitor.cfg and MCStopBlocks.cfg: two janitors over a one-key cache,  *)
(* enough for a janitor to be stopped or cancelled while its successor     *)
(* starts.                                                                 *)
(***************************************************************************)
EXTENDS ProviderManager, TLC

CONSTANTS k1, k2, k3, c1, c2, s1, s2

MCKeys == {k1, k2, k3}
MCCallers == {c1, c2}
MCSymmetry == Permutations(MCKeys) \cup Permutations(MCCallers)

MCOneKey == {k1}
MCOneCaller == {c1}
MCStoppers == {s1, s2}
MCNobody == {}
============================================================================
