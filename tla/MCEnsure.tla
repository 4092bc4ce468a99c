------------------------------ MODULE MCEnsure ------------------------------
(***************************************************************************)
(* Instances of Ensure for TLC: every backend and kind, two reconcilers    *)
(* that may want different contents.                                       *)
(***************************************************************************)
EXTENDS Ensure, TLC

CONSTANTS c1, c2

MCClients == {c1, c2}
MCSymmetry == Permutations(MCClients)
MCWants ==
    [hook |-> {{"push", "pull_request"}, {"push", "note", "tag_push"}},
     key |-> {[key |-> "k1", readOnly |-> TRUE],
              [key |-> "k1", readOnly |-> FALSE]},
     rule |-> {[reviews |-> 1, checks |-> TRUE, force |-> FALSE,
                deletions |-> FALSE],
               [reviews |-> 0, checks |-> FALSE, force |-> TRUE,
                deletions |-> TRUE]}]
=============================================================================
