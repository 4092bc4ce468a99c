-------------------------------- MODULE MCGit --------------------------------
(***************************************************************************)
(* Instances of Rebase and GitMerge for TLC: in a behaviour either the     *)
(* branch of MCRebase is rebased, or branches are merged: one that began   *)
(* with the branch that is checked out, and one that shares no commit.     *)
(***************************************************************************)
EXTENDS MCRebase, GitMerge

CONSTANTS one, two

VARIABLE merges

MCMergeBranches == {one, two}
MCHistories == {[objects |-> <<[parents |-> << >>, tree |-> p :> x @@ q :> None],
                               [parents |-> << >>, tree |-> p :> None @@ q :> t]>>,
                 head |-> 1, side |-> one :> 1 @@ two :> 2] : t \in {None, x}}

MCInit ==
    /\ merges \in BOOLEAN /\ Init /\ MergeInit
    /\ merges => work = index /\ <<tip, onto>> = CHOOSE s \in MCStarts : TRUE
    /\ ~merges => objects = (CHOOSE h \in MCHistories : TRUE).objects
MCNext ==
    /\ UNCHANGED merges
    /\ \/ ~merges /\ Next /\ UNCHANGED mergeVars
       \/ merges /\ MergeNext /\ UNCHANGED vars
MCSpec == MCInit /\ [][MCNext]_<<merges, vars, mergeVars>>
=============================================================================
