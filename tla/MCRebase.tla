------------------------------ MODULE MCRebase ------------------------------
(***************************************************************************)
(* Instances of Rebase for TLC: two paths, a branch of two changes whose   *)
(* target is one change ahead.  The second change undoes the first one, or *)
(* does what the target did, and a target may share no commit with the     *)
(* branch.  MCSidesStarts has a branch that changes a path twice.          *)
(***************************************************************************)
EXTENDS Rebase, TLC

CONSTANTS p, q, x, y

MCMessages == {"root", "up", "one", "two"}

At(m, a, b) == [msg |-> m, tree |-> p :> a @@ q :> b]
Root == At("root", None, x)

MCBranches == {<<Root, At("one", x, x), At("two", x, None)>>,
               <<Root, At("one", x, x), At("two", None, x)>>}
MCTargets == {<<Root, At("up", None, None)>>, <<At("up", None, x)>>}
MCStarts == MCBranches \X MCTargets

MCSidesStarts == {<<<<Root, At("one", x, x), At("two", y, x)>>, t>> : t \in MCTargets}
=============================================================================
