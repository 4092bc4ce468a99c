------------------------------ MODULE GitMerge ------------------------------
(***************************************************************************)
(* Merge and CherryPick of the go-git backend                              *)
(* (gitbackend/gogit_commit.go) on the branch that is checked out, of      *)
(* other branches to which commits arrive, while the user edits, commits   *)
(* and resets between two calls.                                           *)
(*                                                                         *)
(* A commit is its position in objects, behind its parents.  The paths,    *)
(* contents and trees are those of Rebase.                                 *)
(***************************************************************************)
EXTENDS Rebase

CONSTANTS
    Branches,   \* besides the one that is checked out
    Histories,  \* the objects, the head and the branches at first
    MaxObjects, \* bound: commits
    MaxLosses   \* bound: files that cannot be written or deleted, and crashes

Object == [parents : Seq(Nat), tree : Tree]
Modes == {"plain", "squash", "nocommit", "ffonly", "unrelated"}

ASSUME GitMergeAssumption ==
    /\ MaxObjects \in Nat /\ MaxLosses \in Nat
    /\ \A h \in Histories :
          /\ h.objects \in Seq(Object)
          /\ h.head \in 1..Len(h.objects)
          /\ h.side \in [Branches -> 1..Len(h.objects)]

VARIABLES
    objects, \* the commits, each with its parents and its tree
    head,    \* the commit of the branch that is checked out
    side,    \* per branch, its commit
    staged,  \* the index
    files,   \* the worktree
    op,      \* the running call
    losses

mergeVars == <<objects, head, side, staged, files, op, losses>>

TreeAt(c) == objects[c].tree
Parents(c) == {objects[c].parents[k] : k \in 1..Len(objects[c].parents)}

Reach[c \in 1..Len(objects)] == {c} \cup UNION {Reach[d] : d \in Parents(c)}
MergeBases(c, d) ==
    LET common == Reach[c] \cap Reach[d]
    IN  {b \in common : \A e \in common \ {b} : b \notin Reach[e]}

EmptyTree == [p \in Paths |-> None]
(* The trees that the changes of both sides are taken from: of the first   *)
(* merge base, or without one the empty tree.                              *)
BaseTrees(c, d) == IF MergeBases(c, d) = {} THEN {EmptyTree}
                   ELSE {TreeAt(b) : b \in MergeBases(c, d)}

DiffTree(t, u) == {p \in Paths : t[p] # u[p]}

(* Of the call: what it applies, what is still to be written, what it      *)
(* commits with, and for the properties how it found the repository and    *)
(* which paths it could not delete.                                        *)
NoOp == [pc |-> "none"]
MergeInit ==
    /\ \E h \in Histories : objects = h.objects /\ head = h.head /\ side = h.side
    /\ staged = TreeAt(head) /\ files = TreeAt(head)
    /\ op = NoOp
    /\ losses = 0

-----------------------------------------------------------------------------
(* Mutant: what the branch has and the head has not is deleted, and the    *)
(* other way round.                                                        *)
ApplyChangesAgainstHead(o, base, source) ==
    [pc |-> "apply", o |-> o, source |-> source,
     todo |-> DiffTree(TreeAt(head), source), kept |-> {},
     base |-> base, files |-> files, clean |-> staged = TreeAt(head)]
ApplyChanges(o, base, source) ==
    [pc |-> "apply", o |-> o, source |-> source,
     todo |-> DiffTree(base, source), kept |-> {},
     base |-> base, files |-> files, clean |-> staged = TreeAt(head)]

(* A fast-forward moves the branch and nothing else, whatever the options. *)
FastForward(b) ==
    /\ op.pc = "none"
    /\ head # side[b] /\ head \in Reach[side[b]]
    /\ head' = side[b]
    /\ UNCHANGED <<objects, side, staged, files, op, losses>>

(* It does not ask whether the index or the worktree is clean.             *)
Merge(b, mode) ==
    /\ op.pc = "none" /\ Len(objects) < MaxObjects
    /\ head \notin Reach[side[b]] /\ mode # "ffonly"
    /\ MergeBases(head, side[b]) = {} => mode = "unrelated"
    /\ \E base \in BaseTrees(head, side[b]) :
          /\ DiffTree(base, TreeAt(head)) \cap DiffTree(base, TreeAt(side[b])) = {}
          /\ op' = ApplyChanges(
                [mode |-> mode, from |-> side[b],
                 parents |-> IF mode = "squash" THEN <<head>> ELSE <<head, side[b]>>],
                base, TreeAt(side[b]))
    /\ UNCHANGED <<objects, head, side, staged, files, losses>>

(* It asks for no conflict.                                                *)
CherryPick(b) ==
    /\ op.pc = "none" /\ Len(objects) < MaxObjects
    /\ objects[side[b]].parents # << >>
    /\ op' = ApplyChanges(
                [mode |-> "pick", from |-> side[b], parents |-> <<head>>],
                TreeAt(objects[side[b]].parents[1]), TreeAt(side[b]))
    /\ UNCHANGED <<objects, head, side, staged, files, losses>>

(* applyChangesToWorktree writes and stages a path, or deletes the file    *)
(* and its entry.                                                          *)
WritePath(p) ==
    /\ op.pc = "apply" /\ p \in op.todo
    /\ files' = [files EXCEPT ![p] = op.source[p]]
    /\ staged' = [staged EXCEPT ![p] = op.source[p]]
    /\ op' = [op EXCEPT !.todo = @ \ {p}]
    /\ UNCHANGED <<objects, head, side, losses>>

(* A path cannot be deleted, which the call does not ask: the entry stays, *)
(* for the worktree gives it up last, and the file mostly too.  The call   *)
(* goes on to its commit.                                                  *)
DeleteFails(p) ==
    /\ op.pc = "apply" /\ p \in op.todo /\ op.source[p] = None
    /\ losses < MaxLosses
    /\ \E v \in {files[p], None} : files' = [files EXCEPT ![p] = v]
    /\ op' = [op EXCEPT !.todo = @ \ {p}, !.kept = @ \cup {p}]
    /\ losses' = losses + 1
    /\ UNCHANGED <<objects, head, side, staged>>

(* The call returns an error, or the process ends, with a file half        *)
(* written or between two.                                                 *)
WritingEnds(p) ==
    /\ op.pc = "apply" /\ p \in op.todo /\ losses < MaxLosses
    /\ \E v \in {files[p], op.source[p]} : files' = [files EXCEPT ![p] = v]
    /\ op' = NoOp
    /\ losses' = losses + 1
    /\ UNCHANGED <<objects, head, side, staged>>

AddObject(parents, tree) ==
    objects' = Append(objects, [parents |-> parents, tree |-> tree])

(* The commit takes the index; it is refused where it would change nothing.*)
CommitApplied ==
    /\ op.pc = "apply" /\ op.todo = {}
    /\ IF op.o.mode = "nocommit" \/ staged = TreeAt(head)
       THEN UNCHANGED <<objects, head>>
       ELSE AddObject(op.o.parents, staged) /\ head' = Len(objects) + 1
    /\ op' = NoOp
    /\ UNCHANGED <<side, staged, files, losses>>

-----------------------------------------------------------------------------
(* The user, between two calls.                                            *)
EditFile(p, v) ==
    /\ op.pc = "none" /\ files[p] # v /\ Len(objects) < MaxObjects
    /\ files' = [files EXCEPT ![p] = v]
    /\ UNCHANGED <<objects, head, side, staged, op, losses>>
CommitFile(p) ==
    /\ op.pc = "none" /\ Len(objects) < MaxObjects
    /\ LET t == [staged EXCEPT ![p] = files[p]]
       IN  /\ t # TreeAt(head)
           /\ staged' = t
           /\ AddObject(<<head>>, t)
    /\ head' = Len(objects) + 1
    /\ UNCHANGED <<side, files, op, losses>>
ResetToHead ==
    /\ op.pc = "none" /\ (staged # TreeAt(head) \/ files # TreeAt(head))
    /\ staged' = TreeAt(head) /\ files' = TreeAt(head)
    /\ UNCHANGED <<objects, head, side, op, losses>>

(* A commit arrives on another branch, or the branch that is checked out   *)
(* is merged into it elsewhere.                                            *)
Arrives(b, p, v) ==
    /\ op.pc = "none" /\ Len(objects) < MaxObjects
    /\ \/ /\ TreeAt(side[b])[p] # v
          /\ AddObject(<<side[b]>>, [TreeAt(side[b]) EXCEPT ![p] = v])
       \/ /\ head \notin Reach[side[b]]
          /\ AddObject(<<side[b], head>>, [TreeAt(head) EXCEPT ![p] = v])
    /\ side' = [side EXCEPT ![b] = Len(objects) + 1]
    /\ UNCHANGED <<head, staged, files, op, losses>>

MergeNext ==
    \/ CommitApplied \/ ResetToHead
    \/ \E b \in Branches :
          \/ FastForward(b) \/ CherryPick(b)
          \/ \E mode \in Modes :
                Merge(b, mode)
          \/ \E p \in Paths, v \in Contents \cup {None} : Arrives(b, p, v)
    \/ \E p \in Paths :
          \/ WritePath(p) \/ DeleteFails(p) \/ WritingEnds(p) \/ CommitFile(p)
          \/ \E v \in Contents \cup {None} : EditFile(p, v)

MergeSpec == MergeInit /\ [][MergeNext]_mergeVars

-----------------------------------------------------------------------------
(* A merge or a pick that began with an index as committed and comes to    *)
(* its end has carried over what the other side changed and kept what it   *)
(* did not, in the index and in the commit where there is one.  Only a     *)
(* file to be deleted that could not be is left as the branch had it: the  *)
(* call reports success all the same.  A change of the user that was not   *)
(* staged is still there, unless the other side changed that file.  Where  *)
(* both sides of a merge changed a file, there is no merge; its commit     *)
(* names both of them, so that the branch is not merged again.             *)
MergeCarriesBoth ==
    [][op.pc = "apply" /\ op'.pc = "none" /\ losses' = losses /\ op.clean =>
        LET theirs == DiffTree(op.base, op.source)
            carried == theirs \ op.kept
            ours == TreeAt(head)
        IN  /\ staged' = [p \in Paths |->
                             IF p \in carried THEN op.source[p] ELSE ours[p]]
            /\ \A p \in theirs \ carried : op.source[p] = None
            /\ \A p \in Paths \ theirs : files'[p] = op.files[p]
            /\ op.o.mode # "pick" =>
                  \A p \in theirs : ours[p] = op.base[p]
            /\ head' # head => objects'[head'].tree = staged'
            /\ op.o.mode \in {"plain", "unrelated"} /\ head' # head =>
                  Parents(head)' = {head, op.o.from}]_mergeVars
=============================================================================
