--------------------------- MODULE GitMergeProofs ---------------------------
(***************************************************************************)
(* Proofs about GitMerge, for every set of paths and contents and every    *)
(* history at first.  While a call applies its changes, the paths it has   *)
(* done hold what the other side has there, and all others what the head   *)
(* has, those that it could not delete included (IndexOK), of which the    *)
(* other side has none (KeptOK).  No file that it does not change is       *)
(* touched (FilesOK), and in none that it changes does the head differ     *)
(* from the base (NoConflict).  Of the ancestors of a commit nothing is    *)
(* used, so what is proved holds of any choice of the merge base.          *)
(***************************************************************************)
EXTENDS GitMerge, TLAPS

(* A call in progress.                                                     *)
IsCall(c) == \E o, source, t, k, base, f, clean :
    c = [pc |-> "apply", o |-> o, source |-> source, todo |-> t, kept |-> k,
         base |-> base, files |-> f, clean |-> clean]

(* The values that the variables take.                                     *)
MergeTypeOK ==
    /\ objects \in Seq(Object)
    /\ head \in 1..Len(objects)
    /\ side \in [Branches -> 1..Len(objects)]
    /\ staged \in Tree
    /\ files \in Tree
    /\ losses \in Nat

CallOK ==
    \/ op = NoOp
    \/ /\ IsCall(op)
       /\ op.source \in Tree
       /\ op.o.parents \in Seq(Nat)

Theirs == DiffTree(op.base, op.source)

TodoOK == op.pc = "apply" => op.todo \subseteq Theirs
KeptOK == op.pc = "apply" =>
    op.kept \subseteq {p \in Theirs \ op.todo : op.source[p] = None}
IndexOK == op.pc = "apply" /\ op.clean =>
    \A p \in Paths :
        staged[p] = IF p \in (Theirs \ op.todo) \ op.kept
                    THEN op.source[p] ELSE TreeAt(head)[p]
FilesOK == op.pc = "apply" => \A p \in Paths \ Theirs : files[p] = op.files[p]
NoConflict == op.pc = "apply" /\ op.o.mode # "pick" =>
    \A p \in Theirs : TreeAt(head)[p] = op.base[p]
ParentsOK == op.pc = "apply" /\ op.o.mode \in {"plain", "unrelated"} =>
    op.o.parents = <<head, op.o.from>>

Applied == TodoOK /\ KeptOK /\ IndexOK /\ FilesOK /\ NoConflict /\ ParentsOK
MergeIInv == MergeTypeOK /\ CallOK /\ Applied
-----------------------------------------------------------------------------
(* What a commit found in the objects is made of.                          *)
LEMMA TreeAtType ==
  ASSUME MergeTypeOK, NEW c \in 1..Len(objects)
  PROVE  TreeAt(c) \in Tree /\ objects[c].parents \in Seq(Nat)
<1>1. objects[c] \in Object
  BY DEF MergeTypeOK
<1> QED BY <1>1 DEF TreeAt, Object

(* A commit is added behind those there are, which stay what they are.     *)
LEMMA AddObjectType ==
  ASSUME MergeTypeOK, NEW ps \in Seq(Nat), NEW t \in Tree, AddObject(ps, t)
  PROVE  /\ objects' \in Seq(Object)
         /\ Len(objects') = Len(objects) + 1
         /\ objects'[Len(objects) + 1] = [parents |-> ps, tree |-> t]
         /\ \A c \in 1..Len(objects) : objects'[c] = objects[c]
<1> DEFINE o == [parents |-> ps, tree |-> t]
<1>1. o \in Object
  BY DEF Object
<1> HIDE DEF o
<1>2. objects' = Append(objects, o)
  BY DEF AddObject, o
<1>3. objects' \in Seq(Object) /\ Len(objects') = Len(objects) + 1
      /\ objects'[Len(objects) + 1] = o
      /\ \A c \in 1..Len(objects) : objects'[c] = objects[c]
  BY <1>1, <1>2 DEF MergeTypeOK
<1> QED BY <1>3 DEF o

(* Between two calls there is nothing that Applied speaks of.              *)
LEMMA IdleApplied == ASSUME op.pc # "apply" PROVE Applied
  BY DEF Applied, TodoOK, KeptOK, IndexOK, FilesOK, NoConflict, ParentsOK

(* What the user or another branch does, between two calls.                *)
LEMMA IdleIInv ==
  ASSUME MergeIInv, MergeTypeOK', op.pc = "none", UNCHANGED op
  PROVE  MergeIInv'
<1>1. Applied'
  <2>1. op'.pc # "apply"
    OBVIOUS
  <2> QED BY <2>1 DEF Applied, TodoOK, KeptOK, IndexOK, FilesOK, NoConflict, ParentsOK
<1>2. CallOK'
  BY DEF MergeIInv, CallOK, IsCall, NoOp
<1> QED BY <1>1, <1>2 DEF MergeIInv

LEMMA InitMergeIInv == MergeInit => MergeIInv
<1> SUFFICES ASSUME MergeInit PROVE MergeIInv
  OBVIOUS
<1>1. PICK h \in Histories : objects = h.objects /\ head = h.head /\ side = h.side
  BY DEF MergeInit
<1>2. objects \in Seq(Object) /\ head \in 1..Len(objects)
      /\ side \in [Branches -> 1..Len(objects)]
  BY <1>1, GitMergeAssumption
<1>3. TreeAt(head) \in Tree
  <2>1. objects[head] \in Object
    BY <1>2
  <2> QED BY <2>1 DEF TreeAt, Object
<1>4. MergeTypeOK
  BY <1>2, <1>3 DEF MergeTypeOK, MergeInit
<1>5. CallOK /\ Applied
  BY IdleApplied DEF MergeInit, CallOK, NoOp
<1> QED BY <1>4, <1>5 DEF MergeIInv
-----------------------------------------------------------------------------
(* A call begins with nothing applied.                                     *)
LEMMA BeginIInv ==
  ASSUME MergeIInv, NEW o, NEW base, NEW source \in Tree, o.parents \in Seq(Nat),
         op' = ApplyChanges(o, base, source),
         UNCHANGED <<objects, head, side, staged, files, losses>>,
         o.mode # "pick" =>
            \A p \in DiffTree(base, source) : TreeAt(head)[p] = base[p],
         o.mode \in {"plain", "unrelated"} => o.parents = <<head, o.from>>
  PROVE  MergeIInv'
<1>1. MergeTypeOK'
  BY DEF MergeIInv, MergeTypeOK
<1>2. op' = [pc |-> "apply", o |-> o, source |-> source,
             todo |-> DiffTree(base, source), kept |-> {}, base |-> base,
             files |-> files, clean |-> staged = TreeAt(head)]
  BY DEF ApplyChanges
<1>3. /\ op'.pc = "apply" /\ op'.o = o /\ op'.source = source /\ op'.base = base
      /\ op'.todo = DiffTree(base, source) /\ op'.kept = {} /\ op'.files = files
      /\ op'.clean = (staged = TreeAt(head))
  BY <1>2
<1>4. CallOK'
  <2> DEFINE asCommitted == staged = TreeAt(head)
  <2>1. op' = [pc |-> "apply", o |-> o, source |-> source,
               todo |-> DiffTree(base, source), kept |-> {}, base |-> base,
               files |-> files, clean |-> asCommitted]
    BY <1>2
  <2> HIDE DEF asCommitted
  <2>2. IsCall(op)'
    BY <2>1, Zenon DEF IsCall
  <2> QED BY <2>2, <1>3 DEF CallOK
<1>5. Theirs' = DiffTree(base, source) /\ TreeAt(head)' = TreeAt(head)
  BY <1>3 DEF Theirs, DiffTree, TreeAt
<1>6. TodoOK' /\ KeptOK'
  BY <1>3, <1>5 DEF TodoOK, KeptOK
<1>7. IndexOK'
  <2>1. op'.clean => staged = TreeAt(head)
    BY <1>3, Zenon
  <2>2. Theirs' \ op'.todo = {}
    BY <1>3, <1>5
  <2> QED BY <2>1, <2>2, <1>5 DEF IndexOK
<1>8. FilesOK'
  BY <1>3 DEF FilesOK
<1>9. NoConflict'
  BY <1>3, <1>5 DEF NoConflict
<1>10. ParentsOK'
  BY <1>3 DEF ParentsOK
<1> QED BY <1>1, <1>4, <1>6, <1>7, <1>8, <1>9, <1>10 DEF MergeIInv, Applied

(* A call ends, after its commit or with an error.                         *)
LEMMA EndIInv ==
  ASSUME MergeTypeOK', op' = NoOp PROVE MergeIInv'
<1>1. op'.pc # "apply"
  BY DEF NoOp
<1>2. Applied'
  BY <1>1 DEF Applied, TodoOK, KeptOK, IndexOK, FilesOK, NoConflict, ParentsOK
<1> QED BY <1>2 DEF MergeIInv, CallOK

LEMMA MergeStepIInv ==
  ASSUME MergeIInv, NEW b \in Branches, NEW mode \in Modes, Merge(b, mode)
  PROVE  MergeIInv'
<1>1. side[b] \in 1..Len(objects) /\ head \in 1..Len(objects) /\ MergeTypeOK
  BY DEF MergeIInv, MergeTypeOK
<1>2. TreeAt(side[b]) \in Tree
  BY <1>1, TreeAtType
<1> DEFINE o == [mode |-> mode, from |-> side[b],
                 parents |-> IF mode = "squash" THEN <<head>> ELSE <<head, side[b]>>]
<1>3. PICK base \in BaseTrees(head, side[b]) :
         /\ DiffTree(base, TreeAt(head)) \cap DiffTree(base, TreeAt(side[b])) = {}
         /\ op' = ApplyChanges(o, base, TreeAt(side[b]))
  BY DEF Merge
<1>4. o.parents \in Seq(Nat)
  <2>1. <<head>> \in Seq(Nat) /\ <<head, side[b]>> \in Seq(Nat)
    BY <1>1
  <2> QED BY <2>1
<1>5. o.mode \in {"plain", "unrelated"} => o.parents = <<head, o.from>>
  OBVIOUS
<1>6. \A p \in DiffTree(base, TreeAt(side[b])) : TreeAt(head)[p] = base[p]
  BY <1>3 DEF DiffTree
<1>7. UNCHANGED <<objects, head, side, staged, files, losses>>
  BY DEF Merge
<1> HIDE DEF o
<1> QED BY <1>2, <1>3, <1>4, <1>5, <1>6, <1>7, BeginIInv

LEMMA CherryPickIInv ==
  ASSUME MergeIInv, NEW b \in Branches, CherryPick(b)
  PROVE  MergeIInv'
<1>1. side[b] \in 1..Len(objects) /\ head \in 1..Len(objects) /\ MergeTypeOK
  BY DEF MergeIInv, MergeTypeOK
<1>2. TreeAt(side[b]) \in Tree
  BY <1>1, TreeAtType
<1> DEFINE o == [mode |-> "pick", from |-> side[b], parents |-> <<head>>]
<1>3. op' = ApplyChanges(o, TreeAt(objects[side[b]].parents[1]), TreeAt(side[b]))
  BY DEF CherryPick
<1>4. o.parents \in Seq(Nat) /\ o.mode = "pick"
  BY <1>1
<1>5. UNCHANGED <<objects, head, side, staged, files, losses>>
  BY DEF CherryPick
<1> HIDE DEF o
<1> QED BY <1>2, <1>3, <1>4, <1>5, BeginIInv

(* One more path holds what the other side has.                            *)
LEMMA WritePathIInv ==
  ASSUME MergeIInv, NEW p \in Paths, WritePath(p)
  PROVE  MergeIInv'
<1>1. op.pc = "apply" /\ p \in op.todo /\ UNCHANGED <<objects, head, side, losses>>
      /\ files' = [files EXCEPT ![p] = op.source[p]]
      /\ staged' = [staged EXCEPT ![p] = op.source[p]]
      /\ op' = [op EXCEPT !.todo = @ \ {p}]
  BY DEF WritePath
<1>2. IsCall(op) /\ op.source \in Tree /\ op.o.parents \in Seq(Nat)
  BY <1>1 DEF MergeIInv, CallOK, NoOp
<1>3. /\ IsCall(op') /\ op'.pc = "apply" /\ op'.o = op.o /\ op'.source = op.source
      /\ op'.base = op.base /\ op'.files = op.files /\ op'.clean = op.clean
      /\ op'.todo = op.todo \ {p} /\ op'.kept = op.kept
  BY <1>1, <1>2 DEF IsCall
<1>4. MergeTypeOK'
  <2>1. op.source[p] \in Contents \cup {None}
    BY <1>2 DEF Tree
  <2>2. staged' \in Tree /\ files' \in Tree
    BY <1>1, <2>1 DEF MergeIInv, MergeTypeOK, Tree
  <2> QED BY <1>1, <2>2 DEF MergeIInv, MergeTypeOK
<1>5. CallOK'
  <2>1. IsCall(op)'
    BY <1>3 DEF IsCall
  <2> QED BY <1>2, <1>3, <2>1 DEF CallOK
<1>6. Theirs' = Theirs /\ TreeAt(head)' = TreeAt(head)
  BY <1>1, <1>3 DEF Theirs, DiffTree, TreeAt
<1>7. p \in Theirs /\ p \notin op.kept /\ TodoOK' /\ KeptOK'
  BY <1>1, <1>3, <1>6 DEF MergeIInv, Applied, TodoOK, KeptOK
<1>8. \A d \in Paths : /\ staged'[d] = IF d = p THEN op.source[p] ELSE staged[d]
                       /\ files'[d] = IF d = p THEN op.source[p] ELSE files[d]
  BY <1>1 DEF MergeIInv, MergeTypeOK, Tree
<1>9. IndexOK'
  <2>1. SUFFICES ASSUME op.clean, NEW d \in Paths
                 PROVE  staged'[d] = IF d \in (Theirs \ (op.todo \ {p})) \ op.kept
                                     THEN op.source[d] ELSE TreeAt(head)[d]
    BY <1>3, <1>6 DEF IndexOK
  <2>2. staged[d] = IF d \in (Theirs \ op.todo) \ op.kept THEN op.source[d] ELSE TreeAt(head)[d]
    BY <1>1, <2>1 DEF MergeIInv, Applied, IndexOK
  <2> QED BY <1>7, <1>8, <2>2
<1>10. FilesOK'
  BY <1>1, <1>3, <1>6, <1>7, <1>8 DEF MergeIInv, Applied, FilesOK
<1>11. NoConflict'
  BY <1>1, <1>3, <1>6 DEF MergeIInv, Applied, NoConflict
<1>12. ParentsOK'
  BY <1>1, <1>3 DEF MergeIInv, Applied, ParentsOK
<1> QED BY <1>4, <1>5, <1>7, <1>9, <1>10, <1>11, <1>12 DEF MergeIInv, Applied

(* One more path is left as the branch has it, because the other side has  *)
(* none and it could not be deleted.                                       *)
LEMMA DeleteFailsIInv ==
  ASSUME MergeIInv, NEW p \in Paths, DeleteFails(p)
  PROVE  MergeIInv'
<1>1. op.pc = "apply" /\ p \in op.todo /\ UNCHANGED <<objects, head, side, staged>>
      /\ op.source[p] = None /\ losses' = losses + 1
      /\ op' = [op EXCEPT !.todo = @ \ {p}, !.kept = @ \cup {p}]
  BY DEF DeleteFails
<1>2. IsCall(op) /\ op.source \in Tree /\ op.o.parents \in Seq(Nat)
  BY <1>1 DEF MergeIInv, CallOK, NoOp
<1>3. /\ IsCall(op') /\ op'.pc = "apply" /\ op'.o = op.o /\ op'.source = op.source
      /\ op'.base = op.base /\ op'.files = op.files /\ op'.clean = op.clean
      /\ op'.todo = op.todo \ {p} /\ op'.kept = op.kept \cup {p}
  BY <1>1, <1>2 DEF IsCall
<1>4. PICK v \in {files[p], None} : files' = [files EXCEPT ![p] = v]
  BY DEF DeleteFails
<1>5. MergeTypeOK'
  <2>1. files' \in Tree
    BY <1>4 DEF MergeIInv, MergeTypeOK, Tree
  <2> QED BY <1>1, <2>1 DEF MergeIInv, MergeTypeOK
<1>6. CallOK'
  <2>1. IsCall(op)'
    BY <1>3 DEF IsCall
  <2> QED BY <1>2, <1>3, <2>1 DEF CallOK
<1>7. Theirs' = Theirs /\ TreeAt(head)' = TreeAt(head)
  BY <1>1, <1>3 DEF Theirs, DiffTree, TreeAt
<1>8. p \in Theirs /\ TodoOK' /\ KeptOK'
  BY <1>1, <1>3, <1>7 DEF MergeIInv, Applied, TodoOK, KeptOK
<1>9. IndexOK'
  BY <1>1, <1>3, <1>7 DEF MergeIInv, Applied, IndexOK
<1>10. FilesOK'
  <2>1. \A d \in Paths \ {p} : files'[d] = files[d]
    BY <1>4 DEF MergeIInv, MergeTypeOK, Tree
  <2> QED BY <1>1, <1>3, <1>7, <1>8, <2>1 DEF MergeIInv, Applied, FilesOK
<1>11. NoConflict' /\ ParentsOK'
  BY <1>1, <1>3, <1>7 DEF MergeIInv, Applied, NoConflict, ParentsOK
<1> QED BY <1>5, <1>6, <1>8, <1>9, <1>10, <1>11 DEF MergeIInv, Applied

LEMMA WritingEndsIInv ==
  ASSUME MergeIInv, NEW p \in Paths, WritingEnds(p)
  PROVE  MergeIInv'
<1>1. op.pc = "apply" /\ op' = NoOp
  BY DEF WritingEnds
<1>2. IsCall(op) /\ op.source \in Tree
  BY <1>1 DEF MergeIInv, CallOK, NoOp
<1>3. op.source[p] \in Contents \cup {None} /\ files[p] \in Contents \cup {None}
  BY <1>2 DEF MergeIInv, MergeTypeOK, Tree
<1>4. PICK v \in {files[p], op.source[p]} : files' = [files EXCEPT ![p] = v]
  BY DEF WritingEnds
<1>5. files' \in Tree
  BY <1>3, <1>4 DEF MergeIInv, MergeTypeOK, Tree
<1>6. MergeTypeOK'
  BY <1>5 DEF MergeIInv, MergeTypeOK, WritingEnds
<1> QED BY <1>1, <1>6, EndIInv

(* The commit of a call has the index as its tree.                         *)
LEMMA CommitAppliedType ==
  ASSUME MergeIInv, CommitApplied
  PROVE  /\ MergeTypeOK'
         /\ head' # head =>
               objects'[head'] = [parents |-> op.o.parents, tree |-> staged]
<1>1. op.o.parents \in Seq(Nat) /\ staged \in Tree /\ MergeTypeOK
  BY DEF MergeIInv, CallOK, NoOp, MergeTypeOK, CommitApplied
<1>2. CASE UNCHANGED <<objects, head>>
  BY <1>1, <1>2 DEF MergeTypeOK, CommitApplied
<1>3. CASE AddObject(op.o.parents, staged) /\ head' = Len(objects) + 1
  <2>1. /\ objects' \in Seq(Object) /\ Len(objects') = Len(objects) + 1
        /\ objects'[Len(objects) + 1] = [parents |-> op.o.parents, tree |-> staged]
    BY <1>1, <1>3, AddObjectType
  <2>2. head' \in 1..Len(objects') /\ side \in [Branches -> 1..Len(objects')]
    BY <1>1, <1>3, <2>1 DEF MergeTypeOK
  <2> QED BY <1>1, <1>3, <2>1, <2>2 DEF MergeTypeOK, CommitApplied
<1> QED BY <1>2, <1>3 DEF CommitApplied

LEMMA CommitAppliedIInv == ASSUME MergeIInv, CommitApplied PROVE MergeIInv'
  BY CommitAppliedType, EndIInv DEF CommitApplied

LEMMA FastForwardIInv ==
  ASSUME MergeIInv, NEW b \in Branches, FastForward(b) PROVE MergeIInv'
<1>1. MergeTypeOK'
  BY DEF MergeIInv, MergeTypeOK, FastForward
<1> QED BY <1>1, IdleIInv DEF FastForward

LEMMA EditFileIInv ==
  ASSUME MergeIInv, NEW p \in Paths, NEW v \in Contents \cup {None}, EditFile(p, v)
  PROVE  MergeIInv'
<1>1. MergeTypeOK'
  BY DEF MergeIInv, MergeTypeOK, EditFile, Tree
<1> QED BY <1>1, IdleIInv DEF EditFile

LEMMA CommitFileIInv ==
  ASSUME MergeIInv, NEW p \in Paths, CommitFile(p) PROVE MergeIInv'
<1> DEFINE t == [staged EXCEPT ![p] = files[p]]
<1>1. MergeTypeOK /\ t \in Tree /\ <<head>> \in Seq(Nat)
  BY DEF MergeIInv, MergeTypeOK, Tree
<1>2. staged' = t /\ AddObject(<<head>>, t) /\ head' = Len(objects) + 1
      /\ UNCHANGED <<side, files, op, losses>> /\ op.pc = "none"
  BY DEF CommitFile
<1> HIDE DEF t
<1>3. objects' \in Seq(Object) /\ Len(objects') = Len(objects) + 1
  BY <1>1, <1>2, AddObjectType
<1>4. MergeTypeOK'
  BY <1>1, <1>2, <1>3 DEF MergeTypeOK
<1> QED BY <1>2, <1>4, IdleIInv

LEMMA ResetToHeadIInv == ASSUME MergeIInv, ResetToHead PROVE MergeIInv'
<1>1. TreeAt(head) \in Tree
  BY TreeAtType DEF MergeIInv, MergeTypeOK
<1>2. MergeTypeOK'
  BY <1>1 DEF MergeIInv, MergeTypeOK, ResetToHead
<1> QED BY <1>2, IdleIInv DEF ResetToHead

LEMMA ArrivesIInv ==
  ASSUME MergeIInv, NEW b \in Branches, NEW p \in Paths,
         NEW v \in Contents \cup {None}, Arrives(b, p, v)
  PROVE  MergeIInv'
<1>1. MergeTypeOK /\ side[b] \in 1..Len(objects) /\ head \in 1..Len(objects)
  BY DEF MergeIInv, MergeTypeOK
<1>2. TreeAt(side[b]) \in Tree /\ TreeAt(head) \in Tree
  BY <1>1, TreeAtType
<1>3. PICK ps \in Seq(Nat), t \in Tree : AddObject(ps, t)
  <2>1. <<side[b]>> \in Seq(Nat) /\ <<side[b], head>> \in Seq(Nat)
    BY <1>1
  <2>2. [TreeAt(side[b]) EXCEPT ![p] = v] \in Tree /\ [TreeAt(head) EXCEPT ![p] = v] \in Tree
    BY <1>2 DEF Tree
  <2> QED BY <2>1, <2>2 DEF Arrives
<1>4. objects' \in Seq(Object) /\ Len(objects') = Len(objects) + 1
  BY <1>1, <1>3, AddObjectType
<1>5. side' = [side EXCEPT ![b] = Len(objects) + 1] /\ op.pc = "none"
      /\ UNCHANGED <<head, staged, files, op, losses>>
  BY DEF Arrives
<1>6. MergeTypeOK'
  BY <1>1, <1>4, <1>5 DEF MergeTypeOK
<1> QED BY <1>5, <1>6, IdleIInv
-----------------------------------------------------------------------------
LEMMA NextMergeIInv == ASSUME MergeIInv, [MergeNext]_mergeVars PROVE MergeIInv'
<1>1. CASE UNCHANGED mergeVars
  BY <1>1 DEF mergeVars, MergeIInv, MergeTypeOK, CallOK, IsCall, Applied, TodoOK,
     KeptOK, IndexOK, FilesOK, NoConflict, ParentsOK, Theirs, DiffTree, TreeAt
<1>2. CASE MergeNext
  BY <1>2, CommitAppliedIInv, ResetToHeadIInv, FastForwardIInv, CherryPickIInv,
     MergeStepIInv, ArrivesIInv, WritePathIInv, DeleteFailsIInv, WritingEndsIInv,
     CommitFileIInv, EditFileIInv
     DEF MergeNext
<1> QED BY <1>1, <1>2

(* The invariant holds throughout.                                         *)
THEOREM MergeIInvCorrect == MergeSpec => []MergeIInv
<1>1. MergeInit => MergeIInv
  BY InitMergeIInv
<1>2. MergeIInv /\ [MergeNext]_mergeVars => MergeIInv'
  BY NextMergeIInv
<1> QED BY <1>1, <1>2, PTL DEF MergeSpec

(* What a call that comes to its end has committed or left in the index.   *)
LEMMA CommitCarriesBoth ==
  ASSUME MergeIInv, CommitApplied, op.clean
  PROVE  /\ staged' = [p \in Paths |-> IF p \in Theirs \ op.kept THEN op.source[p]
                                       ELSE TreeAt(head)[p]]
         /\ \A p \in Theirs \ (Theirs \ op.kept) : op.source[p] = None
         /\ \A p \in Paths \ Theirs : files'[p] = op.files[p]
         /\ op.o.mode # "pick" => \A p \in Theirs : TreeAt(head)[p] = op.base[p]
         /\ head' # head => objects'[head'].tree = staged'
         /\ op.o.mode \in {"plain", "unrelated"} /\ head' # head =>
               Parents(head)' = {head, op.o.from}
<1>1. op.pc = "apply" /\ op.todo = {} /\ staged' = staged /\ files' = files
  BY DEF CommitApplied
<1>2. \A p \in Paths :
         staged[p] = IF p \in Theirs \ op.kept THEN op.source[p] ELSE TreeAt(head)[p]
  BY <1>1 DEF MergeIInv, Applied, IndexOK
<1>3. staged' = [p \in Paths |-> IF p \in Theirs \ op.kept THEN op.source[p]
                                  ELSE TreeAt(head)[p]]
  <2>1. staged = [p \in Paths |-> staged[p]]
    BY DEF MergeIInv, MergeTypeOK, Tree
  <2> QED BY <1>1, <1>2, <2>1
<1>4. \A p \in Paths \ Theirs : files'[p] = op.files[p]
  BY <1>1 DEF MergeIInv, Applied, FilesOK
<1>5. op.o.mode # "pick" => \A p \in Theirs : TreeAt(head)[p] = op.base[p]
  BY <1>1 DEF MergeIInv, Applied, NoConflict
<1>6. head' # head => objects'[head'] = [parents |-> op.o.parents, tree |-> staged]
  BY CommitAppliedType
<1>7. ASSUME op.o.mode \in {"plain", "unrelated"}, head' # head
      PROVE  Parents(head)' = {head, op.o.from}
  <2>1. objects'[head'].parents = <<head, op.o.from>>
    BY <1>1, <1>6, <1>7 DEF MergeIInv, Applied, ParentsOK
  <2> QED BY <2>1 DEF Parents
<1>8. \A p \in Theirs \ (Theirs \ op.kept) : op.source[p] = None
  BY <1>1 DEF MergeIInv, Applied, KeptOK
<1> QED BY <1>1, <1>3, <1>4, <1>5, <1>6, <1>7, <1>8

(* A merge or a pick that began with an index as committed and comes to    *)
(* its end has carried over what the other side changed and kept what it   *)
(* did not, in the index and in the commit, whatever the history; what it  *)
(* leaves as the branch had it are files that it could not delete, and no  *)
(* others.                                                                 *)
THEOREM MergeCarriesBothCorrect == MergeSpec => MergeCarriesBoth
<1>1. ASSUME MergeIInv, MergeNext, op.pc = "apply", op'.pc = "none", losses' = losses
      PROVE  CommitApplied
  <2>1. \A p \in Paths : ~WritingEnds(p)
    BY <1>1 DEF WritingEnds, MergeIInv, MergeTypeOK
  <2>2. \A p \in Paths : ~WritePath(p) /\ ~DeleteFails(p)
    <3> SUFFICES ASSUME NEW p \in Paths, WritePath(p) \/ DeleteFails(p) PROVE FALSE
      OBVIOUS
    <3>1. IsCall(op)
      BY <1>1 DEF MergeIInv, CallOK, NoOp
    <3>2. op'.pc = "apply"
      BY <3>1 DEF WritePath, DeleteFails, IsCall
    <3> QED BY <1>1, <3>2
  <2> QED BY <1>1, <2>1, <2>2
       DEF MergeNext, ResetToHead, FastForward, CherryPick, Merge, Arrives,
           CommitFile, EditFile
<1>2. MergeIInv /\ [MergeNext]_mergeVars =>
        [op.pc = "apply" /\ op'.pc = "none" /\ losses' = losses /\ op.clean =>
         LET theirs == DiffTree(op.base, op.source)
             carried == theirs \ op.kept
             ours == TreeAt(head)
         IN  /\ staged' = [p \in Paths |->
                              IF p \in carried THEN op.source[p] ELSE ours[p]]
             /\ \A p \in theirs \ carried : op.source[p] = None
             /\ \A p \in Paths \ theirs : files'[p] = op.files[p]
             /\ op.o.mode # "pick" =>
                   \A p \in theirs : ours[p] = op.base[p]
             /\ head' # head => objects'[head'].tree = staged'
             /\ op.o.mode \in {"plain", "unrelated"} /\ head' # head =>
                   Parents(head)' = {head, op.o.from}]_mergeVars
  <2> SUFFICES ASSUME MergeIInv, MergeNext, op.pc = "apply", op'.pc = "none",
                      losses' = losses, op.clean
               PROVE  LET theirs == DiffTree(op.base, op.source)
                          carried == theirs \ op.kept
                          ours == TreeAt(head)
                      IN  /\ staged' = [p \in Paths |->
                                  IF p \in carried THEN op.source[p] ELSE ours[p]]
                          /\ \A p \in theirs \ carried : op.source[p] = None
                          /\ \A p \in Paths \ theirs : files'[p] = op.files[p]
                          /\ op.o.mode # "pick" =>
                                \A p \in theirs : ours[p] = op.base[p]
                          /\ head' # head => objects'[head'].tree = staged'
                          /\ op.o.mode \in {"plain", "unrelated"} /\ head' # head =>
                                Parents(head)' = {head, op.o.from}
    OBVIOUS
  <2>1. CommitApplied
    BY <1>1
  <2> QED BY <2>1, CommitCarriesBoth DEF Theirs
<1> QED BY MergeIInvCorrect, <1>2, PTL DEF MergeCarriesBoth, MergeSpec
=============================================================================
