---------------------------- MODULE RebaseProofs ----------------------------
(***************************************************************************)
(* Proofs about Rebase, for any histories at first, any number of paths,   *)
(* faults, rebases and edits.  orig-head, where it is there, is what the   *)
(* branch was when the rebase began, unless another one began in it        *)
(* (OriginOK), so abort finds what to restore (AbortOK); without a fault   *)
(* the count on disk is that of the commits a continue lists anew          *)
(* (PlanOK); and a rebase that may be continued has moved the branch       *)
(* (TopOK), because before that msgnum is not written (MsgnumOK).          *)
(*                                                                         *)
(* On top of that invariant there is a second one, ReplayInv, about what   *)
(* the replay has done so far.  Unless rebases are nested or a state file  *)
(* misleads one, every call replays the same list (ListOK),                *)
(* and what it has passed is in the branch, was reported, or fell to a     *)
(* fault (DroppedOK).  While nothing disturbs it, the branch is the target *)
(* with the changes so far after it, and the index has each path as the    *)
(* only one of them that touched it, or still has one that this deletes    *)
(* (CalmOK).                                                               *)
(***************************************************************************)
EXTENDS Rebase, FiniteSetTheorems, WellFoundedInduction, TLAPS

Saving == {"orig-head", "onto", "head-name", "end"}
Aborting == {"restore", "restore-tree", "clean-aborted"}
Pcs == Saving \cup Aborting \cup
       {"idle", "move", "reset", "replay", "apply", "clean", "panic"}

(* The values that the variables take.                                     *)
RebaseTypeOK ==
    /\ tip \in Commit /\ onto \in Commit
    /\ index \in Tree /\ work \in Tree
    /\ dir \in State
    /\ pc \in Pcs
    /\ commits \in Seq(Commit)
    /\ i \in Nat /\ end \in Nat
    /\ pc = "apply" => i < Len(commits)
    /\ todo \subseteq Paths
    /\ note \in Note

OriginOK == ~note.nested =>
    /\ dir.origHead # <<>> => dir.origHead = note.origin
    /\ pc = "orig-head" => tip = note.origin

Restored == /\ index = TreeOf(tip)
            /\ \A p \in Paths : index[p] # None => work[p] = index[p]
AbortOK ==
    /\ pc \in Aborting => note.aborting /\ dir.origHead # <<>>
    /\ pc \in {"restore-tree", "clean-aborted"} => tip = dir.origHead
    /\ pc = "clean-aborted" => Restored

(* What a rebase of c onto d replays.                                      *)
Plan(c, d) == CommitsBetween(BaseLength(c, d), c)

PlanOK == note.faults = 0 =>
    /\ pc \in Saving \cup {"move", "reset", "replay", "apply"} => end = Len(commits)
    /\ pc \in Saving => commits = Plan(tip, onto)
    /\ pc \in {"onto", "head-name", "end"} => dir.origHead = tip
    /\ pc \in {"head-name", "end"} => dir.onto = onto
    /\ pc \notin Saving /\ dir.end # -1 => dir.end = Len(Plan(dir.origHead, dir.onto))
    /\ pc # "panic"

MsgnumOK == note.faults = 0 =>
    /\ dir.origHead = <<>> => dir.msgnum = -1
    /\ pc \in {"onto", "head-name", "end", "move", "reset", "replay", "apply"} =>
          dir.origHead # <<>>
    /\ ~note.nested /\ pc \in Saving \cup {"move"} => dir.msgnum = -1

OnTop == Len(onto) <= Len(tip) /\ SubSeq(tip, 1, Len(onto)) = onto
TopOK == ~note.nested /\ ~note.aborting /\ note.faults <= 1 =>
    /\ pc \in {"reset", "replay", "apply", "panic", "clean"} => OnTop
    /\ pc = "idle" /\ dir.origHead # <<>> /\ dir.msgnum # -1 => OnTop

RebaseInv == RebaseTypeOK /\ OriginOK /\ AbortOK /\ PlanOK /\ MsgnumOK /\ TopOK

(* Where the replay starts from nothing.                                   *)
StartOK == pc \in Saving \cup {"idle", "move", "reset"} => i = 0

(* The changes to replay since the rebase began.  In a rebase that is      *)
(* neither nested nor misled, the first call and a continue                *)
(* list the same ones, and msgnum lags behind.                             *)
Todo == Plan(note.origin, onto)
ListOK == ~note.nested /\ ~note.misled =>
    /\ dir.onto \in {<<>>, onto} /\ dir.end \in {-1, Len(Todo)}
    /\ pc # "panic"
    /\ pc \in Saving \cup {"move"} => tip = note.origin
    /\ pc \in Saving => dir.end = -1
    /\ pc \in Saving \cup {"move", "reset"} => dir.msgnum = -1
    /\ pc \in Saving \cup {"move", "reset", "replay", "apply", "clean"} =>
          commits = Todo /\ end = Len(Todo)
    /\ pc = "replay" => dir.msgnum < i
    /\ pc = "apply" => dir.msgnum <= i
    /\ pc = "clean" => Len(Todo) <= i

(* How many of them are dealt with, and which of those are in neither the  *)
(* messages of the branch nor those the caller was told of.                *)
Progress == IF pc \in {"replay", "apply", "clean"} THEN i ELSE dir.msgnum + 1
Dealt(p, k) == {MsgOf(p[j]) : j \in {l \in DOMAIN p : l <= k}}
Missing == Dealt(Todo, Progress) \ (MessagesOf(tip) \cup note.stopped)
DroppedOK == ~note.nested /\ ~note.misled => Cardinality(Missing) <= note.faults

(* After k of the changes cs onto o, path q of the tree t has the content  *)
(* of the only one of them that touched it, or that of o: if none did, or  *)
(* that one deletes q, which is among the kept paths.                      *)
Touching(cs, q, k) == {j \in 1..k : TreeOf(cs[j])[q] # TreeOf(Parent(cs[j]))[q]}
Sided(cs, o, t, q, k, kept) ==
    /\ Touching(cs, q, k) = {} => t[q] = TreeOf(o)[q]
    /\ \A j \in Touching(cs, q, k) : Touching(cs, q, k) = {j} =>
          \/ t[q] = TreeOf(cs[j])[q]
          \/ q \in kept /\ TreeOf(cs[j])[q] = None /\ t[q] = TreeOf(o)[q]

(* The branch is the target with the first k changes of cs after it.       *)
Replayed(t, cs, o, k) ==
    /\ k <= Len(cs) /\ Len(t) = Len(o) + k
    /\ \A j \in 1..k : t[Len(o) + j].msg = MsgOf(cs[j])
CalmOK == note.calm =>
    /\ pc \notin Aborting \cup {"panic"}
    /\ pc = "idle" => dir = NoState
    /\ pc # "idle" => end = Len(commits)
    /\ pc = "reset" => tip = onto
    /\ pc \in {"replay", "apply", "clean"} => Replayed(tip, commits, onto, i)
    /\ pc \in {"replay", "clean"} =>
          /\ index = TreeOf(tip)
          /\ \A q \in Paths : Sided(commits, onto, index, q, i, note.kept)
    /\ pc = "apply" =>
          /\ todo \subseteq Changed(commits[i + 1])
          /\ \A q \in todo : Sided(commits, onto, index, q, i, note.kept)
          /\ \A q \in Paths \ todo : Sided(commits, onto, index, q, i + 1, note.kept)
    /\ pc = "clean" => i = Len(commits)

ReplayInv == StartOK /\ ListOK /\ DroppedOK /\ CalmOK
-----------------------------------------------------------------------------
Change == [msg : Messages \cup {UserMsg}, tree : Tree]

(* A commit is a sequence of changes, of one at least.                     *)
LEMMA CommitIsSeq ==
  ASSUME NEW c
  PROVE  c \in Commit <=> c \in Seq(Change) /\ c # <<>>
  BY DEF Commit, Change

LEMMA CommitLength ==
  ASSUME NEW c \in Commit
  PROVE  /\ c \in Seq(Change) /\ Len(c) \in Nat \ {0}
         /\ \A k \in 1..Len(c) : c[k] \in Change
<1>1. c \in Seq(Change) /\ c # <<>>
  BY CommitIsSeq
<1> QED BY <1>1

(* Numbers up to k have a greatest one.                                    *)
LEMMA Greatest ==
  ASSUME NEW k \in Nat, NEW S, S \subseteq 0..k, S # {}
  PROVE  \E x \in S : \A y \in S : y <= x
<1> DEFINE D == {x..k : x \in S}
<1>1. IsFiniteSet(0..k)
  BY FS_Interval
<1>2. D \subseteq SUBSET (0..k) /\ D # {}
  <2>1. \A x \in S : x..k \subseteq 0..k
    OBVIOUS
  <2>2. PICK x \in S : TRUE
    OBVIOUS
  <2>3. x..k \in D
    BY <2>2
  <2> QED BY <2>1, <2>3
<1>3. D \subseteq FiniteSubsetsOf(0..k)
  BY <1>1, <1>2, FS_FiniteSubsetsOfFinite
<1>4. \E X \in D : \A Y \in D : ~(<<Y, X>> \in StrictSubsetOrdering(0..k))
  <2> HIDE DEF D
  <2> QED BY <1>2, <1>3, WFMin, FS_StrictSubsetOrderingWellFounded
<1>5. PICK x \in S : \A y \in S : ~(<<y..k, x..k>> \in StrictSubsetOrdering(0..k))
  BY <1>4
<1>6. ASSUME NEW y \in S PROVE y <= x
  <2> SUFFICES ASSUME x < y PROVE FALSE
    BY <1>5
  <2>1. x..k \subseteq 0..k /\ y..k \subseteq 0..k /\ x \in x..k /\ x \notin y..k
    BY <1>5
  <2>2. y..k \subseteq x..k /\ y..k # x..k
    BY <2>1
  <2> QED BY <1>5, <2>1, <2>2 DEF StrictSubsetOrdering
<1> QED BY <1>6

(* Two commits have a last common one, or none: the length of the merge    *)
(* base is what it is chosen to be.                                        *)
LEMMA BaseLengthRange ==
  ASSUME NEW c \in Commit, NEW d \in Commit
  PROVE  /\ BaseLength(c, d) \in 0..Len(c) /\ BaseLength(c, d) <= Len(d)
         /\ SubSeq(c, 1, BaseLength(c, d)) = SubSeq(d, 1, BaseLength(c, d))
<1> DEFINE Common(n) == n <= Len(d) /\ SubSeq(c, 1, n) = SubSeq(d, 1, n)
           S == {n \in 0..Len(c) : Common(n)}
<1>1. c \in Seq(Change) /\ d \in Seq(Change) /\ Len(c) \in Nat /\ Len(d) \in Nat
  BY CommitLength
<1>2. 0 \in S
  <2>1. SubSeq(c, 1, 0) = <<>> /\ SubSeq(d, 1, 0) = <<>>
    BY <1>1
  <2> QED BY <1>1, <2>1
<1>3. PICK n \in S : \A k \in S : k <= n
  <2>1. S \subseteq 0..Len(c) /\ S # {}
    BY <1>2
  <2> HIDE DEF S
  <2> QED BY <1>1, <2>1, Greatest
<1>4. n \in Nat /\ n <= Len(c) /\ Common(n)
  BY <1>1, <1>3
<1>5. ASSUME n < Len(c), n < Len(d) PROVE c[n + 1] # d[n + 1]
  <2> SUFFICES ASSUME c[n + 1] = d[n + 1] PROVE FALSE
    OBVIOUS
  <2>1. \A k \in 1..n : c[k] = d[k]
    <3> SUFFICES ASSUME NEW k \in 1..n PROVE c[k] = d[k]
      OBVIOUS
    <3>1. SubSeq(c, 1, n)[k] = c[k] /\ SubSeq(d, 1, n)[k] = d[k]
      BY <1>1, <1>4, <1>5
    <3> QED BY <1>4, <3>1
  <2>2. SubSeq(c, 1, n + 1) = SubSeq(d, 1, n + 1)
    <3>1. \A k \in 1..(n + 1) : c[k] = d[k]
      BY <1>4, <2>1
    <3> QED BY <3>1, <1>1, <1>4, <1>5
  <2>3. n + 1 \in S
    BY <2>2, <1>1, <1>4, <1>5
  <2> QED BY <2>3, <1>3, <1>4
<1>6. \E b \in 0..Len(c) :
         /\ b <= Len(d) /\ SubSeq(c, 1, b) = SubSeq(d, 1, b)
         /\ (b < Len(c) /\ b < Len(d)) => c[b + 1] # d[b + 1]
  BY <1>1, <1>4, <1>5
<1> QED BY <1>6, Zenon DEF BaseLength

(* The commits to replay are commits, as many as lie behind the base.      *)
LEMMA PlanType ==
  ASSUME NEW c \in Commit, NEW d \in Commit
  PROVE  Plan(c, d) \in Seq(Commit) /\ Len(Plan(c, d)) = Len(c) - BaseLength(c, d)
<1> DEFINE n == BaseLength(c, d)
<1>1. n \in 0..Len(c) /\ c \in Seq(Change) /\ Len(c) \in Nat
  BY BaseLengthRange, CommitLength
<1>2. Plan(c, d) = [k \in 1..Len(c) - n |-> SubSeq(c, 1, Len(c) + 1 - k)]
  BY DEF Plan, CommitsBetween
<1> HIDE DEF n
<1>3. \A k \in 1..(Len(c) - n) : SubSeq(c, 1, Len(c) + 1 - k) \in Commit
  <2> SUFFICES ASSUME NEW k \in 1..(Len(c) - n)
               PROVE  SubSeq(c, 1, Len(c) + 1 - k) \in Commit
    OBVIOUS
  <2>1. Len(c) + 1 - k \in 1..Len(c)
    BY <1>1
  <2> DEFINE p == SubSeq(c, 1, Len(c) + 1 - k)
  <2>2. p \in Seq(Change) /\ Len(p) = Len(c) + 1 - k
    BY <2>1, <1>1
  <2> HIDE DEF p
  <2>3. p # <<>>
    BY <2>1, <2>2
  <2>4. p \in Commit
    BY <2>2, <2>3, CommitIsSeq
  <2> QED BY <2>4 DEF p
<1>4. Len(c) - n \in Nat
  BY <1>1
<1>5. Plan(c, d) \in Seq(Commit) /\ Len(Plan(c, d)) = Len(c) - n
  <2> DEFINE m == Len(c) - n
             f(k) == SubSeq(c, 1, Len(c) + 1 - k)
  <2>1. Plan(c, d) = [k \in 1..m |-> f(k)] /\ m \in Nat
        /\ \A k \in 1..m : f(k) \in Commit
    BY <1>2, <1>3, <1>4
  <2> HIDE DEF m, f
  <2>2. Plan(c, d) \in Seq(Commit) /\ Len(Plan(c, d)) = m
    BY <2>1
  <2> QED BY <2>2 DEF m
<1> QED BY <1>5 DEF n

LEMMA CommitParts ==
  ASSUME NEW c \in Commit PROVE TreeOf(c) \in Tree /\ MsgOf(c) \in Messages \cup {UserMsg}
<1>1. c[Len(c)] \in Change
  BY CommitLength
<1> QED BY <1>1 DEF TreeOf, MsgOf, Change

(* A commit that is added is one, and the branch stays where it was below. *)
LEMMA AppendCommit ==
  ASSUME RebaseTypeOK, NEW msg \in Messages \cup {UserMsg}, CommitIndex(msg)
  PROVE  tip' \in Commit /\ (OnTop /\ UNCHANGED onto => OnTop')
<1> DEFINE r == [msg |-> msg, tree |-> index]
<1>1. r \in Change
  BY DEF RebaseTypeOK, Change
<1>2. tip' = Append(tip, r)
  BY DEF CommitIndex
<1> HIDE DEF r
<1>0. tip \in Seq(Change) /\ onto \in Seq(Change)
  BY CommitLength DEF RebaseTypeOK
<1>3. tip' \in Seq(Change) /\ Len(tip') = Len(tip) + 1 /\ Len(tip) \in Nat
      /\ \A k \in 1..Len(tip) : tip'[k] = tip[k]
  BY <1>0, <1>1, <1>2
<1>4. tip' \in Commit
  <2>1. tip' # <<>>
    BY <1>3
  <2> QED BY <1>3, <2>1, CommitIsSeq
<1>5. ASSUME OnTop, UNCHANGED onto PROVE OnTop'
  <2>1. Len(onto) \in Nat /\ Len(onto) <= Len(tip) /\ SubSeq(tip, 1, Len(onto)) = onto
    BY <1>0, <1>5 DEF OnTop
  <2>2. SubSeq(tip', 1, Len(onto)) = SubSeq(tip, 1, Len(onto))
    BY <1>0, <1>3, <2>1
  <2> QED BY <1>3, <1>5, <2>1, <2>2 DEF OnTop
<1> QED BY <1>4, <1>5

LEMMA ResetTypes ==
  ASSUME RebaseTypeOK, NEW t \in Tree, HardReset(t)
  PROVE  /\ index' = t /\ index' \in Tree /\ work' \in Tree
         /\ \A p \in Paths : index'[p] # None => work'[p] = index'[p]
<1>1. PICK kept \in SUBSET {p \in Paths : index[p] = None /\ t[p] = None} :
         work' = [p \in Paths |-> IF p \in kept THEN work[p] ELSE t[p]]
  BY DEF HardReset
<1>2. index' = t
  BY DEF HardReset
<1> QED BY <1>1, <1>2 DEF RebaseTypeOK, Tree

(* A state file is written, or it is not and that is a fault.              *)
LEMMA WriteFacts ==
  ASSUME RebaseTypeOK, NEW f, NEW v, WriteStateFile(f, v)
  PROVE  /\ note' \in Note /\ note'.origin = note.origin
         /\ note'.nested = note.nested /\ note'.aborting = note.aborting
         /\ \/ dir' = [dir EXCEPT ![f] = v] /\ note'.faults = note.faults
            \/ /\ note'.faults = note.faults + 1
               /\ dir' = dir \/ (f \in Counts /\ dir' = [dir EXCEPT ![f] = 0])
         /\ note.faults \in Nat
<1>1. note \in Note /\ note.faults \in Nat /\ MaxFaults \in Nat
  BY RebaseAssumption DEF RebaseTypeOK, Note
<1>2. CASE dir' = [dir EXCEPT ![f] = v] /\ UNCHANGED note
  BY <1>1, <1>2
<1>3. CASE /\ note.faults < MaxFaults
           /\ \/ note' = [note EXCEPT !.faults = @ + 1]
              \/ note' = [note EXCEPT !.faults = @ + 1, !.misled = TRUE]
           /\ dir' = dir \/ (f \in Counts /\ dir' = [dir EXCEPT ![f] = 0])
  <2>1. note.faults + 1 \in 0..MaxFaults
    BY <1>1, <1>3
  <2>2. note' \in Note /\ note'.faults = note.faults + 1 /\ note'.origin = note.origin
        /\ note'.nested = note.nested /\ note'.aborting = note.aborting
    BY <1>1, <1>3, <2>1 DEF Note
  <2> QED BY <1>1, <1>3, <2>2
<1> QED BY <1>2, <1>3 DEF WriteStateFile

(* A call that stops has told its caller where.                            *)
LEMMA StopFacts ==
  ASSUME RebaseTypeOK, pc = "apply", Stop
  PROVE  /\ note' \in Note /\ note'.origin = note.origin
         /\ note'.nested = note.nested /\ note'.aborting = note.aborting
         /\ note'.faults = note.faults
         /\ pc' = "idle" /\ commits' = <<>> /\ i' = 0 /\ end' = 0 /\ todo' = {}
<1>1. commits[i + 1] \in Commit
  BY DEF RebaseTypeOK
<1>2. MsgOf(commits[i + 1]) \in Messages \cup {UserMsg}
  BY <1>1, CommitParts
<1>3. note \in Note
  BY DEF RebaseTypeOK
<1> QED BY <1>2, <1>3 DEF Stop, Return, Note

LEMMA ReturnType ==
  ASSUME Return
  PROVE  pc' = "idle" /\ commits' \in Seq(Commit) /\ i' \in Nat /\ end' \in Nat
         /\ todo' \subseteq Paths
  BY DEF Return
-----------------------------------------------------------------------------
LEMMA InitRebaseInv == Init => RebaseInv
<1> SUFFICES ASSUME Init PROVE RebaseInv
  OBVIOUS
<1>1. tip \in Commit /\ onto \in Commit
  BY StartsAssumption DEF Init
<1>2. TreeOf(tip) \in Tree
  BY <1>1, CommitParts
<1>3. dir \in State
  BY DEF Init, State, NoState
<1>4. note \in Note
  BY <1>1, RebaseAssumption DEF Init, Note
<1>5. RebaseTypeOK
  BY <1>1, <1>2, <1>3, <1>4 DEF Init, RebaseTypeOK, Pcs
<1>6. OriginOK /\ AbortOK
  BY DEF Init, OriginOK, AbortOK, Aborting, NoState
<1>7. pc = "idle" /\ dir.origHead = <<>> /\ dir.end = -1 /\ dir.msgnum = -1
  BY DEF Init, NoState
<1>8. PlanOK
  BY <1>7 DEF PlanOK, Saving
<1>9. MsgnumOK
  BY <1>7 DEF MsgnumOK, Saving
<1>10. TopOK
  BY <1>7 DEF TopOK
<1> QED BY <1>5, <1>6, <1>8, <1>9, <1>10 DEF RebaseInv

LEMMA RebaseStep == ASSUME RebaseInv, Rebase PROVE RebaseInv'
<1> DEFINE n == BaseLength(tip, onto)
<1>1. CASE UNCHANGED <<memory, note>>
  BY <1>1 DEF Rebase, memory, disk, RebaseInv, RebaseTypeOK, OriginOK, AbortOK, PlanOK,
     MsgnumOK, TopOK, Restored, OnTop
<1>2. CASE ~(tip = onto \/ n \in {0, Len(tip)})
  <2> USE DEF RebaseInv
  <2>1. /\ pc = "idle" /\ pc' = "orig-head" /\ commits' = Plan(tip, onto)
        /\ end' = Len(tip) - n /\ UNCHANGED <<tip, index, work, dir, i, todo, onto>>
        /\ note.rebases < MaxRebases
        /\ note' = IF dir.origHead = <<>>
                   THEN [origin |-> tip, calm |-> TRUE, nested |-> FALSE,
                         aborting |-> FALSE, misled |-> dir # NoState,
                         stopped |-> {}, kept |-> {}, faults |-> note.faults,
                         rebases |-> note.rebases + 1, edits |-> note.edits]
                   ELSE [note EXCEPT !.nested = TRUE, !.calm = FALSE, !.rebases = @ + 1]
    BY <1>2 DEF Rebase, disk, Plan, PlanEnd
  <2>2. note \in Note /\ tip \in Commit /\ onto \in Commit
    BY DEF RebaseTypeOK
  <2>3. note.rebases + 1 \in 0..MaxRebases
    BY <2>1, <2>2, RebaseAssumption DEF Note
  <2>4. /\ note' \in Note /\ note'.faults = note.faults
        /\ dir.origHead = <<>> => note'.origin = tip
        /\ dir.origHead # <<>> => note'.nested
    <3>1. CASE dir.origHead = <<>>
      BY <2>1, <2>2, <2>3, <3>1 DEF Note
    <3>2. CASE dir.origHead # <<>>
      <4>1. note' = [note EXCEPT !.nested = TRUE, !.calm = FALSE, !.rebases = @ + 1]
        BY <2>1, <3>2
      <4> QED BY <2>2, <2>3, <3>2, <4>1 DEF Note
    <3> QED BY <3>1, <3>2
  <2>5. commits' \in Seq(Commit) /\ Len(commits') = end' /\ end' \in Nat
    <3>1. n \in 0..Len(tip) /\ Len(tip) \in Nat
      BY <2>2, BaseLengthRange, CommitLength
    <3>2. Plan(tip, onto) \in Seq(Commit) /\ Len(Plan(tip, onto)) = Len(tip) - n
      BY <2>2, PlanType
    <3> QED BY <2>1, <3>1, <3>2
  <2> HIDE DEF n
  <2>6. RebaseTypeOK'
    BY <2>1, <2>4, <2>5 DEF RebaseTypeOK, Pcs, Saving
  <2>7. OriginOK'
    BY <2>1, <2>4 DEF OriginOK
  <2>8. AbortOK'
    BY <2>1 DEF AbortOK, Aborting
  <2>9. PlanOK'
    BY <2>1, <2>5 DEF PlanOK, Saving
  <2>10. MsgnumOK'
    BY <2>1, <2>4 DEF MsgnumOK
  <2>11. TopOK'
    BY <2>1 DEF TopOK
  <2> QED BY <2>6, <2>7, <2>8, <2>9, <2>10, <2>11
<1> QED BY <1>1, <1>2 DEF Rebase

LEMMA SaveStateStep == ASSUME RebaseInv, SaveState PROVE RebaseInv'
<1> USE DEF RebaseInv
<1>0. UNCHANGED <<tip, index, work, commits, i, end, todo, onto>>
  BY DEF SaveState
<1>1. tip \in Commit /\ onto \in Commit /\ tip # <<>> /\ onto # <<>> /\ dir \in State
  BY CommitIsSeq DEF RebaseTypeOK
<1>2. CASE pc = "orig-head" /\ WriteStateFile("origHead", tip) /\ pc' = "onto"
  <2>1. /\ note' \in Note /\ note'.origin = note.origin
        /\ note'.nested = note.nested /\ note'.aborting = note.aborting
        /\ \/ dir' = [dir EXCEPT !["origHead"] = tip] /\ note'.faults = note.faults
           \/ dir' = dir /\ note'.faults = note.faults + 1
        /\ note.faults \in Nat
    BY <1>2, WriteFacts DEF Counts
  <2>2. dir' \in State
    BY <1>1, <2>1 DEF State
  <2>3. RebaseTypeOK'
    BY <1>0, <1>2, <2>1, <2>2 DEF RebaseTypeOK, Pcs, Saving
  <2>4. OriginOK'
    BY <1>0, <1>1, <1>2, <2>1 DEF OriginOK, State
  <2>5. AbortOK'
    BY <1>2 DEF AbortOK, Aborting
  <2>6. note'.faults = 0 => note.faults = 0 /\ dir' = [dir EXCEPT !["origHead"] = tip]
    BY <2>1
  <2>7. PlanOK'
    BY <1>0, <1>1, <1>2, <2>6 DEF PlanOK, Saving, State
  <2>8. MsgnumOK'
    BY <1>0, <1>1, <1>2, <2>1, <2>6 DEF MsgnumOK, Saving, State
  <2>9. TopOK'
    BY <1>2 DEF TopOK
  <2> QED BY <2>3, <2>4, <2>5, <2>7, <2>8, <2>9
<1>3. CASE pc = "onto" /\ WriteStateFile("onto", onto) /\ pc' = "head-name"
  <2>1. /\ note' \in Note /\ note'.origin = note.origin
        /\ note'.nested = note.nested /\ note'.aborting = note.aborting
        /\ \/ dir' = [dir EXCEPT !["onto"] = onto] /\ note'.faults = note.faults
           \/ dir' = dir /\ note'.faults = note.faults + 1
        /\ note.faults \in Nat
    BY <1>3, WriteFacts DEF Counts
  <2>2. dir' \in State
    BY <1>1, <2>1 DEF State
  <2>3. RebaseTypeOK'
    BY <1>0, <1>3, <2>1, <2>2 DEF RebaseTypeOK, Pcs, Saving
  <2>4. OriginOK'
    BY <1>0, <1>1, <1>3, <2>1 DEF OriginOK, State
  <2>5. AbortOK'
    BY <1>3 DEF AbortOK, Aborting
  <2>6. note'.faults = 0 => note.faults = 0 /\ dir' = [dir EXCEPT !["onto"] = onto]
    BY <2>1
  <2>7. PlanOK'
    BY <1>0, <1>1, <1>3, <2>6 DEF PlanOK, Saving, State
  <2>8. MsgnumOK'
    BY <1>0, <1>1, <1>3, <2>1, <2>6 DEF MsgnumOK, Saving, State
  <2>9. TopOK'
    BY <1>3 DEF TopOK
  <2> QED BY <2>3, <2>4, <2>5, <2>7, <2>8, <2>9
<1>4. CASE pc = "head-name" /\ WriteStateFile("headName", TRUE) /\ pc' = "end"
  <2>1. /\ note' \in Note /\ note'.origin = note.origin
        /\ note'.nested = note.nested /\ note'.aborting = note.aborting
        /\ \/ dir' = [dir EXCEPT !["headName"] = TRUE] /\ note'.faults = note.faults
           \/ dir' = dir /\ note'.faults = note.faults + 1
        /\ note.faults \in Nat
    BY <1>4, WriteFacts DEF Counts
  <2>2. dir' \in State
    BY <1>1, <2>1 DEF State
  <2>3. RebaseTypeOK'
    BY <1>0, <1>4, <2>1, <2>2 DEF RebaseTypeOK, Pcs, Saving
  <2>4. OriginOK'
    BY <1>0, <1>1, <1>4, <2>1 DEF OriginOK, State
  <2>5. AbortOK'
    BY <1>4 DEF AbortOK, Aborting
  <2>6. note'.faults = 0 => note.faults = 0 /\ dir' = [dir EXCEPT !["headName"] = TRUE]
    BY <2>1
  <2>7. PlanOK'
    BY <1>0, <1>1, <1>4, <2>6 DEF PlanOK, Saving, State
  <2>8. MsgnumOK'
    BY <1>0, <1>1, <1>4, <2>1, <2>6 DEF MsgnumOK, Saving, State
  <2>9. TopOK'
    BY <1>4 DEF TopOK
  <2> QED BY <2>3, <2>4, <2>5, <2>7, <2>8, <2>9
<1>5. CASE pc = "end" /\ WriteStateFile("end", end) /\ pc' = "move"
  <2>1. /\ note' \in Note /\ note'.origin = note.origin
        /\ note'.nested = note.nested /\ note'.aborting = note.aborting
        /\ \/ dir' = [dir EXCEPT !["end"] = end] /\ note'.faults = note.faults
           \/ /\ note'.faults = note.faults + 1
              /\ dir' = dir \/ dir' = [dir EXCEPT !["end"] = 0]
        /\ note.faults \in Nat
    BY <1>5, WriteFacts
  <2>2. dir' \in State
    BY <1>1, <2>1 DEF State, RebaseTypeOK
  <2>3. RebaseTypeOK'
    BY <1>0, <1>5, <2>1, <2>2 DEF RebaseTypeOK, Pcs, Saving
  <2>4. OriginOK'
    BY <1>0, <1>1, <1>5, <2>1 DEF OriginOK, State
  <2>5. AbortOK'
    BY <1>5 DEF AbortOK, Aborting
  <2>6. note'.faults = 0 => note.faults = 0 /\ dir' = [dir EXCEPT !["end"] = end]
    BY <2>1
  <2>7. PlanOK'
    BY <1>0, <1>1, <1>5, <2>6 DEF PlanOK, Saving, State
  <2>8. MsgnumOK'
    BY <1>0, <1>1, <1>5, <2>1, <2>6 DEF MsgnumOK, Saving, State
  <2>9. TopOK'
    BY <1>5 DEF TopOK
  <2> QED BY <2>3, <2>4, <2>5, <2>7, <2>8, <2>9
<1> QED BY <1>2, <1>3, <1>4, <1>5 DEF SaveState

LEMMA MoveBranchStep == ASSUME RebaseInv, MoveBranch PROVE RebaseInv'
<1> USE DEF RebaseInv
<1>1. /\ pc = "move" /\ pc' = "reset" /\ tip' = onto
      /\ UNCHANGED <<index, work, dir, commits, i, end, todo, onto, note>>
  BY DEF MoveBranch
<1>2. RebaseTypeOK'
  BY <1>1 DEF RebaseTypeOK, Pcs
<1>3. OriginOK'
  BY <1>1 DEF OriginOK
<1>4. AbortOK'
  BY <1>1 DEF AbortOK, Aborting
<1>5. PlanOK'
  BY <1>1 DEF PlanOK, Saving
<1>6. MsgnumOK'
  BY <1>1 DEF MsgnumOK, Saving
<1>7. OnTop'
  <2>1. onto \in Seq(Change) /\ Len(onto) \in Nat
    BY CommitLength DEF RebaseTypeOK
  <2>2. SubSeq(onto, 1, Len(onto)) = onto
    BY <2>1
  <2> QED BY <1>1, <2>1, <2>2 DEF OnTop
<1>8. TopOK'
  BY <1>1, <1>7 DEF TopOK
<1> QED BY <1>2, <1>3, <1>4, <1>5, <1>6, <1>8

LEMMA ResetToOntoStep == ASSUME RebaseInv, ResetToOnto PROVE RebaseInv'
<1> USE DEF RebaseInv
<1>1. /\ pc = "reset" /\ pc' = "replay"
      /\ UNCHANGED <<tip, dir, commits, i, end, todo, onto, note>>
  BY DEF ResetToOnto
<1>2. index' \in Tree /\ work' \in Tree
  <2>1. TreeOf(onto) \in Tree
    BY CommitParts DEF RebaseTypeOK
  <2> QED BY <2>1, ResetTypes DEF ResetToOnto
<1>3. RebaseTypeOK'
  BY <1>1, <1>2 DEF RebaseTypeOK, Pcs
<1>4. OriginOK'
  BY <1>1 DEF OriginOK
<1>5. AbortOK'
  BY <1>1 DEF AbortOK, Aborting
<1>6. PlanOK'
  BY <1>1 DEF PlanOK, Saving
<1>7. MsgnumOK'
  BY <1>1 DEF MsgnumOK, Saving
<1>8. TopOK'
  BY <1>1 DEF TopOK, OnTop
<1> QED BY <1>3, <1>4, <1>5, <1>6, <1>7, <1>8

LEMMA NextCommitStep == ASSUME RebaseInv, NextCommit PROVE RebaseInv'
<1> USE DEF RebaseInv
<1>1. /\ pc = "replay" /\ i < end /\ WriteStateFile("msgnum", i)
      /\ UNCHANGED <<tip, index, work, commits, i, end, onto>>
      /\ IF i < Len(commits)
         THEN pc' = "apply" /\ todo' = Changed(commits[i + 1])
         ELSE pc' = "panic" /\ UNCHANGED todo
  BY DEF NextCommit
<1>2. /\ note' \in Note /\ note'.origin = note.origin
      /\ note'.nested = note.nested /\ note'.aborting = note.aborting
      /\ \/ dir' = [dir EXCEPT !["msgnum"] = i] /\ note'.faults = note.faults
         \/ /\ note'.faults = note.faults + 1
            /\ dir' = dir \/ dir' = [dir EXCEPT !["msgnum"] = 0]
      /\ note.faults \in Nat
  BY <1>1, WriteFacts
<1>3. i \in Nat /\ dir \in State /\ todo \subseteq Paths
  BY DEF RebaseTypeOK
<1>4. /\ dir' \in State /\ dir'.origHead = dir.origHead /\ dir'.onto = dir.onto
      /\ dir'.end = dir.end
  BY <1>2, <1>3 DEF State
<1>5. todo' \subseteq Paths
  BY <1>1, <1>3 DEF Changed
<1>6. pc' \in {"apply", "panic"} /\ (pc' = "apply" => i < Len(commits))
  BY <1>1
<1>7. RebaseTypeOK'
  BY <1>1, <1>2, <1>4, <1>5, <1>6 DEF RebaseTypeOK, Pcs
<1>8. OriginOK'
  BY <1>2, <1>4, <1>6 DEF OriginOK
<1>9. AbortOK'
  BY <1>6 DEF AbortOK, Aborting
<1>10. note'.faults = 0 => note.faults = 0
  BY <1>2
<1>11. note.faults = 0 => pc' = "apply"
  BY <1>1 DEF PlanOK
<1>12. PlanOK'
  BY <1>1, <1>4, <1>10, <1>11 DEF PlanOK, Saving
<1>13. MsgnumOK'
  BY <1>1, <1>4, <1>6, <1>10 DEF MsgnumOK, Saving
<1>14. TopOK'
  BY <1>1, <1>2, <1>6 DEF TopOK, OnTop
<1> QED BY <1>7, <1>8, <1>9, <1>12, <1>13, <1>14

LEMMA ApplyPathStep ==
  ASSUME RebaseInv, NEW p \in Paths, ApplyPath(p) PROVE RebaseInv'
<1> USE DEF RebaseInv
<1> DEFINE v == TreeOf(commits[i + 1])[p]
<1>1. /\ pc = "apply" /\ work' = [work EXCEPT ![p] = v] /\ index' = [index EXCEPT ![p] = v]
      /\ todo' = todo \ {p}
      /\ UNCHANGED <<tip, dir, pc, commits, i, end, onto, note>>
  BY DEF ApplyPath
<1>2. v \in Contents \cup {None}
  <2>1. commits[i + 1] \in Commit
    BY <1>1 DEF RebaseTypeOK
  <2> QED BY <2>1, CommitParts DEF Tree
<1> HIDE DEF v
<1>3. index' \in Tree /\ work' \in Tree
  BY <1>1, <1>2 DEF RebaseTypeOK, Tree
<1>4. RebaseTypeOK'
  BY <1>1, <1>3 DEF RebaseTypeOK
<1>5. OriginOK'
  BY <1>1 DEF OriginOK
<1>6. AbortOK'
  BY <1>1 DEF AbortOK, Aborting
<1>7. PlanOK'
  BY <1>1 DEF PlanOK
<1>8. MsgnumOK'
  BY <1>1 DEF MsgnumOK
<1>9. TopOK'
  BY <1>1 DEF TopOK, OnTop
<1> QED BY <1>4, <1>5, <1>6, <1>7, <1>8, <1>9

(* A deletion that fails is a fault, and is remembered.                    *)
LEMMA DeletionFacts ==
  ASSUME RebaseTypeOK, NEW p \in Paths, DeletionFails(p)
  PROVE  /\ note' \in Note /\ note'.faults = note.faults + 1 /\ note.faults \in Nat
         /\ note'.origin = note.origin /\ note'.nested = note.nested
         /\ note'.aborting = note.aborting /\ note'.misled = note.misled
         /\ note'.calm = note.calm /\ note'.stopped = note.stopped
         /\ note'.kept = note.kept \cup {p}
<1>1. note \in Note /\ note.faults \in Nat
  BY DEF RebaseTypeOK, Note
<1>2. /\ note.faults < MaxFaults
      /\ note' = [note EXCEPT !.faults = @ + 1, !.kept = @ \cup {p}]
  BY DEF DeletionFails
<1>3. note.faults + 1 \in 0..MaxFaults /\ note.kept \cup {p} \in SUBSET Paths
  BY <1>1, <1>2, RebaseAssumption DEF Note
<1> QED BY <1>1, <1>2, <1>3 DEF Note

LEMMA DeletionFailsStep ==
  ASSUME RebaseInv, NEW p \in Paths, DeletionFails(p) PROVE RebaseInv'
<1> USE DEF RebaseInv
<1>1. /\ pc = "apply" /\ todo' = todo \ {p}
      /\ UNCHANGED <<tip, index, dir, pc, commits, i, end, onto>>
  BY DEF DeletionFails
<1>2. /\ note' \in Note /\ note'.faults = note.faults + 1 /\ note.faults \in Nat
      /\ note'.origin = note.origin /\ note'.nested = note.nested
      /\ note'.aborting = note.aborting
  BY DeletionFacts
<1>3. work' \in Tree
  <2>1. PICK v \in {work[p], None} : work' = [work EXCEPT ![p] = v]
    BY DEF DeletionFails
  <2> QED BY <2>1 DEF RebaseTypeOK, Tree
<1>4. RebaseTypeOK'
  BY <1>1, <1>2, <1>3 DEF RebaseTypeOK
<1>5. OriginOK'
  BY <1>1, <1>2 DEF OriginOK
<1>6. AbortOK'
  BY <1>1 DEF AbortOK, Aborting
<1>7. note'.faults # 0
  BY <1>2
<1>8. PlanOK' /\ MsgnumOK'
  BY <1>7 DEF PlanOK, MsgnumOK
<1>9. TopOK'
  BY <1>1, <1>2 DEF TopOK, OnTop
<1> QED BY <1>4, <1>5, <1>6, <1>8, <1>9

(* A stop and a branch that only grew: what a replay that stops leaves.    *)
LEMMA StoppedStep ==
  ASSUME RebaseInv, pc = "apply", Stop, work' \in Tree, UNCHANGED <<tip, index, dir, onto>>
  PROVE  RebaseInv'
<1> USE DEF RebaseInv
<1>1. /\ note' \in Note /\ note'.origin = note.origin
      /\ note'.nested = note.nested /\ note'.aborting = note.aborting
      /\ note'.faults = note.faults
      /\ pc' = "idle" /\ commits' = <<>> /\ i' = 0 /\ end' = 0 /\ todo' = {}
  BY StopFacts
<1>2. RebaseTypeOK'
  BY <1>1 DEF RebaseTypeOK, Pcs
<1>3. OriginOK'
  BY <1>1 DEF OriginOK
<1>4. AbortOK'
  BY <1>1 DEF AbortOK, Aborting
<1>5. PlanOK'
  BY <1>1 DEF PlanOK, Saving
<1>6. MsgnumOK'
  BY <1>1 DEF MsgnumOK, Saving
<1>7. TopOK'
  BY <1>1 DEF TopOK, OnTop
<1> QED BY <1>2, <1>3, <1>4, <1>5, <1>6, <1>7

LEMMA WriteFailsStep ==
  ASSUME RebaseInv, NEW p \in Paths, WriteFails(p) PROVE RebaseInv'
<1>1. PICK v \in Contents \cup {None} : work' = [work EXCEPT ![p] = v]
  BY DEF WriteFails
<1>2. work' \in Tree
  BY <1>1 DEF RebaseInv, RebaseTypeOK, Tree
<1> QED BY <1>2, StoppedStep DEF WriteFails

LEMMA CommitReplayedStep == ASSUME RebaseInv, CommitReplayed PROVE RebaseInv'
<1> USE DEF RebaseInv
<1>1. pc = "apply" /\ UNCHANGED <<index, work, dir, onto>>
  BY DEF CommitReplayed
<1>2. CASE index = TreeOf(tip)
  <2>1. work' \in Tree
    BY <1>1 DEF RebaseTypeOK
  <2> QED BY <1>1, <1>2, <2>1, StoppedStep DEF CommitReplayed
<1>3. CASE index # TreeOf(tip)
  <2>1. /\ CommitIndex(MsgOf(commits[i + 1]))
        /\ i' = i + 1 /\ pc' = "replay" /\ UNCHANGED <<commits, end, todo, note>>
    BY <1>3 DEF CommitReplayed
  <2>2. MsgOf(commits[i + 1]) \in Messages \cup {UserMsg}
    <3>1. commits[i + 1] \in Commit
      BY <1>1 DEF RebaseTypeOK
    <3> QED BY <3>1, CommitParts
  <2>3. tip' \in Commit /\ (OnTop => OnTop')
    BY <1>1, <2>1, <2>2, AppendCommit
  <2>4. RebaseTypeOK'
    BY <1>1, <2>1, <2>3 DEF RebaseTypeOK, Pcs
  <2>5. OriginOK'
    BY <1>1, <2>1 DEF OriginOK
  <2>6. AbortOK'
    BY <1>1, <2>1 DEF AbortOK, Aborting
  <2>7. PlanOK'
    BY <1>1, <2>1 DEF PlanOK, Saving
  <2>8. MsgnumOK'
    BY <1>1, <2>1 DEF MsgnumOK, Saving
  <2>9. TopOK'
    BY <1>1, <2>1, <2>3 DEF TopOK
  <2> QED BY <2>4, <2>5, <2>6, <2>7, <2>8, <2>9
<1> QED BY <1>2, <1>3

LEMMA ReplayOverStep == ASSUME RebaseInv, ReplayOver PROVE RebaseInv'
<1> USE DEF RebaseInv
<1>1. /\ pc = "replay" /\ pc' = "clean"
      /\ UNCHANGED <<tip, index, work, dir, commits, i, end, todo, onto, note>>
  BY DEF ReplayOver, disk
<1>2. RebaseTypeOK'
  BY <1>1 DEF RebaseTypeOK, Pcs
<1>3. OriginOK'
  BY <1>1 DEF OriginOK
<1>4. AbortOK'
  BY <1>1 DEF AbortOK, Aborting
<1>5. PlanOK'
  BY <1>1 DEF PlanOK, Saving
<1>6. MsgnumOK'
  BY <1>1 DEF MsgnumOK, Saving
<1>7. TopOK'
  BY <1>1 DEF TopOK, OnTop
<1> QED BY <1>2, <1>3, <1>4, <1>5, <1>6, <1>7

LEMMA RemoveStateStep == ASSUME RebaseInv, RemoveState PROVE RebaseInv'
<1> USE DEF RebaseInv
<1>1. /\ pc' = "idle" /\ dir' = NoState /\ Return
      /\ UNCHANGED <<tip, index, work, onto, note>>
  BY DEF RemoveState, Return
<1>2. dir' \in State /\ dir'.origHead = <<>> /\ dir'.end = -1 /\ dir'.msgnum = -1
  BY <1>1 DEF NoState, State
<1>3. commits' \in Seq(Commit) /\ i' \in Nat /\ end' \in Nat /\ todo' \subseteq Paths
  BY <1>1, ReturnType
<1>4. RebaseTypeOK'
  BY <1>1, <1>2, <1>3 DEF RebaseTypeOK, Pcs
<1>5. OriginOK'
  BY <1>1, <1>2 DEF OriginOK
<1>6. AbortOK'
  BY <1>1 DEF AbortOK, Aborting
<1>7. PlanOK'
  BY <1>1, <1>2 DEF PlanOK, Saving
<1>8. MsgnumOK'
  BY <1>1, <1>2 DEF MsgnumOK, Saving
<1>9. TopOK'
  BY <1>1, <1>2 DEF TopOK
<1> QED BY <1>4, <1>5, <1>6, <1>7, <1>8, <1>9

LEMMA RebaseContinueStep == ASSUME RebaseInv, RebaseContinue PROVE RebaseInv'
<1> USE DEF RebaseInv
<1> DEFINE c == dir.origHead
           plan == Plan(c, dir.onto)
           resolved == ~Clean /\ dir.msgnum < Len(plan)
<1>1. pc = "idle" /\ UNCHANGED <<index, work, dir, onto, note>>
  BY DEF RebaseContinue
<1>2. CASE UNCHANGED <<tip, memory>>
  BY <1>1, <1>2 DEF memory, RebaseTypeOK, OriginOK, AbortOK, PlanOK, MsgnumOK, TopOK,
     Restored, OnTop
<1>3. CASE /\ ~(<<>> \in {c, dir.onto} \/ -1 \in {dir.msgnum, dir.end})
           /\ IF resolved THEN CommitIndex(MsgOf(plan[dir.msgnum + 1])) ELSE UNCHANGED tip
           /\ pc' = "replay" /\ commits' = plan /\ i' = dir.msgnum + 1 /\ end' = dir.end
           /\ UNCHANGED todo
  <2>1. /\ c \in Commit /\ dir.onto \in Commit
        /\ dir.msgnum \in Nat /\ dir.msgnum # -1 /\ dir.end \in Nat /\ dir.end # -1
        /\ c # <<>>
    BY <1>3 DEF RebaseTypeOK, State
  <2>2. plan \in Seq(Commit)
    BY <2>1, PlanType
  <2>3. tip' \in Commit /\ (OnTop => OnTop')
    <3>1. CASE resolved
      <4>1. plan[dir.msgnum + 1] \in Commit
        BY <2>1, <2>2, <3>1
      <4>2. MsgOf(plan[dir.msgnum + 1]) \in Messages \cup {UserMsg}
        BY <4>1, CommitParts
      <4> QED BY <1>1, <1>3, <3>1, <4>2, AppendCommit
    <3>2. CASE ~resolved
      BY <1>1, <1>3, <3>2 DEF RebaseTypeOK, OnTop
    <3> QED BY <3>1, <3>2
  <2>4. note.faults = 0 => end' = Len(plan)
    BY <1>1, <1>3, <2>1 DEF PlanOK, Saving
  <2> HIDE DEF plan, c, resolved
  <2>5. RebaseTypeOK'
    BY <1>1, <1>3, <2>1, <2>2, <2>3 DEF RebaseTypeOK, Pcs
  <2>6. OriginOK'
    BY <1>1, <1>3 DEF OriginOK
  <2>7. AbortOK'
    BY <1>1, <1>3 DEF AbortOK, Aborting
  <2>8. PlanOK'
    BY <1>1, <1>3, <2>4 DEF PlanOK, Saving
  <2>9. MsgnumOK'
    BY <1>1, <1>3, <2>1 DEF MsgnumOK, Saving, c
  <2>10. TopOK'
    BY <1>1, <1>3, <2>1, <2>3 DEF TopOK, c
  <2> QED BY <2>5, <2>6, <2>7, <2>8, <2>9, <2>10
<1>4. plan = CommitsBetween(BaseLength(c, dir.onto), c)
  BY DEF Plan
<1> QED BY <1>2, <1>3, <1>4 DEF RebaseContinue

LEMMA RebaseAbortStep == ASSUME RebaseInv, RebaseAbort PROVE RebaseInv'
<1> USE DEF RebaseInv
<1>1. pc = "idle" /\ UNCHANGED <<tip, index, work, dir, commits, i, end, todo, onto>>
  BY DEF RebaseAbort, disk
<1>2. CASE UNCHANGED <<pc, note>>
  BY <1>1, <1>2 DEF RebaseTypeOK, OriginOK, AbortOK, PlanOK, MsgnumOK, TopOK, Restored, OnTop
<1>3. CASE /\ dir.origHead # <<>>
           /\ pc' = "restore" /\ note' = [note EXCEPT !.aborting = TRUE]
  <2>1. /\ note' \in Note /\ note'.origin = note.origin /\ note'.nested = note.nested
        /\ note'.aborting /\ note'.faults = note.faults
    BY <1>3 DEF RebaseTypeOK, Note
  <2>2. RebaseTypeOK'
    BY <1>1, <1>3, <2>1 DEF RebaseTypeOK, Pcs, Aborting
  <2>3. OriginOK'
    BY <1>1, <1>3, <2>1 DEF OriginOK
  <2>4. AbortOK'
    BY <1>1, <1>3, <2>1 DEF AbortOK, Aborting
  <2>5. PlanOK'
    BY <1>1, <1>3, <2>1 DEF PlanOK, Saving
  <2>6. MsgnumOK'
    BY <1>1, <1>3, <2>1 DEF MsgnumOK, Saving
  <2>7. TopOK'
    BY <2>1 DEF TopOK
  <2> QED BY <2>2, <2>3, <2>4, <2>5, <2>6, <2>7
<1> QED BY <1>2, <1>3 DEF RebaseAbort

LEMMA RestoreBranchStep == ASSUME RebaseInv, RestoreBranch PROVE RebaseInv'
<1> USE DEF RebaseInv
<1>1. /\ pc = "restore" /\ pc' = "restore-tree" /\ tip' = dir.origHead
      /\ UNCHANGED <<index, work, dir, commits, i, end, todo, onto, note>>
  BY DEF RestoreBranch
<1>2. dir.origHead \in Commit /\ dir.origHead # <<>> /\ note.aborting
  BY <1>1 DEF AbortOK, Aborting, RebaseTypeOK, State
<1>3. RebaseTypeOK'
  BY <1>1, <1>2 DEF RebaseTypeOK, Pcs, Aborting
<1>4. OriginOK'
  BY <1>1 DEF OriginOK
<1>5. AbortOK'
  BY <1>1, <1>2 DEF AbortOK, Aborting
<1>6. PlanOK'
  BY <1>1 DEF PlanOK, Saving
<1>7. MsgnumOK'
  BY <1>1 DEF MsgnumOK, Saving
<1>8. TopOK'
  BY <1>1, <1>2 DEF TopOK
<1> QED BY <1>3, <1>4, <1>5, <1>6, <1>7, <1>8

LEMMA RestoreTreeStep == ASSUME RebaseInv, RestoreTree PROVE RebaseInv'
<1> USE DEF RebaseInv
<1>1. /\ pc = "restore-tree" /\ pc' = "clean-aborted"
      /\ UNCHANGED <<tip, dir, commits, i, end, todo, onto, note>>
  BY DEF RestoreTree
<1>2. tip = dir.origHead /\ dir.origHead # <<>> /\ note.aborting
  BY <1>1 DEF AbortOK, Aborting
<1>3. TreeOf(tip) \in Tree /\ HardReset(TreeOf(tip))
  BY <1>2, CommitParts DEF RebaseTypeOK, RestoreTree
<1>4. /\ index' = TreeOf(tip) /\ index' \in Tree /\ work' \in Tree
      /\ \A p \in Paths : index'[p] # None => work'[p] = index'[p]
  BY <1>3, ResetTypes
<1>5. RebaseTypeOK'
  BY <1>1, <1>4 DEF RebaseTypeOK, Pcs, Aborting
<1>6. OriginOK'
  BY <1>1 DEF OriginOK
<1>7. Restored'
  BY <1>1, <1>4 DEF Restored, TreeOf
<1>8. AbortOK'
  BY <1>1, <1>2, <1>7 DEF AbortOK, Aborting
<1>9. PlanOK'
  BY <1>1 DEF PlanOK, Saving
<1>10. MsgnumOK'
  BY <1>1 DEF MsgnumOK, Saving
<1>11. TopOK'
  BY <1>1, <1>2 DEF TopOK
<1> QED BY <1>5, <1>6, <1>8, <1>9, <1>10, <1>11

LEMMA EditStep ==
  ASSUME RebaseInv, NEW p \in Paths, NEW v \in Contents \cup {None}, Edit(p, v)
  PROVE  RebaseInv'
<1> USE DEF RebaseInv
<1>1. /\ pc = "idle" /\ note.edits < MaxEdits /\ work' = [work EXCEPT ![p] = v]
      /\ note' = [note EXCEPT !.edits = @ + 1]
      /\ UNCHANGED <<tip, index, dir, pc, commits, i, end, todo, onto>>
  BY DEF Edit, UserTurn, memory
<1>2. /\ note' \in Note /\ note'.origin = note.origin /\ note'.nested = note.nested
      /\ note'.aborting = note.aborting /\ note'.faults = note.faults
  <2>1. note \in Note
    BY DEF RebaseTypeOK
  <2>2. note.edits + 1 \in 0..MaxEdits
    BY <1>1, <2>1, RebaseAssumption DEF Note
  <2> QED BY <1>1, <2>1, <2>2 DEF Note
<1>3. work' \in Tree
  BY <1>1 DEF RebaseTypeOK, Tree
<1>4. RebaseTypeOK'
  BY <1>1, <1>2, <1>3 DEF RebaseTypeOK
<1>5. OriginOK'
  BY <1>1, <1>2 DEF OriginOK
<1>6. AbortOK'
  BY <1>1 DEF AbortOK, Aborting
<1>7. PlanOK'
  BY <1>1, <1>2 DEF PlanOK, Saving
<1>8. MsgnumOK'
  BY <1>1, <1>2 DEF MsgnumOK, Saving
<1>9. TopOK'
  BY <1>1, <1>2 DEF TopOK, OnTop
<1> QED BY <1>4, <1>5, <1>6, <1>7, <1>8, <1>9

LEMMA StageStep ==
  ASSUME RebaseInv, NEW p \in Paths, Stage(p) PROVE RebaseInv'
<1> USE DEF RebaseInv
<1>1. /\ pc = "idle" /\ index' = [index EXCEPT ![p] = work[p]]
      /\ UNCHANGED <<tip, work, dir, pc, commits, i, end, todo, onto, note>>
  BY DEF Stage, UserTurn, memory
<1>2. index' \in Tree
  BY <1>1 DEF RebaseTypeOK, Tree
<1>3. RebaseTypeOK'
  BY <1>1, <1>2 DEF RebaseTypeOK
<1>4. OriginOK'
  BY <1>1 DEF OriginOK
<1>5. AbortOK'
  BY <1>1 DEF AbortOK, Aborting
<1>6. PlanOK'
  BY <1>1 DEF PlanOK
<1>7. MsgnumOK'
  BY <1>1 DEF MsgnumOK
<1>8. TopOK'
  BY <1>1 DEF TopOK, OnTop
<1> QED BY <1>3, <1>4, <1>5, <1>6, <1>7, <1>8

LEMMA UserCommitStep == ASSUME RebaseInv, UserCommit PROVE RebaseInv'
<1> USE DEF RebaseInv
<1>1. /\ pc = "idle" /\ CommitIndex(UserMsg)
      /\ UNCHANGED <<index, work, dir, pc, commits, i, end, todo, onto, note>>
  BY DEF UserCommit, UserTurn, memory
<1>2. tip' \in Commit /\ (OnTop => OnTop')
  BY <1>1, AppendCommit
<1>3. RebaseTypeOK'
  BY <1>1, <1>2 DEF RebaseTypeOK
<1>4. OriginOK'
  BY <1>1 DEF OriginOK
<1>5. AbortOK'
  BY <1>1 DEF AbortOK, Aborting
<1>6. PlanOK'
  BY <1>1 DEF PlanOK, Saving
<1>7. MsgnumOK'
  BY <1>1 DEF MsgnumOK
<1>8. TopOK'
  BY <1>1, <1>2 DEF TopOK
<1> QED BY <1>3, <1>4, <1>5, <1>6, <1>7, <1>8

LEMMA CrashStep == ASSUME RebaseInv, Crash PROVE RebaseInv'
<1> USE DEF RebaseInv
<1>1. /\ pc \notin {"idle", "panic"} /\ note.faults < MaxFaults /\ Return /\ pc' = "idle"
      /\ note' = [note EXCEPT !.faults = @ + 1, !.calm = FALSE,
                  !.misled = @ \/ (pc \in {"end", "replay"} /\ dir' # dir)]
      /\ UNCHANGED <<tip, index, onto>>
  BY DEF Crash, Return
<1>2. /\ note' \in Note /\ note'.origin = note.origin /\ note'.nested = note.nested
      /\ note'.aborting = note.aborting /\ note'.faults = note.faults + 1
      /\ note.faults \in Nat
  <2>1. note \in Note /\ note.faults \in Nat
    BY DEF RebaseTypeOK, Note
  <2>2. note.faults + 1 \in 0..MaxFaults
    BY <1>1, <2>1, RebaseAssumption
  <2> QED BY <1>1, <2>1, <2>2 DEF Note
<1>3. commits' \in Seq(Commit) /\ i' \in Nat /\ end' \in Nat /\ todo' \subseteq Paths
  BY <1>1, ReturnType
<1>4. work' \in Tree
  <2>1. CASE UNCHANGED work
    BY <2>1 DEF RebaseTypeOK
  <2>2. CASE \E p \in IF pc = "apply" THEN todo ELSE Paths, v \in Contents \cup {None} :
                work' = [work EXCEPT ![p] = v]
    BY <2>2 DEF RebaseTypeOK, Tree
  <2> QED BY <2>1, <2>2 DEF Crash
<1>5. /\ dir' \in State /\ dir'.origHead \in {dir.origHead, <<>>}
      /\ dir'.msgnum \in {dir.msgnum, -1} \/ pc = "replay"
  <2>0. dir \in State /\ NoState \in State
        /\ NoState.origHead = <<>> /\ NoState.msgnum = -1
    BY DEF RebaseTypeOK, State, NoState
  <2>1. CASE UNCHANGED dir
    BY <2>0, <2>1
  <2>2. CASE \E left \in SUBSET DOMAIN dir :
                dir' = [f \in DOMAIN dir |-> IF f \in left THEN dir[f] ELSE NoState[f]]
    <3>1. PICK left \in SUBSET DOMAIN dir :
             dir' = [f \in DOMAIN dir |-> IF f \in left THEN dir[f] ELSE NoState[f]]
      BY <2>2
    <3> QED BY <2>0, <3>1 DEF State
  <2>3. CASE /\ pc \in {"end", "replay"}
             /\ dir' = [dir EXCEPT ![IF pc = "end" THEN "end" ELSE "msgnum"] = 0]
    <3>1. CASE pc = "end" /\ dir' = [dir EXCEPT !["end"] = 0]
      BY <2>0, <3>1 DEF State
    <3>2. CASE pc = "replay" /\ dir' = [dir EXCEPT !["msgnum"] = 0]
      BY <2>0, <3>2 DEF State
    <3> QED BY <2>3, <3>1, <3>2
  <2> QED BY <2>1, <2>2, <2>3 DEF Crash
<1>6. RebaseTypeOK'
  BY <1>1, <1>2, <1>3, <1>4, <1>5 DEF RebaseTypeOK, Pcs
<1>7. OriginOK'
  BY <1>1, <1>2, <1>5 DEF OriginOK
<1>8. AbortOK'
  BY <1>1 DEF AbortOK, Aborting
<1>9. note'.faults # 0
  BY <1>2
<1>10. PlanOK'
  BY <1>9 DEF PlanOK
<1>11. MsgnumOK'
  BY <1>9 DEF MsgnumOK
<1>12. TopOK'
  <2> SUFFICES ASSUME ~note.nested, ~note.aborting, note.faults = 0,
                      dir.origHead # <<>>, dir.msgnum # -1 \/ pc = "replay"
               PROVE  OnTop'
    BY <1>1, <1>2, <1>5 DEF TopOK
  <2>1. pc \in {"reset", "replay", "apply", "panic", "clean"}
    BY <1>1 DEF MsgnumOK, AbortOK, Saving, Aborting, RebaseTypeOK, Pcs
  <2> QED BY <1>1, <2>1 DEF TopOK, OnTop
<1> QED BY <1>6, <1>7, <1>8, <1>10, <1>11, <1>12

LEMMA PanickedStep == ASSUME RebaseInv, Panicked PROVE RebaseInv'
<1> USE DEF RebaseInv
<1>1. /\ pc = "panic" /\ pc' = "idle" /\ Return
      /\ UNCHANGED <<tip, index, work, dir, onto, note>>
  BY DEF Panicked, Return, disk
<1>2. commits' \in Seq(Commit) /\ i' \in Nat /\ end' \in Nat /\ todo' \subseteq Paths
  BY <1>1, ReturnType
<1>3. RebaseTypeOK'
  BY <1>1, <1>2 DEF RebaseTypeOK, Pcs
<1>4. OriginOK'
  BY <1>1 DEF OriginOK
<1>5. AbortOK'
  BY <1>1 DEF AbortOK, Aborting
<1>6. PlanOK'
  BY <1>1 DEF PlanOK, Saving
<1>7. MsgnumOK'
  BY <1>1 DEF MsgnumOK, Saving
<1>8. TopOK'
  BY <1>1 DEF TopOK, OnTop
<1> QED BY <1>3, <1>4, <1>5, <1>6, <1>7, <1>8

LEMMA NextRebaseInv == RebaseInv /\ [Next]_vars => RebaseInv'
<1> SUFFICES ASSUME RebaseInv, [Next]_vars PROVE RebaseInv'
  OBVIOUS
<1>1. CASE Next
  <2>1. CASE \E p \in Paths : \/ ApplyPath(p) \/ DeletionFails(p) \/ WriteFails(p) \/ Stage(p)
                              \/ \E v \in Contents \cup {None} : Edit(p, v)
    BY <2>1, ApplyPathStep, DeletionFailsStep, WriteFailsStep, StageStep, EditStep
  <2> QED BY <1>1, <2>1, RebaseStep, SaveStateStep, MoveBranchStep, ResetToOntoStep,
             NextCommitStep, CommitReplayedStep, ReplayOverStep, RemoveStateStep,
             RebaseContinueStep, RebaseAbortStep, RestoreBranchStep, RestoreTreeStep,
             UserCommitStep, CrashStep, PanickedStep DEF Next
<1>2. CASE UNCHANGED vars
  BY <1>2 DEF vars, disk, memory, RebaseInv, RebaseTypeOK, OriginOK, AbortOK, Restored,
     PlanOK, MsgnumOK, TopOK, OnTop
<1> QED BY <1>1, <1>2

LEMMA RebaseInvariant == Spec => []RebaseInv
  BY InitRebaseInv, NextRebaseInv, PTL DEF Spec
-----------------------------------------------------------------------------
(* What a rebase replays are changes of the branch, and all of those that  *)
(* the target has not.                                                     *)
LEMMA PlanMessages ==
  ASSUME NEW c \in Commit, NEW d \in Commit
  PROVE  /\ \A j \in DOMAIN Plan(c, d) : MsgOf(Plan(c, d)[j]) \in MessagesOf(c)
         /\ \A m \in MessagesOf(c) \ MessagesOf(d) :
               \E j \in DOMAIN Plan(c, d) : m = MsgOf(Plan(c, d)[j])
<1> DEFINE n == BaseLength(c, d)
<1>1. /\ c \in Seq(Change) /\ Len(c) \in Nat /\ d \in Seq(Change) /\ Len(d) \in Nat
      /\ n \in 0..Len(c) /\ n <= Len(d) /\ SubSeq(c, 1, n) = SubSeq(d, 1, n)
  BY BaseLengthRange, CommitLength
<1>2. Plan(c, d) = [k \in 1..(Len(c) - n) |-> SubSeq(c, 1, Len(c) + 1 - k)]
  BY DEF Plan, CommitsBetween
<1> HIDE DEF n
<1>3. /\ DOMAIN Plan(c, d) = 1..(Len(c) - n)
      /\ \A j \in 1..(Len(c) - n) : MsgOf(Plan(c, d)[j]) = c[Len(c) + 1 - j].msg
  <2> SUFFICES ASSUME NEW j \in 1..(Len(c) - n)
               PROVE  MsgOf(Plan(c, d)[j]) = c[Len(c) + 1 - j].msg
    BY <1>2
  <2>1. Len(c) + 1 - j \in 1..Len(c)
    BY <1>1
  <2> DEFINE l == Len(c) + 1 - j
             t == SubSeq(c, 1, l)
  <2>2. Len(t) = l /\ t[l] = c[l]
    BY <1>1, <2>1
  <2>3. Plan(c, d)[j] = t
    BY <1>2
  <2> HIDE DEF t, l
  <2>4. MsgOf(t) = c[l].msg
    BY <2>2 DEF MsgOf
  <2> QED BY <2>3, <2>4 DEF l
<1>4. ASSUME NEW j \in DOMAIN Plan(c, d) PROVE MsgOf(Plan(c, d)[j]) \in MessagesOf(c)
  <2>1. Len(c) + 1 - j \in DOMAIN c
    BY <1>1, <1>3
  <2> QED BY <1>3, <2>1 DEF MessagesOf
<1>5. ASSUME NEW k \in DOMAIN c, c[k].msg \notin MessagesOf(d)
      PROVE  \E j \in DOMAIN Plan(c, d) : c[k].msg = MsgOf(Plan(c, d)[j])
  <2>1. k \in 1..Len(c)
    BY <1>1
  <2>2. ~(k <= n)
    <3> SUFFICES ASSUME k <= n PROVE FALSE
      OBVIOUS
    <3>1. SubSeq(c, 1, n)[k] = c[k] /\ SubSeq(d, 1, n)[k] = d[k]
      BY <1>1, <2>1
    <3>2. k \in DOMAIN d /\ d[k] = c[k]
      BY <1>1, <2>1, <3>1
    <3> QED BY <1>5, <3>2 DEF MessagesOf
  <2>3. Len(c) + 1 - k \in 1..(Len(c) - n) /\ Len(c) + 1 - (Len(c) + 1 - k) = k
    BY <1>1, <2>1, <2>2
  <2> QED BY <1>3, <2>3
<1> QED BY <1>4, <1>5 DEF MessagesOf

LEMMA TodoFacts ==
  ASSUME RebaseTypeOK
  PROVE  /\ Todo \in Seq(Commit)
         /\ \A j \in DOMAIN Todo : /\ MsgOf(Todo[j]) \in Messages \cup {UserMsg}
                                   /\ MsgOf(Todo[j]) \in MessagesOf(note.origin)
<1>1. note.origin \in Commit /\ onto \in Commit
  BY DEF RebaseTypeOK, Note
<1>2. Todo \in Seq(Commit)
  BY <1>1, PlanType DEF Todo
<1>3. \A j \in DOMAIN Todo : Todo[j] \in Commit
  BY <1>2
<1> QED BY <1>1, <1>2, <1>3, PlanMessages, CommitParts DEF Todo

(* The messages that are missing are finitely many, and fewer when they    *)
(* are fewer.                                                              *)
LEMMA MissingFinite ==
  ASSUME RebaseTypeOK
  PROVE  IsFiniteSet(Missing) /\ Cardinality(Missing) \in Nat
<1>1. Missing \subseteq Messages \cup {UserMsg}
  BY TodoFacts DEF Missing, Dealt
<1>2. IsFiniteSet(Messages \cup {UserMsg})
  BY RebaseAssumption, FS_AddElement
<1>3. IsFiniteSet(Missing)
  BY <1>1, <1>2, FS_Subset
<1> QED BY <1>3, FS_CardinalityType

LEMMA DroppedKept ==
  ASSUME RebaseTypeOK, RebaseTypeOK', DroppedOK,
         ~note'.nested /\ ~note'.misled => ~note.nested /\ ~note.misled,
         note.faults <= note'.faults,
         ~note'.nested /\ ~note'.misled => Missing' \subseteq Missing
  PROVE  DroppedOK'
<1> SUFFICES ASSUME ~note'.nested, ~note'.misled
             PROVE  Cardinality(Missing') <= note'.faults
  BY DEF DroppedOK
<1>1. IsFiniteSet(Missing) /\ Cardinality(Missing) \in Nat
  BY MissingFinite
<1>2. Cardinality(Missing') <= Cardinality(Missing) /\ IsFiniteSet(Missing')
  BY <1>1, FS_Subset
<1>3. Cardinality(Missing') \in Nat
  BY <1>2, FS_CardinalityType
<1>4. Cardinality(Missing) <= note.faults /\ note.faults \in Nat /\ note'.faults \in Nat
  BY DEF DroppedOK, RebaseTypeOK, Note
<1> QED BY <1>1, <1>2, <1>3, <1>4

(* A step of one call keeps what is missing when the branch and the list   *)
(* of what the caller was told only grow, and what is newly dealt with is  *)
(* in one of them.                                                         *)
LEMMA MissingShrinks ==
  ASSUME UNCHANGED onto, note'.origin = note.origin,
         MessagesOf(tip) \subseteq MessagesOf(tip'), note.stopped \subseteq note'.stopped,
         \A j \in DOMAIN Todo : j <= Progress' =>
            j <= Progress \/ MsgOf(Todo[j]) \in MessagesOf(tip') \cup note'.stopped
  PROVE  Missing' \subseteq Missing
<1>1. Todo' = Todo
  BY DEF Todo
<1> QED BY <1>1 DEF Missing, Dealt

LEMMA AppendFacts ==
  ASSUME RebaseTypeOK, NEW msg \in Messages \cup {UserMsg}, CommitIndex(msg)
  PROVE  /\ TreeOf(tip') = index /\ Len(tip) \in Nat /\ Len(tip') = Len(tip) + 1
         /\ tip'[Len(tip) + 1].msg = msg /\ \A k \in 1..Len(tip) : tip'[k] = tip[k]
         /\ MessagesOf(tip') = MessagesOf(tip) \cup {msg}
<1> DEFINE r == [msg |-> msg, tree |-> index]
<1>1. tip \in Seq(Change) /\ r \in Change
  BY CommitLength DEF RebaseTypeOK, Change
<1>2. tip' = Append(tip, r) /\ r.msg = msg /\ r.tree = index
  BY DEF CommitIndex
<1> HIDE DEF r
<1>3. /\ Len(tip) \in Nat /\ Len(tip') = Len(tip) + 1 /\ tip'[Len(tip) + 1] = r
      /\ \A k \in 1..Len(tip) : tip'[k] = tip[k]
      /\ DOMAIN tip = 1..Len(tip) /\ DOMAIN tip' = 1..(Len(tip) + 1)
  BY <1>1, <1>2
<1>4. TreeOf(tip') = index
  BY <1>2, <1>3 DEF TreeOf
<1>5. MessagesOf(tip') = MessagesOf(tip) \cup {msg}
  <2>1. \A k \in DOMAIN tip' : k \in DOMAIN tip \/ k = Len(tip) + 1
    BY <1>3
  <2>2. DOMAIN tip \subseteq DOMAIN tip' /\ Len(tip) + 1 \in DOMAIN tip'
    BY <1>3
  <2> QED BY <1>2, <1>3, <2>1, <2>2 DEF MessagesOf
<1> QED BY <1>2, <1>3, <1>4, <1>5

(* One change more, which leaves q alone or whose content q has, or which  *)
(* deletes q, which is kept.                                               *)
LEMMA SidedNext ==
  ASSUME NEW cs, NEW o, NEW t, NEW q, NEW k \in Nat, NEW kept,
         \/ /\ Sided(cs, o, t, q, k, kept)
            /\ ~(TreeOf(cs[k + 1])[q] # TreeOf(Parent(cs[k + 1]))[q])
         \/ /\ TreeOf(cs[k + 1])[q] # TreeOf(Parent(cs[k + 1]))[q]
            /\ t[q] = TreeOf(cs[k + 1])[q]
         \/ /\ TreeOf(cs[k + 1])[q] # TreeOf(Parent(cs[k + 1]))[q]
            /\ Sided(cs, o, t, q, k, kept)
            /\ q \in kept /\ TreeOf(cs[k + 1])[q] = None
  PROVE  Sided(cs, o, t, q, k + 1, kept)
<1>1. CASE ~(TreeOf(cs[k + 1])[q] # TreeOf(Parent(cs[k + 1]))[q])
  <2>1. Touching(cs, q, k + 1) = Touching(cs, q, k)
    BY <1>1 DEF Touching
  <2> QED BY <1>1, <2>1 DEF Sided
<1>2. CASE TreeOf(cs[k + 1])[q] # TreeOf(Parent(cs[k + 1]))[q]
  <2>1. k + 1 \in Touching(cs, q, k + 1)
    BY <1>2 DEF Touching
  <2>2. CASE t[q] = TreeOf(cs[k + 1])[q]
    BY <2>1, <2>2 DEF Sided
  <2>3. CASE Sided(cs, o, t, q, k, kept) /\ q \in kept /\ TreeOf(cs[k + 1])[q] = None
    <3>1. ASSUME NEW j \in Touching(cs, q, k + 1), Touching(cs, q, k + 1) = {j}
          PROVE  j = k + 1 /\ t[q] = TreeOf(o)[q]
      <4>1. j = k + 1
        BY <2>1, <3>1
      <4>2. Touching(cs, q, k) \subseteq Touching(cs, q, k + 1) /\ k + 1 \notin Touching(cs, q, k)
        BY DEF Touching
      <4>3. Touching(cs, q, k) = {}
        BY <3>1, <4>1, <4>2
      <4> QED BY <2>3, <4>1, <4>3 DEF Sided
    <3> QED BY <2>1, <2>3, <3>1 DEF Sided
  <2> QED BY <1>2, <2>2, <2>3
<1> QED BY <1>1, <1>2

LEMMA SidedKept ==
  ASSUME NEW cs, NEW o, NEW t, NEW q, NEW k, NEW kept, NEW more,
         Sided(cs, o, t, q, k, kept), kept \subseteq more
  PROVE  Sided(cs, o, t, q, k, more)
  BY DEF Sided

LEMMA SidedFirst ==
  ASSUME NEW cs, NEW o, NEW q, NEW kept PROVE Sided(cs, o, TreeOf(o), q, 0, kept)
<1>1. Touching(cs, q, 0) = {}
  BY DEF Touching
<1> QED BY <1>1 DEF Sided
-----------------------------------------------------------------------------
LEMMA InitReplayInv == Init => ReplayInv
<1> SUFFICES ASSUME Init PROVE ReplayInv
  OBVIOUS
<1>1. /\ pc = "idle" /\ i = 0 /\ dir = NoState /\ note.origin = tip /\ ~note.calm
      /\ note.stopped = {} /\ note.faults = 0
  BY DEF Init
<1>2. StartOK
  BY <1>1 DEF StartOK
<1>3. dir.onto = <<>> /\ dir.end = -1 /\ dir.msgnum = -1
  BY <1>1 DEF NoState
<1>4. ListOK
  BY <1>1, <1>3 DEF ListOK, Saving
<1>5. DroppedOK
  <2>1. Todo \in Seq(Commit) /\ Progress = 0
    BY <1>1, <1>3, InitRebaseInv, TodoFacts DEF Progress, RebaseInv
  <2>2. Missing = {}
    BY <2>1 DEF Missing, Dealt
  <2> QED BY <1>1, <2>2, FS_EmptySet DEF DroppedOK
<1>6. CalmOK
  BY <1>1 DEF CalmOK
<1> QED BY <1>2, <1>4, <1>5, <1>6 DEF ReplayInv

LEMMA RebaseReplay ==
  ASSUME RebaseInv, RebaseInv', ReplayInv, Rebase PROVE ReplayInv'
<1> USE DEF ReplayInv
<1> DEFINE n == BaseLength(tip, onto)
<1>1. CASE UNCHANGED <<memory, note>>
  <2>1. UNCHANGED <<pc, commits, i, end, todo, note, tip, index, work, dir, onto>>
    BY <1>1 DEF Rebase, memory, disk
  <2> QED BY <2>1 DEF StartOK, ListOK, DroppedOK, CalmOK, Todo, Missing, Progress
<1>2. CASE ~(tip = onto \/ n \in {0, Len(tip)})
  <2>1. /\ pc = "idle" /\ pc' = "orig-head" /\ commits' = Plan(tip, onto)
        /\ end' = Len(tip) - n /\ UNCHANGED <<tip, index, work, dir, i, todo, onto>>
        /\ note' = IF dir.origHead = <<>>
                   THEN [origin |-> tip, calm |-> TRUE, nested |-> FALSE,
                         aborting |-> FALSE, misled |-> dir # NoState,
                         stopped |-> {}, kept |-> {}, faults |-> note.faults,
                         rebases |-> note.rebases + 1, edits |-> note.edits]
                   ELSE [note EXCEPT !.nested = TRUE, !.calm = FALSE, !.rebases = @ + 1]
    BY <1>2 DEF Rebase, disk, Plan, PlanEnd
  <2>2. Len(commits') = end'
    BY <2>1, PlanType DEF RebaseInv, RebaseTypeOK
  <2> HIDE DEF n
  <2>3. \/ note'.nested /\ ~note'.calm
        \/ note'.origin = tip /\ (~note'.misled => dir = NoState)
    <3>1. note \in Note
      BY DEF RebaseInv, RebaseTypeOK
    <3>2. CASE dir.origHead = <<>>
      <4>1. note' = [origin |-> tip, calm |-> TRUE, nested |-> FALSE,
                     aborting |-> FALSE, misled |-> dir # NoState,
                     stopped |-> {}, kept |-> {}, faults |-> note.faults,
                     rebases |-> note.rebases + 1, edits |-> note.edits]
        BY <2>1, <3>2
      <4>2. note'.origin = tip
        BY <4>1
      <4>3. note'.misled = (dir # NoState)
        BY <4>1, Zenon
      <4>4. ~note'.misled => dir = NoState
        BY <4>3, Zenon
      <4> QED BY <4>2, <4>4, Zenon
    <3>3. CASE dir.origHead # <<>>
      BY <2>1, <3>1, <3>3 DEF Note
    <3> QED BY <3>2, <3>3
  <2>4. StartOK'
    BY <2>1 DEF StartOK, Saving
  <2>5. dir = NoState => dir.onto = <<>> /\ dir.end = -1 /\ dir.msgnum = -1
    BY DEF NoState
  <2>6. note'.nested \/ Todo' = commits'
    BY <2>1, <2>3 DEF Todo
  <2>7. ListOK'
    BY <2>1, <2>2, <2>3, <2>5, <2>6 DEF ListOK, Saving
  <2>8. DroppedOK'
    <3> SUFFICES ASSUME ~note'.nested, ~note'.misled
                 PROVE  Cardinality(Missing') <= note'.faults
      BY DEF DroppedOK
    <3>1. Progress' = 0 /\ Todo' \in Seq(Commit) /\ note'.faults \in Nat
      <4>1. Todo' \in Seq(Commit)
        BY <2>6 DEF RebaseInv, RebaseTypeOK
      <4> QED BY <2>1, <2>3, <2>5, <4>1 DEF Progress, RebaseInv, RebaseTypeOK, Note
    <3>2. Missing' = {}
      BY <3>1 DEF Missing, Dealt
    <3> QED BY <3>1, <3>2, FS_EmptySet
  <2>9. CalmOK'
    BY <2>1, <2>2 DEF CalmOK, Aborting
  <2> QED BY <2>4, <2>7, <2>8, <2>9
<1> QED BY <1>1, <1>2 DEF Rebase

(* What the history keeps when a state file is written, or is not; unless  *)
(* it is left empty, which misleads.                                       *)
LEMMA WriteKeeps ==
  ASSUME RebaseTypeOK, NEW f, NEW v, WriteStateFile(f, v)
  PROVE  /\ note'.origin = note.origin /\ note'.stopped = note.stopped
         /\ note'.nested = note.nested /\ note'.kept = note.kept
         /\ note'.calm = note.calm /\ note.faults <= note'.faults
         /\ ~note'.misled =>
               ~note.misled /\ (dir' = [dir EXCEPT ![f] = v] \/ dir' = dir)
<1>1. note \in Note /\ note.faults \in Nat
  BY DEF RebaseTypeOK, Note
<1>2. CASE dir' = [dir EXCEPT ![f] = v] /\ UNCHANGED note
  BY <1>1, <1>2
<1>3. CASE note' = [note EXCEPT !.faults = @ + 1] /\ UNCHANGED dir
  BY <1>1, <1>3 DEF Note
<1>4. CASE note' = [note EXCEPT !.faults = @ + 1, !.misled = TRUE]
  BY <1>1, <1>4 DEF Note
<1> QED BY <1>2, <1>3, <1>4 DEF WriteStateFile

(* A step that the history does not speak of.                              *)
LEMMA DroppedSame ==
  ASSUME RebaseTypeOK, RebaseTypeOK', DroppedOK, UNCHANGED note,
         ~note.nested /\ ~note.misled => Missing' \subseteq Missing
  PROVE  DroppedOK'
<1>1. note.faults <= note'.faults
  BY DEF RebaseTypeOK, Note
<1> QED BY <1>1, DroppedKept, Zenon

LEMMA SaveStateReplay ==
  ASSUME RebaseInv, RebaseInv', ReplayInv, SaveState PROVE ReplayInv'
<1> USE DEF RebaseInv, ReplayInv
<1>1. /\ UNCHANGED <<tip, index, work, commits, i, end, todo, onto>>
      /\ pc \in Saving /\ pc' \in Saving \cup {"move"} /\ (pc' = "move" => pc = "end")
      /\ \E f \in {"origHead", "onto", "headName", "end"} :
            /\ f = "onto" => pc = "onto"
            /\ f = "end" => pc = "end"
            /\ \/ f \notin {"onto", "end"} /\ \E v : WriteStateFile(f, v)
               \/ f = "onto" /\ WriteStateFile(f, onto)
               \/ f = "end" /\ WriteStateFile(f, end)
  BY Zenon DEF SaveState, Saving
<1>2. /\ note'.origin = note.origin /\ note'.stopped = note.stopped
      /\ note'.nested = note.nested /\ (~note'.misled => ~note.misled)
      /\ note'.calm = note.calm /\ note.faults <= note'.faults
  BY <1>1, WriteKeeps
<1>3. ~note'.misled =>
        /\ dir'.msgnum = dir.msgnum /\ dir'.onto \in {dir.onto, onto}
        /\ dir'.end = dir.end \/ (pc = "end" /\ dir'.end = end)
  <2>1. dir \in State
    BY DEF RebaseTypeOK
  <2>2. ASSUME NEW f \in {"origHead", "headName"}, NEW v, WriteStateFile(f, v), ~note'.misled
        PROVE  /\ dir'.msgnum = dir.msgnum /\ dir'.onto = dir.onto /\ dir'.end = dir.end
    <3>1. dir' = [dir EXCEPT ![f] = v] \/ dir' = dir
      BY <2>2, WriteKeeps
    <3> QED BY <2>1, <3>1 DEF State
  <2>3. ASSUME WriteStateFile("onto", onto), ~note'.misled
        PROVE  /\ dir'.msgnum = dir.msgnum /\ dir'.onto \in {dir.onto, onto}
               /\ dir'.end = dir.end
    <3>1. dir' = [dir EXCEPT !["onto"] = onto] \/ dir' = dir
      BY <2>3, WriteKeeps
    <3> QED BY <2>1, <3>1 DEF State
  <2>4. ASSUME WriteStateFile("end", end), ~note'.misled
        PROVE  /\ dir'.msgnum = dir.msgnum /\ dir'.onto = dir.onto
               /\ dir'.end \in {dir.end, end}
    <3>1. dir' = [dir EXCEPT !["end"] = end] \/ dir' = dir
      BY <2>4, WriteKeeps
    <3> QED BY <2>1, <3>1 DEF State
  <2> QED BY <1>1, <2>2, <2>3, <2>4
<1>4. pc' \notin {"idle", "panic", "reset", "replay", "apply", "clean"}
  BY <1>1 DEF Saving
<1>5. pc \notin {"idle", "panic", "reset", "replay", "apply", "clean", "move"} /\ "end" \in Saving
  BY <1>1 DEF Saving
<1>6. StartOK'
  BY <1>1 DEF StartOK
<1>7. Todo' = Todo
  BY <1>1, <1>2 DEF Todo
<1>8. ~note'.misled /\ pc' \in Saving => dir'.end = dir.end
  BY <1>1, <1>3 DEF Saving, SaveState
<1>9. ListOK'
  BY <1>1, <1>2, <1>3, <1>4, <1>5, <1>7, <1>8 DEF ListOK
<1>10. ~note'.misled => Missing' = Missing
  BY <1>1, <1>2, <1>3, <1>4, <1>5, <1>7 DEF Missing, Progress
<1>11. DroppedOK'
  BY <1>2, <1>10, DroppedKept
<1>12. CalmOK'
  BY <1>1, <1>2, <1>4, <1>5 DEF CalmOK, Aborting, Saving
<1> QED BY <1>6, <1>9, <1>11, <1>12

LEMMA MoveBranchReplay ==
  ASSUME RebaseInv, RebaseInv', ReplayInv, MoveBranch PROVE ReplayInv'
<1> USE DEF RebaseInv, ReplayInv
<1>1. /\ pc = "move" /\ pc' = "reset" /\ tip' = onto
      /\ UNCHANGED <<index, work, dir, commits, i, end, todo, onto, note>>
  BY DEF MoveBranch
<1>2. StartOK'
  BY <1>1 DEF StartOK, Saving
<1>3. ListOK'
  BY <1>1 DEF ListOK, Todo, Saving
<1>4. DroppedOK'
  <2>1. ASSUME ~note.nested, ~note.misled PROVE Missing' = {}
    <3>1. Progress' = 0
      BY <1>1, <2>1 DEF Progress, ListOK
    <3>2. Todo' \in Seq(Commit)
      BY TodoFacts, <1>1 DEF Todo
    <3> QED BY <3>1, <3>2 DEF Missing, Dealt
  <2> QED BY <1>1, <2>1, DroppedSame
<1>5. CalmOK'
  BY <1>1 DEF CalmOK, Aborting
<1> QED BY <1>2, <1>3, <1>4, <1>5

LEMMA ResetToOntoReplay ==
  ASSUME RebaseInv, RebaseInv', ReplayInv, ResetToOnto PROVE ReplayInv'
<1> USE DEF RebaseInv, ReplayInv
<1>1. /\ pc = "reset" /\ pc' = "replay" /\ HardReset(TreeOf(onto)) /\ i = 0
      /\ UNCHANGED <<tip, dir, commits, i, end, todo, onto, note>>
  BY DEF ResetToOnto, StartOK
<1>2. StartOK'
  BY <1>1 DEF StartOK, Saving
<1>3. ListOK'
  BY <1>1 DEF ListOK, Todo, Saving
<1>4. DroppedOK'
  <2>1. ASSUME ~note.nested, ~note.misled PROVE Missing' = {}
    <3>1. Progress' = 0
      BY <1>1 DEF Progress
    <3>2. Todo' \in Seq(Commit)
      BY TodoFacts, <1>1 DEF Todo
    <3> QED BY <3>1, <3>2 DEF Missing, Dealt
  <2> QED BY <1>1, <2>1, DroppedSame
<1>5. CalmOK'
  <2> SUFFICES ASSUME note.calm PROVE CalmOK'
    BY <1>1 DEF CalmOK
  <2>1. tip = onto /\ index' = TreeOf(tip) /\ end = Len(commits)
    BY <1>1 DEF CalmOK, HardReset
  <2>2. Len(commits) \in Nat /\ Len(onto) \in Nat
    BY CommitLength DEF RebaseTypeOK
  <2>3. Replayed(tip, commits, onto, 0)
    BY <2>1, <2>2 DEF Replayed
  <2>4. \A q \in Paths : Sided(commits, onto, TreeOf(onto), q, 0, note.kept)
    BY SidedFirst
  <2>5. Replayed(tip', commits', onto', i')
    BY <1>1, <2>3
  <2>6. index' = TreeOf(tip') /\ \A q \in Paths : Sided(commits', onto', index', q, i', note'.kept)
    BY <1>1, <2>1, <2>4 DEF TreeOf
  <2> QED BY <1>1, <2>1, <2>5, <2>6 DEF CalmOK, Aborting
<1> QED BY <1>2, <1>3, <1>4, <1>5

LEMMA NextCommitReplay ==
  ASSUME RebaseInv, RebaseInv', ReplayInv, NextCommit PROVE ReplayInv'
<1> USE DEF RebaseInv, ReplayInv
<1>1. /\ pc = "replay" /\ i < end /\ WriteStateFile("msgnum", i)
      /\ UNCHANGED <<tip, index, work, commits, i, end, onto>>
      /\ IF i < Len(commits)
         THEN pc' = "apply" /\ todo' = Changed(commits[i + 1])
         ELSE pc' = "panic" /\ UNCHANGED todo
  BY DEF NextCommit
<1>2. /\ note'.origin = note.origin /\ note'.stopped = note.stopped
      /\ note'.nested = note.nested /\ note'.kept = note.kept
      /\ note'.calm = note.calm /\ note.faults <= note'.faults
      /\ ~note'.misled =>
            ~note.misled /\ (dir' = [dir EXCEPT !["msgnum"] = i] \/ dir' = dir)
  BY <1>1, WriteKeeps
<1>3. i \in Nat /\ dir \in State
  BY DEF RebaseTypeOK
<1>4. ~note'.misled =>
        dir'.onto = dir.onto /\ dir'.end = dir.end /\ dir'.msgnum \in {dir.msgnum, i}
  BY <1>2, <1>3 DEF State
<1>5. StartOK'
  BY <1>1 DEF StartOK, Saving
<1>6. Todo' = Todo
  BY <1>1, <1>2 DEF Todo
<1>7. ASSUME ~note.nested, ~note.misled PROVE pc' = "apply" /\ Missing' = Missing
  <2>1. pc' = "apply"
    BY <1>1, <1>7 DEF ListOK
  <2> QED BY <1>1, <1>2, <1>6, <2>1 DEF Missing, Progress
<1>8. ListOK'
  <2>1. ~note'.nested /\ ~note'.misled => dir'.msgnum <= i
    BY <1>1, <1>2, <1>3, <1>4 DEF ListOK, State
  <2> QED BY <1>1, <1>2, <1>4, <1>6, <1>7, <2>1 DEF ListOK, Saving
<1>9. DroppedOK'
  BY <1>2, <1>7, DroppedKept
<1>10. CalmOK'
  <2> SUFFICES ASSUME note.calm PROVE CalmOK'
    BY <1>2 DEF CalmOK
  <2>1. pc' = "apply" /\ todo' = Changed(commits[i + 1])
    BY <1>1 DEF CalmOK
  <2>2. ASSUME NEW q \in Paths \ todo'
        PROVE  Sided(commits, onto, index, q, i + 1, note.kept)
    <3>1. ~(TreeOf(commits[i + 1])[q] # TreeOf(Parent(commits[i + 1]))[q])
      BY <2>1 DEF Changed
    <3>2. Sided(commits, onto, index, q, i, note.kept)
      BY <1>1 DEF CalmOK
    <3> QED BY <1>3, <3>1, <3>2, SidedNext
  <2>3. \A q \in todo' : Sided(commits, onto, index, q, i, note.kept)
    BY <1>1, <2>1 DEF CalmOK, Changed
  <2> QED BY <1>1, <1>2, <2>1, <2>2, <2>3 DEF CalmOK, Aborting, Changed
<1> QED BY <1>5, <1>8, <1>9, <1>10

LEMMA ApplyPathReplay ==
  ASSUME RebaseInv, RebaseInv', ReplayInv, NEW p \in Paths, ApplyPath(p) PROVE ReplayInv'
<1> USE DEF RebaseInv, ReplayInv
<1> DEFINE v == TreeOf(commits[i + 1])[p]
<1>1. /\ pc = "apply" /\ p \in todo /\ index' = [index EXCEPT ![p] = v]
      /\ todo' = todo \ {p}
      /\ UNCHANGED <<tip, dir, pc, commits, i, end, onto, note>>
  BY DEF ApplyPath
<1>2. StartOK'
  BY <1>1 DEF StartOK
<1>3. ListOK'
  BY <1>1 DEF ListOK, Todo
<1>4. Missing' = Missing
  BY <1>1 DEF Missing, Todo, Progress
<1>5. DroppedOK'
  BY <1>1, <1>4, DroppedSame
<1>6. CalmOK'
  <2> SUFFICES ASSUME note.calm PROVE CalmOK'
    BY <1>1 DEF CalmOK
  <2>1. i \in Nat /\ index \in Tree
    BY DEF RebaseTypeOK
  <2>2. ASSUME NEW q \in Paths \ todo'
        PROVE  Sided(commits, onto, index', q, i + 1, note.kept)
    <3>1. CASE q = p
      <4>1. v # TreeOf(Parent(commits[i + 1]))[p]
        BY <1>1 DEF CalmOK, Changed
      <4>2. index'[p] = v
        BY <1>1, <2>1 DEF Tree
      <4> QED BY <2>1, <3>1, <4>1, <4>2, SidedNext
    <3>2. CASE q # p
      <4>1. index'[q] = index[q]
        BY <1>1, <2>1, <3>2 DEF Tree
      <4>2. Sided(commits, onto, index, q, i + 1, note.kept)
        BY <1>1, <3>2 DEF CalmOK
      <4> QED BY <4>1, <4>2 DEF Sided
    <3> QED BY <3>1, <3>2
  <2>3. ASSUME NEW q \in todo'
        PROVE  Sided(commits, onto, index', q, i, note.kept)
    <3>1. q \in todo /\ q # p /\ q \in Paths
      BY <1>1, <2>3 DEF RebaseTypeOK
    <3>2. index'[q] = index[q]
      BY <1>1, <2>1, <3>1 DEF Tree
    <3>3. Sided(commits, onto, index, q, i, note.kept)
      BY <1>1, <3>1 DEF CalmOK
    <3> QED BY <3>2, <3>3 DEF Sided
  <2> QED BY <1>1, <2>2, <2>3 DEF CalmOK, Aborting, Changed
<1> QED BY <1>2, <1>3, <1>5, <1>6

(* A path that could not be deleted is as it was before the change.        *)
LEMMA DeletionFailsReplay ==
  ASSUME RebaseInv, RebaseInv', ReplayInv, NEW p \in Paths, DeletionFails(p) PROVE ReplayInv'
<1> USE DEF RebaseInv, ReplayInv
<1>1. /\ pc = "apply" /\ p \in todo /\ TreeOf(commits[i + 1])[p] = None /\ todo' = todo \ {p}
      /\ UNCHANGED <<tip, index, dir, pc, commits, i, end, onto>>
  BY DEF DeletionFails
<1>2. /\ note'.faults = note.faults + 1 /\ note.faults \in Nat
      /\ note'.origin = note.origin /\ note'.nested = note.nested
      /\ note'.misled = note.misled /\ note'.calm = note.calm
      /\ note'.stopped = note.stopped /\ note'.kept = note.kept \cup {p}
  BY DeletionFacts
<1>3. StartOK'
  BY <1>1 DEF StartOK
<1>4. ListOK'
  BY <1>1, <1>2 DEF ListOK, Todo
<1>5. Missing' = Missing
  BY <1>1, <1>2 DEF Missing, Todo, Progress
<1>6. DroppedOK'
  BY <1>2, <1>5, DroppedKept
<1>7. CalmOK'
  <2> SUFFICES ASSUME note.calm PROVE CalmOK'
    BY <1>2 DEF CalmOK
  <2>1. i \in Nat /\ note.kept \subseteq note'.kept /\ p \in note'.kept
    BY <1>2 DEF RebaseTypeOK
  <2>2. ASSUME NEW q \in Paths \ todo'
        PROVE  Sided(commits, onto, index, q, i + 1, note'.kept)
    <3>1. CASE q = p
      <4>1. TreeOf(commits[i + 1])[p] # TreeOf(Parent(commits[i + 1]))[p]
        BY <1>1 DEF CalmOK, Changed
      <4>2. Sided(commits, onto, index, p, i, note.kept)
        BY <1>1 DEF CalmOK
      <4>3. Sided(commits, onto, index, p, i, note'.kept)
        BY <2>1, <4>2, SidedKept
      <4> QED BY <1>1, <2>1, <3>1, <4>1, <4>3, SidedNext
    <3>2. CASE q # p
      <4>1. Sided(commits, onto, index, q, i + 1, note.kept)
        BY <1>1, <3>2 DEF CalmOK
      <4> QED BY <2>1, <4>1, SidedKept
    <3> QED BY <3>1, <3>2
  <2>3. ASSUME NEW q \in todo'
        PROVE  Sided(commits, onto, index, q, i, note'.kept)
    <3>1. Sided(commits, onto, index, q, i, note.kept)
      BY <1>1, <2>3 DEF CalmOK
    <3> QED BY <2>1, <3>1, SidedKept
  <2>4. UNCHANGED <<tip, index, dir, pc, commits, i, end, onto>> /\ pc = "apply"
        /\ end = Len(commits) /\ Replayed(tip, commits, onto, i)
        /\ todo' \subseteq Changed(commits[i + 1])
    BY <1>1 DEF CalmOK
  <2> QED BY <2>2, <2>3, <2>4 DEF CalmOK, Aborting, Changed
<1> QED BY <1>3, <1>4, <1>6, <1>7

(* A replay that stops at a change has told its caller so.                 *)
LEMMA StopReplay ==
  ASSUME RebaseInv, RebaseInv', ReplayInv, pc = "apply", Stop, UNCHANGED <<tip, dir, onto>>
  PROVE  ReplayInv'
<1> USE DEF RebaseInv, ReplayInv
<1>1. /\ note'.origin = note.origin /\ note'.nested = note.nested
      /\ note'.misled = note.misled /\ ~note'.calm /\ note.faults <= note'.faults
      /\ note'.stopped = note.stopped \cup {MsgOf(commits[i + 1])}
      /\ pc' = "idle" /\ i' = 0
  BY DEF Stop, Return, RebaseTypeOK, Note
<1>2. StartOK'
  BY <1>1 DEF StartOK
<1>3. ListOK'
  BY <1>1 DEF ListOK, Todo, Saving
<1>4. ASSUME ~note.nested, ~note.misled PROVE Missing' \subseteq Missing
  <2>1. commits = Todo /\ Progress = i /\ Progress' <= i + 1 /\ i \in Nat
    BY <1>1, <1>4 DEF ListOK, Progress, RebaseTypeOK, State
  <2>2. ASSUME NEW j \in DOMAIN Todo, j <= Progress'
        PROVE  j <= Progress \/ MsgOf(Todo[j]) \in MessagesOf(tip') \cup note'.stopped
    <3>1. Todo \in Seq(Commit)
      BY TodoFacts
    <3>2. j <= i \/ j = i + 1
      <4>1. Progress' \in Int
        BY <1>1 DEF Progress, RebaseTypeOK, State
      <4> QED BY <2>1, <2>2, <3>1, <4>1
    <3> QED BY <1>1, <2>1, <3>2
  <2> QED BY <1>1, <2>2, MissingShrinks
<1>5. DroppedOK'
  BY <1>1, <1>4, DroppedKept
<1>6. CalmOK'
  BY <1>1 DEF CalmOK
<1> QED BY <1>2, <1>3, <1>5, <1>6

LEMMA CommitReplayedReplay ==
  ASSUME RebaseInv, RebaseInv', ReplayInv, CommitReplayed PROVE ReplayInv'
<1> USE DEF RebaseInv, ReplayInv
<1>1. pc = "apply" /\ todo = {} /\ UNCHANGED <<index, work, dir, onto>>
  BY DEF CommitReplayed
<1>2. CASE index = TreeOf(tip)
  BY <1>1, <1>2, StopReplay DEF CommitReplayed
<1>3. CASE index # TreeOf(tip)
  <2> DEFINE m == MsgOf(commits[i + 1])
  <2>1. /\ CommitIndex(m) /\ i' = i + 1 /\ pc' = "replay"
        /\ UNCHANGED <<commits, end, todo, note>>
    BY <1>3 DEF CommitReplayed
  <2>2. /\ i \in Nat /\ i < Len(commits) /\ Len(commits) \in Nat /\ m \in Messages \cup {UserMsg}
    <3>1. i \in Nat /\ i < Len(commits) /\ Len(commits) \in Nat /\ commits[i + 1] \in Commit
      BY <1>1 DEF RebaseTypeOK
    <3> QED BY <3>1, CommitParts
  <2> HIDE DEF m
  <2>3. /\ TreeOf(tip') = index /\ Len(tip) \in Nat /\ Len(tip') = Len(tip) + 1
        /\ tip'[Len(tip) + 1].msg = m /\ \A k \in 1..Len(tip) : tip'[k] = tip[k]
        /\ MessagesOf(tip') = MessagesOf(tip) \cup {m}
    BY <2>1, <2>2, AppendFacts
  <2>4. StartOK'
    BY <2>1 DEF StartOK, Saving
  <2>5. ListOK'
    <3>1. ~note.nested /\ ~note.misled => dir.msgnum < i + 1
      BY <1>1, <2>2 DEF ListOK, RebaseTypeOK, State
    <3> QED BY <1>1, <2>1, <3>1 DEF ListOK, Todo, Saving
  <2>6. ASSUME ~note.nested, ~note.misled PROVE Missing' \subseteq Missing
    <3>1. commits = Todo /\ Progress = i /\ Progress' = i + 1
      BY <1>1, <2>1, <2>6 DEF ListOK, Progress
    <3>2. ASSUME NEW j \in DOMAIN Todo, j <= Progress'
          PROVE  j <= Progress \/ MsgOf(Todo[j]) \in MessagesOf(tip') \cup note'.stopped
      <4>1. Todo \in Seq(Commit)
        BY TodoFacts
      <4>2. j <= i \/ j = i + 1
        BY <2>2, <3>1, <3>2, <4>1
      <4> QED BY <2>3, <3>1, <4>2 DEF m
    <3> QED BY <1>1, <2>1, <2>3, <3>2, MissingShrinks
  <2>7. DroppedOK'
    BY <2>1, <2>6, DroppedSame
  <2>8. CalmOK'
    <3> SUFFICES ASSUME note.calm PROVE CalmOK'
      BY <2>1 DEF CalmOK
    <3>1. Replayed(tip, commits, onto, i)
          /\ \A q \in Paths : Sided(commits, onto, index, q, i + 1, note.kept)
      BY <1>1 DEF CalmOK
    <3>2. Len(onto) \in Nat
      BY CommitLength DEF RebaseTypeOK
    <3>3. Replayed(tip', commits, onto, i + 1)
      <4>1. i + 1 <= Len(commits) /\ Len(tip') = Len(onto) + (i + 1) /\ Len(tip) = Len(onto) + i
        BY <2>2, <2>3, <3>1, <3>2 DEF Replayed
      <4>2. ASSUME NEW j \in 1..(i + 1) PROVE tip'[Len(onto) + j].msg = MsgOf(commits[j])
        <5>1. CASE j = i + 1
          BY <2>2, <2>3, <3>2, <4>1, <5>1 DEF m
        <5>2. CASE j # i + 1
          <6>1. j \in 1..i /\ Len(onto) + j \in 1..Len(tip)
            BY <2>2, <3>2, <4>1, <5>2
          <6> QED BY <2>3, <3>1, <6>1 DEF Replayed
        <5> QED BY <5>1, <5>2
      <4> QED BY <4>1, <4>2 DEF Replayed
    <3>4. end = Len(commits)
      BY <1>1 DEF CalmOK
    <3> QED BY <1>1, <2>1, <2>3, <3>1, <3>3, <3>4 DEF CalmOK, Aborting
  <2> QED BY <2>4, <2>5, <2>7, <2>8
<1> QED BY <1>2, <1>3

LEMMA ReplayOverReplay ==
  ASSUME RebaseInv, RebaseInv', ReplayInv, ReplayOver PROVE ReplayInv'
<1> USE DEF RebaseInv, ReplayInv
<1>1. /\ pc = "replay" /\ i >= end /\ pc' = "clean"
      /\ UNCHANGED <<tip, index, work, dir, commits, i, end, todo, onto, note>>
  BY DEF ReplayOver, disk
<1>2. StartOK'
  BY <1>1 DEF StartOK, Saving
<1>3. ListOK'
  <2>1. ~note.nested /\ ~note.misled => Len(Todo) <= i
    BY <1>1 DEF ListOK
  <2> QED BY <1>1, <2>1 DEF ListOK, Todo, Saving
<1>4. Missing' = Missing
  BY <1>1 DEF Missing, Todo, Progress
<1>5. DroppedOK'
  BY <1>1, <1>4, DroppedSame
<1>6. CalmOK'
  <2> SUFFICES ASSUME note.calm PROVE CalmOK'
    BY <1>1 DEF CalmOK
  <2>1. i = Len(commits)
    BY <1>1 DEF CalmOK, Replayed, RebaseTypeOK
  <2> QED BY <1>1, <2>1 DEF CalmOK, Aborting
<1> QED BY <1>2, <1>3, <1>5, <1>6

LEMMA RemoveStateReplay ==
  ASSUME RebaseInv, RebaseInv', ReplayInv, RemoveState PROVE ReplayInv'
<1> USE DEF RebaseInv, ReplayInv
<1>1. /\ pc' = "idle" /\ dir' = NoState /\ i' = 0
      /\ UNCHANGED <<tip, index, work, onto, note>>
  BY DEF RemoveState, Return
<1>2. dir'.onto = <<>> /\ dir'.end = -1 /\ dir'.msgnum = -1
  BY <1>1 DEF NoState
<1>3. StartOK'
  BY <1>1 DEF StartOK
<1>4. ListOK'
  BY <1>1, <1>2 DEF ListOK, Saving
<1>5. DroppedOK'
  <2>1. Todo' \in Seq(Commit) /\ Progress' = 0
    BY <1>1, <1>2, TodoFacts DEF Todo, Progress
  <2>2. Missing' = {}
    BY <2>1 DEF Missing, Dealt
  <2> QED BY <1>1, <2>2, DroppedSame
<1>6. CalmOK'
  BY <1>1 DEF CalmOK, Aborting
<1> QED BY <1>3, <1>4, <1>5, <1>6

(* While nothing has disturbed a rebase there is nothing to continue, and  *)
(* nothing for the user to resolve.                                        *)
LEMMA CalmIdle ==
  ASSUME CalmOK, pc = "idle", note.calm
  PROVE  dir = NoState /\ dir.origHead = <<>>
  BY DEF CalmOK, NoState

LEMMA RebaseContinueReplay ==
  ASSUME RebaseInv, RebaseInv', ReplayInv, RebaseContinue PROVE ReplayInv'
<1> USE DEF RebaseInv, ReplayInv
<1> DEFINE c == dir.origHead
           plan == Plan(c, dir.onto)
           resolved == ~Clean /\ dir.msgnum < Len(plan)
<1>1. pc = "idle" /\ UNCHANGED <<index, work, dir, onto, note>>
  BY DEF RebaseContinue
<1>2. CASE UNCHANGED <<tip, memory>>
  <2>1. UNCHANGED <<pc, commits, i, end, todo, note, tip, index, work, dir, onto>>
    BY <1>1, <1>2 DEF memory
  <2> QED BY <2>1 DEF StartOK, ListOK, DroppedOK, CalmOK, Todo, Missing, Progress
<1>3. CASE /\ ~(<<>> \in {c, dir.onto} \/ -1 \in {dir.msgnum, dir.end})
           /\ IF resolved THEN CommitIndex(MsgOf(plan[dir.msgnum + 1])) ELSE UNCHANGED tip
           /\ pc' = "replay" /\ commits' = plan /\ i' = dir.msgnum + 1 /\ end' = dir.end
           /\ UNCHANGED todo
  <2>1. /\ c \in Commit /\ dir.onto \in Commit /\ dir.onto # <<>> /\ c # <<>>
        /\ dir.msgnum \in Nat /\ dir.end \in Nat /\ dir.end # -1
    BY <1>3 DEF RebaseTypeOK, State
  <2>2. plan \in Seq(Commit)
    BY <2>1, PlanType
  <2>3. MessagesOf(tip) \subseteq MessagesOf(tip')
    <3>1. CASE resolved
      <4>1. plan[dir.msgnum + 1] \in Commit
        BY <2>1, <2>2, <3>1
      <4>2. MsgOf(plan[dir.msgnum + 1]) \in Messages \cup {UserMsg}
        BY <4>1, CommitParts
      <4> QED BY <1>3, <3>1, <4>2, AppendFacts
    <3>2. CASE ~resolved
      BY <1>3, <3>2
    <3> QED BY <3>1, <3>2
  <2>4. ~note.nested /\ ~note.misled => plan = Todo /\ dir.end = Len(Todo)
    BY <2>1 DEF ListOK, OriginOK, Todo
  <2> HIDE DEF plan, resolved
  <2>5. StartOK'
    BY <1>3 DEF StartOK, Saving
  <2>6. ListOK'
    BY <1>1, <1>3, <2>1, <2>4 DEF ListOK, Todo, Saving
  <2>7. Missing' \subseteq Missing
    <3>1. Progress' = Progress
      BY <1>1, <1>3 DEF Progress
    <3> QED BY <1>1, <2>3, <3>1, MissingShrinks
  <2>8. DroppedOK'
    BY <1>1, <2>7, DroppedSame
  <2>9. CalmOK'
    BY <1>1, <2>1, CalmIdle DEF CalmOK
  <2> QED BY <2>5, <2>6, <2>8, <2>9
<1>4. plan = CommitsBetween(BaseLength(c, dir.onto), c)
  BY DEF Plan
<1> QED BY <1>2, <1>3, <1>4 DEF RebaseContinue

LEMMA RebaseAbortReplay ==
  ASSUME RebaseInv, RebaseInv', ReplayInv, RebaseAbort PROVE ReplayInv'
<1> USE DEF RebaseInv, ReplayInv
<1>1. pc = "idle" /\ UNCHANGED <<tip, index, work, dir, commits, i, end, todo, onto>>
  BY DEF RebaseAbort, disk
<1>2. CASE UNCHANGED <<pc, note>>
  BY <1>1, <1>2 DEF StartOK, ListOK, DroppedOK, CalmOK, Todo, Missing, Progress
<1>3. CASE /\ dir.origHead # <<>>
           /\ pc' = "restore" /\ note' = [note EXCEPT !.aborting = TRUE]
  <2>1. /\ note'.origin = note.origin /\ note'.nested = note.nested
        /\ note'.misled = note.misled /\ note'.calm = note.calm
        /\ note'.stopped = note.stopped /\ note.faults <= note'.faults
    BY <1>3 DEF RebaseTypeOK, Note
  <2>2. StartOK'
    BY <1>3 DEF StartOK, Saving
  <2>3. ListOK'
    BY <1>1, <1>3, <2>1 DEF ListOK, Todo, Saving
  <2>4. Missing' = Missing
    BY <1>1, <1>3, <2>1 DEF Missing, Todo, Progress
  <2>5. DroppedOK'
    BY <2>1, <2>4, DroppedKept
  <2>6. CalmOK'
    BY <1>1, <1>3, <2>1, CalmIdle DEF CalmOK
  <2> QED BY <2>2, <2>3, <2>5, <2>6
<1> QED BY <1>2, <1>3 DEF RebaseAbort

(* With the branch back nothing is missing from it.                        *)
LEMMA RestoreBranchReplay ==
  ASSUME RebaseInv, RebaseInv', ReplayInv, RestoreBranch PROVE ReplayInv'
<1> USE DEF RebaseInv, ReplayInv
<1>1. /\ pc = "restore" /\ pc' = "restore-tree" /\ tip' = dir.origHead
      /\ UNCHANGED <<index, work, dir, commits, i, end, todo, onto, note>>
  BY DEF RestoreBranch
<1>2. StartOK'
  BY <1>1 DEF StartOK, Saving
<1>3. ListOK'
  BY <1>1 DEF ListOK, Todo, Saving
<1>4. ASSUME ~note.nested PROVE Missing' = {}
  <2>1. tip' = note.origin
    BY <1>1, <1>4 DEF AbortOK, OriginOK, Aborting
  <2>2. Todo' = Todo
    BY <1>1 DEF Todo
  <2> QED BY <2>1, <2>2, TodoFacts DEF Missing, Dealt
<1>5. DroppedOK'
  BY <1>1, <1>4, DroppedSame
<1>6. CalmOK'
  BY <1>1 DEF CalmOK, Aborting
<1> QED BY <1>2, <1>3, <1>5, <1>6

LEMMA RestoreTreeReplay ==
  ASSUME RebaseInv, RebaseInv', ReplayInv, RestoreTree PROVE ReplayInv'
<1> USE DEF RebaseInv, ReplayInv
<1>1. /\ pc = "restore-tree" /\ pc' = "clean-aborted"
      /\ UNCHANGED <<tip, dir, commits, i, end, todo, onto, note>>
  BY DEF RestoreTree
<1>2. StartOK'
  BY <1>1 DEF StartOK, Saving
<1>3. ListOK'
  BY <1>1 DEF ListOK, Todo, Saving
<1>4. Missing' = Missing
  BY <1>1 DEF Missing, Todo, Progress
<1>5. DroppedOK'
  BY <1>1, <1>4, DroppedSame
<1>6. CalmOK'
  BY <1>1 DEF CalmOK, Aborting
<1> QED BY <1>2, <1>3, <1>5, <1>6

(* What the user does is done while a rebase waits.                        *)
LEMMA UserReplay ==
  ASSUME RebaseInv, RebaseInv', ReplayInv, UserTurn, UNCHANGED <<dir, memory, onto>>,
         note' = note \/ note' = [note EXCEPT !.edits = @ + 1],
         MessagesOf(tip) \subseteq MessagesOf(tip')
  PROVE  ReplayInv'
<1> USE DEF RebaseInv, ReplayInv
<1>1. pc = "idle" /\ dir # NoState /\ UNCHANGED <<pc, commits, i, end, todo>>
  BY DEF UserTurn, memory
<1>2. /\ note'.origin = note.origin /\ note'.nested = note.nested
      /\ note'.misled = note.misled /\ note'.calm = note.calm
      /\ note'.stopped = note.stopped /\ note.faults <= note'.faults
  BY DEF RebaseTypeOK, Note
<1>3. StartOK'
  BY <1>1 DEF StartOK
<1>4. ListOK'
  BY <1>1, <1>2 DEF ListOK, Todo, Saving
<1>5. Missing' \subseteq Missing
  <2>1. Progress' = Progress
    BY <1>1 DEF Progress
  <2> QED BY <1>2, <2>1, MissingShrinks
<1>6. DroppedOK'
  BY <1>2, <1>5, DroppedKept
<1>7. CalmOK'
  BY <1>1, <1>2, CalmIdle DEF CalmOK
<1> QED BY <1>3, <1>4, <1>6, <1>7

LEMMA EditReplay ==
  ASSUME RebaseInv, RebaseInv', ReplayInv, NEW p, NEW v, Edit(p, v) PROVE ReplayInv'
<1>1. UserTurn /\ UNCHANGED <<tip, dir, memory, onto>> /\ note' = [note EXCEPT !.edits = @ + 1]
  BY DEF Edit
<1> QED BY <1>1, UserReplay

LEMMA StageReplay ==
  ASSUME RebaseInv, RebaseInv', ReplayInv, NEW p, Stage(p) PROVE ReplayInv'
<1>1. UserTurn /\ UNCHANGED <<tip, dir, memory, onto, note>>
  BY DEF Stage
<1> QED BY <1>1, UserReplay

LEMMA UserCommitReplay ==
  ASSUME RebaseInv, RebaseInv', ReplayInv, UserCommit PROVE ReplayInv'
<1>1. UserTurn /\ UNCHANGED <<dir, memory, onto, note>> /\ CommitIndex(UserMsg)
  BY DEF UserCommit
<1>2. MessagesOf(tip) \subseteq MessagesOf(tip')
  BY <1>1, AppendFacts DEF RebaseInv
<1> QED BY <1>1, <1>2, UserReplay

(* A crash is a fault, and accounts for one message more.                  *)
LEMMA DroppedOneMore ==
  ASSUME RebaseTypeOK, RebaseTypeOK', DroppedOK,
         ~note'.nested /\ ~note'.misled => ~note.nested /\ ~note.misled,
         note'.faults = note.faults + 1, NEW m,
         ~note'.nested /\ ~note'.misled => Missing' \subseteq Missing \cup {m}
  PROVE  DroppedOK'
<1> SUFFICES ASSUME ~note'.nested, ~note'.misled
             PROVE  Cardinality(Missing') <= note'.faults
  BY DEF DroppedOK
<1>1. IsFiniteSet(Missing) /\ Cardinality(Missing) \in Nat
  BY MissingFinite
<1>2. /\ IsFiniteSet(Missing \cup {m})
      /\ Cardinality(Missing \cup {m}) \in {Cardinality(Missing), Cardinality(Missing) + 1}
  BY <1>1, FS_AddElement
<1>3. Cardinality(Missing') <= Cardinality(Missing \cup {m}) /\ IsFiniteSet(Missing')
  BY <1>2, FS_Subset
<1>4. Cardinality(Missing') \in Nat
  BY <1>3, FS_CardinalityType
<1>5. Cardinality(Missing) <= note.faults /\ note.faults \in Nat
  BY DEF DroppedOK, RebaseTypeOK, Note
<1> QED BY <1>1, <1>2, <1>3, <1>4, <1>5

LEMMA CrashReplay ==
  ASSUME RebaseInv, RebaseInv', ReplayInv, Crash PROVE ReplayInv'
<1> USE DEF RebaseInv, ReplayInv
<1>1. /\ pc \notin {"idle", "panic"} /\ pc' = "idle" /\ i' = 0
      /\ UNCHANGED <<tip, index, onto>>
      /\ note' = [note EXCEPT !.faults = @ + 1, !.calm = FALSE,
                  !.misled = @ \/ (pc \in {"end", "replay"} /\ dir' # dir)]
  BY DEF Crash, Return
<1>2. /\ note'.origin = note.origin /\ note'.nested = note.nested
      /\ (~note'.misled => ~note.misled /\ (pc \in {"end", "replay"} => dir' = dir))
      /\ ~note'.calm
      /\ note'.stopped = note.stopped /\ note'.faults = note.faults + 1
  BY <1>1 DEF RebaseTypeOK, Note
<1>3. ~note'.misled =>
         /\ dir'.onto \in {dir.onto, <<>>} /\ dir'.end \in {dir.end, -1}
         /\ dir'.msgnum \in {dir.msgnum, -1}
  <2>1. CASE UNCHANGED dir
    BY <2>1
  <2>2. ASSUME NEW left \in SUBSET DOMAIN dir,
               dir' = [f \in DOMAIN dir |-> IF f \in left THEN dir[f] ELSE NoState[f]]
        PROVE  /\ dir'.onto \in {dir.onto, <<>>} /\ dir'.end \in {dir.end, -1}
               /\ dir'.msgnum \in {dir.msgnum, -1}
    <3>1. dir \in State
      BY DEF RebaseTypeOK
    <3>2. {"onto", "end", "msgnum"} \subseteq DOMAIN dir
      BY <3>1 DEF State
    <3>3. NoState.onto = <<>> /\ NoState.end = -1 /\ NoState.msgnum = -1
      BY DEF NoState
    <3> QED BY <2>2, <3>2, <3>3
  <2> QED BY <1>2, <2>1, <2>2 DEF Crash
<1>4. StartOK'
  BY <1>1 DEF StartOK
<1>5. Todo' = Todo
  BY <1>1, <1>2 DEF Todo
<1>6. ListOK'
  BY <1>1, <1>2, <1>3, <1>5 DEF ListOK, Saving
<1>7. ASSUME ~note'.nested, ~note'.misled
      PROVE  Missing' \subseteq Missing \cup {MsgOf(Todo[i + 1])}
  <2>1. /\ dir.msgnum \in Int /\ dir'.msgnum \in Int /\ i \in Nat /\ Todo \in Seq(Commit)
        /\ dir'.msgnum <= dir.msgnum /\ Progress' = dir'.msgnum + 1
    <3>1. Todo \in Seq(Commit)
      BY TodoFacts
    <3>2. dir.msgnum \in Nat \cup {-1} /\ i \in Nat
      BY DEF RebaseTypeOK, State
    <3> QED BY <1>1, <1>3, <1>7, <3>1, <3>2 DEF Progress
  <2>2. ASSUME NEW j \in DOMAIN Todo, j <= Progress'
        PROVE  j <= Progress \/ (pc = "apply" /\ j = i + 1)
    <3>1. j \in Nat /\ j <= Len(Todo)
      BY <2>1
    <3>2. CASE pc = "apply"
      <4>1. dir.msgnum <= i /\ Progress = i
        BY <1>2, <1>7, <3>2 DEF ListOK, Progress
      <4> QED BY <2>1, <2>2, <3>1, <3>2, <4>1
    <3>3. CASE pc = "replay"
      <4>1. dir.msgnum < i /\ Progress = i
        BY <1>2, <1>7, <3>3 DEF ListOK, Progress
      <4> QED BY <2>1, <2>2, <3>1, <4>1
    <3>4. CASE pc = "clean"
      <4>1. Len(Todo) <= i /\ Progress = i
        BY <1>2, <1>7, <3>4 DEF ListOK, Progress
      <4> QED BY <2>1, <3>1, <4>1
    <3>5. CASE pc \notin {"apply", "replay", "clean"}
      <4>1. Progress = dir.msgnum + 1
        BY <3>5 DEF Progress
      <4> QED BY <2>1, <2>2, <3>1, <4>1
    <3> QED BY <3>2, <3>3, <3>4, <3>5
  <2> QED BY <1>1, <1>2, <1>5, <2>2 DEF Missing, Dealt
<1>8. DroppedOK'
  BY <1>2, <1>7, DroppedOneMore
<1>9. CalmOK'
  BY <1>2 DEF CalmOK
<1> QED BY <1>4, <1>6, <1>8, <1>9

(* The count and the list disagree only where another rebase, or what one  *)
(* had left, came between.                                                 *)
LEMMA PanickedReplay ==
  ASSUME RebaseInv, RebaseInv', ReplayInv, Panicked PROVE ReplayInv'
<1> USE DEF ReplayInv
<1>1. pc = "panic" /\ pc' = "idle" /\ i' = 0 /\ UNCHANGED note
  BY DEF Panicked, Return
<1>2. (note.nested \/ note.misled) /\ ~note.calm
  BY <1>1 DEF ListOK, CalmOK
<1> QED BY <1>1, <1>2 DEF StartOK, ListOK, DroppedOK, CalmOK

LEMMA NextReplay ==
  ASSUME RebaseInv, RebaseInv', ReplayInv, [Next]_vars PROVE ReplayInv'
<1>1. CASE UNCHANGED vars
  <2>1. UNCHANGED <<pc, commits, i, end, todo, note, tip, index, work, dir, onto>>
    BY <1>1 DEF vars, memory, disk
  <2> QED BY <2>1 DEF ReplayInv, StartOK, ListOK, DroppedOK, CalmOK, Todo, Missing, Progress
<1>2. CASE Next
  BY <1>2, RebaseReplay, SaveStateReplay, MoveBranchReplay, ResetToOntoReplay,
     NextCommitReplay, CommitReplayedReplay, ReplayOverReplay, RemoveStateReplay,
     RebaseContinueReplay, RebaseAbortReplay, RestoreBranchReplay, RestoreTreeReplay,
     UserCommitReplay, CrashReplay, PanickedReplay, ApplyPathReplay,
     DeletionFailsReplay, StopReplay, EditReplay, StageReplay DEF Next, WriteFails
<1> QED BY <1>1, <1>2

LEMMA ReplayInvariant == Spec => []ReplayInv
<1>1. RebaseInv /\ RebaseInv' /\ ReplayInv /\ [Next]_vars => ReplayInv'
  BY NextReplay
<1> QED BY <1>1, InitReplayInv, RebaseInvariant, PTL DEF Spec
-----------------------------------------------------------------------------
(* The variables keep their types, however often the process ends and      *)
(* whatever the user does between the calls.                               *)
THEOREM RebaseTypeCorrect == Spec => []RebaseTypeOK
<1>1. RebaseInv => RebaseTypeOK
  BY DEF RebaseInv
<1> QED BY <1>1, RebaseInvariant, PTL

(* RebaseAbort brings back the branch, the index and the tracked files.    *)
THEOREM AbortRestoresCorrect == Spec => []AbortRestores
<1>1. RebaseInv => AbortRestores
  BY DEF RebaseInv, OriginOK, AbortOK, Aborting, Restored, AbortRestores
<1> QED BY <1>1, RebaseInvariant, PTL

(* A rebase that reports success has left the branch on top of its target, *)
(* and one fault on the way does not change that.                          *)
THEOREM OnTopOfOntoCorrect == Spec => []OnTopOfOnto
<1>1. RebaseInv => OnTopOfOnto
  BY DEF RebaseInv, TopOK, OnTop, OnTopOfOnto
<1> QED BY <1>1, RebaseInvariant, PTL

(* The loop of a continue indexes beyond its list only after a fault.      *)
THEOREM PanicNeedsFaultCorrect == Spec => []PanicNeedsFault
<1>1. RebaseInv => PanicNeedsFault
  BY DEF RebaseInv, RebaseTypeOK, Note, PlanOK, PanicNeedsFault
<1> QED BY <1>1, RebaseInvariant, PTL

(* The changes that a success leaves out are among those that it dealt     *)
(* with, and every one of the branch that the target has not is.           *)
LEMMA ReplayDropsNone == RebaseInv /\ ReplayInv => NoneDropped
<1> SUFFICES ASSUME RebaseInv, ReplayInv, pc = "clean" PROVE NoneDropped
  BY DEF NoneDropped
<1> USE DEF RebaseInv, ReplayInv
<1> DEFINE Left == Planned \ (MessagesOf(tip) \cup note.stopped)
<1>3. ASSUME ~note.nested, ~note.misled PROVE Cardinality(Left) <= note.faults
  <2>1. Len(Todo) <= i /\ Progress = i /\ i \in Nat /\ Todo \in Seq(Commit)
    BY <1>3, TodoFacts DEF ListOK, Progress, RebaseTypeOK
  <2>2. Planned \subseteq Dealt(Todo, Progress)
    <3> SUFFICES ASSUME NEW m \in Planned PROVE m \in Dealt(Todo, Progress)
      OBVIOUS
    <3>1. note.origin \in Commit /\ onto \in Commit
      BY DEF RebaseTypeOK, Note
    <3>2. PICK j \in DOMAIN Todo : m = MsgOf(Todo[j])
      BY <3>1, PlanMessages DEF Planned, Todo
    <3>3. j <= Progress
      BY <2>1
    <3> QED BY <3>2, <3>3 DEF Dealt
  <2>3. Cardinality(Left) <= note.faults
    <3>1. Left \subseteq Missing
      BY <2>2 DEF Missing
    <3>2. IsFiniteSet(Missing) /\ Cardinality(Missing) \in Nat
      BY MissingFinite
    <3> HIDE DEF Left
    <3>3. Cardinality(Left) <= Cardinality(Missing) /\ IsFiniteSet(Left)
      BY <3>1, <3>2, FS_Subset
    <3>4. Cardinality(Left) \in Nat
      BY <3>3, FS_CardinalityType
    <3>5. Cardinality(Missing) <= note.faults /\ note.faults \in Nat
      BY <1>3 DEF DroppedOK, RebaseTypeOK, Note
    <3> QED BY <3>2, <3>3, <3>4, <3>5
  <2> QED BY <2>3
<1>4. ASSUME note.calm
      PROVE  /\ Len(tip) = Len(onto) + Len(commits)
             /\ \A k \in DOMAIN commits : tip[Len(onto) + k].msg = MsgOf(commits[k])
  <2>1. Replayed(tip, commits, onto, Len(commits))
    BY <1>4 DEF CalmOK
  <2>2. DOMAIN commits = 1..Len(commits)
    BY DEF RebaseTypeOK
  <2> QED BY <2>1, <2>2 DEF Replayed
<1> QED BY <1>3, <1>4 DEF NoneDropped

LEMMA ReplayCarriesBoth == RebaseInv /\ ReplayInv => DisjointSidesCarried
<1> SUFFICES ASSUME RebaseInv, ReplayInv, pc = "clean", note.calm, NEW p \in Paths
             PROVE  LET by == {k \in DOMAIN commits :
                                 TreeOf(commits[k])[p] # TreeOf(Parent(commits[k]))[p]} IN
                    /\ by = {} => TreeOf(tip)[p] = TreeOf(onto)[p]
                    /\ \A k \in by : by = {k} =>
                          \/ TreeOf(tip)[p] = TreeOf(commits[k])[p]
                          \/ /\ p \in note.kept /\ TreeOf(commits[k])[p] = None
                             /\ TreeOf(tip)[p] = TreeOf(onto)[p]
  BY DEF DisjointSidesCarried
<1> DEFINE by == {k \in DOMAIN commits :
                    TreeOf(commits[k])[p] # TreeOf(Parent(commits[k]))[p]}
<1>1. i = Len(commits) /\ index = TreeOf(tip) /\ Sided(commits, onto, index, p, i, note.kept)
  BY DEF ReplayInv, CalmOK
<1>2. DOMAIN commits = 1..i
  BY <1>1 DEF RebaseInv, RebaseTypeOK
<1>3. by = Touching(commits, p, i)
  BY <1>2 DEF Touching
<1> HIDE DEF by
<1>4. /\ by = {} => TreeOf(tip)[p] = TreeOf(onto)[p]
      /\ \A k \in by : by = {k} =>
            \/ TreeOf(tip)[p] = TreeOf(commits[k])[p]
            \/ /\ p \in note.kept /\ TreeOf(commits[k])[p] = None
               /\ TreeOf(tip)[p] = TreeOf(onto)[p]
  BY <1>1, <1>3 DEF Sided
<1> QED BY <1>4 DEF by

(* No change is dropped in silence (gogit_commit.go, the replay loop and   *)
(* RebaseContinue): what a rebase that reports success has left out was    *)
(* reported to the caller or fell to a fault, for each at most one; and a  *)
(* rebase that nothing disturbed has each change once, in order.           *)
THEOREM NoneDroppedCorrect == Spec => []NoneDropped
<1> QED BY ReplayDropsNone, RebaseInvariant, ReplayInvariant, PTL

(* A rebase that nothing disturbed leaves each path as the only change     *)
(* that touched it had it, or as the target has it if none did or that one *)
(* deletes it and could not (gogit_commit.go, applyChangesToWorktree path  *)
(* by path).                                                               *)
THEOREM DisjointSidesCorrect == Spec => []DisjointSidesCarried
<1> QED BY ReplayCarriesBoth, RebaseInvariant, ReplayInvariant, PTL
=============================================================================
