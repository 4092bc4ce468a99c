------------------------------- MODULE Rebase -------------------------------
(***************************************************************************)
(* The rebase of the go-git backend (gitbackend/gogit_commit.go): Rebase,  *)
(* RebaseContinue and RebaseAbort on one branch, the state directory       *)
(* .git/rebase-merge they leave for each other, and the user who edits,    *)
(* stages and commits between two calls.                                   *)
(*                                                                         *)
(* Every write to the repository is a step of its own, and the process may *)
(* end between any two of them, in the middle of a worktree file or of the *)
(* removal of the state directory included.  What is on disk then is all   *)
(* that the next call finds.  Errors on writing a state file and on        *)
(* deleting a file of the worktree are ignored.                            *)
(*                                                                         *)
(* A commit is the value it stands for, the sequence of the changes from   *)
(* the root to it, each with its message and its tree; its parent is the   *)
(* sequence without the last element.  Histories are linear.  A tree gives *)
(* every path its content, or None.                                        *)
(***************************************************************************)
EXTENDS Integers, Sequences, FiniteSets

CONSTANTS
    Paths,
    Contents,
    None,      \* no file
    Messages,  \* of the commits there are at first
    UserMsg,   \* of a commit the user makes while rebasing
    Starts,    \* the branch and its target at first
    MaxFaults, \* bound on the crashes, the writes of a state file that fail
               \* and the files that cannot be deleted
    MaxRebases, \* bound on the rebases that get as far as writing
    MaxEdits    \* bound on what the user changes in the worktree

ASSUME RebaseAssumption ==
    /\ IsFiniteSet(Paths) /\ IsFiniteSet(Messages)
    /\ None \notin Contents /\ UserMsg \notin Messages
    /\ MaxFaults \in Nat /\ MaxRebases \in Nat /\ MaxEdits \in Nat

VARIABLES
    \* on disk
    tip,     \* the commit of the checked-out branch
    index,   \* its staged tree
    work,    \* the worktree
    dir,     \* .git/rebase-merge
    \* of the running call
    pc,      \* where it is, "idle" between calls
    commits, \* what GetCommitsBetween returned
    i,       \* position in commits, from 0
    end,     \* where the replay ends
    todo,    \* paths of the change that are still to be written
    \* the target, and the history that the properties speak of
    onto,
    note

disk == <<tip, index, work, dir>>
memory == <<pc, commits, i, end, todo>>
vars == <<disk, memory, onto, note>>

Tree == [Paths -> Contents \cup {None}]
Commit == Seq([msg : Messages \cup {UserMsg}, tree : Tree]) \ {<<>>}
TreeOf(c) == c[Len(c)].tree
MsgOf(c) == c[Len(c)].msg
Parent(c) == SubSeq(c, 1, Len(c) - 1)

ASSUME StartsAssumption == \A s \in Starts : s[1] \in Commit /\ s[2] \in Commit

(* The paths a commit changes.  Mutant: against the branch as it is now.   *)
ChangedFromHead(c) == {p \in Paths : TreeOf(c)[p] # TreeOf(tip)[p]}
Changed(c) == {p \in Paths : TreeOf(c)[p] # TreeOf(Parent(c))[p]}

(* The files of the state directory; an absent one is <<>>, FALSE or -1.   *)
(* One branch is checked out, so head-name only exists or does not.        *)
NoState == [origHead |-> <<>>, onto |-> <<>>, headName |-> FALSE, end |-> -1, msgnum |-> -1]
State == [origHead : Commit \cup {<<>>}, onto : Commit \cup {<<>>}, headName : BOOLEAN,
          end : Nat \cup {-1}, msgnum : Nat \cup {-1}]

(* The length of the merge base of two commits, 0 if they have none.       *)
BaseLength(c, d) ==
    CHOOSE n \in 0..Len(c) :
       /\ n <= Len(d) /\ SubSeq(c, 1, n) = SubSeq(d, 1, n)
       /\ (n < Len(c) /\ n < Len(d)) => c[n + 1] # d[n + 1]

(* The commits after the first n of c as repo.Log yields them, the newest  *)
(* first.                                                                  *)
CommitsBetween(n, c) == [k \in 1..Len(c) - n |-> SubSeq(c, 1, Len(c) + 1 - k)]

Clean == work = index /\ index = TreeOf(tip)

(* What the properties need to know of the past: where the branch was, and *)
(* since the rebase began, whether nothing disturbed it, another rebase or *)
(* an abort was started in it, a state file may not say what it wrote, for *)
(* an earlier rebase left some or a write left one empty, which changes it *)
(* stopped at and which paths it could not delete; the faults.             *)
Note == [origin : Commit, calm : BOOLEAN, nested : BOOLEAN, aborting : BOOLEAN,
         misled : BOOLEAN, stopped : SUBSET (Messages \cup {UserMsg}),
         kept : SUBSET Paths, faults : 0..MaxFaults,
         rebases : 0..MaxRebases, edits : 0..MaxEdits]

Init ==
    /\ \E s \in Starts : tip = s[1] /\ onto = s[2]
    /\ index = TreeOf(tip) /\ work \in Tree
    /\ dir = NoState
    /\ pc = "idle"
    /\ commits = <<>>
    /\ i = 0 /\ end = 0
    /\ todo = {}
    /\ note = [origin |-> tip, calm |-> FALSE, nested |-> FALSE, aborting |-> FALSE,
               misled |-> FALSE, stopped |-> {}, kept |-> {}, faults |-> 0, rebases |-> 0,
               edits |-> 0]

----------------------------------------------------------------------------
(* The call returns.                                                       *)
Return ==
    /\ pc' = "idle"
    /\ commits' = <<>> /\ i' = 0 /\ end' = 0 /\ todo' = {}

(* A replay returns an error at a change.                                  *)
Stop == /\ Return
        /\ note' = [note EXCEPT !.stopped = @ \cup {MsgOf(commits[i + 1])},
                                !.calm = FALSE]

(* The count of changes to replay, which is also written down.  Mutant:    *)
(* one too few.                                                            *)
PlanEndShort(n) == Len(tip) - n - 1
PlanEnd(n) == Len(tip) - n

(* Rebase up to its first write.  It does not ask whether a rebase is in   *)
(* progress or the worktree is clean.                                      *)
Rebase ==
    /\ pc = "idle"
    /\ LET n == BaseLength(tip, onto) IN
       IF tip = onto \/ n \in {0, Len(tip)}
       THEN UNCHANGED <<memory, note>>
       ELSE /\ note.rebases < MaxRebases
            /\ pc' = "orig-head"
            /\ commits' = CommitsBetween(n, tip)
            /\ end' = PlanEnd(n)
            /\ UNCHANGED <<i, todo>>
            /\ note' = IF dir.origHead = <<>>
                       THEN [origin |-> tip, calm |-> TRUE, nested |-> FALSE, aborting |-> FALSE,
                             misled |-> dir # NoState, stopped |-> {}, kept |-> {},
                             faults |-> note.faults, rebases |-> note.rebases + 1,
                             edits |-> note.edits]
                       ELSE [note EXCEPT !.nested = TRUE, !.calm = FALSE, !.rebases = @ + 1]
    /\ UNCHANGED <<disk, onto>>

(* A state file is written, or is not, or is left empty, which no caller   *)
(* asks.  An empty count is read as 0.                                     *)
Counts == {"end", "msgnum"}
WriteStateFile(f, v) ==
    \/ dir' = [dir EXCEPT ![f] = v] /\ UNCHANGED note
    \/ /\ note.faults < MaxFaults
       /\ note' = [note EXCEPT !.faults = @ + 1]
       /\ UNCHANGED dir
    \/ /\ note.faults < MaxFaults /\ f \in Counts
       /\ note' = [note EXCEPT !.faults = @ + 1, !.misled = TRUE]
       /\ dir' = [dir EXCEPT ![f] = 0]

(* The state files, one after the other.  Mutant: an older end is kept.    *)
SaveStateKeepsEnd ==
    /\ \/ pc = "orig-head" /\ WriteStateFile("origHead", tip)  /\ pc' = "onto"
       \/ pc = "onto"      /\ WriteStateFile("onto", onto)     /\ pc' = "head-name"
       \/ pc = "head-name" /\ WriteStateFile("headName", TRUE) /\ pc' = "end"
       \/ pc = "end" /\ pc' = "move" /\ WriteStateFile("end", IF dir.end = -1 THEN end ELSE dir.end)
    /\ UNCHANGED <<tip, index, work, commits, i, end, todo, onto>>
SaveState ==
    /\ \/ pc = "orig-head" /\ WriteStateFile("origHead", tip)  /\ pc' = "onto"
       \/ pc = "onto"      /\ WriteStateFile("onto", onto)     /\ pc' = "head-name"
       \/ pc = "head-name" /\ WriteStateFile("headName", TRUE) /\ pc' = "end"
       \/ pc = "end"       /\ WriteStateFile("end", end)       /\ pc' = "move"
    /\ UNCHANGED <<tip, index, work, commits, i, end, todo, onto>>

(* Mutant: the branch stays.                                               *)
MoveBranchForgotten ==
    /\ pc = "move"
    /\ pc' = "reset"
    /\ UNCHANGED <<disk, commits, i, end, todo, onto, note>>
MoveBranch ==
    /\ pc = "move"
    /\ tip' = onto
    /\ pc' = "reset"
    /\ UNCHANGED <<index, work, dir, commits, i, end, todo, onto, note>>

(* Worktree.Reset to the tree t; untracked files may stay.                 *)
HardReset(t) ==
    /\ index' = t
    /\ \E kept \in SUBSET {p \in Paths : index[p] = None /\ t[p] = None} :
          work' = [p \in Paths |-> IF p \in kept THEN work[p] ELSE t[p]]

ResetToOnto ==
    /\ pc = "reset"
    /\ HardReset(TreeOf(onto))
    /\ pc' = "replay"
    /\ UNCHANGED <<tip, dir, commits, i, end, todo, onto, note>>

(* The head of the replay loop: msgnum is written before commits is        *)
(* indexed.                                                                *)
NextCommit ==
    /\ pc = "replay" /\ i < end
    /\ WriteStateFile("msgnum", i)
    /\ IF i < Len(commits)
       THEN pc' = "apply" /\ todo' = Changed(commits[i + 1])
       ELSE pc' = "panic" /\ UNCHANGED todo
    /\ UNCHANGED <<tip, index, work, commits, i, end, onto>>

(* applyChangesToWorktree writes and stages one path after the other.  An  *)
(* error on writing is reported as a conflict, one on deleting is not.     *)
ApplyPath(p) ==
    /\ pc = "apply" /\ p \in todo
    /\ LET v == TreeOf(commits[i + 1])[p] IN
          /\ work' = [work EXCEPT ![p] = v]
          /\ index' = [index EXCEPT ![p] = v]
    /\ todo' = todo \ {p}
    /\ UNCHANGED <<tip, dir, pc, commits, i, end, onto, note>>

(* A path cannot be deleted: its entry stays, for the worktree gives that  *)
(* up last, and the file mostly too.                                       *)
DeletionFails(p) ==
    /\ pc = "apply" /\ p \in todo /\ TreeOf(commits[i + 1])[p] = None
    /\ note.faults < MaxFaults
    /\ \E v \in {work[p], None} : work' = [work EXCEPT ![p] = v]
    /\ todo' = todo \ {p}
    /\ note' = [note EXCEPT !.faults = @ + 1, !.kept = @ \cup {p}]
    /\ UNCHANGED <<tip, index, dir, pc, commits, i, end, onto>>

WriteFails(p) ==
    /\ pc = "apply" /\ p \in todo
    /\ TreeOf(commits[i + 1])[p] # None
    /\ \E v \in Contents \cup {None} : work' = [work EXCEPT ![p] = v]
    /\ Stop
    /\ UNCHANGED <<tip, index, dir, onto>>

(* Worktree.Commit takes the index, whatever put it there, and refuses one *)
(* that changes nothing.                                                   *)
CommitIndex(msg) == tip' = Append(tip, [msg |-> msg, tree |-> index])

CommitReplayed ==
    /\ pc = "apply" /\ todo = {}
    /\ IF index = TreeOf(tip)
       THEN Stop /\ UNCHANGED tip
       ELSE /\ CommitIndex(MsgOf(commits[i + 1]))
            /\ i' = i + 1
            /\ pc' = "replay"
            /\ UNCHANGED <<commits, end, todo, note>>
    /\ UNCHANGED <<index, work, dir, onto>>

ReplayOver ==
    /\ pc = "replay" /\ i >= end
    /\ pc' = "clean"
    /\ UNCHANGED <<disk, commits, i, end, todo, onto, note>>

RemoveState ==
    /\ pc \in {"clean", "clean-aborted"}
    /\ dir' = NoState
    /\ Return
    /\ UNCHANGED <<tip, index, work, onto, note>>

(* RebaseContinue up to its loop: it plans the replay again from the state *)
(* files, and takes a worktree that is not clean for the resolution of the *)
(* change msgnum stands at.                                                *)
RebaseContinue ==
    /\ pc = "idle"
    /\ LET c == dir.origHead
           n == BaseLength(c, dir.onto)
           plan == CommitsBetween(n, c)
           resolved == ~Clean /\ dir.msgnum < Len(plan)
       IN  IF <<>> \in {c, dir.onto} \/ -1 \in {dir.msgnum, dir.end} \/ n = 0
              \/ (resolved /\ index = TreeOf(tip))
           THEN UNCHANGED <<tip, memory>>
           ELSE /\ IF resolved THEN CommitIndex(MsgOf(plan[dir.msgnum + 1])) ELSE UNCHANGED tip
                /\ pc' = "replay"
                /\ commits' = plan
                /\ i' = dir.msgnum + 1
                /\ end' = dir.end
                /\ UNCHANGED todo
    /\ UNCHANGED <<index, work, dir, onto, note>>

RebaseAbort ==
    /\ pc = "idle"
    /\ IF dir.origHead = <<>> \/ ~dir.headName
       THEN UNCHANGED <<pc, note>>
       ELSE pc' = "restore" /\ note' = [note EXCEPT !.aborting = TRUE]
    /\ UNCHANGED <<disk, commits, i, end, todo, onto>>

RestoreBranch ==
    /\ pc = "restore"
    /\ tip' = dir.origHead
    /\ pc' = "restore-tree"
    /\ UNCHANGED <<index, work, dir, commits, i, end, todo, onto, note>>

(* Mutant: abort restores only the branch.                                 *)
RestoreTreeForgotten ==
    /\ pc = "restore-tree"
    /\ pc' = "clean-aborted"
    /\ UNCHANGED <<disk, commits, i, end, todo, onto, note>>
RestoreTree ==
    /\ pc = "restore-tree"
    /\ HardReset(TreeOf(dir.origHead))
    /\ pc' = "clean-aborted"
    /\ UNCHANGED <<tip, dir, commits, i, end, todo, onto, note>>

----------------------------------------------------------------------------
(* The user, between two calls of a rebase.                                *)
UserTurn == pc = "idle" /\ dir # NoState

Edit(p, v) ==
    /\ UserTurn /\ work[p] # v /\ note.edits < MaxEdits
    /\ work' = [work EXCEPT ![p] = v]
    /\ note' = [note EXCEPT !.edits = @ + 1]
    /\ UNCHANGED <<tip, index, dir, memory, onto>>

Stage(p) ==
    /\ UserTurn /\ index[p] # work[p]
    /\ index' = [index EXCEPT ![p] = work[p]]
    /\ UNCHANGED <<tip, work, dir, memory, onto, note>>

UserCommit ==
    /\ UserTurn /\ index # TreeOf(tip)
    /\ \A k \in 1..Len(tip) : tip[k].msg # UserMsg
    /\ CommitIndex(UserMsg)
    /\ UNCHANGED <<index, work, dir, memory, onto, note>>

(* The process ends.  A file that was being written may hold anything, a   *)
(* count that was may be empty, and a directory that was being removed may *)
(* be partly there.                                                        *)
Crash ==
    /\ pc \notin {"idle", "panic"} /\ note.faults < MaxFaults
    /\ \/ pc \notin {"clean", "clean-aborted"} /\ UNCHANGED <<work, dir>>
       \/ /\ pc \in {"apply", "reset", "restore-tree"}
          /\ \E p \in IF pc = "apply" THEN todo ELSE Paths, v \in Contents \cup {None} :
                work' = [work EXCEPT ![p] = v]
          /\ UNCHANGED dir
       \/ /\ pc \in {"clean", "clean-aborted"}
          /\ \E left \in SUBSET DOMAIN dir :
                dir' = [f \in DOMAIN dir |-> IF f \in left THEN dir[f] ELSE NoState[f]]
          /\ UNCHANGED work
       \/ /\ pc \in {"end", "replay"}
          /\ dir' = [dir EXCEPT ![IF pc = "end" THEN "end" ELSE "msgnum"] = 0]
          /\ UNCHANGED work
    /\ Return
    /\ note' = [note EXCEPT !.faults = @ + 1, !.calm = FALSE,
                            !.misled = @ \/ (pc \in {"end", "replay"} /\ dir' # dir)]
    /\ UNCHANGED <<tip, index, onto>>

(* The caller of a call that panicked starts again.                        *)
Panicked == /\ pc = "panic"
            /\ Return
            /\ UNCHANGED <<disk, onto, note>>

Next ==
    \/ Rebase \/ SaveState \/ MoveBranch \/ ResetToOnto \/ NextCommit
    \/ CommitReplayed \/ ReplayOver \/ RemoveState
    \/ RebaseContinue \/ RebaseAbort \/ RestoreBranch \/ RestoreTree
    \/ UserCommit \/ Crash \/ Panicked
    \/ \E p \in Paths : \/ ApplyPath(p) \/ DeletionFails(p) \/ WriteFails(p) \/ Stage(p)
                        \/ \E v \in Contents \cup {None} : Edit(p, v)

Spec == Init /\ [][Next]_vars

----------------------------------------------------------------------------
(* RebaseAbort brings back the branch, the index and every tracked file as *)
(* they were committed before the rebase, whatever stopped it, however     *)
(* often the process ended on the way and whatever the user did since.     *)
(* (A second rebase in between replaces orig-head: nested.)                *)
AbortRestores ==
    pc = "clean-aborted" /\ ~note.nested =>
       /\ tip = note.origin
       /\ index = TreeOf(tip)
       /\ \A p \in Paths : index[p] # None => work[p] = index[p]

(* A rebase that reports success has left the branch on top of its target. *)
(* One fault does not change that, unless it was an abort that crashed.    *)
OnTopOfOnto ==
    pc = "clean" /\ ~note.nested /\ ~note.aborting /\ note.faults <= 1 =>
       Len(onto) <= Len(tip) /\ SubSeq(tip, 1, Len(onto)) = onto

MessagesOf(s) == {s[k].msg : k \in DOMAIN s}
Planned == MessagesOf(note.origin) \ MessagesOf(onto)

(* No change is dropped in silence: each one that is missing after a       *)
(* success was stopped at, which the caller was told, or fell to a fault;  *)
(* and without either, every change is there once.  (A rebase that reads a *)
(* msgnum or an end that an earlier one left, or that is empty, may skip   *)
(* any number of changes by it: misled.)                                   *)
NoneDropped ==
    pc = "clean" =>
       /\ ~note.nested /\ ~note.misled =>
             Cardinality(Planned \ (MessagesOf(tip) \cup note.stopped)) <= note.faults
       /\ note.calm => /\ Len(tip) = Len(onto) + Len(commits)
                       /\ \A k \in DOMAIN commits : tip[Len(onto) + k].msg = MsgOf(commits[k])

(* The rebased tip carries both sides wherever at most one change touches  *)
(* a path.  Only a path that a change deletes and that could not be        *)
(* deleted is there still, as on the target.                               *)
DisjointSidesCarried ==
    pc = "clean" /\ note.calm =>
       \A p \in Paths :
          LET by == {k \in DOMAIN commits :
                        TreeOf(commits[k])[p] # TreeOf(Parent(commits[k]))[p]} IN
          /\ by = {} => TreeOf(tip)[p] = TreeOf(onto)[p]
          /\ \A k \in by : by = {k} =>
                \/ TreeOf(tip)[p] = TreeOf(commits[k])[p]
                \/ /\ p \in note.kept /\ TreeOf(commits[k])[p] = None
                   /\ TreeOf(tip)[p] = TreeOf(onto)[p]

(* The loop of RebaseContinue runs to the count on disk and indexes a list *)
(* it has computed anew; the two agree unless there was a fault.           *)
PanicNeedsFault == pc = "panic" => note.faults > 0

(* The test of Rebase: "The rebased tip must carry BOTH sides: the         *)
(* replayed topic change and the onto-side main change it now sits on."    *)
(* Of a path that only one side has changed, a successful rebase leaves    *)
(* that side's content, and one that both have changed is a conflict.      *)
BothSidesCarried ==
    pc = "clean" /\ note.calm =>
       LET base == SubSeq(note.origin, 1, BaseLength(note.origin, onto)) IN
       \A p \in Paths :
          LET was == TreeOf(base)[p] IN
          /\ TreeOf(note.origin)[p] # was => TreeOf(tip)[p] = TreeOf(note.origin)[p]
          /\ TreeOf(onto)[p] # was => TreeOf(tip)[p] = TreeOf(onto)[p]
============================================================================
