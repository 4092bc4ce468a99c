------------------------------- MODULE Batch -------------------------------
(***************************************************************************)
(* The worker pool of provider/batch.go: one goroutine starts the items in *)
(* order as a semaphore allows, each item runs in a goroutine of its own,  *)
(* and a context may end at any time.  What an item does is left to the    *)
(* module that uses this one.                                              *)
(***************************************************************************)
EXTENDS Integers, FiniteSets

CONSTANTS
    N,       \* number of items
    Capacity \* BatchOptions.normalized()

ASSUME BatchAssumption == N \in Nat /\ Capacity \in Nat \ {0}

VARIABLES
    loop,  \* the caller: before the check or the select of item pos, or "returned"
    pos,   \* the next item
    item,  \* per item, "todo", "running" or its result
    ctx,   \* "live" or "done"
    late   \* history: the items started after the context ended

batchVars == <<loop, pos, item, ctx, late>>

Items == 1..N
Outcomes == {"ok", "failed", "cancelled"}
Running == {i \in Items : item[i] = "running"}

BatchInit ==
    /\ loop = "check"
    /\ pos = 1
    /\ item = [i \in Items |-> "todo"]
    /\ ctx = "live"
    /\ late = {}

(* On to the next item.                                                    *)
Advance == /\ pos' = pos + 1
           /\ loop' = "check"

(* ctx.Err() before the item.                                              *)
CheckCtxIgnored ==
    /\ loop = "check" /\ pos <= N
    /\ loop' = "select"
    /\ UNCHANGED <<pos, item, ctx, late>>
CheckCtx ==
    /\ loop = "check" /\ pos <= N
    /\ IF ctx = "done"
       THEN item' = [item EXCEPT ![pos] = "cancelled"] /\ Advance
       ELSE loop' = "select" /\ UNCHANGED <<pos, item>>
    /\ UNCHANGED <<ctx, late>>

(* The select: a free slot and a context that has ended are both ready     *)
(* when both hold, and either may be taken.                                *)
Acquire ==
    /\ loop = "select" /\ Cardinality(Running) < Capacity
    /\ item' = [item EXCEPT ![pos] = "running"]
    /\ Advance
    /\ late' = IF ctx = "done" THEN late \cup {pos} ELSE late
    /\ UNCHANGED ctx

AcquireCancelled ==
    /\ loop = "select" /\ ctx = "done"
    /\ item' = [item EXCEPT ![pos] = "cancelled"]
    /\ Advance
    /\ UNCHANGED <<ctx, late>>

(* The item's goroutine stores its result, releases its slot and leaves    *)
(* the wait group.                                                         *)
FinishLeaks(i, outcome) ==
    /\ item[i] = "running"
    /\ item' = IF outcome = "ok" THEN [item EXCEPT ![i] = outcome] ELSE item
    /\ UNCHANGED <<loop, pos, ctx, late>>
Finish(i, outcome) ==
    /\ item[i] = "running"
    /\ item' = [item EXCEPT ![i] = outcome]
    /\ UNCHANGED <<loop, pos, ctx, late>>

ReturnWithoutWaiting ==
    /\ loop = "check" /\ pos > N
    /\ loop' = "returned"
    /\ UNCHANGED <<pos, item, ctx, late>>
Return ==
    /\ loop = "check" /\ pos > N /\ Running = {}
    /\ loop' = "returned"
    /\ UNCHANGED <<pos, item, ctx, late>>

Cancel ==
    /\ ctx = "live"
    /\ ctx' = "done"
    /\ UNCHANGED <<loop, pos, item, late>>

----------------------------------------------------------------------------
BatchTypeOK ==
    /\ loop \in {"check", "select", "returned"}
    /\ pos \in 1..N + 1 /\ (loop = "select" => pos <= N)
    /\ item \in [Items -> {"todo", "running"} \cup Outcomes]
    /\ ctx \in {"live", "done"}
    /\ late \subseteq Items

(* BatchOptions.Concurrency is "the maximum number of in-flight            *)
(* operations", and the caller has every result when batch returns: none   *)
(* is missing and no item is still running to write one.                   *)
Complete ==
    /\ Cardinality(Running) <= Capacity
    /\ loop = "returned" => \A i \in Items : item[i] \in Outcomes

(* "After cancellation, remaining items fail fast with the context error   *)
(* instead of being started."  The check and the select are two steps, so  *)
(* one item may still slip through, and never a second one.                *)
AtMostOneLateStart == Cardinality(late) <= 1
============================================================================
