------------------------- MODULE LimitedBatchProofs -------------------------
(***************************************************************************)
(* Proofs about LimitedBatch, for any number of items, every capacity,     *)
(* minimum delay, threshold, quota and window.                             *)
(***************************************************************************)
EXTENDS LimitedBatch, TLAPS, FiniteSetTheorems

----------------------------------------------------------------------------
(* The limiter.                                                            *)

(* A reservation is no earlier than MinDelay after the last one.           *)
LEMMA DelayFacts ==
    ASSUME LimiterTypeOK
    PROVE  /\ Delay \in Nat
           /\ MinDelay > 0 => Delay >= lastIn + MinDelay
<1> USE LimiterAssumption
<1>1. Spacing \in Nat /\ (MinDelay > 0 => Spacing >= lastIn + MinDelay)
  BY DEF LimiterTypeOK, Spacing, Larger
<1>2. Share \in Nat
  <2>1. Larger(remaining, 0) + 1 \in Nat \ {0} /\ resetIn \in Nat
    BY DEF LimiterTypeOK, Larger
  <2>2. \A a \in Nat, b \in Nat \ {0} : a \div b \in Nat
    OBVIOUS
  <2> QED BY <2>1, <2>2 DEF Share
<1> HIDE DEF Spacing, Share
<1> QED BY <1>1, <1>2 DEF Delay, Larger, LimiterTypeOK

LEMMA LimiterInit_ ==
    LimiterInit => LimiterTypeOK /\ SlotsSpaced
BY LimiterAssumption DEF LimiterInit, LimiterTypeOK, Waiter, SlotsSpaced

LEMMA ReserveKeeps ==
    ASSUME LimiterTypeOK, SlotsSpaced, NEW w \in Waiters, Reserve(w)
    PROVE  LimiterTypeOK' /\ SlotsSpaced'
<1> USE LimiterAssumption
<1> DEFINE d == Delay
<1>1. d \in Nat /\ (MinDelay > 0 => d >= lastIn + MinDelay)
  BY DelayFacts
<1>2. /\ lastIn' = d /\ waiter'[w].left = d /\ waiter'[w] \in Waiter
      /\ \A v \in Waiters : v # w => waiter'[v] = waiter[v]
      /\ waiter' \in [Waiters -> Waiter]
      /\ remaining' \in Int /\ resetIn' = resetIn
  BY <1>1 DEF Reserve, LimiterTypeOK, Waiter
<1> HIDE DEF d
<1>3. LimiterTypeOK'
  BY <1>1, <1>2 DEF LimiterTypeOK
<1>4. \A v \in Waiters : waiter[v].left \in Nat /\ lastIn \in Int
  BY DEF LimiterTypeOK, Waiter
<1>5. ASSUME NEW v \in Waiters, v # w, waiter[v].left > 0
      PROVE  d >= waiter[v].left + MinDelay \/ waiter[v].left >= d + MinDelay
  BY <1>1, <1>4, <1>5 DEF SlotsSpaced
<1>6. ASSUME NEW v \in Waiters, MinDelay > 0, waiter'[v].left > 0
      PROVE  waiter'[v].left <= lastIn'
  BY <1>1, <1>2, <1>4, <1>6 DEF SlotsSpaced
<1>7. ASSUME NEW u \in Waiters, NEW v \in Waiters, u # v, waiter'[u].left > 0, waiter'[v].left > 0
      PROVE  \/ waiter'[u].left >= waiter'[v].left + MinDelay
             \/ waiter'[v].left >= waiter'[u].left + MinDelay
  <2>1. CASE u # w /\ v # w
    BY <1>2, <1>7, <2>1 DEF SlotsSpaced
  <2>2. CASE u = w
    BY <1>2, <1>5, <1>7, <2>2
  <2>3. CASE v = w
    BY <1>2, <1>5, <1>7, <2>3
  <2> QED BY <2>1, <2>2, <2>3
<1> QED BY <1>3, <1>6, <1>7 DEF SlotsSpaced

LEMMA LimiterKeeps ==
    ASSUME LimiterTypeOK, SlotsSpaced, NEW w \in Waiters,
           Enter(w) \/ Wake(w) \/ GiveUp(w)
    PROVE  LimiterTypeOK' /\ SlotsSpaced'
<1>1. /\ waiter' \in [Waiters -> Waiter]
      /\ waiter'[w].left = waiter[w].left \/ waiter'[w].left = 0
      /\ \A v \in Waiters : v # w => waiter'[v] = waiter[v]
      /\ UNCHANGED <<remaining, resetIn, lastIn>>
  BY DEF Enter, Wake, GiveUp, LimiterTypeOK, Waiter
<1>2. \A v \in Waiters : waiter'[v].left = waiter[v].left \/ waiter'[v].left = 0
  BY <1>1
<1> QED BY <1>1, <1>2 DEF LimiterTypeOK, SlotsSpaced

LEMMA ElapseKeeps ==
    ASSUME LimiterTypeOK, SlotsSpaced, Elapse
    PROVE  LimiterTypeOK' /\ SlotsSpaced'
<1> USE LimiterAssumption
<1>1. \A v \in Waiters : waiter[v] \in Waiter /\ waiter[v].left \in Nat
  BY DEF LimiterTypeOK, Waiter
<1>2. \A v \in Waiters :
         /\ waiter'[v] \in Waiter
         /\ waiter'[v].left = Larger(waiter[v].left - 1, 0)
  BY <1>1 DEF Elapse, Waiter, Larger
<1>3. LimiterTypeOK'
  <2>1. waiter' \in [Waiters -> Waiter]
    BY <1>2 DEF Elapse
  <2>2. resetIn' \in Nat /\ lastIn' \in Int /\ lastIn' >= -MinDelay /\ remaining' \in Int
    BY DEF Elapse, LimiterTypeOK, Larger
  <2> QED BY <2>1, <2>2 DEF LimiterTypeOK
<1>4. lastIn' >= lastIn - 1 /\ lastIn \in Int /\ lastIn' \in Int
  BY DEF Elapse, LimiterTypeOK, Larger
<1>5. \A v \in Waiters : waiter'[v].left > 0 => waiter[v].left > 0 /\ waiter'[v].left = waiter[v].left - 1
  BY <1>1, <1>2 DEF Larger
<1> QED BY <1>1, <1>3, <1>4, <1>5 DEF SlotsSpaced

----------------------------------------------------------------------------
(* The batch.                                                              *)

(* The items before pos have been dealt with, those from pos on have not;  *)
(* a late start leaves the select for good.                                *)
BatchInv ==
    /\ BatchTypeOK /\ Complete /\ AtMostOneLateStart
    /\ \A i \in Items : item[i] = "todo" <=> i >= pos
    /\ loop = "returned" => pos = N + 1
    /\ late # {} => ctx = "done" /\ loop # "select"

LEMMA ItemsFinite == ASSUME NEW S, S \subseteq Items PROVE IsFiniteSet(S) /\ Cardinality(S) \in Nat
<1>1. IsFiniteSet(Items)
  BY FS_Interval, BatchAssumption DEF Items
<1> QED BY <1>1, FS_Subset, FS_CardinalityType

LEMMA BatchInitInv == BatchInit => BatchInv
<1> SUFFICES ASSUME BatchInit PROVE BatchInv
  OBVIOUS
<1> USE BatchAssumption
<1>1. Running = {} /\ late = {}
  BY DEF BatchInit, Running
<1>2. Cardinality({}) = 0
  BY FS_EmptySet
<1> QED BY <1>1, <1>2 DEF BatchInit, BatchInv, BatchTypeOK, Complete, AtMostOneLateStart, Items, Outcomes

LEMMA CheckCtxInv == ASSUME BatchInv, CheckCtx PROVE BatchInv'
<1> USE BatchAssumption DEF BatchInv, BatchTypeOK, CheckCtx, Items, Outcomes
<1>1. CASE ctx = "done"
  <2>1. /\ item' = [item EXCEPT ![pos] = "cancelled"] /\ pos' = pos + 1 /\ loop' = "check"
        /\ UNCHANGED <<ctx, late>> /\ pos \in Items /\ item[pos] = "todo"
    BY <1>1 DEF Advance
  <2>2. Running' = Running
    BY <2>1 DEF Running
  <2> QED BY <2>1, <2>2 DEF Complete, AtMostOneLateStart
<1>2. CASE ctx # "done"
  <2>1. /\ loop' = "select" /\ UNCHANGED <<pos, item, ctx, late>> /\ late = {}
    BY <1>2
  <2> QED BY <2>1 DEF Complete, AtMostOneLateStart, Running
<1> QED BY <1>1, <1>2

LEMMA AcquireInv == ASSUME BatchInv, Acquire PROVE BatchInv'
<1> USE BatchAssumption DEF BatchInv, BatchTypeOK, Items, Outcomes
<1>1. /\ item' = [item EXCEPT ![pos] = "running"] /\ pos' = pos + 1 /\ loop' = "check"
      /\ ctx' = ctx /\ pos \in Items /\ item[pos] = "todo" /\ loop = "select"
      /\ late = {} /\ late' = IF ctx = "done" THEN late \cup {pos} ELSE late
      /\ Cardinality(Running) < Capacity
  BY DEF Acquire, Advance
<1>2. Cardinality(Running') <= Capacity
  <2>1. Running' = Running \cup {pos} /\ pos \notin Running /\ Running \subseteq Items
    BY <1>1 DEF Running
  <2>2. IsFiniteSet(Running) /\ Cardinality(Running) \in Nat
    BY <2>1, ItemsFinite
  <2>3. Cardinality(Running') = Cardinality(Running) + 1
    BY <2>1, <2>2, FS_AddElement
  <2> QED BY <1>1, <2>2, <2>3
<1>3. Cardinality(late') <= 1
  <2>1. Cardinality({}) = 0 /\ Cardinality({pos}) = 1
    BY FS_EmptySet, FS_Singleton
  <2> QED BY <1>1, <2>1
<1> HIDE DEF Items
<1> QED BY <1>1, <1>2, <1>3 DEF Complete, AtMostOneLateStart, Items

LEMMA AcquireCancelledInv == ASSUME BatchInv, AcquireCancelled PROVE BatchInv'
<1> USE BatchAssumption DEF BatchInv, BatchTypeOK, Items, Outcomes
<1>1. /\ item' = [item EXCEPT ![pos] = "cancelled"] /\ pos' = pos + 1 /\ loop' = "check"
      /\ UNCHANGED <<ctx, late>> /\ pos \in Items /\ item[pos] = "todo"
  BY DEF AcquireCancelled, Advance
<1>2. Running' = Running
  BY <1>1 DEF Running
<1> QED BY <1>1, <1>2 DEF Complete, AtMostOneLateStart

LEMMA FinishInv == ASSUME BatchInv, NEW i \in Items, NEW o \in Outcomes, Finish(i, o) PROVE BatchInv'
<1>1. /\ item' = [item EXCEPT ![i] = o] /\ item[i] = "running" /\ UNCHANGED <<loop, pos, ctx, late>>
      /\ o \notin {"todo", "running"} /\ item \in [Items -> {"todo", "running"} \cup Outcomes]
  BY DEF Finish, Outcomes, BatchInv, BatchTypeOK
<1>2. Running' = Running \ {i} /\ Running \subseteq Items
  BY <1>1 DEF Running, Items
<1>3. Cardinality(Running') <= Cardinality(Running)
  BY <1>2, ItemsFinite, FS_Subset
<1>4. Cardinality(Running) \in Nat /\ Cardinality(Running') \in Nat
  BY <1>2, ItemsFinite
<1>5. Complete'
  BY <1>1, <1>3, <1>4, BatchAssumption DEF BatchInv, Complete, Items
<1>6. \A j \in Items : item'[j] = "todo" <=> item[j] = "todo"
  BY <1>1
<1> QED BY <1>1, <1>5, <1>6 DEF BatchInv, BatchTypeOK, AtMostOneLateStart, Items

LEMMA ReturnInv == ASSUME BatchInv, Return PROVE BatchInv'
<1> USE BatchAssumption DEF BatchInv, BatchTypeOK, Return
<1>1. pos = N + 1 /\ loop' = "returned" /\ Running = {} /\ UNCHANGED <<pos, item, ctx, late>>
  BY DEF Items
<1>2. \A i \in Items : item[i] \in Outcomes
  BY <1>1 DEF Items, Running
<1> QED BY <1>1, <1>2 DEF Complete, AtMostOneLateStart, Running, Items

LEMMA CancelInv == ASSUME BatchInv, Cancel PROVE BatchInv'
BY DEF BatchInv, BatchTypeOK, Cancel, Complete, AtMostOneLateStart, Running, Items

----------------------------------------------------------------------------
(* The composition.                                                        *)

(* Beside its components' invariants: who has not been let through has not *)
(* sent anything.                                                          *)
Inv ==
    /\ LimitedTypeOK /\ BatchInv /\ SlotsSpaced /\ ResultsTrue
    /\ \A i \in Items : waiter[i].pc # "through" => reply[i] = NoReply

(* What the parts of a step leave alone.                                   *)
LEMMA StepParts ==
    ASSUME Inv, BatchInv', LimiterTypeOK', SlotsSpaced', UNCHANGED <<quota, windowIn>>,
           reply' \in [Items -> Reply], ResultsTrue',
           \A i \in Items : waiter'[i].pc # "through" => reply'[i] = NoReply
    PROVE  Inv'
BY DEF Inv, LimitedTypeOK, BatchInv

LEMMA InitInv == Init => Inv
<1> SUFFICES ASSUME Init PROVE Inv
  OBVIOUS
<1>1. BatchInv /\ LimiterTypeOK /\ SlotsSpaced
  BY BatchInitInv, LimiterInit_ DEF Init
<1>2. LimitedTypeOK
  BY <1>1, PlatformAssumption DEF Init, LimitedTypeOK, BatchInv, Reply, NoReply
<1>3. ResultsTrue
  BY PlatformAssumption DEF Init, BatchInit, LimiterInit, ResultsTrue, NoReply
<1> QED BY <1>1, <1>2, <1>3, PlatformAssumption DEF Inv, Init

LEMMA LoopInv == ASSUME Inv, Loop PROVE Inv'
<1>1. UNCHANGED <<limiterVars, platformVars>>
  BY DEF Loop
<1>2. BatchInv'
  BY CheckCtxInv, AcquireCancelledInv, ReturnInv DEF Loop, Inv
<1>3. \A i \in Items : \/ item'[i] = item[i]
                       \/ item[i] = "todo" /\ item'[i] = "cancelled"
  BY DEF Loop, CheckCtx, AcquireCancelled, Return, Inv, BatchInv, BatchTypeOK
<1>4. ResultsTrue'
  BY <1>1, <1>3 DEF Inv, ResultsTrue, limiterVars, platformVars
<1>5. LimiterTypeOK' /\ SlotsSpaced'
  BY <1>1 DEF Inv, LimitedTypeOK, LimiterTypeOK, SlotsSpaced, limiterVars
<1>6. /\ UNCHANGED <<quota, windowIn>> /\ reply' \in [Items -> Reply]
      /\ \A i \in Items : waiter'[i].pc # "through" => reply'[i] = NoReply
  BY <1>1 DEF Inv, LimitedTypeOK, limiterVars, platformVars
<1> QED BY <1>2, <1>4, <1>5, <1>6, StepParts

LEMMA StartItemInv == ASSUME Inv, StartItem PROVE Inv'
<1> USE PlatformAssumption
<1>0. pos \in Items /\ Acquire /\ Enter(pos) /\ UNCHANGED platformVars
  BY BatchAssumption DEF StartItem, Acquire, Inv, BatchInv, BatchTypeOK, Items
<1>1. BatchInv'
  BY <1>0, AcquireInv DEF Inv
<1>2. LimiterTypeOK' /\ SlotsSpaced'
  BY <1>0, LimiterKeeps DEF Inv, LimitedTypeOK
<1>3. /\ item'[pos] = "running" /\ waiter[pos].pc = "out" /\ waiter'[pos].pc = "pacing"
      /\ \A i \in Items : i # pos => item'[i] = item[i] /\ waiter'[i] = waiter[i]
      /\ reply' = reply /\ UNCHANGED <<quota, windowIn>>
  BY <1>0 DEF Acquire, Enter, platformVars, Inv, LimitedTypeOK, BatchTypeOK, LimiterTypeOK, Waiter
<1>4. reply[pos] = NoReply /\ NoReply.kind = "none"
  BY <1>0, <1>3 DEF Inv, NoReply
<1>5. ResultsTrue'
  BY <1>0, <1>3, <1>4 DEF Inv, ResultsTrue
<1>6. /\ reply' \in [Items -> Reply]
      /\ \A i \in Items : waiter'[i].pc # "through" => reply'[i] = NoReply
  BY <1>3, <1>4 DEF Inv, LimitedTypeOK
<1> QED BY <1>1, <1>2, <1>3, <1>5, <1>6, StepParts

LEMMA WaitOverInv == ASSUME Inv, NEW i \in Items, WaitOver(i) PROVE Inv'
<1> USE PlatformAssumption
<1>0. (Reserve(i) \/ Wake(i)) /\ UNCHANGED <<batchVars, platformVars>>
  BY DEF WaitOver
<1>1. LimiterTypeOK' /\ SlotsSpaced'
  BY <1>0, ReserveKeeps, LimiterKeeps DEF Inv, LimitedTypeOK
<1>2. BatchInv'
  BY <1>0 DEF Inv, BatchInv, BatchTypeOK, Complete, AtMostOneLateStart, Running, batchVars
<1>3. /\ waiter[i].pc \in {"pacing", "asleep"} /\ waiter'[i].pc \in {"asleep", "through"}
      /\ \A j \in Items : j # i => waiter'[j] = waiter[j]
      /\ reply' = reply /\ item' = item /\ UNCHANGED <<quota, windowIn>>
  BY <1>0 DEF Reserve, Wake, platformVars, batchVars, Inv, LimitedTypeOK, LimiterTypeOK, Waiter
<1>4. reply[i] = NoReply
  BY <1>3 DEF Inv
<1>5. ResultsTrue'
  BY <1>3 DEF Inv, ResultsTrue
<1>6. /\ reply' \in [Items -> Reply]
      /\ \A j \in Items : waiter'[j].pc # "through" => reply'[j] = NoReply
  BY <1>3, <1>4 DEF Inv, LimitedTypeOK
<1> QED BY <1>1, <1>2, <1>3, <1>5, <1>6, StepParts

LEMMA WaitCancelledInv == ASSUME Inv, NEW i \in Items, WaitCancelled(i) PROVE Inv'
<1> USE PlatformAssumption
<1>0. GiveUp(i) /\ Finish(i, "failed") /\ UNCHANGED platformVars
  BY DEF WaitCancelled
<1>1. LimiterTypeOK' /\ SlotsSpaced'
  BY <1>0, LimiterKeeps DEF Inv, LimitedTypeOK
<1>2. BatchInv'
  BY <1>0, FinishInv DEF Inv, Outcomes
<1>3. /\ waiter[i].pc \in {"pacing", "asleep"} /\ waiter'[i].pc = "gone" /\ item'[i] = "failed"
      /\ \A j \in Items : j # i => waiter'[j] = waiter[j] /\ item'[j] = item[j]
      /\ reply' = reply /\ UNCHANGED <<quota, windowIn>>
  BY <1>0 DEF GiveUp, Finish, platformVars, Inv, LimitedTypeOK, LimiterTypeOK, BatchTypeOK, Waiter
<1>4. reply[i] = NoReply
  BY <1>3 DEF Inv
<1>5. ResultsTrue'
  BY <1>3 DEF Inv, ResultsTrue
<1>6. /\ reply' \in [Items -> Reply]
      /\ \A j \in Items : waiter'[j].pc # "through" => reply'[j] = NoReply
  BY <1>3, <1>4 DEF Inv, LimitedTypeOK
<1> QED BY <1>1, <1>2, <1>3, <1>5, <1>6, StepParts

LEMMA ServedInv == ASSUME Inv, NEW i \in Items, Serve(i) \/ ServeBare(i) PROVE Inv'
<1> USE PlatformAssumption
<1>0. waiter[i].pc = "through" /\ reply[i] = NoReply /\ UNCHANGED <<batchVars, limiterVars>>
  BY DEF Serve, ServeBare
<1>1. BatchInv' /\ LimiterTypeOK' /\ SlotsSpaced' /\ UNCHANGED <<item, waiter>>
  BY <1>0 DEF Inv, BatchInv, BatchTypeOK, Complete, AtMostOneLateStart, Running, batchVars,
     LimitedTypeOK, LimiterTypeOK, SlotsSpaced, limiterVars
<1>2. PICK r \in Reply : /\ r.kind \notin {"none", "read"}
                         /\ reply' = [reply EXCEPT ![i] = r]
                         /\ quota' \in 0..Quota /\ windowIn' \in 0..Window
  <2>1. CASE Serve(i)
    <3> DEFINE free == IF windowIn = 0 THEN Quota ELSE quota
               ends == IF windowIn = 0 THEN Window ELSE windowIn
               left == Larger(free - 1, 0)
               r == [kind |-> IF free > 0 THEN "ok" ELSE "refused", rem |-> left, reset |-> ends]
    <3>1. left \in 0..Quota /\ ends \in 0..Window
      BY DEF Inv, LimitedTypeOK, Larger
    <3>2. quota' = left /\ windowIn' = ends /\ reply' = [reply EXCEPT ![i] = r]
      BY <2>1 DEF Serve
    <3>3. left \in Nat /\ ends \in Nat
      BY <3>1
    <3> HIDE DEF left, ends
    <3>4. r \in Reply /\ r.kind \notin {"none", "read"}
      BY <3>3 DEF Reply
    <3> QED BY <3>1, <3>2, <3>4
  <2>2. CASE ServeBare(i)
    <3>1. PICK kind \in {"bare", "lost"} :
             reply' = [reply EXCEPT ![i] = [NoReply EXCEPT !.kind = kind]]
      BY <2>2 DEF ServeBare
    <3>2. /\ [NoReply EXCEPT !.kind = kind] \in Reply
          /\ [NoReply EXCEPT !.kind = kind].kind = kind
      BY DEF NoReply, Reply
    <3> QED BY <2>2, <3>1, <3>2 DEF ServeBare, Inv, LimitedTypeOK
  <2> QED BY <2>1, <2>2
<1>3. /\ reply' \in [Items -> Reply] /\ reply'[i] = r
      /\ \A j \in Items : j # i => reply'[j] = reply[j]
  BY <1>2 DEF Inv, LimitedTypeOK
<1>4. reply[i].kind = "none"
  BY <1>0 DEF NoReply
<1>5. ResultsTrue'
  BY <1>0, <1>1, <1>2, <1>3, <1>4 DEF Inv, ResultsTrue
<1>6. \A j \in Items : waiter'[j].pc # "through" => reply'[j] = NoReply
  BY <1>0, <1>1, <1>3 DEF Inv
<1> QED BY <1>1, <1>2, <1>3, <1>5, <1>6 DEF Inv, LimitedTypeOK, BatchInv

LEMMA ReceiveInv == ASSUME Inv, NEW i \in Items, Receive(i) PROVE Inv'
<1> USE PlatformAssumption
<1> DEFINE r == reply[i]
           read == [NoReply EXCEPT !.kind = "read"]
<1>0. /\ r \in Reply /\ r.kind \notin {"none", "read"}
      /\ UpdateFromResponse(r.rem, r.reset) \/ UNCHANGED limiterVars
      /\ Finish(i, "ok") \/ Finish(i, "failed")
      /\ reply' = [reply EXCEPT ![i] = read] /\ UNCHANGED <<quota, windowIn>>
  BY DEF Receive, Inv, LimitedTypeOK
<1>1. read \in Reply /\ read.kind = "read"
  BY DEF NoReply, Reply
<1>2. LimiterTypeOK' /\ SlotsSpaced' /\ waiter' = waiter
  BY <1>0 DEF UpdateFromResponse, limiterVars, Inv, LimitedTypeOK, LimiterTypeOK, SlotsSpaced, Reply
<1>3. BatchInv'
  BY <1>0, FinishInv DEF Inv, Outcomes
<1>4. /\ item[i] = "running" /\ item'[i] \in {"ok", "failed"}
      /\ \A j \in Items : j # i => item'[j] = item[j]
  BY <1>0 DEF Finish, Inv, BatchInv, BatchTypeOK
<1>5. /\ reply' \in [Items -> Reply] /\ reply'[i] = read
      /\ \A j \in Items : j # i => reply'[j] = reply[j]
  BY <1>0, <1>1 DEF Inv, LimitedTypeOK
<1>6. waiter[i].pc = "through"
  <2>1. r # NoReply
    BY <1>0 DEF NoReply
  <2> QED BY <2>1 DEF Inv
<1> HIDE DEF r, read
<1>7. ResultsTrue'
  BY <1>1, <1>2, <1>4, <1>5, <1>6 DEF Inv, ResultsTrue
<1>8. \A j \in Items : waiter'[j].pc # "through" => reply'[j] = NoReply
  BY <1>2, <1>5, <1>6 DEF Inv
<1> QED BY <1>0, <1>2, <1>3, <1>5, <1>7, <1>8, StepParts

LEMMA TickInv == ASSUME Inv, Tick PROVE Inv'
<1> USE PlatformAssumption
<1>0. Elapse /\ UNCHANGED <<batchVars, quota>>
  BY DEF Tick
<1>1. LimiterTypeOK' /\ SlotsSpaced'
  BY <1>0, ElapseKeeps DEF Inv, LimitedTypeOK
<1>2. BatchInv' /\ item' = item
  BY <1>0 DEF Inv, BatchInv, BatchTypeOK, Complete, AtMostOneLateStart, Running, batchVars
<1>3. \A i \in Items : waiter'[i].pc = waiter[i].pc
  BY <1>0 DEF Elapse, Inv, LimitedTypeOK, LimiterTypeOK, Waiter
<1>4. \A i \in Items : /\ reply'[i] \in Reply /\ reply'[i].kind = reply[i].kind
                       /\ reply[i] = NoReply => reply'[i] = NoReply
  <2> SUFFICES ASSUME NEW i \in Items
               PROVE  /\ reply'[i] \in Reply /\ reply'[i].kind = reply[i].kind
                      /\ reply[i] = NoReply => reply'[i] = NoReply
    OBVIOUS
  <2>1. reply[i] \in Reply /\ reply'[i] = [reply[i] EXCEPT !.reset = Larger(reply[i].reset - 1, 0)]
    BY DEF Tick, Inv, LimitedTypeOK
  <2>2. Larger(reply[i].reset - 1, 0) \in Nat /\ Larger(0 - 1, 0) = 0
    BY <2>1 DEF Reply, Larger
  <2>3. reply'[i] \in Reply /\ reply'[i].kind = reply[i].kind
    BY <2>1, <2>2 DEF Reply
  <2>4. ASSUME reply[i] = NoReply PROVE reply'[i] = NoReply
    BY <2>1, <2>2, <2>4 DEF NoReply
  <2> QED BY <2>3, <2>4
<1>5. ResultsTrue'
  BY <1>2, <1>3, <1>4 DEF Inv, ResultsTrue
<1>6. reply' \in [Items -> Reply] /\ windowIn' \in 0..Window /\ quota' \in 0..Quota
  <2>1. windowIn' \in 0..Window /\ quota' \in 0..Quota
    BY DEF Tick, Inv, LimitedTypeOK, Larger
  <2>2. reply' \in [Items -> Reply]
    BY <1>4 DEF Tick
  <2> QED BY <2>1, <2>2
<1>7. \A i \in Items : waiter'[i].pc # "through" => reply'[i] = NoReply
  BY <1>3, <1>4 DEF Inv
<1> QED BY <1>1, <1>2, <1>5, <1>6, <1>7 DEF Inv, LimitedTypeOK, BatchInv

LEMMA StepInv == Inv /\ [Next]_vars => Inv'
<1> SUFFICES ASSUME Inv, [Next]_vars PROVE Inv'
  OBVIOUS
<1>1. CASE CancelBatch
  <2>1. BatchInv' /\ item' = item /\ UNCHANGED <<limiterVars, platformVars>>
    BY <1>1, CancelInv DEF CancelBatch, Cancel, Inv
  <2> QED BY <2>1, PlatformAssumption
          DEF Inv, LimitedTypeOK, LimiterTypeOK, SlotsSpaced, ResultsTrue, limiterVars, platformVars, BatchInv
<1>2. ASSUME NEW i \in Items, ItemStep(i) PROVE Inv'
  BY <1>2, WaitOverInv, WaitCancelledInv, ServedInv, ReceiveInv DEF ItemStep
<1>3. CASE UNCHANGED vars
  <2>1. UNCHANGED <<loop, pos, item, ctx, late>> /\ UNCHANGED <<remaining, resetIn, lastIn, waiter>>
        /\ UNCHANGED <<quota, windowIn, reply>>
    BY <1>3 DEF vars, batchVars, limiterVars, platformVars
  <2> QED BY <2>1 DEF Inv, LimitedTypeOK, LimiterTypeOK, SlotsSpaced, ResultsTrue, BatchInv, BatchTypeOK,
             Complete, AtMostOneLateStart, Running
<1> QED BY <1>1, <1>2, <1>3, LoopInv, StartItemInv, TickInv DEF Next

(* The conjunction of the invariants below, with what makes it inductive.  *)
THEOREM InvCorrect == Spec => []Inv
BY InitInv, StepInv, PTL DEF Spec

(* Every reachable state is well typed; in particular the loop never runs  *)
(* past the items and no sleep is negative.                                *)
THEOREM LimitedTypeCorrect == Spec => []LimitedTypeOK
<1>1. Inv => LimitedTypeOK
  BY DEF Inv
<1> QED BY <1>1, InvCorrect, PTL

(* The slots of sleeping waiters are at least MinDelay apart, for every    *)
(* number of waiters and whatever quotas the platform reports.             *)
THEOREM SlotsSpacedCorrect == Spec => []SlotsSpaced
<1>1. Inv => SlotsSpaced
  BY DEF Inv
<1> QED BY <1>1, InvCorrect, PTL

(* No more than Capacity items run, and a batch that has returned has      *)
(* every result.                                                           *)
THEOREM CompleteCorrect == Spec => []Complete
<1>1. Inv => Complete
  BY DEF Inv, BatchInv
<1> QED BY <1>1, InvCorrect, PTL

(* After the context has ended at most one item is still started.          *)
THEOREM AtMostOneLateStartCorrect == Spec => []AtMostOneLateStart
<1>1. Inv => AtMostOneLateStart
  BY DEF Inv, BatchInv
<1> QED BY <1>1, InvCorrect, PTL

(* An item's result is what happened to its request.                       *)
THEOREM ResultsTrueCorrect == Spec => []ResultsTrue
<1>1. Inv => ResultsTrue
  BY DEF Inv
<1> QED BY <1>1, InvCorrect, PTL
=============================================================================
