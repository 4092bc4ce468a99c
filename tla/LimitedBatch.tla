---------------------------- MODULE LimitedBatch ----------------------------
(***************************************************************************)
(* A batch whose items are requests through one rate limiter to a platform *)
(* that meters them: Batch starts an item, the item waits in RateLimiter,  *)
(* sends one request, and the response's headers update the limiter that   *)
(* the other items wait in.  Responses may be slow and overtake each       *)
(* other.  Cancelling the batch's context ends every wait.                 *)
(***************************************************************************)
EXTENDS Batch, RateLimiter

CONSTANTS
    Quota, \* requests the platform allows in a window
    Window \* length of a window

ASSUME PlatformAssumption == Waiters = Items /\ Quota \in Nat /\ Window \in Nat \ {0}

VARIABLES
    quota,    \* requests left in the platform's window
    windowIn, \* time to the end of the window
    reply     \* per item: the response under way, its headers as sent

platformVars == <<quota, windowIn, reply>>
vars == <<batchVars, limiterVars, platformVars>>

(* "lost" is a network error, "bare" a response without the headers.       *)
Reply == [kind : {"none", "ok", "refused", "bare", "lost", "read"}, rem : Nat, reset : Nat]
NoReply == [kind |-> "none", rem |-> 0, reset |-> 0]

Init ==
    /\ BatchInit
    /\ LimiterInit
    /\ quota = Quota
    /\ windowIn = Window
    /\ reply = [i \in Items |-> NoReply]

----------------------------------------------------------------------------
Loop == /\ CheckCtx \/ AcquireCancelled \/ Return
        /\ UNCHANGED <<limiterVars, platformVars>>

StartItem == /\ Acquire
             /\ Enter(pos)
             /\ UNCHANGED platformVars

WaitOver(i) == /\ Reserve(i) \/ Wake(i)
               /\ UNCHANGED <<batchVars, platformVars>>

(* WaitContext returns the context's error, and so does the item.          *)
WaitCancelledDropsError(i) ==
    /\ ctx = "done"
    /\ GiveUp(i)
    /\ Finish(i, "ok")
    /\ UNCHANGED platformVars
WaitCancelled(i) ==
    /\ ctx = "done"
    /\ GiveUp(i)
    /\ Finish(i, "failed")
    /\ UNCHANGED platformVars

(* The platform serves the request, in a new window if the last has ended, *)
(* and reports what is left of it.                                         *)
Serve(i) ==
    /\ waiter[i].pc = "through" /\ reply[i] = NoReply
    /\ LET free == IF windowIn = 0 THEN Quota ELSE quota
           ends == IF windowIn = 0 THEN Window ELSE windowIn
           left == Larger(free - 1, 0)
       IN  /\ quota' = left
           /\ windowIn' = ends
           /\ reply' = [reply EXCEPT ![i] = [kind |-> IF free > 0 THEN "ok" ELSE "refused",
                                             rem |-> left, reset |-> ends]]
    /\ UNCHANGED <<batchVars, limiterVars>>

(* A network error, the context's end among them, or a response that       *)
(* carries no quota.                                                       *)
ServeBare(i) ==
    /\ waiter[i].pc = "through" /\ reply[i] = NoReply
    /\ \E kind \in {"bare", "lost"} : reply' = [reply EXCEPT ![i] = [NoReply EXCEPT !.kind = kind]]
    /\ UNCHANGED <<batchVars, limiterVars, quota, windowIn>>

(* The response arrives: its headers update the limiter, and it is the     *)
(* item's result.                                                          *)
Receive(i) ==
    LET r == reply[i] IN
    /\ r.kind \notin {"none", "read"}
    /\ IF r.kind \in {"ok", "refused"}
       THEN UpdateFromResponse(r.rem, r.reset)
       ELSE UNCHANGED limiterVars
    /\ Finish(i, IF r.kind \in {"ok", "bare"} THEN "ok" ELSE "failed")
    /\ reply' = [reply EXCEPT ![i] = [NoReply EXCEPT !.kind = "read"]]
    /\ UNCHANGED <<quota, windowIn>>

CancelBatch == Cancel /\ UNCHANGED <<limiterVars, platformVars>>

Tick ==
    /\ Elapse
    /\ windowIn' = Larger(windowIn - 1, 0)
    /\ reply' = [i \in Items |-> [reply[i] EXCEPT !.reset = Larger(@ - 1, 0)]]
    /\ UNCHANGED <<batchVars, quota>>

ItemStep(i) == WaitOver(i) \/ WaitCancelled(i) \/ Serve(i) \/ ServeBare(i) \/ Receive(i)

Next == \/ Loop \/ StartItem \/ CancelBatch \/ Tick
        \/ \E i \in Items : ItemStep(i)

(* The goroutines run and the network answers; nobody has to cancel, and   *)
(* time is left to the properties that need it.                            *)
Spec == /\ Init /\ [][Next]_vars
        /\ WF_vars(Loop) /\ WF_vars(StartItem)
        /\ \A i \in Items : WF_vars(ItemStep(i))

----------------------------------------------------------------------------
LimitedTypeOK ==
    /\ BatchTypeOK /\ LimiterTypeOK
    /\ quota \in 0..Quota
    /\ windowIn \in 0..Window
    /\ reply \in [Items -> Reply]

(* An item's result is what happened to its request: one that the batch    *)
(* never started sent none, and a success is an answered request.          *)
ResultsTrue ==
    \A i \in Items :
       /\ item[i] = "ok" => reply[i].kind = "read"
       /\ item[i] \in {"todo", "cancelled"} => waiter[i].pc = "out"
       /\ item[i] = "running" <=> /\ waiter[i].pc \notin {"out", "gone"}
                                  /\ reply[i].kind # "read"

(* When time goes on the batch returns: no wait for a slot, for a quota or *)
(* for an answer lasts for ever.                                           *)
BatchReturns == WF_vars(Tick) => <>(loop = "returned")

(* A cancelled batch returns even if time stands still: no item sits out   *)
(* an adaptive delay, however long.                                        *)
CancelIsPrompt == (ctx = "done") ~> (loop = "returned")
=============================================================================
