------------------------------ MODULE Janitor ------------------------------
(***************************************************************************)
(* The lifecycle of the Manager's background janitor: StartJanitor, Stop   *)
(* and the goroutine between them (provider/manager.go).                   *)
(*                                                                         *)
(* A janitor is numbered by the StartJanitor that launched it, and the     *)
(* number names its stop and done channels too.  Every section under       *)
(* janitorMu is one action.  Stop is three steps, because it waits for the *)
(* done channel with the mutex released and takes it again to clear the    *)
(* done field; the goroutine's exit is three steps, because its deferred   *)
(* calls first clear the fields under the mutex and then close done.       *)
(***************************************************************************)
EXTENDS Naturals

CONSTANTS
    Stoppers,    \* goroutines that call Stop; any other may call StartJanitor
    MaxJanitors  \* bound on the number of janitors ever launched

ASSUME JanitorAssumption == MaxJanitors \in Nat

VARIABLES
    janitorStop, \* Manager.janitorStop: the janitor whose channel it is, or Nil
    janitorDone, \* Manager.janitorDone, likewise
    started,     \* number of janitors launched
    jpc,         \* per janitor: where its goroutine is
    stopped,     \* janitors whose stop channel is closed
    cancelled,   \* janitors whose context is cancelled
    stopper      \* per stopper: where it is in Stop and the locals it holds

janitorVars == <<janitorStop, janitorDone, started, jpc, stopped, cancelled, stopper>>

Nil == 0
Janitors == 1..MaxJanitors

(* A Stop waits on the done channel in its local done, which is not nil:   *)
(* receiving from a nil channel never returns.  closed is the janitor      *)
(* whose stop channel this Stop closed, kept after the return as history.  *)
Stopper == [pc : {"idle"}, done : {Nil}, closed : Janitors \cup {Nil}]
           \cup [pc : {"wait"}, done : Janitors, closed : Janitors]
           \cup [pc : {"reset"}, done : Janitors \cup {Nil}, closed : Janitors]

JanitorInit ==
    /\ janitorStop = Nil
    /\ janitorDone = Nil
    /\ started = 0
    /\ jpc = [j \in Janitors |-> "unborn"]
    /\ stopped = {}
    /\ cancelled = {}
    /\ stopper = [o \in Stoppers |-> [pc |-> "idle", done |-> Nil, closed |-> Nil]]

(* Mutant: the done field is only set when it is empty.                    *)
StartJanitorReusesDone ==
    /\ janitorStop = Nil
    /\ started < MaxJanitors
    /\ started' = started + 1
    /\ janitorStop' = started + 1
    /\ janitorDone' = IF janitorDone = Nil THEN started + 1 ELSE janitorDone
    /\ jpc' = [jpc EXCEPT ![started + 1] = "loop"]
    /\ UNCHANGED <<stopped, cancelled, stopper>>

(* StartJanitor: a no-op while the stop field is set.                      *)
StartJanitor ==
    /\ janitorStop = Nil
    /\ started < MaxJanitors
    /\ started' = started + 1
    /\ janitorStop' = started + 1
    /\ janitorDone' = started + 1
    /\ jpc' = [jpc EXCEPT ![started + 1] = "loop"]
    /\ UNCHANGED <<stopped, cancelled, stopper>>

(* Mutant: Stop waits without looking whether the done field is nil.       *)
StopCloseWaitsOnNil(o) ==
    /\ stopper[o].pc = "idle"
    /\ janitorStop # Nil
    /\ stopped' = stopped \cup {janitorStop}
    /\ janitorStop' = Nil
    /\ stopper' = [stopper EXCEPT ![o] = [pc |-> "wait", done |-> janitorDone,
                                          closed |-> janitorStop]]
    /\ UNCHANGED <<janitorDone, started, jpc, cancelled>>

(* Mutant: the stop field survives the close.                              *)
StopCloseKeepsField(o) ==
    /\ stopper[o].pc = "idle"
    /\ janitorStop # Nil
    /\ stopped' = stopped \cup {janitorStop}
    /\ stopper' = [stopper EXCEPT ![o] = [pc |-> IF janitorDone = Nil THEN "reset" ELSE "wait",
                                          done |-> janitorDone,
                                          closed |-> janitorStop]]
    /\ UNCHANGED <<janitorStop, janitorDone, started, jpc, cancelled>>

(* Stop with no janitor to stop returns at once and changes nothing; with  *)
(* one, it closes the channel, clears the stop field and copies the done   *)
(* field, and with a nil done it does not wait.                            *)
StopClose(o) ==
    /\ stopper[o].pc = "idle"
    /\ janitorStop # Nil
    /\ stopped' = stopped \cup {janitorStop}
    /\ janitorStop' = Nil
    /\ stopper' = [stopper EXCEPT ![o] = [pc |-> IF janitorDone = Nil THEN "reset" ELSE "wait",
                                          done |-> janitorDone,
                                          closed |-> janitorStop]]
    /\ UNCHANGED <<janitorDone, started, jpc, cancelled>>

StopWaited(o) ==
    /\ stopper[o].pc = "wait"
    /\ jpc[stopper[o].done] = "exited"
    /\ stopper' = [stopper EXCEPT ![o].pc = "reset"]
    /\ UNCHANGED <<janitorStop, janitorDone, started, jpc, stopped, cancelled>>

StopReset(o) ==
    /\ stopper[o].pc = "reset"
    /\ janitorDone' = Nil
    /\ stopper' = [stopper EXCEPT ![o].pc = "idle", ![o].done = Nil]
    /\ UNCHANGED <<janitorStop, started, jpc, stopped, cancelled>>

(* The context given to StartJanitor is cancelled by its owner.            *)
CancelContext(j) ==
    /\ jpc[j] = "loop"
    /\ j \notin cancelled
    /\ cancelled' = cancelled \cup {j}
    /\ UNCHANGED <<janitorStop, janitorDone, started, jpc, stopped, stopper>>

(* The goroutine's select takes a tick; the Manager composes it with       *)
(* Cleanup.  A ready tick may win over a ready stop or cancellation.       *)
JanitorTick(j) == jpc[j] = "loop" /\ UNCHANGED janitorVars

(* The goroutine's select takes the stop channel or the cancellation.      *)
JanitorLeave(j) ==
    /\ jpc[j] = "loop"
    /\ j \in stopped \cup cancelled
    /\ jpc' = [jpc EXCEPT ![j] = "leaving"]
    /\ UNCHANGED <<janitorStop, janitorDone, started, stopped, cancelled, stopper>>

(* Mutant: the fields are cleared whoever's they are.                      *)
JanitorClearUnchecked(j) ==
    /\ jpc[j] = "leaving"
    /\ jpc' = [jpc EXCEPT ![j] = "cleared"]
    /\ janitorStop' = Nil
    /\ janitorDone' = Nil
    /\ UNCHANGED <<started, stopped, cancelled, stopper>>

(* Mutant: Stop holds janitorMu while it waits, so the goroutine's         *)
(* deferred call cannot take it.                                           *)
JanitorClearLockedOut(j) ==
    /\ jpc[j] = "leaving"
    /\ \A o \in Stoppers : stopper[o].pc # "wait"
    /\ jpc' = [jpc EXCEPT ![j] = "cleared"]
    /\ janitorStop' = IF janitorStop = j THEN Nil ELSE janitorStop
    /\ janitorDone' = IF janitorDone = j THEN Nil ELSE janitorDone
    /\ UNCHANGED <<started, stopped, cancelled, stopper>>

(* First deferred call: clear the fields that are still this janitor's.    *)
JanitorClear(j) ==
    /\ jpc[j] = "leaving"
    /\ jpc' = [jpc EXCEPT ![j] = "cleared"]
    /\ janitorStop' = IF janitorStop = j THEN Nil ELSE janitorStop
    /\ janitorDone' = IF janitorDone = j THEN Nil ELSE janitorDone
    /\ UNCHANGED <<started, stopped, cancelled, stopper>>

(* Second deferred call: close(done), which every waiting Stop sees.       *)
JanitorExit(j) ==
    /\ jpc[j] = "cleared"
    /\ jpc' = [jpc EXCEPT ![j] = "exited"]
    /\ UNCHANGED <<janitorStop, janitorDone, started, stopped, cancelled, stopper>>

StopStep(o) == StopClose(o) \/ StopWaited(o) \/ StopReset(o)

JanitorExits(j) == JanitorLeave(j) \/ JanitorClear(j) \/ JanitorExit(j)

(* Everything but the tick.                                                *)
JanitorStep == \/ StartJanitor
               \/ \E o \in Stoppers : StopStep(o)
               \/ \E j \in Janitors : CancelContext(j) \/ JanitorExits(j)

----------------------------------------------------------------------------
JanitorTypeOK ==
    /\ janitorStop \in 0..started
    /\ janitorDone \in 0..started
    /\ started \in 0..MaxJanitors
    /\ jpc \in [Janitors -> {"unborn", "loop", "leaving", "cleared", "exited"}]
    /\ stopped \in SUBSET Janitors
    /\ cancelled \in SUBSET Janitors
    /\ stopper \in [Stoppers -> Stopper]

(* A janitor that nobody stopped and whose context lives is the one the    *)
(* stop field names: no janitor outlives its handle, where no Stop could   *)
(* reach it any more, and two never run side by side.                      *)
RunningIsStoppable ==
    \A j \in Janitors :
       jpc[j] = "loop" /\ j \notin stopped \cup cancelled => janitorStop = j

(* The stop field never names a janitor whose stop channel is closed       *)
(* already: a second Stop never closes a channel twice, which would panic. *)
NoDoubleClose == janitorStop \notin stopped

(* A Stop that waits for a done channel waits for the janitor it stopped,  *)
(* and for no other.                                                       *)
WaitsForItsOwn ==
    \A o \in Stoppers : stopper[o].pc = "wait" => stopper[o].done = stopper[o].closed

(* manager.go, Stop: "halts the background janitor and blocks until it has *)
(* exited".  Once a Stop that stopped a janitor has returned, that janitor *)
(* has exited.                                                             *)
StopBlocksUntilExited ==
    \A o \in Stoppers :
       stopper[o].pc = "idle" /\ stopper[o].closed # Nil => jpc[stopper[o].closed] = "exited"

(* Every Stop returns: the goroutine's exit needs the mutex that Stop has  *)
(* released before it waits.                                               *)
StopReturns == \A o \in Stoppers : stopper[o].pc # "idle" ~> stopper[o].pc = "idle"
============================================================================
