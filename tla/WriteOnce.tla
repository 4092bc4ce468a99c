----------------------------- MODULE WriteOnce -----------------------------
(***************************************************************************)
(* What the transport promises of a non-idempotent request while           *)
(* RetryConfig.RetryWrite is off: the server executes it at most once,     *)
(* and the answer the caller gets is true of what the server did.          *)
(***************************************************************************)
EXTENDS Naturals

CONSTANT Calls

VARIABLES
    phase,    \* per write: "new", "open" or "closed"
    effects,  \* per write: how often the server executed it
    claim     \* per closed write: "done", "not done" or "unknown"

onceVars == <<phase, effects, claim>>

Init == /\ phase = [c \in Calls |-> "new"]
        /\ effects = [c \in Calls |-> 0]
        /\ claim = [c \in Calls |-> "unknown"]

Open(c) == /\ phase[c] = "new"
           /\ phase' = [phase EXCEPT ![c] = "open"]
           /\ UNCHANGED <<effects, claim>>

Execute(c) == /\ phase[c] = "open" /\ effects[c] = 0
              /\ effects' = [effects EXCEPT ![c] = 1]
              /\ UNCHANGED <<phase, claim>>

(* An answer that says the write was done, or was not, is right; an        *)
(* "unknown" tells the caller to find out for himself.                     *)
Close(c, said) ==
    /\ phase[c] = "open"
    /\ said = "done" => effects[c] = 1
    /\ said = "not done" => effects[c] = 0
    /\ phase' = [phase EXCEPT ![c] = "closed"]
    /\ claim' = [claim EXCEPT ![c] = said]
    /\ UNCHANGED effects

Next == \E c \in Calls : \/ Open(c) \/ Execute(c)
                         \/ \E said \in {"done", "not done", "unknown"} : Close(c, said)

Spec == Init /\ [][Next]_onceVars
============================================================================
