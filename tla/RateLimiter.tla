---------------------------- MODULE RateLimiter ----------------------------
(***************************************************************************)
(* transport.RateLimiter: WaitContext and UpdateFromResponse.              *)
(*                                                                         *)
(* A waiter computes its delay and reserves its slot in one section under  *)
(* mu, and sleeps outside it.  Instants are kept as distances from now, so *)
(* that time has no bound: a reset in the past is 0, which the code treats *)
(* as it treats none, and lastReq is never further back than MinDelay,     *)
(* beyond which it delays nobody.  The token bucket of WithRPS only        *)
(* decides when a waiter arrives at the section, which is left open.       *)
(***************************************************************************)
EXTENDS Integers

CONSTANTS
    Waiters,   \* one call of WaitContext each
    MinDelay,  \* WithMinDelay, 0 for none
    Threshold, \* WithThrottleThreshold
    Second     \* an adaptive delay up to this is not taken

ASSUME LimiterAssumption ==
    MinDelay \in Nat /\ Threshold \in Nat /\ Second \in Nat \ {0}

VARIABLES
    remaining, \* X-RateLimit-Remaining as last seen, less the reservations since
    resetIn,   \* resetAt - now, 0 when past or never seen
    lastIn,    \* lastReq - now
    waiter     \* per waiter: where it is, and how long it still sleeps

limiterVars == <<remaining, resetIn, lastIn, waiter>>

Waiter == [pc : {"out", "pacing", "asleep", "through", "gone"}, left : Nat]

Larger(a, b) == IF a > b THEN a ELSE b

LimiterInit ==
    /\ remaining = 0
    /\ resetIn = 0
    /\ lastIn = -MinDelay
    /\ waiter = [w \in Waiters |-> [pc |-> "out", left |-> 0]]

(* The spacing to the last reserved slot.                                  *)
Spacing == IF MinDelay > 0 THEN Larger(lastIn + MinDelay, 0) ELSE 0

(* The rest of the window spread over the remaining requests.              *)
Share == resetIn \div (Larger(remaining, 0) + 1)

Throttled == Larger(remaining, 0) <= Threshold /\ resetIn > 0 /\ Share > Second

Delay == Larger(Spacing, IF Throttled THEN Share ELSE 0)

Enter(w) ==
    /\ waiter[w].pc = "out"
    /\ waiter' = [waiter EXCEPT ![w].pc = "pacing"]
    /\ UNCHANGED <<remaining, resetIn, lastIn>>

(* The critical section of WaitContext.                                    *)
ReserveNow(w) ==
    /\ waiter[w].pc = "pacing"
    /\ remaining' = IF Throttled THEN remaining - 1 ELSE remaining
    /\ lastIn' = 0
    /\ waiter' = [waiter EXCEPT ![w] = [pc |-> IF Delay > 0 THEN "asleep" ELSE "through",
                                        left |-> Delay]]
    /\ UNCHANGED resetIn
Reserve(w) ==
    /\ waiter[w].pc = "pacing"
    /\ remaining' = IF Throttled THEN remaining - 1 ELSE remaining
    /\ lastIn' = Delay
    /\ waiter' = [waiter EXCEPT ![w] = [pc |-> IF Delay > 0 THEN "asleep" ELSE "through",
                                        left |-> Delay]]
    /\ UNCHANGED resetIn

Wake(w) ==
    /\ waiter[w].pc = "asleep" /\ waiter[w].left = 0
    /\ waiter' = [waiter EXCEPT ![w].pc = "through"]
    /\ UNCHANGED <<remaining, resetIn, lastIn>>

(* The context ends while the waiter is paced or asleep; its slot stays    *)
(* reserved.                                                               *)
GiveUpUnlessAsleep(w) ==
    /\ waiter[w].pc = "pacing"
    /\ waiter' = [waiter EXCEPT ![w] = [pc |-> "gone", left |-> 0]]
    /\ UNCHANGED <<remaining, resetIn, lastIn>>
GiveUp(w) ==
    /\ waiter[w].pc \in {"pacing", "asleep"}
    /\ waiter' = [waiter EXCEPT ![w] = [pc |-> "gone", left |-> 0]]
    /\ UNCHANGED <<remaining, resetIn, lastIn>>

(* The headers of a response replace what the limiter believes, each by    *)
(* itself: either may be missing or no number.                             *)
UpdateFromResponse(rem, reset) ==
    /\ remaining' \in {remaining, rem}
    /\ resetIn' \in {resetIn, reset}
    /\ UNCHANGED <<lastIn, waiter>>

Elapse ==
    /\ resetIn' = Larger(resetIn - 1, 0)
    /\ lastIn' = Larger(lastIn - 1, -MinDelay)
    /\ waiter' = [w \in Waiters |-> [waiter[w] EXCEPT !.left = Larger(@ - 1, 0)]]
    /\ UNCHANGED remaining

----------------------------------------------------------------------------
LimiterTypeOK ==
    /\ remaining \in Int
    /\ resetIn \in Nat
    /\ lastIn \in Int /\ lastIn >= -MinDelay
    /\ waiter \in [Waiters -> Waiter]

(* WithMinDelay is "the minimum delay between consecutive requests".  The  *)
(* slots of two sleeping waiters are MinDelay apart, however adaptive      *)
(* delays, resynchronised quotas and cancelled waiters interleave, and no  *)
(* slot lies beyond lastReq, from which the next one is counted.           *)
SlotsSpaced ==
    \A v, w \in Waiters :
       /\ v # w /\ waiter[v].left > 0 /\ waiter[w].left > 0
             => \/ waiter[v].left >= waiter[w].left + MinDelay
                \/ waiter[w].left >= waiter[v].left + MinDelay
       /\ MinDelay > 0 /\ waiter[w].left > 0 => waiter[w].left <= lastIn

(* The comment at the reservation: "concurrent waiters target              *)
(* progressively later slots instead of all sleeping for the same duration *)
(* and firing at once".  No two sleeping waiters have the same slot.       *)
ProgressiveSlots ==
    \A v, w \in Waiters :
       v # w /\ waiter[v].left > 0 => waiter[v].left # waiter[w].left
============================================================================
