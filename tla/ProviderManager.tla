-------------------------- MODULE ProviderManager --------------------------
(***************************************************************************)
(* provider.Manager: the provider cache and the janitor that cleans it.    *)
(* They meet in Cleanup, which any goroutine may call and which the        *)
(* janitor calls on every tick.                                            *)
(***************************************************************************)
EXTENDS ProviderCache, Janitor

vars == <<cacheVars, janitorVars>>

Init == CacheInit /\ JanitorInit

ManualCleanup == Cleanup /\ UNCHANGED janitorVars

JanitorCleanup(j) == JanitorTick(j) /\ Cleanup

Next == \/ CacheStep /\ UNCHANGED janitorVars
        \/ JanitorStep /\ UNCHANGED cacheVars
        \/ ManualCleanup
        \/ \E j \in Janitors : JanitorCleanup(j)

(* The Go scheduler runs every goroutine that can take a step.  Nothing    *)
(* makes a caller start an operation, a context end or the clock advance.  *)
Fairness == /\ \A o \in Stoppers : WF_vars((StopWaited(o) \/ StopReset(o)) /\ UNCHANGED cacheVars)
            /\ \A j \in Janitors : WF_vars(JanitorExits(j) /\ UNCHANGED cacheVars)

Spec == Init /\ [][Next]_vars

FairSpec == Spec /\ Fairness

TypeOK == CacheTypeOK /\ JanitorTypeOK
============================================================================
