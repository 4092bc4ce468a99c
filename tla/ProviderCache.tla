--------------------------- MODULE ProviderCache ---------------------------
(***************************************************************************)
(* The provider cache of provider/manager.go: a map from cache key to a    *)
(* provider instance and its creation time, mirrored by an LRU list that   *)
(* bounds its size.                                                        *)
(*                                                                         *)
(* Manager.Get is not one critical section.  A caller looks up under the   *)
(* read lock, refreshes the LRU list or builds a new provider with no lock *)
(* held, and installs what it built under the write lock after a second    *)
(* look.  Each of those is an action here, so other callers, Remove,       *)
(* Purge, Cleanup and the clock run between them.  A section under the     *)
(* write lock is one action: the LRU list has a lock of its own, but only  *)
(* the refresh of a hit reaches it without the write lock, and it commutes *)
(* with what a write section does to the list.                             *)
(*                                                                         *)
(* The list is kept as the set of tracked keys and the pairs <<a, b>> of   *)
(* keys such that a was used less recently than b.  The hit, miss and      *)
(* eviction counters are left out.                                         *)
(***************************************************************************)
EXTENDS Naturals, FiniteSets

CONSTANTS
    Keys,      \* cache keys: platform, base URL, token hash, SkipTLS (buildKey)
    Callers,   \* goroutines that call Get
    TTL,       \* Manager.ttl in clock ticks, 0 = entries never expire
    MaxSize,   \* Manager.maxSize, 0 = unlimited
    MaxTime,   \* bound on the clock
    MaxInst    \* bound on the number of providers ever built

ASSUME CacheAssumption ==
    /\ Keys # {} /\ IsFiniteSet(Keys)
    /\ TTL \in Nat
    /\ MaxSize \in Nat
    /\ MaxTime \in Nat
    /\ MaxInst \in Nat

VARIABLES
    providers, \* Manager.providers: key -> entry, Absent when not in the map
    tracked,   \* the keys in Manager.order
    older,     \* the recency order of Manager.order
    call,      \* per caller: where it is in Get, the locals it holds, its result
    now,       \* the clock
    built,     \* number of providers built; instance i is the i-th
    dropped    \* history: instances that were in the map and no longer are

cacheVars == <<providers, tracked, older, call, now, built, dropped>>

NoInst == 0                     \* a nil Provider
Instances == 1..MaxInst
Entry == [inst : Instances, createdAt : 0..MaxTime]
Absent == [inst |-> NoInst, createdAt |-> 0]

(* pc: "idle" between calls, inst then being what the last Get returned;   *)
(* "touch" after a hit, "build" after a miss, "install" with a provider    *)
(* built and the clock read.                                               *)
Call == [pc : {"idle", "touch", "build", "install"},
         key : Keys,
         inst : Instances \cup {NoInst},
         at : 0..MaxTime]

Cached == {k \in Keys : providers[k] # Absent}
Live == {providers[k].inst : k \in Cached}

(* The test Get makes at both looks.                                       *)
Fresh(k) == /\ providers[k] # Absent
            /\ TTL = 0 \/ now - providers[k].createdAt < TTL

(* Cleanup's test: createdAt.Before(now - ttl).                            *)
Expired(k) == /\ providers[k] # Absent
              /\ now - providers[k].createdAt > TTL

(* What leaves the map with a new content of it joins the history.         *)
Forget(keep) == dropped' = dropped \cup (Live \ {keep[k].inst : k \in Keys})

----------------------------------------------------------------------------
(* The golang-lru list, as the Manager uses it.                            *)

OldestTracked == {v \in tracked : \A u \in tracked \ {v} : <<v, u>> \in older}

(* The recency order of the keys in T, and the same with k most recent.    *)
OrderOf(T) == {p \in older : p[1] \in T /\ p[2] \in T}
OrderWithLast(T, k) == OrderOf(T) \cup (T \X {k})

LruRemove(S) == /\ tracked' = tracked \ S
                /\ older' = OrderOf(tracked \ S)

(* Get of the list moves a tracked key to the recent end.                  *)
LruTouch(k) ==
    /\ UNCHANGED tracked
    /\ older' = IF k \in tracked THEN OrderWithLast(tracked \ {k}, k) ELSE older

(* RemoveOldest of the victims, then Add of k.                             *)
LruReplace(victims, k) ==
    LET kept == tracked \ (victims \cup {k})
    IN  /\ tracked' = kept \cup {k}
        /\ older' = OrderWithLast(kept, k)

(* Mutant: the loop compares with > and so makes no room.                  *)
VictimSetsOffByOne == IF MaxSize = 0 \/ Cardinality(tracked) <= MaxSize
                      THEN {{}}
                      ELSE {{v} : v \in OldestTracked}

(* The eviction loop of Get.  The list never holds more than MaxSize keys  *)
(* (SizeBound), so the loop runs at most once.                             *)
VictimSets == IF MaxSize = 0 \/ Cardinality(tracked) < MaxSize
              THEN {{}}
              ELSE {{v} : v \in OldestTracked}

----------------------------------------------------------------------------
CacheInit ==
    /\ providers = [k \in Keys |-> Absent]
    /\ tracked = {}
    /\ older = {}
    /\ \E k \in Keys :   \* of no meaning before the first Get
          call = [c \in Callers |-> [pc |-> "idle", key |-> k, inst |-> NoInst, at |-> 0]]
    /\ now = 0
    /\ built = 0
    /\ dropped = {}

(* Get, first look: a fresh entry is a hit.                                *)
Lookup(c, k) ==
    /\ call[c].pc = "idle"
    /\ call' = [call EXCEPT ![c] =
                  [pc |-> IF Fresh(k) THEN "touch" ELSE "build",
                   key |-> k,
                   inst |-> IF Fresh(k) THEN providers[k].inst ELSE NoInst,
                   at |-> 0]]
    /\ UNCHANGED <<providers, tracked, older, now, built, dropped>>

(* Mutant: the hit writes its entry back with a new time (a sliding TTL)   *)
(* after the read lock was released.                                       *)
TouchWritesBack(c) ==
    /\ call[c].pc = "touch"
    /\ call' = [call EXCEPT ![c].pc = "idle"]
    /\ LruTouch(call[c].key)
    /\ providers' = [providers EXCEPT ![call[c].key] =
                        [inst |-> call[c].inst, createdAt |-> now]]
    /\ UNCHANGED <<now, built, dropped>>

(* Get, hit: the recency refresh, then return.  The entry may be gone.     *)
Touch(c) ==
    /\ call[c].pc = "touch"
    /\ call' = [call EXCEPT ![c].pc = "idle"]
    /\ LruTouch(call[c].key)
    /\ UNCHANGED <<providers, now, built, dropped>>

(* Get, miss: NewProvider fails and Get returns its error.                 *)
BuildFails(c) ==
    /\ call[c].pc = "build"
    /\ call' = [call EXCEPT ![c].pc = "idle"]
    /\ UNCHANGED <<providers, tracked, older, now, built, dropped>>

(* Get, miss: NewProvider succeeds and the clock is read.                  *)
Build(c) ==
    /\ call[c].pc = "build"
    /\ built < MaxInst
    /\ built' = built + 1
    /\ call' = [call EXCEPT ![c].pc = "install", ![c].inst = built + 1, ![c].at = now]
    /\ UNCHANGED <<providers, tracked, older, now, dropped>>

(* Mutant: the loser of the race returns the instance it built itself.     *)
InstallLostKeepsOwn(c) ==
    /\ call[c].pc = "install"
    /\ Fresh(call[c].key)
    /\ call' = [call EXCEPT ![c].pc = "idle", ![c].at = 0]
    /\ UNCHANGED <<providers, tracked, older, now, built, dropped>>

(* Get, second look: a racing caller installed first; its instance is      *)
(* returned and the one built here is discarded.                           *)
InstallLost(c) ==
    /\ call[c].pc = "install"
    /\ Fresh(call[c].key)
    /\ call' = [call EXCEPT ![c].pc = "idle", ![c].inst = providers[call[c].key].inst,
                            ![c].at = 0]
    /\ UNCHANGED <<providers, tracked, older, now, built, dropped>>

(* Mutant: no second look before the insertion.                            *)
InstallUnchecked(c) ==
    LET k == call[c].key
        e == [inst |-> call[c].inst, createdAt |-> call[c].at]
    IN  /\ call[c].pc = "install"
        /\ \E victims \in VictimSets :
              /\ providers' = [x \in Keys |-> IF x = k THEN e
                                              ELSE IF x \in victims THEN Absent
                                              ELSE providers[x]]
              /\ IF MaxSize > 0 THEN LruReplace(victims, k) ELSE UNCHANGED <<tracked, older>>
        /\ Forget(providers')
        /\ call' = [call EXCEPT ![c].pc = "idle", ![c].at = 0]
        /\ UNCHANGED <<now, built>>

(* Get, second look: evict for room and insert what was built.             *)
InstallNew(c) ==
    LET k == call[c].key
        e == [inst |-> call[c].inst, createdAt |-> call[c].at]
    IN  /\ call[c].pc = "install"
        /\ ~Fresh(k)
        /\ \E victims \in VictimSets :
              /\ providers' = [x \in Keys |-> IF x = k THEN e
                                              ELSE IF x \in victims THEN Absent
                                              ELSE providers[x]]
              /\ IF MaxSize > 0 THEN LruReplace(victims, k) ELSE UNCHANGED <<tracked, older>>
        /\ Forget(providers')
        /\ call' = [call EXCEPT ![c].pc = "idle", ![c].at = 0]
        /\ UNCHANGED <<now, built>>

(* Mutant: the list is not told of the deletion.                           *)
DeleteFromMapOnly(S) ==
    /\ providers' = [x \in Keys |-> IF x \in S THEN Absent ELSE providers[x]]
    /\ Forget(providers')
    /\ UNCHANGED <<tracked, older, call, now, built>>

(* Delete a set of entries from the map and the list: Remove, Purge and    *)
(* Cleanup differ in the set.                                              *)
Delete(S) ==
    /\ providers' = [x \in Keys |-> IF x \in S THEN Absent ELSE providers[x]]
    /\ LruRemove(S)
    /\ Forget(providers')
    /\ UNCHANGED <<call, now, built>>

Remove(k) == Delete({k})

Purge == Delete(Keys)

Cleanup == TTL # 0 /\ Delete({k \in Keys : Expired(k)})

Tick ==
    /\ now < MaxTime
    /\ now' = now + 1
    /\ UNCHANGED <<providers, tracked, older, call, built, dropped>>

GetStep(c) == \/ \E k \in Keys : Lookup(c, k)
              \/ Touch(c)
              \/ BuildFails(c)
              \/ Build(c)
              \/ InstallLost(c)
              \/ InstallNew(c)

(* Everything but Cleanup, which is also the janitor's.                    *)
CacheStep == \/ \E c \in Callers : GetStep(c)
             \/ \E k \in Keys : Remove(k)
             \/ Purge
             \/ Tick

----------------------------------------------------------------------------
CacheTypeOK ==
    /\ providers \in [Keys -> Entry \cup {Absent}]
    /\ tracked \in SUBSET Keys
    /\ older \in SUBSET (Keys \X Keys)
    /\ call \in [Callers -> Call]
    /\ \A c \in Callers : call[c].pc \in {"touch", "install"} => call[c].inst # NoInst
    /\ now \in 0..MaxTime
    /\ built \in 0..MaxInst
    /\ dropped \in SUBSET Instances

StrictTotalOrder(R, S) ==
    /\ R \subseteq S \X S
    /\ \A a, b \in S : <<a, b>> \in R => <<b, a>> \notin R
    /\ \A a, b \in S : a # b => <<a, b>> \in R \/ <<b, a>> \in R
    /\ \A a, b, c \in S : <<a, b>> \in R /\ <<b, c>> \in R => <<a, c>> \in R

(* The LRU list tracks exactly the cached keys when a size is set, and     *)
(* nothing otherwise; it holds each once, in one order of recency.         *)
OrderMirrorsMap ==
    /\ tracked = IF MaxSize = 0 THEN {} ELSE Cached
    /\ StrictTotalOrder(older, tracked)

(* The cache never holds more than maxSize entries (WithMaxSize).          *)
SizeBound == MaxSize > 0 => Cardinality(Cached) <= MaxSize

(* An instance that was evicted, removed, purged, expired or replaced      *)
(* never comes back into the cache: no step of a Get that began before     *)
(* writes an old entry back.                                               *)
NoResurrection == Live \cap dropped = {}

(* Callers whose Gets returned an instance for the same key share it, as   *)
(* long as neither instance was dropped: racing misses do not leave two    *)
(* instances of one key in use, and no key is served another's instance.   *)
SharedInstance ==
    \A c, d \in Callers :
       LET x == call[c]
           y == call[d]
       IN  /\ x.pc = "idle" /\ x.inst # NoInst /\ x.inst \notin dropped
           /\ y.pc = "idle" /\ y.inst # NoInst /\ y.inst \notin dropped
           => (x.key = y.key <=> x.inst = y.inst)

(* A fresh entry is replaced by nothing: while it stays in the map it      *)
(* keeps its instance, whatever was built concurrently for its key.        *)
FreshKept ==
    [][\A k \in Keys : Fresh(k) /\ providers'[k] # Absent => providers'[k] = providers[k]]_cacheVars
============================================================================
