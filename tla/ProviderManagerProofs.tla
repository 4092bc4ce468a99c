----------------------- MODULE ProviderManagerProofs -----------------------
(***************************************************************************)
(* Proofs about ProviderManager, for all sets of keys and callers, every   *)
(* TTL and size, and all bounds on the clock, providers and janitors.      *)
(***************************************************************************)
EXTENDS ProviderManager, TLAPS, FiniteSetTheorems

----------------------------------------------------------------------------
(* Type correctness of the cache.                                          *)

LEMMA CacheTypeInit == CacheInit => CacheTypeOK
BY CacheAssumption DEF CacheInit, CacheTypeOK, Call, Absent, NoInst

(* The operations that empty entries.                                      *)
LEMMA CacheTypeDelete ==
    ASSUME CacheTypeOK, NEW S, Delete(S)
    PROVE  CacheTypeOK'
BY CacheAssumption DEF CacheTypeOK, Delete, LruRemove, OrderOf, Forget, Live, Cached, Entry, Absent,
   NoInst, Instances

LEMMA CacheTypeGet ==
    ASSUME CacheTypeOK, NEW c \in Callers, GetStep(c)
    PROVE  CacheTypeOK'
<1> USE CacheAssumption DEF CacheTypeOK, Entry, Absent, NoInst, Instances
<1> DEFINE cl == call[c]
<1>0. /\ cl \in Call
      /\ cl.key \in Keys /\ cl.inst \in 0..MaxInst /\ cl.at \in 0..MaxTime
      /\ cl.pc \in {"touch", "install"} => cl.inst \in 1..MaxInst
  BY DEF Call
<1>1. ASSUME NEW k \in Keys, Lookup(c, k) PROVE CacheTypeOK'
  <2>1. Fresh(k) => providers[k].inst \in Instances
    BY DEF Fresh
  <2>2. /\ call'[c] \in Call
        /\ call'[c].pc \in {"touch", "install"} => call'[c].inst # NoInst
    BY <1>1, <2>1 DEF Lookup, Call
  <2> QED BY <1>1, <2>2 DEF Lookup
<1>2. CASE Touch(c)
  <2>1. call' \in [Callers -> Call]
    BY <1>2, <1>0 DEF Touch, Call
  <2> QED BY <1>2, <2>1, <1>0 DEF Touch, LruTouch, OrderOf, OrderWithLast
<1>3. CASE BuildFails(c)
  BY <1>3 DEF BuildFails, Call
<1>4. CASE Build(c)
  <2>1. built' \in 0..MaxInst /\ built' \in 1..MaxInst
    BY <1>4 DEF Build
  <2>2. call'[c] = [pc |-> "install", key |-> cl.key, inst |-> built', at |-> now]
    BY <1>4, <1>0 DEF Build, Call
  <2>3. call'[c] \in Call /\ call'[c].inst # NoInst
    BY <1>0, <2>1, <2>2 DEF Call
  <2>4. call' \in [Callers -> Call]
    BY <1>4, <2>3 DEF Build
  <2>5. \A d \in Callers : d # c => call'[d] = call[d]
    BY <1>4 DEF Build
  <2> QED BY <1>4, <2>1, <2>3, <2>4, <2>5 DEF Build
<1>5. CASE InstallLost(c)
  <2>1. providers[cl.key].inst \in Instances
    BY <1>5, <1>0 DEF InstallLost, Fresh
  <2>2. call'[c] = [pc |-> "idle", key |-> cl.key, inst |-> providers[cl.key].inst, at |-> 0]
    BY <1>5, <1>0 DEF InstallLost, Call
  <2>3. call'[c] \in Call
    BY <2>1, <2>2, <1>0 DEF Call
  <2> QED BY <1>5, <2>2, <2>3 DEF InstallLost
<1>6. CASE InstallNew(c)
  <2>1. call'[c] = [pc |-> "idle", key |-> cl.key, inst |-> cl.inst, at |-> 0]
    BY <1>6, <1>0 DEF InstallNew, Call
  <2>2. call'[c] \in Call /\ call'[c].pc = "idle"
    BY <2>1, <1>0 DEF Call
  <2>3. call' \in [Callers -> Call] /\ \A d \in Callers : d # c => call'[d] = call[d]
    BY <1>6, <2>2 DEF InstallNew
  <2>4. [inst |-> cl.inst, createdAt |-> cl.at] \in Entry
    BY <1>6, <1>0 DEF InstallNew
  <2>5. providers' \in [Keys -> Entry \cup {Absent}]
    BY <1>6, <2>4 DEF InstallNew
  <2>6. tracked' \in SUBSET Keys /\ older' \in SUBSET (Keys \X Keys)
    BY <1>6, <1>0 DEF InstallNew, LruReplace, OrderOf, OrderWithLast
  <2>7. dropped' \in SUBSET Instances
    BY <1>6 DEF InstallNew, Forget, Live, Cached
  <2> QED BY <1>6, <2>2, <2>3, <2>5, <2>6, <2>7 DEF InstallNew
<1> QED BY <1>1, <1>2, <1>3, <1>4, <1>5, <1>6 DEF GetStep

LEMMA CacheTypeStep == CacheTypeOK /\ [Next]_vars => CacheTypeOK'
<1> SUFFICES ASSUME CacheTypeOK, [Next]_vars PROVE CacheTypeOK'
  OBVIOUS
<1> USE CacheAssumption
<1>1. ASSUME NEW c \in Callers, GetStep(c) PROVE CacheTypeOK'
  BY <1>1, CacheTypeGet
<1>2. ASSUME NEW k \in Keys, Remove(k) PROVE CacheTypeOK'
  BY <1>2, CacheTypeDelete DEF Remove
<1>3. CASE Purge
  BY <1>3, CacheTypeDelete DEF Purge
<1>4. CASE Cleanup
  BY <1>4, CacheTypeDelete DEF Cleanup
<1>5. CASE Tick
  BY <1>5 DEF Tick, CacheTypeOK
<1>6. CASE UNCHANGED cacheVars
  BY <1>6 DEF cacheVars, CacheTypeOK
<1> QED BY <1>1, <1>2, <1>3, <1>4, <1>5, <1>6
        DEF Next, CacheStep, ManualCleanup, JanitorCleanup, vars

(* Every reachable state of the cache has its type; in particular a caller *)
(* that returns a hit or installs always holds a provider.                 *)
THEOREM CacheTypeCorrect == Spec => []CacheTypeOK
<1>1. Init => CacheTypeOK
  BY CacheTypeInit DEF Init
<1> QED BY <1>1, CacheTypeStep, PTL DEF Spec
----------------------------------------------------------------------------
(* The list mirrors the map.                                               *)

LEMMA OrderOfSubset ==
    ASSUME NEW S, NEW T \in SUBSET S, StrictTotalOrder(older, S)
    PROVE  StrictTotalOrder(OrderOf(T), T)
<1>1. OrderOf(T) \subseteq T \X T
  BY DEF OrderOf, StrictTotalOrder
<1>2. \A a, b \in T : <<a, b>> \in OrderOf(T) <=> <<a, b>> \in older
  BY DEF OrderOf
<1> QED BY <1>1, <1>2 DEF StrictTotalOrder

LEMMA OrderWithLastOrder ==
    ASSUME NEW S, NEW T \in SUBSET S, NEW k, k \notin T, StrictTotalOrder(older, S)
    PROVE  StrictTotalOrder(OrderWithLast(T, k), T \cup {k})
<1> DEFINE R == OrderWithLast(T, k)
<1>1. StrictTotalOrder(OrderOf(T), T)
  BY OrderOfSubset
<1>2. R \subseteq (T \cup {k}) \X (T \cup {k})
  BY <1>1 DEF OrderWithLast, StrictTotalOrder
<1>3. \A a, b \in T : <<a, b>> \in R <=> <<a, b>> \in OrderOf(T)
  BY DEF OrderWithLast
<1>4. \A a \in T : <<a, k>> \in R
  BY DEF OrderWithLast
<1>5. \A b \in T \cup {k} : <<k, b>> \notin R
  BY <1>1 DEF OrderWithLast, StrictTotalOrder
<1> QED BY <1>1, <1>2, <1>3, <1>4, <1>5 DEF StrictTotalOrder

LEMMA OrderStep ==
    CacheTypeOK /\ OrderMirrorsMap /\ [Next]_vars => OrderMirrorsMap'
<1> SUFFICES ASSUME CacheTypeOK, OrderMirrorsMap, [Next]_vars PROVE OrderMirrorsMap'
  OBVIOUS
<1> USE CacheAssumption
<1>1. ASSUME NEW S \in SUBSET Keys, Delete(S) PROVE OrderMirrorsMap'
  <2>1. Cached' = Cached \ S
    BY <1>1 DEF Delete, Cached
  <2>2. tracked' = IF MaxSize = 0 THEN {} ELSE Cached'
    BY <1>1, <2>1 DEF Delete, LruRemove, OrderMirrorsMap
  <2>3. StrictTotalOrder(older', tracked')
    BY <1>1, OrderOfSubset DEF Delete, LruRemove, OrderMirrorsMap
  <2> QED BY <2>2, <2>3 DEF OrderMirrorsMap
<1>2. ASSUME NEW c \in Callers, Touch(c) PROVE OrderMirrorsMap'
  <2> DEFINE k == call[c].key
  <2>1. CASE k \in tracked
    <3>1. (tracked \ {k}) \cup {k} = tracked
      BY <2>1
    <3>2. StrictTotalOrder(older', tracked)
      BY <1>2, <2>1, <3>1, OrderWithLastOrder DEF Touch, LruTouch, OrderMirrorsMap
    <3> QED BY <1>2, <3>2 DEF Touch, LruTouch, OrderMirrorsMap, Cached
  <2>2. CASE k \notin tracked
    BY <1>2, <2>2 DEF Touch, LruTouch, OrderMirrorsMap, Cached
  <2> QED BY <2>1, <2>2
<1>3. ASSUME NEW c \in Callers, InstallNew(c) PROVE OrderMirrorsMap'
  <2> DEFINE k == call[c].key
             e == [inst |-> call[c].inst, createdAt |-> call[c].at]
  <2>1. k \in Keys /\ e # Absent
    BY <1>3 DEF InstallNew, CacheTypeOK, Call, Absent, NoInst
  <2>2. PICK victims \in VictimSets :
           /\ providers' = [x \in Keys |-> IF x = k THEN e
                                            ELSE IF x \in victims THEN Absent
                                            ELSE providers[x]]
           /\ IF MaxSize > 0 THEN LruReplace(victims, k) ELSE UNCHANGED <<tracked, older>>
    BY <1>3 DEF InstallNew
  <2>3. Cached' = (Cached \ victims) \cup {k}
    BY <2>1, <2>2 DEF Cached
  <2>4. CASE MaxSize = 0
    BY <2>2, <2>4 DEF OrderMirrorsMap
  <2>5. CASE MaxSize > 0
    <3> DEFINE kept == tracked \ (victims \cup {k})
    <3>1. tracked' = kept \cup {k} /\ older' = OrderWithLast(kept, k)
      BY <2>2, <2>5 DEF LruReplace
    <3>2. StrictTotalOrder(older', tracked')
      BY <3>1, OrderWithLastOrder DEF OrderMirrorsMap
    <3>3. tracked' = Cached'
      BY <2>3, <2>5, <3>1 DEF OrderMirrorsMap
    <3> QED BY <2>5, <3>2, <3>3 DEF OrderMirrorsMap
  <2> QED BY <2>4, <2>5
<1>4. ASSUME UNCHANGED <<providers, tracked, older>> PROVE OrderMirrorsMap'
  BY <1>4 DEF OrderMirrorsMap, Cached
<1>5. ASSUME NEW c \in Callers, GetStep(c) PROVE OrderMirrorsMap'
  BY <1>2, <1>3, <1>4, <1>5 DEF GetStep, Lookup, BuildFails, Build, InstallLost
<1>6. CASE CacheStep
  BY <1>1, <1>4, <1>5, <1>6 DEF CacheStep, Remove, Purge, Tick
<1>7. CASE Cleanup
  BY <1>1, <1>7 DEF Cleanup
<1> QED BY <1>4, <1>6, <1>7 DEF Next, ManualCleanup, JanitorCleanup, vars, cacheVars

(* The comment on Manager.order: its values mirror the key set of          *)
(* providers, through every interleaving of hits, misses and deletions.    *)
THEOREM OrderCorrect == Spec => []OrderMirrorsMap
<1>1. Init => OrderMirrorsMap
  BY DEF Init, CacheInit, OrderMirrorsMap, Cached, StrictTotalOrder
<1> QED BY <1>1, OrderStep, CacheTypeCorrect, PTL DEF Spec

----------------------------------------------------------------------------
(* The size bound.                                                         *)

LEMMA SizeStep ==
    CacheTypeOK /\ OrderMirrorsMap /\ SizeBound /\ [Next]_vars => SizeBound'
<1> SUFFICES ASSUME CacheTypeOK, OrderMirrorsMap, SizeBound, [Next]_vars, MaxSize > 0
             PROVE  Cardinality(Cached') <= MaxSize
  BY DEF SizeBound
<1>0. /\ IsFiniteSet(Cached) /\ Cardinality(Cached) \in Nat
      /\ Cardinality(Cached) <= MaxSize /\ MaxSize \in Nat
      /\ tracked = Cached
  BY CacheAssumption, FS_Subset, FS_CardinalityType DEF Cached, SizeBound, OrderMirrorsMap
<1>1. ASSUME Cached' \subseteq Cached PROVE Cardinality(Cached') <= MaxSize
  BY <1>0, <1>1, FS_Subset, FS_CardinalityType
<1>2. ASSUME NEW S, Delete(S) PROVE Cardinality(Cached') <= MaxSize
  BY <1>1, <1>2 DEF Delete, Cached
<1>3. ASSUME NEW c \in Callers, InstallNew(c) PROVE Cardinality(Cached') <= MaxSize
  <2> DEFINE k == call[c].key
  <2>1. PICK victims \in VictimSets :
           providers' = [x \in Keys |-> IF x = k
                                        THEN [inst |-> call[c].inst, createdAt |-> call[c].at]
                                        ELSE IF x \in victims THEN Absent
                                        ELSE providers[x]]
    BY <1>3 DEF InstallNew
  <2>2. Cached' \subseteq (Cached \ victims) \cup {k}
    BY <2>1 DEF Cached
  <2>3. Cardinality(Cached \ victims) \in Nat /\ Cardinality(Cached \ victims) < MaxSize
        /\ IsFiniteSet(Cached \ victims)
    <3>1. CASE victims = {} /\ Cardinality(tracked) < MaxSize
      BY <1>0, <3>1
    <3>2. ASSUME NEW v \in tracked, victims = {v}
          PROVE  /\ IsFiniteSet(Cached \ victims)
                 /\ Cardinality(Cached \ victims) = Cardinality(Cached) - 1
      BY <1>0, <3>2, FS_RemoveElement
    <3>3. CASE \E v \in tracked : victims = {v}
      <4>1. /\ IsFiniteSet(Cached \ victims)
            /\ Cardinality(Cached \ victims) = Cardinality(Cached) - 1
        BY <3>2, <3>3
      <4>2. Cardinality(Cached \ victims) \in Nat
        BY <4>1, FS_CardinalityType
      <4> QED BY <1>0, <4>1, <4>2
    <3>4. \/ victims = {} /\ Cardinality(tracked) < MaxSize
          \/ \E v \in tracked : victims = {v}
      BY <1>0 DEF VictimSets, OldestTracked
    <3> QED BY <3>1, <3>3, <3>4
  <2>4. /\ IsFiniteSet((Cached \ victims) \cup {k})
        /\ Cardinality((Cached \ victims) \cup {k}) <= MaxSize
    <3> DEFINE A == Cached \ victims
    <3> HIDE DEF A
    <3>1. /\ IsFiniteSet(A \cup {k})
          /\ Cardinality(A \cup {k}) = IF k \in A THEN Cardinality(A) ELSE Cardinality(A) + 1
      BY <2>3, FS_AddElement DEF A
    <3> QED BY <1>0, <2>3, <3>1 DEF A
  <2> QED BY <1>0, <2>2, <2>4, FS_Subset, FS_CardinalityType
<1>4. ASSUME UNCHANGED providers PROVE Cardinality(Cached') <= MaxSize
  BY <1>1, <1>4 DEF Cached
<1>5. ASSUME NEW c \in Callers, GetStep(c) PROVE Cardinality(Cached') <= MaxSize
  BY <1>3, <1>4, <1>5 DEF GetStep, Lookup, Touch, BuildFails, Build, InstallLost
<1>6. CASE CacheStep
  BY <1>2, <1>4, <1>5, <1>6 DEF CacheStep, Remove, Purge, Tick
<1>7. CASE Cleanup
  BY <1>2, <1>7 DEF Cleanup
<1> QED BY <1>4, <1>6, <1>7 DEF Next, ManualCleanup, JanitorCleanup, vars, cacheVars

(* WithMaxSize: the cache never holds more entries than its size.          *)
THEOREM SizeCorrect == Spec => []SizeBound
<1>1. Init => SizeBound
  <2>1. Init => Cached = {}
    BY DEF Init, CacheInit, Cached
  <2> QED BY <2>1, CacheAssumption, FS_EmptySet DEF SizeBound
<1> QED BY <1>1, SizeStep, CacheTypeCorrect, OrderCorrect, PTL DEF Spec

----------------------------------------------------------------------------
(* Instances.  An instance is built once, held by one caller until it is   *)
(* installed, installed once, and dropped for good.                        *)

Held(c) == call[c].inst

InstInv ==
    /\ Live \cup dropped \subseteq 1..built
    /\ Live \cap dropped = {}
    /\ \A k, l \in Cached : providers[k].inst = providers[l].inst => k = l
    /\ \A c \in Callers : Held(c) <= built
    /\ \A c \in Callers : call[c].pc = "install" =>
          /\ Held(c) \notin Live \cup dropped
          /\ \A d \in Callers \ {c} : Held(d) # Held(c)
    /\ \A c \in Callers : call[c].pc # "install" /\ Held(c) # NoInst =>
          \/ Held(c) \in dropped
          \/ providers[call[c].key] # Absent /\ providers[call[c].key].inst = Held(c)

(* What a change of the map does to the instances when no caller moves and *)
(* nothing new is installed.                                               *)
LEMMA InstDelete ==
    ASSUME CacheTypeOK, InstInv, NEW S, Delete(S)
    PROVE  InstInv'
<1>1. /\ providers' = [x \in Keys |-> IF x \in S THEN Absent ELSE providers[x]]
      /\ call' = call /\ built' = built
      /\ dropped' = dropped \cup (Live \ {providers'[k].inst : k \in Keys})
  BY DEF Delete, Forget
<1>2. /\ Cached' = Cached \ S
      /\ \A k \in Cached' : providers'[k] = providers[k]
  BY <1>1 DEF Cached
<1>3. Live' \subseteq Live
  BY <1>2 DEF Live
<1>4. dropped' \subseteq dropped \cup Live /\ dropped \subseteq dropped'
  BY <1>1
<1>5. Live' \cap dropped' = {}
  BY <1>1, <1>2, <1>3 DEF Live, InstInv, Cached
<1>6. ASSUME NEW k \in Keys, providers[k] # Absent, providers'[k] = Absent
      PROVE  providers[k].inst \in dropped'
  <2>1. \A l \in Keys : providers'[l].inst # providers[k].inst
    BY <1>1, <1>2, <1>6 DEF InstInv, Cached, CacheTypeOK, Entry, Absent, NoInst, Instances
  <2> QED BY <1>1, <1>6, <2>1 DEF Live, Cached
<1>7. ASSUME NEW c \in Callers, call[c].pc # "install", Held(c) # NoInst, Held(c) \notin dropped'
      PROVE  providers'[call[c].key] # Absent /\ providers'[call[c].key].inst = Held(c)
  <2>1. call[c].key \in Keys
    BY DEF CacheTypeOK, Call
  <2> QED BY <1>1, <1>4, <1>6, <1>7, <2>1 DEF InstInv
<1> QED BY <1>1, <1>2, <1>3, <1>4, <1>5, <1>7 DEF InstInv, Held

LEMMA InstStep ==
    CacheTypeOK /\ InstInv /\ [Next]_vars => InstInv'
<1> SUFFICES ASSUME CacheTypeOK, InstInv, [Next]_vars PROVE InstInv'
  OBVIOUS
<1>t. /\ built \in Nat /\ built \in 0..MaxInst /\ MaxInst \in Nat
      /\ \A c \in Callers : call[c] \in Call /\ call[c].key \in Keys /\ Held(c) \in Nat
  BY CacheAssumption DEF CacheTypeOK, Call, Held, Instances, NoInst
<1>1. ASSUME NEW c \in Callers, NEW k \in Keys, Lookup(c, k) PROVE InstInv'
  <2>1. /\ Live' = Live /\ Cached' = Cached
        /\ UNCHANGED <<providers, dropped, built>>
    BY <1>1 DEF Lookup, Live, Cached
  <2>2. /\ \A d \in Callers \ {c} : call'[d] = call[d]
        /\ call'[c].pc # "install" /\ call'[c].key = k
        /\ call'[c].inst = IF Fresh(k) THEN providers[k].inst ELSE NoInst
    BY <1>1 DEF Lookup, CacheTypeOK
  <2>3. Fresh(k) => providers[k].inst \in Live /\ providers[k] # Absent
    BY DEF Fresh, Live, Cached
  <2>4. Held(c)' <= built
    BY <2>2, <2>3, <1>t DEF Held, InstInv, NoInst
  <2>5. ASSUME NEW d \in Callers, call'[d].pc = "install"
        PROVE  /\ Held(d)' \notin Live \cup dropped
               /\ \A x \in Callers \ {d} : Held(x)' # Held(d)'
    <3>1. d # c /\ call'[d] = call[d] /\ call[d].pc = "install"
      BY <2>2, <2>5
    <3>2. Held(d) # NoInst
      BY <3>1 DEF CacheTypeOK, Held
    <3> QED BY <2>2, <2>3, <3>1, <3>2 DEF InstInv, Held
  <2> QED BY <2>1, <2>2, <2>3, <2>4, <2>5 DEF InstInv, Held
<1>2. ASSUME NEW c \in Callers, Touch(c) \/ BuildFails(c) PROVE InstInv'
  <2>1. /\ Live' = Live /\ Cached' = Cached
        /\ UNCHANGED <<providers, dropped, built>>
    BY <1>2 DEF Touch, BuildFails, Live, Cached
  <2>2. /\ call[c].pc # "install" /\ call'[c].pc = "idle"
        /\ \A d \in Callers : call'[d].key = call[d].key /\ call'[d].inst = call[d].inst
        /\ \A d \in Callers \ {c} : call'[d] = call[d]
    BY <1>2 DEF Touch, BuildFails, CacheTypeOK, Call
  <2> QED BY <2>1, <2>2 DEF InstInv, Held
<1>3. ASSUME NEW c \in Callers, Build(c) PROVE InstInv'
  <2>1. /\ Live' = Live /\ Cached' = Cached
        /\ UNCHANGED <<providers, dropped>> /\ built' = built + 1
    BY <1>3 DEF Build, Live, Cached
  <2>2. /\ call'[c].pc = "install" /\ call'[c].inst = built + 1
        /\ \A d \in Callers \ {c} : call'[d] = call[d]
    BY <1>3 DEF Build, CacheTypeOK, Call
  <2>3. built + 1 \notin Live \cup dropped
    BY <1>t DEF InstInv
  <2>4. \A d \in Callers : Held(d)' <= built'
    BY <2>1, <2>2, <1>t DEF InstInv, Held
  <2>5. \A d \in Callers \ {c} : Held(d)' # built + 1 /\ Held(d)' = Held(d)
    BY <2>2, <1>t DEF InstInv, Held
  <2>6. Live' \cup dropped' \subseteq 1..built'
    BY <2>1, <1>t DEF InstInv
  <2>7. ASSUME NEW d \in Callers, call'[d].pc = "install"
        PROVE  /\ Held(d)' \notin Live' \cup dropped'
               /\ \A x \in Callers \ {d} : Held(x)' # Held(d)'
    <3>1. CASE d = c
      BY <2>1, <2>2, <2>3, <2>5, <3>1 DEF Held
    <3>2. CASE d # c
      BY <2>1, <2>2, <2>5, <2>7, <3>2 DEF Held, InstInv
    <3> QED BY <3>1, <3>2
  <2>8. ASSUME NEW d \in Callers, call'[d].pc # "install", Held(d)' # NoInst
        PROVE  \/ Held(d)' \in dropped'
               \/ providers'[call'[d].key] # Absent /\ providers'[call'[d].key].inst = Held(d)'
    BY <2>1, <2>2, <2>8 DEF InstInv, Held
  <2> QED BY <2>1, <2>4, <2>6, <2>7, <2>8 DEF InstInv
<1>4. ASSUME NEW c \in Callers, InstallLost(c) PROVE InstInv'
  <2> DEFINE k == call[c].key
  <2>1. /\ Live' = Live /\ Cached' = Cached
        /\ UNCHANGED <<providers, dropped, built>>
    BY <1>4 DEF InstallLost, Live, Cached
  <2>2. /\ call'[c].pc = "idle" /\ call'[c].key = k /\ call'[c].inst = providers[k].inst
        /\ \A d \in Callers \ {c} : call'[d] = call[d]
    BY <1>4 DEF InstallLost, CacheTypeOK, Call
  <2>3. providers[k].inst \in Live /\ providers[k] # Absent
    BY <1>4, <1>t DEF InstallLost, Fresh, Live, Cached
  <2>4. Held(c)' <= built
    BY <2>2, <2>3, <1>t DEF Held, InstInv
  <2>5. ASSUME NEW d \in Callers, call'[d].pc = "install"
        PROVE  /\ Held(d)' \notin Live \cup dropped
               /\ \A x \in Callers \ {d} : Held(x)' # Held(d)'
    <3>1. d # c /\ call'[d] = call[d] /\ call[d].pc = "install"
      BY <2>2, <2>5
    <3> QED BY <2>2, <2>3, <3>1 DEF InstInv, Held
  <2> QED BY <2>1, <2>2, <2>3, <2>4, <2>5 DEF InstInv, Held
<1>5. ASSUME NEW c \in Callers, InstallNew(c) PROVE InstInv'
  <2> DEFINE k == call[c].key
             i == call[c].inst
             e == [inst |-> i, createdAt |-> call[c].at]
  <2>1. PICK victims \in VictimSets :
           providers' = [x \in Keys |-> IF x = k THEN e
                                        ELSE IF x \in victims THEN Absent
                                        ELSE providers[x]]
    BY <1>5 DEF InstallNew
  <2>2. /\ call[c].pc = "install" /\ k \in Keys /\ i # NoInst /\ e # Absent
        /\ i \notin Live \cup dropped /\ i \in 1..built
        /\ \A d \in Callers \ {c} : Held(d) # i
    BY <1>5, <1>t DEF InstallNew, InstInv, Held, CacheTypeOK, Absent, NoInst
  <2>3. /\ dropped' = dropped \cup (Live \ {providers'[x].inst : x \in Keys})
        /\ built' = built
        /\ call'[c].pc = "idle" /\ call'[c].key = k /\ call'[c].inst = i
        /\ \A d \in Callers \ {c} : call'[d] = call[d]
    BY <1>5 DEF InstallNew, Forget, CacheTypeOK, Call
  <2>4. providers'[k] = e /\ providers'[k].inst = i
    BY <2>1, <2>2
  <2>5. \A x \in Keys \ {k} : providers'[x] = providers[x] \/ providers'[x] = Absent
    BY <2>1
  <2>6. Live' \subseteq Live \cup {i}
    BY <2>4, <2>5 DEF Live, Cached
  <2>7. Live' \cap dropped' = {}
    <3>1. \A x \in Cached' : providers'[x].inst \notin dropped
      BY <2>2, <2>6 DEF InstInv, Live
    <3> QED BY <2>3, <3>1 DEF Live, Cached
  <2>8. \A x, y \in Cached' : providers'[x].inst = providers'[y].inst => x = y
    <3>1. \A x \in Cached' \ {k} : x \in Cached /\ providers'[x] = providers[x]
                                  /\ providers[x].inst \in Live
      BY <2>5 DEF Cached, Live
    <3> QED BY <2>2, <2>4, <3>1 DEF InstInv
  <2>9. Live' \cup dropped' \subseteq 1..built'
    BY <2>2, <2>3, <2>6 DEF InstInv
  <2>10. ASSUME NEW d \in Callers, call'[d].pc = "install"
         PROVE  /\ Held(d)' \notin Live' \cup dropped'
                /\ \A x \in Callers \ {d} : Held(x)' # Held(d)'
    <3>1. d # c /\ call'[d] = call[d] /\ call[d].pc = "install"
      BY <2>3, <2>10
    <3> QED BY <2>2, <2>3, <2>6, <3>1 DEF InstInv, Held
  <2>11. ASSUME NEW d \in Callers, call'[d].pc # "install", Held(d)' # NoInst
         PROVE  \/ Held(d)' \in dropped'
                \/ providers'[call'[d].key] # Absent /\ providers'[call'[d].key].inst = Held(d)'
    <3>1. CASE d = c
      BY <2>2, <2>3, <2>4, <3>1 DEF Held
    <3>2. CASE d # c
      <4>1. call'[d] = call[d] /\ Held(d)' = Held(d) /\ Held(d) # i
        BY <2>2, <2>3, <3>2 DEF Held
      <4>2. CASE Held(d) \in dropped
        BY <2>3, <4>1, <4>2
      <4>3. CASE providers[call[d].key] # Absent /\ providers[call[d].key].inst = Held(d)
        <5>1. Held(d) \in Live
          BY <1>t, <4>3 DEF Live, Cached
        <5>2. CASE \E x \in Keys : providers'[x].inst = Held(d)
          <6>1. PICK x \in Keys : providers'[x].inst = Held(d)
            BY <5>2
          <6>2. x # k /\ providers'[x] = providers[x] /\ x \in Cached
            BY <2>4, <2>5, <2>11, <4>1, <6>1 DEF Absent, Cached, NoInst
          <6>3. x = call[d].key
            BY <1>t, <4>3, <6>1, <6>2 DEF InstInv, Cached
          <6> QED BY <4>1, <4>3, <6>2, <6>3
        <5>3. CASE ~ \E x \in Keys : providers'[x].inst = Held(d)
          BY <2>3, <4>1, <5>1, <5>3
        <5> QED BY <5>2, <5>3
      <4> QED BY <2>11, <4>1, <4>2, <4>3 DEF InstInv, Held
    <3> QED BY <3>1, <3>2
  <2>12. \A d \in Callers : Held(d)' <= built'
    BY <2>3 DEF Held, InstInv
  <2> QED BY <2>7, <2>8, <2>9, <2>10, <2>11, <2>12 DEF InstInv
<1>6. ASSUME UNCHANGED <<providers, call, built, dropped>> PROVE InstInv'
  BY <1>6 DEF InstInv, Live, Cached, Held
<1>7. CASE CacheStep
  BY <1>1, <1>2, <1>3, <1>4, <1>5, <1>6, <1>7, InstDelete
     DEF CacheStep, GetStep, Remove, Purge, Tick
<1>8. CASE Cleanup
  BY <1>8, InstDelete DEF Cleanup
<1> QED BY <1>6, <1>7, <1>8 DEF Next, ManualCleanup, JanitorCleanup, vars, cacheVars

LEMMA InstCorrect == Spec => []InstInv
<1>1. Init => InstInv
  BY DEF Init, CacheInit, InstInv, Live, Cached, Held, NoInst
<1> QED BY <1>1, InstStep, CacheTypeCorrect, PTL DEF Spec

(* An instance that left the cache never comes back.                       *)
THEOREM NoResurrectionCorrect == Spec => []NoResurrection
<1>1. InstInv => NoResurrection
  BY DEF InstInv, NoResurrection
<1> QED BY <1>1, InstCorrect, PTL

(* Callers of one key share its instance while it is cached.               *)
THEOREM SharedInstanceCorrect == Spec => []SharedInstance
<1>1. CacheTypeOK /\ InstInv => SharedInstance
  BY DEF CacheTypeOK, Call, InstInv, SharedInstance, Held, Cached
<1> QED BY <1>1, CacheTypeCorrect, InstCorrect, PTL

----------------------------------------------------------------------------
(* A fresh entry is never overwritten.                                     *)

LEMMA FreshKeptStep ==
    ASSUME CacheTypeOK, [Next]_vars, NEW k \in Keys, Fresh(k), providers'[k] # Absent
    PROVE  providers'[k] = providers[k]
<1>1. ASSUME NEW S, Delete(S) PROVE providers'[k] = providers[k]
  BY <1>1 DEF Delete
<1>2. ASSUME NEW c \in Callers, InstallNew(c) PROVE providers'[k] = providers[k]
  BY <1>2 DEF InstallNew
<1>3. ASSUME UNCHANGED providers PROVE providers'[k] = providers[k]
  BY <1>3
<1>4. CASE CacheStep
  BY <1>1, <1>2, <1>3, <1>4 DEF CacheStep, GetStep, Lookup, Touch, BuildFails, Build,
     InstallLost, Remove, Purge, Tick
<1>5. CASE Cleanup
  BY <1>1, <1>5 DEF Cleanup
<1> QED BY <1>3, <1>4, <1>5 DEF Next, ManualCleanup, JanitorCleanup, vars, cacheVars

(* However many callers build for one key at once, the live entry keeps    *)
(* its instance until it expires or is deleted.                            *)
THEOREM FreshKeptCorrect == Spec => FreshKept
<1>1. CacheTypeOK /\ [Next]_vars =>
         [\A k \in Keys : Fresh(k) /\ providers'[k] # Absent
                            => providers'[k] = providers[k]]_cacheVars
  BY FreshKeptStep
<1> QED BY <1>1, CacheTypeCorrect, PTL DEF Spec, FreshKept

----------------------------------------------------------------------------
(* The janitor.                                                            *)

LEMMA JanitorTypeStep == JanitorTypeOK /\ [Next]_vars => JanitorTypeOK'
<1> SUFFICES ASSUME JanitorTypeOK, [Next]_vars PROVE JanitorTypeOK'
  OBVIOUS
<1> USE JanitorAssumption DEF JanitorTypeOK, Janitors, Nil
<1>t. started \in Nat /\ 0..started \subseteq 0..MaxJanitors
  OBVIOUS
<1>1. CASE StartJanitor
  <2>1. started + 1 \in 1..MaxJanitors
    BY <1>1 DEF StartJanitor
  <2> QED BY <1>1, <2>1 DEF StartJanitor
<1>2. ASSUME NEW o \in Stoppers, StopClose(o) PROVE JanitorTypeOK'
  <2>1. janitorStop \in 1..MaxJanitors /\ janitorDone \in 0..MaxJanitors
    BY <1>2, <1>t DEF StopClose
  <2>2. [pc |-> IF janitorDone = Nil THEN "reset" ELSE "wait",
         done |-> janitorDone, closed |-> janitorStop] \in Stopper
    BY <2>1 DEF Stopper
  <2> QED BY <1>2, <2>1, <2>2 DEF StopClose
<1>3. ASSUME NEW o \in Stoppers, StopWaited(o) PROVE JanitorTypeOK'
  <2>1. /\ stopper[o] \in Stopper /\ stopper[o].pc = "wait"
        /\ stopper' = [stopper EXCEPT ![o].pc = "reset"]
    BY <1>3 DEF StopWaited
  <2>2. stopper'[o] = [pc |-> "reset", done |-> stopper[o].done, closed |-> stopper[o].closed]
        /\ stopper[o].done \in Janitors /\ stopper[o].closed \in Janitors
    BY <2>1 DEF Stopper
  <2>3. stopper'[o] \in Stopper
    BY <2>2 DEF Stopper
  <2> QED BY <1>3, <2>3 DEF StopWaited
<1>4. ASSUME NEW o \in Stoppers, StopReset(o) PROVE JanitorTypeOK'
  <2>1. /\ stopper[o] \in Stopper /\ stopper[o].pc = "reset"
        /\ stopper' = [stopper EXCEPT ![o].pc = "idle", ![o].done = Nil]
    BY <1>4 DEF StopReset
  <2>2. stopper'[o] = [pc |-> "idle", done |-> Nil, closed |-> stopper[o].closed]
        /\ stopper[o].closed \in Janitors
    BY <2>1 DEF Stopper
  <2>3. stopper'[o] \in Stopper
    BY <2>2 DEF Stopper
  <2> QED BY <1>4, <2>3 DEF StopReset
<1>5. ASSUME NEW j \in Janitors, CancelContext(j) \/ JanitorExits(j) PROVE JanitorTypeOK'
  <2>1. \A s \in {"leaving", "cleared", "exited"} :
           [jpc EXCEPT ![j] = s]
             \in [Janitors -> {"unborn", "loop", "leaving", "cleared", "exited"}]
    OBVIOUS
  <2>2. jpc' \in [Janitors -> {"unborn", "loop", "leaving", "cleared", "exited"}]
    BY <1>5, <2>1 DEF CancelContext, JanitorExits, JanitorLeave, JanitorClear, JanitorExit
  <2>3. janitorStop' \in 0..started /\ janitorDone' \in 0..started
    BY <1>5, <1>t DEF CancelContext, JanitorExits, JanitorLeave, JanitorClear, JanitorExit
  <2>4. /\ cancelled' \in SUBSET Janitors
        /\ UNCHANGED <<started, stopped, stopper>>
    BY <1>5 DEF CancelContext, JanitorExits, JanitorLeave, JanitorClear, JanitorExit
  <2> QED BY <2>2, <2>3, <2>4
<1>6. CASE UNCHANGED janitorVars
  BY <1>6 DEF janitorVars
<1> QED BY <1>1, <1>2, <1>3, <1>4, <1>5, <1>6
        DEF Next, JanitorStep, StopStep, ManualCleanup, JanitorCleanup, JanitorTick, vars

(* Every reachable state of manager and janitor has its type; a Stop never *)
(* waits on a nil channel.                                                 *)
THEOREM TypeCorrect == Spec => []TypeOK
<1>1. Init => JanitorTypeOK
  BY JanitorAssumption DEF Init, JanitorInit, JanitorTypeOK, Stopper, Janitors, Nil
<1>2. Spec => []JanitorTypeOK
  BY <1>1, JanitorTypeStep, PTL DEF Spec
<1> QED BY <1>2, CacheTypeCorrect, PTL DEF TypeOK

(* What makes the janitor's fields trustworthy: the stop field names a     *)
(* janitor that has not cleared it yet, and a done field that is set along *)
(* with it names the same one.                                             *)
JanitorInv ==
    /\ stopped \cup cancelled \subseteq 1..started
    /\ \A j \in Janitors : jpc[j] # "unborn" => j <= started
    /\ NoDoubleClose
    /\ RunningIsStoppable
    /\ janitorStop # Nil => janitorDone \in {Nil, janitorStop}
    /\ WaitsForItsOwn

LEMMA JanitorInvStep == JanitorTypeOK /\ JanitorInv /\ [Next]_vars => JanitorInv'
<1> SUFFICES ASSUME JanitorTypeOK, JanitorInv, [Next]_vars PROVE JanitorInv'
  OBVIOUS
<1> USE JanitorAssumption DEF JanitorInv, NoDoubleClose, RunningIsStoppable, WaitsForItsOwn
<1>t. started \in Nat /\ MaxJanitors \in Nat
  BY DEF JanitorTypeOK
<1>1. CASE StartJanitor
  <2>1. /\ started + 1 \in Janitors /\ started' = started + 1
        /\ jpc'[started + 1] = "loop"
        /\ \A j \in Janitors : j # started + 1 => jpc'[j] = jpc[j]
    BY <1>1, <1>t DEF StartJanitor, JanitorTypeOK, Janitors
  <2>2. \A j \in Janitors : jpc[j] = "loop" => j \in stopped \cup cancelled
    BY <1>1, <1>t DEF StartJanitor, Janitors, Nil
  <2>3. started + 1 \notin stopped /\ stopped \cup cancelled \subseteq 1..(started + 1)
    BY <1>t
  <2> QED BY <1>1, <1>t, <2>1, <2>2, <2>3 DEF StartJanitor, Janitors
<1>2. ASSUME NEW o \in Stoppers, StopClose(o) PROVE JanitorInv'
  <2>1. janitorStop \in 1..started
    BY <1>2, <1>t DEF StopClose, JanitorTypeOK, Nil
  <2>2. Nil \notin stopped'
    BY <1>2, <2>1, <1>t DEF StopClose, Nil
  <2>3. \A p \in Stoppers : stopper'[p].pc = "wait" => stopper'[p].done = stopper'[p].closed
    BY <1>2 DEF StopClose, JanitorTypeOK
  <2> QED BY <1>2, <2>1, <2>2, <2>3 DEF StopClose
<1>3. ASSUME NEW o \in Stoppers, StopWaited(o) \/ StopReset(o) PROVE JanitorInv'
  <2>1. \A p \in Stoppers : stopper'[p].pc = "wait" => stopper'[p] = stopper[p]
    <3>1. stopper[o] \in Stopper
      BY DEF JanitorTypeOK
    <3>2. stopper'[o].pc # "wait"
      BY <1>3, <3>1 DEF StopWaited, StopReset, Stopper, JanitorTypeOK
    <3>3. \A p \in Stoppers \ {o} : stopper'[p] = stopper[p]
      BY <1>3 DEF StopWaited, StopReset, JanitorTypeOK
    <3> QED BY <3>2, <3>3
  <2>2. UNCHANGED <<janitorStop, started, jpc, stopped, cancelled>>
        /\ janitorDone' \in {Nil, janitorDone}
    BY <1>3 DEF StopWaited, StopReset
  <2> QED BY <2>1, <2>2
<1>4. ASSUME NEW j \in Janitors, CancelContext(j) PROVE JanitorInv'
  BY <1>4, <1>t DEF CancelContext, Janitors
<1>5. ASSUME NEW j \in Janitors, JanitorExits(j) PROVE JanitorInv'
  <2>1. /\ jpc[j] # "unborn" /\ jpc'[j] \notin {"loop", "unborn"}
        /\ \A i \in Janitors : i # j => jpc'[i] = jpc[i]
        /\ UNCHANGED <<started, stopped, cancelled, stopper>>
    BY <1>5 DEF JanitorExits, JanitorLeave, JanitorClear, JanitorExit, JanitorTypeOK
  <2>2. \/ UNCHANGED <<janitorStop, janitorDone>>
        \/ /\ janitorStop' = janitorStop \/ (janitorStop = j /\ janitorStop' = Nil)
           /\ janitorDone' \in {janitorDone, Nil}
    <3>1. CASE JanitorLeave(j) \/ JanitorExit(j)
      BY <3>1 DEF JanitorLeave, JanitorExit
    <3>2. CASE JanitorClear(j)
      BY <3>2 DEF JanitorClear
    <3> QED BY <1>5, <3>1, <3>2 DEF JanitorExits
  <2>3. Nil \notin stopped
    BY <1>t DEF Nil
  <2> QED BY <2>1, <2>2, <2>3
<1>6. CASE UNCHANGED janitorVars
  BY <1>6 DEF janitorVars
<1> QED BY <1>1, <1>2, <1>3, <1>4, <1>5, <1>6
        DEF Next, JanitorStep, StopStep, ManualCleanup, JanitorCleanup, JanitorTick, vars

LEMMA JanitorInvCorrect == Spec => []JanitorInv
<1>1. Init => JanitorInv
  BY DEF Init, JanitorInit, JanitorInv, NoDoubleClose, RunningIsStoppable, WaitsForItsOwn,
     Janitors, Nil
<1>2. Spec => []JanitorTypeOK
  BY TypeCorrect, PTL DEF TypeOK
<1> QED BY <1>1, <1>2, JanitorInvStep, PTL DEF Spec

(* A janitor that nobody stopped is always within reach of Stop, and two   *)
(* such janitors never run side by side.                                   *)
THEOREM RunningIsStoppableCorrect == Spec => []RunningIsStoppable
<1>1. JanitorInv => RunningIsStoppable  BY DEF JanitorInv
<1> QED BY <1>1, JanitorInvCorrect, PTL

(* No Stop closes a stop channel that is closed already.                   *)
THEOREM NoDoubleCloseCorrect == Spec => []NoDoubleClose
<1>1. JanitorInv => NoDoubleClose  BY DEF JanitorInv
<1> QED BY <1>1, JanitorInvCorrect, PTL

(* A Stop that waits does so for the janitor it stopped.                   *)
THEOREM WaitsForItsOwnCorrect == Spec => []WaitsForItsOwn
<1>1. JanitorInv => WaitsForItsOwn  BY DEF JanitorInv
<1> QED BY <1>1, JanitorInvCorrect, PTL
=============================================================================
