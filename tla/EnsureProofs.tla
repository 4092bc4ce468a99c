---------------------------- MODULE EnsureProofs ----------------------------
(***************************************************************************)
(* Proofs about Ensure, for any number of reconcilers, of contents and of  *)
(* entries and any bounds: the type invariant; that a resource that was    *)
(* there is missing only while somebody who deleted it owes a new one; and *)
(* what a call achieves into which nobody else wrote.                      *)
(***************************************************************************)
EXTENDS Ensure, FiniteSetTheorems, WellFoundedInduction, TLAPS

CallShape(r) == [pc : {r.pc}, want : {r.want}, page : {r.page},
                 seen : {r.seen}, todo : {r.todo}, found : {r.found},
                 out : {r.out}]
IsCall(r) == r \in CallShape(r)

(* What is known of a call when n is the next id.                          *)
EntriesOK(S, n) ==
    \A e \in S : e.page \in 1..MaxPages /\ e.item.id \in 1..(n - 1)
GoodCall(r, n) ==
    /\ IsCall(r)
    /\ r.pc \in Pcs /\ r.out \in Successes \cup {"", "error"}
    /\ r.page \in 1..MaxPages
    /\ EntriesOK(r.seen, n) /\ EntriesOK(r.todo, n)
    /\ r.pc = "delete" => r.todo # {}
    /\ r.pc # "done" => r.out = ""

ItemsOK ==
    /\ nextId \in Nat \ {0}
    /\ \A i \in items : i.id \in 1..(nextId - 1)
                        /\ i.name \in {"target", "other"}
    /\ \A i, j \in items : i.id = j.id => i = j
    /\ kind = "rule" => Target(items) = items /\ \A i, j \in items : i = j
CallsOK == /\ call = [c \in Clients |-> call[c]]
           /\ \A c \in Clients : GoodCall(call[c], nextId)
CountsOK == runs \in 0..MaxRuns /\ faults \in 0..MaxFaults
BackendOK == backend \in Backends /\ kind \in Kinds

TypeInv == BackendOK /\ ItemsOK /\ CallsOK /\ CountsOK

(* The reconciler has read nothing that would make it stop at unchanged.   *)
Owes(c) ==
    /\ debt[c]
    /\ call[c].pc = "list" =>
          \A e \in call[c].seen : e.item.name # "target"
DebtInv ==
    /\ debt = [c \in Clients |-> debt[c]]
    /\ existed /\ Target(items) = {} => \E c \in Clients : Owes(c)

IInv == TypeInv /\ DebtInv

-----------------------------------------------------------------------------
(* Every nonempty set of natural numbers has a least element, and a        *)
(* nonempty set of listed entries a first one.                             *)
LEMMA NatMin ==
    ASSUME NEW T, T \subseteq Nat, T # {}
    PROVE  \E x \in T : \A y \in T : x <= y
<1>1. PICK k \in T : k \in Nat  OBVIOUS
<1>2. IsFiniteSet(0..k)  BY <1>1, FS_Interval
<1> DEFINE D == {0..x : x \in {y \in T : y <= k}}
<1>3. D \subseteq SUBSET (0..k) /\ D # {}  BY <1>1
<1>4. D \subseteq FiniteSubsetsOf(0..k)
  BY <1>3, FS_FiniteSubsetsOfFinite, <1>2
<1>5. \E X \in D : \A Y \in D : ~(<<Y, X>> \in StrictSubsetOrdering(0..k))
  <2> HIDE DEF D
  <2> QED  BY <1>3, <1>4, WFMin, FS_StrictSubsetOrderingWellFounded
<1>6. PICK x \in {y \in T : y <= k} :
          \A y \in {y \in T : y <= k} :
             ~(<<0..y, 0..x>> \in StrictSubsetOrdering(0..k))
  BY <1>5
<1>7. \A y \in T : x <= y
  <2> SUFFICES ASSUME NEW y \in T, y < x PROVE FALSE  BY <1>1, <1>6
  <2>1. 0..y \subseteq 0..x /\ 0..y # 0..x /\ y <= k  BY <1>1, <1>6
  <2>2. x <= k  BY <1>6
  <2>3. 0..x \subseteq 0..k /\ 0..y \subseteq 0..k
    BY <2>1, <2>2, <1>1, <1>6
  <2> QED  BY <1>6, <2>1, <2>3 DEF StrictSubsetOrdering
<1> QED  BY <1>6, <1>7

LEMMA FirstIn ==
    ASSUME NEW S, S # {},
           \A e \in S : e.page \in Nat /\ e.item.id \in Nat
    PROVE  First(S) \in S
<1> DEFINE pages == {e.page : e \in S}
<1>1. PICK p \in pages : \A q \in pages : p <= q  BY NatMin
<1> DEFINE ids == {e.item.id : e \in {f \in S : f.page = p}}
<1>2. ids \subseteq Nat /\ ids # {}  BY <1>1
<1>3. PICK n \in ids : \A m \in ids : n <= m
  <2> HIDE DEF ids
  <2> QED  BY <1>2, NatMin
<1>4. PICK e \in S : e.page = p /\ e.item.id = n  BY <1>3
<1>5. \A f \in S : p < f.page \/ (p = f.page /\ n <= f.item.id)
  <2> SUFFICES ASSUME NEW f \in S
               PROVE  p < f.page \/ (p = f.page /\ n <= f.item.id)
    OBVIOUS
  <2>1. p <= f.page  BY <1>1
  <2>2. CASE p = f.page  BY <2>2, <1>3
  <2>3. CASE p # f.page  BY <2>1, <2>3, <1>1
  <2> QED  BY <2>2, <2>3
<1> QED  BY <1>4, <1>5 DEF First

-----------------------------------------------------------------------------
(* The records a step makes of a call.                                     *)
LEMMA GotoFields ==
    ASSUME NEW c \in Clients, IsCall(call[c]), NEW pc
    PROVE  /\ IsCall(Goto(c, pc))
           /\ Goto(c, pc).pc = pc /\ Goto(c, pc).out = call[c].out
           /\ Goto(c, pc).seen = call[c].seen
           /\ Goto(c, pc).todo = call[c].todo
           /\ Goto(c, pc).page = call[c].page
<1>1. call[c] \in CallShape(call[c])  BY DEF IsCall
<1>2. /\ Goto(c, pc).pc = pc /\ Goto(c, pc).out = call[c].out
      /\ Goto(c, pc).seen = call[c].seen
      /\ Goto(c, pc).todo = call[c].todo
      /\ Goto(c, pc).page = call[c].page
  BY <1>1 DEF Goto, CallShape
<1>3. IsCall(Goto(c, pc))  BY <1>1 DEF Goto, CallShape, IsCall
<1> QED  BY <1>2, <1>3

LEMMA ReturnFields ==
    ASSUME NEW c \in Clients, IsCall(call[c]), NEW out
    PROVE  /\ IsCall(Return(c, out))
           /\ Return(c, out).pc = "done" /\ Return(c, out).out = out
           /\ Return(c, out).seen = {} /\ Return(c, out).todo = {}
           /\ Return(c, out).page = 1
<1>1. call[c] \in CallShape(call[c])  BY DEF IsCall
<1>2. /\ Return(c, out).pc = "done" /\ Return(c, out).out = out
      /\ Return(c, out).seen = {} /\ Return(c, out).todo = {}
      /\ Return(c, out).page = 1
  BY <1>1 DEF Return, CallShape
<1>3. IsCall(Return(c, out))  BY <1>1 DEF Return, CallShape, IsCall
<1> QED  BY <1>2, <1>3

(* A call that goes on, or returns, is a good one.                         *)
LEMMA GotoGood ==
    ASSUME NEW c \in Clients, NEW n, GoodCall(call[c], n),
           call[c].pc # "done", NEW pc \in Pcs \ {"delete", "done"}
    PROVE  GoodCall(Goto(c, pc), n)
<1>1. IsCall(call[c])  BY DEF GoodCall
<1> QED  BY <1>1, GotoFields DEF GoodCall

LEMMA ReturnGood ==
    ASSUME NEW c \in Clients, NEW n, GoodCall(call[c], n),
           NEW out \in Successes \cup {"error"}
    PROVE  GoodCall(Return(c, out), n)
<1>1. IsCall(call[c])  BY DEF GoodCall
<1>2. 1 \in 1..MaxPages  BY EnsureAssumption
<1>3. EntriesOK({}, n)  BY DEF EntriesOK
<1> DEFINE r == Return(c, out)
<1>4. /\ IsCall(r) /\ r.pc = "done" /\ r.out = out /\ r.page = 1
      /\ r.seen = {} /\ r.todo = {}
  BY <1>1, ReturnFields
<1> HIDE DEF r
<1>5. GoodCall(r, n)
  <2>1. r.pc \in Pcs /\ r.pc # "delete"  BY <1>4 DEF Pcs
  <2>2. r.out \in Successes \cup {"", "error"}  BY <1>4
  <2> QED  BY <1>2, <1>3, <1>4, <2>1, <2>2 DEF GoodCall
<1> QED  BY <1>5 DEF r

LEMMA ReplaceFields ==
    ASSUME NEW c \in Clients, IsCall(call[c]), NEW S
    PROVE  /\ IsCall(Replace(c, S))
           /\ S = {} => Replace(c, S).pc = "create"
           /\ S # {} => Replace(c, S).pc = "delete"
           /\ Replace(c, S).todo = S /\ Replace(c, S).seen = {}
           /\ Replace(c, S).page = 1 /\ Replace(c, S).out = call[c].out
<1> DEFINE r == Replace(c, S)
<1>1. call[c] \in CallShape(call[c])  BY DEF IsCall
<1>2. /\ r.pc = IF S = {} THEN "create" ELSE "delete"
      /\ r.todo = S /\ r.seen = {} /\ r.page = 1 /\ r.out = call[c].out
  BY <1>1 DEF CallShape, Replace
<1>3. IsCall(r)  BY <1>1 DEF CallShape, IsCall, Replace
<1> QED  BY <1>2, <1>3

LEMMA ReplaceGood ==
    ASSUME NEW c \in Clients, NEW n, GoodCall(call[c], n),
           call[c].pc # "done", NEW S, EntriesOK(S, n)
    PROVE  GoodCall(Replace(c, S), n)
<1> DEFINE r == Replace(c, S)
<1>1. IsCall(call[c]) /\ call[c].out = ""  BY DEF GoodCall
<1>2. 1 \in 1..MaxPages  BY EnsureAssumption
<1>3. EntriesOK({}, n)  BY DEF EntriesOK
<1>4. /\ IsCall(r)
      /\ (S = {} => r.pc = "create") /\ (S # {} => r.pc = "delete")
      /\ r.todo = S /\ r.seen = {} /\ r.page = 1 /\ r.out = call[c].out
  <2>1. IsCall(call[c])  BY <1>1
  <2>2. IsCall(Replace(c, S)) BY <2>1, ReplaceFields
  <2>3. (S = {} => Replace(c, S).pc = "create") BY <2>1, ReplaceFields
  <2>4. (S # {} => Replace(c, S).pc = "delete") BY <2>1, ReplaceFields
  <2>5. Replace(c, S).todo = S  BY <2>1, ReplaceFields
  <2>6. Replace(c, S).seen = {}  BY <2>1, ReplaceFields
  <2>7. Replace(c, S).page = 1  BY <2>1, ReplaceFields
  <2>8. Replace(c, S).out = call[c].out  BY <2>1, ReplaceFields
  <2> QED BY <2>2, <2>3, <2>4, <2>5, <2>6, <2>7, <2>8
<1> HIDE DEF r
<1>5. GoodCall(r, n)
  <2>1. r.pc \in Pcs /\ (r.pc = "delete" => r.todo # {})  BY <1>4 DEF Pcs
  <2> QED  BY <1>2, <1>3, <1>4, <2>1 DEF GoodCall
<1> QED  BY <1>5 DEF r

(* Decide makes a good call of what was listed, and one that owes a create *)
(* when no entry of the resource was.                                      *)
LEMMA DecideGood ==
    ASSUME NEW c \in Clients, NEW n \in Nat \ {0}, GoodCall(call[c], n),
           call[c].pc # "done", NEW S, EntriesOK(S, n)
    PROVE  GoodCall(Decide(c, S), n)
<1> DEFINE M == {e \in S : Recognised(e.item)}
<1>1. EntriesOK(M, n)  BY DEF EntriesOK
<1>2. EntriesOK({First(M)}, n) \/ M = {}
  <2>1. \A e \in M : e.page \in Nat /\ e.item.id \in Nat
    BY <1>1, EnsureAssumption DEF EntriesOK
  <2>2. SUFFICES ASSUME M # {} PROVE EntriesOK({First(M)}, n)  OBVIOUS
  <2> HIDE DEF M
  <2>3. First(M) \in M  BY <2>1, <2>2, FirstIn
  <2> QED  BY <2>3, <1>1 DEF EntriesOK
<1>3. EntriesOK({}, n)  BY DEF EntriesOK
<1>4. GoodCall(Return(c, "unchanged"), n)
  BY ReturnGood DEF Successes
<1>5. \A T : EntriesOK(T, n) => GoodCall(Replace(c, T), n)
  BY ReplaceGood
<1> HIDE DEF M
<1>6. GoodCall(DecideWebhook(c, S), n)
  BY <1>1, <1>4, <1>5 DEF DecideWebhook, M
<1>7. GoodCall(DecideDeployKey(c, S), n)
  BY <1>2, <1>3, <1>4, <1>5 DEF DecideDeployKey, M
<1> QED  BY <1>6, <1>7 DEF Decide

LEMMA DecideOwes ==
    ASSUME NEW c \in Clients, IsCall(call[c]), NEW S,
           \A e \in S : e.item.name # "target"
    PROVE  Decide(c, S).pc = "create" /\ Decide(c, S).out = call[c].out
<1>1. {e \in S : Recognised(e.item)} = {}  BY DEF Recognised
<1>2. Cardinality({}) # 1  BY FS_EmptySet
<1>3. Decide(c, S) = Replace(c, {})
  BY <1>1, <1>2 DEF Decide, DecideWebhook, DecideDeployKey
<1> QED  BY <1>3, ReplaceFields

(* A delete that leaves entries to delete, or none.                        *)
Shrink(c, S) == [call[c] EXCEPT !.todo = S,
                                !.pc = IF S = {} THEN "create" ELSE @]
LEMMA ShrinkFields ==
    ASSUME NEW c \in Clients, IsCall(call[c]), call[c].pc = "delete", NEW S
    PROVE  /\ IsCall(Shrink(c, S))
           /\ Shrink(c, S).pc = IF S = {} THEN "create" ELSE "delete"
           /\ Shrink(c, S).todo = S /\ Shrink(c, S).seen = call[c].seen
           /\ Shrink(c, S).page = call[c].page
           /\ Shrink(c, S).out = call[c].out
<1>1. call[c] \in CallShape(call[c])  BY DEF IsCall
<1>2. /\ Shrink(c, S).pc = IF S = {} THEN "create" ELSE "delete"
      /\ Shrink(c, S).todo = S /\ Shrink(c, S).seen = call[c].seen
      /\ Shrink(c, S).page = call[c].page
      /\ Shrink(c, S).out = call[c].out
  BY <1>1 DEF CallShape, Shrink
<1>3. IsCall(Shrink(c, S))  BY <1>1 DEF CallShape, IsCall, Shrink
<1> QED  BY <1>2, <1>3

LEMMA ShrinkGood ==
    ASSUME NEW c \in Clients, NEW n, GoodCall(call[c], n),
           call[c].pc = "delete", NEW S, S \subseteq call[c].todo
    PROVE  GoodCall(Shrink(c, S), n)
<1> DEFINE r == Shrink(c, S)
<1>1. IsCall(call[c]) /\ call[c].out = "" /\ EntriesOK(S, n)
  BY DEF GoodCall, EntriesOK
<1>2. /\ r.pc = IF S = {} THEN "create" ELSE "delete"
      /\ r.todo = S /\ r.seen = call[c].seen /\ r.page = call[c].page
      /\ r.out = "" /\ IsCall(r)
  <2>1. IsCall(call[c]) /\ call[c].pc = "delete"  BY <1>1
  <2>2. r.pc = IF S = {} THEN "create" ELSE "delete"
    BY <2>1, ShrinkFields
  <2>3. r.todo = S  BY <2>1, ShrinkFields
  <2>4. r.seen = call[c].seen  BY <2>1, ShrinkFields
  <2>5. r.page = call[c].page  BY <2>1, ShrinkFields
  <2>6. r.out = call[c].out  BY <2>1, ShrinkFields
  <2>7. IsCall(r)  BY <2>1, ShrinkFields
  <2> QED  BY <1>1, <2>2, <2>3, <2>4, <2>5, <2>6, <2>7
<1>3. r.pc \in Pcs /\ (r.pc = "delete" => r.todo # {})
  BY <1>2 DEF Pcs
<1> HIDE DEF r
<1>4. GoodCall(r, n)  BY <1>1, <1>2, <1>3 DEF GoodCall
<1> QED  BY <1>4 DEF r

(* A list that goes on.                                                    *)
Turn(c, p, S) == [call[c] EXCEPT !.page = p, !.seen = S]
LEMMA TurnFields ==
    ASSUME NEW c \in Clients, IsCall(call[c]), NEW p, NEW S
    PROVE  /\ IsCall(Turn(c, p, S)) /\ Turn(c, p, S).pc = call[c].pc
           /\ Turn(c, p, S).todo = call[c].todo /\ Turn(c, p, S).seen = S
           /\ Turn(c, p, S).page = p /\ Turn(c, p, S).out = call[c].out
<1>1. call[c] \in CallShape(call[c])  BY DEF IsCall
<1>2. /\ Turn(c, p, S).pc = call[c].pc
      /\ Turn(c, p, S).todo = call[c].todo /\ Turn(c, p, S).seen = S
      /\ Turn(c, p, S).page = p /\ Turn(c, p, S).out = call[c].out
  BY <1>1 DEF CallShape, Turn
<1>3. IsCall(Turn(c, p, S))  BY <1>1 DEF CallShape, IsCall, Turn
<1> QED  BY <1>2, <1>3

LEMMA TurnGood ==
    ASSUME NEW c \in Clients, NEW n, GoodCall(call[c], n),
           call[c].pc # "done", NEW p \in 1..MaxPages, NEW S, EntriesOK(S, n)
    PROVE  GoodCall(Turn(c, p, S), n)
<1> DEFINE r == Turn(c, p, S)
<1>1. IsCall(call[c])  BY DEF GoodCall
<1>2. r.pc = call[c].pc  BY <1>1, TurnFields
<1>3. r.todo = call[c].todo  BY <1>1, TurnFields
<1>4. r.seen = S  BY <1>1, TurnFields
<1>5. r.page = p  BY <1>1, TurnFields
<1>6. r.out = call[c].out  BY <1>1, TurnFields
<1>7. IsCall(r)  BY <1>1, TurnFields
<1> HIDE DEF r
<1>8. GoodCall(r, n)
  BY <1>2, <1>3, <1>4, <1>5, <1>6, <1>7 DEF GoodCall
<1> QED  BY <1>8 DEF r

(* The first call of a reconciler.                                         *)
LEMMA FreshGood ==
    ASSUME NEW want, NEW n
    PROVE  /\ GoodCall(Fresh(want), n) /\ Fresh(want).seen = {}
           /\ GoodCall([Fresh(want) EXCEPT !.pc = "done"], n)
<1>1. 1 \in 1..MaxPages  BY EnsureAssumption
<1>2. EntriesOK({}, n)  BY DEF EntriesOK
<1>3. GoodCall(Fresh(want), n) /\ Fresh(want).seen = {}
  BY <1>1, <1>2 DEF Fresh, GoodCall, IsCall, CallShape, Pcs
<1>4. GoodCall([Fresh(want) EXCEPT !.pc = "done"], n)
  BY <1>1, <1>2 DEF Fresh, GoodCall, IsCall, CallShape, Pcs
<1> QED  BY <1>3, <1>4

-----------------------------------------------------------------------------
(* What every step keeps.                                                  *)
LEMMA Later ==
    ASSUME NEW r, NEW n \in Nat, NEW m \in Nat, n <= m, GoodCall(r, n)
    PROVE  GoodCall(r, m)
<1>1. \A S : EntriesOK(S, n) => EntriesOK(S, m)  BY DEF EntriesOK
<1> QED  BY <1>1 DEF GoodCall

LEMMA CallStep ==
    ASSUME TypeInv, NEW c \in Clients, NEW next, Set(c, next),
           nextId' \in Nat, nextId <= nextId', GoodCall(next, nextId)
    PROVE  CallsOK' /\ call'[c] = next
<1>1. nextId \in Nat  BY DEF TypeInv, ItemsOK
<1>2. call'[c] = next /\ call' = [d \in Clients |-> call'[d]]
      /\ \A d \in Clients : d # c => call'[d] = call[d]
  BY DEF TypeInv, CallsOK, Set
<1>3. \A d \in Clients : GoodCall(call'[d], nextId)
  BY <1>2 DEF TypeInv, CallsOK
<1>4. \A d \in Clients : GoodCall(call'[d], nextId')
  BY <1>1, <1>3, Later
<1> QED  BY <1>2, <1>4 DEF CallsOK

LEMMA ErrorGood ==
    ASSUME TypeInv, NEW c \in Clients
    PROVE  GoodCall(Error(c), nextId) /\ Error(c).out = "error"
           /\ Error(c).pc = "done"
<1>1. GoodCall(call[c], nextId) /\ IsCall(call[c])
  BY DEF TypeInv, CallsOK, GoodCall
<1> QED  BY <1>1, ReturnGood, ReturnFields DEF Error

(* A request that takes effect leaves good calls, with the answer or the   *)
(* loss of it as the call's next record.                                   *)
LEMMA AnswerStep ==
    ASSUME TypeInv, NEW c \in Clients, NEW next, Answer(c, next),
           UNCHANGED runs, nextId' \in Nat, nextId <= nextId',
           GoodCall(next, nextId)
    PROVE  /\ CallsOK' /\ CountsOK'
           /\ call'[c] = next \/ call'[c] = Error(c)
<1>1. GoodCall(Error(c), nextId)  BY ErrorGood
<1>2. CASE Set(c, next) /\ UNCHANGED faults
  <2>1. CallsOK' /\ call'[c] = next  BY <1>2, CallStep
  <2> QED  BY <1>2, <2>1 DEF TypeInv, CountsOK
<1>3. CASE /\ faults < MaxFaults /\ faults' = faults + 1
           /\ Set(c, Error(c))
  <2>1. CallsOK' /\ call'[c] = Error(c)  BY <1>1, <1>3, CallStep
  <2>2. CountsOK'  BY <1>3, EnsureAssumption DEF TypeInv, CountsOK
  <2> QED  BY <2>1, <2>2
<1> QED  BY <1>2, <1>3 DEF Answer

(* The debts after a step of c: kept when the platform is left alone and   *)
(* the call does not end well, taken on by a delete, and of no account     *)
(* while the resource is there.                                            *)
LEMMA DebtPaid ==
    ASSUME DebtInv, NEW c \in Clients, NEW w, NEW d, Record(c, w, d),
           Target(items') # {}
    PROVE  DebtInv'
<1>1. debt' = [x \in Clients |-> debt'[x]]  BY DEF DebtInv, Record
<1>2. Target(items)' # {}  BY DEF Target
<1> QED  BY <1>1, <1>2 DEF DebtInv

LEMMA DebtTaken ==
    ASSUME DebtInv, NEW c \in Clients, Record(c, TRUE, TRUE),
           call'[c].out \notin Successes, call'[c].pc # "list"
    PROVE  DebtInv'
<1>1. debt' = [x \in Clients |-> debt'[x]] /\ debt'[c]
  BY DEF DebtInv, Record
<1>2. Owes(c)'  BY <1>1 DEF Owes
<1> QED  BY <1>1, <1>2 DEF DebtInv

LEMMA DebtKept ==
    ASSUME DebtInv, NEW c \in Clients, Record(c, FALSE, FALSE),
           UNCHANGED items,
           \A d \in Clients : d # c => call'[d] = call[d],
           Target(items) = {} /\ Owes(c) =>
               /\ call'[c].out \notin Successes
               /\ call'[c].pc = "list" =>
                     \A e \in call'[c].seen : e.item.name # "target"
    PROVE  DebtInv'
<1>1. debt' = [x \in Clients |-> debt'[x]]
      /\ \A d \in Clients : d # c => debt'[d] = debt[d]
  BY DEF DebtInv, Record
<1>2. CASE Target(items) # {}
  <2>1. Target(items') # {}  BY <1>2
  <2> QED  BY <2>1, DebtPaid
<1>3. CASE Target(items) = {}
  <2>1. existed' => existed
    <3>1. Target(items') = {}  BY <1>3
    <3>2. existed' = (existed \/ Target(items') # {})  BY DEF Record
    <3> QED  BY <3>1, <3>2
  <2>2. SUFFICES ASSUME existed PROVE \E d \in Clients : Owes(d)'
    BY <1>1, <2>1 DEF DebtInv
  <2>3. PICK d \in Clients : Owes(d)  BY <1>3, <2>2 DEF DebtInv
  <2>4. CASE d # c  BY <1>1, <2>3, <2>4 DEF Owes
  <2>5. CASE d = c
    <3>1. debt'[c]  BY <1>3, <2>3, <2>5 DEF Owes, Record, DebtInv
    <3> QED  BY <1>3, <2>3, <2>5, <3>1 DEF Owes
  <2> QED  BY <2>4, <2>5
<1> QED  BY <1>2, <1>3

(* A step that leaves the platform alone.                                  *)
LEMMA ReadStep ==
    ASSUME IInv, NEW c \in Clients, NEW next, Set(c, next),
           UNCHANGED platform, faults' \in 0..MaxFaults,
           Record(c, FALSE, FALSE), GoodCall(next, nextId),
           Target(items) = {} /\ Owes(c) =>
               /\ next.out \notin Successes
               /\ next.pc = "list" =>
                     \A e \in next.seen : e.item.name # "target"
    PROVE  IInv'
<1>1. /\ UNCHANGED <<items, nextId, runs, backend, kind>>
      /\ nextId \in Nat
  BY DEF platform, Record, IInv, TypeInv, ItemsOK
<1>2. CallsOK' /\ call'[c] = next
  BY <1>1, CallStep DEF IInv
<1>3. ItemsOK'  BY <1>1 DEF IInv, TypeInv, ItemsOK, Target
<1>4. CountsOK' /\ BackendOK'
  BY <1>1 DEF IInv, TypeInv, CountsOK, BackendOK
<1>5. \A d \in Clients : d # c => call'[d] = call[d]
  BY DEF IInv, TypeInv, CallsOK, Set
<1>6. DebtInv'  BY <1>1, <1>2, <1>5, DebtKept DEF IInv
<1> QED  BY <1>2, <1>3, <1>4, <1>6 DEF IInv, TypeInv

LEMMA Facts ==
    ASSUME IInv, NEW c \in Clients
    PROVE  /\ GoodCall(call[c], nextId) /\ IsCall(call[c])
           /\ nextId \in Nat \ {0} /\ faults \in 0..MaxFaults
           /\ runs \in 0..MaxRuns
           /\ call[c].pc # "done" => call[c].out = ""
BY DEF IInv, TypeInv, CallsOK, ItemsOK, CountsOK, GoodCall

LEMMA RefusedStep ==
    ASSUME IInv, NEW c \in Clients, Refused(c)
    PROVE  IInv'
<1>1. GoodCall(Error(c), nextId) /\ Error(c).out = "error"
      /\ Error(c).pc = "done"
  BY ErrorGood DEF IInv
<1>2. UNCHANGED faults /\ UNCHANGED platform /\ Record(c, FALSE, FALSE)
      /\ Set(c, Error(c))
  BY DEF Refused
<1>3. faults' \in 0..MaxFaults  BY <1>2, Facts
<1>4. Error(c).out \notin Successes /\ Error(c).pc # "list"
  BY <1>1 DEF Successes
<1> QED  BY <1>1, <1>2, <1>3, <1>4, ReadStep

LEMMA FailStep ==
    ASSUME IInv, NEW c \in Clients, Fail(c)
    PROVE  IInv'
<1>1. GoodCall(Error(c), nextId) /\ Error(c).out = "error"
      /\ Error(c).pc = "done"
  BY ErrorGood DEF IInv
<1>2. UNCHANGED platform /\ Record(c, FALSE, FALSE) /\ Set(c, Error(c))
      /\ faults < MaxFaults /\ faults' = faults + 1
  BY DEF Fail
<1>3. faults' \in 0..MaxFaults
  <2>1. faults \in 0..MaxFaults  BY Facts
  <2> QED  BY <1>2, <2>1, EnsureAssumption
<1>4. Error(c).out \notin Successes /\ Error(c).pc # "list"
  BY <1>1 DEF Successes
<1> QED  BY <1>1, <1>2, <1>3, <1>4, ReadStep

LEMMA BeginStep ==
    ASSUME IInv, NEW c \in Clients, NEW want, Begin(c, want)
    PROVE  IInv'
<1>1. /\ Set(c, Fresh(want)) /\ runs < MaxRuns /\ runs' = runs + 1
      /\ UNCHANGED <<items, nextId, faults, backend, kind, debt, existed>>
  BY DEF Begin, platform
<1>2. GoodCall(Fresh(want), nextId) /\ Fresh(want).seen = {}  BY FreshGood
<1>3. nextId \in Nat /\ nextId' = nextId  BY <1>1, Facts
<1>4. CallsOK' /\ call'[c] = Fresh(want)
  BY <1>1, <1>2, <1>3, CallStep DEF IInv
<1>5. ItemsOK'  BY <1>1 DEF IInv, TypeInv, ItemsOK, Target
<1>6. CountsOK' /\ BackendOK'
  BY <1>1, EnsureAssumption DEF IInv, TypeInv, CountsOK, BackendOK
<1>7. \A d \in Clients : d # c => call'[d] = call[d]
  BY <1>1 DEF IInv, TypeInv, CallsOK, Set
<1>8. \A d \in Clients : Owes(d) => Owes(d)'
  BY <1>1, <1>2, <1>4, <1>7 DEF Owes
<1>9. DebtInv'
  <2>1. Target(items)' = Target(items)  BY <1>1 DEF Target
  <2> QED  BY <1>1, <1>8, <2>1 DEF IInv, DebtInv
<1> QED  BY <1>4, <1>5, <1>6, <1>9 DEF IInv, TypeInv

(* A page of the list: read on, or decide.                                 *)
LEMMA ListPageStep ==
    ASSUME IInv, NEW c \in Clients, ListPage(c)
    PROVE  IInv'
<1> DEFINE p == call[c].page
           got == Page(IF ignoresPage THEN 1 ELSE p)
           seen == call[c].seen \cup {[page |-> p, item |-> i] : i \in got}
           next == IF LastPage(p, got) THEN Decide(c, seen)
                   ELSE Turn(c, p + 1, seen)
<1>1. /\ call[c].pc = "list" /\ Set(c, next) /\ UNCHANGED platform
      /\ UNCHANGED faults /\ Record(c, FALSE, FALSE)
  BY DEF ListPage, Turn
<1>2. /\ GoodCall(call[c], nextId) /\ IsCall(call[c])
      /\ nextId \in Nat \ {0} /\ faults \in 0..MaxFaults
      /\ call[c].out = "" /\ p \in 1..MaxPages
  BY <1>1, Facts DEF GoodCall
<1>3. got \subseteq items  BY DEF Page
<1>4. EntriesOK(seen, nextId)
  <2>1. \A i \in got : i.id \in 1..(nextId - 1)
    BY <1>3 DEF IInv, TypeInv, ItemsOK
  <2>2. EntriesOK(call[c].seen, nextId)  BY <1>2 DEF GoodCall
  <2> HIDE DEF got
  <2>3. \A e \in {[page |-> p, item |-> i] : i \in got} :
            e.page \in 1..MaxPages /\ e.item.id \in 1..(nextId - 1)
    <3> SUFFICES ASSUME NEW i \in got
                 PROVE  LET e == [page |-> p, item |-> i]
                        IN  /\ e.page \in 1..MaxPages
                            /\ e.item.id \in 1..(nextId - 1)
      OBVIOUS
    <3>1. [page |-> p, item |-> i].page = p
          /\ [page |-> p, item |-> i].item = i
      OBVIOUS
    <3> HIDE DEF p
    <3> QED  BY <1>2, <2>1, <3>1
  <2> QED  BY <2>2, <2>3 DEF EntriesOK
<1>5. Target(items) = {} /\ Owes(c) =>
          \A e \in seen : e.item.name # "target"
  <2> SUFFICES ASSUME Target(items) = {}, Owes(c), NEW e \in seen
               PROVE  e.item.name # "target"
    OBVIOUS
  <2>1. CASE e \in call[c].seen  BY <1>1, <2>1 DEF Owes
  <2>2. CASE \E i \in got : e = [page |-> p, item |-> i]
    <3>1. PICK i \in got : e = [page |-> p, item |-> i]  BY <2>2
    <3>2. i \in items /\ e.item = i  BY <1>3, <3>1
    <3> QED  BY <3>2 DEF Target
  <2> QED  BY <2>1, <2>2
<1>6. "" \notin Successes  BY DEF Successes
<1> HIDE DEF seen, got, p
<1>7. /\ GoodCall(next, nextId)
      /\ Target(items) = {} /\ Owes(c) =>
            /\ next.out \notin Successes
            /\ next.pc = "list" =>
                  \A e \in next.seen : e.item.name # "target"
  <2>1. CASE LastPage(p, got)
    <3>1. next = Decide(c, seen) /\ GoodCall(Decide(c, seen), nextId)
      BY <1>1, <1>2, <1>4, <2>1, DecideGood
    <3>2. Target(items) = {} /\ Owes(c) =>
              Decide(c, seen).pc = "create" /\ Decide(c, seen).out = ""
      BY <1>2, <1>5, DecideOwes
    <3> QED  BY <1>6, <3>1, <3>2
  <2>2. CASE ~LastPage(p, got)
    <3>1. next = Turn(c, p + 1, seen)  BY <2>2
    <3>2. p + 1 \in 1..MaxPages
      <4>1. p \in 1..MaxPages /\ p # MaxPages
        BY <1>2, <2>2 DEF LastPage
      <4> QED  BY <4>1, EnsureAssumption
    <3>3. GoodCall(Turn(c, p + 1, seen), nextId)
      <4>1. call[c].pc # "done" /\ GoodCall(call[c], nextId)
        BY <1>1, <1>2
      <4> QED  BY <4>1, <1>4, <3>2, TurnGood
    <3>4. IsCall(call[c])  BY <1>2
    <3>5. Turn(c, p + 1, seen).out = call[c].out  BY <3>4, TurnFields
    <3>6. Turn(c, p + 1, seen).seen = seen  BY <3>4, TurnFields
    <3> QED  BY <1>2, <1>5, <1>6, <3>1, <3>3, <3>5, <3>6
  <2> QED  BY <2>1, <2>2
<1> HIDE DEF next
<1>8. faults' \in 0..MaxFaults
  <2>1. faults' = faults /\ faults \in 0..MaxFaults  BY <1>1, <1>2
  <2> QED  BY <2>1
<1>9. UNCHANGED platform /\ Set(c, next) /\ Record(c, FALSE, FALSE)
  BY <1>1
<1> QED  BY <1>7, <1>8, <1>9, ReadStep

(* A request that took effect.                                             *)
LEMMA WriteStep ==
    ASSUME IInv, NEW c \in Clients, NEW next, Answer(c, next), NEW w, NEW d,
           Record(c, w, d), ItemsOK', nextId <= nextId',
           GoodCall(next, nextId), DebtInv'
    PROVE  IInv'
<1>1. UNCHANGED <<runs, backend, kind>> /\ nextId' \in Nat
  BY DEF Record, ItemsOK
<1>2. CallsOK' /\ CountsOK'  BY <1>1, AnswerStep DEF IInv
<1>3. BackendOK'  BY <1>1 DEF IInv, TypeInv, BackendOK
<1> QED  BY <1>2, <1>3 DEF IInv, TypeInv

(* Any step that leaves an entry of the resource.                          *)
LEMMA MadeStep ==
    ASSUME IInv, NEW c \in Clients, NEW next, Answer(c, next), NEW w, NEW d,
           Record(c, w, d), ItemsOK', nextId <= nextId',
           GoodCall(next, nextId), Target(items') # {}
    PROVE  IInv'
<1>1. DebtInv'  BY DebtPaid DEF IInv
<1> QED  BY <1>1, WriteStep

LEMMA SucceedGood ==
    ASSUME IInv, NEW c \in Clients
    PROVE  GoodCall(Succeed(c), nextId)
<1>1. GoodCall(call[c], nextId)  BY Facts
<1>2. {"updated", "created"} \subseteq Successes  BY DEF Successes
<1> QED  BY <1>1, <1>2, ReturnGood DEF Succeed

LEMMA AddTargetItems ==
    ASSUME IInv, NEW body, AddTarget(body), UNCHANGED kind,
           kind = "rule" => Target(items) = {}
    PROVE  ItemsOK' /\ nextId <= nextId' /\ Target(items') # {}
<1> DEFINE new == [id |-> nextId, name |-> "target", body |-> body]
<1>1. /\ items' = items \cup {new} /\ nextId' = nextId + 1
      /\ new.id = nextId /\ new.name = "target"
  BY DEF AddTarget
<1>2. nextId \in Nat \ {0}  BY DEF IInv, TypeInv, ItemsOK
<1> HIDE DEF new
<1>3. Target(items') # {}  BY <1>1 DEF Target
<1>4. \A i \in items : i.id \in 1..(nextId - 1)
                        /\ i.name \in {"target", "other"}
  BY DEF IInv, TypeInv, ItemsOK
<1>5. \A i \in items : i.id \in 1..nextId /\ i.id # nextId
  BY <1>2, <1>4
<1>6. \A i \in items' : i.id \in 1..(nextId' - 1)
                         /\ i.name \in {"target", "other"}
  BY <1>1, <1>2, <1>4, <1>5
<1>7. \A i, j \in items' : i.id = j.id => i = j
  BY <1>1, <1>5 DEF IInv, TypeInv, ItemsOK
<1>8. kind' = "rule" =>
        Target(items)' = items' /\ \A i, j \in items' : i = j
  <2> SUFFICES ASSUME kind = "rule"
               PROVE  Target(items)' = items' /\ \A i, j \in items' : i = j
    OBVIOUS
  <2>1. items = {}  BY DEF IInv, TypeInv, ItemsOK
  <2>2. items' = {new}  BY <1>1, <2>1
  <2> QED  BY <1>1, <2>2 DEF Target
<1>9. nextId' \in Nat \ {0} /\ nextId <= nextId'  BY <1>1, <1>2
<1> QED  BY <1>3, <1>6, <1>7, <1>8, <1>9 DEF ItemsOK

LEMMA ReplaceRuleItems ==
    ASSUME IInv, NEW want, ReplaceRule(want), UNCHANGED kind,
           Target(items) # {}
    PROVE  ItemsOK' /\ nextId <= nextId' /\ Target(items') # {}
<1> DEFINE new(i) == [id |-> i.id, name |-> i.name,
                      body |-> UpdateRule(backend, i.body, want)]
<1>1. items' = {new(i) : i \in items} /\ nextId' = nextId
  BY DEF ReplaceRule
<1>2. \A i : new(i).id = i.id /\ new(i).name = i.name  OBVIOUS
<1>3. nextId \in Nat \ {0}  BY DEF IInv, TypeInv, ItemsOK
<1> HIDE DEF new
<1>4. \A j \in items' : \E i \in items :
          j = new(i) /\ j.id = i.id /\ j.name = i.name
  BY <1>1, <1>2
<1>5. Target(items') # {}
  <2>1. PICK i \in items : i.name = "target"  BY DEF Target
  <2> QED  BY <1>1, <1>2, <2>1 DEF Target
<1>6. \A i \in items' : i.id \in 1..(nextId' - 1)
                         /\ i.name \in {"target", "other"}
  BY <1>1, <1>4 DEF IInv, TypeInv, ItemsOK
<1>7. \A i, j \in items' : i.id = j.id => i = j
  BY <1>4 DEF IInv, TypeInv, ItemsOK
<1>8. kind' = "rule" =>
        Target(items)' = items' /\ \A i, j \in items' : i = j
  BY <1>4 DEF IInv, TypeInv, ItemsOK, Target
<1>9. nextId' \in Nat \ {0} /\ nextId <= nextId'  BY <1>1, <1>3
<1> QED  BY <1>5, <1>6, <1>7, <1>8, <1>9 DEF ItemsOK

LEMMA FewerItems ==
    ASSUME IInv, items' \subseteq items, UNCHANGED <<nextId, kind>>
    PROVE  ItemsOK' /\ nextId <= nextId'
<1>1. ItemsOK  BY DEF IInv, TypeInv
<1>2. Target(items)' = Target(items')  BY DEF Target
<1>3. kind = "rule" => Target(items') = items'
  BY <1>1 DEF ItemsOK, Target
<1> QED  BY <1>1, <1>2, <1>3 DEF ItemsOK

(* A step that deletes: what is left may lack the resource, and then the   *)
(* reconciler owes it.                                                     *)
LEMMA TakenStep ==
    ASSUME IInv, NEW c \in Clients, NEW next, Answer(c, next),
           Record(c, TRUE, TRUE), items' \subseteq items, UNCHANGED nextId,
           GoodCall(next, nextId), next.out = "", next.pc # "list"
    PROVE  IInv'
<1>1. UNCHANGED <<runs, kind>> /\ nextId \in Nat
  BY DEF Record, IInv, TypeInv, ItemsOK
<1>2. ItemsOK' /\ nextId <= nextId'  BY <1>1, FewerItems
<1>3. call'[c] = next \/ call'[c] = Error(c)
  BY <1>1, <1>2, AnswerStep DEF IInv
<1>4. Error(c).out = "error" /\ Error(c).pc = "done"
  BY ErrorGood DEF IInv
<1>5. call'[c].out \notin Successes /\ call'[c].pc # "list"
  BY <1>3, <1>4 DEF Successes
<1>6. DebtInv'  BY <1>5, DebtTaken DEF IInv
<1> QED  BY <1>2, <1>6, WriteStep

LEMMA DeleteEntryStep ==
    ASSUME IInv, NEW c \in Clients, DeleteEntry(c)
    PROVE  IInv'
<1> DEFINE e == First(call[c].todo)
           rest == call[c].todo \ {e}
<1>1. CASE Refused(c)  BY <1>1, RefusedStep
<1>2. CASE ~Refused(c)
  <2>1. /\ call[c].pc = "delete"
        /\ items' \subseteq items /\ UNCHANGED nextId
        /\ Answer(c, Shrink(c, rest)) /\ Record(c, TRUE, TRUE)
    BY <1>2 DEF DeleteEntry, Shrink
  <2>2. /\ GoodCall(call[c], nextId) /\ IsCall(call[c])
        /\ call[c].out = ""
    BY <2>1, Facts
  <2>3. rest \subseteq call[c].todo  OBVIOUS
  <2> HIDE DEF rest, e
  <2>4. GoodCall(Shrink(c, rest), nextId)
    BY <2>1, <2>2, <2>3, ShrinkGood
  <2>5. Shrink(c, rest).out = call[c].out  BY <2>1, <2>2, ShrinkFields
  <2>6. Shrink(c, rest).pc = IF rest = {} THEN "create" ELSE "delete"
    BY <2>1, <2>2, ShrinkFields
  <2>7. Shrink(c, rest).out = "" /\ Shrink(c, rest).pc # "list"
    BY <2>2, <2>5, <2>6
  <2> QED  BY <2>1, <2>4, <2>7, TakenStep
<1> QED  BY <1>1, <1>2

LEMMA CreateEntryStep ==
    ASSUME IInv, NEW c \in Clients, CreateEntry(c)
    PROVE  IInv'
<1>1. /\ AddTarget(Body(call[c].want)) /\ Answer(c, Succeed(c))
      /\ Record(c, TRUE, FALSE) /\ kind # "rule" /\ UNCHANGED kind
  BY DEF CreateEntry, Record
<1>2. ItemsOK' /\ nextId <= nextId' /\ Target(items') # {}
  BY <1>1, AddTargetItems
<1>3. GoodCall(Succeed(c), nextId)  BY SucceedGood
<1> QED  BY <1>1, <1>2, <1>3, MadeStep

-----------------------------------------------------------------------------
(* Branch protections.                                                     *)
LEMMA GotoStep ==
    ASSUME IInv, NEW c \in Clients, call[c].pc # "done",
           NEW pc \in Pcs \ {"delete", "done", "list"}
    PROVE  /\ GoodCall(Goto(c, pc), nextId) /\ Goto(c, pc).out = ""
           /\ Goto(c, pc).pc # "list"
<1>1. GoodCall(call[c], nextId)  BY Facts
<1>2. IsCall(call[c]) /\ call[c].out = ""  BY Facts
<1>3. GoodCall(Goto(c, pc), nextId)  BY <1>1, GotoGood
<1>4. IsCall(call[c])  BY <1>2
<1>5. Goto(c, pc).out = call[c].out  BY <1>4, GotoFields
<1>6. Goto(c, pc).pc = pc  BY <1>4, GotoFields
<1> QED  BY <1>2, <1>3, <1>5, <1>6

(* The call an update begins with.                                         *)
Found(c, pc) == [call[c] EXCEPT !.pc = pc, !.found = TRUE]
LEMMA FoundGood ==
    ASSUME IInv, NEW c \in Clients, call[c].pc # "done",
           NEW pc \in Pcs \ {"delete", "done", "list"}
    PROVE  /\ GoodCall(Found(c, pc), nextId) /\ Found(c, pc).out = ""
           /\ Found(c, pc).pc # "list"
<1>1. GoodCall(call[c], nextId) /\ call[c].out = ""  BY Facts
<1>2. call[c] \in CallShape(call[c])  BY <1>1 DEF GoodCall, IsCall
<1> DEFINE r == Found(c, pc)
<1>3. /\ r.pc = pc /\ r.out = call[c].out /\ r.seen = call[c].seen
      /\ r.todo = call[c].todo /\ r.page = call[c].page
  BY <1>2 DEF Found, CallShape
<1>4. IsCall(r)  BY <1>2 DEF Found, CallShape, IsCall
<1> HIDE DEF r
<1>5. GoodCall(r, nextId)  BY <1>1, <1>3, <1>4 DEF GoodCall
<1> QED  BY <1>1, <1>3, <1>5 DEF r

(* A read that goes on, or fails.                                          *)
LEMMA LookStep ==
    ASSUME IInv, NEW c \in Clients, call[c].pc # "done", NEW next,
           Set(c, next), UNCHANGED <<platform, faults>>,
           Record(c, FALSE, FALSE), GoodCall(next, nextId),
           Target(items) = {} => next.out \in {"", "error"} /\ next.pc # "list"
    PROVE  IInv'
<1>1. faults' \in 0..MaxFaults
  <2>1. faults \in 0..MaxFaults /\ faults' = faults  BY Facts
  <2> QED  BY <2>1
<1>2. Target(items) = {} => next.out \notin Successes /\ next.pc # "list"
  BY DEF Successes
<1>3. UNCHANGED platform  OBVIOUS
<1> QED  BY <1>1, <1>2, <1>3, ReadStep

LEMMA GetRuleStep ==
    ASSUME IInv, NEW c \in Clients, GetRule(c)
    PROVE  IInv'
<1> DEFINE update == Found(c, FirstUpdateStep(backend))
<1>1. /\ call[c].pc = "get" /\ UNCHANGED <<platform, faults>>
      /\ Record(c, FALSE, FALSE)
  BY DEF GetRule
<1>2. /\ FirstUpdateStep(backend) \in Pcs \ {"delete", "done", "list"}
      /\ FirstCreateStep(backend) \in Pcs \ {"delete", "done", "list"}
  BY DEF FirstUpdateStep, FirstCreateStep, Pcs
<1>3. /\ GoodCall(update, nextId) /\ update.out = ""
      /\ update.pc # "list"
  BY <1>1, <1>2, FoundGood
<1>4. GoodCall(Error(c), nextId) /\ Error(c).out = "error"
      /\ Error(c).pc = "done"
  BY ErrorGood DEF IInv
<1>5. GoodCall(Return(c, "unchanged"), nextId)
  <2>1. GoodCall(call[c], nextId)  BY Facts
  <2> QED  BY <2>1, ReturnGood DEF Successes
<1> DEFINE created == Goto(c, FirstCreateStep(backend))
<1>6. GoodCall(created, nextId) /\ created.out = "" /\ created.pc # "list"
  BY <1>1, <1>2, GotoStep
<1>7. \/ Set(c, update)
      \/ Target(items) # {} /\ Set(c, Return(c, "unchanged"))
      \/ Set(c, created)
      \/ Set(c, Error(c))
  BY DEF GetRule, Found
<1> HIDE DEF update, created
<1>8. CASE Set(c, update)  BY <1>1, <1>3, <1>8, LookStep
<1>9. CASE Target(items) # {} /\ Set(c, Return(c, "unchanged"))
  BY <1>1, <1>5, <1>9, LookStep
<1>10. CASE Set(c, created)  BY <1>1, <1>6, <1>10, LookStep
<1>11. CASE Set(c, Error(c))  BY <1>1, <1>4, <1>11, LookStep
<1> QED  BY <1>7, <1>8, <1>9, <1>10, <1>11

LEMMA RereadRuleStep ==
    ASSUME IInv, NEW c \in Clients, RereadRule(c)
    PROVE  IInv'
<1>1. /\ call[c].pc = "reread" /\ UNCHANGED <<platform, faults>>
      /\ Record(c, FALSE, FALSE)
      /\ \/ Set(c, Error(c)) \/ Set(c, Goto(c, "remove"))
         \/ Set(c, Goto(c, "write"))
  BY DEF RereadRule
<1>2. GoodCall(Error(c), nextId) /\ Error(c).out = "error"
      /\ Error(c).pc = "done"
  BY ErrorGood DEF IInv
<1>3. \A pc \in {"remove", "write"} :
          /\ GoodCall(Goto(c, pc), nextId) /\ Goto(c, pc).out = ""
          /\ Goto(c, pc).pc # "list"
  BY <1>1, GotoStep DEF Pcs
<1>4. CASE Set(c, Error(c))  BY <1>1, <1>2, <1>4, LookStep
<1>5. CASE Set(c, Goto(c, "remove"))  BY <1>1, <1>3, <1>5, LookStep
<1>6. CASE Set(c, Goto(c, "write"))  BY <1>1, <1>3, <1>6, LookStep
<1> QED  BY <1>1, <1>4, <1>5, <1>6

LEMMA RemoveRuleStep ==
    ASSUME IInv, NEW c \in Clients, RemoveRule(c)
    PROVE  IInv'
<1>1. CASE Refused(c)  BY <1>1, RefusedStep
<1>2. CASE ~Refused(c)
  <2>1. /\ call[c].pc = "remove" /\ items' \subseteq items
        /\ UNCHANGED nextId /\ Answer(c, Goto(c, "create"))
        /\ Record(c, TRUE, TRUE)
    BY <1>2 DEF RemoveRule
  <2>2. /\ GoodCall(Goto(c, "create"), nextId)
        /\ Goto(c, "create").out = "" /\ Goto(c, "create").pc # "list"
    BY <2>1, GotoStep DEF Pcs
  <2> QED  BY <2>1, <2>2, TakenStep
<1> QED  BY <1>1, <1>2

(* The write and the create of a rule put one in place or replace it.      *)
LEMMA PutRuleStep ==
    ASSUME IInv, NEW c \in Clients, UNCHANGED kind,
           IF Target(items) = {} THEN AddTarget(Body(call[c].want))
                                 ELSE ReplaceRule(call[c].want),
           Answer(c, Succeed(c)), Record(c, TRUE, FALSE)
    PROVE  IInv'
<1>1. ItemsOK' /\ nextId <= nextId' /\ Target(items') # {}
  <2>1. CASE Target(items) = {}  BY <2>1, AddTargetItems
  <2>2. CASE Target(items) # {}  BY <2>2, ReplaceRuleItems
  <2> QED  BY <2>1, <2>2
<1>2. GoodCall(Succeed(c), nextId)  BY SucceedGood
<1> QED  BY <1>1, <1>2, MadeStep

LEMMA WriteRuleStep ==
    ASSUME IInv, NEW c \in Clients, WriteRule(c)
    PROVE  IInv'
<1>1. CASE Refused(c)  BY <1>1, RefusedStep
<1>2. CASE ~Refused(c)
  <2>1. /\ IF Target(items) = {} THEN AddTarget(Body(call[c].want))
                                 ELSE ReplaceRule(call[c].want)
        /\ Answer(c, Succeed(c)) /\ Record(c, TRUE, FALSE)
    BY <1>2 DEF WriteRule
  <2>2. UNCHANGED kind  BY <2>1 DEF Record
  <2> QED  BY <2>1, <2>2, PutRuleStep
<1> QED  BY <1>1, <1>2

LEMMA CreateBranchProtectionStep ==
    ASSUME IInv, NEW c \in Clients, CreateBranchProtection(c)
    PROVE  IInv'
<1>1. CASE Refused(c)  BY <1>1, RefusedStep
<1>2. CASE ~Refused(c)
  <2>1. /\ IF Target(items) = {} THEN AddTarget(Body(call[c].want))
                                 ELSE ReplaceRule(call[c].want)
        /\ Answer(c, Succeed(c)) /\ Record(c, TRUE, FALSE)
    BY <1>2 DEF CreateBranchProtection
  <2>2. UNCHANGED kind  BY <2>1 DEF Record
  <2> QED  BY <2>1, <2>2, PutRuleStep
<1> QED  BY <1>1, <1>2

-----------------------------------------------------------------------------
LEMMA InitIInv == Init => IInv
<1> SUFFICES ASSUME Init PROVE IInv  OBVIOUS
<1>1. nextId = MaxInitial + 1 /\ nextId \in Nat \ {0}
  BY EnsureAssumption DEF Init
<1>2. /\ \A i \in items : i.id \in 1..MaxInitial
                           /\ i.name \in {"target", "other"}
      /\ \A i, j \in items : i.id = j.id => i = j
  <2>1. PICK k \in 0..MaxInitial :
          \E f \in [1..k -> [name : {"target", "other"},
                             want : Wants[kind]]] :
          items = {[id |-> n, name |-> f[n].name, body |-> Body(f[n].want)] :
                   n \in 1..k}
    BY DEF Init, InitialItems
  <2>f. PICK f \in [1..k -> [name : {"target", "other"},
                             want : Wants[kind]]] :
          items = {[id |-> n, name |-> f[n].name, body |-> Body(f[n].want)] :
                   n \in 1..k}
    BY <2>1
  <2> DEFINE new(n) == [id |-> n, name |-> f[n].name, body |-> Body(f[n].want)]
  <2>2. items = {new(n) : n \in 1..k}  BY <2>f
  <2>3. \A n \in 1..k : new(n).id = n /\ new(n).name = f[n].name
                        /\ f[n].name \in {"target", "other"}
    BY <2>1
  <2>4. 1..k \subseteq 1..MaxInitial  BY <2>1, EnsureAssumption
  <2> HIDE DEF new
  <2>5. \A i \in items : \E n \in 1..k :
            i = new(n) /\ i.id = n /\ i.name \in {"target", "other"}
    BY <2>2, <2>3
  <2> QED  BY <2>4, <2>5
<1>3. ItemsOK
  <2>1. nextId - 1 = MaxInitial  BY <1>1, EnsureAssumption
  <2>2. kind = "rule" =>
            Target(items) = items /\ \A i, j \in items : i = j
    BY DEF Init
  <2> QED  BY <1>1, <1>2, <2>1, <2>2 DEF ItemsOK
<1>4. CallsOK
  <2>1. call = [c \in Clients |-> [Fresh(None) EXCEPT !.pc = "done"]]
    BY DEF Init
  <2>2. GoodCall([Fresh(None) EXCEPT !.pc = "done"], nextId)
    BY FreshGood
  <2> QED  BY <2>1, <2>2 DEF CallsOK
<1>5. CountsOK /\ BackendOK
  BY EnsureAssumption DEF Init, CountsOK, BackendOK
<1>6. DebtInv  BY DEF Init, DebtInv
<1> QED  BY <1>3, <1>4, <1>5, <1>6 DEF IInv, TypeInv

LEMMA NextIInv == IInv /\ [Next]_vars => IInv'
<1> SUFFICES ASSUME IInv, [Next]_vars PROVE IInv'  OBVIOUS
<1>1. ASSUME UNCHANGED vars PROVE IInv'
  BY <1>1 DEF vars, platform, history, IInv, TypeInv, ItemsOK, CallsOK,
              CountsOK, BackendOK, DebtInv, Owes, Target
<1>2. ASSUME NEW c \in Clients, Step(c) PROVE IInv'
  BY <1>2, BeginStep, FailStep, ListPageStep, DeleteEntryStep,
     CreateEntryStep, GetRuleStep, RereadRuleStep, RemoveRuleStep,
     WriteRuleStep, CreateBranchProtectionStep DEF Step
<1>3. CASE Rest  BY <1>1, <1>3 DEF Rest
<1> QED  BY <1>1, <1>2, <1>3 DEF Next

LEMMA Invariance == Spec => []IInv
BY InitIInv, NextIInv, PTL DEF Spec

(* Calls, entries and counters keep their types: ids stay unique, a branch *)
(* has at most one rule, and a call that is to delete has something to.    *)
THEOREM EnsureTypeCorrect == Spec => []EnsureTypeOK
<1>1. IInv => EnsureTypeOK
  <2> SUFFICES ASSUME IInv PROVE EnsureTypeOK  OBVIOUS
  <2>1. BackendOK /\ ItemsOK /\ CountsOK  BY DEF IInv, TypeInv
  <2>2. ASSUME NEW c \in Clients
        PROVE  /\ call[c].pc \in Pcs
               /\ call[c].out \in Successes \cup {"", "error"}
               /\ call[c].page \in 1..MaxPages
               /\ \A e \in call[c].seen \cup call[c].todo :
                     /\ e.page \in 1..MaxPages
                     /\ e.item.id \in 1..(nextId - 1)
               /\ call[c].pc = "delete" => call[c].todo # {}
    <3>1. GoodCall(call[c], nextId)  BY Facts
    <3> QED  BY <3>1 DEF GoodCall, EntriesOK
  <2> QED  BY <2>1, <2>2 DEF EnsureTypeOK, BackendOK, ItemsOK, CountsOK
<1> QED  BY <1>1, Invariance, PTL

(* A resource that was there is missing only while a reconciler that       *)
(* deleted it owes the new one.                                            *)
THEOREM BareOnlyInDebtCorrect == Spec => []BareOnlyInDebt
<1>1. IInv => BareOnlyInDebt  BY DEF IInv, DebtInv, Owes, BareOnlyInDebt
<1> QED  BY <1>1, Invariance, PTL

-----------------------------------------------------------------------------
(* What the backends read back, operator by operator.                      *)
(* A target is recognised where the list tells its URL.                    *)
LEMMA RecognisedTold ==
    ASSUME BackendOK, NEW i
    PROVE  Recognised(i) <=> i.name = "target" /\ Told
<1>1. CASE kind # "hook"  BY <1>1 DEF Recognised, Told
<1>2. CASE kind = "hook"
  <2>1. ConvertHook(backend, i.body).url = "target" <=> backend # "github"
    BY DEF BackendOK, Backends, ConvertHook, GithubConvertHook,
           GitlabConvertHook, GiteaConvertHook, ForgejoConvertHook,
           GiteeConvertHook, GitcodeConvertHook, TencentcodeConvertWebhook
  <2> QED  BY <1>2, <2>1 DEF Recognised, Told
<1> QED  BY <1>1, <1>2

(* The events that gitlab and tencentcode give back for those they took.   *)
FlagNames(x) ==
    Image([PushEvents |-> "push", MergeRequestsEvents |-> "merge_request",
           TagPushEvents |-> "tag_push"], GitlabCreateWebhook(x))
LEMMA FlagsIdem ==
    ASSUME NEW w
    PROVE  FlagNames(FlagNames(w)) = FlagNames(w)
<1> DEFINE names(m, k) == {"push"} \cup If(m, "merge_request")
                                  \cup If(k, "tag_push")
<1>1. ASSUME NEW x
      PROVE  FlagNames(x) =
                names(x \cap MergeNames # {}, x \cap TagNames # {})
  BY DEF FlagNames, Image, GitlabCreateWebhook, If
<1>2. ASSUME NEW m \in BOOLEAN, NEW k \in BOOLEAN
      PROVE  /\ names(m, k) \cap MergeNames # {} <=> m
             /\ names(m, k) \cap TagNames # {} <=> k
  BY DEF If, MergeNames, TagNames
<1> DEFINE m == w \cap MergeNames # {}
           k == w \cap TagNames # {}
<1>3. FlagNames(w) = names(m, k)  BY <1>1
<1>4. /\ FlagNames(w) \cap MergeNames # {} <=> m
      /\ FlagNames(w) \cap TagNames # {} <=> k
  BY <1>2, <1>3
<1>5. FlagNames(FlagNames(w)) = names(FlagNames(w) \cap MergeNames # {},
                                     FlagNames(w) \cap TagNames # {})
  BY <1>1
<1> QED  BY <1>3, <1>4, <1>5

(* What a webhook or a key reads as, when asked for, reads as itself.      *)
LEMMA HookIdem ==
    ASSUME BackendOK, kind = "hook", NEW w
    PROVE  Shown(Body(Shown(Body(w)))) = Shown(Body(w))
<1>1. CASE backend \in {"github", "gitea", "forgejo", "gitcode"}
  BY <1>1 DEF Shown, Body, CreateWebhook, ConvertHook, GithubConvertHook,
     GiteaConvertHook, ForgejoConvertHook, GitcodeConvertHook,
     GithubCreateWebhook, GiteaCreateWebhook, ForgejoCreateWebhook,
     GitcodeCreateWebhook
<1>2. CASE backend = "gitlab"
  BY <1>2, FlagsIdem
     DEF Shown, Body, CreateWebhook, ConvertHook, GitlabConvertHook,
         FlagNames
<1>3. CASE backend = "tencentcode"
  <2>1. \A x : TencentcodeCreateWebhook(x) = GitlabCreateWebhook(x)
    BY DEF TencentcodeCreateWebhook, GitlabCreateWebhook
  <2> QED
    BY <1>3, <2>1, FlagsIdem
       DEF Shown, Body, CreateWebhook, ConvertHook,
           TencentcodeConvertWebhook, FlagNames
<1>4. CASE backend = "gitee"
  <2> DEFINE t == [PushEvents |-> "push", TagPushEvents |-> "tag_push",
                   IssuesEvents |-> "issues", NoteEvents |-> "note",
                   MergeRequestsEvents |-> "pull_request"]
  <2>1. \A x : x \in DOMAIN GiteeHookEventFlags =>
               GiteeHookEventFlags[x] \in DOMAIN t
    BY DEF GiteeHookEventFlags
  <2>2. \A y : y \in DOMAIN t => /\ t[y] \in DOMAIN GiteeHookEventFlags
                                /\ GiteeHookEventFlags[t[y]] = y
    BY DEF GiteeHookEventFlags
  <2> HIDE DEF t
  <2>3. ASSUME NEW x
        PROVE  Image(GiteeHookEventFlags,
                     Image(t, GiteeCreateWebhook(x))
                        \cap DOMAIN GiteeHookEventFlags)
                  = GiteeCreateWebhook(x)
    BY <2>1, <2>2 DEF Image, GiteeCreateWebhook
  <2>4. \A x : Shown(Body(x)) = Image(t, GiteeCreateWebhook(x))
    BY <1>4 DEF Shown, Body, CreateWebhook, ConvertHook, GiteeConvertHook, t
  <2>5. \A x : GiteeCreateWebhook(Image(t, GiteeCreateWebhook(x)))
                  = GiteeCreateWebhook(x)
    BY <2>3 DEF GiteeCreateWebhook
  <2> QED  BY <2>4, <2>5
<1> QED  BY <1>1, <1>2, <1>3, <1>4 DEF BackendOK, Backends

LEMMA KeyIdem ==
    ASSUME BackendOK, Supports(backend, kind), kind = "key",
           NEW w \in Wants["key"]
    PROVE  Shown(Body(Shown(Body(w)))) = Shown(Body(w))
<1>1. w = [key |-> w.key, readOnly |-> w.readOnly] /\ w.readOnly \in BOOLEAN
  BY WantsAssumption
<1>2. CASE backend \in {"github", "gitea", "forgejo", "gitcode"}
  BY <1>2 DEF Shown, Body, AddDeployKey, ConvertDeployKey, GithubDeployKey,
     GiteaDeployKey, ForgejoDeployKey, GitcodeDeployKey, GithubConvertKey,
     GiteaConvertKey, ForgejoConvertKey, GitcodeConvertKey
<1>3. CASE backend = "gitlab"
  <2>1. \A x : Shown(Body(x)) = [key |-> x.key, readOnly |-> ~ ~x.readOnly]
    BY <1>3 DEF Shown, Body, AddDeployKey, ConvertDeployKey,
       GitlabDeployKey, GitlabConvertKey
  <2>2. Shown(Body(w)) = w  BY <1>1, <2>1
  <2> QED  BY <2>2
<1>4. CASE backend = "gitee"
  <2>1. \A x : Shown(Body(x)) = [key |-> x.key, readOnly |-> FALSE]
    BY <1>4 DEF Shown, Body, AddDeployKey, ConvertDeployKey,
       GiteeDeployKey, GiteeConvertKey
  <2> QED  BY <2>1
<1> QED
  BY <1>2, <1>3, <1>4 DEF BackendOK, Backends, Supports

RuleFields == {"reviews", "checks", "force", "deletions"}
(* An update of any rule leaves the body a create does.                    *)
LEMMA RuleUpdate ==
    ASSUME BackendOK, Supports(backend, kind), kind = "rule", NEW w, NEW want
    PROVE  UpdateRule(backend, Body(w), want) = Body(want)
  BY DEF BackendOK, Backends, Supports, Body, UpdateRule, CreateRule,
     GithubUpdateRule, GitlabUpdateRule, GiteaUpdateRule, ForgejoUpdateRule,
     GitcodeUpdateRule, GiteeUpdateRule, GitlabCreateRule, GiteaCreateRule,
     ForgejoCreateRule, GiteeCreateRule

(* The fields a request carries are read back.                             *)
LEMMA RuleCarried ==
    ASSUME BackendOK, Supports(backend, kind), kind = "rule",
           backend # "gitee", NEW w, NEW f \in CarriedFields(backend)
    PROVE  Shown(Body(w))[f] = w[f]
  BY DEF BackendOK, Backends, Supports, Body, Shown, CreateRule, ConvertRule,
     CarriedFields,
     GitlabCreateRule, GiteaCreateRule, ForgejoCreateRule, GiteeCreateRule,
     GithubConvertProtection, GitlabConvertProtectedBranch,
     GiteaConvertProtection, ForgejoConvertProtection,
     GitcodeConvertProtectionRule

(* Where all fields are carried, that is the whole rule.                   *)
LEMMA RuleWhole ==
    ASSUME kind = "rule", backend \in {"github", "gitcode"},
           NEW w \in Wants["rule"], NEW want \in Wants["rule"],
           \A f \in CarriedFields(backend) : Shown(Body(w))[f] = want[f]
    PROVE  Shown(Body(w)) = want
<1>1. Shown(Body(w)) = w /\ CarriedFields(backend) = RuleFields
  BY DEF Body, Shown, CreateRule, ConvertRule, CarriedFields, RuleFields,
     GithubConvertProtection, GitcodeConvertProtectionRule
<1>2. \A f \in RuleFields : w[f] = want[f]  BY <1>1
<1>3. w.reviews = want.reviews /\ w.checks = want.checks
      /\ w.force = want.force /\ w.deletions = want.deletions
  BY <1>2 DEF RuleFields
<1> DEFINE rules == [reviews : Int, checks : BOOLEAN, force : BOOLEAN,
                     deletions : BOOLEAN]
<1>4. w \in rules /\ want \in rules  BY WantsAssumption
<1>5. \A r \in rules : r = [reviews |-> r.reviews, checks |-> r.checks,
                            force |-> r.force, deletions |-> r.deletions]
  OBVIOUS
<1> QED  BY <1>1, <1>3, <1>4, <1>5

-----------------------------------------------------------------------------
(* The walk over the pages.                                                *)
(* Division of a rank by the page size.                                    *)
LEMMA Division ==
    ASSUME NEW r \in Nat, NEW s \in Nat \ {0}
    PROVE  /\ r \div s \in Nat
           /\ s * (r \div s) <= r /\ r < s * ((r \div s) + 1)
  OBVIOUS

LEMMA DivisionAbove ==
    ASSUME NEW r \in Nat, NEW s \in Nat \ {0}, NEW n \in Nat
    PROVE  r < s * n <=> r \div s < n
<1> DEFINE d == r \div s
<1>1. d \in Nat /\ s * d <= r /\ r < s * (d + 1)  BY Division
<1> HIDE DEF d
<1>2. ASSUME n <= d PROVE s * n <= s * d  BY <1>1, <1>2
<1>3. ASSUME d + 1 <= n PROVE s * (d + 1) <= s * n  BY <1>1, <1>3
<1>4. s * n \in Nat /\ s * d \in Nat /\ s * (d + 1) \in Nat  BY <1>1
<1>5. CASE n <= d  BY <1>1, <1>2, <1>4, <1>5
<1>6. CASE d + 1 <= n  BY <1>1, <1>3, <1>4, <1>6
<1>7. n <= d \/ d + 1 <= n  BY <1>1
<1>8. r < s * n <=> d < n  BY <1>1, <1>5, <1>6, <1>7
<1> QED  BY <1>8 DEF d

(* The entries listed before one, and the place of it.                     *)
Before(S, i) == {j \in S : j.id < i.id}
Rank(S, i) == Cardinality(Before(S, i))

(* The list is finite, and an entry precedes the end of it.                *)
LEMMA ItemsFinite ==
    ASSUME ItemsOK
    PROVE  IsFiniteSet(items)
<1> DEFINE f == [i \in items |-> i.id]
<1>1. nextId - 1 \in Int  BY DEF ItemsOK
<1>2. IsFiniteSet(1..(nextId - 1))  BY <1>1, FS_Interval
<1>3. f \in Injection(items, 1..(nextId - 1))
  BY DEF ItemsOK, Injection, IsInjective
<1> HIDE DEF f
<1> QED  BY <1>2, <1>3, FS_Injection

LEMMA RankBound ==
    ASSUME ItemsOK, NEW i \in items
    PROVE  /\ IsFiniteSet(Before(items, i))
           /\ Rank(items, i) \in Nat
           /\ Rank(items, i) < Cardinality(items)
<1>1. IsFiniteSet(items)  BY ItemsFinite
<1>2. Before(items, i) \in SUBSET items /\ i \notin Before(items, i)
  BY DEF Before, ItemsOK
<1>3. IsFiniteSet(Before(items, i))
      /\ Cardinality(Before(items, i)) <= Cardinality(items)
      /\ Cardinality(Before(items, i)) # Cardinality(items)
  BY <1>1, <1>2, FS_Subset
<1>4. Cardinality(items) \in Nat /\ Cardinality(Before(items, i)) \in Nat
  BY <1>1, <1>3, FS_CardinalityType
<1> QED  BY <1>3, <1>4 DEF Rank

(* An entry that is not the first follows one whose rank is one less.      *)
LEMMA Predecessor ==
    ASSUME ItemsOK, NEW i \in items, Rank(items, i) # 0
    PROVE  \E m \in items : Rank(items, i) = Rank(items, m) + 1
<1> DEFINE B == Before(items, i)
           T == {nextId - j.id : j \in B}
<1>1. B # {} /\ IsFiniteSet(B)  BY RankBound, FS_EmptySet DEF Rank
<1>2. T \subseteq Nat /\ T # {}
  BY <1>1 DEF ItemsOK, Before
<1>3. PICK x \in T : \A y \in T : x <= y
  <2> HIDE DEF T
  <2> QED  BY <1>2, NatMin
<1>4. PICK m \in B : x = nextId - m.id  BY <1>3
<1>5. \A j \in B : j.id <= m.id
  <2> SUFFICES ASSUME NEW j \in B PROVE j.id <= m.id  OBVIOUS
  <2>1. nextId - m.id <= nextId - j.id  BY <1>3, <1>4
  <2>2. nextId \in Nat /\ m.id \in Nat /\ j.id \in Nat
    BY DEF ItemsOK, Before
  <2> QED  BY <2>1, <2>2
<1>6. B = Before(items, m) \cup {m} /\ m \notin Before(items, m) /\ m \in items
  BY <1>4, <1>5 DEF ItemsOK, Before
<1>7. IsFiniteSet(Before(items, m)) /\ Rank(items, m) \in Nat
  BY <1>6, RankBound
<1>8. Cardinality(B) = Rank(items, m) + 1
  BY <1>6, <1>7, FS_AddElement DEF Rank
<1> QED  BY <1>6, <1>8 DEF Rank

(* Nothing is listed after an empty page.                                  *)
LEMMA NoneAfterEmpty ==
    ASSUME ItemsOK, NEW p \in Nat \ {0}, Page(p) = {}, NEW k \in items
    PROVE  Rank(items, k) \div PageSize < p - 1
<1> DEFINE R(i) == Rank(items, i)
           T == {R(i) : i \in {j \in items : p - 1 <= R(j) \div PageSize}}
<1>1. PageSize \in Nat \ {0}  BY EnsureAssumption
<1>2. \A i \in items : R(i) \in Nat /\ R(i) \div PageSize \in Nat
  BY <1>1, RankBound, Division
<1>3. SUFFICES ASSUME T # {} PROVE FALSE  BY <1>2
<1>4. T \subseteq Nat  BY <1>2
<1>5. PICK r \in T : \A y \in T : r <= y
  <2> HIDE DEF T
  <2> QED  BY <1>3, <1>4, NatMin
<1>6. PICK i \in items : r = R(i) /\ p - 1 <= R(i) \div PageSize  BY <1>5
<1>7. R(i) \div PageSize # p - 1
  BY <1>6 DEF Page, Rank, Before
<1>8. p <= R(i) \div PageSize  BY <1>2, <1>6, <1>7
<1> HIDE DEF T
<1>9. /\ ~(R(i) < PageSize * p)
      /\ PageSize * p = PageSize * (p - 1) + PageSize
      /\ PageSize * p \in Nat /\ PageSize * (p - 1) \in Nat
  <2>1. ~(R(i) < PageSize * p)
    <3>1. R(i) \in Nat  BY <1>2
    <3>2. R(i) < PageSize * p <=> R(i) \div PageSize < p
      BY <1>1, <3>1, DivisionAbove
    <3> QED  BY <3>2, <1>8, <1>2
  <2>2. PageSize * p = PageSize * (p - 1) + PageSize  BY <1>1
  <2>3. PageSize * p \in Nat /\ PageSize * (p - 1) \in Nat  BY <1>1
  <2> QED  BY <2>1, <2>2, <2>3
<1>10. R(i) # 0  BY <1>1, <1>2, <1>9
<1>11. PICK m \in items : R(i) = R(m) + 1  BY <1>10, Predecessor
<1>12. ~(R(m) < PageSize * (p - 1))
  BY <1>1, <1>2, <1>9, <1>11
<1>13. p - 1 <= R(m) \div PageSize
  <2>1. R(m) \in Nat /\ p - 1 \in Nat  BY <1>2
  <2>2. R(m) < PageSize * (p - 1) <=> R(m) \div PageSize < p - 1
    BY <1>1, <2>1, DivisionAbove
  <2> QED  BY <1>2, <2>1, <2>2, <1>12
<1>14. R(m) \in T  BY <1>13 DEF T
<1> QED  BY <1>2, <1>5, <1>6, <1>11, <1>14

(* What a walk has read before page n.                                     *)
Answered(q) == Page(IF ignoresPage THEN 1 ELSE q)
Entries(q) == {[page |-> q, item |-> i] : i \in Answered(q)}
Walked(n) == UNION {Entries(q) : q \in 1..(n - 1)}

LEMMA WalkStarts == Walked(1) = {}
<1>1. 1..(1 - 1) = {}  OBVIOUS
<1> QED  BY <1>1 DEF Walked

LEMMA WalkGoesOn ==
    ASSUME NEW p \in Nat \ {0}
    PROVE  Walked(p + 1) = Walked(p) \cup Entries(p)
<1>1. 1..((p + 1) - 1) = 1..(p - 1) \cup {p}  OBVIOUS
<1> QED  BY <1>1 DEF Walked

LEMMA WalkEntries ==
    ASSUME NEW n, NEW e \in Walked(n)
    PROVE  /\ e = [page |-> e.page, item |-> e.item]
           /\ e.item \in items /\ e.page \in 1..(n - 1)
<1>1. PICK q \in 1..(n - 1) : e \in Entries(q)  BY DEF Walked
<1>2. PICK i \in Answered(q) : e = [page |-> q, item |-> i]
  BY <1>1 DEF Entries
<1>3. e.page = q /\ e.item = i  BY <1>2
<1>4. i \in items  BY DEF Answered, Page
<1> QED  BY <1>2, <1>3, <1>4

LEMMA WalkFinite ==
    ASSUME ItemsOK, NEW n \in Nat
    PROVE  IsFiniteSet(Walked(n))
<1> DEFINE f == [e \in Walked(n) |-> <<e.page, e.item>>]
<1>1. n - 1 \in Int  OBVIOUS
<1>2. IsFiniteSet(1..(n - 1))  BY <1>1, FS_Interval
<1>3. IsFiniteSet((1..(n - 1)) \X items)  BY <1>2, ItemsFinite, FS_Product
<1>4. f \in [Walked(n) -> (1..(n - 1)) \X items]  BY WalkEntries
<1>5. \A e, g \in Walked(n) : f[e] = f[g] => e = g
  <2> SUFFICES ASSUME NEW e \in Walked(n), NEW g \in Walked(n), f[e] = f[g]
               PROVE  e = g
    OBVIOUS
  <2>1. e = [page |-> e.page, item |-> e.item]  BY WalkEntries
  <2>2. g = [page |-> g.page, item |-> g.item]  BY WalkEntries
  <2>3. e.page = g.page /\ e.item = g.item  OBVIOUS
  <2> QED  BY <2>1, <2>2, <2>3
<1>6. f \in Injection(Walked(n), (1..(n - 1)) \X items)
  BY <1>4, <1>5 DEF Injection, IsInjective
<1> HIDE DEF f
<1> QED  BY <1>3, <1>6, FS_Injection

(* A walk that ends has read the whole of a list that fits.                *)
LEMMA WalkReadsAll ==
    ASSUME ItemsOK, NEW p \in 1..MaxPages, LastPage(p, Answered(p)),
           Cardinality(items) <= Reach, NEW i \in items
    PROVE  \E e \in Walked(p + 1) : e.item = i
<1> DEFINE q == IF SingleShot(backend, kind) \/ ignoresPage THEN 1
                ELSE (Rank(items, i) \div PageSize) + 1
<1>1. SUFFICES q \in 1..p /\ i \in Answered(q)
  <2>1. [page |-> q, item |-> i] \in Entries(q)  BY <1>1 DEF Entries
  <2>2. 1..((p + 1) - 1) = 1..p  BY EnsureAssumption
  <2>3. [page |-> q, item |-> i] \in Walked(p + 1)
    BY <1>1, <2>1, <2>2 DEF Walked
  <2>4. [page |-> q, item |-> i].item = i  OBVIOUS
  <2> QED  BY <2>3, <2>4
<1>2. /\ PageSize \in Nat \ {0} /\ MaxPages \in Nat \ {0}
      /\ PageSize * MaxPages \in Nat
  BY EnsureAssumption
<1>3. /\ Rank(items, i) \in Nat /\ Rank(items, i) < Cardinality(items)
      /\ Cardinality(items) \in Nat
      /\ Rank(items, i) \div PageSize \in Nat
  BY <1>2, RankBound, ItemsFinite, FS_CardinalityType, Division
<1>4. \A n \in Nat : i \in Page(n) <=> Rank(items, i) \div PageSize = n - 1
  BY DEF Page, Rank, Before
<1>5. CASE SingleShot(backend, kind) \/ ignoresPage
  <2>1. Rank(items, i) < PageSize * 1  BY <1>2, <1>3, <1>5 DEF Reach
  <2>2. Rank(items, i) \div PageSize < 1  BY <1>2, <1>3, <2>1, DivisionAbove
  <2>3. i \in Page(1)  BY <1>3, <1>4, <2>2
  <2>4. q = 1  BY <1>5
  <2> QED  BY <1>2, <1>5, <2>3, <2>4 DEF Answered
<1>6. CASE ~(SingleShot(backend, kind) \/ ignoresPage)
  <2>0. q = (Rank(items, i) \div PageSize) + 1  BY <1>6
  <2>1. Rank(items, i) < PageSize * MaxPages  BY <1>2, <1>3, <1>6 DEF Reach
  <2>2. Rank(items, i) \div PageSize < MaxPages
    BY <1>2, <1>3, <2>1, DivisionAbove
  <2>3. i \in Answered(q)  BY <1>3, <1>4, <1>6, <2>0 DEF Answered
  <2>4. CASE p = MaxPages  BY <1>2, <1>3, <2>0, <2>2, <2>3, <2>4
  <2>5. CASE p # MaxPages
    <3>1. Page(p) = {}  BY <1>6, <2>5 DEF LastPage, Answered
    <3>2. p \in Nat \ {0}  BY <1>2
    <3>3. Rank(items, i) \div PageSize < p - 1
      BY <3>1, <3>2, NoneAfterEmpty
    <3> QED  BY <1>2, <1>3, <2>0, <2>3, <3>2, <3>3
  <2> QED  BY <2>4, <2>5
<1> QED  BY <1>5, <1>6

-----------------------------------------------------------------------------
(* What is known of a call into which nobody else wrote.                   *)
(* What the platform shows of a content, for one entry and for the list.   *)
Agrees(i, w) ==
    IF kind = "rule"
    THEN backend # "gitee" =>
         \A f \in CarriedFields(backend) : Shown(i.body)[f] = w[f]
    ELSE Shown(i.body) = Shown(Body(w))
Wanted(S, w) ==
    /\ \E i \in Target(S) : Agrees(i, w)
    /\ kind = "hook" /\ Told => \A i, j \in Target(S) : i = j

(* Every entry was made from some content.                                 *)
MadeFrom(S) == \A i \in S : \E w \in Wants[kind] : i.body = Body(w)
AsksOK(r) ==
    /\ r.pc # "done" \/ r.out \in Successes => r.want \in Wants[kind]
    /\ r.pc \in {"list", "delete"} => kind # "rule"
    /\ r.pc \in {"get", "reread", "remove", "write"} => kind = "rule"

(* A lone call that replaces webhooks deletes all it could see.            *)
ReplaceOK(S, r) ==
    kind = "hook" /\ Told =>
    /\ r.pc = "delete" =>
          \A i \in Target(S) : \E e \in r.todo : e.item.id = i.id
    /\ r.pc = "create" => Target(S) = {}
DoneOK(S, r) == r.pc = "done" /\ r.out \in Successes => Wanted(S, r.want)

(* One of these deletes will find its entry gone.                          *)
Doomed(S, T) == \/ \E e \in T : \A i \in S : i.id # e.item.id
                \/ \E e, f \in T : e # f /\ e.item.id = f.item.id

(* A lone call for what is there goes on to write only where it is bound   *)
(* to fail, or where the title has a second key.                           *)
RerunOK(S, r) ==
    /\ r.pc \in {"list", "get"} => Wanted(S, r.want)
    /\ r.pc \notin {"reread", "remove", "write"}
    /\ r.pc = "delete" =>
          \/ kind = "hook" /\ Doomed(S, r.todo)
          \/ kind = "key" /\ \E i \in Target(S) :
                                \A e \in r.todo : e.item.id # i.id
    /\ r.pc = "create" => kind = "key" /\ Target(S) # {}
    /\ r.pc = "done" /\ r.out \in Successes \ {"unchanged"} =>
          kind = "key" /\ \E i, j \in Target(S) : i # j

LoneOK(S, r, fit, exp) ==
    fit => /\ ReplaceOK(S, r) /\ DoneOK(S, r)
           /\ exp /\ ReadsBack(r.want) => RerunOK(S, r)
WalkOK(r, fit) ==
    r.pc = "list" => /\ r.seen = Walked(r.page)
                     /\ fit => Cardinality(items) <= Reach

(* The invariant: entries are made from contents, what is settled is       *)
(* there, and a call into which nobody else wrote is where it should be.   *)
LoneInv ==
    /\ alone = [c \in Clients |-> alone[c]]
    /\ fits = [c \in Clients |-> fits[c]]
    /\ expect = [c \in Clients |-> expect[c]]
    /\ Supports(backend, kind) /\ MadeFrom(items)
    /\ \A c \in Clients : AsksOK(call[c])
    /\ \A w \in settled : Wanted(items, w)
    /\ \A c \in Clients :
          alone[c] => /\ LoneOK(items, call[c], fits[c], expect[c])
                      /\ WalkOK(call[c], fits[c])

-----------------------------------------------------------------------------
(* The reading of the platform does not change.                            *)
LEMMA SameShown ==
    ASSUME UNCHANGED <<backend, kind>>, NEW x
    PROVE  Shown(x)' = Shown(x) /\ Body(x)' = Body(x)
BY DEF Shown, Body

LEMMA SameReadsBack ==
    ASSUME UNCHANGED <<backend, kind>>, NEW w
    PROVE  ReadsBack(w)' <=> ReadsBack(w)
<1>1. \A x : Shown(x)' = Shown(x)  BY SameShown
<1>2. Body(w)' = Body(w)  BY SameShown
<1>3. Shown(Body(w))' = Shown(Body(w))  BY <1>1, <1>2
<1>4. ConvertHook(backend, Body(w))' = ConvertHook(backend, Body(w))
  BY <1>2
<1> QED  BY <1>3, <1>4 DEF ReadsBack

LEMMA SameWanted ==
    ASSUME UNCHANGED <<backend, kind>>, NEW S, NEW w
    PROVE  Wanted(S, w)' <=> Wanted(S, w)
<1>1. \A i : Agrees(i, w)' <=> Agrees(i, w)  BY SameShown DEF Agrees
<1> QED  BY <1>1 DEF Wanted, Told

LEMMA SameMadeFrom ==
    ASSUME UNCHANGED <<backend, kind>>, NEW S
    PROVE  MadeFrom(S)' <=> MadeFrom(S)
BY SameShown DEF MadeFrom

LEMMA SameAsks ==
    ASSUME UNCHANGED <<backend, kind>>, NEW r
    PROVE  AsksOK(r)' <=> AsksOK(r)
BY DEF AsksOK

LEMMA SameLone ==
    ASSUME UNCHANGED <<backend, kind>>, NEW S, NEW r, NEW fit, NEW exp
    PROVE  LoneOK(S, r, fit, exp)' <=> LoneOK(S, r, fit, exp)
<1>1. ReplaceOK(S, r)' <=> ReplaceOK(S, r)  BY DEF ReplaceOK, Told
<1>2. DoneOK(S, r)' <=> DoneOK(S, r)  BY SameWanted DEF DoneOK
<1>3. RerunOK(S, r)' <=> RerunOK(S, r)  BY SameWanted DEF RerunOK
<1> QED  BY <1>1, <1>2, <1>3, SameReadsBack DEF LoneOK

LEMMA SameWalk ==
    ASSUME UNCHANGED <<backend, kind, items, ignoresPage>>, NEW r, NEW fit
    PROVE  WalkOK(r, fit)' <=> WalkOK(r, fit)
<1>1. \A n : Walked(n)' = Walked(n)
  BY DEF Walked, Entries, Answered, Page
<1>2. Reach' = Reach  BY DEF Reach
<1> QED  BY <1>1, <1>2 DEF WalkOK

-----------------------------------------------------------------------------
(* A step of c: what has to be known of what it leaves.                    *)
StepShape(c, w) ==
    /\ UNCHANGED <<backend, kind, ignoresPage, fits, expect>>
    /\ \A d \in Clients : d # c => call'[d] = call[d]
    /\ alone' = IF w THEN [d \in Clients |-> d = c /\ alone[c]] ELSE alone
    /\ settled' = IF call'[c].out \in Successes /\ alone[c] /\ fits[c]
                  THEN {call[c].want}
                  ELSE IF w THEN {} ELSE settled

LEMMA LoneStep ==
    ASSUME LoneInv, NEW c \in Clients, NEW w \in BOOLEAN, StepShape(c, w),
           ~w => UNCHANGED items, MadeFrom(items'), AsksOK(call'[c]),
           call'[c].out \in Successes =>
               call'[c].pc = "done" /\ call'[c].want = call[c].want,
           alone[c] => /\ LoneOK(items', call'[c], fits[c], expect[c])
                       /\ call'[c].pc = "list" =>
                             ~w /\ WalkOK(call'[c], fits[c])
    PROVE  LoneInv'
<1>1. UNCHANGED <<backend, kind, ignoresPage, fits, expect>>
      /\ \A d \in Clients : d # c => call'[d] = call[d]
  BY DEF StepShape
<1>2. /\ alone' = [d \in Clients |-> alone'[d]]
      /\ fits' = [d \in Clients |-> fits'[d]]
      /\ expect' = [d \in Clients |-> expect'[d]]
  <2>1. alone' = [d \in Clients |-> alone'[d]]
    <3>1. CASE w  BY <3>1 DEF LoneInv, StepShape
    <3>2. CASE ~w  BY <3>2 DEF LoneInv, StepShape
    <3> QED  BY <3>1, <3>2
  <2> QED  BY <1>1, <2>1 DEF LoneInv
<1>3. /\ alone'[c] => alone[c]
      /\ \A d \in Clients : d # c /\ alone'[d] => alone[d] /\ ~w
  <2>1. CASE w  BY <2>1 DEF StepShape
  <2>2. CASE ~w  BY <2>2 DEF StepShape
  <2> QED  BY <2>1, <2>2
<1>4. Supports(backend, kind)'  BY <1>1 DEF LoneInv
<1>5. MadeFrom(items)'
  <2>1. \A S : MadeFrom(S)' <=> MadeFrom(S)  BY <1>1, SameMadeFrom
  <2> QED  BY <2>1
<1>6. ASSUME NEW d \in Clients PROVE AsksOK(call[d])'
  <2>1. AsksOK(call'[d])  BY <1>1 DEF LoneInv
  <2>2. \A r : AsksOK(r)' <=> AsksOK(r)  BY <1>1, SameAsks
  <2> QED  BY <2>1, <2>2
<1>7. ASSUME NEW x \in settled' PROVE Wanted(items, x)'
  <2>0. \A S : Wanted(S, x)' <=> Wanted(S, x)  BY <1>1, SameWanted
  <2>1. CASE call'[c].out \in Successes /\ alone[c] /\ fits[c]
    <3>1. x = call'[c].want  BY <1>7, <2>1 DEF StepShape
    <3>2. Wanted(items', x)  BY <2>1, <3>1 DEF LoneOK, DoneOK
    <3> QED  BY <2>0, <3>2
  <2>2. CASE ~(call'[c].out \in Successes /\ alone[c] /\ fits[c])
    <3>1. ~w /\ x \in settled
      <4>1. settled' = IF w THEN {} ELSE settled  BY <2>2 DEF StepShape
      <4> QED  BY <1>7, <4>1
    <3>2. Wanted(items, x) /\ items' = items  BY <3>1 DEF LoneInv
    <3> QED  BY <2>0, <3>2
  <2> QED  BY <2>1, <2>2
<1>8. ASSUME NEW d \in Clients, alone'[d]
      PROVE  /\ LoneOK(items, call[d], fits[d], expect[d])'
             /\ WalkOK(call[d], fits[d])'
  <2>0. \A S, r, fit, exp : LoneOK(S, r, fit, exp)' <=> LoneOK(S, r, fit, exp)
    BY <1>1, SameLone
  <2>1. LoneOK(items', call'[d], fits[d], expect[d])
    <3>1. CASE d = c  BY <1>3, <1>8, <3>1
    <3>2. CASE d # c
      <4>1. alone[d] /\ ~w /\ call'[d] = call[d]  BY <1>1, <1>3, <1>8, <3>2
      <4> QED  BY <4>1 DEF LoneInv
    <3> QED  BY <3>1, <3>2
  <2>2. LoneOK(items, call[d], fits[d], expect[d])'
    BY <1>1, <2>0, <2>1
  <2>3. WalkOK(call[d], fits[d])'
    <3>0. UNCHANGED items => \A r, fit : WalkOK(r, fit)' <=> WalkOK(r, fit)
      BY <1>1, SameWalk
    <3>1. CASE d = c
      <4>1. CASE call'[c].pc = "list"
        <5>1. ~w /\ WalkOK(call'[d], fits[d])  BY <1>3, <1>8, <3>1, <4>1
        <5> QED BY <1>1, <3>0, <5>1
      <4>2. CASE call'[c].pc # "list"  BY <3>1, <4>2 DEF WalkOK
      <4> QED  BY <4>1, <4>2
    <3>2. CASE d # c
      <4>1. alone[d] /\ ~w /\ call'[d] = call[d]  BY <1>1, <1>3, <1>8, <3>2
      <4>2. WalkOK(call'[d], fits[d])  BY <4>1 DEF LoneInv
      <4> QED  BY <1>1, <3>0, <4>1, <4>2
    <3> QED  BY <3>1, <3>2
  <2> QED  BY <2>2, <2>3
<1> QED  BY <1>2, <1>4, <1>5, <1>6, <1>7, <1>8 DEF LoneInv

-----------------------------------------------------------------------------
(* What the steps of such a call leave.                                    *)
(* A step of a call that is under way: what it leaves if it is answered.   *)
LEMMA LoneAct ==
    ASSUME IInv, LoneInv, NEW c \in Clients, call[c].pc # "done", NEW next,
           NEW w \in BOOLEAN, NEW del, Record(c, w, del),
           Set(c, next) \/ Set(c, Error(c)), ~w => UNCHANGED items,
           MadeFrom(items'), AsksOK(next), next.want = call[c].want,
           next.out \in Successes => next.pc = "done",
           next.pc = "list" => ~w,
           alone[c] => /\ LoneOK(items', next, fits[c], expect[c])
                       /\ WalkOK(next, fits[c])
    PROVE  LoneInv'
<1>1. /\ Error(c).pc = "done" /\ Error(c).out = "error"
  BY ErrorGood DEF IInv
<1>2. "error" \notin Successes  BY DEF Successes
<1>3. AsksOK(Error(c))  BY <1>1, <1>2 DEF AsksOK
<1>4. \A S, fit, exp : LoneOK(S, Error(c), fit, exp)
  BY <1>1, <1>2 DEF LoneOK, ReplaceOK, DoneOK, RerunOK
<1>5. /\ call'[c] = next \/ call'[c] = Error(c)
      /\ \A d \in Clients : d # c => call'[d] = call[d]
  BY DEF Set, IInv, TypeInv, CallsOK
<1>6. AsksOK(call'[c])  BY <1>3, <1>5
<1>7. call'[c].out \in Successes =>
         call'[c].pc = "done" /\ call'[c].want = call[c].want
  BY <1>1, <1>2, <1>5
<1>8. alone[c] => /\ LoneOK(items', call'[c], fits[c], expect[c])
                  /\ call'[c].pc = "list" => ~w /\ WalkOK(call'[c], fits[c])
  BY <1>1, <1>4, <1>5
<1>9. StepShape(c, w)  BY <1>5 DEF StepShape, Record
<1> QED  BY <1>6, <1>7, <1>8, <1>9, LoneStep

(* The records of a step keep what the call asked for.                     *)
LEMMA WantKept ==
    ASSUME NEW c \in Clients, IsCall(call[c])
    PROVE  /\ \A x : Goto(c, x).want = call[c].want
           /\ \A x : Return(c, x).want = call[c].want
           /\ \A x : Shrink(c, x).want = call[c].want
           /\ \A x : Found(c, x).want = call[c].want
           /\ \A x : Replace(c, x).want = call[c].want
           /\ \A x, y : Turn(c, x, y).want = call[c].want
<1>1. call[c] \in CallShape(call[c])  BY DEF IsCall
<1> QED
  BY <1>1 DEF CallShape, Goto, Return, Shrink, Found, Replace, Turn

LEMMA FoundFields ==
    ASSUME NEW c \in Clients, IsCall(call[c]), NEW pc
    PROVE  Found(c, pc).pc = pc /\ Found(c, pc).out = call[c].out
<1>1. call[c] \in CallShape(call[c])  BY DEF IsCall
<1> QED  BY <1>1 DEF CallShape, Found

(* A delete of an entry that is there.                                     *)
LEMMA DeleteLone ==
    ASSUME NEW S, NEW r, NEW q, NEW fit, NEW exp, LoneOK(S, r, fit, exp),
           r.pc = "delete", NEW e \in r.todo, NEW x \in S,
           x.id = e.item.id, q.todo = r.todo \ {e}, q.want = r.want,
           q.pc = IF q.todo = {} THEN "create" ELSE "delete"
    PROVE  LoneOK({i \in S : i.id # e.item.id}, q, fit, exp)
<1> DEFINE L == {i \in S : i.id # e.item.id}
<1> SUFFICES ASSUME fit
             PROVE  /\ ReplaceOK(L, q) /\ DoneOK(L, q)
                    /\ exp /\ ReadsBack(q.want) => RerunOK(L, q)
  BY DEF LoneOK
<1>1. Target(L) \subseteq Target(S)
      /\ \A i \in Target(S) : i \in Target(L) <=> i.id # e.item.id
  BY DEF Target
<1>2. ReplaceOK(L, q)
  <2> SUFFICES ASSUME kind = "hook", Told
               PROVE  \A i \in Target(L) : \E f \in q.todo : f.item.id = i.id
    BY DEF ReplaceOK
  <2>1. ReplaceOK(S, r)  BY DEF LoneOK
  <2> QED  BY <1>1, <2>1 DEF ReplaceOK
<1>3. DoneOK(L, q)  BY DEF DoneOK
<1>4. ASSUME exp, ReadsBack(q.want) PROVE RerunOK(L, q)
  <2>1. RerunOK(S, r)  BY <1>4 DEF LoneOK
  <2>2. CASE kind = "hook" /\ Doomed(S, r.todo)
    <3>1. Doomed(L, q.todo)
      <4>1. CASE \E g \in r.todo : \A i \in S : i.id # g.item.id
        BY <4>1 DEF Doomed
      <4>2. CASE \E f, g \in r.todo : f # g /\ f.item.id = g.item.id
        <5>1. PICK f \in r.todo, g \in r.todo : f # g /\ f.item.id = g.item.id
          BY <4>2
        <5>2. CASE f # e /\ g # e  BY <5>1, <5>2 DEF Doomed
        <5>3. CASE f = e  BY <5>1, <5>3 DEF Doomed
        <5>4. CASE g = e  BY <5>1, <5>4 DEF Doomed
        <5> QED  BY <5>2, <5>3, <5>4
      <4> QED  BY <2>2, <4>1, <4>2 DEF Doomed
    <3>2. q.todo # {}  BY <3>1 DEF Doomed
    <3> QED  BY <2>2, <3>1, <3>2 DEF RerunOK
  <2>3. CASE kind = "key" /\ \E i \in Target(S) :
                                \A f \in r.todo : f.item.id # i.id
    <3>1. PICK i \in Target(S) : \A f \in r.todo : f.item.id # i.id
      BY <2>3
    <3>2. i \in Target(L)  BY <1>1, <3>1
    <3> QED  BY <2>3, <3>1, <3>2 DEF RerunOK
  <2> QED  BY <2>1, <2>2, <2>3 DEF RerunOK
<1> QED  BY <1>2, <1>3, <1>4

(* A create ends the call.                                                 *)
LEMMA CreateLone ==
    ASSUME NEW S, NEW r, NEW q, NEW fit, NEW exp, LoneOK(S, r, fit, exp),
           r.pc = "create", kind # "rule", NEW x, x \notin S,
           x.name = "target", x.body = Body(r.want),
           q.pc = "done", q.want = r.want, q.out # "unchanged"
    PROVE  LoneOK(S \cup {x}, q, fit, exp)
<1> DEFINE L == S \cup {x}
<1> SUFFICES ASSUME fit
             PROVE  /\ ReplaceOK(L, q) /\ DoneOK(L, q)
                    /\ exp /\ ReadsBack(q.want) => RerunOK(L, q)
  BY DEF LoneOK
<1>1. Target(L) = Target(S) \cup {x} /\ x \notin Target(S)
  BY DEF Target
<1>2. ReplaceOK(L, q)  BY DEF ReplaceOK
<1>3. Wanted(L, q.want)
  <2>1. Agrees(x, q.want)  BY DEF Agrees
  <2>2. ASSUME kind = "hook", Told PROVE Target(S) = {}
    BY <2>2 DEF LoneOK, ReplaceOK
  <2> HIDE DEF L
  <2> QED  BY <1>1, <2>1, <2>2 DEF Wanted
<1>4. DoneOK(L, q)  BY <1>3 DEF DoneOK
<1>5. ASSUME exp, ReadsBack(q.want) PROVE RerunOK(L, q)
  <2>1. kind = "key" /\ Target(S) # {}  BY <1>5 DEF LoneOK, RerunOK
  <2> HIDE DEF L
  <2> QED  BY <1>1, <2>1 DEF RerunOK
<1> QED  BY <1>2, <1>4, <1>5

(* A branch protection that is put in place, and a call that is not done.  *)
LEMMA PutLone ==
    ASSUME NEW S, NEW q, NEW fit, NEW exp, kind = "rule", q.pc = "done",
           Wanted(S, q.want), fit /\ exp => ~ReadsBack(q.want)
    PROVE  LoneOK(S, q, fit, exp)
BY DEF LoneOK, ReplaceOK, DoneOK

LEMMA OnLone ==
    ASSUME NEW S, NEW q, NEW fit, NEW exp, kind = "rule", q.pc # "done",
           fit /\ exp => ~ReadsBack(q.want)
    PROVE  LoneOK(S, q, fit, exp)
BY DEF LoneOK, ReplaceOK, DoneOK

(* A call that is satisfied with what it finds.                            *)
LEMMA UnchangedLone ==
    ASSUME NEW S, NEW q, NEW fit, NEW exp, q.pc = "done",
           q.out = "unchanged", fit => Wanted(S, q.want)
    PROVE  LoneOK(S, q, fit, exp)
BY DEF LoneOK, ReplaceOK, DoneOK, RerunOK

-----------------------------------------------------------------------------
(* What the invariants say of one call.                                    *)
LEMMA LoneFacts ==
    ASSUME IInv, LoneInv, NEW c \in Clients
    PROVE  /\ IsCall(call[c]) /\ GoodCall(call[c], nextId) /\ AsksOK(call[c])
           /\ call[c].pc # "done" =>
                 call[c].want \in Wants[kind] /\ call[c].out = ""
           /\ alone[c] => LoneOK(items, call[c], fits[c], expect[c])
                          /\ WalkOK(call[c], fits[c])
           /\ BackendOK /\ ItemsOK /\ Supports(backend, kind)
           /\ MadeFrom(items)
<1>1. IsCall(call[c]) /\ GoodCall(call[c], nextId)
      /\ (call[c].pc # "done" => call[c].out = "")
  BY Facts
<1>2. AsksOK(call[c])  BY DEF LoneInv
<1> QED  BY <1>1, <1>2 DEF LoneInv, AsksOK, IInv, TypeInv

(* Calls that end in an error, and calls that begin.                       *)
LEMMA RefusedLone ==
    ASSUME IInv, LoneInv, NEW c \in Clients, call[c].pc # "done",
           Set(c, Error(c)), UNCHANGED platform, Record(c, FALSE, FALSE)
    PROVE  LoneInv'
<1>1. Error(c).pc = "done" /\ Error(c).out = "error"
      /\ Error(c).want = call[c].want
  BY ErrorGood, WantKept, LoneFacts DEF IInv, Error
<1>2. "error" \notin Successes  BY DEF Successes
<1>3. AsksOK(Error(c))  BY <1>1, <1>2 DEF AsksOK
<1>4. LoneOK(items', Error(c), fits[c], expect[c])
  BY <1>1, <1>2 DEF LoneOK, ReplaceOK, DoneOK, RerunOK
<1>5. WalkOK(Error(c), fits[c])  BY <1>1 DEF WalkOK
<1>6. MadeFrom(items') /\ UNCHANGED items  BY DEF LoneInv, platform
<1> QED  BY <1>1, <1>2, <1>3, <1>4, <1>5, <1>6, LoneAct

LEMMA FailLone ==
    ASSUME IInv, LoneInv, NEW c \in Clients, Fail(c)
    PROVE  LoneInv'
BY RefusedLone DEF Fail

LEMMA BeginLone ==
    ASSUME IInv, LoneInv, NEW c \in Clients, NEW want \in Wants[kind],
           Begin(c, want)
    PROVE  LoneInv'
<1> DEFINE r == Fresh(want)
<1>1. /\ Set(c, r) /\ alone' = [alone EXCEPT ![c] = TRUE]
      /\ fits' = [fits EXCEPT ![c] = Cardinality(items) <= Reach]
      /\ expect' = [expect EXCEPT ![c] = want \in settled]
      /\ UNCHANGED <<backend, kind, ignoresPage, items, settled>>
  BY DEF Begin, platform
<1>2. /\ call'[c] = r /\ \A d \in Clients : d # c => call'[d] = call[d]
  BY <1>1 DEF Set, IInv, TypeInv, CallsOK
<1>3. /\ r.pc = (IF kind = "rule" THEN "get" ELSE "list")
      /\ r.want = want /\ r.page = 1 /\ r.seen = {} /\ r.out = ""
  BY DEF Fresh
<1>4. /\ alone' = [d \in Clients |-> alone'[d]]
      /\ fits' = [d \in Clients |-> fits'[d]]
      /\ expect' = [d \in Clients |-> expect'[d]]
      /\ fits'[c] = (Cardinality(items) <= Reach)
      /\ expect'[c] = (want \in settled)
      /\ \A d \in Clients : d # c => /\ alone'[d] = alone[d]
                                     /\ fits'[d] = fits[d]
                                     /\ expect'[d] = expect[d]
  <2>1. alone' = [d \in Clients |-> alone'[d]]
        /\ \A d \in Clients : d # c => alone'[d] = alone[d]
    BY <1>1 DEF LoneInv
  <2>2. fits' = [d \in Clients |-> fits'[d]]
        /\ fits'[c] = (Cardinality(items) <= Reach)
        /\ \A d \in Clients : d # c => fits'[d] = fits[d]
    BY <1>1 DEF LoneInv
  <2>3. expect' = [d \in Clients |-> expect'[d]]
        /\ expect'[c] = (want \in settled)
        /\ \A d \in Clients : d # c => expect'[d] = expect[d]
    BY <1>1 DEF LoneInv
  <2> QED  BY <2>1, <2>2, <2>3
<1> HIDE DEF r
<1>5. AsksOK(r)  BY <1>3 DEF AsksOK
<1>6. LoneOK(items, r, fits'[c], expect'[c])
  <2>1. ReplaceOK(items, r) /\ DoneOK(items, r)
    BY <1>3 DEF ReplaceOK, DoneOK
  <2>2. expect'[c] => RerunOK(items, r)
    <3>1. expect'[c] => Wanted(items, want)  BY <1>4 DEF LoneInv
    <3> QED  BY <1>3, <3>1 DEF RerunOK
  <2> QED  BY <2>1, <2>2 DEF LoneOK
<1>7. WalkOK(r, fits'[c])  BY <1>3, <1>4, WalkStarts DEF WalkOK
<1>8. Supports(backend, kind)' /\ MadeFrom(items)'
  BY <1>1, SameMadeFrom DEF LoneInv
<1>9. ASSUME NEW d \in Clients PROVE AsksOK(call[d])'
  <2>1. AsksOK(call'[d])  BY <1>2, <1>5 DEF LoneInv
  <2>2. \A x : AsksOK(x)' <=> AsksOK(x)  BY <1>1, SameAsks
  <2> QED  BY <2>1, <2>2
<1>10. ASSUME NEW x \in settled' PROVE Wanted(items, x)'
  <2>1. \A S : Wanted(S, x)' <=> Wanted(S, x)  BY <1>1, SameWanted
  <2> QED  BY <1>1, <2>1 DEF LoneInv
<1>11. ASSUME NEW d \in Clients, alone'[d]
       PROVE  LoneOK(items, call[d], fits[d], expect[d])'
              /\ WalkOK(call[d], fits[d])'
  <2>1. \A S, x, fit, exp : LoneOK(S, x, fit, exp)' <=> LoneOK(S, x, fit, exp)
    BY <1>1, SameLone
  <2>2. \A x, fit : WalkOK(x, fit)' <=> WalkOK(x, fit)  BY <1>1, SameWalk
  <2>3. LoneOK(items, call'[d], fits'[d], expect'[d])
        /\ WalkOK(call'[d], fits'[d])
    BY <1>2, <1>4, <1>6, <1>7, <1>11 DEF LoneInv
  <2> QED  BY <1>1, <2>1, <2>2, <2>3
<1> QED  BY <1>4, <1>8, <1>9, <1>10, <1>11 DEF LoneInv

-----------------------------------------------------------------------------
(* The requests of the webhook and deploy key calls.                       *)
LEMMA DeleteEntryLone ==
    ASSUME IInv, LoneInv, NEW c \in Clients, DeleteEntry(c)
    PROVE  LoneInv'
<1> DEFINE e == First(call[c].todo)
           rest == call[c].todo \ {e}
           q == Shrink(c, rest)
<1>1. call[c].pc = "delete"  BY DEF DeleteEntry
<1>2. CASE Refused(c)  BY <1>1, <1>2, RefusedLone DEF Refused
<1>3. CASE ~Refused(c)
  <2>1. /\ \E i \in items : i.id = e.item.id
        /\ items' = {i \in items : i.id # e.item.id}
        /\ Answer(c, q) /\ Record(c, TRUE, TRUE)
    BY <1>3 DEF DeleteEntry, Shrink
  <2>2. /\ IsCall(call[c]) /\ call[c].want \in Wants[kind]
        /\ call[c].out = "" /\ GoodCall(call[c], nextId) /\ AsksOK(call[c])
    BY <1>1, LoneFacts
  <2>3. e \in call[c].todo
    <3>1. \A f \in call[c].todo : f.page \in Nat /\ f.item.id \in Nat
      <4>1. nextId \in Nat  BY Facts
      <4>2. EntriesOK(call[c].todo, nextId)  BY <2>2 DEF GoodCall
      <4> HIDE DEF e
      <4> QED  BY <4>1, <4>2, EnsureAssumption DEF EntriesOK
    <3>2. call[c].todo # {}  BY <1>1, <2>2 DEF GoodCall
    <3> QED  BY <3>1, <3>2, FirstIn
  <2> HIDE DEF e
  <2>4. /\ q.pc = (IF rest = {} THEN "create" ELSE "delete")
        /\ q.todo = rest /\ q.out = "" /\ q.want = call[c].want
    <3>1. q.pc = (IF rest = {} THEN "create" ELSE "delete")
      BY <1>1, <2>2, ShrinkFields
    <3>2. q.todo = rest  BY <1>1, <2>2, ShrinkFields
    <3>3. q.out = call[c].out  BY <1>1, <2>2, ShrinkFields
    <3>4. q.want = call[c].want  BY <2>2, WantKept
    <3> QED  BY <2>2, <3>1, <3>2, <3>3, <3>4
  <2> HIDE DEF q
  <2>5. ASSUME alone[c]
        PROVE  LoneOK(items', q, fits[c], expect[c])
    <3>1. LoneOK(items, call[c], fits[c], expect[c])
      BY <2>5, LoneFacts
    <3>2. PICK x \in items : x.id = e.item.id  BY <2>1
    <3>3. /\ q.todo = call[c].todo \ {e} /\ q.want = call[c].want
          /\ q.pc = IF q.todo = {} THEN "create" ELSE "delete"
      BY <2>4
    <3> HIDE DEF rest
    <3>4. LoneOK({i \in items : i.id # e.item.id}, q, fits[c], expect[c])
      BY <1>1, <2>3, <3>1, <3>2, <3>3, DeleteLone
    <3> QED  BY <2>1, <3>4
  <2>6. WalkOK(q, fits[c])  BY <2>4 DEF WalkOK
  <2>7. AsksOK(q)  BY <1>1, <2>2, <2>4 DEF AsksOK
  <2>8. MadeFrom(items')  BY <2>1 DEF LoneInv, MadeFrom
  <2>9. Set(c, q) \/ Set(c, Error(c))  BY <2>1 DEF Answer
  <2>10. q.out \notin Successes  BY <2>4 DEF Successes
  <2> QED
    BY <1>1, <2>1, <2>4, <2>5, <2>6, <2>7, <2>8, <2>9, <2>10, LoneAct
<1> QED  BY <1>2, <1>3

LEMMA SucceedFields ==
    ASSUME IInv, LoneInv, NEW c \in Clients, call[c].pc # "done"
    PROVE  /\ Succeed(c).pc = "done" /\ Succeed(c).want = call[c].want
           /\ Succeed(c).out \in Successes /\ Succeed(c).out # "unchanged"
           /\ AsksOK(Succeed(c)) /\ \A fit : WalkOK(Succeed(c), fit)
<1>1. IsCall(call[c]) /\ call[c].want \in Wants[kind]  BY LoneFacts
<1>2. \A x : /\ Return(c, x).pc = "done" /\ Return(c, x).out = x
             /\ Return(c, x).want = call[c].want
  BY <1>1, ReturnFields, WantKept
<1>3. /\ Succeed(c).pc = "done" /\ Succeed(c).want = call[c].want
      /\ Succeed(c).out \in {"created", "updated"}
  BY <1>2 DEF Succeed
<1>4. AsksOK(Succeed(c)) /\ \A fit : WalkOK(Succeed(c), fit)
  BY <1>1, <1>3 DEF AsksOK, WalkOK
<1> QED  BY <1>3, <1>4 DEF Successes

LEMMA AddedMadeFrom ==
    ASSUME IInv, LoneInv, NEW w \in Wants[kind], AddTarget(Body(w))
    PROVE  \E x : /\ items' = items \cup {x} /\ x \notin items
                  /\ x.name = "target" /\ x.body = Body(w)
                  /\ MadeFrom(items')
<1> DEFINE x == [id |-> nextId, name |-> "target", body |-> Body(w)]
<1>1. items' = items \cup {x}  BY DEF AddTarget
<1>2. x.id = nextId /\ x.name = "target" /\ x.body = Body(w)  OBVIOUS
<1> HIDE DEF x
<1>3. \A i \in items : i.id # nextId
  BY DEF IInv, TypeInv, ItemsOK
<1>4. MadeFrom(items')  BY <1>1, <1>2 DEF LoneInv, MadeFrom
<1> QED  BY <1>1, <1>2, <1>3, <1>4

LEMMA CreateEntryLone ==
    ASSUME IInv, LoneInv, NEW c \in Clients, CreateEntry(c)
    PROVE  LoneInv'
<1> DEFINE q == Succeed(c)
<1>1. /\ call[c].pc = "create" /\ kind # "rule"
      /\ AddTarget(Body(call[c].want)) /\ Answer(c, q)
      /\ Record(c, TRUE, FALSE)
  BY DEF CreateEntry
<1>2. call[c].want \in Wants[kind]  BY <1>1, LoneFacts
<1>3. PICK x : /\ items' = items \cup {x} /\ x \notin items
               /\ x.name = "target" /\ x.body = Body(call[c].want)
               /\ MadeFrom(items')
  BY <1>1, <1>2, AddedMadeFrom
<1>4. /\ q.pc = "done" /\ q.want = call[c].want /\ q.out # "unchanged"
      /\ AsksOK(q) /\ WalkOK(q, fits[c])
  BY <1>1, SucceedFields
<1>5. Set(c, q) \/ Set(c, Error(c))  BY <1>1 DEF Answer
<1> HIDE DEF q
<1>6. ASSUME alone[c] PROVE LoneOK(items', q, fits[c], expect[c])
  <2>1. LoneOK(items, call[c], fits[c], expect[c])  BY <1>6, LoneFacts
  <2>2. LoneOK(items \cup {x}, q, fits[c], expect[c])
    BY <1>1, <1>3, <1>4, <2>1, CreateLone
  <2> QED  BY <1>3, <2>2
<1> QED  BY <1>1, <1>3, <1>4, <1>5, <1>6, LoneAct

-----------------------------------------------------------------------------
(* What a lone call that updates a branch protection knows: it is not one  *)
(* that repeats a call.                                                    *)
LEMMA PutRuleLone ==
    ASSUME IInv, LoneInv, NEW c \in Clients, kind = "rule",
           call[c].pc \in {"write", "create"},
           IF Target(items) = {} THEN AddTarget(Body(call[c].want))
                                 ELSE ReplaceRule(call[c].want),
           Answer(c, Succeed(c)), Record(c, TRUE, FALSE)
    PROVE  LoneInv'
<1> DEFINE q == Succeed(c)
           want == call[c].want
<1>1. want \in Wants[kind] /\ BackendOK /\ Supports(backend, kind)
      /\ ItemsOK /\ MadeFrom(items)
  BY LoneFacts
<1>2. /\ q.pc = "done" /\ q.want = want /\ AsksOK(q) /\ WalkOK(q, fits[c])
  BY SucceedFields
<1>3. Set(c, q) \/ Set(c, Error(c))  BY DEF Answer
<1>4. \A i : i.body = Body(want) => Agrees(i, want)
  BY <1>1, RuleCarried DEF Agrees
<1>5. MadeFrom(items') /\ Wanted(items', want)
  <2>1. CASE Target(items) = {}
    <3>1. PICK x : /\ items' = items \cup {x} /\ x.name = "target"
                   /\ x.body = Body(want) /\ MadeFrom(items')
      BY <1>1, <2>1, AddedMadeFrom
    <3> QED  BY <1>4, <3>1 DEF Wanted, Target
  <2>2. CASE Target(items) # {}
    <3> DEFINE new(i) == [id |-> i.id, name |-> i.name,
                          body |-> UpdateRule(backend, i.body, want)]
    <3>1. items' = {new(i) : i \in items}  BY <2>2 DEF ReplaceRule
    <3>2. \A i : new(i).name = i.name
                 /\ new(i).body = UpdateRule(backend, i.body, want)
      OBVIOUS
    <3> HIDE DEF new
    <3>3. \A i \in items : new(i).body = Body(want)
      BY <1>1, <3>2, RuleUpdate DEF MadeFrom
    <3>4. MadeFrom(items')  BY <1>1, <3>1, <3>3 DEF MadeFrom
    <3>5. PICK i \in items : i.name = "target"  BY <2>2 DEF Target
    <3>6. new(i) \in Target(items') /\ Agrees(new(i), want)
      BY <1>4, <3>1, <3>2, <3>3, <3>5 DEF Target
    <3> QED  BY <3>4, <3>6 DEF Wanted
  <2> QED  BY <2>1, <2>2
<1> HIDE DEF q
<1>6. ASSUME alone[c] PROVE LoneOK(items', q, fits[c], expect[c])
  <2>1. LoneOK(items, call[c], fits[c], expect[c])  BY <1>6, LoneFacts
  <2>2. fits[c] /\ expect[c] => ~ReadsBack(want)
    BY <2>1 DEF LoneOK, RerunOK
  <2> QED  BY <1>2, <1>5, <2>2, PutLone
<1>7. call[c].pc # "done" /\ q.pc # "list"  BY <1>2
<1> QED  BY <1>2, <1>3, <1>5, <1>6, <1>7, LoneAct

LEMMA WriteRuleLone ==
    ASSUME IInv, LoneInv, NEW c \in Clients, WriteRule(c)
    PROVE  LoneInv'
<1>1. call[c].pc = "write"  BY DEF WriteRule
<1>2. CASE Refused(c)  BY <1>1, <1>2, RefusedLone DEF Refused
<1>3. CASE ~Refused(c)
  <2>1. kind = "rule"  BY <1>1, LoneFacts DEF AsksOK
  <2>2. /\ IF Target(items) = {} THEN AddTarget(Body(call[c].want))
                                 ELSE ReplaceRule(call[c].want)
        /\ Answer(c, Succeed(c)) /\ Record(c, TRUE, FALSE)
    BY <1>3 DEF WriteRule
  <2> QED  BY <1>1, <2>1, <2>2, PutRuleLone
<1> QED  BY <1>2, <1>3

LEMMA CreateBranchProtectionLone ==
    ASSUME IInv, LoneInv, NEW c \in Clients, CreateBranchProtection(c)
    PROVE  LoneInv'
<1>1. call[c].pc = "create" /\ kind = "rule"
  BY DEF CreateBranchProtection
<1>2. CASE Refused(c)  BY <1>1, <1>2, RefusedLone DEF Refused
<1>3. CASE ~Refused(c)
  <2>2. /\ IF Target(items) = {} THEN AddTarget(Body(call[c].want))
                                 ELSE ReplaceRule(call[c].want)
        /\ Answer(c, Succeed(c)) /\ Record(c, TRUE, FALSE)
    BY <1>3 DEF CreateBranchProtection
  <2> QED  BY <1>1, <2>2, PutRuleLone
<1> QED  BY <1>2, <1>3

(* A call about a branch protection that goes on.                          *)
LEMMA RuleOnStep ==
    ASSUME IInv, LoneInv, NEW c \in Clients, NEW q, NEW w \in BOOLEAN,
           kind = "rule", call[c].pc # "done",
           q.pc \in {"create", "reread", "remove", "write"}, q.out = "",
           q.want = call[c].want,
           alone[c] /\ fits[c] /\ expect[c] => ~ReadsBack(call[c].want),
           Set(c, q) \/ Set(c, Error(c)), Record(c, w, w),
           w = FALSE => items' = items, items' \subseteq items
    PROVE  LoneInv'
<1>1. call[c].want \in Wants[kind]  BY LoneFacts
<1>2. AsksOK(q)  BY <1>1 DEF AsksOK
<1>3. MadeFrom(items')  BY DEF LoneInv, MadeFrom
<1>4. alone[c] => LoneOK(items', q, fits[c], expect[c])
  BY OnLone
<1>5. WalkOK(q, fits[c])  BY DEF WalkOK
<1>6. q.out \notin Successes /\ q.pc # "list"  BY DEF Successes
<1> QED  BY <1>2, <1>3, <1>4, <1>5, <1>6, LoneAct

LEMMA RemoveRuleLone ==
    ASSUME IInv, LoneInv, NEW c \in Clients, RemoveRule(c)
    PROVE  LoneInv'
<1>1. call[c].pc = "remove"  BY DEF RemoveRule
<1>2. CASE Refused(c)  BY <1>1, <1>2, RefusedLone DEF Refused
<1>3. CASE ~Refused(c)
  <2>1. kind = "rule" /\ IsCall(call[c]) /\ call[c].out = ""
    BY <1>1, LoneFacts DEF AsksOK
  <2>2. /\ items' \subseteq items /\ Answer(c, Goto(c, "create"))
        /\ Record(c, TRUE, TRUE)
    BY <1>3 DEF RemoveRule
  <2>3. Goto(c, "create").pc = "create"  BY <2>1, GotoFields
  <2>4. Goto(c, "create").out = call[c].out  BY <2>1, GotoFields
  <2>5. Goto(c, "create").want = call[c].want  BY <2>1, WantKept
  <2>6. alone[c] /\ fits[c] /\ expect[c] => ~ReadsBack(call[c].want)
    BY <1>1, LoneFacts DEF LoneOK, RerunOK
  <2>7. Set(c, Goto(c, "create")) \/ Set(c, Error(c))
    BY <2>2 DEF Answer
  <2> DEFINE q == Goto(c, "create")
  <2> HIDE DEF q
  <2>8. q.pc = "create" /\ q.out = "" /\ q.want = call[c].want
        /\ (Set(c, q) \/ Set(c, Error(c)))
    BY <2>1, <2>3, <2>4, <2>5, <2>7 DEF q
  <2>9. call[c].pc # "done"  BY <1>1
  <2>10. q.pc \in {"create", "reread", "remove", "write"}  BY <2>8
  <2>11. Record(c, TRUE, TRUE) /\ items' \subseteq items
    BY <2>2
  <2>12. kind = "rule" /\ q.out = "" /\ q.want = call[c].want
    BY <2>1, <2>8
  <2>13. Set(c, q) \/ Set(c, Error(c))  BY <2>8
  <2> QED
    BY <2>6, <2>9, <2>10, <2>11, <2>12, <2>13, RuleOnStep
<1> QED  BY <1>2, <1>3

LEMMA RereadRuleLone ==
    ASSUME IInv, LoneInv, NEW c \in Clients, RereadRule(c)
    PROVE  LoneInv'
<1>1. /\ call[c].pc = "reread" /\ UNCHANGED platform
      /\ Record(c, FALSE, FALSE) /\ UNCHANGED items
      /\ \/ Set(c, Error(c)) \/ Set(c, Goto(c, "remove"))
         \/ Set(c, Goto(c, "write"))
  BY DEF RereadRule, platform
<1>2. kind = "rule" /\ IsCall(call[c]) /\ call[c].out = ""
  BY <1>1, LoneFacts DEF AsksOK
<1>3. alone[c] /\ fits[c] /\ expect[c] => ~ReadsBack(call[c].want)
  BY <1>1, LoneFacts DEF LoneOK, RerunOK
<1>4. ASSUME NEW pc \in {"remove", "write"}, Set(c, Goto(c, pc))
      PROVE  LoneInv'
  <2> DEFINE q == Goto(c, pc)
  <2>1. q.pc = pc  BY <1>2, GotoFields
  <2>2. q.out = call[c].out  BY <1>2, GotoFields
  <2>3. q.want = call[c].want  BY <1>2, WantKept
  <2>4. Set(c, q)  BY <1>4
  <2> HIDE DEF q
  <2>5. /\ call[c].pc # "done"
        /\ q.pc \in {"create", "reread", "remove", "write"} /\ q.out = ""
    BY <1>1, <1>2, <2>1, <2>2
  <2>6. Record(c, FALSE, FALSE) /\ items' = items /\ items' \subseteq items
    BY <1>1
  <2>7. kind = "rule" /\ (Set(c, q) \/ Set(c, Error(c)))  BY <1>2, <2>4
  <2> QED  BY <1>3, <2>3, <2>5, <2>6, <2>7, RuleOnStep
<1>5. CASE Set(c, Error(c))  BY <1>1, <1>5, RefusedLone
<1> QED  BY <1>1, <1>4, <1>5

(* A rule that carries what a repeated call asks for reads as that.        *)
LEMMA RerunReads ==
    ASSUME IInv, LoneInv, NEW c \in Clients, call[c].pc = "get", alone[c],
           fits[c], expect[c], ReadsBack(call[c].want)
    PROVE  /\ backend \in {"github", "gitcode"} /\ Target(items) # {}
           /\ \A r \in Target(items) : Shown(r.body) = call[c].want
<1>1. /\ kind = "rule" /\ call[c].want \in Wants["rule"] /\ ItemsOK
      /\ MadeFrom(items)
  BY LoneFacts DEF AsksOK
<1>2. backend \in {"github", "gitcode"}
  <2>1. ReadsBack(call[c].want) = (backend \in {"github", "gitcode"})
    BY <1>1 DEF ReadsBack
  <2> QED  BY <2>1
<1>3. Wanted(items, call[c].want)  BY LoneFacts DEF LoneOK, RerunOK
<1>4. PICK i \in Target(items) : Agrees(i, call[c].want)
  BY <1>3 DEF Wanted
<1>5. PICK w \in Wants["rule"] : i.body = Body(w)
  BY <1>1 DEF MadeFrom, Target
<1>6. Shown(i.body) = call[c].want
  BY <1>1, <1>2, <1>4, <1>5, RuleWhole DEF Agrees
<1>7. \A r \in Target(items) : r = i  BY <1>1 DEF ItemsOK, Target
<1> QED  BY <1>2, <1>4, <1>6, <1>7

LEMMA GetRuleLone ==
    ASSUME IInv, LoneInv, NEW c \in Clients, GetRule(c)
    PROVE  LoneInv'
<1>1. /\ call[c].pc = "get" /\ UNCHANGED platform /\ UNCHANGED items
      /\ Record(c, FALSE, FALSE)
  BY DEF GetRule, platform
<1>2. kind = "rule" /\ IsCall(call[c]) /\ call[c].out = "" /\ MadeFrom(items)
      /\ call[c].want \in Wants[kind]
  BY <1>1, LoneFacts DEF AsksOK
<1>3. alone[c] /\ fits[c] /\ expect[c] /\ ReadsBack(call[c].want) =>
         /\ backend # "gitee" /\ Target(items) # {}
         /\ \A r \in Target(items) : Shown(r.body) = call[c].want
  BY <1>1, RerunReads
<1>4. ASSUME NEW q, Set(c, q),
             q.pc \in {"create", "reread", "remove", "write"}, q.out = "",
             q.want = call[c].want,
             alone[c] /\ fits[c] /\ expect[c] => ~ReadsBack(call[c].want)
      PROVE  LoneInv'
  <2>1. call[c].pc # "done"  BY <1>1
  <2>2. Record(c, FALSE, FALSE) /\ items' = items /\ items' \subseteq items
    BY <1>1
  <2>3. kind = "rule" /\ (Set(c, q) \/ Set(c, Error(c)))  BY <1>2, <1>4
  <2> QED  BY <1>4, <2>1, <2>2, <2>3, RuleOnStep
<1> DEFINE update == Found(c, FirstUpdateStep(backend))
           made == Goto(c, FirstCreateStep(backend))
<1>5. /\ update.pc \in {"reread", "write"} /\ update.out = ""
      /\ update.want = call[c].want
  <2>1. FirstUpdateStep(backend) \in {"reread", "write"}
    BY DEF FirstUpdateStep
  <2> QED  BY <1>2, <2>1, FoundFields, WantKept
<1>6. /\ made.pc \in {"reread", "create"} /\ made.out = ""
      /\ made.want = call[c].want
  <2>1. FirstCreateStep(backend) \in {"reread", "create"}
    BY DEF FirstCreateStep
  <2>2. made.pc = FirstCreateStep(backend)  BY <1>2, GotoFields
  <2>3. made.out = call[c].out  BY <1>2, GotoFields
  <2> QED  BY <1>2, <2>1, <2>2, <2>3, WantKept
<1>7. \/ backend = "gitee" /\ Set(c, update)
      \/ \E r \in Target(items) :
            Shown(r.body) = call[c].want /\ Set(c, Return(c, "unchanged"))
      \/ \E r \in Target(items) :
            Shown(r.body) # call[c].want /\ Set(c, update)
      \/ Target(items) = {} /\ Set(c, made)
      \/ Set(c, Error(c))
  BY DEF GetRule, Found
<1> HIDE DEF update, made
<1>8. CASE backend = "gitee" /\ Set(c, update)
  BY <1>3, <1>4, <1>5, <1>8
<1>9. CASE \E r \in Target(items) :
              Shown(r.body) # call[c].want /\ Set(c, update)
  BY <1>3, <1>4, <1>5, <1>9
<1>10. CASE Target(items) = {} /\ Set(c, made)
  BY <1>3, <1>4, <1>6, <1>10
<1>11. CASE Set(c, Error(c))  BY <1>1, <1>11, RefusedLone
<1>12. CASE \E r \in Target(items) :
              Shown(r.body) = call[c].want /\ Set(c, Return(c, "unchanged"))
  <2> DEFINE q == Return(c, "unchanged")
  <2>0. IsCall(call[c])  BY <1>2
  <2>1. q.pc = "done"  BY <2>0, ReturnFields
  <2>2. q.out = "unchanged"  BY <2>0, ReturnFields
  <2>3. q.want = call[c].want  BY <1>2, WantKept
  <2>4. Set(c, q)  BY <1>12
  <2> HIDE DEF q
  <2>5. PICK r \in Target(items) : Shown(r.body) = call[c].want
    BY <1>12
  <2>6. Wanted(items, q.want)  BY <1>2, <2>3, <2>5 DEF Wanted, Agrees
  <2>7. LoneOK(items', q, fits[c], expect[c])
    BY <1>1, <2>1, <2>2, <2>6, UnchangedLone
  <2>8. AsksOK(q) /\ WalkOK(q, fits[c])
    BY <1>2, <2>1, <2>3 DEF AsksOK, WalkOK
  <2>9. MadeFrom(items')  BY <1>1, <1>2
  <2>10. call[c].pc # "done"  BY <1>1
  <2> QED
    BY <1>1, <2>1, <2>3, <2>4, <2>7, <2>8, <2>9, <2>10, LoneAct
<1> QED  BY <1>7, <1>8, <1>9, <1>10, <1>11, <1>12

-----------------------------------------------------------------------------
(* What a lone call does with a list that it read whole.                   *)
LEMMA DecideWebhookLone ==
    ASSUME IInv, LoneInv, NEW c \in Clients, NEW seen, IsFiniteSet(seen),
           kind = "hook", call[c].pc = "list",
           LoneOK(items, call[c], TRUE, expect[c]),
           \A e \in seen : e.item \in items,
           \A i \in items : \E e \in seen : e.item = i
    PROVE  LoneOK(items, DecideWebhook(c, seen), TRUE, expect[c])
<1> DEFINE M == {e \in seen : Recognised(e.item)}
           want == call[c].want
<1>1. /\ IsCall(call[c]) /\ BackendOK /\ MadeFrom(items) /\ ItemsOK
      /\ call[c].out = ""
  BY LoneFacts
<1>2. /\ \A i : Recognised(i) <=> i.name = "target" /\ Told
      /\ \A e \in M : e.item \in Target(items)
      /\ Told => \A i \in Target(items) : \E e \in M : e.item = i
  BY <1>1, RecognisedTold DEF Target
<1>3. IsFiniteSet(M)  BY FS_Subset
<1>4. expect[c] /\ ReadsBack(want) => Wanted(items, want)
  BY DEF LoneOK, RerunOK
<1>5. ReadsBack(want) <=>
          /\ ConvertHook(backend, Body(want)).url = "target"
          /\ Shown(Body(want)) = want
  BY DEF ReadsBack
<1>6. ReadsBack(want) => Told
  <2>1. ConvertHook("github", Body(want)).url # "target"
    BY DEF ConvertHook, GithubConvertHook
  <2> QED  BY <1>5, <2>1 DEF Told
<1> HIDE DEF M
<1>7. CASE Cardinality(M) = 1 /\ \A e \in M : Shown(e.item.body) = want
  <2> DEFINE q == Return(c, "unchanged")
  <2>1. q = DecideWebhook(c, seen)  BY <1>7 DEF DecideWebhook, M
  <2>2. q.pc = "done" /\ q.out = "unchanged" /\ q.want = want
    <3>1. IsCall(call[c])  BY <1>1
    <3>2. q.pc = "done"  BY <3>1, ReturnFields
    <3>3. q.out = "unchanged"  BY <3>1, ReturnFields
    <3>4. q.want = want  BY <3>1, WantKept
    <3> QED  BY <3>2, <3>3, <3>4
  <2> HIDE DEF q
  <2>3. PICK e : M = {e}  BY <1>3, <1>7, FS_Singleton
  <2>4. e.item \in Target(items) /\ Shown(e.item.body) = want
    BY <1>2, <1>7, <2>3
  <2>5. PICK w \in Wants[kind] : e.item.body = Body(w)
    BY <1>1, <2>4 DEF MadeFrom, Target
  <2>6. Shown(Body(want)) = want
    <3>1. Shown(Body(Shown(Body(w)))) = Shown(Body(w))  BY <1>1, HookIdem
    <3>2. want = Shown(Body(w))  BY <2>4, <2>5
    <3> QED  BY <3>1, <3>2
  <2>7. Agrees(e.item, want)  BY <2>4, <2>6 DEF Agrees
  <2>8. Told => \A i, j \in Target(items) : i = j  BY <1>2, <2>3
  <2>9. Wanted(items, want)  BY <2>4, <2>7, <2>8 DEF Wanted
  <2> QED  BY <2>1, <2>2, <2>9, UnchangedLone
<1>8. CASE ~(Cardinality(M) = 1 /\ \A e \in M : Shown(e.item.body) = want)
  <2> DEFINE q == Replace(c, M)
  <2>1. q = DecideWebhook(c, seen)  BY <1>8 DEF DecideWebhook, M
  <2>2. IsCall(call[c])  BY <1>1
  <2>3. M = {} => q.pc = "create"  BY <2>2, ReplaceFields
  <2>4. M # {} => q.pc = "delete"  BY <2>2, ReplaceFields
  <2>5. q.todo = M  BY <2>2, ReplaceFields
  <2>6. q.want = want  BY <2>2, WantKept
  <2> HIDE DEF q
  <2>7. q.pc \in {"create", "delete"}  BY <2>3, <2>4
  <2>8. ReplaceOK(items, q)  BY <1>2, <2>3, <2>4, <2>5 DEF ReplaceOK
  <2>9. DoneOK(items, q)  BY <2>7 DEF DoneOK
  <2>10. ASSUME expect[c], ReadsBack(q.want) PROVE RerunOK(items, q)
    <3>1. Wanted(items, want) /\ Told /\ Shown(Body(want)) = want
      BY <1>4, <1>5, <1>6, <2>6, <2>10
    <3>2. PICK i \in Target(items) : Shown(i.body) = want
      BY <3>1 DEF Wanted, Agrees
    <3>3. \A j \in Target(items) : j = i  BY <3>1 DEF Wanted
    <3>4. \A e \in M : e.item = i  BY <1>2, <3>3
    <3>5. PICK e \in M : e.item = i  BY <1>2, <3>1
    <3>6. \A f \in M : Shown(f.item.body) = want  BY <3>2, <3>4
    <3>7. M # {e}
      <4>1. Cardinality({e}) = 1  BY FS_Singleton
      <4> QED  BY <1>8, <3>6, <4>1
    <3>8. PICK f \in M : f # e  BY <3>5, <3>7
    <3>9. Doomed(items, q.todo)  BY <2>5, <3>4, <3>5, <3>8 DEF Doomed
    <3>10. q.pc = "delete"  BY <2>4, <3>5
    <3> QED  BY <3>9, <3>10 DEF RerunOK
  <2> QED  BY <2>1, <2>8, <2>9, <2>10 DEF LoneOK
<1> QED  BY <1>7, <1>8

LEMMA DecideDeployKeyLone ==
    ASSUME IInv, LoneInv, NEW c \in Clients, NEW seen,
           kind = "key", call[c].pc = "list",
           LoneOK(items, call[c], TRUE, expect[c]),
           \A e \in seen : e.item \in items /\ e.page \in Nat
    PROVE  LoneOK(items, DecideDeployKey(c, seen), TRUE, expect[c])
<1> DEFINE M == {e \in seen : Recognised(e.item)}
           want == call[c].want
           e == First(M)
<1>1. /\ IsCall(call[c]) /\ BackendOK /\ MadeFrom(items) /\ ItemsOK
      /\ Supports(backend, kind)
  BY LoneFacts
<1>2. \A f \in M : f.item \in Target(items)
  BY <1>1, RecognisedTold DEF Target
<1>3. expect[c] /\ ReadsBack(want) =>
         /\ Shown(Body(want)) = want
         /\ \E i \in Target(items) : Shown(i.body) = want
  <2>1. ReadsBack(want) => Shown(Body(want)) = want  BY DEF ReadsBack
  <2>2. expect[c] /\ ReadsBack(want) => Wanted(items, want)
    BY DEF LoneOK, RerunOK
  <2> QED  BY <2>1, <2>2 DEF Wanted, Agrees
<1>4. M # {} => e \in M
  <2>1. \A f \in M : f.page \in Nat /\ f.item.id \in Nat
    <3>1. \A i \in items : i.id \in Nat  BY <1>1 DEF ItemsOK
    <3> QED  BY <3>1
  <2> HIDE DEF M
  <2> QED  BY <2>1, FirstIn
<1> HIDE DEF M
<1>5. CASE M = {}
  <2> DEFINE q == Replace(c, {})
  <2>1. q = DecideDeployKey(c, seen)  BY <1>5 DEF DecideDeployKey, M
  <2>2. IsCall(call[c])  BY <1>1
  <2>3. q.pc = "create"  BY <2>2, ReplaceFields
  <2>4. q.want = want  BY <2>2, WantKept
  <2> HIDE DEF q
  <2> QED
    BY <1>3, <2>1, <2>3, <2>4 DEF LoneOK, ReplaceOK, DoneOK, RerunOK
<1>6. CASE M # {} /\ Shown(e.item.body) = want
  <2> DEFINE q == Return(c, "unchanged")
  <2>1. q = DecideDeployKey(c, seen)  BY <1>6 DEF DecideDeployKey, M
  <2>2. q.pc = "done" /\ q.out = "unchanged" /\ q.want = want
    BY <1>1, ReturnFields, WantKept
  <2> HIDE DEF q, e
  <2>3. e.item \in Target(items)  BY <1>2, <1>4, <1>6
  <2>4. PICK w \in Wants[kind] : e.item.body = Body(w)
    BY <1>1, <2>3 DEF MadeFrom, Target
  <2>5. Shown(Body(want)) = want  BY <1>1, <1>6, <2>4, KeyIdem
  <2>6. Wanted(items, want)  BY <1>6, <2>3, <2>5 DEF Wanted, Agrees
  <2> QED  BY <2>1, <2>2, <2>6, UnchangedLone
<1>7. CASE M # {} /\ Shown(e.item.body) # want
  <2> DEFINE q == Replace(c, {e})
  <2>1. q = DecideDeployKey(c, seen)  BY <1>7 DEF DecideDeployKey, M
  <2>2. IsCall(call[c]) /\ {e} # {}  BY <1>1
  <2> HIDE DEF e
  <2>3. q.pc = "delete"  BY <2>2, ReplaceFields
  <2>4. q.todo = {e}  BY <2>2, ReplaceFields
  <2>5. q.want = want  BY <2>2, WantKept
  <2> HIDE DEF q
  <2>6. ASSUME expect[c], ReadsBack(want) PROVE RerunOK(items, q)
    <3>1. PICK i \in Target(items) : Shown(i.body) = want
      BY <1>3, <2>6
    <3>2. e.item \in items /\ i \in items /\ e.item # i
      BY <1>2, <1>4, <1>7, <3>1 DEF Target
    <3>3. e.item.id # i.id  BY <1>1, <3>2 DEF ItemsOK
    <3> QED  BY <2>3, <2>4, <3>1, <3>3 DEF RerunOK
  <2> QED  BY <2>1, <2>3, <2>5, <2>6 DEF LoneOK, ReplaceOK, DoneOK
<1> QED  BY <1>5, <1>6, <1>7

LEMMA DecideShape ==
    ASSUME NEW c \in Clients, NEW seen, IsCall(call[c])
    PROVE  /\ Decide(c, seen).want = call[c].want
           /\ \/ Decide(c, seen).pc = "done"
                 /\ Decide(c, seen).out = "unchanged"
              \/ Decide(c, seen).pc \in {"create", "delete"}
                 /\ Decide(c, seen).out = call[c].out
<1>1. \/ Decide(c, seen) = Return(c, "unchanged")
      \/ \E S : Decide(c, seen) = Replace(c, S)
  BY DEF Decide, DecideWebhook, DecideDeployKey
<1>2. CASE Decide(c, seen) = Return(c, "unchanged")
  BY <1>2, ReturnFields, WantKept
<1>3. ASSUME NEW S, Decide(c, seen) = Replace(c, S)
      PROVE  /\ Decide(c, seen).want = call[c].want
             /\ Decide(c, seen).pc \in {"create", "delete"}
             /\ Decide(c, seen).out = call[c].out
  <2>1. S = {} => Replace(c, S).pc = "create"  BY ReplaceFields
  <2>2. S # {} => Replace(c, S).pc = "delete"  BY ReplaceFields
  <2>3. Replace(c, S).out = call[c].out  BY ReplaceFields
  <2>4. Replace(c, S).want = call[c].want  BY WantKept
  <2> QED  BY <1>3, <2>1, <2>2, <2>3, <2>4
<1> QED  BY <1>1, <1>2, <1>3

LEMMA ListPageLone ==
    ASSUME IInv, LoneInv, NEW c \in Clients, ListPage(c)
    PROVE  LoneInv'
<1> DEFINE p == call[c].page
           got == Answered(p)
           seen == call[c].seen \cup {[page |-> p, item |-> i] : i \in got}
           q == IF LastPage(p, got) THEN Decide(c, seen)
                ELSE Turn(c, p + 1, seen)
<1>1. /\ call[c].pc = "list" /\ Set(c, q) /\ items' = items
      /\ Record(c, FALSE, FALSE)
  BY DEF ListPage, Turn, Answered, platform
<1>2. /\ IsCall(call[c]) /\ call[c].out = "" /\ kind # "rule"
      /\ GoodCall(call[c], nextId) /\ call[c].want \in Wants[kind]
      /\ MadeFrom(items) /\ ItemsOK /\ BackendOK
  BY <1>1, LoneFacts DEF AsksOK
<1>3. p \in 1..MaxPages /\ p \in Nat \ {0}
  <2>1. p \in 1..MaxPages  BY <1>2 DEF GoodCall
  <2> QED  BY <2>1, EnsureAssumption
<1>4. ASSUME alone[c]
      PROVE  /\ seen = Walked(p + 1)
             /\ fits[c] => Cardinality(items) <= Reach
             /\ LoneOK(items, call[c], fits[c], expect[c])
  <2>1. /\ WalkOK(call[c], fits[c])
        /\ LoneOK(items, call[c], fits[c], expect[c])
    BY <1>4, LoneFacts
  <2>2. call[c].seen = Walked(p) /\ (fits[c] => Cardinality(items) <= Reach)
    BY <1>1, <2>1 DEF WalkOK
  <2>3. seen = Walked(p) \cup Entries(p)  BY <2>2 DEF Entries
  <2>4. Walked(p + 1) = Walked(p) \cup Entries(p)  BY <1>3, WalkGoesOn
  <2> QED  BY <2>1, <2>2, <2>3, <2>4
<1> HIDE DEF seen
<1>5. CASE ~LastPage(p, got)
  <2>1. q = Turn(c, p + 1, seen)  BY <1>5
  <2>2. /\ q.pc = "list" /\ q.seen = seen /\ q.page = p + 1 /\ q.out = ""
        /\ q.want = call[c].want
    <3> DEFINE n == p + 1
               t == Turn(c, n, seen)
    <3>1. IsCall(call[c])  BY <1>2
    <3> HIDE DEF n
    <3>2. t.pc = call[c].pc  BY <3>1, TurnFields
    <3>3. t.seen = seen  BY <3>1, TurnFields
    <3>4. t.page = n  BY <3>1, TurnFields
    <3>5. t.out = call[c].out  BY <3>1, TurnFields
    <3>6. t.want = call[c].want  BY <3>1, WantKept
    <3>7. t = q  BY <2>1 DEF n
    <3> HIDE DEF t, q, p
    <3> QED  BY <1>1, <1>2, <3>2, <3>3, <3>4, <3>5, <3>6, <3>7 DEF n
  <2> HIDE DEF q, p
  <2>3. AsksOK(q)  BY <1>2, <2>2 DEF AsksOK
  <2>4. ASSUME alone[c]
        PROVE  LoneOK(items', q, fits[c], expect[c]) /\ WalkOK(q, fits[c])
    <3>1. WalkOK(q, fits[c])  BY <1>4, <2>2, <2>4 DEF WalkOK
    <3>2. LoneOK(items, q, fits[c], expect[c])
      BY <1>1, <1>4, <2>2, <2>4 DEF LoneOK, ReplaceOK, DoneOK, RerunOK
    <3> QED  BY <1>1, <3>1, <3>2
  <2>5. q.out \notin Successes  BY <2>2 DEF Successes
  <2>6. call[c].pc # "done" /\ MadeFrom(items')  BY <1>1, <1>2
  <2> QED  BY <1>1, <2>2, <2>3, <2>4, <2>5, <2>6, LoneAct
<1>6. CASE LastPage(p, got)
  <2>1. q = Decide(c, seen)  BY <1>6
  <2>2. /\ q.want = call[c].want
        /\ \/ q.pc = "done" /\ q.out = "unchanged"
           \/ q.pc \in {"create", "delete"} /\ q.out = ""
    BY <1>2, <2>1, DecideShape
  <2>3. AsksOK(q)  BY <1>2, <2>2 DEF AsksOK
  <2>4. WalkOK(q, fits[c])  BY <2>2 DEF WalkOK
  <2>5. q.pc # "list" /\ (q.out \in Successes => q.pc = "done")
    BY <2>2 DEF Successes
  <2>6. ASSUME alone[c], fits[c]
        PROVE  LoneOK(items, Decide(c, seen), TRUE, expect[c])
    <3>1. \A i \in items : \E e \in seen : e.item = i
      <4>1. LastPage(p, Answered(p))  BY <1>6
      <4>2. seen = Walked(p + 1) /\ Cardinality(items) <= Reach
        BY <1>4, <2>6
      <4> QED  BY <1>2, <1>3, <4>1, <4>2, WalkReadsAll
    <3>2. IsFiniteSet(seen) /\ \A e \in seen : e.item \in items
                                              /\ e.page \in Nat
      <4>1. p + 1 \in Nat  BY <1>3
      <4>2. seen = Walked(p + 1)  BY <1>4, <2>6
      <4>3. IsFiniteSet(seen)  BY <1>2, <4>1, <4>2, WalkFinite
      <4>4. \A e \in seen : e.item \in items /\ e.page \in 1..((p + 1) - 1)
        BY <4>2, WalkEntries
      <4> QED  BY <4>1, <4>3, <4>4
    <3>3. LoneOK(items, call[c], TRUE, expect[c])
      BY <1>4, <2>6 DEF LoneOK
    <3>4. CASE kind = "hook"
      <4>1. LoneOK(items, DecideWebhook(c, seen), TRUE, expect[c])
        BY <1>1, <3>1, <3>2, <3>3, <3>4, DecideWebhookLone
      <4> QED  BY <3>4, <4>1 DEF Decide
    <3>5. CASE kind = "key"
      <4>1. LoneOK(items, DecideDeployKey(c, seen), TRUE, expect[c])
        BY <1>1, <3>2, <3>3, <3>5, DecideDeployKeyLone
      <4> QED  BY <3>5, <4>1 DEF Decide
    <3> QED  BY <1>2, <3>4, <3>5 DEF BackendOK, Kinds
  <2>7. alone[c] => LoneOK(items', q, fits[c], expect[c])
    BY <1>1, <2>1, <2>6 DEF LoneOK
  <2> HIDE DEF q
  <2>8. call[c].pc # "done" /\ MadeFrom(items')  BY <1>1, <1>2
  <2> QED
    BY <1>1, <2>2, <2>3, <2>4, <2>5, <2>7, <2>8, LoneAct
<1> QED  BY <1>5, <1>6

-----------------------------------------------------------------------------
LEMMA InitLone == Init => LoneInv
<1> SUFFICES ASSUME Init PROVE LoneInv  OBVIOUS
<1>1. MadeFrom(items)
  <2>1. PICK k \in 0..MaxInitial :
          \E f \in [1..k -> [name : {"target", "other"},
                             want : Wants[kind]]] :
          items = {[id |-> n, name |-> f[n].name, body |-> Body(f[n].want)] :
                   n \in 1..k}
    BY DEF Init, InitialItems
  <2>2. PICK f \in [1..k -> [name : {"target", "other"},
                             want : Wants[kind]]] :
          items = {[id |-> n, name |-> f[n].name, body |-> Body(f[n].want)] :
                   n \in 1..k}
    BY <2>1
  <2>3. ASSUME NEW i \in items PROVE \E w \in Wants[kind] : i.body = Body(w)
    <3>1. PICK n \in 1..k : i = [id |-> n, name |-> f[n].name,
                                 body |-> Body(f[n].want)]
      BY <2>2
    <3>2. i.body = Body(f[n].want) /\ f[n].want \in Wants[kind]
      BY <3>1
    <3> QED  BY <3>2
  <2> QED  BY <2>3 DEF MadeFrom
<1>2. ASSUME NEW c \in Clients PROVE AsksOK(call[c]) /\ ~alone[c]
  BY DEF Init, Fresh, AsksOK, Successes
<1> QED  BY <1>1, <1>2 DEF LoneInv, Init

LEMMA NextLone == IInv /\ LoneInv /\ [Next]_vars => LoneInv'
<1> SUFFICES ASSUME IInv, LoneInv, [Next]_vars PROVE LoneInv'  OBVIOUS
<1>1. ASSUME UNCHANGED vars PROVE LoneInv'
  <2>1. UNCHANGED <<backend, kind, ignoresPage, items, call, alone, fits,
                    expect, settled>>
    BY <1>1 DEF vars, platform, history
  <2>2. \A S, w : Wanted(S, w)' <=> Wanted(S, w)  BY <2>1, SameWanted
  <2>3. \A S : MadeFrom(S)' <=> MadeFrom(S)  BY <2>1, SameMadeFrom
  <2>4. \A r : AsksOK(r)' <=> AsksOK(r)  BY <2>1, SameAsks
  <2>5. \A S, r, fit, exp : LoneOK(S, r, fit, exp)' <=> LoneOK(S, r, fit, exp)
    BY <2>1, SameLone
  <2>6. \A r, fit : WalkOK(r, fit)' <=> WalkOK(r, fit)  BY <2>1, SameWalk
  <2> QED  BY <2>1, <2>2, <2>3, <2>4, <2>5, <2>6 DEF LoneInv
<1>2. ASSUME NEW c \in Clients, Step(c) PROVE LoneInv'
  BY <1>2, BeginLone, FailLone, ListPageLone, DeleteEntryLone,
     CreateEntryLone, GetRuleLone, RereadRuleLone, RemoveRuleLone,
     WriteRuleLone, CreateBranchProtectionLone DEF Step
<1>3. CASE Rest  BY <1>1, <1>3 DEF Rest
<1> QED  BY <1>1, <1>2, <1>3 DEF Next

LEMMA LoneInvariance == Spec => [](IInv /\ LoneInv)
BY InitIInv, NextIInv, InitLone, NextLone, PTL DEF Spec

-----------------------------------------------------------------------------
(* How many entries a call leaves into which nobody else wrote, and that   *)
(* one of them agrees with it whatever part of the list it read.           *)
Count(S) == Cardinality(Target(S))
CountOK(S, r, fit, h) ==
    /\ r.pc = "list" => Count(S) = h
    /\ r.pc = "delete" =>
          /\ Told /\ Count(S) <= h
          /\ kind = "key" =>
                /\ Count(S) = h
                /\ \E e : r.todo = {e} /\ \E i \in Target(S) : i.id = e.item.id
    /\ r.pc = "create" =>
          /\ Count(S) <= h
          /\ ~Told => Count(S) = h
          /\ kind = "key" /\ fit => Count(S) = IF h = 0 THEN 0 ELSE h - 1
    /\ r.pc = "done" /\ r.out \in Successes =>
          /\ \E i \in Target(S) : Agrees(i, r.want)
          /\ Count(S) <= h + 1
          /\ ~Told => Count(S) = h + 1
          /\ kind = "key" /\ fit => Count(S) = IF h = 0 THEN 1 ELSE h

CountInv ==
    /\ had = [c \in Clients |-> had[c]]
    /\ \A c \in Clients : had[c] \in Nat
    /\ \A c \in Clients :
          alone[c] =>
          IF kind = "rule" THEN fits[c]
          ELSE CountOK(items, call[c], fits[c], had[c])

LEMMA SameCount ==
    ASSUME UNCHANGED <<backend, kind>>, NEW S, NEW r, NEW fit, NEW h
    PROVE  CountOK(S, r, fit, h)' <=> CountOK(S, r, fit, h)
<1>1. \A i, w : Agrees(i, w)' <=> Agrees(i, w)  BY SameShown DEF Agrees
<1>2. Count(S)' = Count(S) /\ Target(S)' = Target(S) /\ (Told' <=> Told)
  BY DEF Count, Target, Told
<1>3. Successes' = Successes  BY DEF Successes
<1> QED  BY <1>1, <1>2, <1>3 DEF CountOK

LEMMA CountType ==
    ASSUME ItemsOK
    PROVE  IsFiniteSet(Target(items)) /\ Count(items) \in Nat
<1>1. IsFiniteSet(items)  BY ItemsFinite
<1>2. IsFiniteSet(Target(items))  BY <1>1, FS_Subset DEF Target
<1> QED  BY <1>2, FS_CardinalityType DEF Count

(* A step of a call that is under way.                                     *)
LEMMA CountStep ==
    ASSUME CountInv, NEW c \in Clients, NEW w \in BOOLEAN, NEW del,
           Record(c, w, del), ~w => UNCHANGED items,
           kind # "rule" =>
              /\ \A d \in Clients : d # c => call'[d] = call[d]
              /\ alone[c] => CountOK(items', call'[c], fits[c], had[c])
    PROVE  CountInv'
<1>1. /\ UNCHANGED <<backend, kind, fits, had>>
      /\ alone' = IF w THEN [d \in Clients |-> d = c /\ alone[c]] ELSE alone
  BY DEF Record
<1>2. ASSUME NEW d \in Clients, alone'[d]
      PROVE  alone[d] /\ (d # c => ~w)
  <2>1. CASE w  BY <1>1, <1>2, <2>1
  <2>2. CASE ~w  BY <1>1, <1>2, <2>2
  <2> QED  BY <2>1, <2>2
<1>3. \A S, r, fit, h : CountOK(S, r, fit, h)' <=> CountOK(S, r, fit, h)
  BY <1>1, SameCount
<1>4. ASSUME NEW d \in Clients, alone'[d], kind # "rule"
      PROVE  CountOK(items', call'[d], fits[d], had[d])
  <2>1. alone[d] /\ (d # c => ~w)  BY <1>2, <1>4
  <2>2. CASE d = c  BY <1>4, <2>1, <2>2
  <2>3. CASE d # c
    <3>1. call'[d] = call[d] /\ items' = items  BY <1>4, <2>1, <2>3
    <3> QED  BY <1>4, <2>1, <3>1 DEF CountInv
  <2> QED  BY <2>2, <2>3
<1>5. ASSUME NEW d \in Clients, alone'[d], kind # "rule"
      PROVE  CountOK(items, call[d], fits[d], had[d])'
  BY <1>1, <1>3, <1>4, <1>5
<1>6. ASSUME NEW d \in Clients, alone'[d], kind = "rule"
      PROVE  fits'[d]
  BY <1>1, <1>2, <1>6 DEF CountInv
<1>7. had' = [d \in Clients |-> had'[d]] /\ \A d \in Clients : had'[d] \in Nat
  BY <1>1 DEF CountInv
<1> QED  BY <1>1, <1>5, <1>6, <1>7 DEF CountInv

LEMMA CountAct ==
    ASSUME IInv, CountInv, NEW c \in Clients, NEW next, NEW w \in BOOLEAN,
           NEW del, Record(c, w, del), Set(c, next) \/ Set(c, Error(c)),
           ~w => UNCHANGED items,
           alone[c] /\ kind # "rule" =>
              CountOK(items', next, fits[c], had[c])
    PROVE  CountInv'
<1>1. /\ Error(c).pc = "done" /\ Error(c).out = "error"
  BY ErrorGood DEF IInv
<1>2. "error" \notin Successes  BY DEF Successes
<1>3. \A S, fit, h : CountOK(S, Error(c), fit, h)
  BY <1>1, <1>2 DEF CountOK
<1>4. /\ call'[c] = next \/ call'[c] = Error(c)
      /\ \A d \in Clients : d # c => call'[d] = call[d]
  BY DEF Set, IInv, TypeInv, CallsOK
<1>5. alone[c] /\ kind # "rule" => CountOK(items', call'[c], fits[c], had[c])
  BY <1>3, <1>4
<1> QED  BY <1>4, <1>5, CountStep

(* Calls that end in an error, calls about rules, and calls that begin.    *)
LEMMA RefusedCount ==
    ASSUME IInv, CountInv, NEW c \in Clients, Set(c, Error(c)),
           UNCHANGED platform, Record(c, FALSE, FALSE)
    PROVE  CountInv'
<1>1. Error(c).pc = "done" /\ Error(c).out = "error"
  BY ErrorGood DEF IInv
<1>2. "error" \notin Successes  BY DEF Successes
<1>3. CountOK(items', Error(c), fits[c], had[c])
  BY <1>1, <1>2 DEF CountOK
<1> QED  BY <1>3, CountAct DEF platform

LEMMA RuleCount ==
    ASSUME IInv, CountInv, NEW c \in Clients, kind = "rule",
           NEW w \in BOOLEAN, NEW del, Record(c, w, del),
           ~w => UNCHANGED items
    PROVE  CountInv'
BY CountStep

LEMMA BeginCount ==
    ASSUME IInv, LoneInv, CountInv, NEW c \in Clients,
           NEW want \in Wants[kind], Begin(c, want)
    PROVE  CountInv'
<1> DEFINE r == Fresh(want)
<1>1. /\ Set(c, r) /\ alone' = [alone EXCEPT ![c] = TRUE]
      /\ fits' = [fits EXCEPT ![c] = Cardinality(items) <= Reach]
      /\ had' = [had EXCEPT ![c] = Cardinality(Target(items))]
      /\ UNCHANGED <<backend, kind, ignoresPage, items>>
  BY DEF Begin, platform
<1>2. /\ call'[c] = r /\ \A d \in Clients : d # c => call'[d] = call[d]
  BY <1>1 DEF Set, IInv, TypeInv, CallsOK
<1>3. r.pc = (IF kind = "rule" THEN "get" ELSE "list") /\ r.out = ""
  BY DEF Fresh
<1>4. /\ fits'[c] = (Cardinality(items) <= Reach)
      /\ had' = [d \in Clients |-> had'[d]]
      /\ had'[c] = Count(items)
      /\ \A d \in Clients : d # c => /\ alone'[d] = alone[d]
                                     /\ fits'[d] = fits[d]
                                     /\ had'[d] = had[d]
  <2>1. \A d \in Clients : d # c => alone'[d] = alone[d]
    BY <1>1 DEF LoneInv
  <2>2. /\ fits'[c] = (Cardinality(items) <= Reach)
        /\ \A d \in Clients : d # c => fits'[d] = fits[d]
    BY <1>1 DEF LoneInv
  <2>3. /\ had' = [d \in Clients |-> had'[d]]
        /\ had'[c] = Count(items)
        /\ \A d \in Clients : d # c => had'[d] = had[d]
    BY <1>1 DEF CountInv, Count
  <2> QED  BY <2>1, <2>2, <2>3
<1>5. ItemsOK /\ Count(items) \in Nat  BY CountType, LoneFacts
<1> HIDE DEF r
<1>6. kind # "rule" => CountOK(items, r, fits'[c], had'[c])
  BY <1>3, <1>4 DEF CountOK
<1>7. kind = "rule" => fits'[c]
  <2> SUFFICES ASSUME kind = "rule" PROVE Cardinality(items) <= Reach
    BY <1>4
  <2>1. Cardinality(items) <= 1
    <3>1. \A i, j \in items : i = j  BY <1>5 DEF ItemsOK
    <3>2. CASE items = {}  BY <3>2, FS_EmptySet
    <3>3. CASE items # {}
      <4>1. PICK i : items = {i}  BY <3>1, <3>3
      <4> QED  BY <4>1, FS_Singleton
    <3> QED  BY <3>2, <3>3
  <2>2. Reach \in Nat \ {0}
    <3>1. /\ PageSize \in Nat \ {0} /\ MaxPages \in Nat \ {0}
          /\ PageSize * MaxPages \in Nat \ {0}
      BY EnsureAssumption
    <3> QED  BY <3>1 DEF Reach
  <2>3. Cardinality(items) \in Nat
    BY <1>5, ItemsFinite, FS_CardinalityType
  <2> QED  BY <2>1, <2>2, <2>3
<1>8. \A S, x, fit, h : CountOK(S, x, fit, h)' <=> CountOK(S, x, fit, h)
  BY <1>1, SameCount
<1>9. ASSUME NEW d \in Clients, alone'[d]
      PROVE  IF kind = "rule" THEN fits'[d]
             ELSE CountOK(items, call[d], fits[d], had[d])'
  <2>1. CASE d = c  BY <1>1, <1>2, <1>6, <1>7, <1>8, <2>1
  <2>2. CASE d # c
    <3>1. alone[d] /\ fits'[d] = fits[d] /\ had'[d] = had[d]
          /\ call'[d] = call[d]
      BY <1>2, <1>4, <1>9, <2>2
    <3> QED  BY <1>1, <1>8, <3>1 DEF CountInv
  <2> QED  BY <2>1, <2>2
<1>10. \A d \in Clients : had'[d] \in Nat
  BY <1>4, <1>5 DEF CountInv
<1> QED  BY <1>1, <1>4, <1>9, <1>10 DEF CountInv

LEMMA FailCount ==
    ASSUME IInv, CountInv, NEW c \in Clients, Fail(c)
    PROVE  CountInv'
BY RefusedCount DEF Fail

LEMMA RuleStepCount ==
    ASSUME IInv, LoneInv, CountInv, NEW c \in Clients,
           GetRule(c) \/ RereadRule(c) \/ RemoveRule(c) \/ WriteRule(c)
             \/ CreateBranchProtection(c)
    PROVE  CountInv'
<1>1. kind = "rule"
  <2>1. AsksOK(call[c])  BY LoneFacts
  <2> QED
    BY <2>1 DEF AsksOK, GetRule, RereadRule, RemoveRule, WriteRule,
                CreateBranchProtection
<1>2. \/ \E del : Record(c, TRUE, del)
      \/ UNCHANGED items /\ Record(c, FALSE, FALSE)
  BY DEF GetRule, RereadRule, RemoveRule, WriteRule, CreateBranchProtection,
         Refused, platform
<1> QED  BY <1>1, <1>2, RuleCount

-----------------------------------------------------------------------------
(* The requests of the webhook and deploy key calls.                       *)
LEMMA DeleteEntryCount ==
    ASSUME IInv, LoneInv, CountInv, NEW c \in Clients, DeleteEntry(c)
    PROVE  CountInv'
<1> DEFINE e == First(call[c].todo)
           rest == call[c].todo \ {e}
           q == Shrink(c, rest)
           left == {i \in items : i.id # e.item.id}
           h == had[c]
<1>1. call[c].pc = "delete"  BY DEF DeleteEntry
<1>2. CASE Refused(c)  BY <1>2, RefusedCount DEF Refused
<1>3. CASE ~Refused(c)
  <2>1. /\ items' = left /\ Answer(c, q) /\ Record(c, TRUE, TRUE)
    BY <1>3 DEF DeleteEntry, Shrink
  <2>2. /\ IsCall(call[c]) /\ call[c].out = "" /\ ItemsOK
        /\ GoodCall(call[c], nextId) /\ AsksOK(call[c])
    BY <1>1, LoneFacts
  <2>3. e \in call[c].todo
    <3>1. \A f \in call[c].todo : f.page \in Nat /\ f.item.id \in Nat
      <4>1. nextId \in Nat  BY Facts
      <4>2. EntriesOK(call[c].todo, nextId)  BY <2>2 DEF GoodCall
      <4> HIDE DEF e
      <4> QED  BY <4>1, <4>2, EnsureAssumption DEF EntriesOK
    <3>2. call[c].todo # {}  BY <1>1, <2>2 DEF GoodCall
    <3> QED  BY <3>1, <3>2, FirstIn
  <2> HIDE DEF e
  <2>4. /\ q.pc = (IF rest = {} THEN "create" ELSE "delete")
        /\ q.todo = rest /\ q.out = ""
    <3>1. q.pc = (IF rest = {} THEN "create" ELSE "delete")
      BY <1>1, <2>2, ShrinkFields
    <3>2. q.todo = rest  BY <1>1, <2>2, ShrinkFields
    <3>3. q.out = call[c].out  BY <1>1, <2>2, ShrinkFields
    <3> QED  BY <2>2, <3>1, <3>2, <3>3
  <2> HIDE DEF q
  <2>5. Set(c, q) \/ Set(c, Error(c))  BY <2>1 DEF Answer
  <2>6. /\ IsFiniteSet(Target(items)) /\ Count(items) \in Nat
        /\ Target(left) \subseteq Target(items)
    BY <2>2, CountType DEF Target
  <2>7. /\ IsFiniteSet(Target(left)) /\ Count(left) \in Nat
        /\ Count(left) <= Count(items)
    <3> HIDE DEF left
    <3>1. IsFiniteSet(Target(left))
          /\ Cardinality(Target(left)) <= Cardinality(Target(items))
      BY <2>6, FS_Subset
    <3> QED  BY <3>1, FS_CardinalityType DEF Count
  <2>8. ASSUME alone[c], kind # "rule"
        PROVE  CountOK(left, q, fits[c], h)
    <3>1. /\ h \in Nat /\ Told /\ Count(items) <= h
          /\ kind = "key" =>
                /\ Count(items) = h
                /\ \E f : /\ call[c].todo = {f}
                          /\ \E i \in Target(items) : i.id = f.item.id
      BY <1>1, <2>8 DEF CountInv, CountOK
    <3>2. Count(left) <= h
      <4> HIDE DEF left
      <4> QED  BY <2>6, <2>7, <3>1
    <3>3. ASSUME kind = "key"
          PROVE  rest = {} /\ h # 0 /\ Count(left) = h - 1
      <4>1. call[c].todo = {e}  BY <2>3, <3>1, <3>3
      <4>2. PICK i \in Target(items) : i.id = e.item.id
        BY <3>1, <3>3, <4>1
      <4>3. Target(items) = Target(left) \cup {i} /\ i \notin Target(left)
        BY <2>2, <4>2 DEF ItemsOK, Target
      <4> HIDE DEF left
      <4>4. Count(items) = Count(left) + 1
        BY <2>7, <4>3, FS_AddElement DEF Count
      <4> QED  BY <2>7, <3>1, <3>3, <4>1, <4>4
    <3> HIDE DEF left, rest
    <3>4. q.pc \in {"create", "delete"} /\ (kind = "key" => q.pc = "create")
      BY <2>4, <3>3
    <3> HIDE DEF h
    <3> QED  BY <3>1, <3>2, <3>3, <3>4 DEF CountOK
  <2> HIDE DEF left, h
  <2>9. alone[c] /\ kind # "rule" => CountOK(items', q, fits[c], had[c])
    BY <2>1, <2>8 DEF h
  <2> QED  BY <2>1, <2>5, <2>9, CountAct
<1> QED  BY <1>2, <1>3

LEMMA CreateEntryCount ==
    ASSUME IInv, LoneInv, CountInv, NEW c \in Clients, CreateEntry(c)
    PROVE  CountInv'
<1> DEFINE q == Succeed(c)
           h == had[c]
<1>1. /\ call[c].pc = "create" /\ kind # "rule"
      /\ AddTarget(Body(call[c].want)) /\ Answer(c, q)
      /\ Record(c, TRUE, FALSE)
  BY DEF CreateEntry
<1>2. call[c].want \in Wants[kind] /\ ItemsOK  BY <1>1, LoneFacts
<1>3. PICK x : /\ items' = items \cup {x} /\ x \notin items
               /\ x.name = "target" /\ x.body = Body(call[c].want)
  BY <1>1, <1>2, AddedMadeFrom
<1>4. q.pc = "done" /\ q.want = call[c].want  BY <1>1, SucceedFields
<1>5. Set(c, q) \/ Set(c, Error(c))  BY <1>1 DEF Answer
<1> HIDE DEF q
<1>6. /\ x \in Target(items') /\ Agrees(x, q.want)
      /\ Target(items') = Target(items) \cup {x} /\ x \notin Target(items)
  BY <1>1, <1>3, <1>4 DEF Target, Agrees
<1>7. Count(items) \in Nat /\ Count(items') = Count(items) + 1
  <2>1. IsFiniteSet(Target(items)) /\ Count(items) \in Nat
    BY <1>2, CountType
  <2>2. Cardinality(Target(items) \cup {x}) = Cardinality(Target(items)) + 1
    BY <1>6, <2>1, FS_AddElement
  <2> QED  BY <1>6, <2>1, <2>2 DEF Count
<1>8. ASSUME alone[c] PROVE CountOK(items', q, fits[c], h)
  <2>1. /\ h \in Nat /\ Count(items) <= h
        /\ ~Told => Count(items) = h
        /\ kind = "key" /\ fits[c] =>
              Count(items) = IF h = 0 THEN 0 ELSE h - 1
    BY <1>1, <1>8 DEF CountInv, CountOK
  <2> HIDE DEF h
  <2> QED  BY <1>4, <1>6, <1>7, <2>1 DEF CountOK
<1> QED  BY <1>1, <1>5, <1>8, CountAct

(* What a lone call does with what it read of the list.                    *)
LEMMA DecideWebhookCount ==
    ASSUME IInv, LoneInv, NEW c \in Clients, NEW seen, kind = "hook",
           IsFiniteSet(seen), \A e \in seen : e.item \in items,
           Count(items) = had[c], NEW fit
    PROVE  CountOK(items, DecideWebhook(c, seen), fit, had[c])
<1> DEFINE M == {e \in seen : Recognised(e.item)}
           want == call[c].want
           h == had[c]
<1>1. IsCall(call[c]) /\ BackendOK /\ MadeFrom(items) /\ ItemsOK
  BY LoneFacts
<1>2. h \in Nat /\ Count(items) = h  BY <1>1, CountType
<1>3. \A e \in M : e.item \in Target(items) /\ Told
  BY <1>1, RecognisedTold DEF Target
<1>4. IsFiniteSet(M)  BY FS_Subset
<1> HIDE DEF M, h
<1>5. CASE Cardinality(M) = 1 /\ \A e \in M : Shown(e.item.body) = want
  <2> DEFINE q == Return(c, "unchanged")
  <2>1. q = DecideWebhook(c, seen)  BY <1>5 DEF DecideWebhook, M
  <2>2. q.pc = "done" /\ q.want = want
    <3>1. q.pc = "done"  BY <1>1, ReturnFields
    <3>2. q.want = want  BY <1>1, WantKept
    <3> QED  BY <3>1, <3>2
  <2> HIDE DEF q
  <2>3. PICK e : M = {e}  BY <1>4, <1>5, FS_Singleton
  <2>4. e.item \in Target(items) /\ Told /\ Shown(e.item.body) = want
    BY <1>3, <1>5, <2>3
  <2>5. PICK w \in Wants[kind] : e.item.body = Body(w)
    BY <1>1, <2>4 DEF MadeFrom, Target
  <2>6. Shown(Body(want)) = want
    <3>1. Shown(Body(Shown(Body(w)))) = Shown(Body(w))  BY <1>1, HookIdem
    <3>2. want = Shown(Body(w))  BY <2>4, <2>5
    <3> QED  BY <3>1, <3>2
  <2>7. Agrees(e.item, want)  BY <2>4, <2>6 DEF Agrees
  <2>8. CountOK(items, q, fit, h)
    BY <1>2, <2>2, <2>4, <2>7 DEF CountOK
  <2> QED  BY <2>1, <2>8 DEF h
<1>6. CASE ~(Cardinality(M) = 1 /\ \A e \in M : Shown(e.item.body) = want)
  <2> DEFINE q == Replace(c, M)
  <2>1. q = DecideWebhook(c, seen)  BY <1>6 DEF DecideWebhook, M
  <2>2. M = {} => q.pc = "create"  BY <1>1, ReplaceFields
  <2>3. M # {} => q.pc = "delete"  BY <1>1, ReplaceFields
  <2> HIDE DEF q
  <2>4. M # {} => Told  BY <1>3
  <2>5. CountOK(items, q, fit, h)  BY <1>2, <2>2, <2>3, <2>4 DEF CountOK
  <2> QED  BY <2>1, <2>5 DEF h
<1> QED  BY <1>5, <1>6

LEMMA DecideDeployKeyCount ==
    ASSUME IInv, LoneInv, NEW c \in Clients, NEW seen, kind = "key",
           \A e \in seen : e.item \in items /\ e.page \in Nat,
           Count(items) = had[c], NEW fit,
           fit => \A i \in items : \E e \in seen : e.item = i
    PROVE  CountOK(items, DecideDeployKey(c, seen), fit, had[c])
<1> DEFINE M == {f \in seen : Recognised(f.item)}
           want == call[c].want
           e == First(M)
           h == had[c]
<1>1. /\ IsCall(call[c]) /\ BackendOK /\ MadeFrom(items) /\ ItemsOK
      /\ Supports(backend, kind)
  BY LoneFacts
<1>2. /\ h \in Nat /\ Count(items) = h /\ IsFiniteSet(Target(items))
      /\ Told
  BY <1>1, CountType DEF Told
<1>3. /\ \A f \in M : f.item \in Target(items)
      /\ fit => \A i \in Target(items) : \E f \in M : f.item = i
  BY <1>1, <1>2, RecognisedTold DEF Target
<1>4. M # {} => e \in M
  <2>1. \A f \in M : f.page \in Nat /\ f.item.id \in Nat
    <3>1. \A i \in items : i.id \in Nat  BY <1>1 DEF ItemsOK
    <3> QED  BY <3>1
  <2> HIDE DEF M
  <2> QED  BY <2>1, FirstIn
<1> HIDE DEF M, h
<1>5. CASE M = {}
  <2> DEFINE q == Replace(c, {})
  <2>1. q = DecideDeployKey(c, seen)  BY <1>5 DEF DecideDeployKey, M
  <2>2. q.pc = "create"  BY <1>1, ReplaceFields
  <2> HIDE DEF q
  <2>3. fit => h = 0
    <3>1. fit => Target(items) = {}  BY <1>3, <1>5
    <3> QED  BY <1>2, <3>1, FS_EmptySet DEF Count
  <2>4. CountOK(items, q, fit, h)  BY <1>2, <2>2, <2>3 DEF CountOK
  <2> QED  BY <2>1, <2>4 DEF h
<1>6. M # {} => h # 0
  <2> SUFFICES ASSUME M # {}, h = 0 PROVE FALSE  OBVIOUS
  <2>1. Target(items) = {}  BY <1>2, FS_EmptySet DEF Count
  <2> QED  BY <1>3, <2>1
<1>7. CASE M # {} /\ Shown(e.item.body) = want
  <2> DEFINE q == Return(c, "unchanged")
  <2>1. q = DecideDeployKey(c, seen)  BY <1>7 DEF DecideDeployKey, M
  <2>2. q.pc = "done" /\ q.want = want
    <3>1. q.pc = "done"  BY <1>1, ReturnFields
    <3>2. q.want = want  BY <1>1, WantKept
    <3> QED  BY <3>1, <3>2
  <2> HIDE DEF q, e
  <2>3. e.item \in Target(items)  BY <1>3, <1>4, <1>7
  <2>4. PICK w \in Wants[kind] : e.item.body = Body(w)
    BY <1>1, <2>3 DEF MadeFrom, Target
  <2>5. Shown(Body(want)) = want  BY <1>1, <1>7, <2>4, KeyIdem
  <2>6. Agrees(e.item, want)  BY <1>7, <2>5 DEF Agrees
  <2>7. CountOK(items, q, fit, h)
    BY <1>2, <1>6, <1>7, <2>2, <2>3, <2>6 DEF CountOK
  <2> QED  BY <2>1, <2>7 DEF h
<1>8. CASE M # {} /\ Shown(e.item.body) # want
  <2> DEFINE q == Replace(c, {e})
  <2>1. q = DecideDeployKey(c, seen)  BY <1>8 DEF DecideDeployKey, M
  <2>2. IsCall(call[c]) /\ {e} # {}  BY <1>1
  <2> HIDE DEF e
  <2>3. q.pc = "delete"  BY <2>2, ReplaceFields
  <2>4. q.todo = {e}  BY <2>2, ReplaceFields
  <2> HIDE DEF q
  <2>5. e.item \in Target(items)  BY <1>3, <1>4, <1>8
  <2>6. CountOK(items, q, fit, h)
    BY <1>2, <2>3, <2>4, <2>5 DEF CountOK
  <2> QED  BY <2>1, <2>6 DEF h
<1> QED  BY <1>5, <1>7, <1>8

LEMMA ListPageCount ==
    ASSUME IInv, LoneInv, CountInv, NEW c \in Clients, ListPage(c)
    PROVE  CountInv'
<1> DEFINE p == call[c].page
           got == Answered(p)
           seen == call[c].seen \cup {[page |-> p, item |-> i] : i \in got}
           q == IF LastPage(p, got) THEN Decide(c, seen)
                ELSE Turn(c, p + 1, seen)
<1>1. /\ call[c].pc = "list" /\ Set(c, q) /\ items' = items
      /\ Record(c, FALSE, FALSE)
  BY DEF ListPage, Turn, Answered, platform
<1>2. /\ IsCall(call[c]) /\ kind # "rule" /\ ItemsOK /\ BackendOK
      /\ GoodCall(call[c], nextId)
  BY <1>1, LoneFacts DEF AsksOK
<1>3. p \in 1..MaxPages /\ p \in Nat \ {0}
  <2>1. p \in 1..MaxPages  BY <1>2 DEF GoodCall
  <2> QED  BY <2>1, EnsureAssumption
<1>4. ASSUME alone[c]
      PROVE  /\ seen = Walked(p + 1)
             /\ fits[c] => Cardinality(items) <= Reach
             /\ Count(items) = had[c]
  <2>1. WalkOK(call[c], fits[c])  BY <1>4, LoneFacts
  <2>2. call[c].seen = Walked(p) /\ (fits[c] => Cardinality(items) <= Reach)
    BY <1>1, <2>1 DEF WalkOK
  <2>3. seen = Walked(p) \cup Entries(p)  BY <2>2 DEF Entries
  <2>4. Walked(p + 1) = Walked(p) \cup Entries(p)  BY <1>3, WalkGoesOn
  <2>5. Count(items) = had[c]  BY <1>1, <1>2, <1>4 DEF CountInv, CountOK
  <2> QED  BY <2>2, <2>3, <2>4, <2>5
<1> HIDE DEF seen
<1>5. ASSUME alone[c] PROVE CountOK(items, q, fits[c], had[c])
  <2>1. CASE ~LastPage(p, got)
    <3>1. q = Turn(c, p + 1, seen)  BY <2>1
    <3>2. q.pc = "list"
      <4> DEFINE n == p + 1
      <4> HIDE DEF n
      <4>1. Turn(c, n, seen).pc = call[c].pc  BY <1>2, TurnFields
      <4> QED  BY <1>1, <3>1, <4>1 DEF n
    <3> HIDE DEF q
    <3> QED  BY <1>4, <1>5, <3>2 DEF CountOK
  <2>2. CASE LastPage(p, got)
    <3>1. q = Decide(c, seen)  BY <2>2
    <3>2. fits[c] => \A i \in items : \E e \in seen : e.item = i
      <4>1. LastPage(p, Answered(p))  BY <2>2
      <4>2. seen = Walked(p + 1) /\ (fits[c] => Cardinality(items) <= Reach)
        BY <1>4, <1>5
      <4> QED  BY <1>2, <1>3, <4>1, <4>2, WalkReadsAll
    <3>3. IsFiniteSet(seen) /\ \A e \in seen : e.item \in items
                                              /\ e.page \in Nat
      <4>1. p + 1 \in Nat  BY <1>3
      <4>2. seen = Walked(p + 1)  BY <1>4, <1>5
      <4>3. IsFiniteSet(seen)  BY <1>2, <4>1, <4>2, WalkFinite
      <4>4. \A e \in seen : e.item \in items /\ e.page \in 1..((p + 1) - 1)
        BY <4>2, WalkEntries
      <4> QED  BY <4>1, <4>3, <4>4
    <3>4. Count(items) = had[c]  BY <1>4, <1>5
    <3> HIDE DEF q
    <3>5. CASE kind = "hook"
      <4>1. CountOK(items, DecideWebhook(c, seen), fits[c], had[c])
        BY <3>3, <3>4, <3>5, DecideWebhookCount
      <4> QED  BY <3>1, <3>5, <4>1 DEF Decide
    <3>6. CASE kind = "key"
      <4>1. CountOK(items, DecideDeployKey(c, seen), fits[c], had[c])
        BY <3>2, <3>3, <3>4, <3>6, DecideDeployKeyCount
      <4> QED  BY <3>1, <3>6, <4>1 DEF Decide
    <3> QED  BY <1>2, <3>5, <3>6 DEF BackendOK, Kinds
  <2> QED  BY <2>1, <2>2
<1> HIDE DEF q
<1>6. alone[c] /\ kind # "rule" => CountOK(items', q, fits[c], had[c])
  BY <1>1, <1>5
<1> QED  BY <1>1, <1>6, CountAct

LEMMA InitCount == Init => CountInv
<1> SUFFICES ASSUME Init PROVE CountInv  OBVIOUS
<1>1. \A c \in Clients : ~alone[c] /\ had[c] = 0  BY DEF Init
<1> QED  BY <1>1 DEF CountInv, Init

LEMMA NextCount ==
    IInv /\ LoneInv /\ CountInv /\ [Next]_vars => CountInv'
<1> SUFFICES ASSUME IInv, LoneInv, CountInv, [Next]_vars PROVE CountInv'
  OBVIOUS
<1>1. ASSUME UNCHANGED vars PROVE CountInv'
  <2>1. UNCHANGED <<backend, kind, items, call, alone, fits, had>>
    BY <1>1 DEF vars, platform, history
  <2>2. \A S, r, fit, h : CountOK(S, r, fit, h)' <=> CountOK(S, r, fit, h)
    BY <2>1, SameCount
  <2> QED  BY <2>1, <2>2 DEF CountInv
<1>2. ASSUME NEW c \in Clients, Step(c) PROVE CountInv'
  BY <1>2, BeginCount, FailCount, ListPageCount, DeleteEntryCount,
     CreateEntryCount, RuleStepCount DEF Step
<1>3. CASE Rest  BY <1>1, <1>3 DEF Rest
<1> QED  BY <1>1, <1>2, <1>3 DEF Next

LEMMA CountInvariance == Spec => [](IInv /\ LoneInv /\ CountInv)
BY InitIInv, NextIInv, InitLone, NextLone, InitCount, NextCount, PTL
   DEF Spec

-----------------------------------------------------------------------------
(* What an entry that agrees with a call holds: the names a converter      *)
(* gives back for events mean the events that were carried.                *)
Sense(e) == {e} \cup UNION {N \in EventNames : e \in N}
LEMMA SenseMeaning ==
    ASSUME NEW S, NEW T,
           \A e \in S : \E f \in T : Sense(e) = Sense(f),
           \A f \in T : \E e \in S : Sense(e) = Sense(f)
    PROVE  Meaning(S) = Meaning(T)
<1>1. \A X : Meaning(X) = {Sense(e) : e \in X}  BY DEF Meaning, Sense
<1>2. Meaning(S) = {Sense(e) : e \in S} /\ Meaning(T) = {Sense(e) : e \in T}
  BY <1>1
<1> HIDE DEF Sense
<1> QED  BY <1>2

LEMMA SenseOf ==
    /\ \A e \in MergeNames : Sense(e) = MergeNames
    /\ \A e \in TagNames : Sense(e) = TagNames
    /\ Sense("comment") = Sense("note")
<1>1. /\ \A e \in MergeNames : {N \in EventNames : e \in N} = {MergeNames}
      /\ \A e \in TagNames : {N \in EventNames : e \in N} = {TagNames}
      /\ {N \in EventNames : "note" \in N} = {{"note", "comment"}}
      /\ {N \in EventNames : "comment" \in N} = {{"note", "comment"}}
  BY DEF EventNames, MergeNames, TagNames
<1>2. \A N, e : e \in N => {e} \cup UNION {N} = N  OBVIOUS
<1>3. \A e \in MergeNames : Sense(e) = MergeNames  BY <1>1, <1>2 DEF Sense
<1>4. \A e \in TagNames : Sense(e) = TagNames  BY <1>1, <1>2 DEF Sense
<1>5. Sense("note") = {"note", "comment"}
  <2>1. Sense("note") = {"note"} \cup UNION {{"note", "comment"}}
    BY <1>1 DEF Sense
  <2> QED  BY <2>1
<1>6. Sense("comment") = {"note", "comment"}
  <2>1. Sense("comment") = {"comment"} \cup UNION {{"note", "comment"}}
    BY <1>1 DEF Sense
  <2> QED  BY <2>1
<1> QED  BY <1>3, <1>4, <1>5, <1>6

LEMMA FlagsMean ==
    ASSUME NEW w
    PROVE  Meaning(FlagNames(w)) =
              Meaning({"push"} \cup (w \cap (MergeNames \cup TagNames)))
<1> DEFINE S == FlagNames(w)
           T == {"push"} \cup (w \cap (MergeNames \cup TagNames))
<1>1. S = {"push"} \cup If(w \cap MergeNames # {}, "merge_request")
                   \cup If(w \cap TagNames # {}, "tag_push")
  BY DEF FlagNames, Image, GitlabCreateWebhook, If
<1>2. "merge_request" \in MergeNames /\ "tag_push" \in TagNames
  BY DEF MergeNames, TagNames
<1>3. ASSUME NEW e \in S PROVE \E f \in T : Sense(e) = Sense(f)
  <2>1. CASE e = "push"  BY <2>1
  <2>2. CASE e = "merge_request" /\ w \cap MergeNames # {}
    BY <1>2, <2>2, SenseOf
  <2>3. CASE e = "tag_push" /\ w \cap TagNames # {}
    BY <1>2, <2>3, SenseOf
  <2> QED  BY <1>1, <2>1, <2>2, <2>3 DEF If
<1>4. ASSUME NEW f \in T PROVE \E e \in S : Sense(e) = Sense(f)
  <2>1. CASE f = "push"  BY <1>1, <2>1
  <2>2. CASE f \in w \cap MergeNames
    <3>1. "merge_request" \in S  BY <1>1, <2>2 DEF If
    <3> QED  BY <1>2, <2>2, <3>1, SenseOf
  <2>3. CASE f \in w \cap TagNames
    <3>1. "tag_push" \in S  BY <1>1, <2>3 DEF If
    <3> QED  BY <1>2, <2>3, <3>1, SenseOf
  <2> QED  BY <2>1, <2>2, <2>3
<1> HIDE DEF S, T
<1>5. Meaning(S) = Meaning(T)  BY <1>3, <1>4, SenseMeaning
<1> QED  BY <1>5 DEF S, T

LEMMA HookMeans ==
    ASSUME BackendOK, kind = "hook", NEW w
    PROVE  Meaning(Shown(Body(w))) = Meaning(CarriedEvents(backend, w))
<1>1. CASE backend \in {"github", "gitea", "forgejo", "gitcode"}
  <2>1. Shown(Body(w)) = w
    BY <1>1 DEF Shown, Body, CreateWebhook, ConvertHook, GithubConvertHook,
       GiteaConvertHook, ForgejoConvertHook, GitcodeConvertHook,
       GithubCreateWebhook, GiteaCreateWebhook, ForgejoCreateWebhook,
       GitcodeCreateWebhook
  <2>2. CarriedEvents(backend, w) = w  BY <1>1 DEF CarriedEvents
  <2> QED  BY <2>1, <2>2
<1>2. CASE backend \in {"gitlab", "tencentcode"}
  <2>1. \A x : TencentcodeCreateWebhook(x) = GitlabCreateWebhook(x)
    BY DEF TencentcodeCreateWebhook, GitlabCreateWebhook
  <2>2. Shown(Body(w)) = FlagNames(w)
    BY <1>2, <2>1 DEF Shown, Body, CreateWebhook, ConvertHook,
       GitlabConvertHook, TencentcodeConvertWebhook, FlagNames
  <2>3. CarriedEvents(backend, w) =
           {"push"} \cup (w \cap (MergeNames \cup TagNames))
    BY <1>2 DEF CarriedEvents
  <2> QED  BY <2>2, <2>3, FlagsMean
<1>3. CASE backend = "gitee"
  <2> DEFINE t == [PushEvents |-> "push", TagPushEvents |-> "tag_push",
                   IssuesEvents |-> "issues", NoteEvents |-> "note",
                   MergeRequestsEvents |-> "pull_request"]
             name(x) == t[GiteeHookEventFlags[x]]
             T == w \cap DOMAIN GiteeHookEventFlags
  <2>1. /\ DOMAIN GiteeHookEventFlags =
              {"push", "tag_push", "issues", "note", "comment",
               "pull_request"}
        /\ \A x \in DOMAIN GiteeHookEventFlags :
              name(x) = IF x = "comment" THEN "note" ELSE x
    BY DEF GiteeHookEventFlags
  <2>2. Shown(Body(w)) = {name(x) : x \in T}
    <3>1. Shown(Body(w)) = Image(t, GiteeCreateWebhook(w))
      BY <1>3 DEF Shown, Body, CreateWebhook, ConvertHook, GiteeConvertHook
    <3> HIDE DEF t
    <3> QED  BY <3>1 DEF Image, GiteeCreateWebhook
  <2> HIDE DEF name
  <2>3. \A x \in T : Sense(name(x)) = Sense(x)  BY <2>1, SenseOf
  <2>4. CarriedEvents(backend, w) = T  BY <1>3 DEF CarriedEvents
  <2> HIDE DEF T
  <2> QED  BY <2>2, <2>3, <2>4, SenseMeaning
<1> QED  BY <1>1, <1>2, <1>3 DEF BackendOK, Backends

LEMMA KeyMeans ==
    ASSUME BackendOK, Supports(backend, kind), kind = "key",
           NEW w \in Wants["key"]
    PROVE  /\ Shown(Body(w)).key = w.key
           /\ CarriesReadOnly(backend) =>
                 Shown(Body(w)).readOnly = w.readOnly
<1>1. w.readOnly \in BOOLEAN  BY WantsAssumption
<1>2. CASE backend \in {"github", "gitea", "forgejo", "gitcode"}
  <2>1. Shown(Body(w)) = w
    BY <1>2 DEF Shown, Body, AddDeployKey, ConvertDeployKey,
       GithubDeployKey, GiteaDeployKey, ForgejoDeployKey, GitcodeDeployKey,
       GithubConvertKey, GiteaConvertKey, ForgejoConvertKey,
       GitcodeConvertKey
  <2> QED  BY <2>1
<1>3. CASE backend = "gitlab"
  <2>1. Shown(Body(w)) = [key |-> w.key, readOnly |-> ~ ~w.readOnly]
    BY <1>3 DEF Shown, Body, AddDeployKey, ConvertDeployKey,
       GitlabDeployKey, GitlabConvertKey
  <2> QED  BY <1>1, <2>1
<1>4. CASE backend = "gitee"
  <2>1. Shown(Body(w)) = [key |-> w.key, readOnly |-> FALSE]
    BY <1>4 DEF Shown, Body, AddDeployKey, ConvertDeployKey,
       GiteeDeployKey, GiteeConvertKey
  <2> QED  BY <1>4, <2>1 DEF CarriesReadOnly
<1> QED
  BY <1>2, <1>3, <1>4 DEF BackendOK, Backends, Supports

LEMMA AgreesHolds ==
    ASSUME BackendOK, Supports(backend, kind), NEW i, NEW w \in Wants[kind],
           Agrees(i, w)
    PROVE  Holds(i.body, w)
<1>1. CASE kind = "hook"
  <2>1. Shown(i.body) = Shown(Body(w))  BY <1>1 DEF Agrees
  <2> QED  BY <1>1, <2>1, HookMeans DEF Holds
<1>2. CASE kind = "key"
  <2>1. Shown(i.body) = Shown(Body(w))  BY <1>2 DEF Agrees
  <2> QED  BY <1>2, <2>1, KeyMeans DEF Holds
<1>3. CASE kind = "rule"  BY <1>3 DEF Agrees, Holds
<1> QED  BY <1>1, <1>2, <1>3 DEF BackendOK, Kinds

(* When a call into which nobody else wrote succeeds, the platform holds   *)
(* an entry with all of what it asked for that its backend carries, at     *)
(* most one more than before; and if the call could read the whole list,   *)
(* it is the only one, but for the webhooks of GitHub and further deploy   *)
(* keys of that title.                                                     *)
THEOREM AloneLeavesWantedCorrect == Spec => []AloneLeavesWanted
<1>1. IInv /\ LoneInv /\ CountInv => AloneLeavesWanted
  <2> SUFFICES ASSUME IInv, LoneInv, CountInv, NEW c \in Clients,
                      call[c].pc = "done", call[c].out \in Successes, alone[c]
               PROVE  /\ \E i \in Target(items) : Holds(i.body, call[c].want)
                      /\ fits[c] => Count(items) = LeftOf(had[c])
                      /\ Count(items) <= had[c] + 1
    BY DEF AloneLeavesWanted, Count
  <2> DEFINE want == call[c].want
             h == had[c]
  <2>1. /\ BackendOK /\ Supports(backend, kind) /\ ItemsOK
        /\ want \in Wants[kind]
    BY LoneFacts DEF AsksOK
  <2>2. fits[c] => Wanted(items, want)  BY LoneFacts DEF LoneOK, DoneOK
  <2>3. /\ h \in Nat /\ (kind = "rule" => fits[c])
        /\ kind # "rule" => CountOK(items, call[c], fits[c], h)
    BY DEF CountInv
  <2>4. PICK i \in Target(items) : Agrees(i, want)
    <3>1. CASE kind = "rule"  BY <2>2, <2>3, <3>1 DEF Wanted
    <3>2. CASE kind # "rule"  BY <2>3, <3>2 DEF CountOK
    <3> QED  BY <3>1, <3>2
  <2>5. Holds(i.body, want)  BY <2>1, <2>4, AgreesHolds
  <2>6. ASSUME \A j \in Target(items) : j = i PROVE Count(items) = 1
    <3>1. Target(items) = {i}  BY <2>6
    <3> QED  BY <3>1, FS_Singleton DEF Count
  <2>7. kind = "rule" => Count(items) = 1
    BY <2>1, <2>6 DEF ItemsOK, Target
  <2>8. kind = "hook" /\ Told /\ fits[c] => Count(items) = 1
    BY <2>2, <2>6 DEF Wanted
  <2> HIDE DEF h
  <2>9. fits[c] => Count(items) = LeftOf(h)
    <3>1. CASE kind = "rule"  BY <2>7, <3>1 DEF LeftOf, Told
    <3>2. CASE kind = "hook" /\ Told  BY <2>8, <3>2 DEF LeftOf
    <3>3. CASE kind # "rule" /\ ~Told  BY <2>3, <3>3 DEF CountOK, LeftOf
    <3>4. CASE kind = "key"
      <4>1. Told  BY <3>4 DEF Told
      <4> QED  BY <2>3, <3>4, <4>1 DEF CountOK, LeftOf
    <3> QED  BY <2>1, <3>1, <3>2, <3>3, <3>4 DEF BackendOK, Kinds
  <2>10. Count(items) <= h + 1
    <3>1. CASE kind = "rule"  BY <2>3, <2>7, <3>1
    <3>2. CASE kind # "rule"  BY <2>3, <3>2 DEF CountOK
    <3> QED  BY <3>1, <3>2
  <2> QED  BY <2>4, <2>5, <2>9, <2>10 DEF h
<1> QED  BY <1>1, CountInvariance, PTL

(* A second call for the same content, with no write in between and none   *)
(* by others, changes nothing, on the backends whose answers read back.    *)
THEOREM RerunUnchangedCorrect == Spec => []RerunUnchanged
<1>1. IInv /\ LoneInv => RerunUnchanged
  <2> SUFFICES ASSUME IInv, LoneInv, NEW c \in Clients, Rerun(c),
                      ReadsBack(call[c].want), call[c].out # "unchanged"
               PROVE  FALSE
    BY DEF RerunUnchanged
  <2>1. RerunOK(items, call[c])  BY LoneFacts DEF Rerun, LoneOK
  <2>2. /\ kind = "key" /\ Cardinality(Target(items)) = 1
        /\ \E i, j \in Target(items) : i # j
    BY <2>1 DEF RerunOK, Rerun
  <2>3. IsFiniteSet(Target(items))
    <3>1. IsFiniteSet(items)  BY LoneFacts, ItemsFinite
    <3> QED  BY <3>1, FS_Subset DEF Target
  <2> QED  BY <2>2, <2>3, FS_Singleton
<1> QED  BY <1>1, LoneInvariance, PTL
=============================================================================
