-------------------------- MODULE CommitWaitProofs --------------------------
(***************************************************************************)
(* Proofs about CommitWait, for any number of clients and calls: a verdict *)
(* is the one of the newest reports at the moment its poll began, however  *)
(* the reports of others shift the pages, while no more of them come in    *)
(* than a page holds.                                                      *)
(***************************************************************************)
EXTENDS CommitWait, FiniteSetTheorems, WellFoundedInduction, TLAPS

Judgement == [do |-> "judge"]

CallShape(r) ==
    [op : {r.op}, o : {r.o}, steps : {r.steps}, spare : {r.spare},
     out : {r.out}, seen : {r.seen}, next : {r.next}, target : {r.target},
     alone : {r.alone}, failed : {r.failed}, at : {r.at}]
IsCall(r) == r \in CallShape(r)

(* The steps a call about statuses may still have to make.                 *)
Posting(s) == \E t, w : s = <<PostAs("status", t, w)>>
StepsOK(r) ==
    /\ r.op \in {"none", "report", "liststatuses", "wait"}
    /\ r.op = "none" => r.steps = << >>
    /\ r.op = "report" =>
          r.spare = << >> /\ (r.steps = << >> \/ Posting(r.steps))
    /\ r.op = "liststatuses" =>
          /\ r.spare = << >>
          /\ \/ r.steps \in {<< >>, <<Return>>}
             \/ \E n : r.steps = <<Page(n), Return>>
    /\ r.op = "wait" =>
          /\ r.spare \in {<< >>, <<Tick>>}
          /\ \/ r.steps = << >>
             \/ /\ r.out = ""
                /\ \/ r.steps \in {<<Tick>>, <<Judgement>>}
                   \/ \E n : r.steps = <<Page(n), Judgement>>

(* The reports: numbered in the order they came in.                        *)
ReportsOK ==
    /\ nextPost \in Nat
    /\ IsFiniteSet(posts)
    /\ \A p \in posts : p.id \in Nat /\ p.id < nextPost /\ p.kind = "status"
    /\ \A p, q \in posts : p.id = q.id => p = q

(* What a poll has seen, of the reports S of now, A of when it began: the  *)
(* newest of A down to one, each after those newer than it, and some of    *)
(* them more than once, but no more often than reports came in.  All of it *)
(* is said of a list that changes and is as long as VerdictTrue allows.    *)
AtLeast(A, p) == {q \in A : q.id >= p.id}
Older(S, A) == A \subseteq S /\ \A p \in S \ A, q \in A : q.id < p.id
Few(S, A) == Cardinality(S \ A) <= 1 /\ Cardinality(S) <= maxAllPages
InTurn(A, s) ==
    \A i \in DOMAIN s :
        /\ s[i] \in A
        /\ \A q \in A : q.id > s[i].id => \E j \in DOMAIN s : j < i /\ s[j] = q
Covers(S, A, s) ==
    /\ InTurn(A, s)
    /\ Len(s) <= Cardinality(AtLeast(A, s[Len(s)])) + Cardinality(S \ A)
Reading(S, A, s, n) ==
    /\ n \in Nat \ {0} /\ n = Len(s) + 1
    /\ s \in Seq(S)
    /\ n > 1 => Older(S, A) /\ (Few(S, A) => Covers(S, A, s))
AllRead(S, A, s) ==
    /\ s \in Seq(S) /\ Older(S, A)
    /\ Few(S, A) => /\ InTurn(A, s)
                    /\ \A q \in A : \E i \in DOMAIN s : s[i] = q

PollOK(S, r) ==
    r.op = "wait" =>
        /\ r.steps = <<Tick>> => r.seen = << >>
        /\ \A n : r.steps = <<Page(n), Judgement>> =>
                      Reading(S, r.at, r.seen, n)
        /\ r.steps = <<Judgement>> => AllRead(S, r.at, r.seen)

WaitInv ==
    /\ topic \in Topics
    /\ call = [c \in Clients |-> call[c]]
    /\ \A c \in Clients : IsCall(call[c])
    /\ topic # "statuses" => \A c \in Clients : call[c].op # "wait"
    /\ topic = "statuses" =>
          /\ ReportsOK
          /\ \A c \in Clients : StepsOK(call[c]) /\ PollOK(posts, call[c])

-----------------------------------------------------------------------------
(* Every nonempty set of natural numbers has a least element.              *)
LEMMA NatMin ==
    ASSUME NEW T, T \subseteq Nat, T # {}
    PROVE  \E x \in T : \A y \in T : x <= y
<1>1. PICK k \in T : k \in Nat  OBVIOUS
<1>2. IsFiniteSet(0..k)  BY <1>1, FS_Interval
<1> DEFINE D == {0..x : x \in {y \in T : y <= k}}
<1>3. D \subseteq SUBSET (0..k) /\ D # {}  BY <1>1
<1>4. D \subseteq FiniteSubsetsOf(0..k)
  BY <1>3, FS_FiniteSubsetsOfFinite, <1>2
<1>5. \E X \in D : \A Y \in D : ~(<<Y, X>> \in StrictSubsetOrdering(0..k))
  <2> HIDE DEF D
  <2> QED  BY <1>3, <1>4, WFMin, FS_StrictSubsetOrderingWellFounded
<1>6. PICK x \in {y \in T : y <= k} :
          \A y \in {y \in T : y <= k} :
             ~(<<0..y, 0..x>> \in StrictSubsetOrdering(0..k))
  BY <1>5
<1>7. \A y \in T : x <= y
  <2> SUFFICES ASSUME NEW y \in T, y < x PROVE FALSE  BY <1>1, <1>6
  <2>1. 0..y \subseteq 0..x /\ 0..y # 0..x /\ y <= k  BY <1>1, <1>6
  <2>2. x <= k  BY <1>6
  <2>3. 0..x \subseteq 0..k /\ 0..y \subseteq 0..k
    BY <2>1, <2>2, <1>1, <1>6
  <2> QED  BY <1>6, <2>1, <2>3 DEF StrictSubsetOrdering
<1> QED  BY <1>6, <1>7

-----------------------------------------------------------------------------
(* Lists with the newest first, one report on a page.                      *)
InList(S) ==
    /\ IsFiniteSet(S)
    /\ \A p \in S : p.id \in Nat
    /\ \A p, q \in S : p.id = q.id => p = q
Above(S, p) == {q \in S : q.id > p.id}
Rank(S, p) == Cardinality(Above(S, p))

LEMMA RankBound ==
    ASSUME NEW S, InList(S), NEW p \in S
    PROVE  /\ IsFiniteSet(Above(S, p))
           /\ Rank(S, p) \in Nat /\ Cardinality(S) \in Nat
           /\ Rank(S, p) < Cardinality(S)
<1>1. Above(S, p) \in SUBSET S /\ p \notin Above(S, p)
  BY DEF Above, InList
<1>2. /\ IsFiniteSet(Above(S, p))
      /\ Cardinality(Above(S, p)) <= Cardinality(S)
      /\ Cardinality(Above(S, p)) # Cardinality(S)
  BY <1>1, FS_Subset DEF InList
<1>3. Cardinality(S) \in Nat /\ Cardinality(Above(S, p)) \in Nat
  BY <1>2, FS_CardinalityType DEF InList
<1> QED  BY <1>2, <1>3 DEF Rank

(* A report that is not the first is listed right after another.           *)
LEMMA Predecessor ==
    ASSUME NEW S, InList(S), NEW p \in S, Rank(S, p) # 0
    PROVE  \E m \in S : Rank(S, p) = Rank(S, m) + 1
<1> DEFINE B == Above(S, p)
           T == {j.id : j \in B}
<1>1. B # {} /\ IsFiniteSet(B)  BY RankBound, FS_EmptySet DEF Rank
<1>2. T \subseteq Nat /\ T # {}  BY <1>1 DEF InList, Above
<1>3. PICK x \in T : \A y \in T : x <= y
  <2> HIDE DEF T
  <2> QED  BY <1>2, NatMin
<1>4. PICK m \in B : x = m.id  BY <1>3
<1>5. \A j \in B : m.id <= j.id  BY <1>3, <1>4
<1>6. B = Above(S, m) \cup {m} /\ m \notin Above(S, m) /\ m \in S
  BY <1>4, <1>5 DEF InList, Above
<1>7. IsFiniteSet(Above(S, m)) /\ Rank(S, m) \in Nat
  BY <1>6, RankBound
<1>8. Cardinality(B) = Rank(S, m) + 1
  BY <1>6, <1>7, FS_AddElement DEF Rank
<1> QED  BY <1>6, <1>8 DEF Rank

(* The oldest report is listed last.                                       *)
LEMMA LastListed ==
    ASSUME NEW S, InList(S), S # {}
    PROVE  \E p \in S : Rank(S, p) = Cardinality(S) - 1
<1> DEFINE T == {j.id : j \in S}
<1>1. T \subseteq Nat /\ T # {}  BY DEF InList
<1>2. PICK x \in T : \A y \in T : x <= y
  <2> HIDE DEF T
  <2> QED  BY <1>1, NatMin
<1>3. PICK m \in S : x = m.id  BY <1>2
<1>4. S = Above(S, m) \cup {m} /\ m \notin Above(S, m)
  BY <1>2, <1>3 DEF InList, Above
<1>5. IsFiniteSet(Above(S, m)) /\ Rank(S, m) \in Nat
  BY RankBound
<1>6. Cardinality(Above(S, m) \cup {m}) = Rank(S, m) + 1
  BY <1>4, <1>5, FS_AddElement DEF Rank
<1> QED  BY <1>4, <1>5, <1>6

(* The first page that is empty lies beyond the list.                      *)
LEMMA EmptyPageEnds ==
    ASSUME NEW S, InList(S), NEW n \in Nat \ {0},
           \A p \in S : Rank(S, p) # n - 1
    PROVE  Cardinality(S) < n
<1> SUFFICES ASSUME ~(Cardinality(S) < n) PROVE FALSE  OBVIOUS
<1> DEFINE T == {Rank(S, p) : p \in {q \in S : Rank(S, q) >= n - 1}}
<1>1. Cardinality(S) \in Nat  BY FS_CardinalityType DEF InList
<1>2. S # {}
  <2>1. Cardinality({}) = 0  BY FS_EmptySet
  <2> QED  BY <1>1, <2>1
<1>3. T # {} /\ T \subseteq Nat
  <2>1. PICK p \in S : Rank(S, p) = Cardinality(S) - 1  BY <1>2, LastListed
  <2>2. Rank(S, p) >= n - 1  BY <1>1, <2>1
  <2>3. Rank(S, p) \in T  BY <2>2
  <2> QED  BY <2>3, RankBound
<1>4. PICK r \in T : \A y \in T : r <= y
  <2> HIDE DEF T
  <2> QED  BY <1>3, NatMin
<1>5. PICK p \in S : r = Rank(S, p) /\ Rank(S, p) >= n - 1  BY <1>4
<1>6. Rank(S, p) \in Nat /\ Rank(S, p) >= n  BY <1>5, RankBound
<1>7. PICK m \in S : Rank(S, p) = Rank(S, m) + 1  BY <1>6, Predecessor
<1>8. Rank(S, m) \in Nat  BY RankBound
<1>9. Rank(S, m) \in T  BY <1>6, <1>7, <1>8
<1> QED  BY <1>4, <1>5, <1>7, <1>8, <1>9

-----------------------------------------------------------------------------
(* The pages a poll reads.                                                 *)
LEMMA AtMostOne ==
    ASSUME NEW X, IsFiniteSet(X), Cardinality(X) <= 1,
           NEW a \in X, NEW b \in X
    PROVE  a = b
<1>1. CASE Cardinality(X) = 1
  <2>1. PICK x : X = {x}  BY <1>1, FS_Singleton
  <2> QED  BY <2>1
<1>2. CASE Cardinality(X) = 0
  <2>1. X = {}  BY <1>2, FS_EmptySet
  <2> QED  BY <2>1
<1> QED  BY <1>1, <1>2, FS_CardinalityType

LEMMA Counts ==
    ASSUME NEW S, InList(S), NEW A, A \subseteq S
    PROVE  /\ InList(A) /\ IsFiniteSet(S \ A)
           /\ Cardinality(A) \in Nat /\ Cardinality(S \ A) \in Nat
           /\ Cardinality(S) = Cardinality(A) + Cardinality(S \ A)
<1>1. IsFiniteSet(A)  BY FS_Subset DEF InList
<1>2. /\ IsFiniteSet(S \ A)
      /\ Cardinality(S \ A) = Cardinality(S) - Cardinality(S \cap A)
  BY FS_Difference DEF InList
<1>3. Cardinality(S \cap A) = Cardinality(A)
  <2>1. S \cap A = A  OBVIOUS
  <2> QED  BY <2>1
<1>4. /\ Cardinality(A) \in Nat /\ Cardinality(S \ A) \in Nat
      /\ Cardinality(S) \in Nat
  BY <1>1, <1>2, FS_CardinalityType DEF InList
<1> QED  BY <1>1, <1>2, <1>3, <1>4 DEF InList

LEMMA AtLeastCount ==
    ASSUME NEW A, InList(A), NEW p \in A
    PROVE  /\ IsFiniteSet(AtLeast(A, p)) /\ AtLeast(A, p) \in SUBSET A
           /\ Cardinality(AtLeast(A, p)) = Rank(A, p) + 1
<1>1. AtLeast(A, p) = Above(A, p) \cup {p} /\ p \notin Above(A, p)
  BY DEF AtLeast, Above, InList
<1>2. IsFiniteSet(Above(A, p))  BY RankBound
<1>3. /\ IsFiniteSet(Above(A, p) \cup {p})
      /\ Cardinality(Above(A, p) \cup {p}) = Cardinality(Above(A, p)) + 1
  BY <1>1, <1>2, FS_AddElement
<1>4. AtLeast(A, p) \in SUBSET A  BY DEF AtLeast
<1> QED  BY <1>1, <1>3, <1>4 DEF Rank

LEMMA FirstPageRead ==
    ASSUME NEW S, InList(S), NEW p \in S, Rank(S, p) = 0
    PROVE  <<p>> \in Seq(S) /\ Older(S, S) /\ Covers(S, S, <<p>>)
<1>1. Above(S, p) = {}
  BY RankBound, FS_EmptySet DEF Rank
<1>2. InTurn(S, <<p>>)  BY <1>1 DEF InTurn, Above
<1>3. Cardinality(AtLeast(S, p)) = 1  BY AtLeastCount
<1>4. S \ S = {} /\ Cardinality({}) = 0  BY FS_EmptySet
<1> QED  BY <1>2, <1>3, <1>4 DEF Covers, Older

(* What the next page shows was there when the poll began, and everything  *)
(* newer that was there has been seen.                                     *)
LEMMA NextPageRead ==
    ASSUME NEW S, InList(S), NEW A, Older(S, A), Few(S, A),
           NEW n \in Nat, n > 1, NEW s \in Seq(S), n = Len(s) + 1,
           Covers(S, A, s), NEW p \in S, Rank(S, p) = n - 1
    PROVE  Covers(S, A, Append(s, p))
<1> DEFINE N == S \ A
           k == Cardinality(N)
           t == Append(s, p)
           last == s[Len(s)]
<1>1. /\ A \subseteq S /\ InList(A) /\ IsFiniteSet(N) /\ k \in Nat
      /\ Cardinality(A) \in Nat
  BY Counts DEF Older
<1>2. p \in A
  <2> SUFFICES ASSUME p \notin A PROVE FALSE  OBVIOUS
  <2>1. Above(S, p) \subseteq N  BY DEF Above, Older, InList
  <2>2. p \notin Above(S, p)  BY DEF Above, InList
  <2>3. p \in N /\ IsFiniteSet(N) /\ Cardinality(N) <= 1  BY <1>1 DEF Few
  <2>4. ASSUME NEW b \in Above(S, p) PROVE FALSE
    <3>1. b \in N  BY <2>1
    <3>2. b = p  BY <2>3, <3>1, AtMostOne
    <3> QED  BY <2>2, <3>2
  <2>5. Above(S, p) = {}  BY <2>4
  <2> QED  BY <2>5, FS_EmptySet DEF Rank
<1>3. Rank(A, p) \in Nat /\ n - 1 = k + Rank(A, p)
  <2>1. Above(S, p) = N \cup Above(A, p) /\ N \cap Above(A, p) = {}
    BY <1>2 DEF Above, Older
  <2>2. IsFiniteSet(Above(A, p)) /\ Rank(A, p) \in Nat
    BY <1>1, <1>2, RankBound
  <2>3. Cardinality(Above(S, p)) = k + Rank(A, p) - 0
    BY <1>1, <2>1, <2>2, FS_Union, FS_EmptySet DEF Rank
  <2> QED  BY <1>1, <2>2, <2>3 DEF Rank
<1>4. /\ Len(s) \in Nat /\ Len(s) >= 1 /\ DOMAIN s = 1..Len(s)
      /\ Len(t) = n /\ DOMAIN t = 1..n /\ t[n] = p
      /\ \A i \in DOMAIN s : t[i] = s[i] /\ i < n /\ i \in DOMAIN t
  OBVIOUS
<1>5. last \in A  BY <1>4 DEF Covers, InTurn
<1>6. \A q \in A : q.id > p.id => q.id >= last.id
  <2> SUFFICES ASSUME NEW q \in A, q.id > p.id, ~(q.id >= last.id)
               PROVE  FALSE
    OBVIOUS
  <2>1. /\ AtLeast(A, last) \subseteq Above(A, p)
        /\ q \in Above(A, p) /\ q \notin AtLeast(A, last)
    BY <1>1, <1>2, <1>5 DEF AtLeast, Above, InList
  <2>2. IsFiniteSet(Above(A, p))  BY <1>1, <1>2, RankBound
  <2>3. /\ Cardinality(AtLeast(A, last)) <= Rank(A, p)
        /\ Cardinality(AtLeast(A, last)) # Rank(A, p)
    BY <2>1, <2>2, FS_Subset DEF Rank
  <2>4. Cardinality(AtLeast(A, last)) \in Nat
    BY <1>1, <1>5, AtLeastCount, FS_CardinalityType
  <2>5. Len(s) <= Cardinality(AtLeast(A, last)) + k  BY DEF Covers
  <2> QED  BY <1>1, <1>3, <2>3, <2>4, <2>5
<1>7. \A q \in A : q.id > p.id => \E j \in DOMAIN s : s[j] = q
  <2> SUFFICES ASSUME NEW q \in A, q.id > p.id
               PROVE  \E j \in DOMAIN s : s[j] = q
    OBVIOUS
  <2>1. CASE q.id > last.id  BY <2>1, <1>4 DEF Covers, InTurn
  <2>2. CASE q.id = last.id  BY <2>2, <1>1, <1>4, <1>5 DEF InList
  <2>3. q.id \in Nat /\ last.id \in Nat  BY <1>1, <1>5 DEF InList
  <2> QED  BY <1>6, <2>1, <2>2, <2>3
<1>8. InTurn(A, t)
  <2> SUFFICES ASSUME NEW i \in DOMAIN t
               PROVE  /\ t[i] \in A
                      /\ \A q \in A : q.id > t[i].id =>
                             \E j \in DOMAIN t : j < i /\ t[j] = q
    BY DEF InTurn
  <2>1. CASE i \in DOMAIN s  BY <1>4, <2>1 DEF Covers, InTurn
  <2>2. CASE i = n  BY <1>2, <1>4, <1>7, <2>2
  <2> QED  BY <1>4, <2>1, <2>2
<1>9. Cardinality(AtLeast(A, p)) = Rank(A, p) + 1
  BY <1>1, <1>2, AtLeastCount
<1> QED  BY <1>1, <1>3, <1>4, <1>8, <1>9 DEF Covers

(* A walk that ends has seen whatever was there when it began.             *)
LEMMA WalkComplete ==
    ASSUME NEW S, InList(S), NEW A, Older(S, A),
           NEW n \in Nat, n > 1, NEW s \in Seq(S), n = Len(s) + 1,
           Covers(S, A, s), \A p \in S : Rank(S, p) # n - 1
    PROVE  \A q \in A : \E i \in DOMAIN s : s[i] = q
<1> DEFINE last == s[Len(s)]
<1>1. /\ A \subseteq S /\ InList(A)
      /\ Cardinality(A) \in Nat /\ Cardinality(S \ A) \in Nat
      /\ Cardinality(S) = Cardinality(A) + Cardinality(S \ A)
  BY Counts DEF Older
<1>2. Cardinality(S) < n  BY EmptyPageEnds
<1>3. Len(s) \in Nat /\ Len(s) >= 1 /\ DOMAIN s = 1..Len(s)  OBVIOUS
<1>4. last \in A  BY <1>3 DEF Covers, InTurn
<1>5. Len(s) <= Cardinality(AtLeast(A, last)) + Cardinality(S \ A)
  BY DEF Covers
<1>6. /\ AtLeast(A, last) \in SUBSET A
      /\ Cardinality(AtLeast(A, last)) \in Nat
  BY <1>1, <1>4, AtLeastCount, FS_CardinalityType
<1>7. A = AtLeast(A, last)
  BY <1>1, <1>2, <1>3, <1>5, <1>6, FS_Subset DEF InList
<1> TAKE q \in A
<1>8. q.id >= last.id /\ q.id \in Nat /\ last.id \in Nat
  BY <1>1, <1>4, <1>7 DEF AtLeast, InList
<1>9. CASE q.id > last.id  BY <1>3, <1>9 DEF Covers, InTurn
<1>10. CASE q.id = last.id  BY <1>1, <1>3, <1>4, <1>10 DEF InList
<1> QED  BY <1>8, <1>9, <1>10

(* Another report on top of the list changes nothing of what was seen.     *)
LEMMA Grows ==
    ASSUME NEW S, InList(S), NEW p, p.id \in Nat,
           \A q \in S : q.id < p.id
    PROVE  /\ InList(S \cup {p})
           /\ \A A, s, n : Reading(S, A, s, n) => Reading(S \cup {p}, A, s, n)
           /\ \A A, s : AllRead(S, A, s) => AllRead(S \cup {p}, A, s)
<1> DEFINE T == S \cup {p}
<1>1. InList(T)  BY FS_AddElement DEF InList
<1>2. p \notin S  BY DEF InList
<1>3. ASSUME NEW A, Older(S, A)
      PROVE  /\ Older(T, A)
             /\ Cardinality(S \ A) \in Nat
             /\ Cardinality(T \ A) = Cardinality(S \ A) + 1
             /\ Few(T, A) => Few(S, A)
  <2>1. T \ A = (S \ A) \cup {p} /\ p \notin S \ A
    BY <1>2, <1>3 DEF Older
  <2>2. IsFiniteSet(S \ A) /\ Cardinality(S \ A) \in Nat
    BY <1>3, Counts DEF Older
  <2>3. Cardinality(T \ A) = Cardinality(S \ A) + 1
    BY <2>1, <2>2, FS_AddElement
  <2>4. Cardinality(T) = Cardinality(S) + 1 /\ Cardinality(S) \in Nat
    BY <1>2, FS_AddElement, FS_CardinalityType DEF InList
  <2>5. Few(T, A) => Few(S, A)
    BY <2>2, <2>3, <2>4 DEF Few, maxAllPages
  <2> QED  BY <1>3, <2>2, <2>3, <2>5 DEF Older
<1>4. \A s : s \in Seq(S) => s \in Seq(T)
  <2> SUFFICES ASSUME NEW s \in Seq(S) PROVE s \in Seq(T)  OBVIOUS
  <2>1. s \in [1..Len(s) -> T] /\ Len(s) \in Nat  OBVIOUS
  <2> QED  BY <2>1
<1>5. ASSUME NEW A, NEW s, Older(S, A), s \in Seq(S), Len(s) >= 1,
             Few(S, A) => Covers(S, A, s)
      PROVE  Few(T, A) => Covers(T, A, s)
  <2> SUFFICES ASSUME Few(T, A) PROVE Covers(T, A, s)  OBVIOUS
  <2>1. /\ Cardinality(S \ A) \in Nat
        /\ Cardinality(T \ A) = Cardinality(S \ A) + 1
    BY <1>3, <1>5
  <2>2. Covers(S, A, s)  BY <1>3, <1>5
  <2>3. s[Len(s)] \in A  BY <1>5, <2>2 DEF Covers, InTurn
  <2>4. Cardinality(AtLeast(A, s[Len(s)])) \in Nat
    <3>1. InList(A)  BY <1>5, Counts DEF Older
    <3> QED  BY <2>3, <3>1, AtLeastCount, FS_CardinalityType
  <2> QED  BY <1>5, <2>1, <2>2, <2>4 DEF Covers
<1>6. ASSUME NEW A, NEW s, NEW n, Reading(S, A, s, n)
      PROVE  Reading(T, A, s, n)
  <2>1. /\ n \in Nat \ {0} /\ n = Len(s) + 1
        /\ s \in Seq(S) /\ Len(s) \in Nat
    BY <1>6 DEF Reading
  <2>2. s \in Seq(T)  BY <1>4, <2>1
  <2>3. ASSUME n > 1
        PROVE  Older(T, A) /\ (Few(T, A) => Covers(T, A, s))
    <3>1. Older(S, A) /\ (Few(S, A) => Covers(S, A, s))
      BY <1>6, <2>3 DEF Reading
    <3>2. Len(s) >= 1  BY <2>1, <2>3
    <3> QED  BY <1>3, <1>5, <2>1, <3>1, <3>2
  <2> QED  BY <2>1, <2>2, <2>3 DEF Reading
<1>7. ASSUME NEW A, NEW s, AllRead(S, A, s) PROVE AllRead(T, A, s)
  <2>1. s \in Seq(S) /\ Older(S, A)  BY <1>7 DEF AllRead
  <2>2. Few(T, A) => Few(S, A)  BY <1>3, <2>1
  <2>3. s \in Seq(T) /\ Older(T, A)  BY <1>3, <1>4, <2>1
  <2> QED  BY <1>7, <2>2, <2>3 DEF AllRead
<1> HIDE DEF T
<1> QED  BY <1>1, <1>6, <1>7 DEF T
-----------------------------------------------------------------------------
(* The judgement of a poll.                                                *)
LEMMA LatestAreNewest ==
    ASSUME NEW S, InList(S), \A p \in S : p.kind = "status",
           NEW A, NEW s, AllRead(S, A, s), Few(S, A), NEW want
    PROVE  LET chosen == {i \in LatestCommitStatuses(s) :
                             want = {} \/ s[i].text \in want}
           IN  /\ chosen \subseteq DOMAIN s
               /\ \A i \in chosen : s[i] \in Newest(A, want)
               /\ \A p \in Newest(A, want) : \E i \in chosen : s[i] = p
<1> DEFINE latest == LatestCommitStatuses(s)
           chosen == {i \in latest : want = {} \/ s[i].text \in want}
<1>1. /\ A \subseteq S /\ InTurn(A, s)
      /\ \A q \in A : \E i \in DOMAIN s : s[i] = q
  BY DEF AllRead, Older
<1>2. /\ DOMAIN s \subseteq Nat
      /\ latest \subseteq DOMAIN s /\ chosen \subseteq DOMAIN s
  <2>1. s \in Seq(S)  BY DEF AllRead
  <2>2. DOMAIN s = 1..Len(s) /\ Len(s) \in Nat  BY <2>1
  <2> QED  BY <2>2 DEF LatestCommitStatuses
<1>3. ASSUME NEW i \in latest, NEW q \in A, q.text = s[i].text
      PROVE  q.id <= s[i].id
  <2>1. CASE q.id > s[i].id
    <3>1. PICK j \in DOMAIN s : j < i /\ s[j] = q
      BY <1>1, <1>2, <2>1 DEF InTurn
    <3>2. i <= j  BY <1>3, <3>1 DEF LatestCommitStatuses
    <3> QED  BY <1>2, <3>1, <3>2
  <2>2. q.id \in Nat /\ s[i].id \in Nat
    BY <1>1, <1>2 DEF InTurn, InList
  <2> QED  BY <2>1, <2>2
<1>4. \A i \in chosen : s[i] \in Newest(A, want)
  BY <1>1, <1>2, <1>3 DEF Newest, InTurn
<1>5. ASSUME NEW p \in Newest(A, want)
      PROVE  \E i \in chosen : s[i] = p
  <2> DEFINE T == {j \in DOMAIN s : s[j].text = p.text}
  <2>1. p \in A /\ (want = {} \/ p.text \in want)
        /\ \A q \in A : q.kind = "status" /\ q.text = p.text => q.id <= p.id
    BY DEF Newest
  <2>2. T # {} /\ T \subseteq Nat  BY <1>1, <1>2, <2>1
  <2>3. PICK i \in T : \A j \in T : i <= j
    <3> HIDE DEF T
    <3> QED  BY <2>2, NatMin
  <2>4. i \in latest /\ s[i].text = p.text
    BY <2>3 DEF LatestCommitStatuses
  <2>5. s[i] \in A /\ s[i].kind = "status"
    BY <1>1, <1>2, <2>4 DEF InTurn
  <2>6. p.id <= s[i].id /\ s[i].id <= p.id  BY <1>3, <2>1, <2>4, <2>5
  <2>7. s[i] = p  BY <1>1, <2>1, <2>5, <2>6 DEF InList
  <2> QED  BY <2>1, <2>4, <2>7
<1> QED  BY <1>2, <1>4, <1>5

LEMMA Combined ==
    ASSUME NEW states, NEW out, out = CombineCommitStatusStates(states),
           Terminal(out)
    PROVE  /\ out \in states
           /\ out = "success" => states = {"success"}
           /\ out \in {"failure", "canceled"} => "error" \notin states
           /\ out = "canceled" => "failure" \notin states
<1>1. CASE "error" \in states
  <2>1. out = "error"  BY <1>1, Zenon DEF CombineCommitStatusStates
  <2> QED  BY <1>1, <2>1
<1>2. CASE "error" \notin states /\ "failure" \in states
  <2>1. out = "failure"  BY <1>2, Zenon DEF CombineCommitStatusStates
  <2> QED  BY <1>2, <2>1
<1>3. CASE states \cap {"error", "failure"} = {} /\ "canceled" \in states
  <2>1. out = "canceled"  BY <1>3, SMT DEF CombineCommitStatusStates
  <2> QED  BY <1>3, <2>1
<1>4. CASE states \cap {"error", "failure", "canceled"} = {}
  <2>1. out = IF states = {"success"} THEN "success" ELSE "pending"
    BY <1>4, SMT DEF CombineCommitStatusStates
  <2> QED  BY <2>1 DEF Terminal
<1> QED  BY <1>1, <1>2, <1>3, <1>4

LEMMA VerdictOf ==
    ASSUME NEW S, InList(S), \A p \in S : p.kind = "status",
           NEW A, NEW s, AllRead(S, A, s), Few(S, A), NEW want,
           NEW out, out = FoldTerminalStates(s, want), Terminal(out)
    PROVE  LET said == {NormalizeCommitStatusState(p.state) :
                           p \in Newest(A, want)}
           IN  /\ \A w \in want : \E p \in A : p.text = w
               /\ out \in said
               /\ out = "success" => said = {"success"}
               /\ out \in {"failure", "canceled"} => "error" \notin said
               /\ out = "canceled" => "failure" \notin said
<1> DEFINE chosen == {i \in LatestCommitStatuses(s) :
                         want = {} \/ s[i].text \in want}
           N(w) == NormalizeCommitStatusState(w)
           states == {N(s[i].state) : i \in chosen}
           said == {N(p.state) : p \in Newest(A, want)}
<1>1. /\ \A i \in chosen : s[i] \in Newest(A, want)
      /\ \A p \in Newest(A, want) : \E i \in chosen : s[i] = p
  BY LatestAreNewest
<1> HIDE DEF N
<1>2. states = said  BY <1>1
<1>3. /\ ~\E w \in want : \A i \in chosen : s[i].text # w
      /\ out = CombineCommitStatusStates(states)
  BY DEF FoldTerminalStates, Terminal, N
<1>4. \A p \in Newest(A, want) : p \in A  BY DEF Newest
<1>5. \A w \in want : \E p \in A : p.text = w
  BY <1>1, <1>3, <1>4
<1> HIDE DEF states, said, chosen
<1>6. /\ out \in said
      /\ out = "success" => said = {"success"}
      /\ out \in {"failure", "canceled"} => "error" \notin said
      /\ out = "canceled" => "failure" \notin said
  BY <1>2, <1>3, Combined
<1> QED  BY <1>5, <1>6 DEF said, N

-----------------------------------------------------------------------------
(* The records of calls.                                                   *)
LEMMA FinishedFields ==
    ASSUME NEW r, IsCall(r), NEW out
    PROVE  LET q == Finished(r, out)
           IN  /\ IsCall(q) /\ q.op = r.op /\ q.steps = << >> /\ q.out = out
               /\ q.spare = << >>
BY DEF IsCall, CallShape, Finished

LEMMA StepsFields ==
    ASSUME NEW r, IsCall(r), NEW s
    PROVE  LET q == [r EXCEPT !.steps = s]
           IN  /\ IsCall(q) /\ q.op = r.op /\ q.steps = s /\ q.out = r.out
               /\ q.spare = r.spare /\ q.seen = r.seen /\ q.at = r.at
BY DEF IsCall, CallShape

LEMMA FailedFields ==
    ASSUME NEW r, IsCall(r)
    PROVE  LET q == [r EXCEPT !.failed = TRUE]
           IN  /\ IsCall(q) /\ q.op = r.op /\ q.steps = r.steps
               /\ q.out = r.out /\ q.spare = r.spare
BY DEF IsCall, CallShape

LEMMA OtherWayFields ==
    ASSUME NEW r, IsCall(r)
    PROVE  LET q == [r EXCEPT !.failed = TRUE, !.steps = r.spare,
                              !.spare = << >>, !.seen = << >>]
           IN  /\ IsCall(q) /\ q.op = r.op /\ q.steps = r.spare
               /\ q.out = r.out /\ q.spare = << >>
BY DEF IsCall, CallShape

LEMMA AloneFields ==
    ASSUME NEW r, IsCall(r), NEW b
    PROVE  LET q == [r EXCEPT !.alone = b]
           IN  /\ IsCall(q) /\ q.op = r.op /\ q.steps = r.steps
               /\ q.out = r.out /\ q.spare = r.spare /\ q.seen = r.seen
               /\ q.at = r.at
BY DEF IsCall, CallShape

LEMMA OnwardFields ==
    ASSUME NEW r, IsCall(r)
    PROVE  IsCall(Onward(r)) /\ Onward(r).op = r.op
BY FinishedFields, StepsFields DEF Onward
LEMMA QuitFields ==
    ASSUME NEW r, IsCall(r)
    PROVE  IsCall(Quit(r)) /\ Quit(r).op = r.op
<1> DEFINE s == Head(r.steps)
           f == [r EXCEPT !.failed = TRUE]
           a == Onward([f EXCEPT !.steps = SubSeq(@, 1 + s.lost, Len(@))])
           b == [f EXCEPT !.steps = r.spare, !.spare = << >>,
                          !.seen = << >>]
<1>1. IsCall(f) /\ f.op = r.op  BY FailedFields
<1>2. IsCall(a) /\ a.op = r.op
  <2>1. \A x : IsCall([f EXCEPT !.steps = x]) /\
               [f EXCEPT !.steps = x].op = r.op
    BY <1>1, StepsFields
  <2> HIDE DEF f
  <2> QED  BY <2>1, OnwardFields
<1>3. IsCall(Onward(f)) /\ Onward(f).op = r.op  BY <1>1, OnwardFields
<1>4. IsCall(b) /\ b.op = r.op  BY <1>1 DEF IsCall, CallShape
<1>5. /\ IsCall(Finished(f, "failed"))
      /\ Finished(f, "failed").op = r.op
  BY <1>1, FinishedFields
<1>6. Quit(r) \in {a, Onward(f), b, Finished(f, "failed")}
  BY Zenon DEF Quit
<1> HIDE DEF a, b, f
<1> QED  BY <1>2, <1>3, <1>4, <1>5, <1>6

(* A request about statuses that failed.                                   *)
LEMMA QuitPost ==
    ASSUME NEW r, IsCall(r), Posting(r.steps), r.spare = << >>
    PROVE  Quit(r).steps = << >> /\ Quit(r).spare = << >>
<1> DEFINE f == [r EXCEPT !.failed = TRUE]
<1>1. PICK t, w : r.steps = <<PostAs("status", t, w)>>  BY DEF Posting
<1>2. /\ Head(r.steps).do = "post" /\ ~Head(r.steps).tolerated
  BY <1>1 DEF PostAs
<1>3. Quit(r) = Finished(f, "failed")  BY <1>2, Zenon DEF Quit
<1>4. IsCall(f)  BY FailedFields
<1> HIDE DEF f
<1> QED  BY <1>3, <1>4, FinishedFields

LEMMA QuitPage ==
    ASSUME NEW r, IsCall(r), NEW n, NEW t, r.steps = <<Page(n), t>>
    PROVE  \/ Quit(r).steps = << >> /\ Quit(r).spare = << >>
           \/ /\ r.spare # << >>
              /\ Quit(r).steps = r.spare /\ Quit(r).spare = << >>
              /\ Quit(r).out = r.out /\ Quit(r).seen = << >>
<1> DEFINE f == [r EXCEPT !.failed = TRUE]
           b == [f EXCEPT !.steps = r.spare, !.spare = << >>,
                          !.seen = << >>]
<1>1. Head(r.steps).do = "page"  BY DEF Page
<1>2. Quit(r) = IF r.spare # << >> THEN b ELSE Finished(f, "failed")
  BY <1>1, Zenon DEF Quit
<1>3. IsCall(f) /\ f.out = r.out  BY FailedFields
<1>4. /\ b.steps = r.spare /\ b.spare = << >> /\ b.out = r.out
      /\ b.seen = << >>
  BY <1>3 DEF IsCall, CallShape
<1>5. /\ Finished(f, "failed").steps = << >>
      /\ Finished(f, "failed").spare = << >>
  BY <1>3, FinishedFields
<1> HIDE DEF f, b
<1> QED  BY <1>2, <1>4, <1>5

-----------------------------------------------------------------------------
(* Topics without a wait: a call goes on as what it is.                    *)
Moves(c) ==
    \E x : /\ call' = [call EXCEPT ![c] = x]
           /\ IsCall(x) /\ x.op = call[c].op

LEMMA ReplyMoves ==
    ASSUME NEW c \in Clients, NEW r, IsCall(r), r.op = call[c].op, Reply(c, r)
    PROVE  Moves(c)
BY OnwardFields DEF Reply, Moves

LEMMA QuitMoves ==
    ASSUME NEW c \in Clients, WaitInv,
           call' = [call EXCEPT ![c] = Quit(@)]
    PROVE  Moves(c)
<1>1. IsCall(call[c]) /\ call' = [call EXCEPT ![c] = Quit(call[c])]
  BY DEF WaitInv
<1> QED  BY <1>1, QuitFields DEF Moves

LEMMA AnswerMoves ==
    ASSUME NEW c \in Clients, WaitInv, Answer(c)
    PROVE  Moves(c)
<1>1. IsCall(call[c])  BY DEF WaitInv
<1>2. CASE Reply(c, call[c])  BY <1>1, <1>2, ReplyMoves
<1>3. CASE call' = [call EXCEPT ![c] = Quit(@)]  BY <1>3, QuitMoves
<1> QED  BY <1>2, <1>3 DEF Answer

LEMMA RefuseMoves ==
    ASSUME NEW c \in Clients, WaitInv, Refuse(c)
    PROVE  Moves(c)
BY QuitMoves DEF Refuse

(* A read that keeps what it saw.                                          *)
LEMMA SeenMoves ==
    ASSUME NEW c \in Clients, WaitInv, NEW x,
           Reply(c, [call[c] EXCEPT !.seen = x])
    PROVE  Moves(c)
<1>1. IsCall(call[c])  BY DEF WaitInv
<1>2. /\ IsCall([call[c] EXCEPT !.seen = x])
      /\ [call[c] EXCEPT !.seen = x].op = call[c].op
  BY <1>1 DEF IsCall, CallShape
<1> QED  BY <1>2, ReplyMoves

LEMMA AtFields ==
    ASSUME NEW r, IsCall(r), NEW a
    PROVE  LET q == [r EXCEPT !.at = a]
           IN  /\ IsCall(q) /\ q.op = r.op /\ q.at = a /\ q.steps = r.steps
               /\ q.spare = r.spare /\ q.seen = r.seen /\ q.out = r.out
BY DEF IsCall, CallShape

Turned(r, s, step) == [r EXCEPT !.seen = s, !.steps[1] = step]
LEMMA PageFields ==
    ASSUME NEW r, NEW s, NEW step, NEW q, IsCall(r), q = Turned(r, s, step)
    PROVE  /\ IsCall(q) /\ q.op = r.op /\ q.at = r.at /\ q.seen = s
           /\ q.spare = r.spare /\ q.out = r.out
           /\ q.steps = [r.steps EXCEPT ![1] = step]
BY DEF IsCall, CallShape, Turned

(* A step that only a call of c makes, and nobody waits.                   *)
LEMMA UnwaitedStep ==
    ASSUME WaitInv, topic # "statuses", topic' = topic,
           NEW c \in Clients, Moves(c)
    PROVE  WaitInv'
<1>1. PICK x : /\ call' = [call EXCEPT ![c] = x]
               /\ IsCall(x) /\ x.op = call[c].op
  BY DEF Moves
<1>2. /\ call = [d \in Clients |-> call[d]]
      /\ \A d \in Clients : IsCall(call[d])
      /\ \A d \in Clients : call[d].op # "wait"
      /\ topic \in Topics
  BY DEF WaitInv
<1>3. \A d \in Clients : call'[d] = IF d = c THEN x ELSE call[d]
  BY <1>1, <1>2
<1>4. call' = [d \in Clients |-> call'[d]]  BY <1>1, <1>2
<1>5. \A d \in Clients : IsCall(call'[d]) /\ call'[d].op # "wait"
  BY <1>1, <1>2, <1>3
<1> QED  BY <1>2, <1>4, <1>5 DEF WaitInv, IsCall, CallShape

(* What a step of another leaves of a call.                                *)
Kept(y, r) ==
    /\ IsCall(y) /\ y.op = r.op /\ y.steps = r.steps /\ y.out = r.out
    /\ y.spare = r.spare /\ y.seen = r.seen /\ y.at = r.at

LEMMA KeptOK ==
    ASSUME NEW y, NEW r, Kept(y, r)
    PROVE  /\ StepsOK(r) => StepsOK(y)
           /\ \A S : PollOK(S, r) => PollOK(S, y)
<1>1. /\ y.op = r.op /\ y.steps = r.steps /\ y.out = r.out
      /\ y.spare = r.spare /\ y.seen = r.seen /\ y.at = r.at
  BY DEF Kept
<1>2. StepsOK(r) => StepsOK(y)  BY <1>1, Zenon DEF StepsOK
<1>3. \A S : PollOK(S, r) => PollOK(S, y)  BY <1>1, Zenon DEF PollOK
<1> QED  BY <1>2, <1>3

LEMMA StatusStep ==
    ASSUME WaitInv, topic = "statuses", topic' = topic,
           NEW c \in Clients, NEW x,
           call' = [d \in Clients |-> call'[d]],
           call'[c] = x,
           \A d \in Clients : d # c => Kept(call'[d], call[d]),
           IsCall(x), StepsOK(x),
           ReportsOK', \A r : PollOK(posts, r) => PollOK(posts', r),
           PollOK(posts', x)
    PROVE  WaitInv'
<1>1. \A d \in Clients : /\ IsCall(call[d]) /\ StepsOK(call[d])
                         /\ PollOK(posts, call[d])
  BY DEF WaitInv
<1>2. \A d \in Clients : IsCall(call'[d])  BY DEF Kept
<1>3. ASSUME NEW d \in Clients, d # c
      PROVE  StepsOK(call'[d]) /\ PollOK(posts', call'[d])
  <2>1. Kept(call'[d], call[d])  BY <1>3
  <2>2. StepsOK(call'[d])  BY <1>1, <2>1, KeptOK
  <2>3. PollOK(posts', call[d])  BY <1>1
  <2>4. PollOK(posts', call'[d])  BY <2>1, <2>3, KeptOK
  <2> QED  BY <2>2, <2>4
<1>4. \A d \in Clients : StepsOK(call'[d]) /\ PollOK(posts', call'[d])
  BY <1>3
<1>5. \A r : (IsCall(r)' <=> IsCall(r)) /\ (StepsOK(r)' <=> StepsOK(r))
  BY DEF IsCall, CallShape, StepsOK, Posting
<1>6. topic' \in Topics  BY DEF WaitInv
<1> QED  BY <1>2, <1>4, <1>6 DEF WaitInv, PollOK, StepsOK, IsCall, CallShape

LEMMA OwnStep ==
    ASSUME WaitInv, topic = "statuses", topic' = topic,
           NEW c \in Clients, NEW x, call' = [call EXCEPT ![c] = x],
           IsCall(x), StepsOK(x),
           ReportsOK', \A r : PollOK(posts, r) => PollOK(posts', r),
           PollOK(posts', x)
    PROVE  WaitInv'
<1>1. /\ call = [d \in Clients |-> call[d]]
      /\ \A d \in Clients : IsCall(call[d])
  BY DEF WaitInv
<1>2. /\ call' = [d \in Clients |-> call'[d]]
      /\ call'[c] = x
      /\ \A d \in Clients : d # c => call'[d] = call[d]
  BY <1>1
<1>3. \A d \in Clients : d # c => Kept(call'[d], call[d])
  BY <1>1, <1>2 DEF Kept
<1> QED  BY <1>2, <1>3, StatusStep

(* A call begins.                                                          *)
LEMMA Started ==
    ASSUME WaitInv, NEW c \in Clients, NEW q, NEW plan, NEW target,
           Start(c, q, plan, target)
    PROVE  /\ call' = [d \in Clients |-> call'[d]]
           /\ IsCall(call'[c])
           /\ call'[c].op = q.op /\ call'[c].out = ""
           /\ call'[c].steps = plan.first /\ call'[c].spare = plan.spare
           /\ call'[c].seen = << >>
           /\ \A d \in Clients : d # c => Kept(call'[d], call[d])
<1>1. \A d \in Clients : IsCall(call[d])  BY DEF WaitInv
<1> DEFINE x == [Idle EXCEPT !.op = q.op, !.o = q.o, !.out = "",
                             !.steps = plan.first, !.spare = plan.spare,
                             !.next = nextPost, !.target = target,
                             !.at = MainNow,
                             !.alone = \A e \in Clients : ~Active(e)]
<1>2. call' = [d \in Clients |->
                  IF d = c THEN x
                  ELSE [call[d] EXCEPT !.alone = @ /\ ~Active(d)]]
  BY DEF Start
<1>3. /\ IsCall(x) /\ x.op = q.op /\ x.out = "" /\ x.steps = plan.first
      /\ x.spare = plan.spare /\ x.seen = << >>
  BY DEF IsCall, CallShape, Idle
<1> HIDE DEF x
<1>4. ASSUME NEW d \in Clients, d # c
      PROVE  Kept(call'[d], call[d])
  <2>1. call'[d] = [call[d] EXCEPT !.alone = call[d].alone /\ ~Active(d)]
    BY <1>2, <1>4
  <2>2. IsCall(call[d])  BY <1>1
  <2> HIDE DEF Active
  <2> QED  BY <2>1, <2>2, AloneFields DEF Kept
<1>5. call'[c] = x /\ call' = [d \in Clients |-> call'[d]]  BY <1>2
<1> QED  BY <1>3, <1>4, <1>5

LEMMA BeginUnwaited ==
    ASSUME WaitInv, topic # "statuses", NEW c \in Clients,
           Begin(c) \/ BeginWait(c)
    PROVE  WaitInv'
<1>1. topic \in Topics /\ topic' = topic
  BY DEF WaitInv, Begin, BeginWait, Start, setting
<1>2. PICK q, plan, target : q \in Calls(topic, c) /\ Start(c, q, plan, target)
  BY Zenon DEF Begin, BeginWait
<1>3. q.op # "wait"
  <2>1. topic # "statuses" /\ topic \in Topics /\ q \in Calls(topic, c)
    BY <1>1, <1>2
  <2> QED  BY <2>1, CommitWaitAssumption
<1>4. /\ call' = [d \in Clients |-> call'[d]]
      /\ IsCall(call'[c]) /\ call'[c].op = q.op
      /\ \A d \in Clients : d # c => Kept(call'[d], call[d])
  BY <1>2, Started
<1>5. \A d \in Clients : call[d].op # "wait"  BY DEF WaitInv
<1>6. \A d \in Clients : IsCall(call'[d]) /\ call'[d].op # "wait"
  BY <1>3, <1>4, <1>5 DEF Kept
<1> QED  BY <1>1, <1>4, <1>6 DEF WaitInv, IsCall, CallShape

LEMMA BeginStatus ==
    ASSUME WaitInv, topic = "statuses", NEW c \in Clients,
           Begin(c) \/ BeginWait(c)
    PROVE  WaitInv'
<1>1. /\ topic \in Topics /\ topic' = topic
      /\ posts' = posts /\ nextPost' = nextPost
  BY DEF WaitInv, Begin, BeginWait, Start, setting
<1>2. ReportsOK'  BY <1>1 DEF WaitInv, ReportsOK
<1>3. \A q \in Calls(topic, c) : q.op \in {"report", "liststatuses", "wait"}
  BY <1>1, CommitWaitAssumption
<1>4. ASSUME NEW q \in Calls(topic, c), q.op # "wait", NEW target,
             Start(c, q, PlanOf(q), target)
      PROVE  StepsOK(call'[c]) /\ PollOK(posts', call'[c])
  <2>1. PlanOf(q) = StatusCall(backend, q.op, q.o)  BY Zenon DEF PlanOf
  <2>2. /\ call'[c].op = q.op
        /\ call'[c].steps = PlanOf(q).first
        /\ call'[c].spare = PlanOf(q).spare
    BY <1>4, Started
  <2>3. CASE q.op = "report"
    <3>1. PlanOf(q) = Plan(<<PostAs("status", q.o.context,
                                    StatusWord(backend, q.o.state))>>)
      BY <2>1, <2>3, Zenon DEF StatusCall
    <3>2. /\ PlanOf(q).first = <<PostAs("status", q.o.context,
                                        StatusWord(backend, q.o.state))>>
          /\ PlanOf(q).spare = << >>
      BY <3>1 DEF Plan
    <3>3. Posting(PlanOf(q).first)  BY <3>2, Zenon DEF Posting
    <3> QED  BY <2>2, <2>3, <3>2, <3>3 DEF StepsOK, PollOK
  <2>4. CASE q.op = "liststatuses"
    <3>1. PlanOf(q) = Plan(Pages)
      BY <2>1, <2>4, Zenon DEF StatusCall
    <3>2. PlanOf(q).first = <<Page(1), Return>> /\ PlanOf(q).spare = << >>
      BY <3>1 DEF Plan, Pages
    <3> QED  BY <2>2, <2>4, <3>2 DEF StepsOK, PollOK
  <2> QED  BY <1>3, <1>4, <2>3, <2>4
<1>5. ASSUME NEW q \in Calls(topic, c), q.op = "wait",
             Start(c, q, WaitPlan(q.o), NoPost)
      PROVE  StepsOK(call'[c]) /\ PollOK(posts', call'[c])
  <2>1. /\ call'[c].op = q.op /\ call'[c].out = ""
        /\ call'[c].steps = WaitPlan(q.o).first
        /\ call'[c].spare = WaitPlan(q.o).spare
        /\ call'[c].seen = << >>
    BY <1>5, Started
  <2>2. /\ WaitPlan(q.o).spare = <<Tick>>
        /\ WaitPlan(q.o).first \in {<<Tick>>, <<Page(1), Judgement>>}
    BY DEF WaitPlan, PlanOr, Poll, Judgement
  <2>3. StepsOK(call'[c])  BY <1>5, <2>1, <2>2 DEF StepsOK
  <2>4. ASSUME NEW n, call'[c].steps = <<Page(n), Judgement>>
        PROVE  n = 1
    <3>1. <<Tick>> # <<Page(n), Judgement>>  OBVIOUS
    <3>2. <<Page(1), Judgement>> = <<Page(n), Judgement>>
      BY <2>1, <2>2, <2>4, <3>1, Zenon
    <3>3. <<Page(1), Judgement>>[1] = <<Page(n), Judgement>>[1]  BY <3>2
    <3>4. Page(1) = Page(n)
      <4> HIDE DEF Page, Judgement
      <4> QED  BY <3>3
    <3>5. Page(1).n = Page(n).n  BY <3>4
    <3> QED  BY <3>5 DEF Page
  <2>5. \A A : Reading(posts', A, << >>, 1)  BY DEF Reading
  <2>6. <<Judgement>> \notin {<<Tick>>, <<Page(1), Judgement>>}
    BY DEF Judgement, Tick
  <2> QED  BY <2>1, <2>2, <2>3, <2>4, <2>5, <2>6 DEF PollOK
<1>6. StepsOK(call'[c]) /\ PollOK(posts', call'[c])
  BY <1>4, <1>5, Zenon DEF Begin, BeginWait
<1>7. PICK q, plan, target : q \in Calls(topic, c) /\ Start(c, q, plan, target)
  BY Zenon DEF Begin, BeginWait
<1>8. /\ call' = [d \in Clients |-> call'[d]]
      /\ IsCall(call'[c])
      /\ \A d \in Clients : d # c => Kept(call'[d], call[d])
  BY <1>7, Started
<1> QED  BY <1>1, <1>2, <1>6, <1>8, StatusStep
-----------------------------------------------------------------------------
(* The steps of a call, where nobody waits.                                *)
Reads(c) == ReadPage(c) \/ ReadWhole(c) \/ ReadOne(c) \/ WalkRepos(c)
            \/ ReadAside(c) \/ ReturnList(c) \/ ReadHead(c)
Writes(c) == AddPost(c) \/ PutPost(c) \/ TakePost(c) \/ MarkNotices(c)
             \/ ForkBranch(c)
Waits(c) == MissCommit(c) \/ Judge(c) \/ TickOn(c) \/ GiveUp(c)

LEMMA WriteMoves ==
    ASSUME WaitInv, NEW c \in Clients, Writes(c)
    PROVE  Moves(c) /\ topic' = topic
<1>1. topic' = topic
  BY DEF Writes, AddPost, PutPost, TakePost, MarkNotices, ForkBranch, setting
<1>2. IsCall(call[c])  BY DEF WaitInv
<1>3. Refuse(c) \/ Answer(c) \/ Reply(c, call[c])
  BY Zenon DEF Writes, AddPost, PutPost, TakePost, MarkNotices, ForkBranch
<1> QED  BY <1>1, <1>2, <1>3, RefuseMoves, AnswerMoves, ReplyMoves

LEMMA ReadMoves ==
    ASSUME WaitInv, NEW c \in Clients, Reads(c)
    PROVE  Moves(c) /\ topic' = topic
<1>1. topic' = topic
  BY DEF Reads, ReadPage, ReadWhole, ReadOne, WalkRepos, ReadAside,
         ReturnList, ReadHead, setting
<1>2. IsCall(call[c])  BY DEF WaitInv
<1>3. CASE ReadPage(c)
  <2> DEFINE a == IF Step(c).n = 1 /\ call[c].op = "wait" THEN posts
                  ELSE call[c].at
  <2>0. PICK r : r = [call[c] EXCEPT !.at = a]  OBVIOUS
  <2>1. IsCall(r) /\ r.op = call[c].op  BY <1>2, <2>0, AtFields
  <2>2. \/ Reply(c, r)
        \/ \E p : call' = [call EXCEPT ![c] =
                     [r EXCEPT !.seen = Append(@, p),
                               !.steps[1] = Page(Step(c).n + 1)]]
    BY <1>3, <2>0 DEF ReadPage
  <2>3. CASE Reply(c, r)  BY <1>1, <2>1, <2>3, ReplyMoves
  <2>4. ASSUME NEW p,
               call' = [call EXCEPT ![c] =
                   [r EXCEPT !.seen = Append(@, p),
                             !.steps[1] = Page(Step(c).n + 1)]]
        PROVE  Moves(c)
    <3>1. PICK x : x = [r EXCEPT !.seen = Append(@, p),
                                 !.steps[1] = Page(Step(c).n + 1)]
      OBVIOUS
    <3>2. IsCall(x) /\ x.op = r.op  BY <2>1, <3>1 DEF IsCall, CallShape
    <3> QED  BY <2>1, <2>4, <3>1, <3>2 DEF Moves
  <2> QED  BY <1>1, <2>2, <2>3, <2>4
<1>4. CASE ReadWhole(c)
  <2>1. \E x : Reply(c, [call[c] EXCEPT !.seen = x])
    BY <1>4, Zenon DEF ReadWhole
  <2> QED  BY <1>1, <2>1, SeenMoves
<1>5. CASE ReadOne(c)
  <2>1. Refuse(c) \/ \E x : Reply(c, [call[c] EXCEPT !.seen = x])
    BY <1>5, Zenon DEF ReadOne
  <2> QED  BY <1>1, <2>1, SeenMoves, RefuseMoves
<1>6. CASE WalkRepos(c)
  <2>1. \/ Refuse(c) \/ Reply(c, call[c])
        \/ call' = [call EXCEPT ![c].seen = @ \o PageShown(Step(c)),
                                ![c].steps[1].n = @ + 1]
    BY <1>6, Zenon DEF WalkRepos
  <2>2. ASSUME call' = [call EXCEPT ![c].seen = @ \o PageShown(Step(c)),
                                    ![c].steps[1].n = @ + 1]
        PROVE  Moves(c)
    <3>1. PICK r : r = call[c]  OBVIOUS
    <3>2. PICK x : x = [r EXCEPT !.seen = r.seen \o PageShown(Step(c)),
                                 !.steps[1].n = @ + 1]
      OBVIOUS
    <3>3. IsCall(x) /\ x.op = r.op
      BY <1>2, <3>1, <3>2 DEF IsCall, CallShape
    <3>4. call' = [call EXCEPT ![c] = x]
      <4>1. call = [d \in Clients |-> call[d]]  BY DEF WaitInv
      <4> QED  BY <2>2, <1>2, <3>1, <3>2, <4>1 DEF IsCall, CallShape
    <3> QED  BY <3>1, <3>3, <3>4 DEF Moves
  <2> QED  BY <1>1, <1>2, <2>1, <2>2, RefuseMoves, ReplyMoves
<1>7. CASE ReadAside(c) \/ ReturnList(c)
  <2>1. Reply(c, call[c])  BY <1>7 DEF ReadAside, ReturnList
  <2> QED  BY <1>1, <1>2, <2>1, ReplyMoves
<1>8. CASE ReadHead(c)
  <2>1. \E x : Reply(c, [call[c] EXCEPT !.seen = x])
    BY <1>8, Zenon DEF ReadHead
  <2> QED  BY <1>1, <2>1, SeenMoves
<1> QED  BY <1>3, <1>4, <1>5, <1>6, <1>7, <1>8 DEF Reads

LEMMA WaitMoves ==
    ASSUME WaitInv, NEW c \in Clients, Waits(c)
    PROVE  Moves(c) /\ topic' = topic
<1>1. topic' = topic
  BY DEF Waits, MissCommit, Judge, TickOn, GiveUp, setting
<1>2. IsCall(call[c])  BY DEF WaitInv
<1>3. \E x \in {[call[c] EXCEPT !.steps = <<Tick>>, !.seen = << >>,
                                !.at = {}],
                [call[c] EXCEPT !.steps = Poll, !.spare = <<Tick>>]}
              \cup {Finished(call[c], out) :
                       out \in {"failed",
                                FoldTerminalStates(call[c].seen,
                                                   call[c].o.want)}} :
          call' = [call EXCEPT ![c] = x]
  <2>1. CASE MissCommit(c) \/ GiveUp(c)
    BY <2>1 DEF MissCommit, GiveUp
  <2>2. CASE Judge(c)  BY <2>2 DEF Judge
  <2>3. CASE TickOn(c)
    <3>1. call = [d \in Clients |-> call[d]]  BY DEF WaitInv
    <3>2. call' = [call EXCEPT ![c] = [call[c] EXCEPT !.steps = Poll,
                                                      !.spare = <<Tick>>]]
      BY <1>2, <2>3, <3>1 DEF TickOn, IsCall, CallShape
    <3> QED  BY <3>2
  <2> QED  BY <2>1, <2>2, <2>3 DEF Waits
<1>4. LET q == [call[c] EXCEPT !.steps = Poll, !.spare = <<Tick>>]
      IN  IsCall(q) /\ q.op = call[c].op
  BY <1>2 DEF IsCall, CallShape
<1>5. LET q == [call[c] EXCEPT !.steps = <<Tick>>, !.seen = << >>, !.at = {}]
      IN  IsCall(q) /\ q.op = call[c].op
  BY <1>2 DEF IsCall, CallShape
<1>6. \A out : IsCall(Finished(call[c], out))
               /\ Finished(call[c], out).op = call[c].op
  BY <1>2, FinishedFields
<1>7. PICK x \in {[call[c] EXCEPT !.steps = <<Tick>>, !.seen = << >>,
                                  !.at = {}],
                  [call[c] EXCEPT !.steps = Poll, !.spare = <<Tick>>]}
                 \cup {Finished(call[c], out) :
                       out \in {"failed",
                                FoldTerminalStates(call[c].seen,
                                                   call[c].o.want)}} :
          call' = [call EXCEPT ![c] = x]
  BY <1>3
<1>8. IsCall(x) /\ x.op = call[c].op
  <2>1. CASE x = [call[c] EXCEPT !.steps = <<Tick>>, !.seen = << >>,
                                 !.at = {}]
    BY <1>5, <2>1
  <2>2. CASE x = [call[c] EXCEPT !.steps = Poll, !.spare = <<Tick>>]
    BY <1>4, <2>2
  <2>3. ASSUME NEW out, x = Finished(call[c], out)
        PROVE  IsCall(x) /\ x.op = call[c].op
    BY <1>6, <2>3
  <2> QED  BY <1>7, <2>1, <2>2, <2>3
<1> QED  BY <1>1, <1>7, <1>8 DEF Moves

LEMMA FailMoves ==
    ASSUME WaitInv, NEW c \in Clients, Fail(c) \/ NotSupported(c)
    PROVE  Moves(c) /\ topic' = topic
<1>1. topic' = topic  BY DEF Fail, NotSupported, setting
<1>2. call' = [call EXCEPT ![c] = Quit(@)]
  BY DEF Fail, NotSupported, Refuse
<1> QED  BY <1>1, <1>2, QuitMoves

LEMMA UnwaitedNext ==
    ASSUME WaitInv, topic # "statuses", [Next]_vars
    PROVE  WaitInv'
<1>1. ASSUME NEW c \in Clients, Begin(c) \/ BeginWait(c) PROVE WaitInv'
  BY <1>1, BeginUnwaited
<1>2. ASSUME NEW c \in Clients,
             Fail(c) \/ NotSupported(c) \/ Reads(c) \/ Writes(c) \/ Waits(c)
      PROVE  WaitInv'
  BY <1>2, FailMoves, ReadMoves, WriteMoves, WaitMoves, UnwaitedStep
<1>3. CASE Disturb
  <2>1. call' = [c \in Clients |->
                    [call[c] EXCEPT !.alone = call[c].alone /\ ~Active(c)]]
    BY <1>3 DEF Disturb
  <2>2. topic' = topic  BY <1>3 DEF Disturb, setting
  <2>3. \A c \in Clients : IsCall(call[c]) /\ call[c].op # "wait"
    BY DEF WaitInv
  <2>4. ASSUME NEW c \in Clients
        PROVE  IsCall(call'[c]) /\ call'[c].op = call[c].op
    <3>1. call'[c] = [call[c] EXCEPT !.alone = call[c].alone /\ ~Active(c)]
      BY <2>1
    <3> HIDE DEF Active
    <3> QED  BY <2>3, <3>1, AloneFields
  <2>5. call' = [c \in Clients |-> call'[c]]  BY <2>1
  <2>6. topic \in Topics  BY DEF WaitInv
  <2> QED  BY <2>2, <2>3, <2>4, <2>5, <2>6 DEF WaitInv, IsCall, CallShape
<1>4. CASE UNCHANGED vars
  BY <1>4 DEF vars, WaitInv, IsCall, CallShape
<1>5. CASE PostsNext
  BY <1>1, <1>2, <1>3, <1>5
     DEF PostsNext, Arrive, Push, Reads, Writes
<1>6. CASE WaitNext
  BY <1>1, <1>2, <1>6 DEF WaitNext, Waits
<1> QED  BY <1>4, <1>5, <1>6 DEF Next, Rest
-----------------------------------------------------------------------------
(* The steps of a call about statuses.                                     *)
LEMMA Doings ==
    ASSUME NEW r, StepsOK(r), r.steps # << >>
    PROVE  \/ /\ r.op = "report" /\ Posting(r.steps) /\ r.spare = << >>
              /\ Head(r.steps).do = "post"
           \/ /\ r.op = "liststatuses" /\ r.spare = << >>
              /\ \/ r.steps = <<Return>> /\ Head(r.steps).do = "return"
                 \/ \E n : r.steps = <<Page(n), Return>> /\
                           Head(r.steps) = Page(n)
           \/ /\ r.op = "wait" /\ r.out = "" /\ r.spare \in {<< >>, <<Tick>>}
              /\ \/ r.steps = <<Tick>> /\ Head(r.steps).do = "tick"
                 \/ r.steps = <<Judgement>> /\ Head(r.steps).do = "judge"
                 \/ \E n : r.steps = <<Page(n), Judgement>> /\
                           Head(r.steps) = Page(n)
<1>1. CASE r.op = "report"
  <2>1. Posting(r.steps) /\ r.spare = << >>  BY <1>1 DEF StepsOK
  <2>2. PICK t, w : r.steps = <<PostAs("status", t, w)>>
    BY <2>1 DEF Posting
  <2>3. Head(r.steps).do = "post"  BY <2>2 DEF PostAs
  <2> QED  BY <1>1, <2>1, <2>3
<1>2. CASE r.op = "liststatuses"
  <2>1. /\ r.spare = << >>
        /\ r.steps = <<Return>> \/ \E n : r.steps = <<Page(n), Return>>
    BY <1>2 DEF StepsOK
  <2>2. CASE r.steps = <<Return>>
    <3>1. Head(r.steps).do = "return"  BY <2>2 DEF Return
    <3> QED  BY <1>2, <2>1, <2>2, <3>1
  <2>3. ASSUME NEW n, r.steps = <<Page(n), Return>>
        PROVE  Head(r.steps) = Page(n)
    BY <2>3
  <2> QED  BY <1>2, <2>1, <2>2, <2>3
<1>3. CASE r.op = "wait"
  <2>1. /\ r.spare \in {<< >>, <<Tick>>} /\ r.out = ""
        /\ \/ r.steps \in {<<Tick>>, <<Judgement>>}
           \/ \E n : r.steps = <<Page(n), Judgement>>
    BY <1>3, Zenon DEF StepsOK
  <2>2. CASE r.steps = <<Tick>>
    <3>1. Head(r.steps).do = "tick"  BY <2>2 DEF Tick
    <3> QED  BY <1>3, <2>1, <2>2, <3>1
  <2>3. CASE r.steps = <<Judgement>>
    <3>1. Head(r.steps).do = "judge"  BY <2>3 DEF Judgement
    <3> QED  BY <1>3, <2>1, <2>3, <3>1
  <2>4. ASSUME NEW n, r.steps = <<Page(n), Judgement>>
        PROVE  Head(r.steps) = Page(n)
    BY <2>4
  <2> QED  BY <1>3, <2>1, <2>2, <2>3, <2>4
<1> QED  BY <1>1, <1>2, <1>3 DEF StepsOK

LEMMA DoingPost ==
    ASSUME NEW r, StepsOK(r), r.steps # << >>, Head(r.steps).do = "post"
    PROVE  r.op = "report" /\ Posting(r.steps) /\ r.spare = << >>
<1>1. \A n : Page(n).do = "page"  BY DEF Page
<1> HIDE DEF Page
<1> QED  BY <1>1, Doings

LEMMA DoingPage ==
    ASSUME NEW r, StepsOK(r), r.steps # << >>, Head(r.steps).do = "page"
    PROVE  \/ /\ r.op = "liststatuses" /\ r.spare = << >>
              /\ \E n : r.steps = <<Page(n), Return>> /\
                        Head(r.steps) = Page(n)
           \/ /\ r.op = "wait" /\ r.out = "" /\ r.spare \in {<< >>, <<Tick>>}
              /\ \E n : r.steps = <<Page(n), Judgement>> /\
                        Head(r.steps) = Page(n)
BY Doings

LEMMA DoingOther ==
    ASSUME NEW r, StepsOK(r), r.steps # << >>,
           Head(r.steps).do \notin {"post", "page"}
    PROVE  \/ /\ r.op = "liststatuses" /\ r.spare = << >>
              /\ r.steps = <<Return>> /\ Head(r.steps).do = "return"
           \/ /\ r.op = "wait" /\ r.out = "" /\ r.spare \in {<< >>, <<Tick>>}
              /\ \/ r.steps = <<Tick>> /\ Head(r.steps).do = "tick"
                 \/ r.steps = <<Judgement>> /\ Head(r.steps).do = "judge"
<1>1. \A n : Page(n).do = "page"  BY DEF Page
<1> HIDE DEF Page
<1> QED  BY <1>1, Doings

LEMMA OnwardLast ==
    ASSUME NEW r, IsCall(r), NEW y, r.steps = <<y>>
    PROVE  Onward(r).steps = << >> /\ Onward(r).spare = << >>
<1>1. Onward(r) = Finished(r, "ok")  BY DEF Onward
<1> QED  BY <1>1, FinishedFields

LEMMA OnwardPage ==
    ASSUME NEW r, IsCall(r), NEW x, NEW y, r.steps = <<x, y>>
    PROVE  LET q == Onward(r)
           IN  /\ q.steps = <<y>> /\ q.out = r.out /\ q.spare = r.spare
               /\ q.seen = r.seen /\ q.at = r.at
<1>1. Onward(r) = [r EXCEPT !.steps = Tail(r.steps)]  BY DEF Onward
<1>2. Tail(r.steps) = <<y>>  OBVIOUS
<1> QED  BY <1>1, <1>2, StepsFields

(* A step of a call during which nothing is reported.                      *)
LEMMA QuietStep ==
    ASSUME WaitInv, topic = "statuses", UNCHANGED <<setting, posts, nextPost>>,
           NEW c \in Clients, NEW x, call' = [call EXCEPT ![c] = x],
           IsCall(x), StepsOK(x), PollOK(posts, x)
    PROVE  WaitInv'
<1>1. topic' = topic /\ posts' = posts /\ nextPost' = nextPost
  BY DEF setting
<1>2. ReportsOK'  BY <1>1 DEF WaitInv, ReportsOK
<1>3. \A r : PollOK(posts, r) => PollOK(posts', r)  BY <1>1
<1>4. PollOK(posts', x)  BY <1>1
<1> QED  BY <1>1, <1>2, <1>3, <1>4, OwnStep

(* What a failed request leaves of a call.                                 *)
LEMMA QuitOK ==
    ASSUME NEW S, NEW r, NEW q, q = Quit(r), IsCall(r), StepsOK(r),
           r.steps # << >>,
           Head(r.steps).do \notin {"return", "judge", "tick"}
    PROVE  IsCall(q) /\ StepsOK(q) /\ PollOK(S, q)
<1>1. IsCall(q) /\ q.op = r.op  BY QuitFields
<1>2. CASE r.op = "report"
  <2>1. Posting(r.steps) /\ r.spare = << >>  BY <1>2, Doings
  <2>2. q.steps = << >> /\ q.spare = << >>  BY <2>1, QuitPost
  <2> QED  BY <1>1, <1>2, <2>2 DEF StepsOK, PollOK
<1>3. CASE r.op = "liststatuses"
  <2>1. r.spare = << >> /\ \E n : r.steps = <<Page(n), Return>>
    BY <1>3, Doings
  <2>2. q.steps = << >> /\ q.spare = << >>  BY <2>1, QuitPage
  <2> QED  BY <1>1, <1>3, <2>2 DEF StepsOK, PollOK
<1>4. CASE r.op = "wait"
  <2>1. /\ r.out = "" /\ r.spare \in {<< >>, <<Tick>>}
        /\ \E n : r.steps = <<Page(n), Judgement>>
    BY <1>4, Doings
  <2>2. \/ q.steps = << >> /\ q.spare = << >>
        \/ /\ q.steps = <<Tick>> /\ q.spare = << >> /\ q.out = ""
           /\ q.seen = << >>
    BY <2>1, QuitPage
  <2>3. StepsOK(q)  BY <1>1, <1>4, <2>2 DEF StepsOK
  <2>4. \A y : y \in {<< >>, <<Tick>>} =>
            y # <<Judgement>> /\ \A n : y # <<Page(n), Judgement>>
    BY DEF Judgement, Tick
  <2>5. << >> # <<Tick>>  OBVIOUS
  <2>6. /\ q.steps # <<Judgement>>
        /\ \A n : q.steps # <<Page(n), Judgement>>
        /\ q.steps = <<Tick>> => q.seen = << >>
    BY <2>2, <2>4, <2>5, Zenon
  <2> QED  BY <1>1, <2>3, <2>6, Zenon DEF PollOK
<1> QED  BY <1>2, <1>3, <1>4, Doings

LEMMA FailStatus ==
    ASSUME WaitInv, topic = "statuses", NEW c \in Clients, Fail(c)
    PROVE  WaitInv'
<1> DEFINE r == call[c]
           q == Quit(r)
<1>1. IsCall(r) /\ StepsOK(r)  BY DEF WaitInv
<1>2. r.steps # << >> /\ Head(r.steps).do \notin {"return", "judge", "tick"}
  BY DEF Fail, Active, Step
<1>3. IsCall(q) /\ StepsOK(q) /\ PollOK(posts, q)  BY <1>1, <1>2, QuitOK
<1>4. /\ call' = [call EXCEPT ![c] = q]
      /\ UNCHANGED <<setting, posts, nextPost>>
  BY DEF Fail
<1> HIDE DEF q
<1> QED  BY <1>3, <1>4, QuietStep

(* A report comes in: at the top of the list.                              *)
LEMMA ReportAdded ==
    ASSUME WaitInv, topic = "statuses", topic' = topic, NEW p,
           p.id = nextPost, p.kind = "status",
           posts' = posts \cup {p}, nextPost' = nextPost + 1
    PROVE  ReportsOK' /\ \A r : PollOK(posts, r) => PollOK(posts', r)
<1>1. ReportsOK  BY DEF WaitInv
<1>2. InList(posts) /\ p.id \in Nat /\ \A q \in posts : q.id < p.id
  BY <1>1 DEF ReportsOK, InList
<1>3. /\ InList(posts')
      /\ \A A, s, n : Reading(posts, A, s, n) => Reading(posts', A, s, n)
      /\ \A A, s : AllRead(posts, A, s) => AllRead(posts', A, s)
  BY <1>2, Grows
<1>4. ReportsOK'  BY <1>1, <1>2, <1>3 DEF ReportsOK, InList
<1>5. \A r : PollOK(posts, r) => PollOK(posts', r)
  BY <1>3, Zenon DEF PollOK
<1> QED  BY <1>4, <1>5

LEMMA AddStatus ==
    ASSUME WaitInv, topic = "statuses", NEW c \in Clients, AddPost(c)
    PROVE  WaitInv'
<1>1. IsCall(call[c]) /\ StepsOK(call[c])  BY DEF WaitInv
<1>2. Active(c) /\ Step(c).do = "post"  BY DEF AddPost, Doing, Step
<1>3. /\ call[c].op = "report" /\ Posting(call[c].steps)
      /\ call[c].spare = << >>
  BY <1>1, <1>2, DoingPost DEF Active, Step
<1>4. PICK t, w : call[c].steps = <<PostAs("status", t, w)>>
  BY <1>3 DEF Posting
<1>5. /\ Step(c).kind = "status" /\ ~Step(c).over /\ ~Step(c).inline
  BY <1>4 DEF Step, PostAs
<1>6. PICK x \in {Quit(call[c]), Onward(call[c])} :
         call' = [call EXCEPT ![c] = x]
  BY Zenon DEF AddPost, Refuse, Answer, Reply
<1>7. IsCall(x) /\ StepsOK(x) /\ \A S : PollOK(S, x)
  <2>1. IsCall(x) /\ x.op = "report"
    BY <1>1, <1>3, <1>6, QuitFields, OnwardFields
  <2>2. x.steps = << >> /\ x.spare = << >>
    BY <1>1, <1>3, <1>4, <1>6, QuitPost, OnwardLast
  <2> QED  BY <2>1, <2>2 DEF StepsOK, PollOK
<1>8. topic' = topic  BY DEF AddPost, setting
<1>9. CASE UNCHANGED <<posts, nextPost>>
  <2>1. UNCHANGED <<setting, posts, nextPost>>  BY <1>9 DEF AddPost
  <2> QED  BY <1>6, <1>7, <2>1, QuietStep
<1>10. ASSUME NEW p, p.id = nextPost, p.kind = "status",
              posts' = posts \cup {p}, nextPost' = nextPost + 1
       PROVE  WaitInv'
  <2>1. ReportsOK' /\ \A r : PollOK(posts, r) => PollOK(posts', r)
    BY <1>8, <1>10, ReportAdded
  <2> QED  BY <1>6, <1>7, <1>8, <2>1, OwnStep
<1>11. \/ UNCHANGED <<posts, nextPost>>
       \/ \E p : /\ p.id = nextPost /\ p.kind = "status"
                 /\ posts' = posts \cup {p} /\ nextPost' = nextPost + 1
  <2>1. \/ UNCHANGED <<posts, nextPost>>
        \/ LET s == Step(c)
               p == Made(c, s.kind, s.text,
                         IF s.kind = "repo" /\ call[c].failed
                         THEN "own" ELSE s.state, AskedIn(call[c].o))
           IN  /\ posts' = posts \cup {p} \cup {}
               /\ nextPost' = nextPost + 1
    BY <1>5, Zenon DEF AddPost, Refuse
  <2> HIDE DEF Step, AskedIn
  <2> QED  BY <1>5, <2>1 DEF Made
<1> QED  BY <1>9, <1>10, <1>11

-----------------------------------------------------------------------------
(* A page of statuses holds one report: the next of the list.              *)
LEMMA StatusPage ==
    ASSUME WaitInv, topic = "statuses", NEW c \in Clients, NEW n
    PROVE  OnPage(Shown(c), n) = {p \in posts : Rank(posts, p) = n - 1}
<1>1. Kinds = {"status"}  BY Zenon DEF Kinds
<1>2. \A p \in posts : p.kind = "status"  BY DEF WaitInv, ReportsOK
<1>3. Shown(c) = posts  BY <1>1, <1>2 DEF Shown
<1>4. ASSUME NEW p \in posts
      PROVE  Cardinality({q \in posts : Before(q, p)}) = Rank(posts, p)
  <2>1. {q \in posts : Before(q, p)} = Above(posts, p)
    BY DEF Before, Above
  <2> QED  BY <2>1 DEF Rank
<1> QED  BY <1>3, <1>4 DEF OnPage

LEMMA PageTaken ==
    ASSUME NEW S, InList(S), NEW A, NEW s, NEW n, Reading(S, A, s, n),
           NEW p \in S, Rank(S, p) = n - 1, NEW a, a = IF n = 1 THEN S ELSE A
    PROVE  Reading(S, a, Append(s, p), n + 1)
<1>1. n \in Nat \ {0} /\ n = Len(s) + 1 /\ s \in Seq(S)  BY DEF Reading
<1>2. /\ Append(s, p) \in Seq(S) /\ n + 1 = Len(Append(s, p)) + 1
      /\ n + 1 \in Nat \ {0}
  BY <1>1
<1>3. CASE n = 1
  <2>1. s = << >> /\ a = S /\ Rank(S, p) = 0
    <3>1. Len(s) = 0  BY <1>1, <1>3
    <3> QED  BY <1>1, <1>3, <3>1
  <2>2. Older(S, S) /\ Covers(S, S, <<p>>)  BY <2>1, FirstPageRead
  <2>3. Append(s, p) = <<p>>  BY <2>1
  <2> QED  BY <1>2, <2>1, <2>2, <2>3 DEF Reading
<1>4. CASE n > 1
  <2>1. a = A /\ Older(S, A) /\ (Few(S, A) => Covers(S, A, s))
    BY <1>4 DEF Reading
  <2>2. Few(S, A) => Covers(S, A, Append(s, p))
    BY <1>1, <1>4, <2>1, NextPageRead
  <2> QED  BY <1>2, <2>1, <2>2 DEF Reading
<1> QED  BY <1>1, <1>3, <1>4

LEMMA PagesEnd ==
    ASSUME NEW S, InList(S), NEW A, NEW s, NEW n, Reading(S, A, s, n),
           n > maxAllPages \/ \A p \in S : Rank(S, p) # n - 1,
           NEW a, a = IF n = 1 THEN S ELSE A
    PROVE  AllRead(S, a, s)
<1>1. n \in Nat \ {0} /\ n = Len(s) + 1 /\ s \in Seq(S)  BY DEF Reading
<1>2. CASE n = 1
  <2>1. Cardinality(S) < 1 /\ Cardinality(S) \in Nat
    BY <1>1, <1>2, EmptyPageEnds, FS_CardinalityType DEF InList, maxAllPages
  <2>2. S = {}  BY <2>1, FS_EmptySet DEF InList
  <2>3. DOMAIN s = {}  BY <1>1, <1>2
  <2> QED  BY <1>1, <1>2, <2>2, <2>3 DEF AllRead, Older, InTurn
<1>3. CASE n > 1
  <2>1. a = A /\ Older(S, A) /\ (Few(S, A) => Covers(S, A, s))
    BY <1>3 DEF Reading
  <2>2. ASSUME Few(S, A) PROVE \A p \in S : Rank(S, p) # n - 1
    <3>1. \A p \in S : /\ Rank(S, p) \in Nat /\ Cardinality(S) \in Nat
                       /\ Rank(S, p) < Cardinality(S)
      BY RankBound
    <3> QED  BY <1>1, <2>2, <3>1 DEF Few, maxAllPages
  <2>3. Few(S, A) => \A q \in A : \E i \in DOMAIN s : s[i] = q
    BY <1>1, <1>3, <2>1, <2>2, WalkComplete
  <2> QED  BY <1>1, <2>1, <2>3 DEF AllRead, Covers
<1> QED  BY <1>1, <1>2, <1>3

LEMMA StepsApart ==
    /\ \A n, m, y : <<Page(n), y>> = <<Page(m), y>> => n = m
    /\ \A n, y, z : <<Page(n), y>> # <<z>> /\ <<z>> # <<Page(n), y>>
    /\ <<Tick>> # <<Judgement>>
<1>1. ASSUME NEW n, NEW m, NEW y, <<Page(n), y>> = <<Page(m), y>>
      PROVE  n = m
  <2>1. Page(n) = Page(m)
    <3> HIDE DEF Page
    <3> QED  BY <1>1
  <2>2. Page(n).n = Page(m).n  BY <2>1
  <2> QED  BY <2>2 DEF Page
<1>2. <<Tick>> # <<Judgement>>  BY DEF Tick, Judgement
<1> QED  BY <1>1, <1>2

(* A call goes on from r with a step more, or with the next page.          *)
LEMMA PageStatus ==
    ASSUME WaitInv, topic = "statuses", NEW c \in Clients, ReadPage(c)
    PROVE  WaitInv'
<1> DEFINE n == Step(c).n
           a == IF n = 1 /\ call[c].op = "wait" THEN posts ELSE call[c].at
<1>0. PICK r : r = [call[c] EXCEPT !.at = a]  OBVIOUS
<1>1. /\ IsCall(call[c]) /\ StepsOK(call[c]) /\ PollOK(posts, call[c])
      /\ InList(posts)
  BY DEF WaitInv, ReportsOK, InList
<1>2. /\ Head(call[c].steps).do = "page" /\ call[c].steps # << >>
      /\ n = Head(call[c].steps).n
      /\ UNCHANGED <<setting, posts, nextPost>>
  BY DEF ReadPage, Doing, Active, Step
<1>3. OnPage(Shown(c), n) = {p \in posts : Rank(posts, p) = n - 1}
  BY StatusPage
<1>4. \/ /\ n > maxAllPages \/ \A p \in posts : Rank(posts, p) # n - 1
         /\ call' = [call EXCEPT ![c] = Onward(r)]
      \/ \E p \in posts : /\ Rank(posts, p) = n - 1
                          /\ call' = [call EXCEPT ![c] =
                                 Turned(r, Append(r.seen, p), Page(n + 1))]
  <2>1. \/ /\ n > maxAllPages \/ OnPage(Shown(c), n) = {}
           /\ call' = [call EXCEPT ![c] = Onward(r)]
        \/ \E p \in OnPage(Shown(c), n) :
              call' = [call EXCEPT ![c] =
                          Turned(r, Append(r.seen, p), Page(n + 1))]
    BY <1>0 DEF ReadPage, Reply, Turned, n
  <2> QED  BY <1>3, <2>1
<1>5. /\ IsCall(r) /\ r.op = call[c].op /\ r.steps = call[c].steps
      /\ r.spare = call[c].spare /\ r.seen = call[c].seen
      /\ r.out = call[c].out
      /\ r.at = IF n = 1 /\ call[c].op = "wait" THEN posts ELSE call[c].at
  BY <1>0, <1>1, AtFields
<1>6. \A k : Head(call[c].steps) = Page(k) => n = k  BY <1>2 DEF Page
<1> HIDE DEF n, a
<1>7. ASSUME NEW y, r.steps = <<Page(n), y>>, NEW p,
             NEW x, x = Turned(r, Append(r.seen, p), Page(n + 1))
      PROVE  /\ IsCall(x) /\ x.op = r.op /\ x.spare = r.spare
             /\ x.out = r.out /\ x.seen = Append(r.seen, p) /\ x.at = r.at
             /\ x.steps = <<Page(n + 1), y>>
  <2>1. PICK s, z : s = Append(r.seen, p) /\ z = Page(n + 1)  OBVIOUS
  <2>2. x = Turned(r, s, z)  BY <1>7, <2>1
  <2>3. /\ IsCall(x) /\ x.op = r.op /\ x.spare = r.spare
        /\ x.out = r.out /\ x.seen = s /\ x.at = r.at
        /\ x.steps = [r.steps EXCEPT ![1] = z]
    BY <1>5, <2>2, PageFields
  <2>4. [<<Page(n), y>> EXCEPT ![1] = z] = <<z, y>>  OBVIOUS
  <2> QED  BY <1>7, <2>1, <2>3, <2>4
<1>8. CASE call[c].op = "liststatuses"
  <2>1. call[c].spare = << >> /\ r.steps = <<Page(n), Return>>
    BY <1>1, <1>2, <1>5, <1>6, <1>8, DoingPage
  <2>2. ASSUME NEW x, x = Onward(r)
        PROVE  IsCall(x) /\ StepsOK(x) /\ x.op = "liststatuses"
    <3>1. IsCall(x) /\ x.op = "liststatuses"
      BY <1>5, <1>8, <2>2, OnwardFields
    <3>2. x.steps = <<Return>> /\ x.spare = << >>
      BY <1>5, <2>1, <2>2, OnwardPage
    <3> QED  BY <3>1, <3>2 DEF StepsOK
  <2>3. ASSUME NEW p, NEW x,
               x = Turned(r, Append(r.seen, p), Page(n + 1))
        PROVE  IsCall(x) /\ StepsOK(x) /\ x.op = "liststatuses"
    <3>1. /\ IsCall(x) /\ x.op = "liststatuses" /\ x.spare = << >>
          /\ x.steps = <<Page(n + 1), Return>>
      BY <1>5, <1>7, <1>8, <2>1, <2>3
    <3> QED  BY <3>1 DEF StepsOK
  <2>4. PICK x : /\ call' = [call EXCEPT ![c] = x]
                 /\ IsCall(x) /\ StepsOK(x) /\ x.op = "liststatuses"
    BY <1>4, <2>2, <2>3
  <2>5. PollOK(posts, x)  BY <2>4 DEF PollOK
  <2> QED  BY <1>2, <2>4, <2>5, QuietStep
<1>9. CASE call[c].op = "wait"
  <2>1. /\ call[c].spare \in {<< >>, <<Tick>>} /\ call[c].out = ""
        /\ r.steps = <<Page(n), Judgement>>
    BY <1>1, <1>2, <1>5, <1>6, <1>9, DoingPage
  <2>2. Reading(posts, call[c].at, r.seen, n)
    BY <1>1, <1>5, <1>9, <2>1 DEF PollOK
  <2>3. r.at = IF n = 1 THEN posts ELSE call[c].at  BY <1>5, <1>9
  <2>4. ASSUME NEW x, x = Onward(r),
               n > maxAllPages \/ \A p \in posts : Rank(posts, p) # n - 1
        PROVE  IsCall(x) /\ StepsOK(x) /\ PollOK(posts, x)
    <3>1. IsCall(x) /\ x.op = "wait"  BY <1>5, <1>9, <2>4, OnwardFields
    <3>2. /\ x.steps = <<Judgement>> /\ x.spare = r.spare /\ x.out = ""
          /\ x.seen = r.seen /\ x.at = r.at
      <4>1. x = Onward(r) /\ IsCall(r) /\ r.out = ""  BY <1>5, <2>1, <2>4
      <4>2. r.steps = <<Page(n), Judgement>>  BY <2>1
      <4> QED  BY <4>1, <4>2, OnwardPage
    <3>3. AllRead(posts, r.at, r.seen)  BY <1>1, <2>2, <2>3, <2>4, PagesEnd
    <3>4. StepsOK(x)  BY <1>5, <2>1, <3>1, <3>2 DEF StepsOK
    <3>5. PollOK(posts, x)
      BY <3>1, <3>2, <3>3, StepsApart, Zenon DEF PollOK
    <3> QED  BY <3>1, <3>4, <3>5
  <2>5. ASSUME NEW p \in posts, Rank(posts, p) = n - 1, NEW x,
               x = Turned(r, Append(r.seen, p), Page(n + 1))
        PROVE  IsCall(x) /\ StepsOK(x) /\ PollOK(posts, x)
    <3>1. /\ IsCall(x) /\ x.op = "wait" /\ x.spare = r.spare /\ x.out = ""
          /\ x.steps = <<Page(n + 1), Judgement>>
          /\ x.seen = Append(r.seen, p) /\ x.at = r.at
      BY <1>5, <1>7, <1>9, <2>1, <2>5
    <3>2. Reading(posts, r.at, Append(r.seen, p), n + 1)
      BY <1>1, <2>2, <2>3, <2>5, PageTaken
    <3>3. StepsOK(x)  BY <1>5, <2>1, <3>1 DEF StepsOK
    <3>4. x.steps # <<Tick>> /\ x.steps # <<Judgement>>
      <4>1. \A k : /\ <<Page(k), Judgement>> # <<Tick>>
                   /\ <<Page(k), Judgement>> # <<Judgement>>
        BY StepsApart
      <4> QED  BY <3>1, <4>1
    <3>5. ASSUME NEW m, x.steps = <<Page(m), Judgement>> PROVE m = n + 1
      <4>1. <<Page(m), Judgement>> = <<Page(n + 1), Judgement>>
        BY <3>1, <3>5
      <4> QED  BY <4>1, StepsApart
    <3>6. PollOK(posts, x)  BY <3>1, <3>2, <3>4, <3>5 DEF PollOK
    <3> QED  BY <3>1, <3>3, <3>6
  <2>6. PICK x : /\ call' = [call EXCEPT ![c] = x]
                 /\ IsCall(x) /\ StepsOK(x) /\ PollOK(posts, x)
    BY <1>4, <2>4, <2>5
  <2> QED  BY <1>2, <2>6, QuietStep
<1> QED  BY <1>1, <1>2, <1>8, <1>9, DoingPage

(* A call that ends is no longer between requests.                         *)
LEMMA EndedOK ==
    ASSUME NEW S, NEW x, IsCall(x), x.steps = << >>, x.spare = << >>,
           x.op \in {"report", "liststatuses", "wait"}
    PROVE  StepsOK(x) /\ PollOK(S, x)
<1>1. \A n, y, z : << >> # <<y>> /\ << >> # <<y, z>>  OBVIOUS
<1> QED  BY <1>1 DEF StepsOK, PollOK

LEMMA EndStatus ==
    ASSUME WaitInv, topic = "statuses", NEW c \in Clients,
           ReturnList(c) \/ MissCommit(c) \/ GiveUp(c)
    PROVE  WaitInv'
<1>1. IsCall(call[c]) /\ StepsOK(call[c])  BY DEF WaitInv
<1>2. /\ call[c].steps # << >>
      /\ Head(call[c].steps).do \in {"return", "page", "tick"}
      /\ Head(call[c].steps).do = "return" => ReturnList(c)
      /\ UNCHANGED <<setting, posts, nextPost>>
  BY DEF ReturnList, MissCommit, GiveUp, Doing, Active
<1>3. call[c].op \in {"report", "liststatuses", "wait"}
  BY <1>1, <1>2 DEF StepsOK
<1>4. PICK x : /\ call' = [call EXCEPT ![c] = x]
               /\ IsCall(x) /\ x.op = call[c].op
               /\ x.steps = << >> /\ x.spare = << >>
  <2>1. CASE ReturnList(c)
    <3>1. Head(call[c].steps).do = "return"
      BY <2>1 DEF ReturnList, Doing
    <3>2. call[c].steps = <<Return>>  BY <1>1, <1>2, <3>1, DoingOther
    <3>3. call' = [call EXCEPT ![c] = Onward(call[c])]
      BY <2>1 DEF ReturnList, Reply
    <3> QED  BY <1>1, <3>2, <3>3, OnwardFields, OnwardLast
  <2>2. CASE MissCommit(c) \/ GiveUp(c)
    <3>1. call' = [call EXCEPT ![c] = Finished(call[c], "failed")]
      BY <2>2 DEF MissCommit, GiveUp
    <3>2. PICK x : x = Finished(call[c], "failed")  OBVIOUS
    <3>3. /\ IsCall(x) /\ x.op = call[c].op
          /\ x.steps = << >> /\ x.spare = << >>
      BY <1>1, <3>2, FinishedFields
    <3> QED  BY <3>1, <3>2, <3>3
  <2> QED  BY <2>1, <2>2
<1>5. StepsOK(x) /\ PollOK(posts, x)  BY <1>3, <1>4, EndedOK
<1> QED  BY <1>2, <1>4, <1>5, QuietStep

LEMMA JudgeStatus ==
    ASSUME WaitInv, topic = "statuses", NEW c \in Clients, Judge(c)
    PROVE  WaitInv'
<1>1. IsCall(call[c]) /\ StepsOK(call[c])  BY DEF WaitInv
<1>2. /\ call[c].steps # << >> /\ Head(call[c].steps).do = "judge"
      /\ UNCHANGED <<setting, posts, nextPost>>
  BY DEF Judge, Doing, Active
<1>3. /\ call[c].op = "wait" /\ call[c].out = ""
      /\ call[c].spare \in {<< >>, <<Tick>>}
  BY <1>1, <1>2, DoingOther
<1>4. PICK x : /\ call' = [call EXCEPT ![c] = x]
               /\ \/ \E out : x = Finished(call[c], out)
                  \/ x = [call[c] EXCEPT !.steps = <<Tick>>, !.seen = << >>,
                                         !.at = {}]
  BY Zenon DEF Judge
<1>5. ASSUME NEW out, x = Finished(call[c], out)
      PROVE  IsCall(x) /\ StepsOK(x) /\ PollOK(posts, x)
  <2>1. IsCall(x) /\ x.op = "wait" /\ x.steps = << >> /\ x.spare = << >>
    BY <1>1, <1>3, <1>5, FinishedFields
  <2> QED  BY <2>1, EndedOK
<1>6. ASSUME x = [call[c] EXCEPT !.steps = <<Tick>>, !.seen = << >>,
                                 !.at = {}]
      PROVE  IsCall(x) /\ StepsOK(x) /\ PollOK(posts, x)
  <2>1. /\ IsCall(x) /\ x.op = "wait" /\ x.steps = <<Tick>>
        /\ x.spare = call[c].spare /\ x.out = "" /\ x.seen = << >>
    BY <1>1, <1>3, <1>6 DEF IsCall, CallShape
  <2>2. x.spare \in {<< >>, <<Tick>>}  BY <1>3, <2>1
  <2>3. StepsOK(x)  BY <2>1, <2>2 DEF StepsOK
  <2>4. x.steps # <<Judgement>>  BY <2>1, StepsApart
  <2>5. \A n : x.steps # <<Page(n), Judgement>>  BY <2>1, StepsApart, Zenon
  <2>6. PollOK(posts, x)  BY <2>1, <2>4, <2>5, Zenon DEF PollOK
  <2> QED  BY <2>1, <2>3, <2>6
<1>7. IsCall(x) /\ StepsOK(x) /\ PollOK(posts, x)  BY <1>4, <1>5, <1>6
<1> QED  BY <1>2, <1>4, <1>7, QuietStep

LEMMA TickStatus ==
    ASSUME WaitInv, topic = "statuses", NEW c \in Clients, TickOn(c)
    PROVE  WaitInv'
<1>1. /\ IsCall(call[c]) /\ StepsOK(call[c]) /\ PollOK(posts, call[c])
      /\ call = [d \in Clients |-> call[d]]
  BY DEF WaitInv
<1>2. /\ call[c].steps # << >> /\ Head(call[c].steps).do = "tick"
      /\ UNCHANGED <<setting, posts, nextPost>>
  BY DEF TickOn, Doing, Active
<1>3. call[c].op = "wait" /\ call[c].out = "" /\ call[c].steps = <<Tick>>
  <2>1. \/ call[c].op = "wait" /\ call[c].out = "" /\ call[c].steps = <<Tick>>
        \/ Head(call[c].steps).do \in {"return", "judge"}
    BY <1>1, <1>2, DoingOther
  <2> QED  BY <1>2, <2>1
<1>4. call[c].seen = << >>  BY <1>1, <1>3, Zenon DEF PollOK
<1>5. PICK x : x = [call[c] EXCEPT !.steps = Poll, !.spare = <<Tick>>]
  OBVIOUS
<1>6. call' = [call EXCEPT ![c] = x]
  BY <1>1, <1>5 DEF TickOn, IsCall, CallShape
<1>7. /\ IsCall(x) /\ x.op = "wait" /\ x.steps = <<Page(1), Judgement>>
      /\ x.spare = <<Tick>> /\ x.out = "" /\ x.seen = << >>
  BY <1>1, <1>3, <1>4, <1>5 DEF IsCall, CallShape, Poll, Judgement
<1>8. StepsOK(x)  BY <1>7 DEF StepsOK
<1>9. \A A : Reading(posts, A, << >>, 1)  BY DEF Reading
<1>10. PollOK(posts, x)  BY <1>7, <1>9, StepsApart, Zenon DEF PollOK
<1> QED  BY <1>2, <1>6, <1>7, <1>8, <1>10, QuietStep

(* The other steps are of calls about other things.                        *)
LEMMA OtherSteps ==
    ASSUME WaitInv, topic = "statuses", NEW c \in Clients,
           \/ NotSupported(c) \/ PutPost(c) \/ TakePost(c) \/ ReadWhole(c)
           \/ ReadOne(c) \/ WalkRepos(c) \/ ReadAside(c) \/ MarkNotices(c)
           \/ ReadHead(c) \/ ForkBranch(c)
    PROVE  FALSE
<1>1. StepsOK(call[c])  BY DEF WaitInv
<1>2. /\ call[c].steps # << >>
      /\ Head(call[c].steps).do \notin {"post", "page", "return", "tick",
                                        "judge"}
  BY DEF NotSupported, PutPost, TakePost, ReadWhole, ReadOne, WalkRepos,
         ReadAside, MarkNotices, ReadHead, ForkBranch, Doing, Active, Step
<1> QED  BY <1>1, <1>2, DoingOther

LEMMA StatusNext ==
    ASSUME WaitInv, topic = "statuses", [Next]_vars
    PROVE  WaitInv'
<1>1. ASSUME NEW c \in Clients, Begin(c) \/ BeginWait(c) PROVE WaitInv'
  BY <1>1, BeginStatus
<1>2. ASSUME NEW c \in Clients,
             \/ Fail(c) \/ AddPost(c) \/ ReadPage(c) \/ ReturnList(c)
             \/ MissCommit(c) \/ Judge(c) \/ TickOn(c) \/ GiveUp(c)
      PROVE  WaitInv'
  BY <1>2, FailStatus, AddStatus, PageStatus, EndStatus, JudgeStatus,
     TickStatus
<1>3. CASE UNCHANGED vars
  <2>1. /\ topic' = topic /\ posts' = posts /\ nextPost' = nextPost
        /\ call' = call
    BY <1>3 DEF vars
  <2>2. ReportsOK'  BY <2>1 DEF WaitInv, ReportsOK
  <2>3. \A c \in Clients : /\ IsCall(call[c]) /\ StepsOK(call[c])
                           /\ PollOK(posts, call[c])
    BY DEF WaitInv
  <2>4. /\ \A c \in Clients : /\ IsCall(call'[c]) /\ StepsOK(call'[c])
                              /\ PollOK(posts', call'[c])
        /\ call' = [c \in Clients |-> call'[c]] /\ topic' \in Topics
    BY <2>1, <2>3 DEF WaitInv
  <2> QED  BY <2>1, <2>2, <2>4
           DEF WaitInv, IsCall, CallShape, StepsOK, PollOK
<1>4. CASE PostsNext
  BY <1>1, <1>2, <1>4, OtherSteps DEF PostsNext, Arrive, Push
<1>5. CASE WaitNext  BY <1>1, <1>2, <1>5 DEF WaitNext
<1> QED  BY <1>3, <1>4, <1>5 DEF Next, Rest

LEMMA WaitStart == ASSUME Init PROVE WaitInv
<1>1. /\ topic \in Topics /\ call = [c \in Clients |-> Idle]
  BY DEF Init, PostsInit
<1>2. /\ call = [c \in Clients |-> call[c]]
      /\ \A c \in Clients : call[c] = Idle
  BY <1>1
<1>3. /\ IsCall(Idle) /\ Idle.op = "none" /\ Idle.steps = << >>
  BY DEF IsCall, CallShape, Idle
<1>4. StepsOK(Idle) /\ \A S : PollOK(S, Idle)
  BY <1>3 DEF StepsOK, PollOK
<1>5. ASSUME topic = "statuses" PROVE ReportsOK
  <2>1. PICK n \in 0..2 : \E s \in [1..n -> Early] :
           posts = Numbered(s) /\ nextPost = n + 1
    BY <1>5, Zenon DEF Init, PostsInit
  <2>2. PICK s \in [1..n -> Early] : posts = Numbered(s) /\ nextPost = n + 1
    BY <2>1
  <2>3. \A p \in Early : p.kind = "status"
    <3>1. Early = {p \in [by : {"other"}, kind : {"status"},
                          text : {"ci", "lint"},
                          state : {"success", "failure"},
                          asked : {"success", "failure"}] :
                     /\ p.asked = p.state
                     /\ p.text = "lint" => p.state = "success"}
      BY <1>5, Zenon DEF Early
    <3> QED  BY <3>1
  <2> DEFINE f == [i \in 1..n |->
                      [id |-> i, by |-> s[i].by, kind |-> s[i].kind,
                       text |-> s[i].text, state |-> s[i].state,
                       asked |-> s[i].asked]]
  <2>4. posts = {f[i] : i \in 1..n}  BY <2>2 DEF Numbered
  <2>5. \A i \in 1..n : f[i].id = i /\ f[i].kind = "status"  BY <2>3
  <2>6. IsFiniteSet(1..n)  BY FS_Interval
  <2>7. f \in Surjection(1..n, {f[i] : i \in 1..n})
    BY DEF Surjection, f
  <2> HIDE DEF f
  <2>8. IsFiniteSet({f[i] : i \in 1..n})  BY <2>6, <2>7, FS_Surjection
  <2> QED  BY <2>2, <2>4, <2>5, <2>8 DEF ReportsOK
<1> QED  BY <1>1, <1>2, <1>3, <1>4, <1>5 DEF WaitInv

(* What a poll has seen is in step with the list, in every behaviour.      *)
THEOREM PollsInStep == Spec => []WaitInv
<1>1. Init => WaitInv  BY WaitStart
<1>2. WaitInv /\ [Next]_vars => WaitInv'
  BY StatusNext, UnwaitedNext
<1> QED  BY <1>1, <1>2, PTL DEF Spec

-----------------------------------------------------------------------------
(* Only a judgement says what the verdict is.                              *)
LEMMA OnwardOut ==
    ASSUME NEW r, IsCall(r) PROVE Onward(r).out \in {r.out, "ok"}
<1>1. CASE Len(r.steps) = 1
  <2>1. Onward(r) = Finished(r, "ok")  BY <1>1 DEF Onward
  <2> QED  BY <2>1, FinishedFields
<1>2. CASE Len(r.steps) # 1
  <2>1. Onward(r) = [r EXCEPT !.steps = Tail(r.steps)]  BY <1>2 DEF Onward
  <2> QED  BY <2>1 DEF IsCall, CallShape
<1> QED  BY <1>1, <1>2

LEMMA QuitOut ==
    ASSUME NEW r, IsCall(r) PROVE Quit(r).out \in {r.out, "ok", "failed"}
<1>1. PICK f : f = [r EXCEPT !.failed = TRUE]  OBVIOUS
<1>2. PICK s : s = Head(r.steps)  OBVIOUS
<1>3. PICK g : g = [f EXCEPT !.steps = SubSeq(@, 1 + s.lost, Len(@))]
  OBVIOUS
<1>4. PICK b : b = [f EXCEPT !.steps = r.spare, !.spare = << >>,
                             !.seen = << >>]
  OBVIOUS
<1>5. IsCall(f) /\ f.out = r.out  BY <1>1, FailedFields
<1>6. IsCall(g) /\ g.out = r.out  BY <1>3, <1>5 DEF IsCall, CallShape
<1>7. b.out = r.out  BY <1>4, <1>5 DEF IsCall, CallShape
<1>8. Finished(f, "failed").out = "failed"  BY <1>5, FinishedFields
<1>9. Onward(f).out \in {r.out, "ok"} /\ Onward(g).out \in {r.out, "ok"}
  BY <1>5, <1>6, OnwardOut
<1>10. Quit(r) \in {Onward(g), Onward(f), b, Finished(f, "failed")}
  BY <1>1, <1>2, <1>3, <1>4, Zenon DEF Quit
<1> QED  BY <1>7, <1>8, <1>9, <1>10

StatusDoes(c) == Fail(c) \/ AddPost(c) \/ ReadPage(c) \/ ReturnList(c)
                 \/ MissCommit(c) \/ TickOn(c) \/ GiveUp(c)

LEMMA DoesOut ==
    ASSUME WaitInv, NEW c \in Clients, StatusDoes(c), call[c].out = ""
    PROVE  call'[c].out \in {"", "ok", "failed"}
<1>1. IsCall(call[c]) /\ call = [d \in Clients |-> call[d]]
  BY DEF WaitInv
<1>2. CASE call' = [call EXCEPT ![c] = Quit(call[c])]
  <2>1. call'[c] = Quit(call[c])  BY <1>1, <1>2
  <2> QED  BY <1>1, <2>1, QuitOut
<1>3. ASSUME NEW r, IsCall(r), r.out = "",
             call' = [call EXCEPT ![c] = Onward(r)]
      PROVE  call'[c].out \in {"", "ok", "failed"}
  <2>1. call'[c] = Onward(r)  BY <1>1, <1>3
  <2> QED  BY <1>3, <2>1, OnwardOut
<1>4. CASE Fail(c)  BY <1>2, <1>4 DEF Fail
<1>5. CASE AddPost(c)
  <2>1. \/ call' = [call EXCEPT ![c] = Quit(call[c])]
        \/ call' = [call EXCEPT ![c] = Onward(call[c])]
    BY <1>5, Zenon DEF AddPost, Refuse, Answer, Reply
  <2> QED  BY <1>1, <1>2, <1>3, <2>1
<1>6. CASE ReadPage(c)
  <2>0. PICK a : a = IF Step(c).n = 1 /\ call[c].op = "wait" THEN posts
                     ELSE call[c].at
    OBVIOUS
  <2>1. PICK r : r = [call[c] EXCEPT !.at = a]  OBVIOUS
  <2>2. IsCall(r) /\ r.out = ""  BY <1>1, <2>1, AtFields
  <2>3. \/ call' = [call EXCEPT ![c] = Onward(r)]
        \/ \E p : call' = [call EXCEPT ![c] =
                     [r EXCEPT !.seen = Append(@, p),
                               !.steps[1] = Page(Step(c).n + 1)]]
    BY <1>6, <2>0, <2>1 DEF ReadPage, Reply
  <2>4. ASSUME NEW p, call' = [call EXCEPT ![c] =
                                  [r EXCEPT !.seen = Append(@, p),
                                            !.steps[1] = Page(Step(c).n + 1)]]
        PROVE  call'[c].out = ""
    <3>1. PICK x : x = [r EXCEPT !.seen = Append(@, p),
                                 !.steps[1] = Page(Step(c).n + 1)]
      OBVIOUS
    <3>2. call'[c] = x  BY <1>1, <2>4, <3>1
    <3>3. x.out = ""  BY <2>2, <3>1 DEF IsCall, CallShape
    <3> QED  BY <3>2, <3>3
  <2> QED  BY <1>3, <2>2, <2>3, <2>4
<1>7. CASE ReturnList(c)  BY <1>1, <1>3, <1>7 DEF ReturnList, Reply
<1>8. CASE MissCommit(c) \/ GiveUp(c)
  <2>1. PICK x : x = Finished(call[c], "failed")  OBVIOUS
  <2>2. call'[c] = x  BY <1>1, <1>8, <2>1 DEF MissCommit, GiveUp
  <2>3. x.out = "failed"  BY <1>1, <2>1, FinishedFields
  <2> QED  BY <2>2, <2>3
<1>9. CASE TickOn(c)
  <2>1. call'[c].out = call[c].out
    BY <1>1, <1>9 DEF TickOn, IsCall, CallShape
  <2> QED  BY <2>1
<1> QED  BY <1>4, <1>5, <1>6, <1>7, <1>8, <1>9 DEF StatusDoes

LEMMA DoesElsewhere ==
    ASSUME WaitInv, NEW d \in Clients, StatusDoes(d) \/ Judge(d),
           NEW c \in Clients, c # d
    PROVE  call'[c] = call[c]
<1>1. call = [e \in Clients |-> call[e]]  BY DEF WaitInv
<1>2. CASE \E x : call' = [call EXCEPT ![d] = x]  BY <1>1, <1>2
<1>3. CASE StatusDoes(d) /\ ~TickOn(d)
  <2>1. \E x : call' = [call EXCEPT ![d] = x]
    BY <1>3, Zenon DEF StatusDoes, Fail, AddPost, ReadPage, ReturnList,
       MissCommit, GiveUp, Refuse, Answer, Reply
  <2> QED  BY <1>2, <2>1
<1>4. CASE Judge(d)
  <2>1. \E x : call' = [call EXCEPT ![d] = x]  BY <1>4, Zenon DEF Judge
  <2> QED  BY <1>2, <2>1
<1>5. CASE TickOn(d)  BY <1>1, <1>5 DEF TickOn
<1> QED  BY <1>3, <1>4, <1>5

LEMMA OnlyJudged ==
    ASSUME WaitInv, Next, NEW c \in Clients, call[c].op = "wait", Active(c),
           Terminal(call'[c].out)
    PROVE  topic = "statuses" /\ Judge(c)
<1>1. topic = "statuses" /\ IsCall(call[c]) /\ StepsOK(call[c])
  BY DEF WaitInv
<1>2. call[c].out = ""  BY <1>1 DEF StepsOK, Active
<1>3. call'[c].out \notin {"", "ok", "failed"}  BY DEF Terminal
<1>4. ASSUME NEW d \in Clients, Begin(d) \/ BeginWait(d) PROVE FALSE
  <2>1. PICK q, plan, target : Start(d, q, plan, target)
    BY <1>4, Zenon DEF Begin, BeginWait
  <2>2. d # c  BY <2>1 DEF Start
  <2>3. Kept(call'[c], call[c])  BY <2>1, <2>2, Started
  <2> QED  BY <1>2, <1>3, <2>3 DEF Kept
<1>5. ASSUME NEW d \in Clients, StatusDoes(d) \/ Judge(d), d # c
      PROVE  FALSE
  BY <1>2, <1>3, <1>5, DoesElsewhere
<1>6. ~StatusDoes(c)  BY <1>2, <1>3, DoesOut
<1>7. ~Rest
  <2>1. Rest => call' = call  BY DEF Rest, vars
  <2> QED  BY <1>2, <1>3, <2>1
<1>8. ASSUME PostsNext PROVE FALSE
  BY <1>1, <1>4, <1>5, <1>6, <1>8, OtherSteps
     DEF PostsNext, Arrive, Push, StatusDoes
<1>9. CASE WaitNext
  BY <1>1, <1>4, <1>5, <1>6, <1>9 DEF WaitNext, StatusDoes
<1> QED  BY <1>7, <1>8, <1>9 DEF Next

(* WaitForCommitStatus gives a verdict only if it was the verdict of the   *)
(* newest reports at the moment its poll began (foldTerminalStates,        *)
(* LatestCommitStatuses), whatever is reported between the pages, as long  *)
(* as no more than a page of them comes in and a walk may read them all    *)
(* (AllPages): for any number of clients, calls, faults and contexts.      *)
THEOREM VerdictTrueCorrect == Spec => VerdictTrue
<1>1. ASSUME WaitInv, Next, NEW c \in Clients, call[c].op = "wait",
             Active(c), Terminal(call'[c].out),
             Cardinality(posts \ call[c].at) <= 1,
             Cardinality(posts) <= maxAllPages
      PROVE  LET r == call[c]
                 said == {NormalizeCommitStatusState(p.state) :
                             p \in Newest(r.at, r.o.want)}
                 out == call'[c].out
             IN  /\ \A w \in r.o.want : \E p \in r.at : p.text = w
                 /\ out \in said
                 /\ out = "success" => said = {"success"}
                 /\ out \in {"failure", "canceled"} => "error" \notin said
                 /\ out = "canceled" => "failure" \notin said
  <2>1. topic = "statuses" /\ Judge(c)  BY <1>1, OnlyJudged
  <2>2. /\ IsCall(call[c]) /\ StepsOK(call[c]) /\ PollOK(posts, call[c])
        /\ InList(posts) /\ \A p \in posts : p.kind = "status"
        /\ call = [d \in Clients |-> call[d]]
    BY <1>1, <2>1 DEF WaitInv, ReportsOK, InList
  <2>3. call[c].steps # << >> /\ Head(call[c].steps).do = "judge"
    BY <2>1 DEF Judge, Doing, Active
  <2>4. call[c].steps = <<Judgement>>
    <3>1. \/ call[c].steps = <<Judgement>>
          \/ Head(call[c].steps).do \in {"return", "tick"}
      BY <2>2, <2>3, DoingOther
    <3> QED  BY <2>3, <3>1
  <2>5. AllRead(posts, call[c].at, call[c].seen)
    BY <1>1, <2>2, <2>4, Zenon DEF PollOK
  <2>6. PICK state : state = FoldTerminalStates(call[c].seen, call[c].o.want)
    OBVIOUS
  <2>7. Terminal(state) /\ call'[c].out = state
    <3>1. call[c].out = ""  BY <2>2, <2>3, <1>1 DEF StepsOK
    <3>2. call'[c] = IF Terminal(state) THEN Finished(call[c], state)
                     ELSE [call[c] EXCEPT !.steps = <<Tick>>, !.seen = << >>,
                                          !.at = {}]
      BY <2>1, <2>2, <2>6 DEF Judge
    <3>3. [call[c] EXCEPT !.steps = <<Tick>>, !.seen = << >>, !.at = {}].out
             = call[c].out
      BY <2>2 DEF IsCall, CallShape
    <3>4. Finished(call[c], state).out = state  BY <2>2, FinishedFields
    <3>5. ~Terminal("")  BY DEF Terminal
    <3> QED  BY <1>1, <3>1, <3>2, <3>3, <3>4, <3>5
  <2>8. Few(posts, call[c].at)  BY <1>1 DEF Few
  <2> QED  BY <2>2, <2>5, <2>6, <2>7, <2>8, VerdictOf
<1>2. ASSUME WaitInv, [Next]_vars
      PROVE  [\A c \in Clients :
                LET r == call[c]
                    said == {NormalizeCommitStatusState(p.state) :
                                p \in Newest(r.at, r.o.want)}
                    out == call'[c].out
                IN  (/\ r.op = "wait" /\ Active(c) /\ Terminal(out)
                     /\ Cardinality(posts \ r.at) <= 1
                     /\ Cardinality(posts) <= maxAllPages) =>
                    /\ \A w \in r.o.want : \E p \in r.at : p.text = w
                    /\ out \in said
                    /\ out = "success" => said = {"success"}
                    /\ out \in {"failure", "canceled"} => "error" \notin said
                    /\ out = "canceled" => "failure" \notin said]_vars
  BY <1>1, <1>2
<1> QED  BY <1>2, PollsInStep, PTL DEF Spec, VerdictTrue
=============================================================================
