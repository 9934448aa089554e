----------------------- MODULE PendingBytesBudgetProofs -----------------------
(***************************************************************************)
(* Proofs about PendingBytesBudget, for every finite set of holders, every *)
(* request and every capacity: permits are conserved, the head of the line *)
(* waits only while it does not fit, and nobody overtakes it.              *)
(*                                                                         *)
(* The inductive invariant adds that a holder is in one place at most.     *)
(* Served() picks the longest prefix that fits; that there is one is the   *)
(* least-number principle (LeastNat), and what it leaves does not fit      *)
(* because the totals of disjoint sets add up (TotalUnion).                *)
(***************************************************************************)
EXTENDS PendingBytesBudget, SequenceTheorems, FiniteSetTheorems,
        WellFoundedInduction, TLAPS

-----------------------------------------------------------------------------
(* Waiters do not repeat, also when one is cut out of the line. *)
Distinct(s) == \A i, j \in DOMAIN s : s[i] = s[j] => i = j

(* Nothing repeats in an empty sequence. *)
LEMMA EmptyDistinct == Distinct(<<>>) /\ ToSet(<<>>) = {}
BY DEF Distinct, ToSet

(* Cutting out one element keeps the order of the others. *)
LEMMA RemoveAtKeeps ==
    ASSUME NEW S, NEW s \in Seq(S), NEW i \in 1 .. Len(s)
    PROVE  /\ RemoveAt(s, i) \in Seq(S)
           /\ Len(RemoveAt(s, i)) = Len(s) - 1
           /\ \A j \in 1 .. Len(s) - 1 :
                RemoveAt(s, i)[j] = IF j < i THEN s[j] ELSE s[j + 1]
<1> DEFINE a == SubSeq(s, 1, i - 1)
           b == SubSeq(s, i + 1, Len(s))
<1>1. /\ a \in Seq(S) /\ Len(a) = i - 1 /\ \A j \in 1 .. i - 1 : a[j] = s[j]
  OBVIOUS
<1>2. /\ b \in Seq(S) /\ Len(b) = Len(s) - i
      /\ \A j \in 1 .. Len(s) - i : b[j] = s[j + i]
  OBVIOUS
<1> HIDE DEF a, b
<1>3. /\ a \o b \in Seq(S) /\ Len(a \o b) = Len(a) + Len(b)
      /\ \A j \in 1 .. Len(a) + Len(b) :
           (a \o b)[j] = IF j <= Len(a) THEN a[j] ELSE b[j - Len(a)]
  BY <1>1, <1>2, ConcatProperties
<1>4. RemoveAt(s, i) = a \o b
  BY DEF RemoveAt, a, b
<1>5. Len(a) + Len(b) = Len(s) - 1
  BY <1>1, <1>2
<1>6. ASSUME NEW j \in 1 .. Len(s) - 1
      PROVE  (a \o b)[j] = IF j < i THEN s[j] ELSE s[j + 1]
  <2>1. CASE j < i
    BY <2>1, <1>1, <1>3, <1>5
  <2>2. CASE ~(j < i)
    <3>1. (a \o b)[j] = b[j - Len(a)] /\ j - Len(a) \in 1 .. Len(s) - i
      BY <2>2, <1>1, <1>3, <1>5
    <3>2. (j - Len(a)) + i = j + 1
      BY <1>1
    <3> QED
      BY <2>2, <3>1, <3>2, <1>2
  <2> QED
    BY <2>1, <2>2
<1> QED
  BY <1>3, <1>4, <1>5, <1>6

LEMMA RemoveAtDistinct ==
    ASSUME NEW S, NEW s \in Seq(S), NEW i \in 1 .. Len(s), Distinct(s)
    PROVE  /\ RemoveAt(s, i) \in Seq(S) /\ Distinct(RemoveAt(s, i))
           /\ ToSet(RemoveAt(s, i)) = ToSet(s) \ {s[i]}
<1> DEFINE r == RemoveAt(s, i)
           at(n) == IF n < i THEN n ELSE n + 1
<1>1. /\ r \in Seq(S) /\ Len(r) = Len(s) - 1
      /\ \A j \in 1 .. Len(s) - 1 : r[j] = IF j < i THEN s[j] ELSE s[j + 1]
  BY RemoveAtKeeps
<1> HIDE DEF r
<1>2. DOMAIN r = 1 .. Len(s) - 1 /\ DOMAIN s = 1 .. Len(s) /\ Len(s) \in Nat
  BY <1>1
<1>3. \A j \in DOMAIN r : r[j] = s[at(j)] /\ at(j) \in DOMAIN s /\ at(j) # i
  BY <1>1, <1>2
<1>4. Distinct(r)
  <2> SUFFICES ASSUME NEW j \in DOMAIN r, NEW k \in DOMAIN r, r[j] = r[k]
               PROVE  j = k
    BY DEF Distinct
  <2>1. at(j) = at(k)
    <3> HIDE DEF at
    <3> QED
      BY <1>3 DEF Distinct
  <2> QED
    BY <2>1, <1>2
<1>5. ToSet(r) = ToSet(s) \ {s[i]}
  <2>1. ASSUME NEW j \in DOMAIN r PROVE r[j] \in ToSet(s) \ {s[i]}
    <3> HIDE DEF at
    <3> QED
      BY <1>3 DEF Distinct, ToSet
  <2>2. ASSUME NEW j \in DOMAIN s, s[j] # s[i] PROVE s[j] \in ToSet(r)
    <3>1. CASE j < i
      <4>1. j \in DOMAIN r /\ r[j] = s[j]
        BY <3>1, <1>1, <1>2
      <4> QED
        BY <4>1 DEF ToSet
    <3>2. CASE ~(j < i)
      <4>1. j - 1 \in DOMAIN r /\ ~(j - 1 < i) /\ (j - 1) + 1 = j
        BY <2>2, <3>2, <1>2
      <4>2. r[j - 1] = s[j]
        BY <4>1, <1>1, <1>2
      <4> QED
        BY <4>1, <4>2 DEF ToSet
    <3> QED
      BY <3>1, <3>2
  <2> QED
    BY <2>1, <2>2 DEF ToSet
<1> QED
  BY <1>1, <1>4, <1>5 DEF r

-----------------------------------------------------------------------------
(* The inductive invariant. *)
OnePlaceEach ==
    /\ \A i, j \in DOMAIN byteWaiters : byteWaiters[i] = byteWaiters[j] => i = j
    /\ \A i \in DOMAIN byteWaiters : byteWaiters[i] \notin reserved

IInv == TypeOK /\ OnePlaceEach /\ PermitsConserved /\ HeadDoesNotFit

-----------------------------------------------------------------------------
(* A non-empty set of naturals has a least element. *)
LEMMA LeastNat ==
    ASSUME NEW T \in SUBSET Nat, T # {}
    PROVE  \E m \in T : \A k \in T : m <= k
<1> DEFINE below == {0 .. (m - 1) : m \in T}
<1>1. below \subseteq FiniteSubsetsOf(Nat) /\ below # {}
  <2>1. \A m \in T : IsFiniteSet(0 .. (m - 1)) /\ 0 .. (m - 1) \subseteq Nat
    BY FS_Interval
  <2> QED
    BY <2>1 DEF FiniteSubsetsOf
<1>2. PICK W \in below : \A V \in below : ~ (<<V, W>> \in StrictSubsetOrdering(Nat))
  <2> HIDE DEF below
  <2> QED
    BY <1>1, FS_StrictSubsetOrderingWellFounded, WFMin
<1>3. PICK m \in T : W = 0 .. (m - 1)
  OBVIOUS
<1>4. ASSUME NEW k \in T, k < m PROVE FALSE
  <2>1. 0 .. (k - 1) \subseteq 0 .. (m - 1) /\ 0 .. (m - 1) \subseteq Nat
    BY <1>4
  <2>2. k \in 0 .. (m - 1) /\ k \notin 0 .. (k - 1)
    BY <1>4
  <2>3. 0 .. (k - 1) \in below /\ 0 .. (k - 1) \subseteq Nat
    OBVIOUS
  <2> QED
    BY <1>2, <1>3, <2>1, <2>2, <2>3 DEF StrictSubsetOrdering
<1> QED
  BY <1>4

-----------------------------------------------------------------------------
(* Totals. *)
LEMMA PermitsOfFinite ==
    ASSUME NEW S \in SUBSET Holder
    PROVE  IsFiniteSet(PermitsOf(S))
<1> DEFINE of == [h \in S |-> {h} \X (1 .. Permits[h])]
           parts == {{h} \X (1 .. Permits[h]) : h \in S}
<1>1. IsFiniteSet(S)
  BY FS_Subset, PermitsAssumption
<1>2. of \in Surjection(S, parts)
  BY DEF Surjection
<1>3. IsFiniteSet(parts)
  <2> HIDE DEF of, parts
  <2> QED
    BY <1>1, <1>2, FS_Surjection
<1>4. \A P \in parts : IsFiniteSet(P)
  <2>1. ASSUME NEW h \in S PROVE IsFiniteSet({h} \X (1 .. Permits[h]))
    <3>1. Permits[h] \in Int /\ 1 \in Int
      BY PermitsAssumption
    <3>2. IsFiniteSet({h}) /\ IsFiniteSet(1 .. Permits[h])
      BY <3>1, FS_Singleton, FS_Interval
    <3> QED
      BY <3>2, FS_Product
  <2> QED
    BY <2>1
<1>5. IsFiniteSet(UNION parts)
  <2> HIDE DEF parts
  <2> QED
    BY <1>3, <1>4, FS_UNION
<1> QED
  BY <1>5 DEF PermitsOf

LEMMA TotalType ==
    ASSUME NEW S \in SUBSET Holder
    PROVE  Total(S) \in Nat
BY PermitsOfFinite, FS_CardinalityType DEF Total

LEMMA TotalEmpty == Total({}) = 0
BY FS_EmptySet DEF Total, PermitsOf

LEMMA TotalOne ==
    ASSUME NEW h \in Holder
    PROVE  Total({h}) = Permits[h]
<1>1. PermitsOf({h}) = {h} \X (1 .. Permits[h])
  BY DEF PermitsOf
<1>2. Permits[h] \in Nat /\ 1 \in Int
  BY PermitsAssumption
<1>3. IsFiniteSet(1 .. Permits[h]) /\ Cardinality(1 .. Permits[h]) = Permits[h]
  BY <1>2, FS_Interval, SMTT(20)
<1>4. IsFiniteSet({h}) /\ Cardinality({h}) = 1
  BY FS_Singleton
<1>5. Cardinality({h} \X (1 .. Permits[h])) = Cardinality({h}) * Cardinality(1 .. Permits[h])
  BY <1>3, <1>4, FS_Product
<1>6. Cardinality({h}) * Cardinality(1 .. Permits[h]) = 1 * Permits[h]
  BY <1>3, <1>4
<1>7. 1 * Permits[h] = Permits[h]
  BY <1>2
<1>8. Total({h}) = Cardinality({h} \X (1 .. Permits[h]))
  BY <1>1 DEF Total
<1> QED
  BY <1>5, <1>6, <1>7, <1>8, Zenon

LEMMA TotalUnion ==
    ASSUME NEW S \in SUBSET Holder, NEW T \in SUBSET Holder, S \cap T = {}
    PROVE  Total(S \cup T) = Total(S) + Total(T)
<1>1. PermitsOf(S \cup T) = PermitsOf(S) \cup PermitsOf(T)
  BY DEF PermitsOf
<1>2. PermitsOf(S) \cap PermitsOf(T) = {}
  BY DEF PermitsOf
<1>3. IsFiniteSet(PermitsOf(S)) /\ IsFiniteSet(PermitsOf(T))
  BY PermitsOfFinite
<1>5. Cardinality(PermitsOf(S) \cup PermitsOf(T)) =
        Cardinality(PermitsOf(S)) + Cardinality(PermitsOf(T))
          - Cardinality(PermitsOf(S) \cap PermitsOf(T))
  BY <1>3, FS_Union
<1>6. Cardinality({}) = 0
  BY FS_EmptySet
<1>7. Total(S \cup T) = Cardinality(PermitsOf(S) \cup PermitsOf(T))
  BY <1>1 DEF Total
<1>8. Cardinality(PermitsOf(S) \cap PermitsOf(T)) = 0
  BY <1>2, <1>6
<1>9. Total(S) \in Nat /\ Total(T) \in Nat
  BY TotalType
<1>10. Total(S \cup T) = Total(S) + Total(T) - 0
  BY <1>5, <1>7, <1>8, Zenon DEF Total
<1> QED
  BY <1>9, <1>10

-----------------------------------------------------------------------------
(* Served() is the longest prefix of the waiters that fits. *)
LEMMA ServedPrefix ==
    ASSUME NEW free \in Nat, NEW w \in Seq(Holder), ~budgetClosed
    PROVE  \E k \in 0 .. Len(w) :
             /\ Served(free, w) = FirstOf(w, k)
             /\ Total(ToSet(FirstOf(w, k))) <= free
             /\ k < Len(w) => ~(Total(ToSet(FirstOf(w, k + 1))) <= free)
<1> DEFINE Fits(n) == Total(ToSet(FirstOf(w, n))) <= free
           longest(n) == Fits(n) /\ (n < Len(w) => ~Fits(n + 1))
           misfits == {n \in 0 .. Len(w) : ~Fits(n)}
<1>1. Fits(0)
  <2>1. ToSet(FirstOf(w, 0)) = {}
    BY DEF FirstOf, ToSet
  <2>2. Total(ToSet(FirstOf(w, 0))) = 0
    BY <2>1, TotalEmpty
  <2> QED
    BY <2>2
<1> HIDE DEF Fits
<1>2. \E k \in 0 .. Len(w) : longest(k)
  <2>1. CASE misfits = {}
    <3>1. Len(w) \in 0 .. Len(w) /\ longest(Len(w))
      BY <2>1
    <3> QED
      BY <3>1
  <2>2. CASE misfits # {}
    <3>1. misfits \in SUBSET Nat
      OBVIOUS
    <3>2. PICK m \in misfits : \A n \in misfits : m <= n
      <4> HIDE DEF misfits
      <4> QED
        BY <2>2, <3>1, LeastNat
    <3>3. m - 1 \in 0 .. Len(w) /\ longest(m - 1)
      BY <3>2, <1>1
    <3> QED
      BY <3>3
  <2> QED
    BY <2>1, <2>2
<1>3. PICK k \in 0 .. Len(w) : k = (CHOOSE n \in 0 .. Len(w) : longest(n)) /\ longest(k)
  <2> HIDE DEF longest
  <2> QED
    BY <1>2
<1>4. Served(free, w) = FirstOf(w, k)
  BY <1>3 DEF Served, Fits
<1> QED
  BY <1>3, <1>4 DEF Fits

(* Serving w splits it: the first k fit, and the next one does not. *)
Apart(w, held) == \A i \in DOMAIN w : w[i] \notin held

LEMMA ServedSplits ==
    ASSUME NEW free \in Nat, NEW w \in Seq(Holder),
           budgetClosed => w = <<>>, Distinct(w)
    PROVE  \E k \in 0 .. Len(w) :
             LET served == {w[i] : i \in 1 .. k}
             IN  /\ ToSet(Served(free, w)) = served /\ Len(Served(free, w)) = k
                 /\ Total(served) <= free
                 /\ k < Len(w) => free - Total(served) < Permits[w[k + 1]]
<1> DEFINE first(n) == {w[i] : i \in 1 .. n}
<1>1. PICK k \in 0 .. Len(w) :
        /\ Served(free, w) = FirstOf(w, k)
        /\ Total(ToSet(FirstOf(w, k))) <= free
        /\ k < Len(w) => ~(Total(ToSet(FirstOf(w, k + 1))) <= free)
  <2>1. CASE budgetClosed
    <3>1. Len(w) = 0 /\ 0 \in 0 .. Len(w)
      BY <2>1, EmptySeq
    <3>2. Served(free, w) = <<>> /\ FirstOf(w, 0) = <<>>
      BY <2>1 DEF Served, FirstOf
    <3>3. ToSet(FirstOf(w, 0)) = {}
      BY <3>2 DEF ToSet
    <3>4. Total(ToSet(FirstOf(w, 0))) = 0
      BY <3>3, TotalEmpty
    <3> QED
      BY <3>1, <3>2, <3>4
  <2>2. CASE ~budgetClosed
    BY <2>2, ServedPrefix
  <2> QED
    BY <2>1, <2>2
<1>2. ASSUME NEW n \in 0 .. Len(w)
      PROVE  ToSet(FirstOf(w, n)) = first(n) /\ first(n) \in SUBSET Holder /\ Len(FirstOf(w, n)) = n
  <2>1. DOMAIN FirstOf(w, n) = 1 .. n /\ Len(FirstOf(w, n)) = n
    BY DEF FirstOf
  <2>2. \A i \in 1 .. n : FirstOf(w, n)[i] = w[i] /\ w[i] \in Holder
    BY DEF FirstOf
  <2> QED
    BY <2>1, <2>2 DEF ToSet
<1>3. k < Len(w) => Total(first(k + 1)) = Total(first(k)) + Permits[w[k + 1]]
  <2> SUFFICES ASSUME k < Len(w)
               PROVE  Total(first(k + 1)) = Total(first(k)) + Permits[w[k + 1]]
    OBVIOUS
  <2>1. /\ w[k + 1] \in Holder /\ first(k + 1) = first(k) \cup {w[k + 1]}
        /\ first(k) \cap {w[k + 1]} = {}
    BY DEF Distinct
  <2>2. first(k) \in SUBSET Holder /\ {w[k + 1]} \in SUBSET Holder
    BY <1>2, <2>1
  <2> HIDE DEF first
  <2>3. Total(first(k + 1)) = Total(first(k)) + Total({w[k + 1]})
    BY <2>1, <2>2, TotalUnion
  <2> QED
    BY <2>1, <2>3, TotalOne
<1>4. Total(first(k)) <= free
  BY <1>1, <1>2
<1>5. k < Len(w) => free - Total(first(k)) < Permits[w[k + 1]]
  <2> SUFFICES ASSUME k < Len(w) PROVE free - Total(first(k)) < Permits[w[k + 1]]
    OBVIOUS
  <2>1. ~(Total(first(k + 1)) <= free)
    <3>1. k + 1 \in 0 .. Len(w)
      OBVIOUS
    <3>2. ToSet(FirstOf(w, k + 1)) = first(k + 1)
      BY <3>1, <1>2
    <3> HIDE DEF first
    <3> QED
      BY <3>2, <1>1
  <2>2. Total(first(k)) \in Nat /\ Permits[w[k + 1]] \in Nat
    BY <1>2, TotalType, PermitsAssumption
  <2> HIDE DEF first
  <2> QED
    BY <1>3, <2>1, <2>2
<1>6. ToSet(Served(free, w)) = first(k) /\ Len(Served(free, w)) = k
  BY <1>1, <1>2
<1> QED
  BY <1>4, <1>5, <1>6

(* The first k of w are served from the free permits and join those held. *)
Splits(free, w, held, k) ==
    LET served == {w[i] : i \in 1 .. k}
    IN  /\ Total(served) <= free
        /\ k < Len(w) => free - Total(served) < Permits[w[k + 1]]
        /\ available' = free - Total(served)
        /\ reserved' = held \cup served
        /\ byteWaiters' \in Seq(Holder)
        /\ Len(byteWaiters') = Len(w) - k
        /\ \A i \in 1 .. Len(w) - k : byteWaiters'[i] = w[k + i]

(* Draining w grants its first k and leaves the rest waiting. *)
LEMMA DrainSplits ==
    ASSUME NEW free \in Nat, NEW w \in Seq(Holder), NEW held \in SUBSET Holder,
           budgetClosed => w = <<>>, Distinct(w), DrainWaiters(free, w, held)
    PROVE  \E k \in 0 .. Len(w) : Splits(free, w, held, k)
<1> DEFINE first(n) == {w[i] : i \in 1 .. n}
<1>1. PICK k \in 0 .. Len(w) :
        /\ ToSet(Served(free, w)) = first(k) /\ Len(Served(free, w)) = k
        /\ Total(first(k)) <= free
        /\ k < Len(w) => free - Total(first(k)) < Permits[w[k + 1]]
  BY ServedSplits
<1>2. available' = free - Total(first(k)) /\ reserved' = held \cup first(k)
  BY <1>1 DEF DrainWaiters
<1>3. byteWaiters' = SubSeq(w, k + 1, Len(w))
  BY <1>1 DEF DrainWaiters
<1>4. /\ byteWaiters' \in Seq(Holder)
      /\ Len(byteWaiters') = Len(w) - k
      /\ \A i \in 1 .. Len(w) - k : byteWaiters'[i] = w[k + i]
  BY <1>3
<1> QED
  BY <1>1, <1>2, <1>4 DEF Splits

(* Draining establishes the invariant. *)
LEMMA DrainInvariant ==
    ASSUME NEW free \in Nat, NEW w \in Seq(Holder), NEW held \in SUBSET Holder,
           budgetClosed \in BOOLEAN, budgetClosed => w = <<>>,
           Distinct(w), Apart(w, held),
           free + Total(held) = MaxPermits,
           DrainWaiters(free, w, held), budgetClosed' = budgetClosed
    PROVE  IInv'
<1>1. PICK k \in 0 .. Len(w) : Splits(free, w, held, k)
  BY DrainSplits
<1> USE DEF Splits
<1> DEFINE served == {w[i] : i \in 1 .. k}
<1>2. served \in SUBSET Holder /\ served \cap held = {}
  BY DEF Apart
<1>3. Total(served) \in Nat /\ Total(held) \in Nat /\ Total(held \cup served) = Total(held) + Total(served)
  <2> HIDE DEF served
  <2> QED
    BY <1>2, TotalType, TotalUnion
<1>4. TypeOK'
  <2>1. available' \in Int
    BY <1>1, <1>3
  <2> QED
    BY <2>1, <1>1, <1>2 DEF TypeOK
<1>5. OnePlaceEach'
  <2>1. DOMAIN byteWaiters' = 1 .. Len(w) - k /\ DOMAIN w = 1 .. Len(w)
    BY <1>1
  <2>2. \A i \in 1 .. Len(w) - k : k + i \in 1 .. Len(w) /\ k + i \notin 1 .. k
    OBVIOUS
  <2>3. ASSUME NEW i \in 1 .. Len(w) - k, NEW j \in 1 .. Len(w) - k,
               byteWaiters'[i] = byteWaiters'[j]
        PROVE  i = j
    <3>1. w[k + i] = w[k + j]
      BY <1>1, <2>3
    <3>2. k + i = k + j
      BY <3>1, <2>1, <2>2 DEF Distinct
    <3> QED
      BY <3>2
  <2>4. ASSUME NEW i \in 1 .. Len(w) - k
        PROVE  byteWaiters'[i] \notin reserved'
    <3>1. byteWaiters'[i] = w[k + i] /\ reserved' = held \cup served
      BY <1>1
    <3>2. w[k + i] \notin held
      BY <2>1, <2>2 DEF Apart
    <3>3. w[k + i] \notin served
      BY <2>1, <2>2 DEF Distinct
    <3> HIDE DEF served
    <3> QED
      BY <3>1, <3>2, <3>3
  <2> QED
    BY <2>1, <2>3, <2>4 DEF OnePlaceEach
<1>6. PermitsConserved'
  <2>1. available' = free - Total(served) /\ reserved' = held \cup served /\ Total(served) <= free
    BY <1>1
  <2> HIDE DEF served
  <2> QED
    BY <2>1, <1>3 DEF PermitsConserved
<1>7. HeadDoesNotFit'
  <2> SUFFICES ASSUME byteWaiters' # <<>>
               PROVE  ~budgetClosed' /\ Permits[Head(byteWaiters')] > available'
    BY DEF HeadDoesNotFit
  <2>1. k < Len(w) /\ Head(byteWaiters') = w[k + 1]
    BY <1>1
  <2>2. ~budgetClosed
    BY <2>1, EmptySeq
  <2>3. Permits[w[k + 1]] \in Nat
    BY <2>1, PermitsAssumption
  <2>4. free - Total(served) < Permits[w[k + 1]] /\ available' = free - Total(served)
    BY <1>1, <2>1
  <2> HIDE DEF served
  <2> QED
    BY <1>3, <2>1, <2>2, <2>3, <2>4
<1> QED
  BY <1>4, <1>5, <1>6, <1>7 DEF IInv

-----------------------------------------------------------------------------
(* One lemma per operation. *)

(* Granting h what is free. *)
LEMMA GrantInvariant ==
    ASSUME NEW h \in Holder, IInv, Idle(h), CanAcquire(h), Grant(h)
    PROVE  IInv'
<1> USE DEF IInv
<1>1. Permits[h] \in Nat \ {0} /\ available \in Int /\ MaxPermits \in Nat
  BY PermitsAssumption DEF TypeOK
<1>2. reserved \in SUBSET Holder /\ {h} \in SUBSET Holder /\ reserved \cap {h} = {}
  BY DEF TypeOK, Idle
<1>3. /\ Total(reserved \cup {h}) = Total(reserved) + Permits[h]
      /\ Total(reserved) \in Nat
  BY <1>2, TotalUnion, TotalOne, TotalType
<1>4. available + Total(reserved) = MaxPermits /\ available >= 0
  BY DEF PermitsConserved
<1>5. /\ available' = available - Permits[h] /\ Permits[h] <= available
      /\ reserved' = reserved \cup {h} /\ byteWaiters' = byteWaiters
      /\ byteWaiters = <<>> /\ budgetClosed' = budgetClosed
  BY DEF Grant, CanAcquire
<1>6. PermitsConserved'
  BY <1>1, <1>3, <1>4, <1>5 DEF PermitsConserved
<1>7. TypeOK'
  BY <1>1, <1>2, <1>5 DEF TypeOK
<1>8. OnePlaceEach' /\ HeadDoesNotFit'
  BY <1>5 DEF OnePlaceEach, HeadDoesNotFit
<1> QED
  BY <1>6, <1>7, <1>8

(* acquire() grants at once or joins the end of the line. *)
LEMMA AcquireInvariant ==
    ASSUME NEW h \in Holder, IInv, Idle(h), Acquire(h)
    PROVE  IInv'
<1>1. CASE CanAcquire(h)
  BY <1>1, GrantInvariant DEF Acquire
<1>2. CASE ~CanAcquire(h)
  <2>1. /\ byteWaiters' = Append(byteWaiters, h) /\ available' = available
        /\ reserved' = reserved /\ budgetClosed' = budgetClosed /\ ~budgetClosed
    BY <1>2 DEF Acquire
  <2>2. TypeOK'
    BY <2>1 DEF IInv, TypeOK
  <2>3. \A i \in DOMAIN byteWaiters : byteWaiters[i] # h
    BY DEF Idle, ToSet
  <2>4. OnePlaceEach'
    BY <2>1, <2>3 DEF IInv, OnePlaceEach, TypeOK, Idle
  <2>5. PermitsConserved'
    BY <2>1 DEF IInv, PermitsConserved
  <2>6. HeadDoesNotFit'
    <3>1. CASE byteWaiters = <<>>
      <4>1. Permits[h] \in Nat /\ available \in Int
        BY PermitsAssumption DEF IInv, TypeOK
      <4>2. Permits[h] > available
        BY <1>2, <3>1, <4>1 DEF CanAcquire
      <4>3. Head(byteWaiters') = h
        BY <2>1, <3>1
      <4> QED
        BY <2>1, <4>2, <4>3 DEF HeadDoesNotFit
    <3>2. CASE byteWaiters # <<>>
      <4>1. Head(byteWaiters') = Head(byteWaiters)
        BY <2>1, <3>2 DEF IInv, TypeOK
      <4> QED
        BY <2>1, <3>2, <4>1 DEF IInv, HeadDoesNotFit
    <3> QED
      BY <3>1, <3>2
  <2> QED
    BY <2>2, <2>4, <2>5, <2>6 DEF IInv
<1> QED
  BY <1>1, <1>2

(* What remains when some reservations are given back. *)
LEMMA Unheld ==
    ASSUME NEW S, IInv
    PROVE  LET held == Unreleased(S)
           IN  /\ held \in SUBSET Holder /\ reserved \ held \in SUBSET Holder
               /\ available + Total(held) \in Nat
               /\ available + Total(held) + Total(reserved \ held) = MaxPermits
<1> DEFINE held == Unreleased(S)
<1>1. /\ held \in SUBSET Holder /\ reserved \ held \in SUBSET Holder
      /\ held \cap (reserved \ held) = {} /\ reserved = held \cup (reserved \ held)
  BY DEF IInv, TypeOK, Unreleased
<1> HIDE DEF held
<1>2. Total(reserved) = Total(held) + Total(reserved \ held)
  BY <1>1, TotalUnion
<1>3. Total(held) \in Nat /\ Total(reserved \ held) \in Nat
  BY <1>1, TotalType
<1>4. available + Total(reserved) = MaxPermits /\ available >= 0 /\ available \in Int
  BY DEF IInv, TypeOK, PermitsConserved
<1>5. /\ available + Total(held) \in Nat
      /\ available + Total(held) + Total(reserved \ held) = MaxPermits
  BY <1>2, <1>3, <1>4
<1> QED
  BY <1>1, <1>5 DEF held

(* The waiters, as the draining lemmas want them. *)
LEMMA Waiters ==
    ASSUME IInv
    PROVE  /\ byteWaiters \in Seq(Holder) /\ Distinct(byteWaiters)
           /\ Apart(byteWaiters, reserved)
           /\ budgetClosed \in BOOLEAN
           /\ budgetClosed => byteWaiters = <<>>
BY DEF IInv, TypeOK, OnePlaceEach, HeadDoesNotFit, Distinct, Apart

(* Releasing drains the line into what was given back. *)
LEMMA ReleaseAllInvariant ==
    ASSUME NEW S, IInv, ReleaseAll(S)
    PROVE  IInv'
<1> DEFINE held == Unreleased(S)
           free == available + Total(held)
           kept == reserved \ held
<1>1. held \in SUBSET Holder /\ kept \in SUBSET Holder /\ free \in Nat /\ free + Total(kept) = MaxPermits
  BY Unheld
<1>2. DrainWaiters(free, byteWaiters, kept) /\ budgetClosed' = budgetClosed
  BY DEF ReleaseAll
<1>3. Apart(byteWaiters, kept)
  BY Waiters DEF Apart
<1> HIDE DEF held, free, kept
<1> QED
  BY <1>1, <1>2, <1>3, Waiters, DrainInvariant

(* The last release: what is served on the way is in reserved, the rest of *)
(* the line is refused.                                                    *)
LEMMA ReleaseAndCloseInvariant ==
    ASSUME NEW S, IInv, ReleaseAndClose(S)
    PROVE  IInv'
<1> DEFINE held == Unreleased(S)
           free == available + Total(held)
           kept == reserved \ held
           served == ToSet(Served(free, byteWaiters))
<1>1. held \in SUBSET Holder /\ kept \in SUBSET Holder /\ free \in Nat /\ free + Total(kept) = MaxPermits
  BY Unheld
<1>2. /\ available' = free - Total(served) /\ reserved' = kept \cup served
      /\ byteWaiters' = <<>> /\ budgetClosed' = TRUE
  BY DEF ReleaseAndClose
<1>3. Apart(byteWaiters, kept)
  BY Waiters DEF Apart
<1> HIDE DEF held, free, kept
<1>4. PICK k \in 0 .. Len(byteWaiters) :
        served = {byteWaiters[i] : i \in 1 .. k} /\ Total(served) <= free
  BY <1>1, Waiters, ServedSplits
<1>5. served \in SUBSET Holder /\ served \cap kept = {}
  BY <1>3, <1>4, Waiters DEF Apart
<1> HIDE DEF served
<1>6. Total(kept \cup served) = Total(kept) + Total(served) /\ Total(served) \in Nat /\ Total(kept) \in Nat
  BY <1>1, <1>5, TotalUnion, TotalType
<1>7. PermitsConserved'
  BY <1>1, <1>2, <1>4, <1>6 DEF PermitsConserved
<1>8. available' \in Int
  BY <1>1, <1>2, <1>6
<1>9. <<>> \in Seq(Holder)
  BY EmptySeq
<1>10. TypeOK'
  BY <1>1, <1>2, <1>5, <1>8, <1>9 DEF TypeOK
<1>11. OnePlaceEach' /\ HeadDoesNotFit'
  BY <1>2 DEF OnePlaceEach, HeadDoesNotFit
<1> QED
  BY <1>7, <1>10, <1>11 DEF IInv

(* An aborted waiter leaves, and those behind it may be served. *)
LEMMA AbortInvariant ==
    ASSUME NEW h \in Holder, IInv, Abort(h)
    PROVE  IInv'
<1>1. PICK i \in DOMAIN byteWaiters :
        byteWaiters[i] = h /\ DrainWaiters(available, RemoveAt(byteWaiters, i), reserved)
  BY DEF Abort
<1> DEFINE w == RemoveAt(byteWaiters, i)
<1>2. /\ w \in Seq(Holder) /\ Len(w) = Len(byteWaiters) - 1
      /\ \A j \in 1 .. Len(w) :
           w[j] = IF j < i THEN byteWaiters[j] ELSE byteWaiters[j + 1]
  <2>1. byteWaiters \in Seq(Holder) /\ i \in 1 .. Len(byteWaiters)
    BY Waiters
  <2>2. /\ w \in Seq(Holder) /\ Len(w) = Len(byteWaiters) - 1
        /\ \A j \in 1 .. Len(byteWaiters) - 1 :
             w[j] = IF j < i THEN byteWaiters[j] ELSE byteWaiters[j + 1]
    BY <2>1, RemoveAtKeeps
  <2> QED
    BY <2>2
<1> HIDE DEF w
<1>3. Distinct(w)
  <2> SUFFICES ASSUME NEW j \in 1 .. Len(w), NEW k \in 1 .. Len(w), w[j] = w[k]
               PROVE  j = k
    BY <1>2 DEF Distinct
  <2> DEFINE at(n) == IF n < i THEN n ELSE n + 1
  <2>1. at(j) \in DOMAIN byteWaiters /\ at(k) \in DOMAIN byteWaiters
    BY <1>2, Waiters
  <2>2. w[j] = byteWaiters[at(j)] /\ w[k] = byteWaiters[at(k)]
    BY <1>2
  <2>3. at(j) = at(k)
    <3> HIDE DEF at
    <3> QED
      BY <2>1, <2>2, Waiters DEF Distinct
  <2> QED
    BY <1>2, <2>3, Waiters
<1>4. Apart(w, reserved)
  BY <1>2, Waiters DEF Apart
<1>5. ~budgetClosed /\ budgetClosed' = budgetClosed
  BY <1>1, Waiters DEF Abort
<1>6. /\ available \in Nat /\ reserved \in SUBSET Holder
      /\ available + Total(reserved) = MaxPermits
  BY DEF IInv, TypeOK, PermitsConserved
<1>7. DrainWaiters(available, w, reserved)
  BY <1>1 DEF w
<1>8. budgetClosed \in BOOLEAN /\ (budgetClosed => w = <<>>)
  BY <1>5, Waiters
<1> QED
  BY <1>2, <1>3, <1>4, <1>5, <1>6, <1>7, <1>8, DrainInvariant

(* Closing refuses everyone who waits. *)
LEMMA CloseInvariant ==
    ASSUME IInv, Close
    PROVE  IInv'
<1>1. byteWaiters' = <<>> /\ budgetClosed' = TRUE /\ UNCHANGED <<available, reserved>>
  BY Waiters DEF Close
<1>2. <<>> \in Seq(Holder)
  BY EmptySeq
<1> QED
  BY <1>1, <1>2 DEF IInv, TypeOK, OnePlaceEach, PermitsConserved, HeadDoesNotFit

(* Every step of the budget keeps the inductive invariant. *)
LEMMA NextInvariant ==
    ASSUME IInv, [Next]_budgetVars
    PROVE  IInv'
<1>1. CASE \E h \in Holder : Idle(h) /\ (Acquire(h) \/ TryAcquire(h))
  BY <1>1, AcquireInvariant, GrantInvariant DEF TryAcquire, CanTryAcquire
<1>2. CASE \E h \in Holder : Release(h) \/ Abort(h)
  BY <1>2, ReleaseAllInvariant, AbortInvariant DEF Release
<1>3. CASE \E S \in SUBSET Holder : ReleaseAll(S) \/ ReleaseAndClose(S)
  BY <1>3, ReleaseAllInvariant, ReleaseAndCloseInvariant
<1>4. CASE Close
  BY <1>4, CloseInvariant
<1>5. CASE UNCHANGED budgetVars
  BY <1>5 DEF budgetVars, IInv, TypeOK, OnePlaceEach, PermitsConserved, HeadDoesNotFit
<1> QED
  BY <1>1, <1>2, <1>3, <1>4, <1>5 DEF Next

LEMMA InitInvariant == Init => IInv
<1>1. <<>> \in Seq(Holder) /\ Total({}) = 0 /\ MaxPermits \in Nat
  BY EmptySeq, TotalEmpty, PermitsAssumption
<1>2. MaxPermits + 0 = MaxPermits /\ MaxPermits >= 0 /\ MaxPermits \in Int
  BY <1>1
<1>3. Init => PermitsConserved
  BY <1>1, <1>2, Zenon DEF Init, PermitsConserved
<1>4. Init => TypeOK
  BY <1>1, <1>2 DEF Init, TypeOK
<1>5. Init => OnePlaceEach /\ HeadDoesNotFit
  BY DEF Init, OnePlaceEach, HeadDoesNotFit
<1> QED
  BY <1>3, <1>4, <1>5 DEF IInv

(* The inductive invariant holds in every behaviour of the budget. *)
THEOREM Invariance == Spec => []IInv
BY InitInvariant, NextInvariant, PTL DEF Spec

(* The budget is conserved and never overdrawn, whatever is acquired,      *)
(* released, released again, aborted or closed, in whatever order.         *)
THEOREM Conservation == Spec => []PermitsConserved
BY Invariance, PTL DEF IInv

(* drainWaiters() is called often enough: whoever heads the line does not  *)
(* fit, and nobody waits for a closed budget.                              *)
THEOREM HeadWaitsOnlyForRoom == Spec => []HeadDoesNotFit
BY Invariance, PTL DEF IInv

(* A step in which h does not ask leaves an idle h idle: only waiters are *)
(* served, and only who asked waits.                                      *)
QuietFor(h) ==
    \/ \E g \in Holder \ {h} : Acquire(g) \/ TryAcquire(g)
    \/ \E g \in Holder : Abort(g)
    \/ \E S \in SUBSET Holder : ReleaseAll(S) \/ ReleaseAndClose(S)
    \/ Close
    \/ UNCHANGED budgetVars

LEMMA DrainIdle ==
    ASSUME NEW free \in Nat, NEW w \in Seq(Holder), NEW held \in SUBSET Holder,
           budgetClosed => w = <<>>, Distinct(w), DrainWaiters(free, w, held),
           NEW h \in Holder, h \notin ToSet(w), h \notin held
    PROVE  Idle(h)'
<1>1. PICK k \in 0 .. Len(w) : Splits(free, w, held, k)
  BY DrainSplits
<1> USE DEF Splits
<1>2. \A i \in 1 .. Len(w) : w[i] # h
  BY DEF ToSet
<1>3. h \notin reserved'
  BY <1>1, <1>2
<1>4. \A i \in 1 .. Len(w) - k : byteWaiters'[i] # h
  BY <1>1, <1>2
<1>5. h \notin ToSet(byteWaiters')
  BY <1>1, <1>4 DEF ToSet
<1> QED
  BY <1>3, <1>5 DEF Idle

LEMMA IdleStaysIdle ==
    ASSUME IInv, NEW h \in Holder, Idle(h), QuietFor(h)
    PROVE  Idle(h)'
<1>1. h \notin reserved /\ h \notin ToSet(byteWaiters)
  BY DEF Idle
<1>2. ASSUME NEW g \in Holder \ {h}, Acquire(g) \/ TryAcquire(g) PROVE Idle(h)'
  <2>1. CASE Grant(g)
    BY <1>1, <2>1 DEF Grant, Idle
  <2>2. CASE byteWaiters' = Append(byteWaiters, g) /\ reserved' = reserved
    <3>1. \A i \in DOMAIN byteWaiters' : byteWaiters'[i] # h
      BY <1>1, <2>2, Waiters, AppendProperties DEF ToSet
    <3> QED
      BY <1>1, <2>2, <3>1 DEF Idle, ToSet
  <2> QED
    BY <1>2, <2>1, <2>2 DEF Acquire, TryAcquire
<1>3. ASSUME NEW g \in Holder, Abort(g) PROVE Idle(h)'
  <2>1. PICK i \in DOMAIN byteWaiters :
          DrainWaiters(available, RemoveAt(byteWaiters, i), reserved)
    BY <1>3 DEF Abort
  <2> DEFINE w == RemoveAt(byteWaiters, i)
  <2>2. byteWaiters \in Seq(Holder) /\ i \in 1 .. Len(byteWaiters) /\ Distinct(byteWaiters)
    BY Waiters
  <2>3. w \in Seq(Holder) /\ Distinct(w) /\ ToSet(w) = ToSet(byteWaiters) \ {byteWaiters[i]}
    BY <2>2, RemoveAtDistinct
  <2>4. ~budgetClosed
    BY <2>2, Waiters
  <2>5. available \in Nat /\ reserved \in SUBSET Holder
    BY DEF IInv, TypeOK, PermitsConserved
  <2>6. DrainWaiters(available, w, reserved)
    BY <2>1
  <2> HIDE DEF w
  <2> QED
    BY <1>1, <2>3, <2>4, <2>5, <2>6, DrainIdle
<1>4. ASSUME NEW S, ReleaseAll(S) PROVE Idle(h)'
  <2> DEFINE held == Unreleased(S)
             free == available + Total(held)
             kept == reserved \ held
  <2>1. kept \in SUBSET Holder /\ free \in Nat
    BY Unheld
  <2>2. DrainWaiters(free, byteWaiters, kept)
    BY <1>4 DEF ReleaseAll
  <2>3. h \notin kept
    BY <1>1
  <2> HIDE DEF held, free, kept
  <2> QED
    BY <1>1, <2>1, <2>2, <2>3, Waiters, DrainIdle
<1>5. ASSUME NEW S, ReleaseAndClose(S) PROVE Idle(h)'
  <2> DEFINE held == Unreleased(S)
             free == available + Total(held)
             served == ToSet(Served(free, byteWaiters))
  <2>1. free \in Nat
    BY Unheld
  <2>2. reserved' = (reserved \ held) \cup served /\ byteWaiters' = <<>>
    BY <1>5 DEF ReleaseAndClose
  <2> HIDE DEF free, held
  <2>3. PICK k \in 0 .. Len(byteWaiters) : served = {byteWaiters[i] : i \in 1 .. k}
    BY <2>1, Waiters, ServedSplits
  <2>4. h \notin served
    BY <1>1, <2>3, Waiters DEF ToSet
  <2> HIDE DEF served
  <2> QED
    BY <1>1, <2>2, <2>4, EmptyDistinct DEF Idle
<1>6. CASE Close
  BY <1>1, <1>6, EmptyDistinct DEF Close, Idle
<1>7. CASE UNCHANGED budgetVars
  BY <1>1, <1>7 DEF budgetVars, Idle
<1> QED
  BY <1>2, <1>3, <1>4, <1>5, <1>6, <1>7 DEF QuietFor

-----------------------------------------------------------------------------
(* Order of service.  Whoever a step serves stood before all who still wait. *)
Overtakes == \E h \in reserved' \ reserved : ToSet(byteWaiters') \cap Ahead(h) # {}

LEMMA ServedBeforeRest ==
    ASSUME IInv,
           \A h \in reserved' \ reserved, g \in ToSet(byteWaiters') :
             \E p, q \in DOMAIN byteWaiters :
               p < q /\ byteWaiters[p] = h /\ byteWaiters[q] = g
    PROVE  ~Overtakes
<1> SUFFICES ASSUME NEW h \in reserved' \ reserved,
                    NEW g \in ToSet(byteWaiters'), g \in Ahead(h)
             PROVE  FALSE
  BY DEF Overtakes
<1>1. PICK p, q \in DOMAIN byteWaiters :
        p < q /\ byteWaiters[p] = h /\ byteWaiters[q] = g
  OBVIOUS
<1>2. h \in ToSet(byteWaiters)
  BY <1>1 DEF ToSet
<1>3. PICK i, j \in DOMAIN byteWaiters :
        i < j /\ byteWaiters[i] = g /\ byteWaiters[j] = h
  BY <1>2 DEF Ahead
<1>4. i = q /\ j = p
  BY <1>1, <1>3, Waiters DEF Distinct
<1> QED
  BY <1>1, <1>3, <1>4, Waiters

(* Draining w serves a prefix of it. *)
LEMMA DrainOrder ==
    ASSUME NEW free \in Nat, NEW w \in Seq(Holder), NEW held \in SUBSET Holder,
           budgetClosed => w = <<>>, Distinct(w), held \subseteq reserved,
           DrainWaiters(free, w, held),
           NEW h \in reserved' \ reserved, NEW g \in ToSet(byteWaiters')
    PROVE  \E p, q \in DOMAIN w : p < q /\ w[p] = h /\ w[q] = g
<1>1. PICK k \in 0 .. Len(w) : Splits(free, w, held, k)
  BY DrainSplits
<1> USE DEF Splits
<1>2. PICK p \in 1 .. k : w[p] = h
  BY <1>1
<1>3. PICK i \in 1 .. Len(w) - k : byteWaiters'[i] = g
  BY <1>1 DEF ToSet
<1>4. w[k + i] = g /\ k + i \in DOMAIN w /\ p \in DOMAIN w /\ p < k + i
  BY <1>1, <1>3
<1> QED
  BY <1>2, <1>4

LEMMA AbortOrder ==
    ASSUME NEW h \in Holder, IInv, Abort(h)
    PROVE  ~Overtakes
<1>1. PICK i \in DOMAIN byteWaiters :
        byteWaiters[i] = h /\ DrainWaiters(available, RemoveAt(byteWaiters, i), reserved)
  BY DEF Abort
<1> DEFINE w == RemoveAt(byteWaiters, i)
           at(n) == IF n < i THEN n ELSE n + 1
<1>2. byteWaiters \in Seq(Holder) /\ i \in 1 .. Len(byteWaiters)
  BY Waiters
<1>3. /\ w \in Seq(Holder) /\ Len(w) = Len(byteWaiters) - 1
      /\ \A j \in 1 .. Len(byteWaiters) - 1 : w[j] = byteWaiters[at(j)]
  <2>1. \A j \in 1 .. Len(byteWaiters) - 1 :
           w[j] = IF j < i THEN byteWaiters[j] ELSE byteWaiters[j + 1]
    BY <1>2, RemoveAtKeeps
  <2>2. w \in Seq(Holder) /\ Len(w) = Len(byteWaiters) - 1
    BY <1>2, RemoveAtKeeps
  <2> QED
    BY <2>1, <2>2
<1>4. DrainWaiters(available, w, reserved)
  BY <1>1
<1> HIDE DEF w
<1>5. \A m \in DOMAIN w : at(m) \in DOMAIN byteWaiters
  BY <1>2, <1>3
<1>6. \A m, n \in DOMAIN w : m < n => at(m) < at(n)
  BY <1>2, <1>3
<1>7. Distinct(w)
  <2> SUFFICES ASSUME NEW m \in DOMAIN w, NEW n \in DOMAIN w, w[m] = w[n]
               PROVE  m = n
    BY DEF Distinct
  <2>1. m \in 1 .. Len(byteWaiters) - 1 /\ n \in 1 .. Len(byteWaiters) - 1
    BY <1>2, <1>3
  <2>2. byteWaiters[at(m)] = byteWaiters[at(n)]
    BY <1>3, <2>1
  <2>3. at(m) = at(n)
    <3> HIDE DEF at
    <3> QED
      BY <1>5, <2>2, Waiters DEF Distinct
  <2> QED
    BY <2>1, <2>3, <1>2
<1>8. ~budgetClosed
  BY <1>1, Waiters
<1>9. available \in Nat /\ reserved \in SUBSET Holder
  BY DEF IInv, TypeOK, PermitsConserved
<1>10. ASSUME NEW x \in reserved' \ reserved, NEW g \in ToSet(byteWaiters')
       PROVE  \E p, q \in DOMAIN byteWaiters :
                p < q /\ byteWaiters[p] = x /\ byteWaiters[q] = g
  <2>1. PICK p, q \in DOMAIN w : p < q /\ w[p] = x /\ w[q] = g
    BY <1>3, <1>4, <1>7, <1>8, <1>9, DrainOrder
  <2>2. p \in 1 .. Len(byteWaiters) - 1 /\ q \in 1 .. Len(byteWaiters) - 1
    BY <1>2, <1>3
  <2>3. byteWaiters[at(p)] = x /\ byteWaiters[at(q)] = g
    BY <1>3, <2>1, <2>2
  <2> HIDE DEF at
  <2> QED
    BY <1>5, <1>6, <2>1, <2>3
<1> QED
  BY <1>10, ServedBeforeRest

LEMMA ReleaseAllOrder ==
    ASSUME NEW S, IInv, ReleaseAll(S)
    PROVE  ~Overtakes
<1> DEFINE held == Unreleased(S)
           free == available + Total(held)
           kept == reserved \ held
<1>1. kept \in SUBSET Holder /\ free \in Nat
  BY Unheld
<1>2. DrainWaiters(free, byteWaiters, kept) /\ kept \subseteq reserved
  BY DEF ReleaseAll
<1> HIDE DEF held, free, kept
<1>3. \A h \in reserved' \ reserved, g \in ToSet(byteWaiters') :
         \E p, q \in DOMAIN byteWaiters :
           p < q /\ byteWaiters[p] = h /\ byteWaiters[q] = g
  BY <1>1, <1>2, Waiters, DrainOrder
<1> QED
  BY <1>3, ServedBeforeRest

(* When nobody is left waiting, nobody was overtaken. *)
LEMMA EmptyLineOrder ==
    ASSUME byteWaiters' = <<>> \/ reserved' = reserved
    PROVE  ~Overtakes
BY DEF Overtakes, ToSet

LEMMA NextOrder ==
    ASSUME IInv, Next
    PROVE  ~Overtakes
<1>1. ASSUME NEW h \in Holder, Acquire(h) \/ TryAcquire(h) PROVE ~Overtakes
  BY <1>1, EmptyLineOrder DEF Acquire, TryAcquire, CanTryAcquire, CanAcquire, Grant
<1>2. CASE \E h \in Holder : Release(h) \/ Abort(h)
  BY <1>2, ReleaseAllOrder, AbortOrder DEF Release
<1>3. CASE \E S \in SUBSET Holder : ReleaseAll(S) \/ ReleaseAndClose(S)
  BY <1>3, ReleaseAllOrder, EmptyLineOrder DEF ReleaseAndClose
<1>4. CASE Close
  BY <1>4, EmptyLineOrder DEF Close
<1> QED
  BY <1>1, <1>2, <1>3, <1>4 DEF Next

(* First come, first served: no step serves a holder and leaves one waiting *)
(* that had asked before, not even when a waiter in between gives up.       *)
THEOREM FirstComeFirstServed == Spec => NoOvertaking
<1>1. IInv /\ [Next]_budgetVars =>
        [\A h \in reserved' \ reserved : ToSet(byteWaiters') \cap Ahead(h) = {}]_budgetVars
  BY NextOrder DEF Overtakes
<1> QED
  BY <1>1, Invariance, PTL DEF Spec, NoOvertaking

-----------------------------------------------------------------------------
(* What whoever uses the budget needs of it: a step serves only those who  *)
(* waited or asked, takes from nobody, and lets nobody else join the line. *)
LEMMA DrainEffect ==
    ASSUME NEW free \in Nat, NEW w \in Seq(Holder), NEW held \in SUBSET Holder,
           budgetClosed => w = <<>>, Distinct(w), DrainWaiters(free, w, held)
    PROVE  /\ held \subseteq reserved' /\ reserved' \subseteq held \cup ToSet(w)
           /\ ToSet(byteWaiters') \subseteq ToSet(w)
<1>1. PICK k \in 0 .. Len(w) : Splits(free, w, held, k)
  BY DrainSplits
<1> USE DEF Splits
<1>2. reserved' = held \cup {w[i] : i \in 1 .. k} /\ 1 .. k \subseteq DOMAIN w
  BY <1>1
<1>3. \A i \in DOMAIN byteWaiters' : byteWaiters'[i] = w[k + i] /\ k + i \in DOMAIN w
  BY <1>1
<1> QED
  BY <1>2, <1>3 DEF ToSet

LEMMA AskEffect ==
    ASSUME NEW h \in Holder, IInv, Acquire(h) \/ TryAcquire(h)
    PROVE  /\ reserved \subseteq reserved' /\ reserved' \subseteq reserved \cup {h}
           /\ ToSet(byteWaiters') \subseteq ToSet(byteWaiters) \cup {h}
           /\ budgetClosed' = budgetClosed
           /\ TryAcquire(h) => h \in reserved'
<1>1. CASE Grant(h)
  BY <1>1, Zenon DEF Grant, Acquire, TryAcquire
<1>2. CASE Acquire(h) /\ byteWaiters' = Append(byteWaiters, h) /\ ~CanAcquire(h)
            /\ UNCHANGED <<available, reserved, budgetClosed>>
  <2>1. ToSet(byteWaiters') \subseteq ToSet(byteWaiters) \cup {h}
    BY <1>2, Waiters, AppendProperties DEF ToSet
  <2>2. ~TryAcquire(h)
    BY <1>2 DEF TryAcquire, CanTryAcquire
  <2> QED
    BY <1>2, <2>1, <2>2
<1> QED
  BY <1>1, <1>2 DEF Acquire, TryAcquire

LEMMA AbortEffect ==
    ASSUME NEW h \in Holder, IInv, Abort(h)
    PROVE  /\ reserved \subseteq reserved' /\ reserved' \subseteq reserved \cup ToSet(byteWaiters)
           /\ ToSet(byteWaiters') \subseteq ToSet(byteWaiters)
           /\ budgetClosed' = budgetClosed
<1>1. PICK i \in DOMAIN byteWaiters :
        DrainWaiters(available, RemoveAt(byteWaiters, i), reserved)
  BY DEF Abort
<1> DEFINE w == RemoveAt(byteWaiters, i)
<1>2. byteWaiters \in Seq(Holder) /\ i \in 1 .. Len(byteWaiters) /\ Distinct(byteWaiters)
  BY Waiters
<1>3. w \in Seq(Holder) /\ Distinct(w) /\ ToSet(w) = ToSet(byteWaiters) \ {byteWaiters[i]}
  BY <1>2, RemoveAtDistinct
<1>4. ~budgetClosed
  BY <1>2, Waiters
<1>5. available \in Nat /\ reserved \in SUBSET Holder
  BY DEF IInv, TypeOK, PermitsConserved
<1>6. DrainWaiters(available, w, reserved)
  BY <1>1
<1> HIDE DEF w
<1>7. /\ reserved \subseteq reserved' /\ reserved' \subseteq reserved \cup ToSet(w)
      /\ ToSet(byteWaiters') \subseteq ToSet(w)
  BY <1>3, <1>4, <1>5, <1>6, DrainEffect
<1> QED
  BY <1>3, <1>7 DEF Abort

LEMMA ReleaseEffect ==
    ASSUME NEW S, IInv, ReleaseAll(S) \/ ReleaseAndClose(S)
    PROVE  /\ reserved \ S \subseteq reserved'
           /\ reserved' \subseteq (reserved \ S) \cup ToSet(byteWaiters)
           /\ ToSet(byteWaiters') \subseteq ToSet(byteWaiters)
           /\ ReleaseAll(S) => budgetClosed' = budgetClosed
           /\ ReleaseAndClose(S) => budgetClosed' /\ byteWaiters' = <<>>
<1> DEFINE held == Unreleased(S)
           free == available + Total(held)
           kept == reserved \ held
           served == ToSet(Served(free, byteWaiters))
<1>1. kept \in SUBSET Holder /\ free \in Nat
  BY Unheld
<1>2. kept = reserved \ S
  BY DEF Unreleased
<1>3. CASE ReleaseAll(S)
  <2>1. DrainWaiters(free, byteWaiters, kept) /\ budgetClosed' = budgetClosed
    BY <1>3 DEF ReleaseAll
  <2> HIDE DEF held, free, kept
  <2>2. /\ kept \subseteq reserved' /\ reserved' \subseteq kept \cup ToSet(byteWaiters)
        /\ ToSet(byteWaiters') \subseteq ToSet(byteWaiters)
    BY <1>1, <2>1, Waiters, DrainEffect
  <2>3. ReleaseAndClose(S) => budgetClosed' /\ byteWaiters' = <<>>
    BY DEF ReleaseAndClose
  <2> QED
    BY <1>2, <2>1, <2>2, <2>3
<1>4. CASE ReleaseAndClose(S)
  <2>1. reserved' = kept \cup served /\ byteWaiters' = <<>> /\ budgetClosed' = TRUE
    BY <1>4 DEF ReleaseAndClose
  <2>2. ReleaseAll(S) => budgetClosed' = budgetClosed
    BY DEF ReleaseAll
  <2> HIDE DEF held, free, kept
  <2>3. PICK k \in 0 .. Len(byteWaiters) : served = {byteWaiters[i] : i \in 1 .. k}
    BY <1>1, Waiters, ServedSplits
  <2>4. served \subseteq ToSet(byteWaiters)
    <3>1. 1 .. k \subseteq DOMAIN byteWaiters
      BY <2>3, Waiters
    <3> QED
      BY <2>3, <3>1 DEF ToSet
  <2> HIDE DEF served
  <2> QED
    BY <1>2, <2>1, <2>2, <2>4, EmptyDistinct
<1> QED
  BY <1>3, <1>4

LEMMA CloseEffect ==
    ASSUME IInv, Close
    PROVE  /\ reserved' = reserved /\ budgetClosed'
           /\ ToSet(byteWaiters') \subseteq ToSet(byteWaiters)
BY EmptyDistinct DEF Close
=============================================================================
