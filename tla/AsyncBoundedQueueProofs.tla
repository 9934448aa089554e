----------------------- MODULE AsyncBoundedQueueProofs -----------------------
(***************************************************************************)
(* Proofs about AsyncBoundedQueue, for every set of commands and every     *)
(* capacity.  The inductive invariant has two halves.  Shape ties the      *)
(* receiver to the buffer and the buffer to the parked senders; each fact  *)
(* needs the other to survive Receive.  Place says where a command is and  *)
(* what its sender has been told; it needs Shape, because a command goes   *)
(* behind the buffer only when nobody is parked behind it.                 *)
(***************************************************************************)
EXTENDS AsyncBoundedQueue, Integers, SequenceTheorems, TLAPS

-----------------------------------------------------------------------------
(* Sequences without repetition: append, take from the head, cut out an    *)
(* element, split, join.                                                   *)
Distinct(s) == \A i, j \in DOMAIN s : s[i] = s[j] => i = j

(* Nothing repeats in an empty sequence. *)
LEMMA EmptyDistinct == Distinct(<<>>) /\ ToSet(<<>>) = {}
BY DEF Distinct, ToSet

LEMMA AppendDistinct ==
    ASSUME NEW S, NEW s \in Seq(S), NEW e \in S, Distinct(s), e \notin ToSet(s)
    PROVE  /\ Append(s, e) \in Seq(S) /\ Distinct(Append(s, e))
           /\ ToSet(Append(s, e)) = ToSet(s) \cup {e}
<1>1. /\ Append(s, e) \in Seq(S) /\ DOMAIN Append(s, e) = 1 .. Len(s) + 1
      /\ DOMAIN s = 1 .. Len(s)
      /\ \A i \in 1 .. Len(s) : Append(s, e)[i] = s[i]
      /\ Append(s, e)[Len(s) + 1] = e
  BY AppendProperties
<1>2. \A i \in 1 .. Len(s) : s[i] # e
  BY DEF ToSet
<1>3. Distinct(Append(s, e))
  BY <1>1, <1>2 DEF Distinct
<1>4. ToSet(Append(s, e)) = ToSet(s) \cup {e}
  BY <1>1 DEF ToSet
<1> QED
  BY <1>1, <1>3, <1>4

LEMMA HeadTailDistinct ==
    ASSUME NEW S, NEW s \in Seq(S), s # <<>>, Distinct(s)
    PROVE  /\ Head(s) \in S /\ Tail(s) \in Seq(S) /\ Len(Tail(s)) = Len(s) - 1
           /\ Distinct(Tail(s)) /\ Head(s) \notin ToSet(Tail(s))
           /\ ToSet(s) = {Head(s)} \cup ToSet(Tail(s))
<1>1. /\ Head(s) \in S /\ Tail(s) \in Seq(S) /\ Len(Tail(s)) = Len(s) - 1
      /\ \A i \in 1 .. Len(s) - 1 : Tail(s)[i] = s[i + 1]
  BY HeadTailProperties
<1>2. Head(s) = s[1] /\ 1 \in DOMAIN s /\ DOMAIN s = 1 .. Len(s)
      /\ DOMAIN Tail(s) = 1 .. Len(s) - 1
  BY <1>1
<1>3. Distinct(Tail(s))
  <2> SUFFICES ASSUME NEW i \in 1 .. Len(s) - 1, NEW j \in 1 .. Len(s) - 1,
                      Tail(s)[i] = Tail(s)[j]
               PROVE  i = j
    BY <1>2 DEF Distinct
  <2>1. s[i + 1] = s[j + 1] /\ i + 1 \in DOMAIN s /\ j + 1 \in DOMAIN s
    BY <1>1, <1>2
  <2>2. i + 1 = j + 1
    BY <2>1 DEF Distinct
  <2> QED
    BY <2>2
<1>4. Head(s) \notin ToSet(Tail(s))
  <2> SUFFICES ASSUME NEW i \in 1 .. Len(s) - 1, Tail(s)[i] = Head(s) PROVE FALSE
    BY <1>2 DEF ToSet
  <2>1. s[i + 1] = s[1] /\ i + 1 \in DOMAIN s
    BY <1>1, <1>2
  <2>2. i + 1 = 1
    BY <2>1, <1>2 DEF Distinct
  <2> QED
    BY <2>2
<1>5. ToSet(s) = {Head(s)} \cup ToSet(Tail(s))
  <2>1. ASSUME NEW i \in DOMAIN s PROVE s[i] \in {Head(s)} \cup ToSet(Tail(s))
    <3>1. CASE i = 1
      BY <3>1, <1>2
    <3>2. CASE i # 1
      <4>1. i - 1 \in 1 .. Len(s) - 1 /\ (i - 1) + 1 = i
        BY <3>2, <1>2
      <4>2. Tail(s)[i - 1] = s[i]
        BY <4>1, <1>1
      <4> QED
        BY <4>1, <4>2, <1>2 DEF ToSet
    <3> QED
      BY <3>1, <3>2
  <2>2. ASSUME NEW i \in DOMAIN Tail(s) PROVE Tail(s)[i] \in ToSet(s)
    <3>1. i + 1 \in DOMAIN s /\ Tail(s)[i] = s[i + 1]
      BY <1>1, <1>2
    <3> QED
      BY <3>1 DEF ToSet
  <2>3. Head(s) \in ToSet(s)
    BY <1>2 DEF ToSet
  <2> QED
    BY <2>1, <2>2, <2>3 DEF ToSet
<1> QED
  BY <1>1, <1>3, <1>4, <1>5

LEMMA ConcatDistinct ==
    ASSUME NEW S, NEW s \in Seq(S), NEW t \in Seq(S), Distinct(s), Distinct(t),
           ToSet(s) \cap ToSet(t) = {}
    PROVE  /\ s \o t \in Seq(S) /\ Len(s \o t) = Len(s) + Len(t)
           /\ Distinct(s \o t) /\ ToSet(s \o t) = ToSet(s) \cup ToSet(t)
<1> DEFINE u == s \o t
<1>1. /\ u \in Seq(S) /\ Len(u) = Len(s) + Len(t)
      /\ \A i \in 1 .. Len(s) + Len(t) : u[i] = IF i <= Len(s) THEN s[i] ELSE t[i - Len(s)]
  BY ConcatProperties
<1> HIDE DEF u
<1>2. /\ DOMAIN u = 1 .. Len(s) + Len(t) /\ DOMAIN s = 1 .. Len(s) /\ DOMAIN t = 1 .. Len(t)
      /\ Len(s) \in Nat /\ Len(t) \in Nat
  BY <1>1
<1>3. ASSUME NEW i \in DOMAIN u
      PROVE  \/ i \in DOMAIN s /\ u[i] = s[i]
             \/ i - Len(s) \in DOMAIN t /\ u[i] = t[i - Len(s)]
  BY <1>1, <1>2
<1>4. \A i \in DOMAIN s, j \in DOMAIN t : s[i] # t[j]
  BY DEF ToSet
<1>5. Distinct(u)
  <2> SUFFICES ASSUME NEW i \in DOMAIN u, NEW j \in DOMAIN u, u[i] = u[j]
               PROVE  i = j
    BY DEF Distinct
  <2>1. CASE i \in DOMAIN s /\ u[i] = s[i] /\ j \in DOMAIN s /\ u[j] = s[j]
    BY <2>1 DEF Distinct
  <2>2. CASE /\ i - Len(s) \in DOMAIN t /\ u[i] = t[i - Len(s)]
             /\ j - Len(s) \in DOMAIN t /\ u[j] = t[j - Len(s)]
    <3>1. i - Len(s) = j - Len(s)
      BY <2>2 DEF Distinct
    <3> QED
      BY <3>1, <1>2
  <2> QED
    BY <1>3, <1>4, <2>1, <2>2
<1>6. ToSet(u) = ToSet(s) \cup ToSet(t)
  <2>1. \A i \in DOMAIN u : u[i] \in ToSet(s) \cup ToSet(t)
    BY <1>3 DEF ToSet
  <2>2. \A i \in DOMAIN s : i \in DOMAIN u /\ u[i] = s[i]
    BY <1>1, <1>2
  <2>3. ASSUME NEW j \in DOMAIN t
        PROVE  j + Len(s) \in DOMAIN u /\ u[j + Len(s)] = t[j]
    <3>1. j + Len(s) \in DOMAIN u /\ ~(j + Len(s) <= Len(s)) /\ (j + Len(s)) - Len(s) = j
      BY <1>2
    <3> QED
      BY <3>1, <1>1, <1>2
  <2>4. ToSet(s) \cup ToSet(t) \subseteq ToSet(u)
    BY <2>2, <2>3 DEF ToSet
  <2> QED
    BY <2>1, <2>4 DEF ToSet
<1> QED
  BY <1>1, <1>5, <1>6 DEF u

(* A sequence cut in two: disjoint parts that make up the whole. *)
LEMMA SplitDistinct ==
    ASSUME NEW S, NEW s \in Seq(S), NEW k \in 0 .. Len(s), Distinct(s)
    PROVE  LET a == SubSeq(s, 1, k)
               b == SubSeq(s, k + 1, Len(s))
           IN  /\ a \in Seq(S) /\ Len(a) = k /\ Distinct(a)
               /\ b \in Seq(S) /\ Len(b) = Len(s) - k /\ Distinct(b)
               /\ ToSet(a) \cap ToSet(b) = {} /\ ToSet(a) \cup ToSet(b) = ToSet(s)
<1> DEFINE a == SubSeq(s, 1, k)
           b == SubSeq(s, k + 1, Len(s))
<1>1. a \in Seq(S) /\ Len(a) = k /\ \A i \in 1 .. k : a[i] = s[i]
  OBVIOUS
<1>2. /\ b \in Seq(S) /\ Len(b) = Len(s) - k
      /\ \A i \in 1 .. Len(s) - k : b[i] = s[k + i]
  OBVIOUS
<1> HIDE DEF a, b
<1>3. DOMAIN a = 1 .. k /\ DOMAIN b = 1 .. Len(s) - k /\ DOMAIN s = 1 .. Len(s) /\ Len(s) \in Nat
  BY <1>1, <1>2
<1>4. Distinct(a)
  BY <1>1, <1>3 DEF Distinct
<1>5. \A i \in DOMAIN b : k + i \in DOMAIN s /\ k + i \notin DOMAIN a
  BY <1>3
<1>6. Distinct(b)
  <2> SUFFICES ASSUME NEW i \in DOMAIN b, NEW j \in DOMAIN b, b[i] = b[j]
               PROVE  i = j
    BY DEF Distinct
  <2>1. k + i = k + j
    BY <1>2, <1>3, <1>5 DEF Distinct
  <2> QED
    BY <2>1, <1>3
<1>7. ToSet(a) \cap ToSet(b) = {}
  <2> SUFFICES ASSUME NEW i \in DOMAIN a, NEW j \in DOMAIN b, a[i] = b[j] PROVE FALSE
    BY DEF ToSet
  <2>1. s[i] = s[k + j] /\ i \in DOMAIN s
    BY <1>1, <1>2, <1>3
  <2> QED
    BY <2>1, <1>5 DEF Distinct
<1>8. ToSet(a) \cup ToSet(b) = ToSet(s)
  <2>1. ASSUME NEW i \in DOMAIN s PROVE s[i] \in ToSet(a) \cup ToSet(b)
    <3>1. CASE i \in 1 .. k
      BY <3>1, <1>1, <1>3 DEF ToSet
    <3>2. CASE i \notin 1 .. k
      <4>1. i - k \in DOMAIN b /\ k + (i - k) = i
        BY <3>2, <1>3
      <4>2. b[i - k] = s[i]
        BY <4>1, <1>2, <1>3
      <4> QED
        BY <4>1, <4>2 DEF ToSet
    <3> QED
      BY <3>1, <3>2
  <2>2. \A i \in DOMAIN a : i \in DOMAIN s /\ a[i] = s[i]
    BY <1>1, <1>3
  <2>3. \A i \in DOMAIN b : k + i \in DOMAIN s /\ b[i] = s[k + i]
    BY <1>2, <1>3, <1>5
  <2>4. ToSet(a) \cup ToSet(b) \subseteq ToSet(s)
    BY <2>2, <2>3 DEF ToSet
  <2> QED
    BY <2>1, <2>4 DEF ToSet
<1> QED
  BY <1>1, <1>2, <1>4, <1>6, <1>7, <1>8 DEF a, b

(* Cutting out one element keeps the order of the others. *)
LEMMA RemoveAtKeeps ==
    ASSUME NEW S, NEW s \in Seq(S), NEW i \in 1 .. Len(s)
    PROVE  /\ RemoveAt(s, i) \in Seq(S)
           /\ Len(RemoveAt(s, i)) = Len(s) - 1
           /\ \A j \in 1 .. Len(s) - 1 :
                RemoveAt(s, i)[j] = IF j < i THEN s[j] ELSE s[j + 1]
<1> DEFINE a == SubSeq(s, 1, i - 1)
           b == SubSeq(s, i + 1, Len(s))
<1>1. /\ a \in Seq(S) /\ Len(a) = i - 1 /\ \A j \in 1 .. i - 1 : a[j] = s[j]
  OBVIOUS
<1>2. /\ b \in Seq(S) /\ Len(b) = Len(s) - i
      /\ \A j \in 1 .. Len(s) - i : b[j] = s[j + i]
  OBVIOUS
<1> HIDE DEF a, b
<1>3. /\ a \o b \in Seq(S) /\ Len(a \o b) = Len(a) + Len(b)
      /\ \A j \in 1 .. Len(a) + Len(b) :
           (a \o b)[j] = IF j <= Len(a) THEN a[j] ELSE b[j - Len(a)]
  BY <1>1, <1>2, ConcatProperties
<1>4. RemoveAt(s, i) = a \o b
  BY DEF RemoveAt, a, b
<1>5. Len(a) + Len(b) = Len(s) - 1
  BY <1>1, <1>2
<1>6. ASSUME NEW j \in 1 .. Len(s) - 1
      PROVE  (a \o b)[j] = IF j < i THEN s[j] ELSE s[j + 1]
  <2>1. CASE j < i
    BY <2>1, <1>1, <1>3, <1>5
  <2>2. CASE ~(j < i)
    <3>1. (a \o b)[j] = b[j - Len(a)] /\ j - Len(a) \in 1 .. Len(s) - i
      BY <2>2, <1>1, <1>3, <1>5
    <3>2. (j - Len(a)) + i = j + 1
      BY <1>1
    <3> QED
      BY <2>2, <3>1, <3>2, <1>2
  <2> QED
    BY <2>1, <2>2
<1> QED
  BY <1>3, <1>4, <1>5, <1>6

LEMMA RemoveAtDistinct ==
    ASSUME NEW S, NEW s \in Seq(S), NEW i \in 1 .. Len(s), Distinct(s)
    PROVE  /\ RemoveAt(s, i) \in Seq(S) /\ Distinct(RemoveAt(s, i))
           /\ ToSet(RemoveAt(s, i)) = ToSet(s) \ {s[i]}
<1> DEFINE r == RemoveAt(s, i)
           at(n) == IF n < i THEN n ELSE n + 1
<1>1. /\ r \in Seq(S) /\ Len(r) = Len(s) - 1
      /\ \A j \in 1 .. Len(s) - 1 : r[j] = IF j < i THEN s[j] ELSE s[j + 1]
  BY RemoveAtKeeps
<1> HIDE DEF r
<1>2. DOMAIN r = 1 .. Len(s) - 1 /\ DOMAIN s = 1 .. Len(s) /\ Len(s) \in Nat
  BY <1>1
<1>3. \A j \in DOMAIN r : r[j] = s[at(j)] /\ at(j) \in DOMAIN s /\ at(j) # i
  BY <1>1, <1>2
<1>4. Distinct(r)
  <2> SUFFICES ASSUME NEW j \in DOMAIN r, NEW k \in DOMAIN r, r[j] = r[k]
               PROVE  j = k
    BY DEF Distinct
  <2>1. at(j) = at(k)
    <3> HIDE DEF at
    <3> QED
      BY <1>3 DEF Distinct
  <2> QED
    BY <2>1, <1>2
<1>5. ToSet(r) = ToSet(s) \ {s[i]}
  <2>1. ASSUME NEW j \in DOMAIN r PROVE r[j] \in ToSet(s) \ {s[i]}
    <3> HIDE DEF at
    <3> QED
      BY <1>3 DEF Distinct, ToSet
  <2>2. ASSUME NEW j \in DOMAIN s, s[j] # s[i] PROVE s[j] \in ToSet(r)
    <3>1. CASE j < i
      <4>1. j \in DOMAIN r /\ r[j] = s[j]
        BY <3>1, <1>1, <1>2
      <4> QED
        BY <4>1 DEF ToSet
    <3>2. CASE ~(j < i)
      <4>1. j - 1 \in DOMAIN r /\ ~(j - 1 < i) /\ (j - 1) + 1 = j
        BY <2>2, <3>2, <1>2
      <4>2. r[j - 1] = s[j]
        BY <4>1, <1>1, <1>2
      <4> QED
        BY <4>1, <4>2 DEF ToSet
    <3> QED
      BY <3>1, <3>2
  <2> QED
    BY <2>1, <2>2 DEF ToSet
<1> QED
  BY <1>1, <1>4, <1>5 DEF r

(* What happens at the end of the second part of a sequence happens at the *)
(* end of the whole; the first part is a prefix of it.                     *)
LEMMA ConcatAppend ==
    ASSUME NEW S, NEW s \in Seq(S), NEW t \in Seq(S), NEW e \in S
    PROVE  s \o Append(t, e) = Append(s \o t, e)
<1>1. <<e>> \in Seq(S) /\ s \o t \in Seq(S)
  BY ConcatProperties
<1>2. Append(t, e) = t \o <<e>> /\ Append(s \o t, e) = (s \o t) \o <<e>>
  BY <1>1, AppendIsConcat
<1> QED
  BY <1>1, <1>2, ConcatAssociative

LEMMA ConcatRemoveAt ==
    ASSUME NEW S, NEW s \in Seq(S), NEW t \in Seq(S), NEW i \in 1 .. Len(t)
    PROVE  /\ Len(s) + i \in 1 .. Len(s \o t)
           /\ (s \o t)[Len(s) + i] = t[i]
           /\ s \o RemoveAt(t, i) = RemoveAt(s \o t, Len(s) + i)
<1> DEFINE u == s \o t
           n == Len(s)
           r == RemoveAt(t, i)
           whole == RemoveAt(u, n + i)
           part == s \o r
<1>1. /\ u \in Seq(S) /\ Len(u) = n + Len(t)
      /\ \A j \in 1 .. n + Len(t) : u[j] = IF j <= n THEN s[j] ELSE t[j - n]
  BY ConcatProperties
<1>2. /\ r \in Seq(S) /\ Len(r) = Len(t) - 1
      /\ \A j \in 1 .. Len(t) - 1 : r[j] = IF j < i THEN t[j] ELSE t[j + 1]
  BY RemoveAtKeeps
<1> HIDE DEF u, r
<1>3. n + i \in 1 .. Len(u)
  BY <1>1
<1>4. /\ whole \in Seq(S) /\ Len(whole) = Len(u) - 1
      /\ \A j \in 1 .. Len(u) - 1 : whole[j] = IF j < n + i THEN u[j] ELSE u[j + 1]
  BY <1>1, <1>3, RemoveAtKeeps
<1>5. /\ part \in Seq(S) /\ Len(part) = n + Len(r)
      /\ \A j \in 1 .. n + Len(r) : part[j] = IF j <= n THEN s[j] ELSE r[j - n]
  BY <1>2, ConcatProperties
<1>6. n \in Nat /\ Len(t) \in Nat /\ Len(part) = Len(whole) /\ Len(part) = n + Len(t) - 1
  BY <1>1, <1>2, <1>4, <1>5
<1> HIDE DEF part, whole, n
<1>7. ASSUME NEW j \in 1 .. Len(part) PROVE part[j] = whole[j]
  <2>1. CASE j <= n
    <3>1. part[j] = s[j] /\ whole[j] = u[j] /\ u[j] = s[j]
      BY <2>1, <1>1, <1>2, <1>4, <1>5, <1>6
    <3> QED
      BY <3>1
  <2>2. CASE n < j /\ j < n + i
    <3>1. /\ j \in 1 .. n + Len(t) /\ ~(j <= n) /\ j \in 1 .. n + Len(r) /\ j \in 1 .. Len(u) - 1
          /\ j - n \in 1 .. Len(t) - 1 /\ j - n < i
      BY <2>2, <1>1, <1>2, <1>6
    <3>2. part[j] = r[j - n]
      BY <3>1, <1>5
    <3>3. r[j - n] = t[j - n]
      BY <3>1, <1>2
    <3>4. whole[j] = u[j]
      BY <3>1, <2>2, <1>4
    <3>5. u[j] = t[j - n]
      BY <3>1, <1>1
    <3> QED
      BY <3>2, <3>3, <3>4, <3>5
  <2>3. CASE n + i <= j
    <3>1. part[j] = r[j - n] /\ whole[j] = u[j + 1]
      BY <2>3, <1>1, <1>2, <1>4, <1>5, <1>6
    <3>2. j - n \in 1 .. Len(t) - 1 /\ ~(j - n < i) /\ j + 1 \in 1 .. n + Len(t) /\ ~(j + 1 <= n)
      BY <2>3, <1>6
    <3>3. r[j - n] = t[(j - n) + 1] /\ u[j + 1] = t[(j + 1) - n]
      BY <3>2, <1>1, <1>2
    <3>4. (j - n) + 1 = (j + 1) - n
      BY <1>6
    <3> QED
      BY <3>1, <3>3, <3>4
  <2> QED
    BY <2>1, <2>2, <2>3, <1>6
<1>8. part = whole
  BY <1>4, <1>5, <1>6, <1>7, SeqEqual
<1>9. u[n + i] = t[i]
  BY <1>1, <1>6, SMTT(20)
<1> QED
  BY <1>3, <1>8, <1>9 DEF part, whole, n, u, r

LEMMA ConcatPrefix ==
    ASSUME NEW S, NEW s \in Seq(S), NEW t \in Seq(S)
    PROVE  /\ SubSeq(s \o t, 1, Len(s)) = s
           /\ Len(s) \in 0 .. Len(s \o t)
           /\ \A i \in 1 .. Len(s) : (s \o t)[i] = s[i]
<1> DEFINE u == s \o t
           a == SubSeq(u, 1, Len(s))
<1>1. /\ u \in Seq(S) /\ Len(u) = Len(s) + Len(t)
      /\ \A i \in 1 .. Len(s) + Len(t) : u[i] = IF i <= Len(s) THEN s[i] ELSE t[i - Len(s)]
  BY ConcatProperties
<1> HIDE DEF u
<1>2. Len(s) \in Nat /\ Len(t) \in Nat
  OBVIOUS
<1>3. \A i \in 1 .. Len(s) : u[i] = s[i]
  BY <1>1, <1>2
<1>4. \A i \in 1 .. Len(s) : u[i] \in S
  BY <1>1, <1>2
<1>5. /\ a \in Seq(S) /\ Len(a) = Len(s)
      /\ \A i \in 1 .. Len(s) : a[i] = u[i]
  BY <1>1, <1>2, <1>4
<1>6. a = s
  <2> HIDE DEF a
  <2> QED
    BY <1>3, <1>5, SeqEqual
<1> QED
  BY <1>1, <1>2, <1>3, <1>6 DEF u

(* c comes before d. *)
Ahead(s, c, d) == \E i, j \in DOMAIN s : i < j /\ s[i] = c /\ s[j] = d

LEMMA AppendAhead ==
    ASSUME NEW S, NEW s \in Seq(S), NEW e \in S
    PROVE  /\ Append(s, e) \in Seq(S)
           /\ ToSet(Append(s, e)) = ToSet(s) \cup {e}
           /\ \A c, d : Ahead(Append(s, e), c, d) => Ahead(s, c, d) \/ (d = e /\ c \in ToSet(s))
<1> DEFINE a == Append(s, e)
<1>1. /\ a \in Seq(S) /\ DOMAIN a = 1 .. Len(s) + 1 /\ DOMAIN s = 1 .. Len(s)
      /\ \A i \in 1 .. Len(s) : a[i] = s[i]
      /\ a[Len(s) + 1] = e
  BY AppendProperties
<1> HIDE DEF a
<1>2. ToSet(a) = ToSet(s) \cup {e}
  BY <1>1 DEF ToSet
<1>3. ASSUME NEW i \in DOMAIN a, NEW j \in DOMAIN a, i < j
      PROVE  Ahead(s, a[i], a[j]) \/ (a[j] = e /\ a[i] \in ToSet(s))
  <2>1. i \in DOMAIN s /\ a[i] = s[i]
    BY <1>1, <1>3
  <2>2. CASE j \in DOMAIN s
    <3>1. a[j] = s[j]
      BY <1>1, <2>2
    <3> QED
      BY <1>3, <2>1, <2>2, <3>1 DEF Ahead
  <2>3. CASE j = Len(s) + 1
    BY <1>1, <2>1, <2>3 DEF ToSet
  <2> QED
    BY <1>1, <2>2, <2>3
<1>4. \A c, d : Ahead(a, c, d) => Ahead(s, c, d) \/ (d = e /\ c \in ToSet(s))
  BY <1>3 DEF Ahead
<1> QED
  BY <1>1, <1>2, <1>4 DEF a

(* What is cut out or cut off leaves the others in their order. *)
LEMMA RemoveAtAhead ==
    ASSUME NEW S, NEW s \in Seq(S), NEW i \in 1 .. Len(s)
    PROVE  /\ ToSet(RemoveAt(s, i)) \subseteq ToSet(s)
           /\ \A c, d : Ahead(RemoveAt(s, i), c, d) => Ahead(s, c, d)
<1> DEFINE r == RemoveAt(s, i)
           at(n) == IF n < i THEN n ELSE n + 1
<1>1. /\ r \in Seq(S) /\ Len(r) = Len(s) - 1
      /\ \A j \in 1 .. Len(s) - 1 : r[j] = IF j < i THEN s[j] ELSE s[j + 1]
  BY RemoveAtKeeps
<1> HIDE DEF r
<1>2. DOMAIN r = 1 .. Len(s) - 1 /\ DOMAIN s = 1 .. Len(s) /\ Len(s) \in Nat
  BY <1>1
<1>3. \A j \in DOMAIN r : r[j] = s[at(j)] /\ at(j) \in DOMAIN s
  BY <1>1, <1>2
<1>4. \A j, k \in DOMAIN r : j < k => at(j) < at(k)
  BY <1>2
<1> HIDE DEF at
<1>5. ToSet(r) \subseteq ToSet(s)
  BY <1>3 DEF ToSet
<1>6. \A c, d : Ahead(r, c, d) => Ahead(s, c, d)
  BY <1>3, <1>4 DEF Ahead
<1> QED
  BY <1>5, <1>6 DEF r

LEMMA PrefixAhead ==
    ASSUME NEW S, NEW s \in Seq(S), NEW k \in 0 .. Len(s)
    PROVE  /\ SubSeq(s, 1, k) \in Seq(S)
           /\ ToSet(SubSeq(s, 1, k)) \subseteq ToSet(s)
           /\ \A c, d : Ahead(SubSeq(s, 1, k), c, d) => Ahead(s, c, d)
<1> DEFINE a == SubSeq(s, 1, k)
<1>1. a \in Seq(S) /\ Len(a) = k /\ \A i \in 1 .. k : a[i] = s[i]
  OBVIOUS
<1> HIDE DEF a
<1>2. \A i \in DOMAIN a : i \in DOMAIN s /\ a[i] = s[i]
  BY <1>1
<1>3. ToSet(a) \subseteq ToSet(s)
  BY <1>2 DEF ToSet
<1>4. \A c, d : Ahead(a, c, d) => Ahead(s, c, d)
  BY <1>2 DEF Ahead
<1> QED
  BY <1>1, <1>3, <1>4 DEF a

(* The head comes before all the others. *)
LEMMA TailAhead ==
    ASSUME NEW S, NEW s \in Seq(S), s # <<>>
    PROVE  /\ Tail(s) \in Seq(S) /\ Head(s) \in ToSet(s)
           /\ ToSet(Tail(s)) \subseteq ToSet(s)
           /\ \A c, d : Ahead(Tail(s), c, d) => Ahead(s, c, d)
           /\ \A d \in ToSet(Tail(s)) : Ahead(s, Head(s), d)
<1> DEFINE t == Tail(s)
<1>1. t \in Seq(S) /\ Len(t) = Len(s) - 1 /\ \A i \in 1 .. Len(t) : t[i] = s[i + 1]
  BY HeadTailProperties
<1>2. Head(s) = s[1] /\ 1 \in DOMAIN s
  OBVIOUS
<1> HIDE DEF t
<1>3. \A i \in DOMAIN t : i + 1 \in DOMAIN s /\ t[i] = s[i + 1] /\ 1 < i + 1
  BY <1>1
<1>4. \A i, j \in DOMAIN t : i < j => i + 1 < j + 1
  BY <1>1
<1>5. ToSet(t) \subseteq ToSet(s) /\ Head(s) \in ToSet(s)
  BY <1>2, <1>3 DEF ToSet
<1>6. \A c, d : Ahead(t, c, d) => Ahead(s, c, d)
  BY <1>3, <1>4 DEF Ahead
<1>7. \A d \in ToSet(t) : Ahead(s, Head(s), d)
  BY <1>2, <1>3 DEF Ahead, ToSet
<1> QED
  BY <1>1, <1>5, <1>6, <1>7 DEF t

(* What nothing follows is last. *)
LEMMA LastOfAll ==
    ASSUME NEW S, NEW s \in Seq(S), NEW c \in ToSet(s), \A d \in S : ~Ahead(s, c, d)
    PROVE  Last(s) = c
<1>1. PICK i \in DOMAIN s : s[i] = c
  BY DEF ToSet
<1>2. Len(s) \in DOMAIN s /\ s[Len(s)] \in S /\ i <= Len(s)
  OBVIOUS
<1>3. ~(i < Len(s))
  BY <1>1, <1>2 DEF Ahead
<1> QED
  BY <1>1, <1>2, <1>3 DEF Last

-----------------------------------------------------------------------------
(* The inductive invariant. *)
Shape == TypeOK /\ NoLostWakeup /\ ParkedBehindFullBuffer

Place ==
    /\ Distinct(items) /\ Distinct(sendWaiters)
    /\ \A c \in Command :
        /\ c \in ToSet(sendWaiters) <=> ack[c] = "waiting"
        /\ c \in ToSet(items) => ack[c] = "sent" /\ delivered # c
        /\ delivered = c => ack[c] = "sent"

IInv == Shape /\ Place

(* Two sequences joined: the type and the length. *)
LEMMA ConcatType ==
    ASSUME NEW S, NEW s \in Seq(S), NEW t \in Seq(S)
    PROVE  s \o t \in Seq(S) /\ Len(s \o t) = Len(s) + Len(t)
BY ConcatProperties

(* send() keeps the shape whatever it finds. *)
LEMMA SendShape ==
    ASSUME NEW c \in Command, Shape, Send(c)
    PROVE  Shape'
<1> USE CapacityAssumption, AnswerAssumption DEF Shape, TypeOK, NoLostWakeup, ParkedBehindFullBuffer, ReceiverWaits
<1>1. CASE closed /\ Refuse(c)
  BY <1>1 DEF Refuse
<1>2. CASE ~closed /\ recvWaiter # "idle" /\ HandOver(c)
  BY <1>2 DEF HandOver
<1>3. CASE ~closed /\ recvWaiter = "idle" /\ Len(items) < Capacity /\ Enqueue(c)
  BY <1>3 DEF Enqueue
<1>4. CASE ~closed /\ recvWaiter = "idle" /\ ~(Len(items) < Capacity) /\ Wait(c)
  BY <1>4 DEF Wait
<1> QED
  BY <1>1, <1>2, <1>3, <1>4 DEF Send

(* trySend() keeps the shape. *)
LEMMA TrySendShape ==
    ASSUME NEW c \in Command, Shape, TrySend(c)
    PROVE  Shape'
<1> USE CapacityAssumption, AnswerAssumption DEF Shape, TypeOK, NoLostWakeup, ParkedBehindFullBuffer, ReceiverWaits
<1>1. CASE recvWaiter # "idle" /\ HandOver(c)
  BY <1>1 DEF HandOver, TrySend, CanTrySend
<1>2. CASE recvWaiter = "idle" /\ Enqueue(c)
  BY <1>2 DEF Enqueue, TrySend, CanTrySend
<1> QED
  BY <1>1, <1>2 DEF TrySend

(* An aborted sender leaves the buffer and the receiver as they were. *)
LEMMA AbortShape ==
    ASSUME NEW c \in Command, Shape, Abort(c)
    PROVE  Shape'
<1> USE CapacityAssumption, AnswerAssumption DEF Shape, TypeOK, NoLostWakeup, ParkedBehindFullBuffer
<1>1. PICK i \in DOMAIN sendWaiters : sendWaiters' = RemoveAt(sendWaiters, i)
  BY DEF Abort
<1>2. sendWaiters' \in Seq(Command)
  BY <1>1, RemoveAtKeeps
<1>3. sendWaiters # <<>>
  BY <1>1
<1> QED
  BY <1>2, <1>3 DEF Abort

(* receive() leaves no parked sender where there is room, and waits only   *)
(* when there is nothing to take.                                          *)
LEMMA ReceiveShape ==
    ASSUME NEW timed \in BOOLEAN, Shape, Receive(timed)
    PROVE  Shape'
<1> USE CapacityAssumption, AnswerAssumption DEF Shape, TypeOK, NoLostWakeup, ParkedBehindFullBuffer
<1>1. CASE items # <<>> /\ ReceiveBuffered
  <2> DEFINE k == Room(Len(items) - 1)
             moved == SubSeq(sendWaiters, 1, k)
             rest == SubSeq(sendWaiters, k + 1, Len(sendWaiters))
  <2>1. k \in 0 .. Len(sendWaiters) /\ k <= Capacity - (Len(items) - 1)
    BY <1>1 DEF Room
  <2>2. /\ moved \in Seq(Command) /\ Len(moved) = k
        /\ rest \in Seq(Command) /\ Len(rest) = Len(sendWaiters) - k
    <3>1. sendWaiters \in Seq(Command)
      OBVIOUS
    <3> HIDE DEF k
    <3>2. moved \in Seq(Command) /\ Len(moved) = k
      BY <2>1, <3>1
    <3>3. rest \in Seq(Command) /\ Len(rest) = Len(sendWaiters) - k
      BY <2>1, <3>1
    <3> QED
      BY <3>2, <3>3
  <2>3. Tail(items) \in Seq(Command) /\ Len(Tail(items)) = Len(items) - 1
    BY <1>1
  <2>4. /\ items' = Tail(items) \o moved /\ sendWaiters' = rest
        /\ delivered' = Head(items)
        /\ ack' = [c \in Command |-> IF c \in ToSet(moved) THEN "sent" ELSE ack[c]]
        /\ recvWaiter' = recvWaiter /\ closed' = closed
    BY ONLY <1>1, Zenon DEF ReceiveBuffered
  <2> HIDE DEF k, moved, rest
  <2>5. items' \in Seq(Command) /\ Len(items') = Len(items) - 1 + k
    <3>1. items' = Tail(items) \o moved
      BY <2>4
    <3>2. /\ Tail(items) \o moved \in Seq(Command)
          /\ Len(Tail(items) \o moved) = Len(Tail(items)) + Len(moved)
      <4> DEFINE t == Tail(items)
      <4>1. t \in Seq(Command) /\ moved \in Seq(Command)
        BY <2>2, <2>3, Zenon
      <4> HIDE DEF t
      <4>2. t \o moved \in Seq(Command) /\ Len(t \o moved) = Len(t) + Len(moved)
        BY <4>1, ConcatType
      <4> QED
        BY ONLY <4>2, Zenon DEF t
    <3> QED
      BY <3>1, <3>2, <2>2, <2>3, Zenon
  <2>6. TypeOK'
    BY <1>1, <2>2, <2>4, <2>5
  <2>7. NoLostWakeup'
    BY <2>4 DEF Receive
  <2>8. Len(items') <= Capacity
    BY <2>1, <2>5
  <2>9. rest # <<>> => Len(items') = Capacity /\ ~closed
    <3> SUFFICES ASSUME rest # <<>> PROVE Len(items') = Capacity /\ ~closed
      OBVIOUS
    <3>1. k < Len(sendWaiters)
      BY <2>1, <2>2
    <3>2. k = Capacity - (Len(items) - 1)
      BY <3>1, <1>1 DEF k, Room
    <3>3. ~closed
      BY <3>1, <2>1
    <3> QED
      BY <3>2, <3>3, <2>5
  <2> QED
    BY <2>4, <2>6, <2>7, <2>8, <2>9
<1>2. CASE items = <<>> /\ sendWaiters # <<>>
  BY <1>2
<1>3. CASE items = <<>> /\ sendWaiters = <<>> /\ closed /\ ReceiveClosed
  BY <1>3 DEF ReceiveClosed, Receive
<1>4. CASE items = <<>> /\ sendWaiters = <<>> /\ ~closed /\ ReceiveWaits(timed)
  BY <1>4 DEF ReceiveWaits, Receive
<1> QED
  BY <1>1, <1>2, <1>3, <1>4 DEF Receive

(* Closing answers everyone who waits. *)
LEMMA CloseShape ==
    ASSUME Shape, Close \/ CloseAndDrain
    PROVE  Shape'
<1> USE CapacityAssumption, AnswerAssumption DEF Shape, TypeOK, NoLostWakeup, ParkedBehindFullBuffer
<1>1. items' \in Seq(Command) /\ Len(items') <= Capacity /\ (items = <<>> => items' = <<>>)
  <2>1. CASE Close
    BY <2>1 DEF Close
  <2>2. CASE CloseAndDrain
    <3>1. items' = <<>> /\ Len(<<>>) = 0
      BY <2>2, EmptySeq DEF CloseAndDrain
    <3> QED
      BY <3>1
  <2> QED
    BY <2>1, <2>2
<1>2. CASE closed
  <2>1. UNCHANGED <<closed, sendWaiters, ack, recvWaiter, delivered>>
    BY <1>2 DEF Close, CloseAndDrain
  <2> QED
    BY <1>1, <1>2, <2>1
<1>3. CASE ~closed /\ CloseEffect
  <2>1. TypeOK'
    BY <1>1, <1>3 DEF CloseEffect
  <2>2. NoLostWakeup' /\ ParkedBehindFullBuffer'
    BY <1>1, <1>3 DEF CloseEffect
  <2> QED
    BY <2>1, <2>2
<1> QED
  BY <1>2, <1>3 DEF Close, CloseAndDrain

-----------------------------------------------------------------------------
(* A command is in one place, and its sender knows which. *)

(* A new command is nowhere. *)
LEMMA NewIsNowhere ==
    ASSUME NEW c \in Command, IInv, New(c)
    PROVE  c \notin ToSet(items) /\ c \notin ToSet(sendWaiters) /\ delivered # c
BY DEF IInv, Place, New

LEMMA HandOverPlace ==
    ASSUME NEW c \in Command, IInv, New(c), ReceiverWaits, HandOver(c)
    PROVE  Place'
BY NewIsNowhere, EmptyDistinct
   DEF HandOver, ReceiverWaits, IInv, Shape, TypeOK, NoLostWakeup, Place, New

LEMMA EnqueuePlace ==
    ASSUME NEW c \in Command, IInv, New(c), Enqueue(c)
    PROVE  Place'
<1>1. Distinct(items') /\ ToSet(items') = ToSet(items) \cup {c}
  BY NewIsNowhere, AppendDistinct DEF Enqueue, IInv, Shape, TypeOK, Place
<1> QED
  BY <1>1, NewIsNowhere DEF Enqueue, IInv, Shape, TypeOK, Place, New

LEMMA WaitPlace ==
    ASSUME NEW c \in Command, IInv, New(c), Wait(c)
    PROVE  Place'
<1>1. Distinct(sendWaiters') /\ ToSet(sendWaiters') = ToSet(sendWaiters) \cup {c}
  BY NewIsNowhere, AppendDistinct DEF Wait, IInv, Shape, TypeOK, Place
<1> QED
  BY <1>1, NewIsNowhere DEF Wait, IInv, Shape, TypeOK, Place, New

LEMMA SendPlace ==
    ASSUME NEW c \in Command, IInv, New(c), Send(c)
    PROVE  Place'
<1>1. CASE closed /\ Refuse(c)
  BY <1>1, NewIsNowhere DEF Refuse, IInv, Shape, TypeOK, Place, New
<1>2. CASE ReceiverWaits /\ HandOver(c)
  BY <1>2, HandOverPlace
<1>3. CASE Enqueue(c)
  BY <1>3, EnqueuePlace
<1>4. CASE Wait(c)
  BY <1>4, WaitPlace
<1> QED
  BY <1>1, <1>2, <1>3, <1>4 DEF Send

LEMMA AbortPlace ==
    ASSUME NEW c \in Command, IInv, Abort(c)
    PROVE  Place'
<1>1. PICK i \in DOMAIN sendWaiters :
        sendWaiters[i] = c /\ sendWaiters' = RemoveAt(sendWaiters, i)
  BY DEF Abort
<1>2. sendWaiters \in Seq(Command) /\ i \in 1 .. Len(sendWaiters) /\ Distinct(sendWaiters)
  BY DEF IInv, Shape, TypeOK, Place
<1>3. Distinct(sendWaiters') /\ ToSet(sendWaiters') = ToSet(sendWaiters) \ {c}
  BY <1>1, <1>2, RemoveAtDistinct
<1>4. c \in ToSet(sendWaiters)
  BY <1>1 DEF ToSet
<1> QED
  BY <1>3, <1>4 DEF Abort, IInv, Shape, TypeOK, Place

LEMMA ReceiveBufferedPlace ==
    ASSUME IInv, items # <<>>, delivered = NONE, ReceiveBuffered
    PROVE  Place'
<1> DEFINE k == Room(Len(items) - 1)
           moved == SubSeq(sendWaiters, 1, k)
           rest == SubSeq(sendWaiters, k + 1, Len(sendWaiters))
<1>1. k \in 0 .. Len(sendWaiters)
  BY CapacityAssumption DEF IInv, Shape, TypeOK, ParkedBehindFullBuffer, Room
<1>2. /\ items \in Seq(Command) /\ sendWaiters \in Seq(Command)
      /\ Distinct(items) /\ Distinct(sendWaiters)
  BY DEF IInv, Shape, TypeOK, Place
<1>3. /\ items' = Tail(items) \o moved /\ sendWaiters' = rest
      /\ delivered' = Head(items)
      /\ ack' = [c \in Command |-> IF c \in ToSet(moved) THEN "sent" ELSE ack[c]]
  BY DEF ReceiveBuffered
<1> HIDE DEF k
<1>4. /\ moved \in Seq(Command) /\ Distinct(moved) /\ Distinct(rest)
      /\ ToSet(moved) \cap ToSet(rest) = {}
      /\ ToSet(moved) \cup ToSet(rest) = ToSet(sendWaiters)
  BY <1>1, <1>2, SplitDistinct
<1> HIDE DEF moved, rest
<1>5. /\ Head(items) \in Command /\ Tail(items) \in Seq(Command) /\ Distinct(Tail(items))
      /\ Head(items) \notin ToSet(Tail(items))
      /\ ToSet(items) = {Head(items)} \cup ToSet(Tail(items))
  BY <1>2, HeadTailDistinct
<1>6. \A c \in Command : /\ c \in ToSet(sendWaiters) <=> ack[c] = "waiting"
                         /\ c \in ToSet(items) => ack[c] = "sent"
  BY DEF IInv, Place
<1>7. ToSet(sendWaiters) \subseteq Command /\ ToSet(items) \subseteq Command
  BY <1>2 DEF ToSet
<1>8. ToSet(items) \cap ToSet(sendWaiters) = {}
  BY <1>6, <1>7
<1>9. /\ Distinct(items') /\ ToSet(items') = ToSet(Tail(items)) \cup ToSet(moved)
  <2>1. ToSet(Tail(items)) \cap ToSet(moved) = {}
    BY <1>4, <1>5, <1>8
  <2>2. /\ Distinct(Tail(items) \o moved)
        /\ ToSet(Tail(items) \o moved) = ToSet(Tail(items)) \cup ToSet(moved)
    <3> DEFINE t == Tail(items)
    <3>1. t \in Seq(Command) /\ Distinct(t) /\ ToSet(t) \cap ToSet(moved) = {}
      BY <1>5, <2>1
    <3> HIDE DEF t
    <3>2. Distinct(t \o moved) /\ ToSet(t \o moved) = ToSet(t) \cup ToSet(moved)
      BY <1>4, <3>1, ConcatDistinct
    <3> QED
      BY <3>2 DEF t
  <2> QED
    BY <1>3, <2>2
<1>10. ASSUME NEW c \in Command
       PROVE  /\ c \in ToSet(sendWaiters') <=> ack'[c] = "waiting"
              /\ c \in ToSet(items') => ack'[c] = "sent" /\ delivered' # c
              /\ delivered' = c => ack'[c] = "sent"
  <2>1. ack'[c] = IF c \in ToSet(moved) THEN "sent" ELSE ack[c]
    BY <1>3
  <2>2. c \in ToSet(rest) <=> ack'[c] = "waiting"
    BY <2>1, <1>4, <1>6
  <2>3. c \in ToSet(items') => ack'[c] = "sent"
    BY <2>1, <1>5, <1>6, <1>9
  <2>4. Head(items) \notin ToSet(items')
    BY <1>4, <1>5, <1>8, <1>9
  <2>5. ack'[Head(items)] = "sent"
    BY <1>3, <1>5, <1>6
  <2> QED
    BY <2>2, <2>3, <2>4, <2>5, <1>3
<1> QED
  BY <1>3, <1>4, <1>9, <1>10 DEF Place

LEMMA ReceivePlace ==
    ASSUME NEW timed \in BOOLEAN, IInv, Receive(timed)
    PROVE  Place'
<1>1. CASE items # <<>>
  BY <1>1, ReceiveBufferedPlace DEF Receive
<1>2. CASE items = <<>> /\ sendWaiters # <<>>
  BY <1>2, EmptySeq, CapacityAssumption DEF IInv, Shape, ParkedBehindFullBuffer
<1>3. CASE items = <<>> /\ sendWaiters = <<>>
  BY <1>3, AnswerAssumption
     DEF Receive, ReceiveClosed, ReceiveWaits, IInv, Shape, TypeOK, Place
<1> QED
  BY <1>1, <1>2, <1>3

LEMMA ClosePlace ==
    ASSUME IInv, Close \/ CloseAndDrain
    PROVE  Place'
<1>1. Distinct(items') /\ ToSet(items') \subseteq ToSet(items)
  BY EmptyDistinct DEF Close, CloseAndDrain, IInv, Place
<1>2. CASE closed
  BY <1>1, <1>2 DEF Close, CloseAndDrain, IInv, Place
<1>3. CASE ~closed /\ CloseEffect
  <2>1. /\ Distinct(sendWaiters') /\ ToSet(sendWaiters') = {}
        /\ ack' = [c \in Command |-> IF c \in ToSet(sendWaiters) THEN "refused" ELSE ack[c]]
        /\ delivered' \in {delivered, CLOSED}
    BY <1>3, EmptyDistinct DEF CloseEffect
  <2>2. CLOSED \notin Command
    BY AnswerAssumption
  <2>3. ASSUME NEW c \in Command
        PROVE  /\ c \in ToSet(sendWaiters') <=> ack'[c] = "waiting"
               /\ c \in ToSet(items') => ack'[c] = "sent" /\ delivered' # c
               /\ delivered' = c => ack'[c] = "sent"
    BY <1>1, <2>1, <2>2 DEF IInv, Shape, TypeOK, Place
  <2> QED
    BY <1>1, <2>1, <2>3 DEF Place
<1> QED
  BY <1>2, <1>3 DEF Close, CloseAndDrain

(* Every step of the queue keeps the inductive invariant. *)
LEMMA NextInvariant ==
    ASSUME IInv, [Next]_queueVars
    PROVE  IInv'
<1>1. CASE \E c \in Command : New(c) /\ (Send(c) \/ TrySend(c))
  <2> SUFFICES ASSUME NEW c \in Command, New(c), Send(c) \/ TrySend(c)
               PROVE  IInv'
    BY <1>1
  <2>1. CASE Send(c)
    BY <2>1, SendShape, SendPlace DEF IInv
  <2>2. CASE TrySend(c)
    BY <2>2, TrySendShape, HandOverPlace, EnqueuePlace DEF IInv, TrySend
  <2> QED
    BY <2>1, <2>2
<1>2. CASE \E c \in Command : Abort(c)
  BY <1>2, AbortShape, AbortPlace DEF IInv
<1>3. CASE Receive(TRUE) \/ Receive(FALSE)
  BY <1>3, ReceiveShape, ReceivePlace DEF IInv
<1>4. CASE Consume
  BY <1>4, AnswerAssumption
     DEF Consume, IInv, Shape, TypeOK, NoLostWakeup, ParkedBehindFullBuffer, Place
<1>5. CASE Timeout
  BY <1>5, AnswerAssumption
     DEF Timeout, IInv, Shape, TypeOK, NoLostWakeup, ParkedBehindFullBuffer, Place
<1>6. CASE Close \/ CloseAndDrain
  BY <1>6, CloseShape, ClosePlace DEF IInv
<1>7. CASE UNCHANGED queueVars
  BY <1>7 DEF queueVars, IInv, Shape, TypeOK, NoLostWakeup, ParkedBehindFullBuffer, Place
<1> QED
  BY <1>1, <1>2, <1>3, <1>4, <1>5, <1>6, <1>7 DEF Next, Worker

LEMMA InitInvariant == Init => IInv
<1>1. <<>> \in Seq(Command) /\ Len(<<>>) = 0
  BY EmptySeq
<1>2. 0 <= Capacity
  BY CapacityAssumption
<1>3. Init => Shape
  BY <1>1, <1>2 DEF Init, Shape, TypeOK, NoLostWakeup, ParkedBehindFullBuffer
<1>4. Init => Place
  BY EmptyDistinct, AnswerAssumption DEF Init, Place
<1> QED
  BY <1>3, <1>4 DEF IInv

(* The inductive invariant holds in every behaviour of the queue. *)
THEOREM Invariance == Spec => []IInv
BY InitInvariant, NextInvariant, PTL DEF Spec

(* The queue's variables keep their types. *)
THEOREM TypeCorrect == Spec => []TypeOK
BY Invariance, PTL DEF IInv, Shape

(* receive() never sleeps on a command, buffered or parked, nor on a       *)
(* closed queue: the wake-ups of send(), trySend() and close() suffice.    *)
THEOREM NoWakeupIsLost == Spec => []NoLostWakeup
BY Invariance, PTL DEF IInv, Shape

(* The buffer stays within capacity, and a sender is parked only behind a  *)
(* full buffer of an open queue.                                           *)
THEOREM ParkedOnlyBehindFullBuffer == Spec => []ParkedBehindFullBuffer
BY Invariance, PTL DEF IInv, Shape

(* A step that does not offer c leaves a new c new: the queue answers only *)
(* commands it was given.                                                  *)
QuietFor(c) ==
    \/ \E d \in Command \ {c} : New(d) /\ (Send(d) \/ TrySend(d))
    \/ \E d \in Command : Abort(d)
    \/ Worker \/ Timeout \/ Close \/ CloseAndDrain
    \/ UNCHANGED queueVars

LEMMA NewStaysNew ==
    ASSUME IInv, NEW c \in Command, New(c), QuietFor(c)
    PROVE  New(c)'
<1> USE DEF New
<1>1. ack \in [Command -> {"none", "waiting", "sent", "refused"}] /\ sendWaiters \in Seq(Command)
  BY DEF IInv, Shape, TypeOK
<1>2. c \notin ToSet(sendWaiters)
  BY DEF IInv, Place
<1>3. ASSUME NEW d \in Command \ {c}, Send(d) \/ TrySend(d) PROVE ack'[c] = "none"
  BY <1>1, <1>3 DEF Send, TrySend, Refuse, HandOver, Enqueue, Wait
<1>4. ASSUME NEW d \in Command, Abort(d) PROVE ack'[c] = "none"
  <2>1. d \in ToSet(sendWaiters)
    BY <1>4 DEF Abort, ToSet
  <2> QED
    BY <1>1, <1>2, <1>4, <2>1 DEF Abort
<1>5. CASE Worker
  <2>1. ASSUME NEW k \in 0 .. Len(sendWaiters), c \in ToSet(SubSeq(sendWaiters, 1, k))
        PROVE  FALSE
    BY <1>1, <1>2, <2>1, SplitDistinct DEF IInv, Place
  <2>2. CASE items # <<>> /\ ReceiveBuffered
    <3>1. Room(Len(items) - 1) \in 0 .. Len(sendWaiters)
      BY <2>2, CapacityAssumption DEF IInv, Shape, TypeOK, ParkedBehindFullBuffer, Room
    <3> QED
      BY <1>1, <2>1, <2>2, <3>1 DEF ReceiveBuffered
  <2>3. CASE sendWaiters # <<>> /\ ReceiveParked
    <3>1. Head(sendWaiters) \in ToSet(sendWaiters)
      BY <1>1, <2>3 DEF ToSet
    <3> QED
      BY <1>1, <1>2, <2>3, <3>1 DEF ReceiveParked
  <2>4. CASE UNCHANGED ack
    BY <2>4
  <2> QED
    BY <1>5, <2>2, <2>3, <2>4 DEF Worker, Receive, Consume, ReceiveClosed, ReceiveWaits
<1>6. CASE Close \/ CloseAndDrain
  BY <1>1, <1>2, <1>6 DEF Close, CloseAndDrain, CloseEffect
<1>7. CASE Timeout \/ UNCHANGED queueVars
  BY <1>7 DEF Timeout, queueVars
<1> QED
  BY <1>3, <1>4, <1>5, <1>6, <1>7 DEF QuietFor

(* A command is buffered or parked at most once, and its sender's ack says *)
(* which: nobody is told "sent" or "refused" of a command still parked.    *)
THEOREM SendersKnow == Spec => []AckMatchesPlace
<1>1. IInv => AckMatchesPlace
  <2> SUFFICES ASSUME IInv PROVE AckMatchesPlace
    OBVIOUS
  <2>1. /\ items \in Seq(Command) /\ sendWaiters \in Seq(Command)
        /\ Distinct(items) /\ Distinct(sendWaiters)
    BY DEF IInv, Shape, TypeOK, Place
  <2>2. ToSet(items) \cap ToSet(sendWaiters) = {}
    <3>1. ToSet(items) \subseteq Command
      BY <2>1 DEF ToSet
    <3> QED
      BY <3>1 DEF IInv, Place
  <2>3. Distinct(items \o sendWaiters)
    BY <2>1, <2>2, ConcatDistinct
  <2> QED
    BY <2>3 DEF AckMatchesPlace, IsInjective, Distinct, IInv, Place
<1> QED
  BY <1>1, Invariance, PTL
-----------------------------------------------------------------------------
(* What each call does to the commands on their way, as a sequence, and to *)
(* those that have left: taken by the receiver, or drained.                *)
Handed == IF delivered \in Command THEN <<delivered>> ELSE <<>>

Gone == {c \in Command : ack[c] = "sent" /\ c \notin ToSet(items) /\ delivered # c}

LEMMA PendingParts ==
    ASSUME IInv
    PROVE  /\ Handed \in Seq(Command) /\ items \in Seq(Command)
           /\ sendWaiters \in Seq(Command) /\ Handed \o items \in Seq(Command)
           /\ Pending = (Handed \o items) \o sendWaiters
           /\ Pending \in Seq(Command) /\ Distinct(Pending)
           /\ \A c \in Command :
                c \in ToSet(Pending) <=> ack[c] = "waiting" \/ (ack[c] = "sent" /\ c \notin Gone)
<1>1. /\ items \in Seq(Command) /\ sendWaiters \in Seq(Command)
      /\ Distinct(items) /\ Distinct(sendWaiters)
      /\ ack \in [Command -> {"none", "waiting", "sent", "refused"}]
  BY DEF IInv, Shape, TypeOK, Place
<1>2. \A c \in Command :
        /\ c \in ToSet(sendWaiters) <=> ack[c] = "waiting"
        /\ c \in ToSet(items) => ack[c] = "sent" /\ delivered # c
        /\ delivered = c => ack[c] = "sent"
  BY DEF IInv, Place
<1>3. /\ Handed \in Seq(Command) /\ Distinct(Handed)
      /\ ToSet(Handed) = {delivered} \cap Command
  <2>1. CASE delivered \in Command
    BY <2>1 DEF Handed, Distinct, ToSet
  <2>2. CASE delivered \notin Command
    BY <2>2, EmptyDistinct DEF Handed
  <2> QED
    BY <2>1, <2>2
<1>4. ToSet(items) \subseteq Command /\ ToSet(sendWaiters) \subseteq Command
  BY <1>1 DEF ToSet
<1> DEFINE front == Handed \o items
<1>5. /\ front \in Seq(Command) /\ Distinct(front)
      /\ ToSet(front) = ToSet(Handed) \cup ToSet(items)
  <2>1. ToSet(Handed) \cap ToSet(items) = {}
    BY <1>2, <1>3, <1>4
  <2> QED
    BY <1>1, <1>3, <2>1, ConcatDistinct
<1> HIDE DEF front
<1>6. ToSet(front) \cap ToSet(sendWaiters) = {}
  BY <1>2, <1>3, <1>4, <1>5
<1>7. /\ front \o sendWaiters \in Seq(Command) /\ Distinct(front \o sendWaiters)
      /\ ToSet(front \o sendWaiters) = ToSet(front) \cup ToSet(sendWaiters)
  BY <1>1, <1>5, <1>6, ConcatDistinct
<1>8. Pending = front \o sendWaiters
  BY DEF Pending, Handed, front
<1>9. ASSUME NEW c \in Command
      PROVE  c \in ToSet(Pending) <=> ack[c] = "waiting" \/ (ack[c] = "sent" /\ c \notin Gone)
  BY <1>2, <1>3, <1>5, <1>7, <1>8, <1>9 DEF Gone
<1> QED
  BY <1>1, <1>3, <1>5, <1>7, <1>8, <1>9 DEF front

LEMMA OfferEffect ==
    ASSUME NEW c \in Command, IInv, New(c), Send(c) \/ TrySend(c)
    PROVE  /\ Gone' = Gone /\ closed' = closed
           /\ ack'[c] # "none" /\ \A d \in Command \ {c} : ack'[d] = ack[d]
           /\ ack'[c] = "refused" <=> closed
           /\ ack'[c] \in {"waiting", "sent", "refused"}
           /\ closed => UNCHANGED <<items, Pending>>
           /\ ~closed => Pending' = Append(Pending, c)
           /\ recvWaiter = "idle" => UNCHANGED <<recvWaiter, delivered>>
<1> DEFINE front == Handed \o items
<1>1. /\ Handed \in Seq(Command) /\ items \in Seq(Command) /\ sendWaiters \in Seq(Command)
      /\ front \in Seq(Command) /\ Pending = front \o sendWaiters
  BY PendingParts
<1>2. Pending' = (Handed' \o items') \o sendWaiters'
  BY DEF Pending, Handed
<1>3. ack \in [Command -> {"none", "waiting", "sent", "refused"}] /\ ack[c] = "none"
  BY DEF IInv, Shape, TypeOK, New
<1>4. ASSUME ack' = [ack EXCEPT ![c] = "sent"], ~closed, UNCHANGED closed,
             \/ items' = Append(items, c) /\ delivered' = delivered
             \/ items' = items /\ delivered' = c /\ delivered = NONE
      PROVE  Gone' = Gone
  <2>1. ToSet(Append(items, c)) = ToSet(items) \cup {c}
    BY <1>1, AppendAhead
  <2>2. NONE \notin Command
    BY AnswerAssumption
  <2> QED
    BY <1>3, <1>4, <2>1, <2>2 DEF Gone
<1>5. CASE closed /\ Refuse(c)
  <2>1. UNCHANGED <<items, sendWaiters, recvWaiter, delivered, closed>>
        /\ ack' = [ack EXCEPT ![c] = "refused"]
    BY <1>5 DEF Refuse
  <2>2. Gone' = Gone
    BY <1>3, <2>1 DEF Gone
  <2>3. UNCHANGED <<items, Pending>>
    BY <2>1 DEF Pending
  <2> QED
    BY <1>3, <1>5, <2>1, <2>2, <2>3
<1>6. CASE ~closed /\ ReceiverWaits /\ HandOver(c)
  <2>1. /\ UNCHANGED <<items, sendWaiters, closed>> /\ delivered' = c
        /\ ack' = [ack EXCEPT ![c] = "sent"]
        /\ items = <<>> /\ sendWaiters = <<>> /\ delivered = NONE /\ recvWaiter # "idle"
    BY <1>6 DEF HandOver, ReceiverWaits, IInv, Shape, NoLostWakeup
  <2>2. Gone' = Gone
    BY <1>4, <1>6, <2>1
  <2>3. Handed = <<>> /\ Handed' = <<c>>
    BY <2>1, AnswerAssumption DEF Handed
  <2>4. Pending = <<>> /\ Pending' = <<c>>
    <3>1. <<>> \in Seq(Command) /\ <<c>> \in Seq(Command)
      OBVIOUS
    <3>2. /\ (<<>> \o <<>>) \o <<>> = <<>>
          /\ (<<c>> \o <<>>) \o <<>> = <<c>>
      BY <3>1, ConcatEmptySeq
    <3> QED
      BY <1>1, <1>2, <2>1, <2>3, <3>2
  <2>5. Pending' = Append(Pending, c)
    BY <2>4
  <2> QED
    BY <1>3, <1>6, <2>1, <2>2, <2>5
<1>7. CASE ~closed /\ ~ReceiverWaits /\ sendWaiters = <<>> /\ Enqueue(c)
  <2>1. /\ UNCHANGED <<sendWaiters, recvWaiter, delivered, closed>>
        /\ items' = Append(items, c) /\ ack' = [ack EXCEPT ![c] = "sent"]
    BY <1>7 DEF Enqueue
  <2>2. Gone' = Gone
    BY <1>4, <1>7, <2>1
  <2>3. Handed' = Handed
    BY <2>1 DEF Handed
  <2>4. Pending' = Append(Pending, c)
    <3>1. front \o <<>> = front
      BY <1>1, ConcatEmptySeq
    <3>2. Handed \o Append(items, c) = Append(front, c)
      BY <1>1, ConcatAppend
    <3>3. Append(front, c) \o <<>> = Append(front, c)
      BY <1>1, AppendProperties, ConcatEmptySeq
    <3> QED
      BY <1>1, <1>2, <1>7, <2>1, <2>3, <3>1, <3>2, <3>3
  <2> QED
    BY <1>3, <1>7, <2>1, <2>2, <2>4
<1>8. CASE ~closed /\ ~ReceiverWaits /\ Wait(c)
  <2>1. /\ UNCHANGED <<items, recvWaiter, delivered, closed>>
        /\ sendWaiters' = Append(sendWaiters, c) /\ ack' = [ack EXCEPT ![c] = "waiting"]
    BY <1>8 DEF Wait
  <2>2. Gone' = Gone
    BY <1>3, <2>1 DEF Gone
  <2>3. Handed' = Handed
    BY <2>1 DEF Handed
  <2>4. Pending' = Append(Pending, c)
    <3>1. front \o Append(sendWaiters, c) = Append(front \o sendWaiters, c)
      BY <1>1, ConcatAppend
    <3> QED
      BY <1>1, <1>2, <2>1, <2>3, <3>1
  <2> QED
    BY <1>3, <1>8, <2>1, <2>2, <2>4
<1> HIDE DEF front
<1>9. Len(items) < Capacity => sendWaiters = <<>>
  BY <1>1, CapacityAssumption DEF IInv, Shape, ParkedBehindFullBuffer
<1>10. CASE Send(c)
  BY <1>5, <1>6, <1>7, <1>8, <1>9, <1>10 DEF Send
<1>11. CASE TrySend(c)
  BY <1>6, <1>7, <1>11 DEF TrySend, CanTrySend
<1> QED
  BY <1>10, <1>11

(* trySend() is told at once. *)
LEMMA TrySendSent ==
    ASSUME NEW c \in Command, IInv, TrySend(c)
    PROVE  ack'[c] = "sent" /\ ~closed
BY DEF TrySend, CanTrySend, HandOver, Enqueue, IInv, Shape, TypeOK

LEMMA AbortEffect ==
    ASSUME NEW c \in Command, IInv, Abort(c)
    PROVE  /\ Gone' = Gone /\ UNCHANGED <<closed, recvWaiter, delivered, items>>
           /\ ack[c] = "waiting" /\ ack' = [ack EXCEPT ![c] = "refused"]
           /\ \E i \in DOMAIN Pending : Pending[i] = c /\ Pending' = RemoveAt(Pending, i)
<1> DEFINE front == Handed \o items
<1>1. /\ sendWaiters \in Seq(Command) /\ front \in Seq(Command)
      /\ Pending = front \o sendWaiters /\ Pending \in Seq(Command)
  BY PendingParts
<1>2. /\ UNCHANGED <<closed, recvWaiter, delivered, items>>
      /\ ack' = [ack EXCEPT ![c] = "refused"]
  BY DEF Abort
<1>3. PICK i \in DOMAIN sendWaiters :
        sendWaiters[i] = c /\ sendWaiters' = RemoveAt(sendWaiters, i)
  BY DEF Abort
<1>4. ack[c] = "waiting" /\ ack \in [Command -> {"none", "waiting", "sent", "refused"}]
  BY <1>3 DEF IInv, Place, Shape, TypeOK, ToSet
<1>5. Gone' = Gone
  BY <1>2, <1>4 DEF Gone
<1>6. Pending' = front \o sendWaiters'
  BY <1>2 DEF Pending, Handed
<1> HIDE DEF front
<1>7. i \in 1 .. Len(sendWaiters)
  BY <1>1
<1>8. /\ Len(front) + i \in 1 .. Len(Pending)
      /\ Pending[Len(front) + i] = c
      /\ Pending' = RemoveAt(Pending, Len(front) + i)
  <2> DEFINE parked == sendWaiters
  <2>1. front \in Seq(Command) /\ parked \in Seq(Command) /\ i \in 1 .. Len(parked)
    BY <1>1, <1>7
  <2> HIDE DEF parked
  <2>2. /\ Len(front) + i \in 1 .. Len(front \o parked)
        /\ (front \o parked)[Len(front) + i] = parked[i]
        /\ front \o RemoveAt(parked, i) = RemoveAt(front \o parked, Len(front) + i)
    BY ONLY <2>1, ConcatRemoveAt
  <2>3. Pending = front \o parked /\ Pending' = front \o RemoveAt(parked, i) /\ parked[i] = c
    BY <1>1, <1>3, <1>6 DEF parked
  <2> QED
    BY ONLY <2>2, <2>3
<1>9. DOMAIN Pending = 1 .. Len(Pending)
  BY <1>1
<1> QED
  BY <1>2, <1>4, <1>5, <1>8, <1>9

(* Commands whose sender was told "sent". *)
Sent == {c \in Command : ack[c] = "sent"}

LEMMA ReceiveEffect ==
    ASSUME NEW timed \in BOOLEAN, IInv, Receive(timed)
    PROVE  /\ Gone' = Gone /\ UNCHANGED <<closed, Pending>>
           /\ \A c \in Command : ack'[c] = ack[c] \/ (ack[c] = "waiting" /\ ack'[c] = "sent")
           /\ \E k \in 0 .. Len(Pending) : Sent' = Sent \cup {Pending[i] : i \in 1 .. k}
<1> DEFINE front == Handed \o items
<1>1. /\ items \in Seq(Command) /\ sendWaiters \in Seq(Command)
      /\ Pending = front \o sendWaiters /\ Pending \in Seq(Command)
  BY PendingParts
<1>2. recvWaiter = "idle" /\ delivered = NONE /\ NONE \notin Command
  BY AnswerAssumption DEF Receive
<1>3. Handed = <<>> /\ front = items
  BY <1>1, <1>2, ConcatEmptySeq DEF Handed
<1> HIDE DEF front
<1>4. ack \in [Command -> {"none", "waiting", "sent", "refused"}]
  BY DEF IInv, Shape, TypeOK
<1>5. CASE items # <<>> /\ ReceiveBuffered
  <2> DEFINE k == Room(Len(items) - 1)
             moved == SubSeq(sendWaiters, 1, k)
             rest == SubSeq(sendWaiters, k + 1, Len(sendWaiters))
             h == Head(items)
             t == Tail(items)
  <2>1. k \in 0 .. Len(sendWaiters)
    BY CapacityAssumption DEF IInv, Shape, TypeOK, ParkedBehindFullBuffer, Room
  <2>2. /\ items' = t \o moved /\ sendWaiters' = rest /\ delivered' = h
        /\ ack' = [c \in Command |-> IF c \in ToSet(moved) THEN "sent" ELSE ack[c]]
        /\ UNCHANGED closed
    BY <1>5 DEF ReceiveBuffered
  <2> HIDE DEF k
  <2>3. /\ moved \in Seq(Command) /\ rest \in Seq(Command) /\ Len(moved) = k
        /\ \A i \in 1 .. k : moved[i] = sendWaiters[i]
    BY <1>1, <2>1
  <2>4. moved \o rest = sendWaiters
    <3>1. 1 \in 1 .. Len(sendWaiters) + 1 /\ k \in 1 - 1 .. Len(sendWaiters)
          /\ Len(sendWaiters) \in k .. Len(sendWaiters)
      BY <1>1, <2>1
    <3>2. SubSeq(sendWaiters, 1, k) \o SubSeq(sendWaiters, k + 1, Len(sendWaiters))
            = SubSeq(sendWaiters, 1, Len(sendWaiters))
      BY <1>1, <3>1, ConcatAdjacentSubSeq
    <3>3. SubSeq(sendWaiters, 1, Len(sendWaiters)) = sendWaiters
      BY <1>1, SubSeqFull
    <3> QED
      BY <3>2, <3>3
  <2>5. ToSet(moved) \subseteq ToSet(sendWaiters)
    BY <1>1, <2>1, PrefixAhead
  <2> HIDE DEF moved, rest
  <2>6. h \in Command /\ t \in Seq(Command) /\ items = <<h>> \o t
    <3>1. h \in Command /\ t \in Seq(Command) /\ h = items[1] /\ 1 \in 1 .. Len(items)
          /\ Len(items) \in 1 .. Len(items)
      BY <1>1, <1>5
    <3>2. SubSeq(items, 1, Len(items)) = <<items[1]>> \o SubSeq(items, 2, Len(items))
      BY <1>1, <3>1, SubSeqRecursiveFirst
    <3>3. t = SubSeq(items, 2, Len(items))
      BY <1>1, <1>5, TailIsSubSeq
    <3>4. SubSeq(items, 1, Len(items)) = items
      BY <1>1, SubSeqFull
    <3> QED
      BY <3>1, <3>2, <3>3, <3>4
  <2>7. /\ h \notin ToSet(t) /\ ToSet(items) = {h} \cup ToSet(t)
    BY <1>1, <1>5, HeadTailDistinct DEF IInv, Place
  <2> HIDE DEF h, t
  <2>8. <<h>> \in Seq(Command) /\ t \o moved \in Seq(Command)
    BY <2>3, <2>6, ConcatProperties
  <2>9. Pending' = Pending
    <3>1. Pending' = (<<h>> \o (t \o moved)) \o rest
      BY <2>2, <2>6 DEF Pending
    <3>2. <<h>> \o (t \o moved) = items \o moved
      <4>1. <<h>> \in Seq(Command) /\ t \in Seq(Command) /\ moved \in Seq(Command)
        BY <2>3, <2>6, <2>8
      <4>2. (<<h>> \o t) \o moved = <<h>> \o (t \o moved)
        BY ONLY <4>1, ConcatAssociative
      <4> QED
        BY ONLY <4>2, <2>6
    <3>3. (items \o moved) \o rest = items \o (moved \o rest)
      <4>1. items \in Seq(Command) /\ moved \in Seq(Command) /\ rest \in Seq(Command)
        BY <1>1, <2>3
      <4> QED
        BY ONLY <4>1, ConcatAssociative, SMTT(20)
    <3> QED
      BY <1>1, <1>3, <2>4, <3>1, <3>2, <3>3
  <2>10. \A c \in Command : ack'[c] = ack[c] \/ (ack[c] = "waiting" /\ ack'[c] = "sent")
    BY <2>2, <2>5 DEF IInv, Place
  <2>11. Gone' = Gone
    <3>1. ToSet(t \o moved) = ToSet(t) \cup ToSet(moved)
      <4>1. Distinct(t) /\ Distinct(moved) /\ ToSet(t) \cap ToSet(moved) = {}
        <5>1. Distinct(t)
          BY <1>1, <1>5, HeadTailDistinct DEF IInv, Place, t
        <5>2. Distinct(moved)
          BY <1>1, <2>1, SplitDistinct DEF IInv, Place, moved
        <5>3. ToSet(t) \subseteq Command
          BY <2>6 DEF ToSet
        <5> QED
          BY <2>5, <2>7, <5>1, <5>2, <5>3 DEF IInv, Place
      <4> QED
        BY <2>3, <2>6, <4>1, ConcatDistinct
    <3>2. ASSUME NEW c \in Command PROVE c \in Gone' <=> c \in Gone
      <4>1. c \in Gone' <=> (ack'[c] = "sent" /\ c \notin ToSet(t) /\ c \notin ToSet(moved) /\ c # h)
        BY <2>2, <3>1 DEF Gone
      <4>2. c \in Gone <=> (ack[c] = "sent" /\ c # h /\ c \notin ToSet(t))
        BY <1>2, <2>7 DEF Gone
      <4>3. c \in ToSet(moved) => ack[c] = "waiting"
        BY <2>5 DEF IInv, Place
      <4>4. c \notin ToSet(moved) => ack'[c] = ack[c]
        BY <2>2
      <4> QED
        BY <4>1, <4>2, <4>3, <4>4
    <3> QED
      BY <3>2 DEF Gone
  <2>12. Sent' = Sent \cup {Pending[i] : i \in 1 .. Len(items) + k}
    <3>1. ASSUME NEW i \in 1 .. Len(items) PROVE Pending[i] \in Sent
      <4>1. Pending[i] = items[i] /\ items[i] \in Command /\ items[i] \in ToSet(items)
        BY <1>1, <1>3, ConcatPrefix DEF ToSet
      <4> QED
        BY <4>1 DEF Sent, IInv, Place
    <3>2. \A i \in 1 .. k : Len(items) + i \in 1 .. Len(items) + k
                             /\ Pending[Len(items) + i] = sendWaiters[i]
      <4>1. \A i \in 1 .. Len(items) + Len(sendWaiters) :
              Pending[i] = IF i <= Len(items) THEN items[i] ELSE sendWaiters[i - Len(items)]
        BY <1>1, <1>3, ConcatProperties
      <4>2. k \in Nat /\ k <= Len(sendWaiters) /\ Len(items) \in Nat /\ Len(sendWaiters) \in Nat
        BY <1>1, <2>1
      <4>3. ASSUME NEW i \in 1 .. k
            PROVE  /\ Len(items) + i \in 1 .. Len(items) + k
                   /\ Len(items) + i \in 1 .. Len(items) + Len(sendWaiters)
                   /\ ~(Len(items) + i <= Len(items)) /\ (Len(items) + i) - Len(items) = i
        BY <4>2
      <4> QED
        BY <4>1, <4>3
    <3>3. ASSUME NEW c \in Command
          PROVE  c \in ToSet(moved) <=> \E i \in 1 .. k : Pending[Len(items) + i] = c
      <4>1. DOMAIN moved = 1 .. k
        BY <2>1, <2>3
      <4>2. \A i \in 1 .. k : Pending[Len(items) + i] = moved[i]
        BY <2>3, <3>2
      <4> QED
        BY <4>1, <4>2 DEF ToSet
    <3>4. ASSUME NEW i \in 1 .. Len(items) + k
          PROVE  Pending[i] \in Sent'
      <4>1. CASE i <= Len(items)
        <5>1. i \in 1 .. Len(items)
          BY <1>1, <4>1
        <5>2. Pending[i] \in Sent
          BY <3>1, <5>1
        <5> QED
          BY <2>10, <5>2 DEF Sent
      <4>2. CASE ~(i <= Len(items))
        <5>1. i - Len(items) \in 1 .. k /\ Len(items) + (i - Len(items)) = i
          BY <1>1, <2>1, <4>2
        <5>2. Pending[i] = sendWaiters[i - Len(items)] /\ sendWaiters[i - Len(items)] \in Command
          <6>1. Pending[Len(items) + (i - Len(items))] = sendWaiters[i - Len(items)]
            BY <3>2, <5>1
          <6>2. i - Len(items) \in 1 .. Len(sendWaiters)
            BY <1>1, <2>1, <5>1
          <6>3. sendWaiters[i - Len(items)] \in Command
            BY <1>1, <6>2
          <6> QED
            BY <5>1, <6>1, <6>3
        <5>3. Pending[i] \in ToSet(moved)
          BY <3>2, <3>3, <5>1, <5>2
        <5> QED
          BY <2>2, <5>2, <5>3 DEF Sent
      <4> QED
        BY <4>1, <4>2
    <3>5. ASSUME NEW c \in Sent', c \notin Sent
          PROVE  c \in {Pending[i] : i \in 1 .. Len(items) + k}
      <4>1. c \in Command /\ c \in ToSet(moved)
        BY <2>2, <3>5 DEF Sent
      <4> QED
        BY <3>2, <3>3, <4>1
    <3>6. Sent \subseteq Sent'
      BY <2>10 DEF Sent
    <3> QED
      BY <3>4, <3>5, <3>6
  <2>13. Len(items) + k \in 0 .. Len(Pending)
    BY <1>1, <1>3, <2>1, ConcatProperties
  <2> QED
    BY <2>2, <2>9, <2>10, <2>11, <2>12, <2>13
<1>6. CASE items = <<>> /\ sendWaiters # <<>>
  BY <1>6, EmptySeq, CapacityAssumption DEF IInv, Shape, ParkedBehindFullBuffer
<1>7. CASE UNCHANGED <<items, sendWaiters, closed, ack>> /\ delivered' \notin Command
  <2>1. Pending' = Pending
    BY <1>2, <1>7 DEF Pending
  <2>2. Gone' = Gone
    BY <1>2, <1>7 DEF Gone
  <2>3. Sent' = Sent \cup {Pending[i] : i \in 1 .. 0} /\ 0 \in 0 .. Len(Pending)
    BY <1>1, <1>7 DEF Sent
  <2> QED
    BY <1>7, <2>1, <2>2, <2>3
<1> QED
  BY <1>2, <1>5, <1>6, <1>7, AnswerAssumption DEF Receive, ReceiveClosed, ReceiveWaits

LEMMA TimeoutEffect ==
    ASSUME IInv, Timeout
    PROVE  Gone' = Gone /\ UNCHANGED <<closed, ack, items, Pending>>
<1>1. delivered = NONE /\ NONE \notin Command /\ TIMEOUT \notin Command
  BY AnswerAssumption DEF Timeout, IInv, Shape, NoLostWakeup
<1> QED
  BY <1>1 DEF Timeout, Gone, Pending

(* The receiver reads its answer: a command leaves from the head. *)
LEMMA ConsumeEffect ==
    ASSUME IInv, Consume
    PROVE  /\ Gone' = Gone \cup ({delivered} \cap Command)
           /\ UNCHANGED <<closed, ack, items>> /\ recvWaiter' = "idle" /\ delivered' = NONE
           /\ IF delivered \in Command
              THEN /\ Pending # <<>> /\ Head(Pending) = delivered /\ Pending' = Tail(Pending)
                   /\ delivered \in Sent /\ delivered \notin Gone
              ELSE UNCHANGED Pending
<1>1. /\ items \in Seq(Command) /\ sendWaiters \in Seq(Command)
      /\ Pending = (Handed \o items) \o sendWaiters
  BY PendingParts
<1>2. /\ UNCHANGED <<items, sendWaiters, recvWaiter, closed, ack>> /\ delivered' = NONE
      /\ NONE \notin Command
  BY AnswerAssumption DEF Consume
<1>3. recvWaiter = "idle"
  BY DEF Consume, IInv, Shape, NoLostWakeup
<1>4. Gone' = Gone \cup ({delivered} \cap Command)
  BY <1>2 DEF Gone, IInv, Place
<1>5. Pending' = (<<>> \o items) \o sendWaiters
  BY <1>2 DEF Pending
<1>6. <<>> \o items = items
  BY <1>1, ConcatEmptySeq
<1>7. CASE delivered \in Command
  <2> DEFINE rest == items \o sendWaiters
             s == <<delivered>> \o rest
  <2>1. <<delivered>> \in Seq(Command) /\ rest \in Seq(Command)
    BY <1>1, <1>7, ConcatProperties
  <2>2. Pending = s
    BY <1>1, <1>7, <2>1, ConcatAssociative DEF Handed
  <2> HIDE DEF rest
  <2>3. /\ s \in Seq(Command) /\ Len(s) = 1 + Len(rest)
        /\ \A i \in 1 .. 1 + Len(rest) : s[i] = IF i <= 1 THEN delivered ELSE rest[i - 1]
    BY <2>1, ConcatProperties
  <2> HIDE DEF s
  <2>4. Len(rest) \in Nat /\ s # <<>> /\ Head(s) = delivered
    BY <2>1, <2>3
  <2>5. Tail(s) \in Seq(Command) /\ Len(Tail(s)) = Len(rest)
        /\ \A i \in 1 .. Len(rest) : Tail(s)[i] = s[i + 1]
    BY <2>3, <2>4, HeadTailProperties
  <2>6. \A i \in 1 .. Len(rest) : s[i + 1] = rest[i]
    BY <2>3, <2>4
  <2>7. Tail(s) = rest
    <3> DEFINE t == Tail(s)
    <3>1. t \in Seq(Command) /\ Len(t) = Len(rest) /\ \A i \in 1 .. Len(t) : t[i] = rest[i]
      BY <2>5, <2>6
    <3> HIDE DEF t
    <3>2. t = rest
      BY <2>1, <3>1, SeqEqual
    <3> QED
      BY <3>2 DEF t
  <2>8. delivered \in Sent /\ delivered \notin Gone
    BY <1>7 DEF Sent, Gone, IInv, Place
  <2> QED
    BY <1>2, <1>3, <1>4, <1>5, <1>6, <1>7, <2>2, <2>4, <2>7, <2>8 DEF rest
<1>8. CASE delivered \notin Command
  BY <1>1, <1>2, <1>3, <1>4, <1>5, <1>8 DEF Handed
<1> QED
  BY <1>7, <1>8

(* Closing tells those who wait; a parked command is refused, no other. *)
LEMMA CloseAnswers ==
    ASSUME IInv, Close \/ CloseAndDrain
    PROVE  /\ closed' = TRUE /\ recvWaiter' = "idle" /\ Sent' = Sent
           /\ \A c \in Command :
                ack'[c] = IF ack[c] = "waiting" THEN "refused" ELSE ack[c]
           /\ recvWaiter = "idle" => delivered' = delivered
           /\ recvWaiter # "idle" => delivered = NONE /\ delivered' = CLOSED /\ items = <<>>
           /\ Handed' = Handed
           /\ sendWaiters' = <<>>
<1>1. ack \in [Command -> {"none", "waiting", "sent", "refused"}] /\ closed \in BOOLEAN
  BY DEF IInv, Shape, TypeOK
<1>2. NONE \notin Command /\ CLOSED \notin Command
  BY AnswerAssumption
<1>3. recvWaiter # "idle" => delivered = NONE /\ ~closed /\ items = <<>>
  BY DEF IInv, Shape, NoLostWakeup
<1>4. CASE closed
  <2>1. sendWaiters = <<>>
    BY <1>4 DEF IInv, Shape, ParkedBehindFullBuffer
  <2>2. UNCHANGED <<closed, sendWaiters, ack, recvWaiter, delivered>>
    BY <1>4 DEF Close, CloseAndDrain
  <2>3. \A c \in Command : ack[c] # "waiting"
    BY <2>1, EmptyDistinct DEF IInv, Place
  <2> QED
    BY <1>1, <1>3, <1>4, <2>1, <2>2, <2>3 DEF Sent, Handed
<1>5. CASE ~closed /\ CloseEffect
  <2>1. /\ closed' = TRUE /\ recvWaiter' = "idle" /\ sendWaiters' = <<>>
        /\ delivered' = IF recvWaiter = "idle" THEN delivered ELSE CLOSED
    BY <1>5 DEF CloseEffect
  <2>2. \A c \in Command : ack'[c] = IF ack[c] = "waiting" THEN "refused" ELSE ack[c]
    BY <1>5 DEF CloseEffect, IInv, Place
  <2>3. Sent' = Sent
    BY <2>2 DEF Sent
  <2>4. Handed' = Handed
    <3>1. CASE recvWaiter = "idle"
      BY <2>1, <3>1 DEF Handed
    <3>2. CASE recvWaiter # "idle"
      <4>1. delivered = NONE /\ delivered' = CLOSED
        BY ONLY <1>3, <2>1, <3>2
      <4>2. delivered \notin Command /\ delivered' \notin Command
        BY ONLY <4>1, <1>2
      <4> QED
        BY ONLY <4>2 DEF Handed
    <3> QED
      BY <3>1, <3>2
  <2> QED
    BY <1>3, <2>1, <2>2, <2>3, <2>4
<1> QED
  BY <1>1, <1>4, <1>5 DEF Close, CloseAndDrain

LEMMA CloseOrder ==
    ASSUME IInv, Close
    PROVE  /\ Gone' = Gone /\ UNCHANGED items
           /\ \E k \in 0 .. Len(Pending) :
                /\ \A i \in DOMAIN Pending : Pending[i] \in Sent <=> i <= k
                /\ Pending' = SubSeq(Pending, 1, k)
<1> DEFINE front == Handed \o items
<1>1. /\ Handed \in Seq(Command) /\ items \in Seq(Command) /\ sendWaiters \in Seq(Command)
      /\ front \in Seq(Command) /\ Pending = front \o sendWaiters
  BY PendingParts
<1>2. UNCHANGED items
  BY DEF Close
<1>3. NONE \notin Command /\ CLOSED \notin Command
  BY AnswerAssumption
<1>4. Gone' = Gone
  BY <1>2, <1>3, CloseAnswers DEF Gone
<1>5. Pending' = front \o <<>>
  BY <1>2, CloseAnswers DEF Pending, Handed
<1>6. front \o <<>> = front
  BY <1>1, ConcatEmptySeq
<1>7. ASSUME NEW i \in DOMAIN front PROVE front[i] \in Sent
  <2>1. \A j \in 1 .. Len(Handed) + Len(items) :
          front[j] = IF j <= Len(Handed) THEN Handed[j] ELSE items[j - Len(Handed)]
    BY <1>1, ConcatProperties
  <2>2. i \in 1 .. Len(Handed) + Len(items) /\ Len(Handed) \in Nat /\ Len(items) \in Nat
    BY <1>1, ConcatProperties
  <2>3. \A j \in DOMAIN items : items[j] \in Sent
    BY <1>1 DEF Sent, IInv, Place, ToSet
  <2>4. \A j \in 1 .. Len(Handed) : Handed[j] \in Sent
    <3>1. CASE delivered \in Command
      BY <3>1 DEF Handed, Sent, IInv, Place
    <3>2. CASE delivered \notin Command
      BY <3>2 DEF Handed
    <3> QED
      BY <3>1, <3>2
  <2>5. CASE i <= Len(Handed)
    BY <2>1, <2>2, <2>4, <2>5
  <2>6. CASE ~(i <= Len(Handed))
    <3>1. i - Len(Handed) \in DOMAIN items /\ front[i] = items[i - Len(Handed)]
      BY <1>1, <2>1, <2>2, <2>6
    <3> QED
      BY <2>3, <3>1
  <2> QED
    BY <2>5, <2>6
<1> HIDE DEF front
<1>8. /\ SubSeq(Pending, 1, Len(front)) = front /\ Len(front) \in 0 .. Len(Pending)
      /\ \A i \in 1 .. Len(front) : Pending[i] = front[i]
  BY <1>1, ConcatPrefix
<1>9. ASSUME NEW i \in DOMAIN Pending PROVE Pending[i] \in Sent <=> i <= Len(front)
  <2>1. /\ \A j \in 1 .. Len(front) + Len(sendWaiters) :
             Pending[j] = IF j <= Len(front) THEN front[j] ELSE sendWaiters[j - Len(front)]
        /\ i \in 1 .. Len(front) + Len(sendWaiters)
        /\ Len(front) \in Nat /\ Len(sendWaiters) \in Nat
    BY <1>1, ConcatProperties
  <2>2. CASE i <= Len(front)
    <3>1. i \in DOMAIN front
      BY <1>1, <2>1, <2>2
    <3> QED
      BY <1>7, <2>1, <2>2, <3>1
  <2>3. CASE ~(i <= Len(front))
    <3>1. i - Len(front) \in 1 .. Len(sendWaiters)
      BY <2>1, <2>3
    <3>2. Pending[i] = sendWaiters[i - Len(front)]
      BY <2>1, <2>3
    <3>3. Pending[i] \in Command /\ Pending[i] \in ToSet(sendWaiters)
      BY <1>1, <3>1, <3>2 DEF ToSet
    <3> QED
      BY <2>3, <3>3 DEF Sent, IInv, Place
  <2> QED
    BY <2>2, <2>3
<1> QED
  BY <1>2, <1>4, <1>5, <1>6, <1>8, <1>9, Zenon

(* The drain empties the queue but for an answer not yet read. *)
LEMMA DrainOrder ==
    ASSUME IInv, CloseAndDrain
    PROVE  /\ Gone' = Gone \cup ToSet(items) /\ items' = <<>>
           /\ Pending' \in {<<>>, SubSeq(Pending, 1, 1)}
           /\ delivered \notin Command => Pending' = <<>>
<1> DEFINE rest == items \o sendWaiters
<1>1. /\ Handed \in Seq(Command) /\ items \in Seq(Command) /\ sendWaiters \in Seq(Command)
      /\ Pending = (Handed \o items) \o sendWaiters
  BY PendingParts
<1>2. items' = <<>> /\ ToSet(<<>>) = {}
  BY EmptyDistinct DEF CloseAndDrain
<1>3. NONE \notin Command /\ CLOSED \notin Command
  BY AnswerAssumption
<1>4. ToSet(items) \subseteq Command
  BY <1>1 DEF ToSet
<1>5. Gone' = Gone \cup ToSet(items)
  BY <1>2, <1>3, <1>4, CloseAnswers DEF Gone, IInv, Place
<1>6. Pending' = (Handed \o <<>>) \o <<>>
  BY <1>2, CloseAnswers DEF Pending, Handed
<1>7. Pending' = Handed
  BY <1>1, <1>6, ConcatEmptySeq
<1>8. rest \in Seq(Command) /\ Pending = Handed \o rest
  BY <1>1, ConcatProperties, ConcatAssociative, SMTT(20)
<1> HIDE DEF rest
<1>9. SubSeq(Pending, 1, Len(Handed)) = Handed
  BY <1>1, <1>8, ConcatPrefix
<1>10. Handed = <<>> \/ (delivered \in Command /\ Len(Handed) = 1)
  BY DEF Handed
<1>11. delivered \notin Command => Handed = <<>>
  BY DEF Handed
<1> QED
  BY <1>2, <1>5, <1>7, <1>9, <1>10, <1>11

-----------------------------------------------------------------------------
(* The queue is a FIFO channel: commands are taken in the order of their   *)
(* offers, one that was told "sent" leaves only by being taken or drained, *)
(* and one that was refused is never taken.  Every call is a step of       *)
(* FifoChannel or leaves what it speaks of as it was.                      *)
LEMMA FifoStep ==
    ASSUME IInv, [Next]_queueVars
    PROVE  Channel!Next \/ UNCHANGED <<Pending, Sent, {c \in Command : ack[c] # "none"}, closed>>
<1> DEFINE Offered == {c \in Command : ack[c] # "none"}
           Open == ~closed
<1> USE DEF Sent
<1>1. ack \in [Command -> {"none", "waiting", "sent", "refused"}]
      /\ ack' \in [Command -> {"none", "waiting", "sent", "refused"}]
  BY NextInvariant DEF IInv, Shape, TypeOK
<1>2. /\ Pending \in Seq(Command)
      /\ \A c \in Command :
           c \in ToSet(Pending) <=> ack[c] = "waiting" \/ (ack[c] = "sent" /\ c \notin Gone)
  BY PendingParts
<1>3. ASSUME NEW c \in Command, New(c), Send(c) \/ TrySend(c)
      PROVE  Channel!Offer(c) \/ Channel!Reject(c)
  <2>1. /\ closed' = closed /\ ack[c] = "none"
        /\ ack'[c] # "none" /\ \A d \in Command \ {c} : ack'[d] = ack[d]
        /\ ack'[c] = "refused" <=> closed
        /\ closed => Pending' = Pending
        /\ ~closed => Pending' = Append(Pending, c)
    BY <1>3, OfferEffect DEF New
  <2>2. Offered' = Offered \cup {c} /\ c \notin Offered
    BY <2>1
  <2>3. IF ack'[c] = "sent" THEN Sent' = Sent \cup {c} ELSE Sent' = Sent
    BY <1>1, <2>1
  <2>4. CASE closed
    BY <2>1, <2>2, <2>3, <2>4 DEF Channel!Reject
  <2>5. CASE ~closed
    BY <2>1, <2>2, <2>3, <2>5 DEF Channel!Offer
  <2> QED
    BY <2>4, <2>5
<1>4. ASSUME NEW c \in Command, Abort(c) PROVE Channel!Withdraw(c)
  <2>1. /\ closed' = closed /\ ack[c] = "waiting" /\ ack' = [ack EXCEPT ![c] = "refused"]
        /\ \E i \in DOMAIN Pending :
             /\ Pending[i] = c
             /\ Pending' = SubSeq(Pending, 1, i - 1) \o SubSeq(Pending, i + 1, Len(Pending))
    BY <1>4, AbortEffect DEF RemoveAt
  <2>2. Sent' = Sent /\ Offered' = Offered /\ c \notin Sent
    BY <1>1, <2>1
  <2> QED
    BY <2>1, <2>2 DEF Channel!Withdraw
<1>5. ASSUME NEW timed \in BOOLEAN, Receive(timed) PROVE Channel!Accept
  <2>1. /\ UNCHANGED <<closed, Pending>>
        /\ \A c \in Command : ack'[c] = ack[c] \/ (ack[c] = "waiting" /\ ack'[c] = "sent")
        /\ \E k \in 0 .. Len(Pending) : Sent' = Sent \cup {Pending[i] : i \in 1 .. k}
    BY <1>5, ReceiveEffect
  <2>2. Offered' = Offered
    BY <2>1
  <2> QED
    BY <2>1, <2>2 DEF Channel!Accept
<1>6. CASE Consume
  <2>1. UNCHANGED <<closed, Sent, Offered>>
    BY <1>6 DEF Consume
  <2>2. CASE delivered \in Command
    <3>1. /\ Pending # <<>> /\ Head(Pending) = delivered /\ Pending' = Tail(Pending)
          /\ delivered \in Sent
      BY <1>6, <2>2, ConsumeEffect
    <3> QED
      BY <2>1, <3>1 DEF Channel!Next, Channel!Take
  <2>3. CASE delivered \notin Command
    BY <1>6, <2>1, <2>3, ConsumeEffect
  <2> QED
    BY <2>2, <2>3
<1>7. CASE Timeout
  BY <1>7, TimeoutEffect
<1>8. ASSUME Close \/ CloseAndDrain PROVE closed' = TRUE /\ Sent' = Sent /\ Offered' = Offered
  <2>1. /\ closed' = TRUE /\ Sent' = Sent
        /\ \A c \in Command : ack'[c] = IF ack[c] = "waiting" THEN "refused" ELSE ack[c]
    BY <1>8, CloseAnswers
  <2> QED
    BY <2>1
<1>9. CASE Close
  <2>1. \E k \in 0 .. Len(Pending) :
          /\ \A i \in DOMAIN Pending : Pending[i] \in Sent <=> i <= k
          /\ Pending' = SubSeq(Pending, 1, k)
    BY <1>9, CloseOrder
  <2>2. Channel!Close
    BY <1>8, <1>9, <2>1 DEF Channel!Close
  <2> QED
    BY <2>2 DEF Channel!Next
<1>10. CASE CloseAndDrain
  <2>1. Channel!Discard
    BY <1>8, <1>10, DrainOrder DEF Channel!Discard
  <2> QED
    BY <2>1 DEF Channel!Next
<1>11. CASE UNCHANGED queueVars
  BY <1>11 DEF queueVars, Pending
<1> HIDE DEF Sent
<1> QED
  BY <1>3, <1>4, <1>5, <1>6, <1>7, <1>9, <1>10, <1>11 DEF Next, Worker, Channel!Next

THEOREM FifoKept == Spec => FifoOrder
<1>1. Init => Channel!Init
  <2> SUFFICES ASSUME Init PROVE Channel!Init
    OBVIOUS
  <2>1. /\ items = <<>> /\ sendWaiters = <<>> /\ delivered \notin Command /\ closed = FALSE
        /\ ack = [c \in Command |-> "none"]
    BY AnswerAssumption DEF Init
  <2>2. Pending = <<>>
    <3>1. <<>> \in Seq(Command)
      BY EmptySeq
    <3>2. (<<>> \o <<>>) \o <<>> = <<>>
      BY <3>1, ConcatEmptySeq
    <3> QED
      BY <2>1, <3>2 DEF Pending
  <2> QED
    BY <2>1, <2>2 DEF Channel!Init
<1>2. IInv /\ [Next]_queueVars => [Channel!Next]_(Channel!channelVars)
  BY FifoStep DEF Channel!channelVars, Sent
<1> QED
  BY <1>1, <1>2, Invariance, PTL DEF Spec, FifoOrder, Channel!Spec

-----------------------------------------------------------------------------
(* What whoever uses the queue needs of all this: while the receiver is    *)
(* not waiting only its own calls change what it has been answered, what   *)
(* has gone changes only when it takes or drains, and nothing overtakes.   *)
Ready == recvWaiter = "idle" /\ delivered = NONE

Offering(c) == New(c) /\ (Send(c) \/ TrySend(c))

(* Every call but the receiver's. *)
Others ==
    \/ \E c \in Command : Offering(c) \/ Abort(c)
    \/ Timeout \/ Close \/ CloseAndDrain
    \/ UNCHANGED queueVars

LEMMA ReadyKept ==
    ASSUME IInv, Ready, Others
    PROVE  Ready'
<1> USE DEF Ready
<1>1. ASSUME NEW c \in Command, Offering(c) PROVE Ready'
  BY <1>1, OfferEffect DEF Offering
<1>2. ASSUME NEW c \in Command, Abort(c) PROVE Ready'
  BY <1>2, AbortEffect
<1>3. CASE Timeout
  BY <1>3 DEF Timeout
<1>4. CASE Close \/ CloseAndDrain
  BY <1>4, CloseAnswers
<1>5. CASE UNCHANGED queueVars
  BY <1>5 DEF queueVars
<1> QED
  BY <1>1, <1>2, <1>3, <1>4, <1>5 DEF Others

(* A closed queue stays closed; once empty it stays empty. *)
LEMMA ClosedStays ==
    ASSUME IInv, closed, Next \/ UNCHANGED queueVars
    PROVE  closed' /\ (items = <<>> => items' = <<>>)
<1>1. ASSUME NEW c \in Command, New(c), Send(c) \/ TrySend(c)
      PROVE  closed' /\ (items = <<>> => items' = <<>>)
  BY <1>1, OfferEffect
<1>2. sendWaiters = <<>>
  BY DEF IInv, Shape, ParkedBehindFullBuffer
<1>3. ASSUME NEW timed \in BOOLEAN, Receive(timed)
      PROVE  closed' /\ (items = <<>> => items' = <<>>)
  BY <1>2, <1>3 DEF Receive, ReceiveBuffered, ReceiveClosed
<1>4. CASE \E c \in Command : Abort(c)
  BY <1>4 DEF Abort
<1>5. CASE Consume \/ Timeout \/ Close \/ CloseAndDrain
  BY <1>5 DEF Consume, Timeout, Close, CloseAndDrain
<1>6. CASE UNCHANGED queueVars
  BY <1>6 DEF queueVars
<1> QED
  BY <1>1, <1>3, <1>4, <1>5, <1>6 DEF Next, Worker

(* The receiver is told CLOSED only by a closed queue. *)
ToldClosed == delivered = CLOSED => closed

LEMMA ToldClosedKept ==
    ASSUME IInv, ToldClosed, Next \/ UNCHANGED queueVars
    PROVE  ToldClosed'
<1> USE AnswerAssumption DEF ToldClosed
<1>1. ASSUME NEW c \in Command, New(c), Send(c) \/ TrySend(c) PROVE ToldClosed'
  BY <1>1 DEF Send, TrySend, Refuse, HandOver, Enqueue, Wait
<1>2. ASSUME NEW timed \in BOOLEAN, Receive(timed) PROVE ToldClosed'
  <2>1. CASE ReceiveBuffered /\ items # <<>>
    <3>1. Head(items) \in Command
      BY <2>1 DEF IInv, Shape, TypeOK
    <3> QED
      BY <2>1, <3>1 DEF ReceiveBuffered
  <2>2. CASE ReceiveParked /\ sendWaiters # <<>>
    <3>1. Head(sendWaiters) \in Command
      BY <2>2 DEF IInv, Shape, TypeOK
    <3> QED
      BY <2>2, <3>1 DEF ReceiveParked
  <2>3. CASE ReceiveClosed /\ closed
    BY <2>3 DEF ReceiveClosed
  <2>4. CASE ReceiveWaits(timed)
    BY <2>4 DEF ReceiveWaits
  <2> QED
    BY <1>2, <2>1, <2>2, <2>3, <2>4 DEF Receive
<1>3. CASE \E c \in Command : Abort(c)
  BY <1>3 DEF Abort
<1>4. CASE Consume \/ Timeout
  BY <1>4 DEF Consume, Timeout
<1>5. CASE Close \/ CloseAndDrain
  BY <1>5, CloseAnswers
<1>6. CASE UNCHANGED queueVars
  BY <1>6 DEF queueVars
<1> QED
  BY <1>1, <1>2, <1>3, <1>4, <1>5, <1>6 DEF Next, Worker

(* Nothing is on its way in a closed, empty queue whose answer was read. *)
LEMMA NothingPending ==
    ASSUME IInv, Ready, closed, items = <<>>
    PROVE  Pending = <<>>
<1>1. sendWaiters = <<>> /\ Handed = <<>>
  BY AnswerAssumption DEF IInv, Shape, ParkedBehindFullBuffer, Ready, Handed
<1>2. Pending = (<<>> \o <<>>) \o <<>>
  BY <1>1 DEF Pending, Handed
<1>3. (<<>> \o <<>>) \o <<>> = <<>>
  BY EmptySeq, ConcatEmptySeq
<1> QED
  BY <1>2, <1>3

LEMMA GoneStays ==
    ASSUME IInv,
           \/ \E c \in Command : Offering(c) \/ Abort(c)
           \/ \E timed \in BOOLEAN : Receive(timed)
           \/ Timeout \/ Close \/ UNCHANGED queueVars
    PROVE  Gone' = Gone
<1>1. CASE UNCHANGED queueVars
  BY <1>1 DEF queueVars, Gone
<1> QED
  BY <1>1, OfferEffect, AbortEffect, ReceiveEffect, TimeoutEffect, CloseOrder DEF Offering

(* Nobody joins and nobody changes places. *)
OnlyLeaves ==
    /\ ToSet(Pending') \subseteq ToSet(Pending)
    /\ \A c, d \in Command : Ahead(Pending', c, d) => Ahead(Pending, c, d)

LEMMA LeavesOnly ==
    ASSUME IInv,
           \/ \E c \in Command : Abort(c)
           \/ Worker \/ Timeout \/ Close \/ CloseAndDrain
           \/ UNCHANGED queueVars
    PROVE  OnlyLeaves
<1>1. Pending \in Seq(Command)
  BY PendingParts
<1>2. CASE UNCHANGED Pending
  BY <1>2 DEF OnlyLeaves
<1>3. ASSUME NEW c \in Command, Abort(c) PROVE OnlyLeaves
  <2>1. PICK i \in DOMAIN Pending : Pending' = RemoveAt(Pending, i)
    BY <1>3, AbortEffect
  <2>2. i \in 1 .. Len(Pending)
    BY <1>1
  <2> QED
    BY <1>1, <2>1, <2>2, RemoveAtAhead DEF OnlyLeaves
<1>4. ASSUME NEW k \in 0 .. Len(Pending), Pending' = SubSeq(Pending, 1, k) PROVE OnlyLeaves
  BY <1>1, <1>4, PrefixAhead DEF OnlyLeaves
<1>5. CASE Consume
  <2>1. CASE Pending # <<>> /\ Pending' = Tail(Pending)
    BY <1>1, <2>1, TailAhead DEF OnlyLeaves
  <2> QED
    BY <1>2, <1>5, <2>1, ConsumeEffect
<1>6. CASE CloseAndDrain
  <2>1. /\ Pending' = <<>> \/ Pending' = SubSeq(Pending, 1, 1)
        /\ delivered \notin Command => Pending' = <<>>
    BY <1>6, DrainOrder
  <2>2. CASE Pending' = <<>>
    BY <2>2, EmptyDistinct DEF OnlyLeaves, Ahead
  <2>3. CASE Pending' = SubSeq(Pending, 1, 1) /\ Pending # <<>>
    <3>1. 1 \in 0 .. Len(Pending)
      BY <1>1, <2>3
    <3> QED
      BY <1>4, <2>3, <3>1
  <2>4. CASE Pending = <<>> /\ delivered \in Command
    <3>1. delivered \in ToSet(Pending)
      BY <2>4, PendingParts DEF IInv, Place, Gone
    <3> QED
      BY <2>4, <3>1, EmptyDistinct
  <2> QED
    BY Zenon, <2>1, <2>2, <2>3, <2>4
<1>7. CASE Close
  BY <1>4, <1>7, CloseOrder
<1>8. CASE UNCHANGED queueVars
  BY <1>2, <1>8 DEF queueVars, Pending
<1> QED
  BY <1>2, <1>3, <1>5, <1>6, <1>7, <1>8, ReceiveEffect, TimeoutEffect DEF Worker

(* An offer joins behind all who are there. *)
LEMMA JoinsBehind ==
    ASSUME NEW c \in Command, IInv, Offering(c)
    PROVE  /\ ToSet(Pending') \subseteq ToSet(Pending) \cup {c}
           /\ \A d, e \in Command :
                Ahead(Pending', d, e) => Ahead(Pending, d, e) \/ (e = c /\ d \in ToSet(Pending))
<1>1. Pending \in Seq(Command)
  BY PendingParts
<1>2. Pending' = Pending \/ Pending' = Append(Pending, c)
  BY OfferEffect DEF Offering
<1>3. CASE Pending' = Pending
  BY <1>3
<1>4. CASE Pending' = Append(Pending, c)
  <2> DEFINE p == Pending
  <2>1. p \in Seq(Command)
    BY <1>1
  <2> HIDE DEF p
  <2>2. /\ ToSet(Append(p, c)) = ToSet(p) \cup {c}
        /\ \A d, e : Ahead(Append(p, c), d, e) => Ahead(p, d, e) \/ (e = c /\ d \in ToSet(p))
    BY <2>1, AppendAhead
  <2> QED
    BY <1>4, <2>2 DEF p
<1> QED
  BY <1>2, <1>3, <1>4

(* The receiver takes what nobody is ahead of; what was ahead is gone. *)
LEMMA TakesFirst ==
    ASSUME IInv, Consume, delivered \in Command
    PROVE  /\ delivered \in ToSet(Pending) /\ delivered \notin ToSet(Pending')
           /\ \A d \in ToSet(Pending') : Ahead(Pending, delivered, d)
<1>1. /\ Pending # <<>> /\ Head(Pending) = delivered /\ Pending' = Tail(Pending)
      /\ Pending \in Seq(Command)
  BY ConsumeEffect, PendingParts
<1>2. /\ Head(Pending) \in ToSet(Pending)
      /\ \A d \in ToSet(Tail(Pending)) : Ahead(Pending, Head(Pending), d)
  BY <1>1, TailAhead
<1>3. Head(Pending) \notin ToSet(Tail(Pending))
  BY <1>1, HeadTailDistinct, PendingParts
<1> QED
  BY <1>1, <1>2, <1>3

(* An answer is final: only who has none yet, or waits, gets another. *)
LEMMA AckMoves ==
    ASSUME IInv, Next \/ UNCHANGED queueVars, NEW c \in Command
    PROVE  \/ ack'[c] = ack[c]
           \/ ack[c] = "none" /\ Offering(c)
           \/ ack[c] = "waiting" /\ ack'[c] \in {"sent", "refused"}
<1>1. ASSUME NEW d \in Command, Offering(d), c # d PROVE ack'[c] = ack[c]
  BY <1>1, OfferEffect DEF Offering
<1>2. ASSUME Offering(c) PROVE ack[c] = "none"
  BY <1>2 DEF Offering, New
<1>3. ASSUME NEW d \in Command, Abort(d)
      PROVE  ack'[c] = ack[c] \/ (ack[c] = "waiting" /\ ack'[c] = "refused")
  <2>1. ack \in [Command -> {"none", "waiting", "sent", "refused"}]
    BY DEF IInv, Shape, TypeOK
  <2> QED
    BY <1>3, <2>1, AbortEffect
<1>4. ASSUME NEW timed \in BOOLEAN, Receive(timed)
      PROVE  ack'[c] = ack[c] \/ (ack[c] = "waiting" /\ ack'[c] = "sent")
  BY <1>4, ReceiveEffect
<1>5. CASE Consume \/ Timeout
  BY <1>5 DEF Consume, Timeout
<1>6. CASE Close \/ CloseAndDrain
  BY <1>6, CloseAnswers
<1>7. CASE UNCHANGED queueVars
  BY <1>7 DEF queueVars
<1> QED
  BY <1>1, <1>2, <1>3, <1>4, <1>5, <1>6, <1>7 DEF Next, Worker, Offering
=============================================================================
