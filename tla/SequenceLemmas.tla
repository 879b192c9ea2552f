---------------------------- MODULE SequenceLemmas ----------------------------
(* What the operators on sequences that the models use do to the elements. *)
EXTENDS SequencesExt, SequenceTheorems, FiniteSetTheorems, WellFoundedInduction, TLAPS

(* A non-empty set of natural numbers has a least member, which Min is.    *)
LEMMA MinIsLeast ==
  ASSUME NEW S, S \subseteq Nat, S # {}
  PROVE  Min(S) \in S /\ \A d \in S : Min(S) <= d
  <1>1. PICK c \in S : \A d \in S : <<d, c>> \notin OpToRel(<, Nat)
    BY NatLessThanWellFounded, WFMin
  <1>2. ASSUME NEW d \in S
        PROVE  c <= d
    <2>1. d < c => <<d, c>> \in OpToRel(<, Nat)
      BY Zenon DEF OpToRel
    <2>2. ~(d < c)
      BY <1>1, <2>1, Zenon
    <2> QED
      BY <2>2
  <1> QED
    BY <1>2 DEF Min

(* Removing the element at an index moves those behind it up.              *)
LEMMA RemoveAtProperties ==
  ASSUME NEW T, NEW s \in Seq(T), NEW i \in 1..Len(s)
  PROVE  /\ RemoveAt(s, i) \in Seq(T)
         /\ Len(RemoveAt(s, i)) = Len(s) - 1
         /\ \A j \in 1..Len(s)-1 : RemoveAt(s, i)[j] = IF j < i THEN s[j] ELSE s[j+1]
  <1> DEFINE front == SubSeq(s, 1, i-1)
             back == SubSeq(s, i+1, Len(s))
  <1>1. Len(s) \in Nat /\ \A j \in 1..Len(s) : s[j] \in T
    BY LenProperties, ElementOfSeq
  <1>2. front \in Seq(T) /\ Len(front) = i-1 /\ \A j \in 1..i-1 : front[j] = s[j]
    <2>1. /\ front \in Seq(T)
          /\ Len(front) = IF 1 <= i-1 THEN (i-1)-1+1 ELSE 0
          /\ \A j \in 1..(i-1)-1+1 : front[j] = s[1+j-1]
      BY <1>1, SubSeqProperties
    <2> QED
      BY <1>1, <2>1
  <1>3. /\ back \in Seq(T) /\ Len(back) = Len(s)-i
        /\ \A j \in 1..Len(s)-i : back[j] = s[i+j]
    <2>1. /\ back \in Seq(T)
          /\ Len(back) = IF i+1 <= Len(s) THEN Len(s)-(i+1)+1 ELSE 0
          /\ \A j \in 1..Len(s)-(i+1)+1 : back[j] = s[(i+1)+j-1]
      BY <1>1, SubSeqProperties
    <2> QED
      BY <1>1, <2>1
  <1>4. /\ front \o back \in Seq(T)
        /\ Len(front \o back) = Len(front) + Len(back)
        /\ \A j \in 1..Len(front)+Len(back) :
             (front \o back)[j] = IF j <= Len(front) THEN front[j] ELSE back[j - Len(front)]
    BY <1>2, <1>3, ConcatProperties
  <1>5. RemoveAt(s, i) = front \o back
    BY DEF RemoveAt
  <1>6. ASSUME NEW j \in 1..Len(s)-1
        PROVE  (front \o back)[j] = IF j < i THEN s[j] ELSE s[j+1]
    <2> HIDE DEF front, back
    <2>1. CASE j < i
      BY <1>1, <1>2, <1>3, <1>4, <2>1
    <2>2. CASE ~(j < i)
      <3>1. j - (i-1) \in 1..Len(s)-i /\ i + (j - (i-1)) = j + 1
        BY <1>1, <2>2
      <3>2. back[j - (i-1)] = s[j+1]
        BY <1>3, <3>1
      <3>3. j \in 1..Len(front)+Len(back) /\ ~(j <= Len(front))
        BY <1>1, <1>2, <1>3, <2>2
      <3> QED
        BY <1>2, <1>4, <2>2, <3>2, <3>3
    <2> QED
      BY <2>1, <2>2
  <1> HIDE DEF front, back
  <1>7. Len(front \o back) = Len(s) - 1
    BY <1>1, <1>2, <1>3, <1>4
  <1> QED
    BY <1>4, <1>5, <1>6, <1>7

(* RemoveFirst removes at an index where the element is.                   *)
LEMMA RemoveFirstIsRemoveAt ==
  ASSUME NEW T, NEW s \in Seq(T), NEW e, \E i \in 1..Len(s) : s[i] = e
  PROVE  \E i \in 1..Len(s) : s[i] = e /\ RemoveFirst(s, e) = RemoveAt(s, i)
  <1> DEFINE I == {i \in 1..Len(s) : s[i] = e}
  <1>1. I \subseteq Nat /\ I # {}
    BY LenProperties
  <1>2. Min(I) \in I
    BY <1>1, MinIsLeast
  <1>3. RemoveFirst(s, e) = RemoveAt(s, Min(I))
    BY <1>1 DEF RemoveFirst, SelectInSeq
  <1> QED
    BY <1>2, <1>3

-----------------------------------------------------------------------------
(* Sequences that hold nothing twice.                                      *)

LEMMA ToSetProperties ==
  ASSUME NEW T, NEW s \in Seq(T)
  PROVE  /\ ToSet(s) \subseteq T
         /\ \A e : e \in ToSet(s) <=> \E i \in 1..Len(s) : s[i] = e
         /\ IsInjective(s) <=> \A i, j \in 1..Len(s) : s[i] = s[j] => i = j
  BY LenProperties, ElementOfSeq DEF ToSet, IsInjective

LEMMA AppendDistinct ==
  ASSUME NEW T, NEW s \in Seq(T), NEW e \in T
  PROVE  /\ ToSet(Append(s, e)) = ToSet(s) \cup {e}
         /\ IsInjective(s) /\ e \notin ToSet(s) => IsInjective(Append(s, e))
  <1> DEFINE r == Append(s, e)
  <1>1. /\ r \in Seq(T)
        /\ Len(s) \in Nat
        /\ Len(r) = Len(s) + 1
        /\ \A i \in 1..Len(s) : r[i] = s[i]
        /\ r[Len(s)+1] = e
    BY AppendProperties, LenProperties
  <1>2. /\ \A d : d \in ToSet(s) <=> \E i \in 1..Len(s) : s[i] = d
        /\ IsInjective(s) <=> \A i, j \in 1..Len(s) : s[i] = s[j] => i = j
    BY ToSetProperties
  <1>3. /\ \A d : d \in ToSet(r) <=> \E i \in 1..Len(r) : r[i] = d
        /\ IsInjective(r) <=> \A i, j \in 1..Len(r) : r[i] = r[j] => i = j
    BY <1>1, ToSetProperties
  <1> HIDE DEF r
  <1>4. 1..Len(r) = 1..Len(s) \cup {Len(s)+1} /\ Len(s)+1 \notin 1..Len(s)
    BY <1>1
  <1>5. ASSUME NEW d
        PROVE  d \in ToSet(r) <=> d \in ToSet(s) \cup {e}
    BY <1>1, <1>2, <1>3, <1>4
  <1>6. ASSUME IsInjective(s), e \notin ToSet(s)
        PROVE  IsInjective(r)
    BY <1>1, <1>2, <1>3, <1>4, <1>6
  <1> QED
    BY <1>5, <1>6 DEF r

LEMMA TailDistinct ==
  ASSUME NEW T, NEW s \in Seq(T), s # <<>>
  PROVE  /\ Head(s) \in ToSet(s)
         /\ ToSet(s) = ToSet(Tail(s)) \cup {Head(s)}
         /\ IsInjective(s) => /\ IsInjective(Tail(s))
                              /\ Head(s) \notin ToSet(Tail(s))
  <1> DEFINE r == Tail(s)
             h == Head(s)
  <1>1. /\ r \in Seq(T)
        /\ Len(s) \in Nat \ {0}
        /\ Len(r) = Len(s) - 1
        /\ h = s[1]
        /\ \A i \in 1..Len(s)-1 : r[i] = s[i+1]
    BY HeadTailProperties, EmptySeq
  <1>2. /\ \A d : d \in ToSet(s) <=> \E i \in 1..Len(s) : s[i] = d
        /\ IsInjective(s) <=> \A i, j \in 1..Len(s) : s[i] = s[j] => i = j
    BY ToSetProperties
  <1>3. /\ \A d : d \in ToSet(r) <=> \E i \in 1..Len(r) : r[i] = d
        /\ IsInjective(r) <=> \A i, j \in 1..Len(r) : r[i] = r[j] => i = j
    BY <1>1, ToSetProperties
  <1> HIDE DEF r, h
  <1>4. \A i \in 1..Len(s) : i = 1 \/ (i-1 \in 1..Len(r) /\ s[i] = r[i-1])
    BY <1>1
  <1>5. \A i \in 1..Len(r) : i+1 \in 1..Len(s) /\ i+1 # 1 /\ r[i] = s[i+1]
    BY <1>1
  <1>6. h \in ToSet(s)
    BY <1>1, <1>2
  <1>7. ASSUME NEW d
        PROVE  d \in ToSet(s) <=> d \in ToSet(r) \cup {h}
    <2>1. ASSUME d \in ToSet(s), d # h
          PROVE  d \in ToSet(r)
      <3>1. PICK i \in 1..Len(s) : s[i] = d
        BY <1>2, <2>1
      <3>2. i-1 \in 1..Len(r) /\ r[i-1] = d
        BY <1>1, <1>4, <2>1, <3>1
      <3> QED
        BY <1>3, <3>2
    <2>2. ASSUME d \in ToSet(r)
          PROVE  d \in ToSet(s)
      BY <1>2, <1>3, <1>5, <2>2
    <2> QED
      BY <1>6, <2>1, <2>2
  <1>8. ASSUME IsInjective(s)
        PROVE  IsInjective(r) /\ h \notin ToSet(r)
    <2>1. ASSUME NEW i \in 1..Len(r), NEW j \in 1..Len(r), r[i] = r[j]
          PROVE  i = j
      <3>1. i+1 = j+1
        BY <1>2, <1>5, <1>8, <2>1
      <3> QED
        BY <1>1, <3>1
    <2>2. h \notin ToSet(r)
      BY <1>1, <1>2, <1>3, <1>5, <1>8
    <2> QED
      BY <1>3, <2>1, <2>2
  <1> QED
    BY <1>6, <1>7, <1>8 DEF r, h

LEMMA RemoveFirstDistinct ==
  ASSUME NEW T, NEW s \in Seq(T), NEW e, IsInjective(s)
  PROVE  /\ RemoveFirst(s, e) \in Seq(T)
         /\ IsInjective(RemoveFirst(s, e))
         /\ ToSet(RemoveFirst(s, e)) = ToSet(s) \ {e}
  <1>1. CASE e \notin ToSet(s)
    <2>1. RemoveFirst(s, e) = s
      BY <1>1, ToSetProperties DEF RemoveFirst
    <2> QED
      BY <1>1, <2>1
  <1>2. CASE e \in ToSet(s)
    <2>1. PICK i \in 1..Len(s) : s[i] = e /\ RemoveFirst(s, e) = RemoveAt(s, i)
      BY <1>2, ToSetProperties, RemoveFirstIsRemoveAt
    <2> DEFINE r == RemoveAt(s, i)
    <2>2. /\ r \in Seq(T) /\ Len(r) = Len(s) - 1 /\ Len(s) \in Nat
          /\ \A j \in 1..Len(s)-1 : r[j] = IF j < i THEN s[j] ELSE s[j+1]
      BY RemoveAtProperties, LenProperties
    <2> HIDE DEF r
    <2>3. ASSUME NEW j \in 1..Len(s)-1, NEW k \in 1..Len(s)-1, r[j] = r[k]
          PROVE  j = k
      <3>1. /\ (IF j < i THEN j ELSE j+1) \in 1..Len(s)
            /\ (IF k < i THEN k ELSE k+1) \in 1..Len(s)
        BY <2>2
      <3>2. s[IF j < i THEN j ELSE j+1] = s[IF k < i THEN k ELSE k+1]
        BY <2>2, <2>3
      <3>3. (IF j < i THEN j ELSE j+1) = (IF k < i THEN k ELSE k+1)
        BY <3>1, <3>2, ToSetProperties
      <3> QED
        BY <3>3
    <2>4. ASSUME NEW j \in 1..Len(s)-1
          PROVE  r[j] \in ToSet(s) \ {e}
      <3>1. (IF j < i THEN j ELSE j+1) \in 1..Len(s) \ {i}
        BY <2>2
      <3>2. s[IF j < i THEN j ELSE j+1] = r[j]
        BY <2>2
      <3> QED
        BY <2>1, <3>1, <3>2, ToSetProperties
    <2>5. ASSUME NEW d \in ToSet(s) \ {e}
          PROVE  \E j \in 1..Len(s)-1 : r[j] = d
      <3>1. PICK k \in 1..Len(s) : s[k] = d
        BY ToSetProperties
      <3>2. CASE k < i
        BY <2>2, <3>1, <3>2
      <3>3. CASE k > i
        <4>1. k-1 \in 1..Len(s)-1 /\ ~(k-1 < i) /\ (k-1)+1 = k
          BY <2>2, <3>3
        <4>2. r[k-1] = d
          BY <2>2, <3>1, <4>1
        <4> QED
          BY <4>1, <4>2
      <3>4. k # i
        BY <2>1, <3>1
      <3> QED
        BY <2>2, <3>2, <3>3, <3>4
    <2>6. ToSet(r) = ToSet(s) \ {e}
      BY <2>2, <2>4, <2>5, ToSetProperties
    <2>7. IsInjective(r)
      BY <2>2, <2>3, ToSetProperties
    <2> QED
      BY <2>1, <2>2, <2>6, <2>7 DEF r
  <1> QED
    BY <1>1, <1>2

(* A sequence that holds nothing twice is as long as the set of its        *)
(* elements.                                                               *)
LEMMA DistinctLength ==
  ASSUME NEW T, NEW s \in Seq(T), IsInjective(s)
  PROVE  IsFiniteSet(ToSet(s)) /\ Cardinality(ToSet(s)) = Len(s)
  <1>1. Len(s) \in Nat /\ s \in [1..Len(s) -> T] /\ DOMAIN s = 1..Len(s)
    BY LenProperties
  <1>2. s \in Bijection(1..Len(s), ToSet(s))
    BY <1>1 DEF Bijection, Injection, Surjection, ToSet
  <1>3. IsFiniteSet(1..Len(s)) /\ Cardinality(1..Len(s)) = Len(s)
    BY <1>1, FS_Interval
  <1> QED
    BY <1>2, <1>3, FS_Bijection DEF ExistsBijection

(* The positions of an element in a sequence that holds nothing twice.     *)
LEMMA DistinctCount ==
  ASSUME NEW T, NEW s \in Seq(T), IsInjective(s), NEW e
  PROVE  Cardinality({i \in DOMAIN s : s[i] = e}) = IF e \in ToSet(s) THEN 1 ELSE 0
  <1>1. CASE e \in ToSet(s)
    <2>1. PICK i \in DOMAIN s : s[i] = e
      BY <1>1 DEF ToSet
    <2>2. {j \in DOMAIN s : s[j] = e} = {i}
      BY <2>1 DEF IsInjective
    <2> QED
      BY <1>1, <2>2, FS_Singleton
  <1>2. CASE e \notin ToSet(s)
    <2>1. {j \in DOMAIN s : s[j] = e} = {}
      BY <1>2 DEF ToSet
    <2> QED
      BY <1>2, <2>1, FS_EmptySet
  <1> QED
    BY <1>1, <1>2
=============================================================================
