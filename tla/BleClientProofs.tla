--------------------------- MODULE BleClientProofs ---------------------------
(***************************************************************************)
(* Proofs about BleClient, for every set of services, every size of the    *)
(* tables and every way the stack cuts its responses.                      *)
(*                                                                         *)
(* What the client keeps is described in terms of the peer's service: the  *)
(* table lists its first characteristics in the order of their handles     *)
(* (Lists), the list of descriptors and their counts are complete up to    *)
(* some handle (Found).  Discovery says how far, in each state; the client *)
(* gets to the configuration only where that is the whole service.  That   *)
(* holds for services whose last characteristic has the end handle and     *)
(* whose descriptors never end with a wide one (Ends); for the others      *)
(* Discovery says that they are never configured: the search does not pass *)
(* a characteristic behind a wide descriptor (Held).                       *)
(***************************************************************************)
EXTENDS BleClient, FiniteSetTheorems, SequenceTheorems, WellFoundedInduction, TLAPS

-----------------------------------------------------------------------------
(* Numbers in order *)

\* A set of natural numbers has a least one.
LEMMA LeastMember ==
  ASSUME NEW S \in SUBSET Nat, S # {}
  PROVE  \E n \in S : \A m \in S : n <= m
<1>1. PICK n \in S : \A m \in S : ~ (<<m, n>> \in OpToRel(<, Nat))
  BY WFMin, NatLessThanWellFounded
<1>2. \A m \in S : ~(m < n)
  BY <1>1 DEF OpToRel
<1> QED
  BY <1>2

\* A set of natural numbers with a bound has a greatest one.
LEMMA GreatestMember ==
  ASSUME NEW M \in Nat, NEW S \in SUBSET (0..M), S # {}
  PROVE  \E n \in S : \A m \in S : m <= n
<1> DEFINE T == {M - m : m \in S}
<1>1. T \in SUBSET Nat /\ T # {}
  <2>1. ASSUME NEW m \in S PROVE M - m \in Nat
    OBVIOUS
  <2> QED
    BY <2>1
<1>2. PICK t \in T : \A u \in T : t <= u
  BY <1>1, LeastMember
<1>3. PICK n \in S : t = M - n
  BY <1>2
<1>4. ASSUME NEW m \in S PROVE m <= n
  <2>1. M - n <= M - m
    BY <1>2, <1>3
  <2> QED
    BY <2>1
<1> QED
  BY <1>4

\* A finite set of handles.
Numbers(S) == S \in SUBSET Nat /\ \E M \in Nat : S \subseteq 0..M

\* Such a set is finite, and so is every part of it.
LEMMA NumbersFinite ==
  ASSUME NEW S, Numbers(S)
  PROVE  /\ IsFiniteSet(S) /\ Cardinality(S) \in Nat
         /\ \A T \in SUBSET S : Numbers(T) /\ IsFiniteSet(T)
                                /\ Cardinality(T) \in Nat /\ Cardinality(T) <= Cardinality(S)
<1>1. PICK M \in Nat : S \subseteq 0..M
  BY DEF Numbers
<1>2. IsFiniteSet(0..M)
  BY FS_Interval
<1>3. IsFiniteSet(S)
  BY <1>1, <1>2, FS_Subset
<1>4. ASSUME NEW T \in SUBSET S
      PROVE  Numbers(T) /\ IsFiniteSet(T) /\ Cardinality(T) \in Nat /\ Cardinality(T) <= Cardinality(S)
  <2>1. Numbers(T)
    BY DEF Numbers
  <2>2. IsFiniteSet(T) /\ Cardinality(T) <= Cardinality(S)
    BY <1>3, FS_Subset
  <2> QED
    BY <2>1, <2>2, FS_CardinalityType
<1> QED
  BY <1>3, <1>4, FS_CardinalityType

\* A place is a natural number, and the greater the number the greater its place.
LEMMA RankRises ==
  ASSUME NEW S, Numbers(S), NEW g \in S
  PROVE  /\ Rank(S, g) \in Nat /\ Rank(S, g) < Cardinality(S)
         /\ \A h \in S : g < h => Rank(S, g) < Rank(S, h)
<1>1. S \subseteq Nat
  BY DEF Numbers
<1>2. ASSUME NEW T \in SUBSET S, \A x \in S : x < g => x \in T, g \in T
      PROVE  Rank(S, g) \in Nat /\ Rank(S, g) < Cardinality(T)
  <2> DEFINE B == {x \in S : x < g}
  <2>1. IsFiniteSet(B) /\ Cardinality(B) \in Nat
    BY NumbersFinite
  <2>2. IsFiniteSet(T) /\ Cardinality(T) \in Nat
    BY NumbersFinite
  <2>3. g \notin B /\ B \subseteq T
    <3>1. ~(g < g)
      BY <1>1
    <3> QED
      BY <1>2, <3>1
  <2>4. Cardinality(B) <= Cardinality(T) /\ Cardinality(B) # Cardinality(T)
    BY <1>2, <2>2, <2>3, FS_Subset
  <2> QED
    BY <2>1, <2>2, <2>4 DEF Rank
<1>3. Rank(S, g) \in Nat /\ Rank(S, g) < Cardinality(S)
  BY <1>2
<1>4. ASSUME NEW h \in S, g < h PROVE Rank(S, g) < Rank(S, h)
  <2>1. \A x \in S : x < g => x \in {y \in S : y < h}
    BY <1>1, <1>4
  <2>2. Rank(S, g) < Cardinality({y \in S : y < h})
    BY <1>2, <1>4, <2>1
  <2> QED
    BY <2>2 DEF Rank
<1> QED
  BY <1>3, <1>4

\* Two members with the same place are the same.
LEMMA RankUnique ==
  ASSUME NEW S, Numbers(S), NEW g \in S, NEW h \in S
  PROVE  /\ Rank(S, g) = Rank(S, h) => g = h
         /\ Rank(S, g) < Rank(S, h) <=> g < h
<1>1. g \in Nat /\ h \in Nat
  BY DEF Numbers
<1>2. Rank(S, g) \in Nat /\ Rank(S, h) \in Nat
  BY RankRises
<1>3. (g < h => Rank(S, g) < Rank(S, h)) /\ (h < g => Rank(S, h) < Rank(S, g))
  BY RankRises
<1> QED
  BY <1>1, <1>2, <1>3

\* Every place is taken.
LEMMA RankReached ==
  ASSUME NEW S, Numbers(S), NEW k \in Nat, k < Cardinality(S)
  PROVE  \E h \in S : Rank(S, h) = k
<1>1. S \subseteq Nat /\ \A T \in SUBSET S : Numbers(T) /\ IsFiniteSet(T)
  BY NumbersFinite DEF Numbers
<1>2. IsFiniteSet(S) /\ Cardinality(S) \in Nat
  BY NumbersFinite
\* The greatest member below which all are is one place before.
<1>3. ASSUME NEW T \in SUBSET S, T # {}
      PROVE  \E g \in T : (\A h \in T : h <= g) /\ Cardinality({h \in T : h < g}) = Cardinality(T) - 1
  <2>1. PICK M \in Nat : T \subseteq 0..M
    BY <1>1 DEF Numbers
  <2>2. PICK g \in T : \A h \in T : h <= g
    BY <1>3, <2>1, GreatestMember
  <2>3. {h \in T : h < g} = T \ {g}
    <3>1. ASSUME NEW h \in T PROVE h < g <=> h # g
      BY <1>1, <2>2
    <3> QED
      BY <3>1
  <2>4. IsFiniteSet(T)
    BY <1>1
  <2>5. Cardinality(T \ {g}) = Cardinality(T) - 1
    BY <2>4, FS_RemoveElement
  <2> QED
    BY <2>2, <2>3, <2>5
<1> DEFINE A == {h \in S : Rank(S, h) >= k}
<1>4. A # {} /\ A \in SUBSET Nat
  <2>1. S # {}
    BY <1>2, FS_EmptySet
  <2>2. PICK g \in S : Cardinality({h \in S : h < g}) = Cardinality(S) - 1
    BY <1>3, <2>1
  <2>3. Rank(S, g) >= k
    BY <1>2, <2>2 DEF Rank
  <2> QED
    BY <1>1, <2>3
<1>5. PICK h \in A : \A g \in A : h <= g
  BY <1>4, LeastMember
<1>6. h \in S /\ Rank(S, h) \in Nat /\ Rank(S, h) >= k /\ h \in Nat
  BY <1>1, <1>5, RankRises
<1>7. ASSUME Rank(S, h) # k PROVE FALSE
  <2> DEFINE T == {x \in S : x < h}
  <2>1. T \in SUBSET S /\ Cardinality(T) = Rank(S, h) /\ IsFiniteSet(T)
    BY <1>1 DEF Rank
  <2>2. T # {}
    BY <1>6, <1>7, <2>1, FS_EmptySet
  <2>3. PICK g \in T : (\A x \in T : x <= g) /\ Cardinality({x \in T : x < g}) = Cardinality(T) - 1
    BY <1>3, <2>1, <2>2
  <2>4. {x \in S : x < g} = {x \in T : x < g}
    <3>1. g \in Nat /\ h \in Nat /\ g < h
      BY <1>1, <1>6, <2>3
    <3>2. ASSUME NEW x \in S PROVE x < g <=> x < h /\ x < g
      BY <1>1, <3>1
    <3> QED
      BY <3>2
  <2>5. Rank(S, g) = Rank(S, h) - 1
    BY <2>1, <2>3, <2>4 DEF Rank
  <2>6. Rank(S, g) >= k
    BY <1>6, <1>7, <2>5
  <2>7. g \in A /\ g < h /\ g \in Nat
    BY <1>1, <2>3, <2>6
  <2> QED
    BY <1>5, <1>6, <2>7
<1> QED
  BY <1>6, <1>7

\* InOrder lists every member of a set of numbers, the smaller ones first.
LEMMA InOrderFacts ==
  ASSUME NEW S, Numbers(S)
  PROVE  /\ InOrder(S) \in Seq(S) /\ Len(InOrder(S)) = Cardinality(S)
         /\ DOMAIN InOrder(S) = 1..Cardinality(S)
         /\ \A k \in 1..Cardinality(S) : InOrder(S)[k] \in S /\ Rank(S, InOrder(S)[k]) = k - 1
         /\ \A k, l \in 1..Cardinality(S) : k < l => InOrder(S)[k] < InOrder(S)[l]
         /\ \A h \in S : \E k \in 1..Cardinality(S) : InOrder(S)[k] = h
<1>1. Cardinality(S) \in Nat
  BY NumbersFinite
<1>2. DOMAIN InOrder(S) = 1..Cardinality(S)
  BY DEF InOrder
<1>3. ASSUME NEW k \in 1..Cardinality(S)
      PROVE  InOrder(S)[k] \in S /\ Rank(S, InOrder(S)[k]) = k - 1
  <2>1. k - 1 \in Nat /\ k - 1 < Cardinality(S)
    BY <1>1
  <2>2. \E h \in S : Rank(S, h) = k - 1
    BY <2>1, RankReached
  <2>3. InOrder(S)[k] = CHOOSE h \in S : Rank(S, h) = k - 1
    BY DEF InOrder
  <2> QED
    BY <2>2, <2>3
<1>4. InOrder(S) \in [1..Cardinality(S) -> S]
  <2>1. InOrder(S) = [k \in 1..Cardinality(S) |-> InOrder(S)[k]]
    BY DEF InOrder
  <2> QED
    BY <1>3, <2>1
<1>5. InOrder(S) \in Seq(S) /\ Len(InOrder(S)) = Cardinality(S)
  BY <1>1, <1>4
<1>6. ASSUME NEW k \in 1..Cardinality(S), NEW l \in 1..Cardinality(S), k < l
      PROVE  InOrder(S)[k] < InOrder(S)[l]
  <2>1. Rank(S, InOrder(S)[k]) < Rank(S, InOrder(S)[l])
    BY <1>1, <1>3, <1>6
  <2> QED
    BY <1>3, <2>1, RankUnique
<1>7. ASSUME NEW h \in S PROVE \E k \in 1..Cardinality(S) : InOrder(S)[k] = h
  <2>1. Rank(S, h) \in Nat /\ Rank(S, h) < Cardinality(S)
    BY RankRises
  <2>2. Rank(S, h) + 1 \in 1..Cardinality(S)
    BY <1>1, <2>1
  <2>3. Rank(S, InOrder(S)[Rank(S, h) + 1]) = Rank(S, h)
    BY <1>3, <2>1, <2>2
  <2> QED
    BY <1>3, <2>2, <2>3, RankUnique
<1> QED
  BY <1>2, <1>3, <1>5, <1>6, <1>7

\* The first members of a set are the ones up to the last of them.
LEMMA FirstOfFacts ==
  ASSUME NEW S, Numbers(S), S # {}, NEW b \in Nat, b >= 1
  PROVE  \E l \in FirstOf(S, b) :
           /\ FirstOf(S, b) = {h \in S : h <= l} /\ Numbers(FirstOf(S, b))
           /\ Cardinality(FirstOf(S, b)) >= 1 /\ Last(InOrder(FirstOf(S, b))) = l
<1> DEFINE F == FirstOf(S, b)
<1>1. F \in SUBSET S /\ Numbers(F) /\ IsFiniteSet(F) /\ Cardinality(F) \in Nat /\ S \subseteq Nat
  BY NumbersFinite DEF FirstOf, Numbers
<1>2. F # {}
  <2>1. PICK h \in S : \A g \in S : h <= g
    BY <1>1, LeastMember
  <2>2. {g \in S : g < h} = {}
    <3>1. ASSUME NEW g \in S PROVE ~(g < h)
      BY <1>1, <2>1
    <3> QED
      BY <3>1
  <2>3. Rank(S, h) = 0
    BY <2>2, FS_EmptySet DEF Rank
  <2> QED
    BY <2>3 DEF FirstOf
<1>3. Cardinality(F) >= 1
  BY <1>1, <1>2, FS_EmptySet
<1> DEFINE l == InOrder(F)[Cardinality(F)]
<1>4. l \in F /\ \A h \in F : h <= l
  <2>1. Cardinality(F) \in 1..Cardinality(F)
    BY <1>1, <1>3
  <2>2. l \in F
    BY <1>1, <2>1, InOrderFacts
  <2>3. ASSUME NEW h \in F PROVE h <= l
    <3>1. PICK k \in 1..Cardinality(F) : InOrder(F)[k] = h
      BY <1>1, InOrderFacts
    <3>2. k < Cardinality(F) => h < l
      BY <1>1, <2>1, <3>1, InOrderFacts
    <3>3. CASE k = Cardinality(F)
      <4>1. h = l
        BY <3>1, <3>3
      <4>2. l \in Nat
        BY <1>1, <2>2
      <4> HIDE DEF l
      <4> QED
        BY <4>1, <4>2
    <3>4. CASE k < Cardinality(F)
      <4>1. h < l /\ l \in Nat /\ h \in Nat
        BY <1>1, <2>2, <3>2, <3>4
      <4> HIDE DEF l
      <4> QED
        BY <4>1
    <3> QED
      BY <1>1, <3>3, <3>4
  <2> QED
    BY <2>2, <2>3
<1>5. \A h \in S : h <= l => h \in F
  <2> SUFFICES ASSUME NEW h \in S, h <= l, h # l PROVE h \in F
    BY <1>4
  <2>1. l \in S /\ Rank(S, l) < b /\ Rank(S, l) \in Nat /\ Rank(S, h) \in Nat
    BY <1>1, <1>4, RankRises DEF FirstOf
  <2>2. Rank(S, h) < Rank(S, l)
    <3> HIDE DEF l
    <3>1. h < l
      BY <1>1, <2>1
    <3> QED
      BY <2>1, <3>1, RankUnique
  <2>3. Rank(S, h) < b
    BY <2>1, <2>2
  <2> QED
    BY <2>3 DEF FirstOf
<1>6. Last(InOrder(F)) = l
  BY <1>1, InOrderFacts DEF Last
<1> HIDE DEF l, F
<1>7. F = {h \in S : h <= l}
  BY <1>1, <1>4, <1>5
<1> QED
  BY <1>1, <1>3, <1>4, <1>6, <1>7 DEF F

\* Counting up to l goes on from m with the members in between.
LEMMA CountOn ==
  ASSUME NEW S, Numbers(S), NEW m \in Nat, NEW l \in Nat, m <= l
  PROVE  /\ Cardinality({h \in S : h < l}) = Cardinality({h \in S : h < m}) + Cardinality({h \in S : m <= h /\ h < l})
         /\ Cardinality({h \in S : h < l}) \in Nat /\ Cardinality({h \in S : h < m}) \in Nat
         /\ Cardinality({h \in S : m <= h /\ h < l}) \in Nat
<1> DEFINE A == {h \in S : h < m}
           B == {h \in S : m <= h /\ h < l}
           C == {h \in S : h < l}
<1>1. S \subseteq Nat
  BY DEF Numbers
<1>2. /\ IsFiniteSet(A) /\ IsFiniteSet(B) /\ Cardinality(A) \in Nat /\ Cardinality(B) \in Nat
      /\ Cardinality(C) \in Nat
  BY NumbersFinite
<1>3. A \cup B = C /\ A \cap B = {}
  <2>1. ASSUME NEW h \in S
        PROVE  (h < l <=> h < m \/ (m <= h /\ h < l)) /\ ~(h < m /\ m <= h)
    BY <1>1
  <2> QED
    BY <2>1
<1>4. Cardinality(A \cup B) = Cardinality(A) + Cardinality(B) - Cardinality(A \cap B)
  BY <1>2, FS_Union
<1>5. Cardinality(C) = Cardinality(A) + Cardinality(B)
  BY <1>2, <1>3, <1>4, FS_EmptySet
<1> QED
  BY <1>2, <1>5

\* The members from m on have their places behind the ones before m.
LEMMA RankBehind ==
  ASSUME NEW S, Numbers(S), NEW m \in Nat, NEW l \in Nat, NEW F,
         F = {h \in S : m <= h /\ h <= l}, NEW h \in F
  PROVE  Rank(S, h) = Cardinality({g \in S : g < m}) + Rank(F, h)
<1>1. S \subseteq Nat /\ h \in S /\ m <= h /\ h <= l
  BY DEF Numbers
<1>2. Cardinality({g \in S : g < h}) = Cardinality({g \in S : g < m}) + Cardinality({g \in S : m <= g /\ g < h})
  BY <1>1, CountOn
<1>3. {g \in S : m <= g /\ g < h} = {g \in F : g < h}
  <2>1. ASSUME NEW g \in S PROVE m <= g /\ g < h <=> (m <= g /\ g <= l) /\ g < h
    BY <1>1
  <2> QED
    BY <2>1
<1> QED
  BY <1>2, <1>3 DEF Rank

-----------------------------------------------------------------------------
(* The attributes of a service *)

\* The handles of a service: start, last attribute, end.
LEMMA ServiceFacts ==
  ASSUME NEW s \in Services
  PROVE  /\ s.start \in Nat /\ s.start >= 1 /\ LastOf(s) \in Nat /\ s.start <= LastOf(s)
         /\ EndOf(s) \in Nat /\ LastOf(s) <= EndOf(s) /\ EndOf(s) <= MaxHandle /\ MaxHandle \in Nat
         /\ s.attrs \in Seq(AttrKind) /\ LastOf(s) = s.start + Len(s.attrs)
         /\ EndOf(s) = LastOf(s) + s.slack /\ s.slack \in Nat
         /\ DOMAIN s.attrs = 1..Len(s.attrs) /\ Len(s.attrs) \in Nat
         /\ s # Absent
<1>1. s \in [start : Nat \ {0}, attrs : Seq(AttrKind), slack : Nat, wide : SUBSET Nat]
      /\ s # Absent /\ EndOf(s) \in Handles
  BY ServicesAssumption
<1>2. s.start \in Nat /\ s.start >= 1 /\ s.attrs \in Seq(AttrKind) /\ s.slack \in Nat
  BY <1>1
<1>3. Len(s.attrs) \in Nat /\ DOMAIN s.attrs = 1..Len(s.attrs)
  BY <1>2
<1>4. LastOf(s) \in Nat /\ s.start <= LastOf(s) /\ LastOf(s) = s.start + Len(s.attrs)
  BY <1>2, <1>3 DEF LastOf
<1>5. EndOf(s) \in Nat /\ LastOf(s) <= EndOf(s) /\ EndOf(s) = LastOf(s) + s.slack
  BY <1>2, <1>4 DEF EndOf
<1>6. MaxHandle \in Nat
  BY DEF MaxHandle
<1>7. EndOf(s) <= MaxHandle
  BY <1>1, <1>5, <1>6 DEF Handles
<1> QED
  BY <1>1, <1>2, <1>3, <1>4, <1>5, <1>6, <1>7

\* What the attribute at a handle tells of its neighbours.
LEMMA AttrFacts ==
  ASSUME NEW s \in Services, NEW h \in Nat, s.start < h, h <= LastOf(s)
  PROVE  /\ h \in InService(s) /\ KindAt(s, h) \in AttrKind
         /\ KindAt(s, h) = "chara" <=> h \in CharasOf(s)
         /\ KindAt(s, h) = "chara" => h + 1 <= LastOf(s) /\ KindAt(s, h + 1) = "value"
         /\ KindAt(s, h) = "value" => h - 1 \in CharasOf(s)
<1> DEFINE k == h - s.start
<1>1. /\ s.start \in Nat /\ Len(s.attrs) \in Nat /\ LastOf(s) = s.start + Len(s.attrs)
      /\ s.attrs \in Seq(AttrKind) /\ DOMAIN s.attrs = 1..Len(s.attrs)
  BY ServiceFacts
<1>2. k \in 1..Len(s.attrs) /\ KindAt(s, h) = s.attrs[k]
  BY <1>1 DEF KindAt
<1>3. h \in InService(s)
  BY <1>1 DEF InService
<1>4. s.attrs[k] \in AttrKind
  BY <1>1, <1>2
<1>5. KindAt(s, h) = "chara" <=> h \in CharasOf(s)
  BY <1>3 DEF CharasOf
<1>6. \A i \in 1..Len(s.attrs) :
        /\ s.attrs[i] = "chara" => i < Len(s.attrs)
        /\ s.attrs[i] = "value" <=> i > 1 /\ s.attrs[i - 1] = "chara"
  BY <1>1, ServicesAssumption
<1>7. ASSUME KindAt(s, h) = "chara" PROVE h + 1 <= LastOf(s) /\ KindAt(s, h + 1) = "value"
  <2>1. k < Len(s.attrs) /\ s.attrs[k] = "chara"
    BY <1>2, <1>6, <1>7
  <2>2. k + 1 \in 1..Len(s.attrs) /\ (k + 1) - 1 = k /\ k + 1 > 1
    BY <1>1, <1>2, <2>1
  <2>3. s.attrs[k + 1] = "value"
    BY <1>6, <2>1, <2>2
  <2>4. h + 1 > s.start /\ (h + 1) - s.start = k + 1
    BY <1>1
  <2> QED
    BY <1>1, <1>2, <2>1, <2>3, <2>4 DEF KindAt
<1>8. ASSUME KindAt(s, h) = "value" PROVE h - 1 \in CharasOf(s)
  <2>1. k > 1 /\ s.attrs[k - 1] = "chara"
    BY <1>2, <1>6, <1>8
  <2>2. h - 1 > s.start /\ (h - 1) - s.start = k - 1 /\ h - 1 <= LastOf(s) /\ h - 1 \in Nat
    BY <1>1, <2>1
  <2>3. h - 1 \in InService(s) /\ KindAt(s, h - 1) = "chara"
    BY <1>1, <2>1, <2>2 DEF InService, KindAt
  <2> QED
    BY <2>3 DEF CharasOf
<1> QED
  BY <1>2, <1>3, <1>4, <1>5, <1>7, <1>8

\* Behind the declaration of a characteristic lies its value.
LEMMA CharaFacts ==
  ASSUME NEW s \in Services, NEW h \in CharasOf(s)
  PROVE  /\ h \in Nat /\ s.start < h /\ h + 1 <= LastOf(s) /\ KindAt(s, h + 1) = "value"
         /\ h + 1 \notin CharasOf(s) /\ h \notin DescsOf(s) /\ h + 1 \notin DescsOf(s)
<1>1. h \in Nat /\ s.start < h /\ h <= LastOf(s) /\ KindAt(s, h) = "chara"
  BY ServiceFacts DEF CharasOf, InService
<1>2. h + 1 <= LastOf(s) /\ KindAt(s, h + 1) = "value"
  BY <1>1, AttrFacts
<1> QED
  BY <1>1, <1>2 DEF CharasOf, DescsOf

\* Characteristics and descriptors lie within the service.
LEMMA HandlesBounded ==
  ASSUME NEW s \in Services
  PROVE  /\ Numbers(CharasOf(s)) /\ Numbers(DescsOf(s))
         /\ CharasOf(s) \subseteq Nat /\ DescsOf(s) \subseteq Nat
         /\ \A h \in CharasOf(s) : s.start < h /\ h < LastOf(s)
         /\ \A h \in DescsOf(s) : s.start < h /\ h <= LastOf(s)
<1>1. s.start \in Nat /\ LastOf(s) \in Nat
  BY ServiceFacts
<1>2. \A h \in CharasOf(s) : h \in Nat /\ s.start < h /\ h <= LastOf(s)
  BY <1>1 DEF CharasOf, InService
<1>3. \A h \in DescsOf(s) : h \in Nat /\ s.start < h /\ h <= LastOf(s)
  BY <1>1 DEF DescsOf, InService
<1>4. CharasOf(s) \subseteq 0..LastOf(s) /\ DescsOf(s) \subseteq 0..LastOf(s)
  BY <1>1, <1>2, <1>3
<1>5. \A h \in CharasOf(s) : h < LastOf(s)
  <2> SUFFICES ASSUME NEW h \in CharasOf(s) PROVE h < LastOf(s)
    OBVIOUS
  <2>1. h \in Nat /\ h + 1 <= LastOf(s)
    BY CharaFacts
  <2> QED
    BY <1>1, <2>1
<1> QED
  BY <1>1, <1>2, <1>3, <1>4, <1>5 DEF Numbers

\* Between two characteristics, and behind the value of the first, there are
\* only descriptors.
LEMMA OnlyDescs ==
  ASSUME NEW s \in Services, NEW g \in CharasOf(s), NEW h \in Nat, g + 1 < h, h <= LastOf(s),
         \A x \in CharasOf(s) : ~(g < x /\ x <= h)
  PROVE  KindAt(s, h) # "value" /\ (h \notin s.wide => h \in DescsOf(s))
<1>1. g \in Nat /\ s.start < g /\ s.start \in Nat
  BY CharaFacts, ServiceFacts
<1>2. s.start < h
  BY <1>1
<1>3. h \in InService(s) /\ KindAt(s, h) # "chara"
  BY <1>1, <1>2, AttrFacts
<1>4. KindAt(s, h) # "value"
  <2>1. ~(h - 1 \in CharasOf(s))
    BY <1>1
  <2> QED
    BY <1>2, <2>1, AttrFacts
<1>5. ASSUME h \notin s.wide PROVE h \in DescsOf(s)
  BY <1>1, <1>3, <1>4, <1>5 DEF DescsOf
<1> QED
  BY <1>4, <1>5

\* A descriptor lies behind the value of the last characteristic before it.
LEMMA OwnerOf ==
  ASSUME NEW s \in Services, NEW h \in DescsOf(s)
  PROVE  \E g \in CharasOf(s) : g + 1 < h /\ \A x \in CharasOf(s) : x < h => x <= g
<1>1. Numbers(CharasOf(s)) /\ CharasOf(s) \subseteq Nat /\ h \in Nat
  BY HandlesBounded
<1> DEFINE B == {x \in CharasOf(s) : x < h}
<1>2. B # {}
  BY DEF DescsOf
<1>3. \A x \in B : x \in 0..h
  BY <1>1
<1>4. PICK g \in B : \A x \in B : x <= g
  BY <1>1, <1>2, <1>3, GreatestMember
<1>5. g \in CharasOf(s) /\ g < h /\ g \in Nat /\ h # g + 1
  BY <1>1, <1>4, CharaFacts
<1> QED
  BY <1>1, <1>4, <1>5

-----------------------------------------------------------------------------
(* The table of the characteristics *)

\* A table that holds the first n characteristics of s in order, and nothing
\* behind them.
Lists(table, n, s) ==
  \A i \in 0..(MaxChara - 1) :
    IF i < n
    THEN /\ table[i].handle \in CharasOf(s)
         /\ Rank(CharasOf(s), table[i].handle) = i
         /\ table[i].valueHandle = table[i].handle + 1
    ELSE table[i].handle = 0 /\ table[i].valueHandle = 0

\* The last attribute of the service is the value of its last characteristic,
\* and no descriptors end with a wide one.
Ends(s) == EndOf(s) - 1 \in CharasOf(s) /\ NoWideTail(s)

\* A plain service ends so.
LEMMA PlainEnds ==
  ASSUME NEW s \in Services, Plain(s)
  PROVE  Ends(s)
<1>1. /\ s.attrs # << >> /\ s.attrs[Len(s.attrs)] = "value" /\ s.slack = 0
  BY DEF Plain, EndsWithValue, Last
<1>6. NoWideTail(s)
  BY DEF Plain
<1>2. /\ s.start \in Nat /\ Len(s.attrs) \in Nat /\ s.attrs \in Seq(AttrKind)
      /\ EndOf(s) = s.start + Len(s.attrs) /\ EndOf(s) = LastOf(s)
  BY <1>1, ServiceFacts
<1>3. Len(s.attrs) # 0
  BY <1>1, <1>2, EmptySeq
<1>4. EndOf(s) > s.start /\ EndOf(s) - s.start = Len(s.attrs) /\ EndOf(s) \in Nat
  BY <1>2, <1>3
<1>5. KindAt(s, EndOf(s)) = "value"
  BY <1>1, <1>4 DEF KindAt
<1> QED
  BY <1>2, <1>4, <1>5, <1>6, AttrFacts DEF Ends

\* What an entry of the table says.
LEMMA EntryFacts ==
  ASSUME NEW s \in Services, NEW table, NEW n \in Nat, n <= MaxChara, Lists(table, n, s),
         NEW i \in Nat, i < n
  PROVE  /\ table[i].handle \in CharasOf(s) /\ table[i].handle \in Nat
         /\ table[i].valueHandle = table[i].handle + 1
         /\ s.start < table[i].handle /\ table[i].handle + 1 <= LastOf(s)
         /\ Rank(CharasOf(s), table[i].handle) = i
<1>1. i \in 0..(MaxChara - 1)
  BY BoundsAssumption
<1>2. /\ table[i].handle \in CharasOf(s) /\ table[i].valueHandle = table[i].handle + 1
      /\ Rank(CharasOf(s), table[i].handle) = i
  BY <1>1 DEF Lists
<1> QED
  BY <1>2, CharaFacts

\* The entries are in order and no characteristic lies between two of them.
LEMMA EntriesInOrder ==
  ASSUME NEW s \in Services, NEW table, NEW n \in Nat, n <= MaxChara, Lists(table, n, s),
         NEW i \in Nat, NEW j \in Nat, i < n, j < n
  PROVE  /\ table[i].handle < table[j].handle <=> i < j
         /\ j = i + 1 => \A x \in CharasOf(s) : ~(table[i].handle < x /\ x < table[j].handle)
<1>1. Numbers(CharasOf(s))
  BY HandlesBounded
<1>2. PICK g \in CharasOf(s) : g = table[i].handle /\ Rank(CharasOf(s), g) = i
  BY EntryFacts
<1>3. PICK h \in CharasOf(s) : h = table[j].handle /\ Rank(CharasOf(s), h) = j
  BY EntryFacts
<1>4. g < h <=> i < j
  BY <1>1, <1>2, <1>3, RankUnique
<1>5. ASSUME j = i + 1, NEW x \in CharasOf(s), g < x, x < h PROVE FALSE
  <2>1. Rank(CharasOf(s), x) \in Nat
    BY <1>1, RankRises
  <2>2. i < Rank(CharasOf(s), x) /\ Rank(CharasOf(s), x) < j
    BY <1>1, <1>2, <1>3, <1>5, RankUnique
  <2> QED
    BY <1>5, <2>1, <2>2
<1> QED
  BY <1>2, <1>3, <1>4, <1>5

\* When all have been found, every characteristic has an entry.
LEMMA EntryOf ==
  ASSUME NEW s \in Services, NEW table, NEW n \in Nat, n <= MaxChara, Lists(table, n, s),
         n = Cardinality(CharasOf(s)), NEW h \in CharasOf(s)
  PROVE  \E i \in 0..(n - 1) : table[i].handle = h
<1>1. Numbers(CharasOf(s))
  BY HandlesBounded
<1>2. PICK i \in Nat : i = Rank(CharasOf(s), h) /\ i < n
  BY <1>1, RankRises
<1>3. table[i].handle \in CharasOf(s) /\ Rank(CharasOf(s), table[i].handle) = i
  BY <1>2, EntryFacts
<1>4. table[i].handle = h
  BY <1>1, <1>2, <1>3, RankUnique
<1> QED
  BY <1>2, <1>4

\* The table has an entry for handle h.
Has(table, n, h) == \E i \in 0..(n - 1) : table[i].handle = h

LEMMA EntryFor ==
  ASSUME NEW s \in Services, NEW table, NEW n \in Nat, n <= MaxChara, Lists(table, n, s),
         n = Cardinality(CharasOf(s)), NEW h \in CharasOf(s)
  PROVE  Has(table, n, h)
BY EntryOf DEF Has

-----------------------------------------------------------------------------
(* From one characteristic to the next *)

\* Numbers up to the end of a service are handles.
LEMMA HandleRange ==
  ASSUME NEW e \in Nat, e <= MaxHandle, NEW v \in Nat, v <= e
  PROVE  v \in Handles
<1>1. MaxHandle \in Nat
  BY DEF MaxHandle
<1> QED
  BY <1>1 DEF Handles

\* Entry j is the first from i on that the next does not follow at once.
StopsAt(table, n, i, j) ==
  /\ i <= j /\ (i < n => j < n)
  /\ ~(j + 1 < n /\ table[j].valueHandle + 1 = table[j + 1].handle)
  /\ \A m \in Nat : i <= m /\ m < j =>
       m + 1 < n /\ table[m].valueHandle + 1 = table[m + 1].handle

\* FIND_INFO stops at such an entry (oc_ble_client_demo.c:121-124).
LEMMA PassedFacts ==
  ASSUME NEW table, NEW n \in Nat, NEW i \in Nat
  PROVE  Passed(table, n, i) \in Nat /\ StopsAt(table, n, i, Passed(table, n, i))
<1> DEFINE Goes(m) == m + 1 < n /\ table[m].valueHandle + 1 = table[m + 1].handle
           S == {j \in i..(i + n) : ~Goes(j)}
<1>1. S \in SUBSET Nat /\ S # {}
  <2>1. i + n \in i..(i + n) /\ ~(i + n + 1 < n)
    OBVIOUS
  <2>2. i + n \in S
    BY <2>1
  <2>3. \A k \in i..(i + n) : k \in Nat
    OBVIOUS
  <2> HIDE DEF Goes
  <2> QED
    BY <2>2, <2>3
<1>2. Passed(table, n, i) = Min(S)
  BY DEF Passed
<1>3. \E j \in S : \A k \in S : j <= k
  BY <1>1, LeastMember
<1>4. PICK j \in S : j = Passed(table, n, i) /\ \A k \in S : j <= k
  BY <1>2, <1>3 DEF Min
<1>5. j \in Nat /\ i <= j /\ j <= i + n /\ ~Goes(j)
  BY <1>4
<1>6. ASSUME NEW m \in Nat, i <= m, m < j PROVE Goes(m)
  <2>1. m \notin S
    BY <1>4, <1>5, <1>6
  <2> HIDE DEF Goes
  <2> QED
    BY <1>5, <1>6, <2>1
<1>7. ASSUME i < n PROVE j < n
  <2>1. CASE j = i
    BY <1>7, <2>1
  <2>2. CASE j # i
    <3>1. j - 1 \in Nat /\ i <= j - 1 /\ j - 1 < j
      BY <1>5, <2>2
    <3>2. Goes(j - 1)
      BY <1>6, <3>1
    <3> QED
      BY <1>5, <3>2
  <2> QED
    BY <2>1, <2>2
<1> QED
  BY <1>4, <1>5, <1>6, <1>7 DEF StopsAt

\* Between characteristics that follow each other there is no descriptor.
LEMMA NoneBetween ==
  ASSUME NEW s \in Services, NEW table, NEW n \in Nat, n <= MaxChara, Lists(table, n, s),
         n = Cardinality(CharasOf(s)), NEW i \in Nat, NEW j \in Nat, i <= j, j < n,
         \A m \in Nat : i <= m /\ m < j =>
           m + 1 < n /\ table[m].valueHandle + 1 = table[m + 1].handle,
         NEW h \in DescsOf(s), table[i].handle <= h
  PROVE  table[j].valueHandle < h
<1>1. PICK g \in CharasOf(s) : g + 1 < h /\ \A x \in CharasOf(s) : x < h => x <= g
  BY OwnerOf
<1>2. h \in Nat /\ g \in Nat
  BY HandlesBounded
<1>3. PICK m \in 0..(n - 1) : table[m].handle = g
  BY EntryOf
<1>4. table[i].handle \in CharasOf(s) /\ table[i].handle \in Nat /\ table[i].handle # h
  <2>1. table[i].handle \in CharasOf(s) /\ table[i].handle \in Nat
    BY EntryFacts
  <2> QED
    BY <2>1, CharaFacts
<1>5. table[i].handle <= g
  BY <1>1, <1>2, <1>4
<1>6. m \in Nat /\ m < n
  BY <1>3
<1>7. i <= m
  <2>1. ~(m < i)
    BY <1>2, <1>3, <1>4, <1>5, <1>6, EntriesInOrder
  <2> QED
    BY <1>6, <2>1
<1>8. ~(m < j)
  <2> SUFFICES ASSUME m < j PROVE FALSE
    OBVIOUS
  <2>1. m + 1 < n /\ table[m].valueHandle + 1 = table[m + 1].handle
    BY <1>6, <1>7
  <2>2. table[m].valueHandle = g + 1 /\ table[m + 1].handle \in CharasOf(s) /\ table[m + 1].handle \in Nat
    BY <1>3, <1>6, <2>1, EntryFacts
  <2>3. table[m + 1].handle = g + 2
    BY <1>2, <2>1, <2>2
  <2>4. g + 2 # h
    BY <2>2, <2>3, CharaFacts
  <2>5. g + 2 < h
    BY <1>1, <1>2, <2>4
  <2>6. g + 2 <= g
    BY <1>1, <2>2, <2>3, <2>5
  <2> QED
    BY <1>2, <2>6
<1>9. table[j].handle <= g /\ table[j].handle \in Nat /\ table[j].valueHandle = table[j].handle + 1
  <2>1. table[j].handle \in Nat /\ table[j].valueHandle = table[j].handle + 1
    BY EntryFacts
  <2>2. j = m \/ j < m
    BY <1>6, <1>8
  <2>3. j < m => table[j].handle < g
    BY <1>3, <1>6, EntriesInOrder
  <2> QED
    BY <1>2, <1>3, <2>1, <2>2, <2>3
<1> QED
  BY <1>1, <1>2, <1>9

\* The characteristics behind a wide descriptor.
Tails(s) ==
  {x \in CharasOf(s) : /\ x - 1 \in s.wide /\ KindAt(s, x - 1) # "value"
                       /\ \E g \in CharasOf(s) : g < x}

\* Entry i comes before all of them.
Held(table, n, s, i) == \A x \in Tails(s) : i < n /\ table[i].handle < x

\* There are none in a service the client gets through.
LEMMA NoTails ==
  ASSUME NEW s, Tails(s) = {}
  PROVE  NoWideTail(s)
BY DEF Tails, NoWideTail

\* The first entry does.
LEMMA HeldFirst ==
  ASSUME NEW s \in Services, NEW table, NEW n \in Nat, n <= MaxChara, Lists(table, n, s),
         n = Cardinality(CharasOf(s))
  PROVE  Held(table, n, s, 0)
<1> SUFFICES ASSUME NEW x \in Tails(s) PROVE 0 < n /\ table[0].handle < x
  BY DEF Held
<1>1. PICK g \in CharasOf(s) : x \in CharasOf(s) /\ g < x /\ g \in Nat /\ x \in Nat
  BY HandlesBounded DEF Tails
<1>2. PICK k \in 0..(n - 1) : table[k].handle = g
  BY EntryOf
<1>3. 0 < n /\ k \in Nat /\ k < n /\ table[0].handle \in Nat
  BY <1>2, EntryFacts
<1>4. k # 0 => table[0].handle < g
  BY <1>2, <1>3, EntriesInOrder
<1> QED
  BY <1>1, <1>2, <1>3, <1>4

\* An entry of such a characteristic lies behind entry i.
LEMMA TailEntry ==
  ASSUME NEW s \in Services, NEW table, NEW n \in Nat, n <= MaxChara, Lists(table, n, s),
         n = Cardinality(CharasOf(s)), NEW i \in Nat, Held(table, n, s, i), NEW x \in Tails(s)
  PROVE  \E k \in Nat : /\ i < k /\ k < n /\ table[k].handle = x /\ x \in Nat
                        /\ x - 1 \in s.wide /\ KindAt(s, x - 1) # "value"
<1>1. i < n /\ table[i].handle < x
  BY DEF Held
<1>2. x \in CharasOf(s) /\ x \in Nat /\ x - 1 \in s.wide /\ KindAt(s, x - 1) # "value"
  BY HandlesBounded DEF Tails
<1>3. PICK k \in 0..(n - 1) : table[k].handle = x
  BY <1>2, EntryOf
<1>4. k \in Nat /\ k < n
  BY <1>3
<1>5. i < k
  BY <1>1, <1>3, <1>4, EntriesInOrder
<1> QED
  BY <1>2, <1>3, <1>4, <1>5

\* Passing over characteristics without descriptors does not pass over it.
LEMMA HeldOn ==
  ASSUME NEW s \in Services, NEW table, NEW n \in Nat, n <= MaxChara, Lists(table, n, s),
         n = Cardinality(CharasOf(s)), NEW i \in Nat, Held(table, n, s, i),
         NEW j \in Nat, StopsAt(table, n, i, j)
  PROVE  Held(table, n, s, j)
<1> SUFFICES ASSUME NEW x \in Tails(s) PROVE j < n /\ table[j].handle < x
  BY DEF Held
<1>1. PICK k \in Nat : /\ i < k /\ k < n /\ table[k].handle = x /\ x \in Nat
                       /\ x - 1 \in s.wide /\ KindAt(s, x - 1) # "value"
  BY TailEntry
<1>2. i <= j /\ \A m \in Nat : i <= m /\ m < j => m + 1 < n /\ table[m].valueHandle + 1 = table[m + 1].handle
  BY DEF StopsAt
<1>3. j < k
  <2> SUFFICES ASSUME k <= j PROVE FALSE
    OBVIOUS
  <2>1. PICK m \in Nat : m + 1 = k /\ i <= m /\ m < j /\ m < n
    <3>1. k - 1 \in Nat /\ (k - 1) + 1 = k /\ i <= k - 1 /\ k - 1 < j /\ k - 1 < n
      BY <1>1
    <3> QED
      BY <3>1
  <2>2. table[m].valueHandle + 1 = x
    BY <1>1, <1>2, <2>1
  <2>3. PICK g \in CharasOf(s) : g \in Nat /\ table[m].handle = g /\ table[m].valueHandle = g + 1
    BY <2>1, EntryFacts
  <2>4. KindAt(s, g + 1) = "value" /\ x - 1 = g + 1
    BY <1>1, <2>2, <2>3, CharaFacts
  <2> QED
    BY <1>1, <2>4
<1>4. j < n
  BY <1>1, <1>3
<1>5. table[j].handle < table[k].handle
  BY <1>1, <1>3, <1>4, EntriesInOrder
<1> QED
  BY <1>1, <1>4, <1>5

\* The next entry, when the descriptors before it do not end with a wide one.
LEMMA HeldNext ==
  ASSUME NEW s \in Services, NEW table, NEW n \in Nat, n <= MaxChara, Lists(table, n, s),
         n = Cardinality(CharasOf(s)), NEW i \in Nat, Held(table, n, s, i),
         NEW l \in Nat, l \notin s.wide, i + 1 < n => l + 1 = table[i + 1].handle
  PROVE  Held(table, n, s, i + 1)
<1> SUFFICES ASSUME NEW x \in Tails(s) PROVE i + 1 < n /\ table[i + 1].handle < x
  BY DEF Held
<1>1. PICK k \in Nat : /\ i < k /\ k < n /\ table[k].handle = x /\ x \in Nat
                       /\ x - 1 \in s.wide /\ KindAt(s, x - 1) # "value"
  BY TailEntry
<1>2. PICK q \in Nat : q = i + 1 /\ q < n /\ q <= k /\ l + 1 = table[q].handle
  BY <1>1
<1>3. q # k
  <2> SUFFICES ASSUME q = k PROVE FALSE
    OBVIOUS
  <2>1. l = x - 1
    BY <1>1, <1>2
  <2> QED
    BY <1>1, <2>1
<1>4. table[q].handle < table[k].handle
  BY <1>1, <1>2, <1>3, EntriesInOrder
<1> QED
  BY <1>1, <1>2, <1>4

\* What FindInfo comes to at entry j of the table: the access behind the array,
\* the question for the descriptors, or the configuration.
Leaves(j) ==
  j >= MaxChara /\ corrupt' = TRUE /\ UNCHANGED <<state, proc, written, config_index>>

Asks(table, n, s, i, j) ==
  /\ j < MaxChara /\ corrupt' = corrupt /\ state' = "info"
  /\ written' = written /\ config_index' = config_index
  /\ \E from, to \in Handles :
       /\ proc' = [kind |-> "info", from |-> from, to |-> to]
       /\ from >= 1 /\ to <= EndOf(s)
       /\ j + 1 < n => to = table[j + 1].handle - 1
       /\ i < n /\ Ends(s) => j + 1 < n /\ from <= to /\ from = table[j].valueHandle + 1

Configures(table, n, s, descs, j) ==
  /\ j + 1 = n /\ Ends(s) /\ table[j].valueHandle = EndOf(s)
  /\ corrupt' = corrupt /\ SetConfig(descs)

\* These three are all FIND_INFO can come to (oc_ble_client_demo.c:118-152).
LEMMA FindInfoFacts ==
  ASSUME NEW s \in Services, NEW table, NEW n \in Nat, n <= MaxChara, Lists(table, n, s),
         n = Cardinality(CharasOf(s)), prime.endHandle = EndOf(s),
         NEW i \in Nat, Held(table, n, s, i), NEW descs, FindInfo(table, n, descs, i)
  PROVE  \E j \in Nat :
           /\ find_info_index' = j /\ StopsAt(table, n, i, j) /\ Held(table, n, s, j)
           /\ Leaves(j) \/ Asks(table, n, s, i, j) \/ Configures(table, n, s, descs, j)
<1>1. PICK j \in Nat : j = Passed(table, n, i)
  BY PassedFacts
<1>2. find_info_index' = j
  BY <1>1 DEF FindInfo
<1>8. StopsAt(table, n, i, j) /\ Held(table, n, s, j)
  <2>1. StopsAt(table, n, i, j)
    BY <1>1, PassedFacts
  <2> QED
    BY <2>1, HeldOn
<1>3. ~(j + 1 < n /\ table[j].valueHandle + 1 = table[j + 1].handle) /\ i <= j /\ (i < n => j < n)
  BY <1>8 DEF StopsAt
<1>4. EndOf(s) \in Nat /\ LastOf(s) \in Nat /\ LastOf(s) <= EndOf(s) /\ EndOf(s) <= MaxHandle /\ MaxHandle \in Nat /\ s.start >= 1 /\ s.start \in Nat /\ s.start <= LastOf(s)
  BY ServiceFacts
<1>0. MaxChara \in Nat
  BY BoundsAssumption
<1>5. CASE j >= MaxChara
  <2>1. corrupt' = TRUE /\ UNCHANGED <<state, proc, written, config_index>>
    BY <1>0, <1>1, <1>5 DEF FindInfo
  <2> QED
    BY <1>2, <1>8, <1>5, <2>1 DEF Leaves
<1>6. CASE j < MaxChara /\ j + 1 < n
  <2>1. state' = "info" /\ corrupt' = corrupt /\ written' = written /\ config_index' = config_index
        /\ proc' = [kind |-> "info", from |-> table[j].valueHandle + 1, to |-> table[j + 1].handle - 1]
    BY <1>0, <1>1, <1>6 DEF FindInfo, Ask
  <2>2. /\ table[j].handle \in Nat /\ table[j].valueHandle = table[j].handle + 1 /\ table[j].handle > s.start
        /\ table[j + 1].handle \in Nat /\ table[j + 1].handle + 1 <= LastOf(s)
    BY <1>6, EntryFacts
  <2>3. table[j + 1].handle \in CharasOf(s) /\ table[j].handle + 1 \notin CharasOf(s)
    BY <1>6, EntryFacts, CharaFacts
  <2>4. table[j].handle < table[j + 1].handle
    BY <1>6, EntriesInOrder
  <2>5. table[j].valueHandle + 1 < table[j + 1].handle
    BY <1>3, <1>6, <2>2, <2>3, <2>4
  <2> DEFINE from == table[j].valueHandle + 1
             to == table[j + 1].handle - 1
  <2>6. from \in Handles /\ to \in Handles /\ from >= 1 /\ to <= EndOf(s) /\ from <= to
    <3>1. PICK e \in Nat : e = EndOf(s) /\ e <= MaxHandle /\ LastOf(s) <= e
      BY <1>4
    <3>2. from \in Nat /\ to \in Nat /\ from >= 1 /\ from <= to /\ to <= e
      BY <1>4, <2>2, <2>5, <3>1
    <3>3. from <= e
      BY <3>2, <3>1
    <3> HIDE DEF from, to
    <3>4. from \in Handles /\ to \in Handles
      BY <3>1, <3>2, <3>3, HandleRange
    <3> QED
      BY <3>1, <3>2, <3>4
  <2> QED
    BY <1>2, <1>8, <1>6, <2>1, <2>6 DEF Asks
<1>7. CASE j < MaxChara /\ ~(j + 1 < n)
  <2>1. corrupt' = corrupt
    BY <1>0, <1>1, <1>7 DEF FindInfo
  <2>2. j \in 0..(MaxChara - 1)
    BY <1>0, <1>7
  <2>3. CASE prime.endHandle >= table[j].valueHandle + 1
    <3>1. state' = "info" /\ written' = written /\ config_index' = config_index
          /\ proc' = [kind |-> "info", from |-> table[j].valueHandle + 1, to |-> EndOf(s)]
      BY <1>0, <1>1, <1>7, <2>3 DEF FindInfo, Ask
    <3>2. table[j].valueHandle \in Nat
      <4>1. CASE j < n
        BY <4>1, EntryFacts
      <4>2. CASE ~(j < n)
        BY <2>2, <4>2 DEF Lists
      <4> QED
        BY <4>1, <4>2
    <3>3. ~(i < n /\ Ends(s))
      <4> SUFFICES ASSUME i < n, Ends(s) PROVE FALSE
        OBVIOUS
      <4>1. j < n
        BY <1>3
      <4>2. PICK k \in 0..(n - 1) : table[k].handle = EndOf(s) - 1
        BY EntryOf DEF Ends
      <4>3. k \in Nat /\ k < n /\ k <= j
        BY <1>7, <4>2
      <4>4. table[j].handle \in Nat /\ table[j].valueHandle = table[j].handle + 1
        BY <4>1, EntryFacts
      <4>5. table[k].handle <= table[j].handle
        <5>1. k = j \/ k < j
          BY <4>3
        <5>2. k < j => table[k].handle < table[j].handle
          BY <4>1, <4>3, EntriesInOrder
        <5> QED
          BY <1>4, <4>2, <4>4, <5>1, <5>2
      <4>6. PICK e \in Nat : e = EndOf(s)
        BY <1>4
      <4>7. PICK t \in Nat : t = table[j].handle
        BY <4>4
      <4>8. table[j].valueHandle = t + 1 /\ e >= (t + 1) + 1 /\ e - 1 <= t
        BY <2>3, <4>2, <4>4, <4>5, <4>6, <4>7
      <4> QED
        BY <4>6, <4>7, <4>8
    <3>4. table[j].valueHandle + 1 \in Handles /\ EndOf(s) \in Handles /\ table[j].valueHandle + 1 >= 1
      <4>1. PICK e \in Nat : e = EndOf(s) /\ e <= MaxHandle
        BY <1>4
      <4>2. PICK v \in Nat : v = table[j].valueHandle
        BY <3>2
      <4>3. e >= v + 1
        BY <2>3, <4>1, <4>2
      <4>4. v + 1 \in Handles /\ e \in Handles
        <5>1. PICK w \in Nat : w = v + 1 /\ w <= e
          BY <4>1, <4>3
        <5>2. w \in Handles /\ e \in Handles
          BY <4>1, <5>1, HandleRange
        <5> QED
          BY <5>1, <5>2
      <4> QED
        BY <4>1, <4>2, <4>4
    <3> QED
      BY <1>2, <1>8, <1>4, <1>7, <2>1, <3>1, <3>3, <3>4 DEF Asks
  <2>4. CASE ~(prime.endHandle >= table[j].valueHandle + 1)
    <3>1. SetConfig(descs)
      BY <1>0, <1>1, <1>7, <2>4 DEF FindInfo
    <3>2. j < n
      <4> SUFFICES ASSUME ~(j < n) PROVE FALSE
        OBVIOUS
      <4>1. table[j].valueHandle = 0
        BY <2>2 DEF Lists
      <4> QED
        BY <1>4, <2>4, <4>1
    <3>3. /\ table[j].handle \in CharasOf(s) /\ table[j].handle \in Nat
          /\ table[j].valueHandle = table[j].handle + 1 /\ table[j].handle + 1 <= LastOf(s)
      BY <3>2, EntryFacts
    <3>4. table[j].valueHandle = EndOf(s) /\ table[j].handle = EndOf(s) - 1
      BY <1>4, <2>4, <3>3
    <3>6. Tails(s) = {}
      <4> SUFFICES ASSUME NEW x \in Tails(s) PROVE FALSE
        OBVIOUS
      <4>1. \E k \in Nat : j < k /\ k < n
        BY <1>8, TailEntry
      <4> QED
        BY <1>7, <4>1
    <3>5. Ends(s) /\ j + 1 = n
      BY <1>7, <3>2, <3>3, <3>4, <3>6, NoTails DEF Ends
    <3> QED
      BY <1>2, <1>8, <2>1, <3>1, <3>4, <3>5 DEF Configures
  <2> QED
    BY <2>3, <2>4
<1> QED
  BY <1>0, <1>5, <1>6, <1>7

-----------------------------------------------------------------------------
(* The list of the descriptors *)

\* The descriptors between b and the characteristic behind entry i.
Owned(table, n, s, b, i) ==
  {h \in DescsOf(s) : h < b /\ h > table[i].handle /\ \A j \in (i + 1)..(n - 1) : h < table[j].handle}

\* The descriptors of s below handle b.
Below(s, b) == {h \in DescsOf(s) : h < b}

\* list holds the descriptors of s below b in order, and table counts each
\* with its characteristic.
Found(list, table, n, s, b) ==
  /\ HandlesOf(list) = Below(s, b)
  /\ \A k \in DOMAIN list : list[k].uuid = KindAt(s, list[k].handle)
  /\ \A k, l \in DOMAIN list : k < l => list[k].handle < list[l].handle
  /\ Len(list) = Cardinality(Below(s, b))
  /\ \A i \in 0..(n - 1) : table[i].descNum = Cardinality(Owned(table, n, s, b, i))

\* An entry of gatt_client_chara_desc.
DescEntry == [handle : Handles, uuid : AttrKind]

\* Nothing changes where there are no descriptors.
LEMMA FoundOn ==
  ASSUME NEW list, NEW table, NEW n, NEW s, NEW b, NEW c, Found(list, table, n, s, b),
         \A h \in DescsOf(s) : h < b <=> h < c
  PROVE  Found(list, table, n, s, c)
<1>1. Below(s, b) = Below(s, c)
  BY DEF Below
<1>2. ASSUME NEW i \in 0..(n - 1) PROVE Owned(table, n, s, b, i) = Owned(table, n, s, c, i)
  BY DEF Owned
<1> QED
  BY <1>1, <1>2 DEF Found

\* Before the first characteristic there is no descriptor.
LEMMA FoundNone ==
  ASSUME NEW s \in Services, NEW table, NEW n \in Nat, n <= MaxChara, Lists(table, n, s),
         n = Cardinality(CharasOf(s)), 0 < n,
         \A i \in 0..(n - 1) : table[i].descNum = 0
  PROVE  Found(<< >>, table, n, s, table[0].handle)
<1>1. ASSUME NEW h \in DescsOf(s) PROVE ~(h < table[0].handle)
  <2>1. PICK g \in CharasOf(s) : g + 1 < h
    BY OwnerOf
  <2>2. PICK m \in 0..(n - 1) : table[m].handle = g
    BY EntryOf
  <2>3. table[0].handle \in Nat /\ g \in Nat /\ h \in Nat
    BY EntryFacts, HandlesBounded
  <2>4. 0 < m => table[0].handle < g
    BY <2>2, EntriesInOrder
  <2>5. table[0].handle <= g
    <3>1. CASE m = 0
      BY <2>2, <2>3, <3>1
    <3>2. CASE m # 0
      BY <2>3, <2>4, <3>2
    <3> QED
      BY <3>1, <3>2
  <2> QED
    BY <2>1, <2>3, <2>5
<1>2. Below(s, table[0].handle) = {}
  BY <1>1 DEF Below
<1>3. \A i \in 0..(n - 1) : Owned(table, n, s, table[0].handle, i) = {}
  BY <1>1 DEF Owned
<1>4. HandlesOf(<< >>) = {} /\ Len(<< >>) = 0 /\ DOMAIN << >> = {}
  BY DEF HandlesOf
<1> QED
  BY <1>2, <1>3, <1>4, FS_EmptySet DEF Found

\* What one response to Find Information adds to the list.
Attrs(s, found) == [k \in DOMAIN found |-> [handle |-> found[k], uuid |-> KindAt(s, found[k])]]

\* The count of entry i grows by m.
Grows(table2, table, n, i, m) ==
  \A k \in 0..(n - 1) : /\ table2[k].handle = table[k].handle
                        /\ table2[k].descNum = table[k].descNum + (IF k = i THEN m ELSE 0)

\* One more stretch of descriptors behind entry i.
LEMMA FoundMore ==
  ASSUME NEW s \in Services, NEW table, NEW n \in Nat, n <= MaxChara, Lists(table, n, s),
         NEW list \in Seq(DescEntry), NEW i \in Nat, i + 1 < n, NEW b \in Nat, NEW l \in Nat,
         Found(list, table, n, s, b), table[i].valueHandle < b, b <= l,
         l < table[i + 1].handle, NEW F, F = b..l, \A h \in F : h \notin s.wide, NEW more \in Seq(DescEntry),
         more = Attrs(s, InOrder(F)), NEW table2, Grows(table2, table, n, i, Len(InOrder(F)))
  PROVE  Found(list \o more, table2, n, s, l + 1)
<1>16. /\ more = [k \in DOMAIN InOrder(F) |->
                   [handle |-> InOrder(F)[k], uuid |-> KindAt(s, InOrder(F)[k])]]
       /\ \A k \in 0..(n - 1) :
           /\ table2[k].handle = table[k].handle
           /\ table2[k].descNum = table[k].descNum + (IF k = i THEN Len(InOrder(F)) ELSE 0)
  BY DEF Attrs, Grows
<1> USE <1>16
<1>1. Numbers(F) /\ IsFiniteSet(F) /\ Cardinality(F) \in Nat /\ F \subseteq Nat
  <2>1. F \in SUBSET Nat /\ F \subseteq 0..l
    OBVIOUS
  <2> QED
    BY <2>1, NumbersFinite DEF Numbers
<1>2. /\ DOMAIN InOrder(F) = 1..Cardinality(F) /\ Len(InOrder(F)) = Cardinality(F)
      /\ \A k \in 1..Cardinality(F) : InOrder(F)[k] \in F
      /\ \A k, m \in 1..Cardinality(F) : k < m => InOrder(F)[k] < InOrder(F)[m]
      /\ \A h \in F : \E k \in 1..Cardinality(F) : InOrder(F)[k] = h
  BY ONLY <1>1, InOrderFacts
<1>3. /\ Len(more) = Cardinality(F) /\ DOMAIN more = 1..Cardinality(F)
      /\ \A k \in 1..Cardinality(F) : more[k].handle = InOrder(F)[k] /\ more[k].uuid = KindAt(s, InOrder(F)[k])
  BY <1>1, <1>2
<1>4. /\ table[i].handle \in CharasOf(s) /\ table[i].handle \in Nat /\ table[i].valueHandle = table[i].handle + 1
      /\ table[i + 1].handle \in Nat /\ table[i + 1].handle + 1 <= LastOf(s) /\ LastOf(s) \in Nat
  BY EntryFacts, ServiceFacts
<1>5. F \subseteq DescsOf(s)
  <2> SUFFICES ASSUME NEW h \in F PROVE h \in DescsOf(s)
    OBVIOUS
  <2>1. h \in Nat /\ table[i].handle + 1 < h /\ h <= LastOf(s) /\ h < table[i + 1].handle
    BY <1>4, SMTT(30)
  <2>2. \A x \in CharasOf(s) : ~(table[i].handle < x /\ x < table[i + 1].handle)
    <3>1. PICK j \in Nat : j = i + 1 /\ j < n /\ i < n
      OBVIOUS
    <3>2. \A x \in CharasOf(s) : ~(table[i].handle < x /\ x < table[j].handle)
      BY <3>1, EntriesInOrder
    <3> QED
      BY <3>1, <3>2
  <2>3. \A x \in CharasOf(s) : ~(table[i].handle < x /\ x <= h)
    <3> SUFFICES ASSUME NEW x \in CharasOf(s), table[i].handle < x, x <= h PROVE FALSE
      OBVIOUS
    <3>1. x \in Nat
      BY HandlesBounded
    <3> QED
      BY <1>4, <2>1, <2>2, <3>1
  <2> QED
    BY <1>4, <2>1, <2>3, OnlyDescs
<1>6. Below(s, l + 1) = Below(s, b) \cup F /\ Below(s, b) \cap F = {}
  <2>1. ASSUME NEW h \in DescsOf(s)
        PROVE  (h < l + 1 <=> h < b \/ h \in F) /\ ~(h < b /\ h \in F)
    <3>1. h \in Nat
      BY HandlesBounded
    <3> QED
      BY <3>1
  <2> QED
    BY <1>5, <2>1 DEF Below
<1>7. Numbers(DescsOf(s)) /\ IsFiniteSet(Below(s, b)) /\ Cardinality(Below(s, b)) \in Nat
  BY HandlesBounded, NumbersFinite DEF Below
<1>8. Cardinality(Below(s, l + 1)) = Cardinality(Below(s, b)) + Cardinality(F)
  <2>1. Cardinality(Below(s, b) \cup F)
          = Cardinality(Below(s, b)) + Cardinality(F) - Cardinality(Below(s, b) \cap F)
    BY <1>1, <1>7, FS_Union
  <2>2. Cardinality(Below(s, b) \cap F) = 0
    BY <1>6, FS_EmptySet
  <2>3. Cardinality(Below(s, b) \cup F) = Cardinality(Below(s, b)) + Cardinality(F)
    BY <1>1, <1>7, <2>1, <2>2
  <2>4. Cardinality(Below(s, l + 1)) = Cardinality(Below(s, b) \cup F)
    BY <1>6
  <2> QED
    BY <2>3, <2>4
<1> DEFINE both == list \o more
<1>9. /\ both \in Seq(DescEntry) /\ Len(list) \in Nat /\ Len(both) = Len(list) + Cardinality(F)
      /\ DOMAIN list = 1..Len(list) /\ DOMAIN both = 1..(Len(list) + Cardinality(F))
      /\ \A k \in 1..Len(list) : both[k] = list[k]
      /\ \A k \in 1..Cardinality(F) : both[Len(list) + k] = more[k]
  <2>1. /\ both \in Seq(DescEntry) /\ Len(both) = Len(list) + Len(more)
        /\ \A k \in 1..(Len(list) + Len(more)) : both[k] = IF k <= Len(list) THEN list[k] ELSE more[k - Len(list)]
    BY ConcatProperties
  <2>2. Len(list) \in Nat /\ DOMAIN list = 1..Len(list)
    OBVIOUS
  <2> HIDE DEF both
  <2>3. ASSUME NEW k \in 1..Cardinality(F) PROVE both[Len(list) + k] = more[k]
    <3>1. Len(list) + k \in 1..(Len(list) + Len(more)) /\ ~(Len(list) + k <= Len(list))
          /\ (Len(list) + k) - Len(list) = k
      BY <1>1, <1>3, <2>2
    <3> QED
      BY <2>1, <3>1
  <2>4. ASSUME NEW k \in 1..Len(list) PROVE both[k] = list[k]
    <3>1. k \in 1..(Len(list) + Len(more)) /\ k <= Len(list)
      BY <1>1, <1>3, <2>2
    <3> QED
      BY <2>1, <3>1
  <2>5. Len(both) = Len(list) + Cardinality(F) /\ both \in Seq(DescEntry)
    BY <1>3, <2>1
  <2>6. DOMAIN both = 1..(Len(list) + Cardinality(F))
    BY <2>5
  <2> QED
    BY <2>2, <2>3, <2>4, <2>5, <2>6
<1> HIDE DEF both
<1>10. \A k \in DOMAIN both : \/ k \in 1..Len(list) /\ both[k] = list[k]
                              \/ \E m \in 1..Cardinality(F) : k = Len(list) + m /\ both[k] = more[m]
  <2> SUFFICES ASSUME NEW k \in DOMAIN both
               PROVE  \/ k \in 1..Len(list) /\ both[k] = list[k]
                      \/ \E m \in 1..Cardinality(F) : k = Len(list) + m /\ both[k] = more[m]
    OBVIOUS
  <2>1. k \in 1..(Len(list) + Cardinality(F))
    BY <1>9
  <2>2. CASE k \in 1..Len(list)
    BY <1>9, <2>2
  <2>3. CASE ~(k \in 1..Len(list))
    <3>1. k - Len(list) \in 1..Cardinality(F) /\ k = Len(list) + (k - Len(list))
      BY <1>1, <1>9, <2>1, <2>3
    <3> QED
      BY <1>9, <3>1
  <2> QED
    BY <2>2, <2>3
<1>11. HandlesOf(both) = Below(s, l + 1)
  <2>1. HandlesOf(list) = Below(s, b)
    BY DEF Found
  <2>2. ASSUME NEW k \in DOMAIN both PROVE both[k].handle \in Below(s, b) \cup F
    <3>1. CASE k \in 1..Len(list) /\ both[k] = list[k]
      BY <1>9, <2>1, <3>1 DEF HandlesOf
    <3>2. CASE \E m \in 1..Cardinality(F) : k = Len(list) + m /\ both[k] = more[m]
      BY <1>2, <1>3, <3>2, SMTT(30)
    <3> QED
      BY <1>10, <3>1, <3>2
  <2>3. ASSUME NEW h \in Below(s, b) PROVE \E k \in DOMAIN both : both[k].handle = h
    <3>1. PICK k \in DOMAIN list : list[k].handle = h
      BY <2>1 DEF HandlesOf
    <3>2. k \in DOMAIN both /\ both[k] = list[k]
      BY <1>1, <1>9, <3>1
    <3> QED
      BY <3>1, <3>2
  <2>4. ASSUME NEW h \in F PROVE \E k \in DOMAIN both : both[k].handle = h
    <3>1. PICK k \in 1..Cardinality(F) : InOrder(F)[k] = h
      BY <1>2
    <3>2. Len(list) + k \in DOMAIN both
      BY <1>1, <1>9
    <3> QED
      BY <1>3, <1>9, <3>1, <3>2
  <2> QED
    BY <1>6, <2>2, <2>3, <2>4 DEF HandlesOf
<1>12. \A k \in DOMAIN both : both[k].uuid = KindAt(s, both[k].handle)
  <2> SUFFICES ASSUME NEW k \in DOMAIN both PROVE both[k].uuid = KindAt(s, both[k].handle)
    OBVIOUS
  <2>1. CASE k \in 1..Len(list) /\ both[k] = list[k]
    BY <1>9, <2>1 DEF Found
  <2>2. CASE \E m \in 1..Cardinality(F) : k = Len(list) + m /\ both[k] = more[m]
    BY <1>3, <2>2
  <2> QED
    BY <1>10, <2>1, <2>2
<1>13. \A k, m \in DOMAIN both : k < m => both[k].handle < both[m].handle
  <2> SUFFICES ASSUME NEW k \in DOMAIN both, NEW m \in DOMAIN both, k < m
               PROVE  both[k].handle < both[m].handle
    OBVIOUS
  <2>1. CASE k \in 1..Len(list) /\ m \in 1..Len(list)
    BY <1>9, <2>1 DEF Found
  <2>2. CASE k \in 1..Len(list) /\ ~(m \in 1..Len(list))
    <3>1. PICK y \in 1..Cardinality(F) : both[m] = more[y]
      BY <1>10, <2>2
    <3>2. both[m].handle \in F
      BY <1>2, <1>3, <3>1
    <3>3. both[k].handle \in Below(s, b)
      BY <1>9, <2>2 DEF Found, HandlesOf
    <3>4. both[k].handle < b /\ both[k].handle \in Nat
      BY <3>3, HandlesBounded DEF Below
    <3>5. both[m].handle >= b /\ both[m].handle \in Nat
      BY <3>2
    <3> QED
      BY <3>4, <3>5
  <2>3. CASE ~(k \in 1..Len(list))
    <3>1. PICK x \in 1..Cardinality(F) : k = Len(list) + x /\ both[k] = more[x]
      BY <1>10, <2>3
    <3>2. ~(m \in 1..Len(list))
      BY <1>1, <1>9, <2>3
    <3>3. PICK y \in 1..Cardinality(F) : m = Len(list) + y /\ both[m] = more[y]
      BY <1>10, <3>2
    <3>4. x < y
      BY <1>1, <1>9, <3>1, <3>3
    <3> QED
      BY <1>2, <1>3, <3>1, <3>3, <3>4, SMTT(30)
  <2> QED
    BY <2>1, <2>2, <2>3
<1>14. Len(both) = Cardinality(Below(s, l + 1))
  BY <1>7, <1>8, <1>9 DEF Found
<1>15. ASSUME NEW k \in 0..(n - 1)
       PROVE  table2[k].descNum = Cardinality(Owned(table2, n, s, l + 1, k))
  <2>1. Owned(table2, n, s, l + 1, k) = Owned(table, n, s, l + 1, k)
    <3>1. \A j \in (k + 1)..(n - 1) : table2[j].handle = table[j].handle
      <4>1. \A j \in (k + 1)..(n - 1) : j \in 0..(n - 1)
        OBVIOUS
      <4> QED
        BY <4>1
    <3>2. table2[k].handle = table[k].handle
      OBVIOUS
    <3> QED
      BY <3>1, <3>2 DEF Owned
  <2>2. /\ table[k].descNum = Cardinality(Owned(table, n, s, b, k))
        /\ IsFiniteSet(Owned(table, n, s, b, k)) /\ Cardinality(Owned(table, n, s, b, k)) \in Nat
    BY <1>7, HandlesBounded, NumbersFinite DEF Found, Owned
  <2>3. k \in Nat /\ k < n /\ table[k].handle \in Nat
    BY EntryFacts
  <2>4. CASE k = i
    <3>1. Owned(table, n, s, l + 1, k) = Owned(table, n, s, b, k) \cup F
      <4>1. ASSUME NEW h \in F PROVE h \in Owned(table, n, s, l + 1, k)
        <5>1. h \in Nat /\ h < l + 1 /\ h > table[i].handle /\ h < table[i + 1].handle
          BY <1>4, SMTT(30)
        <5>2. ASSUME NEW j \in (i + 1)..(n - 1) PROVE h < table[j].handle
          <6>1. table[j].handle \in Nat /\ j \in Nat /\ j < n
            BY EntryFacts
          <6>2. CASE j = i + 1
            BY <5>1, <6>2
          <6>3. CASE j # i + 1
            <7>1. i + 1 < j
              BY <6>1, <6>3
            <7>2. table[i + 1].handle < table[j].handle
              BY <6>1, <7>1, EntriesInOrder
            <7> QED
              BY <1>4, <5>1, <6>1, <7>2
          <6> QED
            BY <6>2, <6>3
        <5> QED
          BY <1>5, <2>4, <5>1, <5>2 DEF Owned
      <4>2. \A h \in Owned(table, n, s, l + 1, k) : h \in Below(s, l + 1)
        BY DEF Owned, Below
      <4>3. \A h \in Owned(table, n, s, l + 1, k) : h \in Below(s, b) => h \in Owned(table, n, s, b, k)
        BY DEF Owned, Below
      <4>4. \A h \in Owned(table, n, s, b, k) : h \in Owned(table, n, s, l + 1, k)
        <5> SUFFICES ASSUME NEW h \in Owned(table, n, s, b, k) PROVE h \in Owned(table, n, s, l + 1, k)
          OBVIOUS
        <5>1. h \in Nat /\ h < b
          BY HandlesBounded DEF Owned
        <5>2. h < l + 1
          BY <5>1
        <5> QED
          BY <5>2 DEF Owned
      <4> QED
        BY <1>6, <4>1, <4>2, <4>3, <4>4
    <3>2. Owned(table, n, s, b, k) \cap F = {}
      BY <1>6 DEF Owned, Below
    <3>3. Cardinality(Owned(table, n, s, b, k) \cup F) = Cardinality(Owned(table, n, s, b, k))
            + Cardinality(F) - Cardinality(Owned(table, n, s, b, k) \cap F)
      BY <1>1, <2>2, FS_Union
    <3>4. table2[k].descNum = table[k].descNum + Cardinality(F)
      BY <1>2, <2>4
    <3>5. Cardinality(Owned(table, n, s, b, k) \cap F) = 0
      BY <3>2, FS_EmptySet
    <3>6. Cardinality(Owned(table, n, s, b, k) \cup F) = Cardinality(Owned(table, n, s, b, k)) + Cardinality(F)
      BY <1>1, <2>2, <3>3, <3>5
    <3>7. Cardinality(Owned(table2, n, s, l + 1, k)) = Cardinality(Owned(table, n, s, b, k) \cup F)
      BY <2>1, <3>1
    <3> QED
      BY <2>2, <3>4, <3>6, <3>7
  <2>5. CASE k # i
    <3>1. \A h \in F : h \notin Owned(table, n, s, l + 1, k)
      <4> SUFFICES ASSUME NEW h \in F, h \in Owned(table, n, s, l + 1, k) PROVE FALSE
        OBVIOUS
      <4>1. h \in Nat /\ h > table[i].handle /\ h < table[i + 1].handle
        <5>1. h \in b..l
          OBVIOUS
        <5> QED
          BY <1>4, <5>1, SMTT(30)
      <4>2. h > table[k].handle /\ \A j \in (k + 1)..(n - 1) : h < table[j].handle
        BY DEF Owned
      <4>3. CASE k < i
        <5>1. i \in (k + 1)..(n - 1)
          BY <2>3, <4>3
        <5> QED
          BY <1>4, <4>1, <4>2, <5>1
      <4>4. CASE i < k
        <5>1. table[i + 1].handle <= table[k].handle
          <6>1. CASE k = i + 1
            BY <2>3, <6>1
          <6>2. CASE k # i + 1
            <7>1. i + 1 < k
              BY <2>3, <4>4, <6>2
            <7> QED
              BY <1>4, <2>3, <7>1, EntriesInOrder, SMTT(30)
          <6> QED
            BY <6>1, <6>2
        <5> QED
          BY <1>4, <2>3, <4>1, <4>2, <5>1
      <4> QED
        BY <2>3, <2>5, <4>3, <4>4
    <3>2. Owned(table, n, s, l + 1, k) = Owned(table, n, s, b, k)
      <4>1. ASSUME NEW h \in DescsOf(s), h \notin F PROVE h < b <=> h < l + 1
        <5>1. h \in Nat
          BY HandlesBounded
        <5> QED
          BY <4>1, <5>1
      <4>2. \A h \in Owned(table, n, s, b, k) : h \notin F
        BY <1>6 DEF Owned, Below
      <4> QED
        BY <3>1, <4>1, <4>2 DEF Owned
    <3>3. table2[k].descNum = table[k].descNum
      BY <2>2, <2>5
    <3> QED
      BY <2>1, <2>2, <3>2, <3>3
  <2> QED
    BY <2>4, <2>5
<1> QED
  BY <1>11, <1>12, <1>13, <1>14, <1>15 DEF Found, both

\* What SET_CONFIG writes when all the descriptors have been found.
AllWritten(list, s) ==
  /\ HandlesOf(list) = {h \in DescsOf(s) : KindAt(s, h) = "cccd"}
  /\ Len(list) = Cardinality(HandlesOf(list))

\* SET_CONFIG with the whole list writes every descriptor that can be enabled, once
\* (oc_ble_client_demo.c:153-162).
LEMMA ConfigWrites ==
  ASSUME NEW s \in Services, NEW table, NEW n, NEW list \in Seq(DescEntry),
         Found(list, table, n, s, EndOf(s) + 1),
         written = << >>, config_index = 0, SetConfig(list)
  PROVE  written' \in Seq(DescEntry) /\ AllWritten(written', s)
<1> DEFINE I == {k \in 1..Len(list) : list[k].uuid = "cccd"}
           c == InOrder(I)
           w == [k \in DOMAIN c |-> list[c[k]]]
<1>1. Len(list) \in Nat /\ DOMAIN list = 1..Len(list) /\ \A k \in 1..Len(list) : list[k] \in DescEntry
  OBVIOUS
<1>2. Numbers(I)
  <2>1. I \in SUBSET Nat /\ I \subseteq 0..Len(list)
    BY <1>1
  <2> QED
    BY <1>1, <2>1 DEF Numbers
<1>3. PICK m \in Nat : m = Cardinality(I)
  BY <1>2, NumbersFinite
<1>4. /\ DOMAIN c = 1..m /\ \A k \in 1..m : c[k] \in I
      /\ \A k, l \in 1..m : k < l => c[k] < c[l]
      /\ \A i \in I : \E k \in 1..m : c[k] = i
  BY <1>2, <1>3, InOrderFacts
<1>5. I \subseteq 1..Len(list) /\ \A i \in I : list[i].uuid = "cccd"
  OBVIOUS
<1>6. written' = << >> \o w
  <2>1. (config_index + 1)..Len(list) = 1..Len(list)
    OBVIOUS
  <2> QED
    BY <2>1 DEF SetConfig
<1>7. \A i \in 1..Len(list) : list[i].uuid = "cccd" => i \in I
  OBVIOUS
<1> HIDE DEF I, c
<1>8. w \in [1..m -> DescEntry]
  BY <1>1, <1>4, <1>5
<1>9. w \in Seq(DescEntry) /\ Len(w) = m /\ DOMAIN w = 1..m /\ \A k \in 1..m : w[k] = list[c[k]]
  BY <1>3, <1>4, <1>8
<1> HIDE DEF w
<1>10. written' = w
  BY <1>6, <1>9, ConcatEmptySeq
<1>11. /\ HandlesOf(list) = Below(s, EndOf(s) + 1)
       /\ \A k \in DOMAIN list : list[k].uuid = KindAt(s, list[k].handle)
       /\ \A k, l \in DOMAIN list : k < l => list[k].handle < list[l].handle
  BY DEF Found
<1>12. Below(s, EndOf(s) + 1) = DescsOf(s)
  <2>1. ASSUME NEW h \in DescsOf(s) PROVE h < EndOf(s) + 1
    <3>1. h \in Nat /\ h <= LastOf(s) /\ LastOf(s) \in Nat /\ EndOf(s) \in Nat /\ LastOf(s) <= EndOf(s)
      BY HandlesBounded, ServiceFacts
    <3> QED
      BY <3>1
  <2> QED
    BY <2>1 DEF Below
<1>13. HandlesOf(w) = {h \in DescsOf(s) : KindAt(s, h) = "cccd"}
  <2>1. ASSUME NEW k \in 1..m PROVE w[k].handle \in DescsOf(s) /\ KindAt(s, w[k].handle) = "cccd"
    <3>1. c[k] \in 1..Len(list) /\ list[c[k]].uuid = "cccd" /\ w[k] = list[c[k]]
      BY <1>4, <1>5, <1>9
    <3> QED
      BY <1>1, <1>11, <1>12, <3>1 DEF HandlesOf
  <2>2. ASSUME NEW h \in DescsOf(s), KindAt(s, h) = "cccd" PROVE \E k \in 1..m : w[k].handle = h
    <3>1. PICK i \in 1..Len(list) : list[i].handle = h
      BY <1>1, <1>11, <1>12 DEF HandlesOf
    <3>2. i \in I
      BY <1>1, <1>7, <1>11, <2>2, <3>1
    <3>3. PICK k \in 1..m : c[k] = i
      BY <1>4, <3>2
    <3> QED
      BY <1>9, <3>1, <3>3
  <2> QED
    BY <1>9, <2>1, <2>2 DEF HandlesOf
<1>14. Cardinality(HandlesOf(w)) = m
  <2> DEFINE f == [k \in 1..m |-> w[k].handle]
  <2>1. f \in [1..m -> HandlesOf(w)] /\ \A t \in HandlesOf(w) : \E k \in 1..m : f[k] = t
    BY <1>9 DEF HandlesOf
  <2>2. ASSUME NEW k \in 1..m, NEW l \in 1..m, k < l PROVE w[k].handle # w[l].handle
    <3>1. c[k] < c[l] /\ c[k] \in 1..Len(list) /\ c[l] \in 1..Len(list)
      BY <1>4, <1>5, <2>2
    <3>2. list[c[k]].handle < list[c[l]].handle
      BY <1>1, <1>11, <3>1
    <3>3. list[c[k]].handle \in Nat /\ list[c[l]].handle \in Nat
      BY <1>1, <3>1 DEF DescEntry, Handles
    <3> QED
      BY <1>9, <3>2, <3>3
  <2>3. \A k, l \in 1..m : f[k] = f[l] => k = l
    <3> SUFFICES ASSUME NEW k \in 1..m, NEW l \in 1..m, w[k].handle = w[l].handle, k # l PROVE FALSE
      OBVIOUS
    <3>1. k < l \/ l < k
      OBVIOUS
    <3> QED
      BY <2>2, <3>1
  <2>4. f \in Injection(1..m, HandlesOf(w)) /\ f \in Surjection(1..m, HandlesOf(w))
    <3>1. DOMAIN f = 1..m
      OBVIOUS
    <3> HIDE DEF f
    <3> QED
      BY <2>1, <2>3, <3>1 DEF Injection, Surjection, IsInjective
  <2>5. ExistsBijection(1..m, HandlesOf(w))
    BY <2>4 DEF ExistsBijection, Bijection
  <2> QED
    BY <2>5, FS_CountingElements
<1> QED
  BY <1>9, <1>10, <1>13, <1>14 DEF AllWritten

-----------------------------------------------------------------------------
(* The inductive invariant *)

\* An entry of gatt_client_chara.
CharaEntry == [handle : Handles, valueHandle : Handles, descNum : 0..MaxDesc]

\* The kinds of procedures.
ProcKinds == {"none", "primary", "include", "chara", "info", "over"}
USE DEF ProcKinds

\* The types of what the discovery keeps.
DiscoveryTypes ==
  /\ state \in {"disconnect", "connected", "include", "chara", "info", "config"}
  /\ proc \in [kind : ProcKinds, from : Handles, to : Handles]
  /\ prime \in [startHandle : Handles, endHandle : Handles]
  /\ chara \in [0..(MaxChara - 1) -> CharaEntry]
  /\ chara_count \in 0..MaxChara
  /\ desc \in Seq(DescEntry) /\ Len(desc) <= MaxDesc
  /\ find_info_index \in Nat /\ (corrupt = TRUE \/ find_info_index < MaxChara)
  /\ written \in Seq(DescEntry)
  /\ config_index \in 0..Len(desc)
  /\ corrupt \in BOOLEAN

\* Nothing has been discovered yet.
Blank ==
  /\ \A i \in 0..(MaxChara - 1) : chara[i] = NoChara
  /\ chara_count = 0 /\ desc = << >> /\ find_info_index = 0
  /\ written = << >> /\ config_index = 0

\* Without a connection, or without the service, nothing is discovered; with
\* the configuration the discovery is over.
Linked ==
  /\ peer \in Services \cup {Absent}
  /\ link # "up" => peer = Absent /\ proc.kind = "none"
  /\ peer = Absent => Blank /\ proc.kind \in {"none", "primary"} /\ state # "config"
  /\ state = "config" => proc.kind = "none" /\ corrupt = FALSE

\* The table lists characteristics of this peer, and its counts do not exceed
\* the list of the descriptors.
Tables ==
  /\ peer # Absent => Lists(chara, chara_count, peer)
  /\ \A i \in 0..(MaxChara - 1) : chara[i].descNum <= Len(desc)
  /\ peer # Absent /\ proc.kind # "primary" =>
       prime = [startHandle |-> peer.start, endHandle |-> EndOf(peer)]
  /\ proc.kind \in {"primary", "include"} => Blank
  /\ state # "config" => written = << >> /\ config_index = 0

\* The characteristics below the range still covered have been found; all of
\* them when the client asks for descriptors, which it does before the next
\* characteristic and never behind a wide descriptor it has waited for.
Searching ==
  /\ corrupt = FALSE /\ proc.kind = "chara" =>
       /\ \A i \in 0..(MaxChara - 1) : chara[i].descNum = 0
       /\ desc = << >> /\ find_info_index = 0
       /\ proc.from >= 1 /\ proc.from <= EndOf(peer) /\ proc.to = EndOf(peer)
       /\ chara_count = Cardinality({h \in CharasOf(peer) : h < proc.from})
  /\ corrupt = FALSE /\ proc.kind \in {"info", "over"} =>
       chara_count = Cardinality(CharasOf(peer))
  /\ corrupt = FALSE /\ proc.kind = "info" =>
       /\ proc.to <= EndOf(peer) /\ proc.from >= 1
       /\ find_info_index + 1 < chara_count => proc.to = chara[find_info_index + 1].handle - 1
       /\ Held(chara, chara_count, peer, find_info_index)

\* Where the service ends as it should, the descriptors below the range still
\* covered have been found, and the range is never exhausted in vain.
Describing ==
  /\ corrupt = FALSE /\ proc.kind = "info" /\ Ends(peer) =>
       /\ find_info_index + 1 < chara_count
       /\ chara[find_info_index].valueHandle < proc.from /\ proc.from <= proc.to
       /\ Found(desc, chara, chara_count, peer, proc.from)
  /\ corrupt = FALSE /\ proc.kind = "over" => ~Ends(peer)

\* Only such a service gets to the configuration.
Configured ==
  state = "config" =>
    /\ Ends(peer) /\ Found(desc, chara, chara_count, peer, EndOf(peer) + 1)
    /\ AllWritten(written, peer)

\* An access leaves a table only when the service is not plain.
Room == corrupt = TRUE => peer # Absent /\ ~Plain(peer)

\* The whole of it.
Discovery == DiscoveryTypes /\ Linked /\ Tables /\ Searching /\ Describing /\ Configured /\ Room

-----------------------------------------------------------------------------
(* The discovery keeps the invariant *)

\* GATT_CLIENT_FIND_INFO, entered with all the characteristics in the table
\* and, where the service ends with its last one, all the descriptors before
\* entry i.
LEMMA FindInfoInv ==
  ASSUME Discovery, NEW s \in Services, peer = s, peer' = s, link = "up", link' = "up",
         corrupt = FALSE, proc.kind \in {"chara", "info", "over"}, prime' = prime,
         NEW table \in [0..(MaxChara - 1) -> CharaEntry], chara' = table,
         NEW n \in 0..MaxChara, chara_count' = n, n = Cardinality(CharasOf(s)), Lists(table, n, s),
         NEW descs \in Seq(DescEntry), Len(descs) <= MaxDesc, desc' = descs,
         \A k \in 0..(MaxChara - 1) : table[k].descNum <= Len(descs),
         NEW i \in Nat, FindInfo(table, n, descs, i), Held(table, n, s, i),
         Ends(s) => i < n /\ Found(descs, table, n, s, table[i].handle)
  PROVE  Discovery'
<1>0. /\ MaxChara \in Nat /\ MaxChara >= 1 /\ n \in Nat /\ n <= MaxChara /\ s # Absent
      /\ EndOf(s) \in Nat /\ MaxDesc \in Nat /\ Len(descs) \in Nat
  BY BoundsAssumption, ServiceFacts
<1>1. prime = [startHandle |-> s.start, endHandle |-> EndOf(s)] /\ prime.endHandle = EndOf(s)
      /\ state # "config" /\ written = << >> /\ config_index = 0 /\ proc.kind # "none"
  BY <1>0 DEF Discovery, Linked, Tables
<1>2. PICK j \in Nat :
        /\ find_info_index' = j /\ StopsAt(table, n, i, j) /\ Held(table, n, s, j)
        /\ Leaves(j) \/ Asks(table, n, s, i, j) \/ Configures(table, n, s, descs, j)
  BY <1>0, <1>1, FindInfoFacts
<1>3. /\ i <= j /\ (i < n => j < n)
      /\ \A m \in Nat : i <= m /\ m < j => m + 1 < n /\ table[m].valueHandle + 1 = table[m + 1].handle
  BY <1>2 DEF StopsAt
\* What does not depend on the outcome.
<1>4. /\ prime' \in [startHandle : Handles, endHandle : Handles]
      /\ chara' \in [0..(MaxChara - 1) -> CharaEntry] /\ chara_count' \in 0..MaxChara
      /\ desc' \in Seq(DescEntry) /\ Len(desc') <= MaxDesc /\ find_info_index' \in Nat
      /\ state \in {"disconnect", "connected", "include", "chara", "info", "config"}
      /\ proc \in [kind : ProcKinds, from : Handles, to : Handles]
  BY <1>2 DEF Discovery, DiscoveryTypes
<1>5. /\ Lists(chara, chara_count, peer)' /\ (\A k \in 0..(MaxChara - 1) : chara[k].descNum <= Len(desc))'
      /\ prime' = [startHandle |-> s.start, endHandle |-> EndOf(s)]
  BY <1>1 DEF Lists
<1>6. ASSUME Ends(s), NEW h \in DescsOf(s) PROVE h < table[i].handle <=> h < table[j].valueHandle + 1
  <2>1. /\ i < n /\ j < n /\ table[i].handle \in Nat /\ table[j].handle \in Nat
        /\ table[j].valueHandle = table[j].handle + 1 /\ h \in Nat
    BY <1>0, <1>3, <1>6, EntryFacts, HandlesBounded
  <2>2. table[i].handle <= h => table[j].valueHandle < h
    BY <1>0, <1>3, <2>1, NoneBetween
  <2>3. table[i].handle <= table[j].handle
    <3>1. CASE i = j
      BY <2>1, <3>1
    <3>2. CASE i # j
      <4>1. i < j
        BY <1>3, <3>2
      <4>2. table[i].handle < table[j].handle
        BY <1>0, <2>1, <4>1, EntriesInOrder, SMTT(30)
      <4> QED
        BY <2>1, <4>2
    <3> QED
      BY <3>1, <3>2
  <2> QED
    BY <2>1, <2>2, <2>3
<1>7. CASE Leaves(j)
  <2>1. /\ j >= MaxChara /\ corrupt' = TRUE /\ state' = state /\ proc' = proc
        /\ written' = << >> /\ config_index' = 0
    BY <1>1, <1>7 DEF Leaves
  <2>2. ~Plain(s)
    <3>1. ~Ends(s)
      BY <1>0, <1>3, <2>1
    <3> QED
      BY <3>1, PlainEnds
  <2>3. << >> \in Seq(DescEntry) /\ 0 \in 0..Len(descs)
    BY <1>0, EmptySeq
  <2>4. DiscoveryTypes'
    BY <1>4, <2>1, <2>3 DEF DiscoveryTypes
  <2>5. Linked' /\ Tables' /\ Searching' /\ Describing' /\ Configured' /\ Room'
    BY <1>0, <1>1, <1>5, <2>1, <2>2 DEF Linked, Tables, Searching, Describing, Configured, Room
  <2> QED
    BY <2>4, <2>5 DEF Discovery
<1>8. CASE Asks(table, n, s, i, j)
  <2>1. /\ j < MaxChara /\ corrupt' = FALSE /\ state' = "info" /\ written' = << >> /\ config_index' = 0
    BY <1>1, <1>8 DEF Asks
  <2>2. PICK from \in Handles, to \in Handles :
          /\ proc' = [kind |-> "info", from |-> from, to |-> to]
          /\ from >= 1 /\ to <= EndOf(s)
          /\ j + 1 < n => to = table[j + 1].handle - 1
          /\ i < n /\ Ends(s) => j + 1 < n /\ from <= to /\ from = table[j].valueHandle + 1
    BY <1>8 DEF Asks
  <2>3. << >> \in Seq(DescEntry) /\ 0 \in 0..Len(descs)
    BY <1>0, EmptySeq
  <2>4. DiscoveryTypes'
    BY <1>2, <1>4, <2>1, <2>2, <2>3 DEF DiscoveryTypes
  <2>5. proc'.kind = "info" /\ proc'.from = from /\ proc'.to = to
    BY <2>2
  <2>6. Linked' /\ Tables' /\ Configured' /\ Room'
    BY <1>0, <1>5, <2>1, <2>2, <2>5 DEF Linked, Tables, Configured, Room
  <2>9. Searching'
    <3>1. Held(chara, chara_count, peer, find_info_index)'
      <4>1. chara' = table /\ chara_count' = n /\ peer' = s /\ find_info_index' = j /\ Held(table, n, s, j)
        BY <1>2
      <4> QED
        BY ONLY <4>1 DEF Held
    <3>2. (find_info_index + 1 < chara_count => proc.to = chara[find_info_index + 1].handle - 1)'
      BY <1>2, <2>2, <2>5
    <3> QED
      BY <1>0, <2>1, <2>2, <2>5, <3>1, <3>2 DEF Searching
  <2>7. ASSUME Ends(s)
        PROVE  /\ j + 1 < n /\ table[j].valueHandle < from /\ from <= to
               /\ Found(descs, table, n, s, from)
    <3>1. i < n /\ j + 1 < n /\ from <= to /\ from = table[j].valueHandle + 1
      BY <2>2, <2>7
    <3>2. \A h \in DescsOf(s) : h < table[i].handle <=> h < from
      BY <1>6, <2>7, <3>1
    <3>3. Found(descs, table, n, s, from)
      BY <2>7, <3>2, FoundOn
    <3>4. table[j].valueHandle \in Nat
      BY <1>0, <3>1, EntryFacts, SMTT(30)
    <3> QED
      BY <3>1, <3>3, <3>4
  <2>8. Describing'
    <3>1. Ends(s) => Found(desc, chara, chara_count, peer, proc.from)'
      <4> SUFFICES ASSUME Ends(s) PROVE Found(desc, chara, chara_count, peer, proc.from)'
        OBVIOUS
      <4>1. Found(descs, table, n, s, from)
        BY <2>7
      <4>2. desc' = descs /\ chara' = table /\ chara_count' = n /\ peer' = s /\ (proc.from)' = from
        BY <2>5
      <4> QED
        BY ONLY <4>1, <4>2 DEF Found, Owned, Below
    <3>2. /\ find_info_index' = j /\ chara_count' = n /\ peer' = s /\ chara' = table
          /\ (Ends(peer))' = Ends(s)
      BY <1>2 DEF Ends
    <3>3. (chara[find_info_index].valueHandle)' = table[j].valueHandle
      BY <3>2
    <3> QED
      BY <2>5, <2>7, <3>1, <3>2, <3>3 DEF Describing
  <2> QED
    BY <2>4, <2>6, <2>8, <2>9 DEF Discovery
<1>9. CASE Configures(table, n, s, descs, j)
  <2>1. /\ j + 1 = n /\ Ends(s) /\ table[j].valueHandle = EndOf(s) /\ corrupt' = FALSE
        /\ SetConfig(descs)
    BY <1>9 DEF Configures
  <2>2. state' = "config" /\ proc' = [kind |-> "none", from |-> 0, to |-> 0] /\ config_index' = Len(descs)
    BY <2>1 DEF SetConfig, NoProc
  <2>3. Found(descs, table, n, s, EndOf(s) + 1)
    <3>1. \A h \in DescsOf(s) : h < table[i].handle <=> h < EndOf(s) + 1
      BY <1>6, <2>1
    <3> QED
      BY <2>1, <3>1, FoundOn
  <2>4. written' \in Seq(DescEntry) /\ AllWritten(written', s)
    BY <1>1, <2>1, <2>3, ConfigWrites
  <2>5. 0 \in Handles /\ Len(descs) \in 0..Len(descs) /\ j < MaxChara
    <3>1. MaxHandle \in Nat
      BY DEF MaxHandle
    <3> QED
      BY <1>0, <2>1, <3>1 DEF Handles
  <2>6. DiscoveryTypes'
    BY <1>2, <1>4, <2>1, <2>2, <2>4, <2>5 DEF DiscoveryTypes
  <2>7. proc'.kind = "none"
    BY <2>2
  <2>8. Linked' /\ Tables' /\ Searching' /\ Describing' /\ Room'
    BY <1>0, <1>5, <2>1, <2>2, <2>7 DEF Linked, Tables, Searching, Describing, Room
  <2>9. Configured'
    <3>1. Found(desc, chara, chara_count, peer, EndOf(peer) + 1)'
      <4>1. /\ desc' = descs /\ chara' = table /\ chara_count' = n /\ peer' = s
            /\ (EndOf(peer) + 1)' = EndOf(s) + 1
        BY DEF EndOf, LastOf
      <4> QED
        BY ONLY <2>3, <4>1 DEF Found, Owned, Below
    <3>2. AllWritten(written, peer)' /\ Ends(peer)'
      BY <2>1, <2>4 DEF AllWritten, Ends
    <3> QED
      BY <3>1, <3>2 DEF Configured
  <2> QED
    BY <2>6, <2>8, <2>9 DEF Discovery
<1> QED
  BY <1>2, <1>7, <1>8, <1>9

-----------------------------------------------------------------------------
(* Every other step keeps it as well *)

\* The start: oc_ble_client_demo.c:33-47.
LEMMA DiscoveryInit ==
  Init => Discovery
<1> SUFFICES ASSUME Init PROVE Discovery
  OBVIOUS
<1>1. 0 \in Handles /\ 0 \in 0..MaxDesc /\ 0 \in 0..MaxChara /\ NoChara \in CharaEntry /\ MaxChara > 0 /\ MaxDesc >= 0
  <2>1. MaxHandle \in Nat
    BY DEF MaxHandle
  <2>2. 0 \in Handles /\ 0 \in 0..MaxDesc /\ 0 \in 0..MaxChara /\ MaxChara > 0 /\ MaxDesc >= 0
    BY <2>1, BoundsAssumption DEF Handles
  <2> QED
    BY <2>2 DEF NoChara, CharaEntry
<1>2. << >> \in Seq(DescEntry) /\ Len(<< >>) = 0 /\ 0 \in 0..0
  BY EmptySeq
<1>3. Blank
  BY DEF Init, Blank
<1>4. DiscoveryTypes
  BY <1>1, <1>2 DEF Init, DiscoveryTypes, NoProc
<1>5. Linked /\ Searching /\ Describing /\ Configured /\ Room
  BY <1>3 DEF Init, NoProc, Linked, Searching, Describing, Configured, Room
<1>6. Tables
  BY <1>1, <1>2, <1>3 DEF Init, Tables, Blank, NoChara
<1> QED
  BY <1>4, <1>5, <1>6 DEF Discovery

\* The scan and the application's thread change nothing of it.
LEMMA DiscoverySame ==
  ASSUME Discovery, UNCHANGED <<peer, state, proc, table_vars, corrupt>>,
         link' # "up" => link # "up"
  PROVE  Discovery'
<1>1. /\ peer' = peer /\ state' = state /\ proc' = proc /\ prime' = prime /\ chara' = chara
      /\ chara_count' = chara_count /\ desc' = desc /\ find_info_index' = find_info_index
      /\ written' = written /\ config_index' = config_index /\ corrupt' = corrupt
  BY DEF table_vars
<1>2. DiscoveryTypes'
  BY <1>1 DEF Discovery, DiscoveryTypes
<1>3. Linked'
  BY <1>1 DEF Discovery, Linked, Blank
<1>4. Tables'
  BY <1>1 DEF Discovery, Tables, Blank, Lists
<1>5. Searching' /\ Room'
  BY <1>1 DEF Discovery, Searching, Room, Held
<1>6. Describing'
  BY <1>1 DEF Discovery, Describing, Found, Owned, Below, Ends
<1>7. Configured'
  BY <1>1 DEF Discovery, Configured, Found, Owned, Below, Ends, AllWritten
<1> QED
  BY <1>2, <1>3, <1>4, <1>5, <1>6, <1>7 DEF Discovery

\* An access leaves one of the arrays: nothing else has changed.
LEMMA DiscoveryLeft ==
  ASSUME Discovery, NEW s \in Services, peer = s, ~Plain(s), proc.kind # "none", corrupt' = TRUE,
         UNCHANGED <<link, peer, state, proc, table_vars>>
  PROVE  Discovery'
<1>1. /\ peer' = peer /\ state' = state /\ proc' = proc /\ prime' = prime /\ chara' = chara
      /\ chara_count' = chara_count /\ desc' = desc /\ find_info_index' = find_info_index
      /\ written' = written /\ config_index' = config_index /\ link' = link
  BY DEF table_vars
<1>2. s # Absent /\ state # "config"
  BY ServiceFacts DEF Discovery, Linked
<1>3. DiscoveryTypes'
  BY <1>1 DEF Discovery, DiscoveryTypes
<1>4. Linked'
  BY <1>1, <1>2 DEF Discovery, Linked, Blank
<1>5. Tables'
  BY <1>1 DEF Discovery, Tables, Blank, Lists
<1>6. Searching' /\ Describing' /\ Configured' /\ Room'
  BY <1>1, <1>2 DEF Searching, Describing, Configured, Room
<1> QED
  BY <1>3, <1>4, <1>5, <1>6 DEF Discovery

\* A new connection starts with empty tables (oc_ble_client_demo.c:251-267).
LEMMA ConnectedInv ==
  Discovery /\ corrupt = FALSE /\ Connected => Discovery'
<1> SUFFICES ASSUME Discovery, corrupt = FALSE, Connected PROVE Discovery'
  OBVIOUS
<1>1. /\ prime' = prime /\ chara' = chara /\ chara_count' = chara_count /\ desc' = desc
      /\ find_info_index' = find_info_index /\ written' = written /\ config_index' = config_index
      /\ corrupt' = FALSE /\ state' = "connected" /\ link' = "up"
      /\ proc' = [kind |-> "primary", from |-> 0, to |-> 0] /\ peer' \in Services \cup {Absent}
      /\ link # "up"
  BY DEF Connected, table_vars
<1>2. Blank /\ peer = Absent
  BY <1>1 DEF Discovery, Linked
<1>3. Blank'
  BY <1>1, <1>2 DEF Blank
<1>4. 0 \in Handles
  <2>1. MaxHandle \in Nat
    BY DEF MaxHandle
  <2> QED
    BY <2>1 DEF Handles
<1>5. DiscoveryTypes'
  BY <1>1, <1>4 DEF Discovery, DiscoveryTypes
<1>6. proc'.kind = "primary"
  BY <1>1
<1>7. Linked' /\ Searching' /\ Describing' /\ Configured' /\ Room'
  BY <1>1, <1>3, <1>6 DEF Linked, Searching, Describing, Configured, Room
<1>8. Lists(chara, chara_count, peer)'
  <2>1. MaxChara \in Nat
    BY BoundsAssumption
  <2> QED
    BY <1>3, <2>1 DEF Blank, Lists, NoChara
<1>9. (\A i \in 0..(MaxChara - 1) : chara[i].descNum <= Len(desc))'
  BY <1>1 DEF Discovery, Tables
<1>10. Tables'
  BY <1>1, <1>3, <1>6, <1>8, <1>9 DEF Tables, Blank
<1> QED
  BY <1>5, <1>7, <1>10 DEF Discovery

\* A lost one leaves none behind (oc_ble_client_demo.c:268-285).
LEMMA DisconnectedInv ==
  Discovery /\ corrupt = FALSE /\ Disconnected => Discovery'
<1> SUFFICES ASSUME Discovery, corrupt = FALSE, Disconnected PROVE Discovery'
  OBVIOUS
<1>1. /\ prime' = [startHandle |-> 0, endHandle |-> 0] /\ chara_count' = 0 /\ desc' = << >>
      /\ find_info_index' = 0 /\ written' = << >> /\ config_index' = 0
      /\ corrupt' = FALSE /\ state' = "disconnect" /\ link' = "scanning"
      /\ proc' = NoProc /\ peer' = Absent
  BY DEF Disconnected
<1>2. chara' = [i \in 0..(MaxChara - 1) |-> NoChara]
  <2>1. DOMAIN chara = 0..(MaxChara - 1)
    BY DEF Discovery, DiscoveryTypes
  <2> QED
    BY <2>1 DEF Disconnected
<1>3. Blank'
  BY <1>1, <1>2 DEF Blank
<1>4. 0 \in Handles /\ 0 \in 0..MaxDesc /\ 0 \in 0..MaxChara /\ NoChara \in CharaEntry /\ MaxChara > 0 /\ MaxDesc >= 0
  <2>1. MaxHandle \in Nat
    BY DEF MaxHandle
  <2>2. 0 \in Handles /\ 0 \in 0..MaxDesc /\ 0 \in 0..MaxChara /\ MaxChara > 0 /\ MaxDesc >= 0
    BY <2>1, BoundsAssumption DEF Handles
  <2> QED
    BY <2>2 DEF NoChara, CharaEntry
<1>5. << >> \in Seq(DescEntry) /\ Len(<< >>) = 0 /\ 0 \in 0..0
  BY EmptySeq
<1>6. DiscoveryTypes'
  BY <1>1, <1>2, <1>4, <1>5 DEF DiscoveryTypes, NoProc
<1>7. Linked' /\ Searching' /\ Describing' /\ Configured' /\ Room'
  BY <1>1, <1>3 DEF NoProc, Linked, Searching, Describing, Configured, Room
<1>8. Tables'
  BY <1>1, <1>3, <1>4, <1>5 DEF Tables, Blank, NoProc, NoChara
<1> QED
  BY <1>6, <1>7, <1>8 DEF Discovery

\* While a procedure other than the search for the service runs, there is a
\* connection, and a service of the peer.
LEMMA Searched ==
  ASSUME Discovery, proc.kind \in {"include", "chara", "info", "over"}
  PROVE  peer \in Services /\ link = "up" /\ state # "config" /\ written = << >> /\ config_index = 0
BY DEF Discovery, Linked, Tables

\* oc_ble_client_demo.c:287-299.
LEMMA ServiceFoundInv ==
  Discovery /\ corrupt = FALSE /\ ServiceFound => Discovery'
<1> SUFFICES ASSUME Discovery, corrupt = FALSE, ServiceFound PROVE Discovery'
  OBVIOUS
<1>1. PICK s \in Services : s = peer
  BY DEF ServiceFound, Discovery, Linked
<1>2. /\ prime' = [startHandle |-> s.start, endHandle |-> EndOf(s)] /\ state' = "include"
      /\ proc' = [kind |-> "include", from |-> s.start, to |-> EndOf(s)]
      /\ chara' = chara /\ chara_count' = chara_count /\ desc' = desc
      /\ find_info_index' = find_info_index /\ written' = written /\ config_index' = config_index
      /\ corrupt' = FALSE /\ link' = link /\ peer' = s /\ proc.kind = "primary"
  BY <1>1 DEF ServiceFound, link_vars, Ask
<1>3. Blank /\ link = "up"
  BY <1>2 DEF Discovery, Tables, Linked
<1>4. Blank'
  BY <1>2, <1>3 DEF Blank
<1>5. s.start \in Handles /\ EndOf(s) \in Handles /\ s # Absent
  <2>1. EndOf(s) \in Nat /\ EndOf(s) <= MaxHandle /\ s.start \in Nat /\ s.start <= EndOf(s) /\ s # Absent
    BY ServiceFacts
  <2>2. PICK e \in Nat : e = EndOf(s) /\ e <= MaxHandle
    BY <2>1
  <2>3. PICK b \in Nat : b = s.start /\ b <= e
    BY <2>1, <2>2
  <2>4. e \in Handles /\ b \in Handles
    BY <2>2, <2>3, HandleRange
  <2> QED
    BY <2>1, <2>2, <2>3, <2>4
<1>6. DiscoveryTypes'
  BY <1>2, <1>5 DEF Discovery, DiscoveryTypes
<1>7. proc'.kind = "include"
  BY <1>2
<1>8. Linked' /\ Searching' /\ Describing' /\ Configured' /\ Room'
  BY <1>2, <1>3, <1>4, <1>5, <1>7 DEF Linked, Searching, Describing, Configured, Room
<1>9. Lists(chara, chara_count, peer)'
  <2>1. MaxChara \in Nat
    BY BoundsAssumption
  <2> QED
    BY <1>4, <2>1 DEF Blank, Lists, NoChara
<1>10. (\A i \in 0..(MaxChara - 1) : chara[i].descNum <= Len(desc))'
  BY <1>2 DEF Discovery, Tables
<1>11. Tables'
  BY <1>2, <1>4, <1>7, <1>9, <1>10 DEF Tables, Blank
<1> QED
  BY <1>6, <1>8, <1>11 DEF Discovery

\* oc_ble_client_demo.c:526-534.
LEMMA ServiceMissingInv ==
  Discovery /\ corrupt = FALSE /\ ServiceMissing => Discovery'
<1> SUFFICES ASSUME Discovery, corrupt = FALSE, ServiceMissing PROVE Discovery'
  OBVIOUS
<1>1. /\ prime' = prime /\ chara' = chara /\ chara_count' = chara_count /\ desc' = desc
      /\ find_info_index' = find_info_index /\ written' = written /\ config_index' = config_index
      /\ corrupt' = FALSE /\ link' = link /\ peer' = Absent /\ peer = Absent /\ state' = state
      /\ proc' = [kind |-> "none", from |-> 0, to |-> 0]
  BY DEF ServiceMissing, link_vars, table_vars, NoProc
<1>2. Blank /\ state # "config"
  BY <1>1 DEF Discovery, Linked
<1>3. Blank'
  BY <1>1, <1>2 DEF Blank
<1>4. 0 \in Handles
  <2>1. MaxHandle \in Nat
    BY DEF MaxHandle
  <2> QED
    BY <2>1 DEF Handles
<1>5. DiscoveryTypes'
  BY <1>1, <1>4 DEF Discovery, DiscoveryTypes
<1>6. proc'.kind = "none"
  BY <1>1
<1>7. Linked' /\ Searching' /\ Describing' /\ Configured' /\ Room'
  BY <1>1, <1>2, <1>3, <1>6 DEF Linked, Searching, Describing, Configured, Room
<1>8. Tables'
  BY <1>1, <1>3, <1>6 DEF Discovery, Tables, Blank
<1> QED
  BY <1>5, <1>7, <1>8 DEF Discovery

\* oc_ble_client_demo.c:535-539.
LEMMA NoMoreIncludesInv ==
  Discovery /\ corrupt = FALSE /\ NoMoreIncludes => Discovery'
<1> SUFFICES ASSUME Discovery, corrupt = FALSE, NoMoreIncludes PROVE Discovery'
  OBVIOUS
<1>0. proc.kind = "include"
  BY DEF NoMoreIncludes
<1>1. PICK s \in Services : s = peer /\ link = "up" /\ state # "config"
  BY <1>0, Searched
<1>2. s # Absent /\ s.start \in Nat /\ s.start >= 1 /\ s.start <= EndOf(s)
  BY ServiceFacts
<1>3. prime = [startHandle |-> s.start, endHandle |-> EndOf(s)] /\ Blank
      /\ s.start \in Handles /\ EndOf(s) \in Handles
  BY <1>0, <1>1, <1>2 DEF Discovery, Tables, DiscoveryTypes
<1>4. /\ prime' = prime /\ chara' = chara /\ chara_count' = chara_count /\ desc' = desc
      /\ find_info_index' = find_info_index /\ written' = written /\ config_index' = config_index
      /\ corrupt' = FALSE /\ link' = link /\ peer' = s /\ state' = "chara"
      /\ proc' = [kind |-> "chara", from |-> s.start, to |-> EndOf(s)]
  BY <1>1, <1>3 DEF NoMoreIncludes, link_vars, table_vars, Ask
<1>5. Blank'
  BY <1>3, <1>4 DEF Blank
<1>6. DiscoveryTypes'
  BY <1>3, <1>4 DEF Discovery, DiscoveryTypes
<1>7. proc'.kind = "chara" /\ proc'.from = s.start /\ proc'.to = EndOf(s)
  BY <1>4
<1>8. Linked' /\ Describing' /\ Configured' /\ Room'
  BY <1>1, <1>2, <1>4, <1>5, <1>7 DEF Linked, Describing, Configured, Room
<1>9. Tables'
  BY <1>0, <1>1, <1>2, <1>3, <1>4, <1>5, <1>7 DEF Discovery, Tables, Blank, Lists
<1>10. Cardinality({h \in CharasOf(s) : h < s.start}) = 0
  <2>1. \A h \in CharasOf(s) : ~(h < s.start)
    BY <1>2, CharaFacts
  <2>2. {h \in CharasOf(s) : h < s.start} = {}
    BY <2>1
  <2> QED
    BY <2>2, FS_EmptySet
<1>11. Searching'
  BY <1>2, <1>4, <1>5, <1>7, <1>10 DEF Searching, Blank, NoChara
<1> QED
  BY <1>6, <1>8, <1>9, <1>11 DEF Discovery

\* The characteristics found end with one from which on the table is complete
\* up to the next handle.
Behind(s, table, c, from, found) ==
  \E l \in CharasOf(s) :
    /\ Last(found) = l /\ from <= l /\ Len(found) \in Nat /\ Len(found) >= 1
    /\ c + Len(found) = Cardinality({h \in CharasOf(s) : h < l + 1})
    /\ c + Len(found) <= Cardinality(CharasOf(s))
    /\ c + Len(found) <= MaxChara =>
         /\ Filled(table, c, found) \in [0..(MaxChara - 1) -> CharaEntry]
         /\ Lists(Filled(table, c, found), c + Len(found), s)
         /\ Filled(table, c, found)[c + Len(found) - 1].valueHandle = l + 1
         /\ \A i \in 0..(MaxChara - 1) : Filled(table, c, found)[i].descNum = table[i].descNum

\* The characteristics from a handle on that one response names go behind
\* those found below that handle.
LEMMA MoreCharas ==
  ASSUME NEW s \in Services, NEW table \in [0..(MaxChara - 1) -> CharaEntry],
         NEW c \in Nat, c <= MaxChara, Lists(table, c, s), NEW from \in Nat, NEW b \in Nat, b >= 1,
         c = Cardinality({h \in CharasOf(s) : h < from}),
         NEW S, S = {h \in CharasOf(s) : h >= from}, S # {},
         NEW found, found = InOrder(FirstOf(S, b))
  PROVE  Behind(s, table, c, from, found)
<1>0. MaxChara \in Nat /\ MaxChara >= 1 /\ MaxHandle \in Nat
  BY BoundsAssumption DEF MaxHandle
<1>1. Numbers(CharasOf(s)) /\ CharasOf(s) \subseteq Nat
  BY HandlesBounded
<1>2. Numbers(S)
  <2>1. S \in SUBSET CharasOf(s)
    OBVIOUS
  <2> QED
    BY <1>1, <2>1, NumbersFinite
<1> DEFINE F == FirstOf(S, b)
<1>3. PICK l \in F : F = {h \in S : h <= l} /\ Numbers(F) /\ Cardinality(F) >= 1 /\ Last(InOrder(F)) = l
  BY <1>2, FirstOfFacts
<1>4. PICK m \in Nat : m = Cardinality(F)
  BY <1>3, NumbersFinite
<1>5. /\ Len(found) = m /\ DOMAIN found = 1..m
      /\ \A k \in 1..m : found[k] \in F /\ Rank(F, found[k]) = k - 1
      /\ found \in Seq(F)
  BY <1>3, <1>4, InOrderFacts
<1>6. l \in CharasOf(s) /\ from <= l /\ l \in Nat /\ m >= 1 /\ F = {h \in CharasOf(s) : from <= h /\ h <= l}
  <2>1. l \in CharasOf(s) /\ from <= l /\ l \in Nat /\ m >= 1
    BY <1>1, <1>3, <1>4
  <2>2. ASSUME NEW h \in CharasOf(s) PROVE h \in S <=> from <= h
    <3>1. h \in Nat
      BY <1>1
    <3> QED
      BY <3>1
  <2> QED
    BY <1>3, <2>1, <2>2
<1>7. Last(found) = l
  BY <1>3
<1> HIDE DEF F
<1>8. c + m = Cardinality({h \in CharasOf(s) : h < l + 1})
  <2>1. PICK t \in Nat : t = l + 1 /\ from <= t
    BY <1>6
  <2>2. Cardinality({h \in CharasOf(s) : h < t}) = Cardinality({h \in CharasOf(s) : h < from})
          + Cardinality({h \in CharasOf(s) : from <= h /\ h < t})
    BY <1>1, <2>1, CountOn
  <2>3. {h \in CharasOf(s) : from <= h /\ h < t} = F
    <3>1. ASSUME NEW h \in CharasOf(s) PROVE h < t <=> h <= l
      <4>1. h \in Nat
        BY <1>1
      <4> QED
        BY <1>6, <2>1, <4>1
    <3> QED
      BY <1>6, <3>1
  <2> QED
    BY <1>4, <2>1, <2>2, <2>3
<1>9. c + m <= Cardinality(CharasOf(s))
  <2>1. {h \in CharasOf(s) : h < l + 1} \in SUBSET CharasOf(s)
    OBVIOUS
  <2> QED
    BY <1>1, <1>8, <2>1, NumbersFinite
<1>10. ASSUME NEW k \in 1..m
       PROVE  /\ found[k] \in CharasOf(s) /\ found[k] \in Nat /\ found[k] \in Handles
              /\ found[k] + 1 \in Handles /\ Rank(CharasOf(s), found[k]) = c + (k - 1)
  <2>1. PICK h \in F : h = found[k]
    BY <1>5
  <2>2. Rank(F, h) = k - 1
    BY <1>5, <2>1
  <2>3. Rank(CharasOf(s), h) = Cardinality({g \in CharasOf(s) : g < from}) + Rank(F, h)
    BY <1>1, <1>6, RankBehind
  <2>4. h \in CharasOf(s) /\ h \in Nat /\ h + 1 <= LastOf(s)
    BY <1>1, <1>6, CharaFacts
  <2>5. PICK e \in Nat : e = LastOf(s) /\ e <= MaxHandle
    BY <1>0, ServiceFacts
  <2>6. PICK v \in Nat : v = h + 1 /\ v <= e /\ h <= e
    BY <2>4, <2>5
  <2>7. h \in Handles /\ v \in Handles
    BY <2>4, <2>5, <2>6, HandleRange
  <2> QED
    BY <2>1, <2>2, <2>3, <2>4, <2>6, <2>7
<1>11. ASSUME c + m <= MaxChara
       PROVE  /\ Filled(table, c, found) \in [0..(MaxChara - 1) -> CharaEntry]
              /\ Lists(Filled(table, c, found), c + m, s)
              /\ Filled(table, c, found)[c + m - 1].valueHandle = l + 1
              /\ \A i \in 0..(MaxChara - 1) : Filled(table, c, found)[i].descNum = table[i].descNum
  <2> DEFINE T == Filled(table, c, found)
  <2>1. /\ DOMAIN T = 0..(MaxChara - 1)
        /\ \A i \in 0..(MaxChara - 1) :
             T[i] = IF i \in c..(c + m - 1)
                    THEN [handle |-> found[i - c + 1], valueHandle |-> found[i - c + 1] + 1,
                          descNum |-> table[i].descNum]
                    ELSE table[i]
    BY <1>5 DEF Filled
  <2>2. T = [i \in 0..(MaxChara - 1) |-> T[i]]
    BY <1>5 DEF Filled
  <2> HIDE DEF T
  <2>3. ASSUME NEW i \in 0..(MaxChara - 1), i \in c..(c + m - 1)
        PROVE  /\ T[i] = [handle |-> found[i - c + 1], valueHandle |-> found[i - c + 1] + 1,
                          descNum |-> table[i].descNum]
               /\ i - c + 1 \in 1..m /\ c + ((i - c + 1) - 1) = i
    <3>1. T[i] = [handle |-> found[i - c + 1], valueHandle |-> found[i - c + 1] + 1,
                  descNum |-> table[i].descNum]
      BY <2>1, <2>3
    <3>2. i \in Nat /\ c <= i /\ i <= c + m - 1
      BY <2>3
    <3>3. i - c + 1 \in 1..m /\ c + ((i - c + 1) - 1) = i
      BY <3>2
    <3> QED
      BY <3>1, <3>3
  <2>4. ASSUME NEW i \in 0..(MaxChara - 1), ~(i \in c..(c + m - 1)) PROVE T[i] = table[i]
    BY <2>1, <2>4
  <2>5. ASSUME NEW i \in 0..(MaxChara - 1) PROVE T[i] \in CharaEntry /\ T[i].descNum = table[i].descNum
    <3>1. table[i] \in CharaEntry
      OBVIOUS
    <3>2. CASE i \in c..(c + m - 1)
      <4>1. PICK k \in 1..m : k = i - c + 1
        BY <2>3, <3>2
      <4>2. T[i] = [handle |-> found[k], valueHandle |-> found[k] + 1, descNum |-> table[i].descNum]
        BY <2>3, <3>2, <4>1
      <4>3. found[k] \in Handles /\ found[k] + 1 \in Handles
        BY <1>10
      <4> QED
        BY <3>1, <4>2, <4>3 DEF CharaEntry
    <3>3. CASE ~(i \in c..(c + m - 1))
      BY <2>4, <3>1, <3>3
    <3> QED
      BY <3>2, <3>3
  <2>6. T \in [0..(MaxChara - 1) -> CharaEntry]
    BY <2>2, <2>5
  <2>7. Lists(T, c + m, s)
    <3> SUFFICES ASSUME NEW i \in 0..(MaxChara - 1)
                 PROVE  IF i < c + m
                        THEN /\ T[i].handle \in CharasOf(s)
                             /\ Rank(CharasOf(s), T[i].handle) = i
                             /\ T[i].valueHandle = T[i].handle + 1
                        ELSE T[i].handle = 0 /\ T[i].valueHandle = 0
      BY DEF Lists
    <3>1. CASE i < c
      <4>1. ~(i \in c..(c + m - 1)) /\ i < c + m
        BY <1>0, <3>1
      <4>2. T[i] = table[i]
        BY <2>4, <4>1
      <4> QED
        BY <3>1, <4>1, <4>2 DEF Lists
    <3>2. CASE ~(i < c) /\ i < c + m
      <4>1. i \in c..(c + m - 1)
        BY <1>0, <3>2
      <4>2. PICK k \in 1..m : k = i - c + 1 /\ c + (k - 1) = i
        BY <2>3, <4>1
      <4>3. T[i] = [handle |-> found[k], valueHandle |-> found[k] + 1, descNum |-> table[i].descNum]
        BY <2>3, <4>1, <4>2
      <4>4. found[k] \in CharasOf(s) /\ Rank(CharasOf(s), found[k]) = i
        BY <1>10, <4>2
      <4> QED
        BY <3>2, <4>3, <4>4
    <3>3. CASE ~(i < c + m)
      <4>1. ~(i \in c..(c + m - 1)) /\ ~(i < c)
        BY <1>0, <3>3
      <4>2. T[i] = table[i]
        BY <2>4, <4>1
      <4> QED
        BY <3>3, <4>1, <4>2 DEF Lists
    <3> QED
      BY <3>1, <3>2, <3>3
  <2>8. T[c + m - 1].valueHandle = l + 1
    <3>1. PICK i \in 0..(MaxChara - 1) : i = c + m - 1 /\ i \in c..(c + m - 1) /\ i - c + 1 = m
      <4>0. m >= 1
        BY <1>6
      <4>5. c + m - 1 \in Nat
        BY <4>0
      <4>1. PICK i \in Nat : i = c + m - 1
        BY <4>5
      <4>2. c <= i /\ i <= MaxChara - 1 /\ i - c + 1 = m
        BY <1>0, <1>11, <4>0, <4>1, SMTT(30)
      <4>3. i \in 0..(MaxChara - 1) /\ i \in c..(c + m - 1)
        BY <1>0, <4>1, <4>2
      <4> QED
        BY <4>1, <4>2, <4>3
    <3>2. T[i] = [handle |-> found[m], valueHandle |-> found[m] + 1, descNum |-> table[i].descNum]
      BY <2>3, <3>1
    <3>3. found[m] = l
      BY <1>5, <1>7 DEF Last
    <3>4. T[i].valueHandle = l + 1
      BY <3>2, <3>3
    <3> QED
      BY <3>1, <3>4
  <2> QED
    BY <2>5, <2>6, <2>7, <2>8 DEF T
<1> QED
  BY <1>5, <1>6, <1>7, <1>8, <1>9, <1>11 DEF Behind

\* CharData, for the characteristics it found and the table with them.
CharResponse(found, table) ==
  LET n == chara_count + Len(found)
  IN  IF n > MaxChara
      THEN corrupt' = TRUE /\ UNCHANGED <<state, proc, table_vars>>
      ELSE /\ chara' = table
           /\ chara_count' = n
           /\ IF table[n - 1].valueHandle = prime.endHandle
                THEN FindInfo(table, n, desc, 0)
                ELSE /\ Ask("chara", Last(found) + 1, proc.to)
                     /\ UNCHANGED <<state, find_info_index, written, config_index, corrupt>>
           /\ UNCHANGED <<prime, desc>>

\* What a response with characteristics comes to, as fibo_char_data has it.
CharOutcome(s, t, c, found) ==
  IF c + Len(found) > MaxChara
  THEN corrupt' = TRUE /\ UNCHANGED <<state, proc, table_vars>>
  ELSE /\ chara' = Filled(t, c, found) /\ chara_count' = c + Len(found)
       /\ IF Filled(t, c, found)[c + Len(found) - 1].valueHandle = EndOf(s)
          THEN FindInfo(Filled(t, c, found), c + Len(found), << >>, 0)
          ELSE /\ proc' = [kind |-> "chara", from |-> Last(found) + 1, to |-> EndOf(s)]
               /\ UNCHANGED <<state, find_info_index, written, config_index, corrupt>>
       /\ UNCHANGED <<prime, desc>>

\* All the characteristics are in the table and no descriptor is: the client
\* goes on to the first that may have one.
LEMMA AllCharasInv ==
  ASSUME Discovery, corrupt = FALSE, NEW s \in Services, peer = s, peer' = s, link = "up", link' = "up",
         proc.kind = "chara", prime' = prime, desc = << >>, desc' = << >>,
         NEW table \in [0..(MaxChara - 1) -> CharaEntry], chara' = table,
         NEW n \in Nat, n <= MaxChara, chara_count' = n, n = Cardinality(CharasOf(s)), Lists(table, n, s),
         \A i \in 0..(MaxChara - 1) : table[i].descNum = 0,
         FindInfo(table, n, << >>, 0)
  PROVE  Discovery'
<1>1. MaxChara \in Nat /\ MaxDesc \in Nat /\ n \in 0..MaxChara
  BY BoundsAssumption
<1>2. << >> \in Seq(DescEntry) /\ Len(<< >>) = 0 /\ Len(<< >>) <= MaxDesc
  BY <1>1, EmptySeq
<1>3. \A k \in 0..(MaxChara - 1) : table[k].descNum <= Len(<< >>)
  BY <1>2
<1>4. ASSUME Ends(s) PROVE 0 < n /\ Found(<< >>, table, n, s, table[0].handle)
  <2>0. PICK h \in CharasOf(s) : h = EndOf(s) - 1
    BY <1>4 DEF Ends
  <2>1. PICK i \in 0..(n - 1) : table[i].handle = h
    <3>1. Has(table, n, h)
      BY EntryFor
    <3> QED
      BY <3>1 DEF Has
  <2>2. 0 < n
    BY <2>1
  <2>3. \A k \in 0..(n - 1) : table[k].descNum = 0
    <3>1. \A k \in 0..(n - 1) : k \in 0..(MaxChara - 1)
      BY <1>1
    <3> QED
      BY <3>1
  <2> QED
    BY <2>2, <2>3, FoundNone
<1>5. proc.kind \in {"chara", "info", "over"}
  OBVIOUS
<1>6. PICK descs \in Seq(DescEntry) : descs = << >>
  BY <1>2
<1>7. PICK i \in Nat : i = 0
  OBVIOUS
<1>8. Len(descs) <= MaxDesc /\ desc' = descs /\ \A k \in 0..(MaxChara - 1) : table[k].descNum <= Len(descs)
  BY <1>2, <1>3, <1>6
<1>9. FindInfo(table, n, descs, i) /\ (Ends(s) => i < n /\ Found(descs, table, n, s, table[i].handle))
      /\ Held(table, n, s, i)
  BY <1>4, <1>6, <1>7, HeldFirst
<1> HIDE <1>6, <1>7
<1> QED
  BY <1>1, <1>5, <1>8, <1>9, FindInfoInv

\* fibo_char_data, oc_ble_client_demo.c:348-381.
LEMMA CharDataInv ==
  Discovery /\ corrupt = FALSE /\ CharData => Discovery'
<1> SUFFICES ASSUME Discovery, corrupt = FALSE, CharData PROVE Discovery'
  OBVIOUS
<1>1. proc.kind = "chara" /\ CharasLeft # {}
  BY DEF CharData
<1>2. PICK s \in Services : s = peer /\ link = "up" /\ state # "config" /\ written = << >> /\ config_index = 0
  BY <1>1, Searched
<1>3. s # Absent /\ prime = [startHandle |-> s.start, endHandle |-> EndOf(s)] /\ prime.endHandle = EndOf(s)
  BY <1>1, <1>2, ServiceFacts DEF Discovery, Tables
<1>4. PICK t \in [0..(MaxChara - 1) -> CharaEntry], c \in Nat :
        t = chara /\ c = chara_count /\ c <= MaxChara /\ c \in 0..MaxChara
  <2>1. MaxChara \in Nat
    BY BoundsAssumption
  <2> QED
    BY <2>1 DEF Discovery, DiscoveryTypes
<1>5. PICK from \in Nat : from = proc.from /\ from >= 1 /\ from <= EndOf(s)
  <2>1. proc.from \in Nat
    BY DEF Discovery, DiscoveryTypes, Handles
  <2> QED
    BY <1>1, <1>2, <2>1 DEF Discovery, Searching
<1>6. /\ \A i \in 0..(MaxChara - 1) : t[i].descNum = 0
      /\ desc = << >> /\ find_info_index = 0 /\ proc.to = EndOf(s)
      /\ c = Cardinality({h \in CharasOf(s) : h < from}) /\ Lists(t, c, s)
  BY <1>1, <1>2, <1>3, <1>4, <1>5 DEF Discovery, Searching, Tables
<1>7. PICK S : S = {h \in CharasOf(s) : h >= from} /\ S # {} /\ S = CharasLeft
  BY <1>1, <1>2, <1>5 DEF CharasLeft
<1>8. \E b \in 1..Batch : \E found : found = InOrder(FirstOf(S, b)) /\ CharOutcome(s, t, c, found)
  <2>0. PICK b \in 1..Batch : CharResponse(InOrder(FirstOf(CharasLeft, b)),
                                       Filled(chara, chara_count, InOrder(FirstOf(CharasLeft, b))))
    BY DEF CharData, CharResponse
  <2>5. PICK found : found = InOrder(FirstOf(CharasLeft, b))
    OBVIOUS
  <2>6. PICK table : table = Filled(chara, chara_count, found)
    OBVIOUS
  <2>1. CharResponse(found, table)
    BY <2>0, <2>5, <2>6
  <2>2. found = InOrder(FirstOf(S, b)) /\ table = Filled(t, c, found)
    BY <1>4, <1>7, <2>5, <2>6
  <2>3. IF c + Len(found) > MaxChara
        THEN corrupt' = TRUE /\ UNCHANGED <<state, proc, table_vars>>
        ELSE /\ chara' = table
             /\ chara_count' = c + Len(found)
             /\ IF table[c + Len(found) - 1].valueHandle = EndOf(s)
                  THEN FindInfo(table, c + Len(found), << >>, 0)
                  ELSE /\ Ask("chara", Last(found) + 1, EndOf(s))
                       /\ UNCHANGED <<state, find_info_index, written, config_index, corrupt>>
             /\ UNCHANGED <<prime, desc>>
    <3>1. chara_count = c /\ desc = << >> /\ prime.endHandle = EndOf(s) /\ proc.to = EndOf(s)
      BY <1>3, <1>4, <1>6
    <3>2. CASE c + Len(found) > MaxChara
      BY <2>1, <3>1, <3>2 DEF CharResponse
    <3>3. CASE ~(c + Len(found) > MaxChara)
      <4>1. /\ chara' = table /\ chara_count' = c + Len(found) /\ UNCHANGED <<prime, desc>>
        BY <2>1, <3>1, <3>3 DEF CharResponse
      <4>2. CASE table[c + Len(found) - 1].valueHandle = EndOf(s)
        <5>1. FindInfo(table, chara_count + Len(found), desc, 0)
          BY <2>1, <3>1, <3>3, <4>2 DEF CharResponse
        <5>2. FindInfo(table, c + Len(found), << >>, 0)
          BY <3>1, <5>1
        <5> QED
          BY <3>3, <4>1, <4>2, <5>2
      <4>3. CASE ~(table[c + Len(found) - 1].valueHandle = EndOf(s))
        <5>1. Ask("chara", Last(found) + 1, proc.to)
              /\ UNCHANGED <<state, find_info_index, written, config_index, corrupt>>
          BY <2>1, <3>1, <3>3, <4>3 DEF CharResponse
        <5>2. Ask("chara", Last(found) + 1, EndOf(s))
          BY <3>1, <5>1 DEF Ask
        <5> QED
          BY <3>3, <4>1, <4>3, <5>1, <5>2
      <4> QED
        BY <4>2, <4>3
    <3> QED
      BY <3>2, <3>3
  <2>4. CharOutcome(s, t, c, found)
    BY <2>2, <2>3 DEF CharOutcome, Ask
  <2> QED
    BY <2>2, <2>4
<1>15. PICK b \in 1..Batch : \E found : found = InOrder(FirstOf(S, b)) /\ CharOutcome(s, t, c, found)
  BY <1>8
<1>16. PICK found : found = InOrder(FirstOf(S, b)) /\ CharOutcome(s, t, c, found)
  BY <1>15
<1>9. b \in Nat /\ b >= 1
  BY BoundsAssumption
<1>10. PICK l \in CharasOf(s) :
           /\ Last(found) = l /\ from <= l /\ Len(found) \in Nat /\ Len(found) >= 1
           /\ c + Len(found) = Cardinality({h \in CharasOf(s) : h < l + 1})
           /\ c + Len(found) <= Cardinality(CharasOf(s))
           /\ c + Len(found) <= MaxChara =>
                /\ Filled(t, c, found) \in [0..(MaxChara - 1) -> CharaEntry]
                /\ Lists(Filled(t, c, found), c + Len(found), s)
                /\ Filled(t, c, found)[c + Len(found) - 1].valueHandle = l + 1
                /\ \A i \in 0..(MaxChara - 1) : Filled(t, c, found)[i].descNum = t[i].descNum
  <2>1. Behind(s, t, c, from, found)
    BY <1>4, <1>6, <1>7, <1>16, <1>9, MoreCharas
  <2> QED
    BY <2>1 DEF Behind
<1>11. PICK n \in Nat : n = c + Len(found)
  BY <1>10
<1>12. MaxChara \in Nat /\ link' = "up" /\ peer' = s
  BY <1>2, BoundsAssumption DEF CharData, link_vars
<1>13. CASE n > MaxChara
  <2>1. corrupt' = TRUE /\ UNCHANGED <<state, proc, table_vars>>
    BY <1>16, <1>11, <1>13 DEF CharOutcome
  <2>2. ~Plain(s)
    <3>1. Cardinality(CharasOf(s)) \in Nat
      BY HandlesBounded, NumbersFinite
    <3>2. ~(Cardinality(CharasOf(s)) <= MaxChara)
      BY <1>10, <1>11, <1>12, <1>13, <3>1
    <3> QED
      BY <3>2 DEF Plain
  <2> QED
    BY <1>1, <1>2, <1>12, <2>1, <2>2, DiscoveryLeft
<1>14. CASE ~(n > MaxChara)
  <2>1. n <= MaxChara /\ n \in 0..MaxChara
    BY <1>12, <1>14
  <2>2. PICK table \in [0..(MaxChara - 1) -> CharaEntry] :
          /\ table = Filled(t, c, found) /\ Lists(table, n, s) /\ table[n - 1].valueHandle = l + 1
          /\ \A i \in 0..(MaxChara - 1) : table[i].descNum = 0
    <3>1. /\ Filled(t, c, found) \in [0..(MaxChara - 1) -> CharaEntry]
          /\ Lists(Filled(t, c, found), n, s)
          /\ Filled(t, c, found)[n - 1].valueHandle = l + 1
          /\ \A i \in 0..(MaxChara - 1) : Filled(t, c, found)[i].descNum = t[i].descNum
      BY <1>10, <1>11, <2>1
    <3> QED
      BY <1>6, <3>1
  <2>3. /\ chara' = table /\ chara_count' = n /\ prime' = prime /\ desc' = << >>
        /\ IF l + 1 = EndOf(s) THEN FindInfo(table, n, << >>, 0)
           ELSE /\ proc' = [kind |-> "chara", from |-> l + 1, to |-> EndOf(s)]
                /\ UNCHANGED <<state, find_info_index, written, config_index, corrupt>>
    BY <1>6, <1>16, <1>10, <1>11, <1>14, <2>2 DEF CharOutcome
  <2>4. l \in Nat /\ l + 1 <= LastOf(s) /\ LastOf(s) <= EndOf(s) /\ LastOf(s) \in Nat /\ EndOf(s) \in Nat
        /\ EndOf(s) <= MaxHandle
    BY CharaFacts, ServiceFacts
  <2>5. CASE l + 1 = EndOf(s)
    <3>1. n = Cardinality(CharasOf(s))
      <4>1. {h \in CharasOf(s) : h < l + 1} = CharasOf(s)
        <5>1. ASSUME NEW h \in CharasOf(s) PROVE h < l + 1
          <6>1. h \in Nat /\ h + 1 <= LastOf(s)
            BY CharaFacts
          <6> QED
            BY <2>4, <2>5, <6>1
        <5> QED
          BY <5>1
      <4> QED
        BY <1>10, <1>11, <4>1
    <3>2. FindInfo(table, n, << >>, 0)
      BY <2>3, <2>5
    <3> QED
      BY <1>1, <1>2, <1>6, <1>12, <2>1, <2>2, <2>3, <3>1, <3>2, AllCharasInv
  <2>6. CASE l + 1 # EndOf(s)
    <3>1. /\ proc' = [kind |-> "chara", from |-> l + 1, to |-> EndOf(s)] /\ state' = state
          /\ find_info_index' = 0 /\ written' = << >> /\ config_index' = 0 /\ corrupt' = FALSE
      BY <1>2, <1>6, <2>3, <2>6
    <3>2. l + 1 \in Handles /\ EndOf(s) \in Handles /\ l + 1 <= EndOf(s) /\ l + 1 >= 1
      <4>1. PICK e \in Nat : e = EndOf(s) /\ e <= MaxHandle
        BY <2>4
      <4>2. PICK v \in Nat : v = l + 1 /\ v <= e /\ v >= 1
        BY <2>4, <4>1
      <4>3. e \in Handles /\ v \in Handles
        BY <4>1, <4>2, HandleRange
      <4> QED
        BY <4>1, <4>2, <4>3
    <3>3. << >> \in Seq(DescEntry) /\ Len(<< >>) = 0 /\ 0 \in 0..0
      BY EmptySeq
    <3>4. DiscoveryTypes'
      <4>1. state' \in {"disconnect", "connected", "include", "chara", "info", "config"}
            /\ prime' \in [startHandle : Handles, endHandle : Handles] /\ 0 < MaxChara
            /\ Len(<< >>) <= MaxDesc
        BY <2>3, <3>1, <3>3, BoundsAssumption DEF Discovery, DiscoveryTypes
      <4> QED
        BY <2>1, <2>3, <3>1, <3>2, <3>3, <4>1 DEF DiscoveryTypes
    <3>5. proc'.kind = "chara" /\ proc'.from = l + 1 /\ proc'.to = EndOf(s)
      BY <3>1
    <3>6. Linked' /\ Describing' /\ Configured' /\ Room'
      BY <1>2, <1>3, <1>12, <3>1, <3>5 DEF Linked, Describing, Configured, Room
    <3>7. Lists(chara, chara_count, peer)'
      BY <1>12, <2>2, <2>3 DEF Lists
    <3>8. Tables'
      BY <1>3, <1>12, <2>2, <2>3, <3>1, <3>3, <3>5, <3>7 DEF Tables
    <3>9. Searching'
      BY <1>10, <1>11, <1>12, <2>2, <2>3, <3>1, <3>2, <3>5 DEF Searching
    <3> QED
      BY <3>4, <3>6, <3>8, <3>9 DEF Discovery
  <2> QED
    BY <2>5, <2>6
<1> QED
  BY <1>11, <1>13, <1>14

\* oc_ble_client_demo.c:540-545.
LEMMA NoMoreCharasInv ==
  Discovery /\ corrupt = FALSE /\ NoMoreCharas => Discovery'
<1> SUFFICES ASSUME Discovery, corrupt = FALSE, NoMoreCharas PROVE Discovery'
  OBVIOUS
<1>1. proc.kind = "chara" /\ CharasLeft = {}
  BY DEF NoMoreCharas
<1>2. PICK s \in Services : s = peer /\ link = "up"
  BY <1>1, Searched
<1>3. s # Absent
  BY ServiceFacts
<1>4. PICK t \in [0..(MaxChara - 1) -> CharaEntry], c \in Nat : t = chara /\ c = chara_count /\ c <= MaxChara
  <2>1. MaxChara \in Nat
    BY BoundsAssumption
  <2> QED
    BY <2>1 DEF Discovery, DiscoveryTypes
<1>5. PICK from \in Nat : from = proc.from
  BY DEF Discovery, DiscoveryTypes, Handles
<1>6. /\ \A i \in 0..(MaxChara - 1) : t[i].descNum = 0
      /\ desc = << >> /\ c = Cardinality({h \in CharasOf(s) : h < from}) /\ Lists(t, c, s)
  BY <1>1, <1>2, <1>3, <1>4, <1>5 DEF Discovery, Searching, Tables
<1>7. {h \in CharasOf(s) : h < from} = CharasOf(s)
  <2>1. ASSUME NEW h \in CharasOf(s) PROVE h < from
    <3>1. h \in Nat /\ ~(h >= from)
      BY <1>1, <1>2, <1>5, CharaFacts DEF CharasLeft
    <3> QED
      BY <3>1
  <2> QED
    BY <2>1
<1>8. /\ link' = "up" /\ peer' = s /\ prime' = prime /\ chara' = t /\ chara_count' = c /\ desc' = << >>
      /\ FindInfo(t, c, << >>, 0)
  BY <1>2, <1>4, <1>6 DEF NoMoreCharas, link_vars
<1>9. c = Cardinality(CharasOf(s))
  BY <1>6, <1>7
<1> QED
  BY <1>1, <1>2, <1>4, <1>6, <1>8, <1>9, AllCharasInv

\* The smaller of two numbers.
LEMMA MinOfTwo ==
  ASSUME NEW a \in Nat, NEW b \in Nat
  PROVE  /\ Min({a, b}) \in Nat /\ Min({a, b}) <= a /\ Min({a, b}) <= b
         /\ Min({a, b}) = a \/ Min({a, b}) = b
<1>1. \E x \in {a, b} : \A y \in {a, b} : x <= y
  <2>1. CASE a <= b
    BY <2>1
  <2>2. CASE ~(a <= b)
    BY <2>2
  <2> QED
    BY <2>1, <2>2
<1>2. Min({a, b}) \in {a, b} /\ \A y \in {a, b} : Min({a, b}) <= y
  BY <1>1 DEF Min
<1> QED
  BY <1>2

\* The table with m more descriptors counted at entry i.
Counted(table, i, m) == [table EXCEPT ![i].descNum = @ + m]

\* A response covers the first part of the range asked for.
OnePart(s, from, top, found) ==
  \E l \in Nat :
    /\ from <= l /\ l <= top /\ Last(found) = l /\ found = InOrder(from..l)
    /\ Len(found) \in Nat /\ Attrs(s, found) \in Seq(DescEntry)
    /\ Len(Attrs(s, found)) = Len(found)

\* A response to Find Information is such a part, and fits the list.
LEMMA AttrsOf ==
  ASSUME NEW s \in Services, NEW from \in Nat, from >= 1, NEW top \in Nat, top <= LastOf(s),
         NEW b \in Nat, b >= 1, from <= top,
         NEW found, found = InOrder(FirstOf(from..top, b))
  PROVE  OnePart(s, from, top, found)
<1> DEFINE S == from..top
<1>1. Numbers(S) /\ S # {}
  <2>1. S \subseteq Nat /\ S \subseteq 0..top /\ from \in S
    OBVIOUS
  <2> HIDE DEF S
  <2> QED
    BY <2>1 DEF Numbers
<1> DEFINE F == FirstOf(S, b)
<1>2. PICK l \in F : F = {h \in S : h <= l} /\ Numbers(F) /\ Last(InOrder(F)) = l
  BY <1>1, FirstOfFacts
<1>3. l \in Nat /\ from <= l /\ l <= top /\ F = from..l
  <2>1. l \in S
    BY <1>2
  <2>2. l \in Nat /\ from <= l /\ l <= top
    BY <2>1
  <2>3. {h \in S : h <= l} = from..l
    BY <2>2
  <2> QED
    BY <1>2, <2>2, <2>3
<1> HIDE DEF F, S
<1>4. PICK m \in Nat : m = Cardinality(F)
  BY <1>2, NumbersFinite
<1>5. Len(found) = m /\ DOMAIN found = 1..m /\ (\A k \in 1..m : found[k] \in F) /\ found = InOrder(F)
  BY <1>2, <1>4, InOrderFacts DEF F, S
<1>6. ASSUME NEW k \in 1..m PROVE [handle |-> found[k], uuid |-> KindAt(s, found[k])] \in DescEntry
  <2>1. PICK h \in Nat : h = found[k] /\ from <= h /\ h <= l
    BY <1>3, <1>5
  <2>2. h <= LastOf(s) /\ LastOf(s) \in Nat /\ LastOf(s) <= MaxHandle
    <3>1. LastOf(s) \in Nat /\ LastOf(s) <= EndOf(s) /\ EndOf(s) \in Nat /\ EndOf(s) <= MaxHandle /\ MaxHandle \in Nat
      BY ServiceFacts
    <3> QED
      BY <1>3, <2>1, <3>1
  <2>3. h \in Handles
    BY <2>2, HandleRange
  <2>4. KindAt(s, h) \in AttrKind
    <3>1. s.start \in Nat
      BY ServiceFacts
    <3>2. CASE s.start < h
      BY <2>2, <3>2, AttrFacts
    <3>3. CASE ~(s.start < h)
      <4>1. ~(h > s.start)
        BY <3>1, <3>3
      <4> QED
        BY <4>1 DEF KindAt, AttrKind
    <3> QED
      BY <3>2, <3>3
  <2> QED
    BY <2>1, <2>3, <2>4 DEF DescEntry
<1>7. Attrs(s, found) \in [1..m -> DescEntry]
  BY <1>5, <1>6 DEF Attrs
<1>8. Attrs(s, found) \in Seq(DescEntry) /\ Len(Attrs(s, found)) = m
  BY <1>7
<1> QED
  BY <1>2, <1>3, <1>5, <1>8 DEF OnePart

\* The count of entry i grows.
LEMMA CountedFacts ==
  ASSUME NEW s \in Services, NEW table \in [0..(MaxChara - 1) -> CharaEntry], NEW n \in Nat, n <= MaxChara,
         Lists(table, n, s), NEW i \in Nat, i < MaxChara, NEW m \in Nat, NEW d \in Nat,
         \A k \in 0..(MaxChara - 1) : table[k].descNum <= d, d + m <= MaxDesc
  PROVE  /\ Counted(table, i, m) \in [0..(MaxChara - 1) -> CharaEntry]
         /\ Lists(Counted(table, i, m), n, s)
         /\ \A k \in 0..(MaxChara - 1) : Counted(table, i, m)[k].descNum <= d + m
<1>0. MaxChara \in Nat /\ MaxDesc \in Nat /\ i \in 0..(MaxChara - 1)
  BY BoundsAssumption
<1> DEFINE T == Counted(table, i, m)
<1>1. /\ DOMAIN T = 0..(MaxChara - 1)
      /\ \A k \in 0..(MaxChara - 1) :
           T[k] = IF k = i THEN [table[i] EXCEPT !.descNum = @ + m] ELSE table[k]
      /\ T = [k \in 0..(MaxChara - 1) |-> T[k]]
  BY <1>0 DEF Counted
<1> HIDE DEF T
<1>2. ASSUME NEW k \in 0..(MaxChara - 1)
      PROVE  /\ T[k] \in CharaEntry /\ T[k].descNum <= d + m
             /\ T[k].handle = table[k].handle /\ T[k].valueHandle = table[k].valueHandle
  <2>1. table[k] \in CharaEntry /\ table[k].descNum \in Nat /\ table[k].descNum <= d
    BY <1>0 DEF CharaEntry
  <2>2. CASE k = i
    <3>1. T[k] = [handle |-> table[k].handle, valueHandle |-> table[k].valueHandle, descNum |-> table[k].descNum + m]
      BY <1>1, <2>1, <2>2 DEF CharaEntry
    <3>2. table[k].descNum + m \in 0..MaxDesc /\ table[k].descNum + m <= d + m
      BY <1>0, <2>1
    <3> QED
      BY <2>1, <3>1, <3>2 DEF CharaEntry
  <2>3. CASE k # i
    <3>1. T[k] = table[k]
      BY <1>1, <2>3
    <3> QED
      BY <2>1, <3>1
  <2> QED
    BY <2>2, <2>3
<1>3. T \in [0..(MaxChara - 1) -> CharaEntry]
  BY <1>1, <1>2
<1>4. Lists(T, n, s)
  BY <1>2 DEF Lists
<1> QED
  BY <1>2, <1>3, <1>4 DEF T

\* With one more stretch of descriptors the list stays complete.
LEMMA FoundCounted ==
  ASSUME NEW s \in Services, NEW table \in [0..(MaxChara - 1) -> CharaEntry], NEW n \in Nat, n <= MaxChara,
         Lists(table, n, s), NEW list \in Seq(DescEntry), NEW i \in Nat, i + 1 < n,
         NEW b \in Nat, NEW l \in Nat, Found(list, table, n, s, b), table[i].valueHandle < b, b <= l,
         l < table[i + 1].handle, \A h \in b..l : h \notin s.wide,
         NEW found, found = InOrder(b..l), Len(found) \in Nat,
         Attrs(s, found) \in Seq(DescEntry)
  PROVE  Found(list \o Attrs(s, found), Counted(table, i, Len(found)), n, s, l + 1)
<1> DEFINE T == Counted(table, i, Len(found))
<1>0. MaxChara \in Nat /\ MaxDesc \in Nat /\ i \in 0..(MaxChara - 1)
  BY BoundsAssumption
<1>1. \A k \in 0..(MaxChara - 1) :
        T[k] = IF k = i THEN [table[i] EXCEPT !.descNum = @ + Len(found)] ELSE table[k]
  BY <1>0 DEF Counted
<1> HIDE DEF T
<1>4. ASSUME NEW k \in 0..(n - 1)
      PROVE  /\ T[k].handle = table[k].handle
             /\ T[k].descNum = table[k].descNum + (IF k = i THEN Len(found) ELSE 0)
  <2>1. k \in 0..(MaxChara - 1)
    BY <1>0
  <2>2. table[k] \in CharaEntry /\ table[k].descNum \in Nat
    BY <1>0, <2>1 DEF CharaEntry
  <2>3. CASE k = i
    <3>1. T[k] = [table[k] EXCEPT !.descNum = @ + Len(found)]
      BY <1>1, <2>1, <2>3
    <3>2. T[k].handle = table[k].handle /\ T[k].descNum = table[k].descNum + Len(found)
      BY <2>2, <3>1 DEF CharaEntry
    <3> QED
      BY <2>3, <3>2
  <2>4. CASE k # i
    <3>1. T[k] = table[k]
      BY <1>1, <2>1, <2>4
    <3> QED
      BY <2>2, <2>4, <3>1
  <2> QED
    BY <2>3, <2>4
<1>5. Grows(T, table, n, i, Len(found))
  BY <1>4 DEF Grows
<1>6. Found(list \o Attrs(s, found), T, n, s, l + 1)
  <2>3. PICK F : F = b..l /\ found = InOrder(F)
    OBVIOUS
  <2>1. PICK more \in Seq(DescEntry) : more = Attrs(s, found) /\ more = Attrs(s, InOrder(F))
    BY <2>3
  <2>2. Found(list \o more, T, n, s, l + 1)
    BY <1>5, <2>1, <2>3, FoundMore
  <2> QED
    BY <2>1, <2>2
<1> QED
  BY <1>6 DEF T

\* What a response with attributes comes to, as fibo_char_des_data has it.
DescOutcome(table, n, descs, i, l) ==
  IF Len(descs) > MaxDesc
  THEN corrupt' = TRUE /\ UNCHANGED <<state, proc, table_vars>>
  ELSE /\ desc' = descs
       /\ chara' = table
       /\ \/ /\ l = prime.endHandle
             /\ FindInfo(table, n, descs, i + 1)
          \/ /\ l # prime.endHandle /\ i + 1 >= MaxChara
             /\ corrupt' = TRUE
             /\ UNCHANGED <<state, proc, find_info_index, written, config_index>>
          \/ /\ l # prime.endHandle /\ i + 1 < MaxChara
             /\ IF l + 1 = table[i + 1].handle
                  THEN FindInfo(table, n, descs, i + 1)
                  ELSE /\ Ask("info", l + 1, proc.to)
                       /\ UNCHANGED <<state, find_info_index, written, config_index, corrupt>>
       /\ UNCHANGED <<prime, chara_count>>

\* What holds of the range asked for.
RangeOf(s) ==
  /\ proc.to <= EndOf(s) /\ proc.from >= 1
  /\ find_info_index + 1 < chara_count => proc.to = chara[find_info_index + 1].handle - 1
  /\ Held(chara, chara_count, s, find_info_index)
  /\ Ends(s) => /\ find_info_index + 1 < chara_count
                /\ chara[find_info_index].valueHandle < proc.from /\ proc.from <= proc.to
                /\ Found(desc, chara, chara_count, s, proc.from)

\* What holds while the client asks for descriptors, for the peer's service.
LEMMA InfoFacts ==
  ASSUME Discovery, corrupt = FALSE, proc.kind \in {"info", "over"}
  PROVE  \E s \in Services :
           /\ s = peer /\ link = "up" /\ state # "config" /\ written = << >> /\ config_index = 0
           /\ s # Absent /\ prime = [startHandle |-> s.start, endHandle |-> EndOf(s)]
           /\ prime.endHandle = EndOf(s) /\ chara_count = Cardinality(CharasOf(s))
           /\ Lists(chara, chara_count, s) /\ proc.to \in Nat /\ proc.from \in Nat
           /\ proc.kind = "over" => ~Ends(s)
           /\ proc.kind = "info" => RangeOf(s)
<1>1. PICK s \in Services : s = peer /\ link = "up" /\ state # "config" /\ written = << >> /\ config_index = 0
  BY Searched
<1>2. s # Absent
  BY ServiceFacts
<1>3. prime = [startHandle |-> s.start, endHandle |-> EndOf(s)] /\ prime.endHandle = EndOf(s)
      /\ Lists(chara, chara_count, s)
  BY <1>1, <1>2 DEF Discovery, Tables
<1>4. chara_count = Cardinality(CharasOf(s)) /\ (proc.kind = "over" => ~Ends(s))
  BY <1>1, <1>2 DEF Discovery, Searching, Describing
<1>5. proc.to \in Nat /\ proc.from \in Nat
  BY DEF Discovery, DiscoveryTypes, Handles
<1>6. proc.kind = "info" => RangeOf(s)
  BY <1>1 DEF Discovery, Searching, Describing, RangeOf
<1> QED
  BY <1>1, <1>2, <1>3, <1>4, <1>5, <1>6

\* The error callback starts again with the first characteristic only when the
\* service does not end as it should (oc_ble_client_demo.c:546-555).
LEMMA NoMoreDescsInv ==
  Discovery /\ corrupt = FALSE /\ NoMoreDescs => Discovery'
<1> SUFFICES ASSUME Discovery, corrupt = FALSE, NoMoreDescs PROVE Discovery'
  OBVIOUS
<1>1. /\ proc.kind = "over" \/ (proc.kind = "info" /\ AttrsLeft = {})
      /\ proc.kind \in {"info", "over"} /\ proc.kind \in {"chara", "info", "over"}
  BY DEF NoMoreDescs
<1>2. PICK s \in Services :
           /\ s = peer /\ link = "up" /\ state # "config" /\ written = << >> /\ config_index = 0
           /\ s # Absent /\ prime = [startHandle |-> s.start, endHandle |-> EndOf(s)]
           /\ prime.endHandle = EndOf(s) /\ chara_count = Cardinality(CharasOf(s))
           /\ Lists(chara, chara_count, s) /\ proc.to \in Nat /\ proc.from \in Nat
           /\ proc.kind = "over" => ~Ends(s)
           /\ proc.kind = "info" => RangeOf(s)
  BY <1>1, InfoFacts
<1>3. PICK t \in [0..(MaxChara - 1) -> CharaEntry], n \in 0..MaxChara : t = chara /\ n = chara_count
  BY DEF Discovery, DiscoveryTypes
<1>4. PICK descs \in Seq(DescEntry), j \in Nat : descs = desc /\ j = find_info_index /\ Len(descs) <= MaxDesc
  BY DEF Discovery, DiscoveryTypes
<1>5. n = Cardinality(CharasOf(s)) /\ Lists(t, n, s) /\ n \in Nat /\ n <= MaxChara
  BY <1>2, <1>3, BoundsAssumption
<1>6. \A k \in 0..(MaxChara - 1) : t[k].descNum <= Len(descs)
  BY <1>3, <1>4 DEF Discovery, Tables
<1>7. ~Ends(s)
  <2> SUFFICES ASSUME Ends(s) PROVE FALSE
    OBVIOUS
  <2>8. proc.kind = "info" /\ AttrsLeft = {}
    BY <1>1, <1>2
  <2>1. PICK from \in Nat, to \in Nat : from = proc.from /\ to = proc.to
    BY <1>2
  <2>2. j + 1 < n /\ to = t[j + 1].handle - 1 /\ from <= to
    BY <1>2, <1>3, <1>4, <2>1, <2>8 DEF RangeOf
  <2>3. PICK h \in Nat : h = t[j + 1].handle /\ h + 1 <= LastOf(s)
    <3>1. PICK q \in Nat : q = j + 1 /\ q < n
      BY <2>2
    <3>2. t[q].handle \in Nat /\ t[q].handle + 1 <= LastOf(s)
      BY <1>5, <3>1, EntryFacts
    <3> QED
      BY <3>1, <3>2
  <2>4. PICK e \in Nat : e = LastOf(s)
    BY ServiceFacts
  <2>5. Min({to, e}) \in Nat /\ (Min({to, e}) = to \/ Min({to, e}) = e)
    BY MinOfTwo
  <2>6. from \in from..Min({to, e})
    <3>1. to = h - 1 /\ h + 1 <= e /\ from <= to
      BY <2>2, <2>3, <2>4
    <3>2. from <= e
      BY <3>1
    <3>3. from <= Min({to, e})
      BY <2>5, <3>1, <3>2
    <3> QED
      BY <2>5, <3>3
  <2>7. AttrsLeft = from..Min({to, e})
    BY <1>2, <2>1, <2>4 DEF AttrsLeft
  <2> QED
    BY <2>6, <2>7, <2>8
<1>8. /\ link' = "up" /\ peer' = s /\ prime' = prime /\ chara' = t /\ chara_count' = n /\ desc' = descs
      /\ FindInfo(t, n, descs, 0)
  BY <1>2, <1>3, <1>4 DEF NoMoreDescs, link_vars
<1>9. PICK i \in Nat : i = 0
  OBVIOUS
<1>10. FindInfo(t, n, descs, i) /\ Held(t, n, s, i)
  BY <1>5, <1>8, <1>9, HeldFirst
<1> HIDE <1>9
<1> QED
  BY <1>1, <1>2, <1>4, <1>5, <1>6, <1>7, <1>8, <1>10, FindInfoInv

\* What the peer reports of the range asked for is a first part of it, of one
\* width.
LEMMA NextOf ==
  ASSUME NEW s \in Services, peer = s, NEW from \in Nat, from = proc.from, NEW to \in Nat, to = proc.to,
         AttrsLeft # {}
  PROVE  \E top \in Nat : /\ NextAttrs = from..top /\ from <= top /\ top <= to /\ top <= LastOf(s)
                          /\ \A g \in from..top : g \in s.wide <=> from \in s.wide
<1>1. PICK e \in Nat : e = LastOf(s)
  BY ServiceFacts
<1>2. PICK m \in Nat : m = Min({to, e}) /\ m <= to /\ m <= e
  BY MinOfTwo
<1>3. AttrsLeft = from..m
  BY <1>1, <1>2 DEF AttrsLeft
<1>4. from <= m
  <2> SUFFICES ASSUME ~(from <= m) PROVE FALSE
    OBVIOUS
  <2>1. from..m = {}
    OBVIOUS
  <2> QED
    BY <1>3, <2>1
<1>5. \A h : h \in NextAttrs <=> h \in from..m /\ \A g \in from..h : (g \in s.wide <=> from \in s.wide)
  BY <1>3 DEF NextAttrs
<1>6. PICK top \in Nat : /\ NextAttrs = from..top /\ from <= top /\ top <= m
                         /\ \A g \in from..top : g \in s.wide <=> from \in s.wide
  <2>1. PICK N : N = NextAttrs
    OBVIOUS
  <2>2. N \in SUBSET (0..m) /\ from \in N
    BY <1>4, <1>5, <2>1
  <2>3. PICK t \in N : \A h \in N : h <= t
    BY <2>2, GreatestMember
  <2>4. t \in Nat /\ from <= t /\ t <= m /\ \A g \in from..t : g \in s.wide <=> from \in s.wide
    BY <1>5, <2>1, <2>2, <2>3
  <2>5. ASSUME NEW h \in from..t PROVE h \in N
    <3>1. h \in from..m /\ \A g \in from..h : (g \in s.wide <=> from \in s.wide)
      BY <2>4
    <3> QED
      BY <1>5, <2>1, <3>1
  <2>6. ASSUME NEW h \in N PROVE h \in from..t
    BY <1>5, <2>1, <2>3, <2>4
  <2>7. NextAttrs = from..t
    BY <2>1, <2>5, <2>6
  <2> QED
    BY <2>4, <2>7
<1>7. top <= to /\ top <= e
  BY <1>2, <1>6
<1> QED
  BY <1>1, <1>6, <1>7

\* The last of a response with wide UUIDs, from the range asked for.
WideOutcome(l) ==
  IF l = proc.to THEN Ask("over", 0, 0) ELSE Ask("info", l + 1, proc.to)

\* fibo_char_des_data for UUIDs of 128 bits, oc_ble_client_demo.c:319-324.
LEMMA WideDescsInv ==
  Discovery /\ corrupt = FALSE /\ WideDescs => Discovery'
<1> SUFFICES ASSUME Discovery, corrupt = FALSE, WideDescs PROVE Discovery'
  OBVIOUS
<1>1. /\ proc.kind = "info" /\ AttrsLeft # {} /\ proc.from \in peer.wide
      /\ proc.kind \in {"info", "over"}
  BY DEF WideDescs, Format16
<1>2. PICK s \in Services :
           /\ s = peer /\ link = "up" /\ state # "config" /\ written = << >> /\ config_index = 0
           /\ s # Absent /\ prime = [startHandle |-> s.start, endHandle |-> EndOf(s)]
           /\ prime.endHandle = EndOf(s) /\ chara_count = Cardinality(CharasOf(s))
           /\ Lists(chara, chara_count, s) /\ proc.to \in Nat /\ proc.from \in Nat
           /\ proc.kind = "over" => ~Ends(s)
           /\ proc.kind = "info" => RangeOf(s)
  BY <1>1, InfoFacts
<1>3. PICK from \in Nat, to \in Nat : from = proc.from /\ to = proc.to /\ from >= 1 /\ to <= EndOf(s)
  BY <1>1, <1>2 DEF RangeOf
<1>4. PICK top \in Nat : /\ NextAttrs = from..top /\ from <= top /\ top <= to /\ top <= LastOf(s)
                         /\ \A g \in from..top : g \in s.wide
  BY <1>1, <1>2, <1>3, NextOf
<1>5. PICK b \in 1..Batch : WideOutcome(Last(InOrder(FirstOf(NextAttrs, b))))
  BY DEF WideDescs, WideOutcome
<1>6. b \in Nat /\ b >= 1
  BY BoundsAssumption
<1>7. PICK found : found = InOrder(FirstOf(from..top, b)) /\ found = InOrder(FirstOf(NextAttrs, b))
  BY <1>4
<1>8. PICK l \in Nat : from <= l /\ l <= top /\ Last(found) = l
  <2>1. OnePart(s, from, top, found)
    BY <1>3, <1>4, <1>6, <1>7, AttrsOf
  <2> QED
    BY <2>1 DEF OnePart
<1>9. WideOutcome(l)
  BY <1>5, <1>7, <1>8
<1>10. /\ link' = "up" /\ peer' = s /\ state' = state /\ prime' = prime /\ chara' = chara
       /\ chara_count' = chara_count /\ desc' = desc /\ find_info_index' = find_info_index
       /\ written' = written /\ config_index' = config_index /\ corrupt' = FALSE
  BY <1>2 DEF WideDescs, link_vars, table_vars
<1>11. \A h \in from..l : h \in s.wide
  BY <1>4, <1>8
<1>12. 0 \in Handles /\ EndOf(s) \in Nat /\ EndOf(s) <= MaxHandle
  <2>1. MaxHandle \in Nat
    BY DEF MaxHandle
  <2> QED
    BY <2>1, ServiceFacts DEF Handles
\* The tables are as they were, whatever is asked for next.
<1>13. ASSUME NEW kind \in {"info", "over"}, NEW f \in Handles, NEW g \in Handles,
              proc' = [kind |-> kind, from |-> f, to |-> g]
       PROVE  DiscoveryTypes' /\ Linked' /\ Tables' /\ Configured' /\ Room'
  <2>1. proc'.kind = kind /\ kind # "none" /\ kind # "primary" /\ kind # "include"
    BY <1>13
  <2>2. DiscoveryTypes'
    BY <1>10, <1>13 DEF Discovery, DiscoveryTypes
  <2>3. Linked' /\ Configured' /\ Room'
    BY <1>2, <1>10, <2>1 DEF Linked, Configured, Room
  <2>4. Tables'
    BY <1>2, <1>10, <2>1 DEF Discovery, Tables, Lists
  <2> QED
    BY <2>2, <2>3, <2>4
<1>14. CASE l = to
  <2>1. proc' = [kind |-> "over", from |-> 0, to |-> 0]
    BY <1>3, <1>9, <1>14 DEF WideOutcome, Ask
  <2>2. ~Ends(s)
    <3> SUFFICES ASSUME Ends(s) PROVE FALSE
      OBVIOUS
    <3>1. PICK i \in Nat, n \in Nat : i = find_info_index /\ n = chara_count /\ n <= MaxChara
      BY BoundsAssumption DEF Discovery, DiscoveryTypes
    <3>2. i + 1 < n /\ to = chara[i + 1].handle - 1 /\ chara[i].valueHandle < from /\ Lists(chara, n, s)
      BY <1>1, <1>2, <1>3, <3>1 DEF RangeOf
    <3>3. PICK j \in Nat : j = i + 1 /\ j < n /\ i < n
      BY <3>2
    <3>4. PICK g \in CharasOf(s) : g = chara[i].handle /\ g \in Nat /\ chara[i].valueHandle = g + 1
      BY <3>1, <3>2, <3>3, EntryFacts
    <3>5. PICK x \in CharasOf(s) : x = chara[j].handle /\ x \in Nat /\ x + 1 <= LastOf(s)
      BY <3>1, <3>2, <3>3, EntryFacts
    <3>6. g < x /\ \A y \in CharasOf(s) : ~(g < y /\ y < x)
      BY <3>1, <3>2, <3>3, <3>4, <3>5, EntriesInOrder
    <3>7. to = x - 1 /\ g + 1 < to
      BY <1>8, <1>14, <3>2, <3>3, <3>4, <3>5
    <3>8. x - 1 \in s.wide
      BY <1>8, <1>11, <1>14, <3>7
    <3>9. KindAt(s, x - 1) # "value"
      <4>1. to <= LastOf(s) /\ \A y \in CharasOf(s) : ~(g < y /\ y <= to)
        <5>1. LastOf(s) \in Nat /\ CharasOf(s) \subseteq Nat
          BY ServiceFacts, HandlesBounded
        <5> QED
          BY <3>5, <3>6, <3>7, <5>1
      <4> QED
        BY <3>7, <4>1, OnlyDescs
    <3> QED
      BY <3>6, <3>8, <3>9 DEF Ends, NoWideTail
  <2>3. proc'.kind = "over"
    BY <2>1
  <2>4. Searching' /\ Describing'
    BY <1>2, <1>10, <2>2, <2>3 DEF Searching, Describing, Ends
  <2> QED
    BY <1>12, <1>13, <2>1, <2>4 DEF Discovery
<1>15. CASE l # to
  <2>1. PICK v \in Nat : v = l + 1 /\ v >= 1 /\ v <= to /\ from < v
    BY <1>4, <1>8, <1>15
  <2>2. proc' = [kind |-> "info", from |-> v, to |-> to]
    BY <1>3, <1>9, <1>15, <2>1 DEF WideOutcome, Ask
  <2>3. v \in Handles /\ to \in Handles
    <3>1. PICK z \in Nat : z = EndOf(s) /\ z <= MaxHandle /\ to <= z
      BY <1>3, <1>12
    <3>2. v <= z
      BY <2>1, <3>1
    <3> QED
      BY <3>1, <3>2, HandleRange
  <2>4. proc'.kind = "info" /\ proc'.from = v /\ proc'.to = to
    BY <2>2
  <2>5. Searching'
    <3>1. Held(chara, chara_count, peer, find_info_index)'
      <4>1. Held(chara, chara_count, s, find_info_index)
        BY <1>1, <1>2 DEF RangeOf
      <4> QED
        BY ONLY <1>10, <4>1 DEF Held
    <3>2. (find_info_index + 1 < chara_count => proc.to = chara[find_info_index + 1].handle - 1)'
      BY <1>1, <1>2, <1>3, <1>10, <2>4 DEF RangeOf
    <3> QED
      BY <1>2, <1>3, <1>10, <2>1, <2>4, <3>1, <3>2 DEF Searching
  <2>6. Describing'
    <3>1. ASSUME Ends(s)
          PROVE  /\ find_info_index + 1 < chara_count /\ chara[find_info_index].valueHandle < v
                 /\ Found(desc, chara, chara_count, s, v)
      <4>1. /\ find_info_index + 1 < chara_count /\ chara[find_info_index].valueHandle < from
            /\ Found(desc, chara, chara_count, s, from)
        BY <1>1, <1>2, <1>3, <3>1 DEF RangeOf
      <4>2. chara[find_info_index].valueHandle \in Nat
        <5>1. PICK i \in Nat, n \in Nat : i = find_info_index /\ n = chara_count /\ n <= MaxChara /\ i < n
          BY <4>1, BoundsAssumption DEF Discovery, DiscoveryTypes
        <5>2. chara[i].handle \in Nat /\ chara[i].valueHandle = chara[i].handle + 1
          BY <1>2, <5>1, EntryFacts
        <5> QED
          BY <5>1, <5>2
      <4>3. \A h \in DescsOf(s) : h < from <=> h < v
        <5> SUFFICES ASSUME NEW h \in DescsOf(s) PROVE h < from <=> h < v
          OBVIOUS
        <5>1. h \in Nat /\ h \notin s.wide
          BY HandlesBounded DEF DescsOf
        <5>2. h \notin from..l
          BY <1>11, <5>1
        <5> QED
          BY <1>8, <2>1, <5>1, <5>2
      <4>4. Found(desc, chara, chara_count, s, v)
        BY <4>1, <4>3, FoundOn
      <4> QED
        BY <2>1, <4>1, <4>2, <4>4
    <3>2. Ends(s) => Found(desc, chara, chara_count, peer, proc.from)'
      <4> SUFFICES ASSUME Ends(s) PROVE Found(desc, chara, chara_count, peer, proc.from)'
        OBVIOUS
      <4>1. Found(desc, chara, chara_count, s, v)
        BY <3>1
      <4>2. (proc.from)' = v
        BY <2>4
      <4> QED
        BY ONLY <1>10, <4>1, <4>2 DEF Found, Owned, Below
    <3>3. (Ends(peer))' = Ends(s)
      BY <1>10 DEF Ends
    <3> QED
      BY <1>10, <2>1, <2>4, <3>1, <3>2, <3>3 DEF Describing
  <2> QED
    BY <1>13, <2>2, <2>3, <2>5, <2>6 DEF Discovery
<1> QED
  BY <1>14, <1>15

\* The client is not told that its range is exhausted.
LEMMA RangeOverInv ==
  Discovery /\ corrupt = FALSE /\ RangeOver => Discovery'
<1> SUFFICES ASSUME Discovery, corrupt = FALSE, RangeOver PROVE Discovery'
  OBVIOUS
<1>1. proc.kind = "over" /\ proc' = [kind |-> "none", from |-> 0, to |-> 0]
  BY DEF RangeOver, NoProc
<1>2. peer \in Services /\ link = "up" /\ state # "config" /\ written = << >> /\ config_index = 0
  BY <1>1, Searched
<1>3. peer # Absent
  BY <1>2, ServiceFacts
<1>4. /\ link' = link /\ peer' = peer /\ state' = state /\ prime' = prime /\ chara' = chara
      /\ chara_count' = chara_count /\ desc' = desc /\ find_info_index' = find_info_index
      /\ written' = written /\ config_index' = config_index /\ corrupt' = FALSE
  BY DEF RangeOver, link_vars, table_vars
<1>5. proc'.kind = "none" /\ 0 \in Handles
  <2>1. MaxHandle \in Nat
    BY DEF MaxHandle
  <2> QED
    BY <1>1, <2>1 DEF Handles
<1>6. DiscoveryTypes'
  BY <1>1, <1>4, <1>5 DEF Discovery, DiscoveryTypes
<1>7. Linked' /\ Searching' /\ Describing' /\ Configured' /\ Room'
  BY <1>2, <1>3, <1>4, <1>5 DEF Linked, Searching, Describing, Configured, Room
<1>8. Tables'
  BY <1>1, <1>2, <1>3, <1>4, <1>5 DEF Discovery, Tables, Lists
<1> QED
  BY <1>6, <1>7, <1>8 DEF Discovery

\* fibo_char_des_data for UUIDs of 16 bits, oc_ble_client_demo.c:315-346.
LEMMA DescDataInv ==
  Discovery /\ corrupt = FALSE /\ DescData => Discovery'
<1> SUFFICES ASSUME Discovery, corrupt = FALSE, DescData PROVE Discovery'
  OBVIOUS
<1>0. MaxChara \in Nat /\ MaxChara >= 1 /\ MaxDesc \in Nat
  BY BoundsAssumption
<1>1. /\ proc.kind = "info" /\ AttrsLeft # {} /\ proc.from \notin peer.wide
      /\ proc.kind \in {"info", "over"} /\ proc.kind \in {"chara", "info", "over"} /\ proc.kind # "none"
  BY DEF DescData, Format16
<1>2. PICK s \in Services :
           /\ s = peer /\ link = "up" /\ state # "config" /\ written = << >> /\ config_index = 0
           /\ s # Absent /\ prime = [startHandle |-> s.start, endHandle |-> EndOf(s)]
           /\ prime.endHandle = EndOf(s) /\ chara_count = Cardinality(CharasOf(s))
           /\ Lists(chara, chara_count, s) /\ proc.to \in Nat /\ proc.from \in Nat
           /\ proc.kind = "over" => ~Ends(s)
           /\ proc.kind = "info" => RangeOf(s)
  BY <1>1, InfoFacts
<1>3. PICK t \in [0..(MaxChara - 1) -> CharaEntry], n \in 0..MaxChara : t = chara /\ n = chara_count
  BY DEF Discovery, DiscoveryTypes
<1>4. PICK list \in Seq(DescEntry), i \in Nat :
        list = desc /\ i = find_info_index /\ Len(list) <= MaxDesc /\ i < MaxChara
  BY DEF Discovery, DiscoveryTypes
<1>5. n = Cardinality(CharasOf(s)) /\ Lists(t, n, s) /\ n \in Nat /\ n <= MaxChara
  BY <1>0, <1>2, <1>3
<1>6. \A k \in 0..(MaxChara - 1) : t[k].descNum <= Len(list)
  BY <1>3, <1>4 DEF Discovery, Tables
<1>7. PICK from \in Nat, to \in Nat : from = proc.from /\ to = proc.to /\ from >= 1 /\ to <= EndOf(s)
  BY <1>1, <1>2 DEF RangeOf
<1>22. (i + 1 < n => to = t[i + 1].handle - 1) /\ Held(t, n, s, i)
  BY <1>1, <1>2, <1>3, <1>4, <1>7 DEF RangeOf
<1>8. Ends(s) => /\ i + 1 < n /\ to = t[i + 1].handle - 1 /\ t[i].valueHandle < from /\ from <= to
                 /\ Found(list, t, n, s, from)
  BY <1>1, <1>2, <1>3, <1>4, <1>7, <1>22 DEF RangeOf
<1>9. PICK e \in Nat, z \in Nat : e = LastOf(s) /\ z = EndOf(s) /\ e <= z /\ z <= MaxHandle
  BY ServiceFacts
<1>10. PICK top \in Nat : /\ NextAttrs = from..top /\ top <= to /\ top <= e /\ from <= top
                          /\ \A g \in from..top : g \notin s.wide
  BY <1>1, <1>2, <1>7, <1>9, NextOf
<1>11. PICK b \in 1..Batch :
         DescOutcome(Counted(chara, find_info_index, Len(InOrder(FirstOf(NextAttrs, b)))), chara_count,
                     desc \o Attrs(peer, InOrder(FirstOf(NextAttrs, b))), find_info_index,
                     Last(InOrder(FirstOf(NextAttrs, b))))
  BY DEF DescData, DescOutcome, Counted, Attrs
<1>12. b \in Nat /\ b >= 1
  BY BoundsAssumption
<1>13. PICK found : found = InOrder(FirstOf(from..top, b)) /\ found = InOrder(FirstOf(NextAttrs, b))
  BY <1>10
<1>14. PICK l \in Nat :
           /\ from <= l /\ l <= top /\ Last(found) = l /\ found = InOrder(from..l)
           /\ Len(found) \in Nat /\ Attrs(s, found) \in Seq(DescEntry)
           /\ Len(Attrs(s, found)) = Len(found)
  <2>1. OnePart(s, from, top, found)
    <3>1. top <= LastOf(s)
      BY <1>9, <1>10
    <3> QED
      BY <1>7, <1>10, <1>12, <1>13, <3>1, AttrsOf
  <2> QED
    BY <2>1 DEF OnePart
<1>15. PICK m \in Nat, more \in Seq(DescEntry) : m = Len(found) /\ more = Attrs(s, found) /\ Len(more) = m
  BY <1>14
<1>16. PICK descs \in Seq(DescEntry) : descs = list \o more /\ Len(descs) = Len(list) + m
  <2>1. list \o more \in Seq(DescEntry) /\ Len(list \o more) = Len(list) + Len(more)
    BY ConcatProperties
  <2> QED
    BY <1>15, <2>1
<1>17. DescOutcome(Counted(t, i, m), n, descs, i, l)
  <2>1. DescOutcome(Counted(chara, find_info_index, Len(found)), chara_count,
                    desc \o Attrs(peer, found), find_info_index, Last(found))
    BY <1>11, <1>13
  <2> QED
    BY <1>2, <1>3, <1>4, <1>14, <1>15, <1>16, <2>1
\* The stretch lies between two characteristics, and the list is complete up
\* to its end.
<1>18. ASSUME Ends(s)
       PROVE  /\ i + 1 < n /\ l < t[i + 1].handle /\ t[i + 1].handle \in Nat /\ t[i + 1].handle + 1 <= e
              /\ to = t[i + 1].handle - 1 /\ t[i].valueHandle < from
              /\ Found(descs, Counted(t, i, m), n, s, l + 1)
  <2>1. i + 1 < n /\ to = t[i + 1].handle - 1 /\ t[i].valueHandle < from /\ Found(list, t, n, s, from)
    BY <1>8, <1>18
  <2>2. PICK h \in Nat : h = t[i + 1].handle /\ h + 1 <= e
    <3>1. PICK q \in Nat : q = i + 1 /\ q < n
      BY <2>1
    <3>2. t[q].handle \in Nat /\ t[q].handle + 1 <= LastOf(s)
      BY <1>5, <3>1, EntryFacts
    <3> QED
      BY <1>9, <3>1, <3>2
  <2>3. l < t[i + 1].handle
    <3>1. to = h - 1 /\ l <= top /\ top <= to
      BY <1>10, <1>14, <2>1, <2>2
    <3>2. l < h
      BY <3>1
    <3> QED
      BY <2>2, <3>2
  <2>5. \A g \in from..l : g \notin s.wide
    BY <1>10, <1>14
  <2>4. Found(list \o Attrs(s, found), Counted(t, i, Len(found)), n, s, l + 1)
    BY <1>5, <1>14, <2>1, <2>3, <2>5, FoundCounted
  <2> QED
    BY <1>15, <1>16, <2>1, <2>2, <2>3, <2>4
<1>19. link' = "up" /\ peer' = s
  BY <1>2 DEF DescData, link_vars
<1>20. CASE Len(descs) > MaxDesc
  <2>1. corrupt' = TRUE /\ UNCHANGED <<state, proc, table_vars>>
    BY <1>17, <1>20 DEF DescOutcome
  <2>2. ~Plain(s)
    <3> SUFFICES ASSUME Plain(s) PROVE FALSE
      OBVIOUS
    <3>1. Found(descs, Counted(t, i, m), n, s, l + 1)
      BY <1>18, PlainEnds
    <3>2. Len(descs) = Cardinality(Below(s, l + 1))
      BY <3>1 DEF Found
    <3>3. Cardinality(Below(s, l + 1)) <= Cardinality(DescsOf(s)) /\ Cardinality(DescsOf(s)) \in Nat
      <4>1. Below(s, l + 1) \in SUBSET DescsOf(s)
        BY DEF Below
      <4> QED
        BY <4>1, HandlesBounded, NumbersFinite
    <3>4. Cardinality(DescsOf(s)) <= MaxDesc
      BY DEF Plain
    <3>5. Len(descs) \in Nat
      OBVIOUS
    <3> QED
      BY <1>0, <1>20, <3>2, <3>3, <3>4, <3>5
  <2> QED
    BY <1>1, <1>2, <1>19, <2>1, <2>2, DiscoveryLeft
<1>21. CASE ~(Len(descs) > MaxDesc)
  <2>1. Len(descs) <= MaxDesc /\ Len(descs) \in Nat
    BY <1>0, <1>21
  <2>2. PICK table \in [0..(MaxChara - 1) -> CharaEntry] :
          /\ table = Counted(t, i, m) /\ Lists(table, n, s)
          /\ \A k \in 0..(MaxChara - 1) : table[k].descNum <= Len(descs)
    <3>1. PICK d \in Nat : d = Len(list)
      OBVIOUS
    <3>2. d + m <= MaxDesc /\ d + m = Len(descs) /\ \A k \in 0..(MaxChara - 1) : t[k].descNum <= d
      BY <1>6, <1>16, <2>1, <3>1
    <3>3. /\ Counted(t, i, m) \in [0..(MaxChara - 1) -> CharaEntry]
          /\ Lists(Counted(t, i, m), n, s)
          /\ \A k \in 0..(MaxChara - 1) : Counted(t, i, m)[k].descNum <= d + m
      BY <1>4, <1>5, <3>2, CountedFacts
    <3> QED
      BY <3>2, <3>3
  <2>3. \A k \in 0..(MaxChara - 1) : table[k].handle = t[k].handle /\ table[k].valueHandle = t[k].valueHandle
    <3>1. i \in 0..(MaxChara - 1)
      BY <1>0, <1>4
    <3> QED
      BY <2>2, <3>1 DEF Counted, CharaEntry
  <2>4. /\ desc' = descs /\ chara' = table /\ prime' = prime /\ chara_count' = n
        /\ \/ l = z /\ FindInfo(table, n, descs, i + 1)
           \/ /\ l # z /\ i + 1 >= MaxChara /\ corrupt' = TRUE
              /\ UNCHANGED <<state, proc, find_info_index, written, config_index>>
           \/ /\ l # z /\ i + 1 < MaxChara
              /\ IF l + 1 = table[i + 1].handle
                 THEN FindInfo(table, n, descs, i + 1)
                 ELSE /\ Ask("info", l + 1, proc.to)
                      /\ UNCHANGED <<state, find_info_index, written, config_index, corrupt>>
    BY <1>2, <1>3, <1>9, <1>17, <1>21, <2>2 DEF DescOutcome
  <2>8. Held(table, n, s, i) /\ (i + 1 < n => to = table[i + 1].handle - 1)
    <3>1. i \in 0..(MaxChara - 1) /\ (i + 1 < n => i + 1 \in 0..(MaxChara - 1))
      BY <1>0, <1>4, <1>5
    <3>2. table[i].handle = t[i].handle
      BY <2>3, <3>1
    <3>3. Held(table, n, s, i)
      BY <1>22, <3>2 DEF Held
    <3> QED
      BY <1>22, <2>3, <3>1, <3>3
  <2>5. CASE FindInfo(table, n, descs, i + 1) /\ (l = z \/ (i + 1 < MaxChara /\ l + 1 = table[i + 1].handle))
    <3>1. PICK q \in Nat : q = i + 1
      OBVIOUS
    <3>2. ASSUME Ends(s) PROVE q < n /\ Found(descs, table, n, s, table[q].handle)
      <4>1. l # z
        <5>1. PICK h \in Nat : h = t[i + 1].handle /\ l < h /\ h + 1 <= e
          BY <1>18, <3>2
        <5> QED
          BY <1>9, <5>1, SMTT(30)
      <4>2. l + 1 = table[q].handle
        BY <2>5, <3>1, <4>1
      <4> QED
        BY <1>18, <2>2, <3>1, <3>2, <4>2
    <3>3. FindInfo(table, n, descs, q)
      BY <2>5, <3>1
    <3>4. Held(table, n, s, q)
      <4>1. l \notin s.wide
        BY <1>10, <1>14
      <4>2. ASSUME i + 1 < n PROVE l + 1 = table[i + 1].handle
        <5>1. q \in 0..(MaxChara - 1)
          BY <1>0, <1>5, <3>1, <4>2
        <5>2. table[q].handle = t[q].handle
          BY <2>3, <5>1
        <5>3. PICK h \in Nat : h = t[q].handle /\ h + 1 <= e
          BY <1>5, <1>9, <3>1, <4>2, EntryFacts
        <5>4. l # z
          <6>1. to = h - 1
            BY <1>22, <3>1, <4>2, <5>3
          <6>2. l <= to
            BY <1>10, <1>14
          <6>3. e <= z
            BY <1>9
          <6>4. h + 1 <= e /\ h \in Nat
            BY <5>3
          <6> QED
            BY ONLY l \in Nat, to \in Nat, e \in Nat, z \in Nat, <6>1, <6>2, <6>3, <6>4
        <5> QED
          BY <2>5, <3>1, <4>2, <5>2, <5>4
      <4>3. Held(table, n, s, i)
        BY <2>8
      <4>4. Held(table, n, s, i + 1)
        BY <1>5, <2>2, <4>1, <4>2, <4>3, HeldNext
      <4> QED
        BY <3>1, <4>4
    <3> HIDE <3>1
    <3> QED
      BY <1>1, <1>2, <1>5, <1>19, <2>1, <2>2, <2>4, <3>2, <3>3, <3>4, FindInfoInv
  <2>6. CASE /\ i + 1 >= MaxChara /\ corrupt' = TRUE
             /\ UNCHANGED <<state, proc, find_info_index, written, config_index>>
    <3>1. ~Plain(s)
      <4>1. ~Ends(s)
        BY <1>0, <1>5, <1>18, <2>6
      <4> QED
        BY <4>1, PlainEnds
    <3>2. state' = state /\ proc' = proc /\ find_info_index' = i /\ written' = << >> /\ config_index' = 0
      BY <1>2, <1>4, <2>6
    <3>3. << >> \in Seq(DescEntry) /\ 0 \in 0..Len(descs)
      BY <2>1, EmptySeq
    <3>4. DiscoveryTypes'
      <4>1. /\ state' \in {"disconnect", "connected", "include", "chara", "info", "config"}
            /\ proc' \in [kind : ProcKinds, from : Handles, to : Handles]
            /\ prime' \in [startHandle : Handles, endHandle : Handles]
        BY <2>4, <3>2 DEF Discovery, DiscoveryTypes
      <4> QED
        BY <2>1, <2>4, <2>6, <3>2, <3>3, <4>1 DEF DiscoveryTypes
    <3>5. Lists(chara, chara_count, peer)'
      BY <1>19, <2>2, <2>4 DEF Lists
    <3>6. Tables'
      BY <1>1, <1>2, <1>19, <2>2, <2>4, <3>2, <3>5 DEF Tables
    <3>7. Linked' /\ Searching' /\ Describing' /\ Configured' /\ Room'
      BY <1>1, <1>2, <1>19, <2>6, <3>1, <3>2 DEF Linked, Searching, Describing, Configured, Room
    <3> QED
      BY <3>4, <3>6, <3>7 DEF Discovery
  <2>7. CASE /\ l # z /\ i + 1 < MaxChara /\ l + 1 # table[i + 1].handle /\ Ask("info", l + 1, proc.to)
             /\ UNCHANGED <<state, find_info_index, written, config_index, corrupt>>
    <3>1. /\ proc' = [kind |-> "info", from |-> l + 1, to |-> to] /\ state' = state
          /\ find_info_index' = i /\ written' = << >> /\ config_index' = 0 /\ corrupt' = FALSE
      BY <1>2, <1>4, <1>7, <2>7 DEF Ask
    <3>2. PICK v \in Nat : v = l + 1 /\ v <= z /\ v >= 1 /\ v \in Handles /\ to \in Handles
      <4>1. PICK v \in Nat : v = l + 1 /\ v <= z /\ v >= 1
        BY <1>9, <1>10, <1>14, <2>7
      <4>2. v \in Handles /\ to \in Handles
        BY <1>7, <1>9, <4>1, HandleRange
      <4> QED
        BY <4>1, <4>2
    <3>3. << >> \in Seq(DescEntry) /\ 0 \in 0..Len(descs)
      BY <2>1, EmptySeq
    <3>4. proc' = [kind |-> "info", from |-> v, to |-> to]
      BY <3>1, <3>2
    <3>5. proc'.kind = "info" /\ proc'.from = v /\ proc'.to = to
      BY <3>4
    <3>6. DiscoveryTypes'
      <4>1. /\ state' \in {"disconnect", "connected", "include", "chara", "info", "config"}
            /\ proc' \in [kind : ProcKinds, from : Handles, to : Handles]
            /\ prime' \in [startHandle : Handles, endHandle : Handles]
        BY <2>4, <3>1, <3>2, <3>4 DEF Discovery, DiscoveryTypes
      <4> QED
        BY <1>4, <2>1, <2>4, <3>1, <3>3, <4>1 DEF DiscoveryTypes
    <3>7. Lists(chara, chara_count, peer)'
      BY <1>19, <2>2, <2>4 DEF Lists
    <3>8. Tables'
      BY <1>2, <1>19, <2>2, <2>4, <3>1, <3>5, <3>7 DEF Tables
    <3>9. Linked' /\ Configured' /\ Room'
      BY <1>2, <1>5, <1>7, <1>19, <2>4, <3>1, <3>2, <3>5 DEF Linked, Configured, Room
    <3>11. Searching'
      <4>1. Held(chara, chara_count, peer, find_info_index)'
        <5>1. chara' = table /\ chara_count' = n /\ peer' = s /\ find_info_index' = i /\ Held(table, n, s, i)
          BY <1>19, <2>4, <2>8, <3>1
        <5> QED
          BY ONLY <5>1 DEF Held
      <4>2. (find_info_index + 1 < chara_count => proc.to = chara[find_info_index + 1].handle - 1)'
        BY <2>4, <2>8, <3>1, <3>5
      <4> QED
        BY <1>5, <1>7, <1>19, <2>4, <3>1, <3>2, <3>5, <4>1, <4>2 DEF Searching
    <3>10. Describing'
      <4>1. ASSUME Ends(s)
            PROVE  /\ i + 1 < n /\ to = table[i + 1].handle - 1 /\ table[i].valueHandle < v /\ v <= to
                   /\ Found(descs, table, n, s, v)
        <5>1. /\ i + 1 < n /\ l < t[i + 1].handle /\ t[i + 1].handle \in Nat
              /\ to = t[i + 1].handle - 1 /\ t[i].valueHandle < from
              /\ Found(descs, table, n, s, l + 1)
          BY <1>18, <2>2, <4>1
        <5>2. i \in 0..(MaxChara - 1) /\ i + 1 \in 0..(MaxChara - 1)
          BY <1>0, <1>4, <2>7
        <5>3. table[i + 1].handle = t[i + 1].handle /\ table[i].valueHandle = t[i].valueHandle
          BY <2>3, <5>2
        <5>4. PICK h \in Nat : h = t[i + 1].handle
          BY <5>1
        <5>5. v <= to
          BY <2>7, <3>2, <5>1, <5>3, <5>4
        <5>6. PICK w \in Nat : w = t[i].valueHandle
          BY <5>2 DEF CharaEntry, Handles
        <5>7. w < v
          BY <1>14, <3>2, <5>1, <5>6
        <5> QED
          BY <3>2, <5>1, <5>3, <5>5, <5>6, <5>7
      <4>2. Ends(s) => Found(desc, chara, chara_count, peer, proc.from)'
        <5> SUFFICES ASSUME Ends(s) PROVE Found(desc, chara, chara_count, peer, proc.from)'
          OBVIOUS
        <5>1. Found(descs, table, n, s, v)
          BY <4>1
        <5>2. desc' = descs /\ chara' = table /\ chara_count' = n /\ peer' = s /\ (proc.from)' = v
          BY <1>19, <2>4, <3>5
        <5> QED
          BY ONLY <5>1, <5>2 DEF Found, Owned, Below
      <4>3. find_info_index' = i /\ chara_count' = n /\ chara' = table /\ (Ends(peer))' = Ends(s)
        BY <1>19, <2>4, <3>1 DEF Ends
      <4>4. (chara[find_info_index].valueHandle)' = table[i].valueHandle
        BY <4>3
      <4> QED
        BY <3>5, <4>1, <4>2, <4>3, <4>4 DEF Describing
    <3> QED
      BY <3>6, <3>8, <3>9, <3>10, <3>11 DEF Discovery
  <2> QED
    BY <2>4, <2>5, <2>6, <2>7
<1> QED
  BY <1>20, <1>21

-----------------------------------------------------------------------------
(* Scanning and connecting *)

\* A connection is asked for only with the
\* permission, which the callback takes away and only the thread's one store
\* or a disconnection gives back.
ScanInv ==
  /\ raced \in BOOLEAN /\ first_time_scan \in BOOLEAN
  /\ worker.pc = "scan" <=> link = "off"
  /\ link \in {"off", "scanning", "connecting", "up"}
  /\ link \in {"off", "scanning"} => first_time_scan = TRUE /\ connects = 0
  /\ link \in {"connecting", "up"} =>
       raced = TRUE \/ (connects = 1 /\ first_time_scan = FALSE /\ worker.pc # "first")

\* At the start the permission is there.
LEMMA ScanInit == Init => ScanInv
<1> SUFFICES ASSUME Init PROVE ScanInv
  OBVIOUS
<1>1. worker.pc = "scan"
  BY DEF Init
<1>2. link = "off" /\ connects = 0 /\ first_time_scan = TRUE /\ raced = FALSE
  BY DEF Init
<1> QED
  BY <1>1, <1>2 DEF ScanInv

\* The discovery touches neither the connection nor the thread.
LEMMA StackKeepsLink == Stack => UNCHANGED <<link_vars, worker>>
  BY DEF Stack, ServiceFound, ServiceMissing, NoMoreIncludes, CharData, NoMoreCharas,
         DescData, WideDescs, RangeOver, NoMoreDescs

\* Every step keeps it.
LEMMA ScanStep == ScanInv /\ [Next]_vars => ScanInv'
<1> SUFFICES ASSUME ScanInv, [Next]_vars PROVE ScanInv'
  OBVIOUS
<1> USE DEF ScanInv, link_vars
<1>1. CASE Report
  <2>1. link' = "connecting" /\ connects' = connects + 1 /\ first_time_scan' = FALSE /\ worker' = worker
    BY <1>1 DEF Report
  <2>2. worker.pc # "scan" /\ (connects = 0 \/ raced = TRUE)
    BY <1>1 DEF Report
  <2>3. raced' \in BOOLEAN /\ (raced = TRUE => raced' = TRUE) /\ (worker.pc = "first" => raced' = TRUE)
    BY <1>1, Zenon DEF Report
  <2>4. raced' = TRUE \/ (connects' = 1 /\ worker'.pc # "first")
    BY <2>1, <2>2, <2>3
  <2> QED
    BY <2>1, <2>2, <2>3, <2>4
<1>2. CASE Connected
  BY <1>2 DEF Connected
<1>3. CASE Disconnected
  BY <1>3 DEF Disconnected
<1>4. CASE Stack
  BY <1>4, StackKeepsLink
<1>5. CASE Thread
  <2>1. CASE StartScan
    BY <2>1 DEF StartScan, At, GoTo
  <2>2. CASE SetFirst
    BY <2>2 DEF SetFirst, At, GoTo
  <2>3. CASE Loop \/ TestWrite \/ Write \/ TestRead \/ Read
    BY <2>3 DEF Loop, TestWrite, Write, TestRead, Read, At, GoTo
  <2> QED
    BY <1>5, <2>1, <2>2, <2>3 DEF Thread
<1>6. CASE UNCHANGED vars
  BY <1>6 DEF vars
<1> QED
  BY <1>1, <1>2, <1>3, <1>4, <1>5, <1>6 DEF Next

\* It holds in every state.
LEMMA ScanInvariant == Spec => []ScanInv
  BY ScanInit, ScanStep, PTL DEF Spec

\* fibo_scan_cb, fibo_connection_state_change_cb: however many reports are
\* queued, whatever the peripherals offer, one scan leads to one connection
\* request, unless a report came before the thread's store to first_time_scan,
\* and the client never scans without the permission to connect.
THEOREM PermissionKept == Spec => []ScanPermission
<1>1. ScanInv => ScanPermission
  BY DEF ScanInv, ConnectsOnce, NoDeadScan, ScanPermission
<1> QED
  BY <1>1, ScanInvariant, PTL

-----------------------------------------------------------------------------
(* The whole client *)

\* Every step keeps the tables in order, whatever the peripherals offer.
LEMMA DiscoveryStep ==
  Discovery /\ ScanInv /\ [Next]_vars => Discovery'
<1> SUFFICES ASSUME Discovery, ScanInv, [Next]_vars PROVE Discovery'
  OBVIOUS
<1>1. CASE UNCHANGED vars
  <2>1. UNCHANGED <<peer, state, proc, table_vars, corrupt>> /\ link' = link
    BY <1>1 DEF vars, link_vars
  <2> QED
    BY <2>1, DiscoverySame
<1>2. CASE ~corrupt /\ (Report \/ Connected \/ Disconnected \/ Stack \/ Thread)
  <2>0. corrupt = FALSE
    BY <1>2 DEF Discovery, DiscoveryTypes
  <2>1. CASE Report
    <3>1. UNCHANGED <<peer, state, proc, table_vars, corrupt>> /\ link # "up"
      BY <2>1 DEF Report
    <3> QED
      BY <3>1, DiscoverySame
  <2>2. CASE Connected
    BY <2>0, <2>2, ConnectedInv
  <2>3. CASE Disconnected
    BY <2>0, <2>3, DisconnectedInv
  <2>4. CASE Stack
    BY <2>0, <2>4, ServiceFoundInv, ServiceMissingInv, NoMoreIncludesInv, CharDataInv, NoMoreCharasInv,
       DescDataInv, WideDescsInv, RangeOverInv, NoMoreDescsInv DEF Stack
  <2>5. CASE Thread
    <3>1. CASE StartScan
      <4>1. UNCHANGED <<peer, state, proc, table_vars, corrupt>> /\ link # "up"
        BY <3>1 DEF StartScan, At, ScanInv
      <4> QED
        BY <4>1, DiscoverySame
    <3>2. CASE SetFirst \/ Loop \/ TestWrite \/ Write \/ TestRead \/ Read
      <4>1. UNCHANGED <<peer, state, proc, table_vars, corrupt>> /\ link' = link
        BY <3>2 DEF SetFirst, Loop, TestWrite, Write, TestRead, Read, link_vars
      <4> QED
        BY <4>1, DiscoverySame
    <3> QED
      BY <2>5, <3>1, <3>2 DEF Thread
  <2> QED
    BY <1>2, <2>1, <2>2, <2>3, <2>4, <2>5
<1> QED
  BY <1>1, <1>2 DEF Next

\* Where the application's thread is: its index is within the array while it
\* uses it, and a request to connect uses up the permission.
Places ==
  /\ worker.pc \in {"scan", "first", "loop", "test_write", "write", "test_read", "read"}
  /\ worker.i \in Nat /\ worker.i <= MaxChara
  /\ worker.pc \in {"test_write", "write", "test_read", "read"} => worker.i < MaxChara
  /\ connects \in Nat /\ connects <= 2
  /\ worker.pc = "first" => connects <= 1 /\ (first_time_scan = TRUE => connects = 0)
  /\ first_time_scan = TRUE => connects <= 1

\* At the start.
LEMMA PlacesInit == Init => Places
<1> SUFFICES ASSUME Init PROVE Places
  OBVIOUS
<1>1. MaxChara \in Nat
  BY BoundsAssumption
<1>2. worker = [pc |-> "scan", i |-> 0] /\ connects = 0
  BY DEF Init
<1> QED
  BY <1>1, <1>2 DEF Places

\* The thread's loop (oc_ble_client_demo.c:666-709) keeps its index in range.
LEMMA PlacesStep ==
  Places /\ ScanInv /\ Discovery /\ [Next]_vars => Places'
<1> SUFFICES ASSUME Places, ScanInv, Discovery, [Next]_vars PROVE Places'
  OBVIOUS
<1>0. MaxChara \in Nat /\ chara_count \in Nat /\ chara_count <= MaxChara
  <2>1. MaxChara \in Nat
    BY BoundsAssumption
  <2> QED
    BY <2>1 DEF Discovery, DiscoveryTypes
<1>1. CASE Report
  <2>1. first_time_scan = TRUE /\ first_time_scan' = FALSE /\ connects' = connects + 1 /\ worker' = worker
    BY <1>1 DEF Report, ScanInv
  <2>2. connects' \in Nat /\ connects' <= 2 /\ (worker.pc = "first" => connects' <= 1)
    BY <2>1 DEF Places
  <2> QED
    BY <2>1, <2>2 DEF Places
<1>2. CASE Connected
  BY <1>2 DEF Connected, Places
<1>3. CASE Disconnected
  BY <1>3 DEF Disconnected, Places
<1>4. CASE Stack
  <2>1. UNCHANGED <<connects, first_time_scan, worker>>
    BY <1>4, StackKeepsLink DEF link_vars
  <2> QED
    BY <2>1 DEF Places
<1>5. CASE Thread
  <2>1. CASE StartScan
    <3>1. worker' = [pc |-> "first", i |-> 0] /\ connects' = connects /\ first_time_scan' = first_time_scan
          /\ connects = 0
      BY <2>1 DEF StartScan, At, GoTo, ScanInv
    <3> QED
      BY <1>0, <3>1 DEF Places
  <2>2. CASE SetFirst
    <3>1. worker' = [pc |-> "loop", i |-> 0] /\ connects' = connects /\ connects <= 1
      BY <2>2 DEF SetFirst, At, GoTo, Places
    <3> QED
      BY <1>0, <3>1 DEF Places
  <2>3. CASE Loop
    <3>1. connects' = connects /\ first_time_scan' = first_time_scan
      BY <2>3 DEF Loop, link_vars
    <3>2. CASE worker.i < chara_count
      <4>1. worker' = [pc |-> "test_write", i |-> worker.i] /\ worker.i < MaxChara
        BY <1>0, <2>3, <3>2 DEF Loop, GoTo, Places
      <4> QED
        BY <1>0, <3>1, <4>1 DEF Places
    <3>3. CASE ~(worker.i < chara_count)
      <4>1. worker' = [pc |-> "loop", i |-> 0]
        BY <2>3, <3>3 DEF Loop, GoTo
      <4> QED
        BY <1>0, <3>1, <4>1 DEF Places
    <3> QED
      BY <3>2, <3>3
  <2>4. CASE TestWrite \/ Write \/ TestRead \/ Read
    <3>1. connects' = connects /\ first_time_scan' = first_time_scan
      BY <2>4 DEF TestWrite, Write, TestRead, Read, link_vars
    <3>2. worker.i \in Nat /\ worker.i < MaxChara
      BY <2>4 DEF TestWrite, Write, TestRead, Read, At, Places
    <3>3. \/ \E pc \in {"test_read", "write", "read"} : worker' = [pc |-> pc, i |-> worker.i]
          \/ worker' = [pc |-> "loop", i |-> worker.i + 1]
      BY <2>4 DEF TestWrite, Write, TestRead, Read, GoTo
    <3>4. CASE \E pc \in {"test_read", "write", "read"} : worker' = [pc |-> pc, i |-> worker.i]
      BY <1>0, <3>1, <3>2, <3>4 DEF Places
    <3>5. CASE worker' = [pc |-> "loop", i |-> worker.i + 1]
      <4>1. worker.i + 1 \in Nat /\ worker.i + 1 <= MaxChara
        BY <1>0, <3>2
      <4> QED
        BY <1>0, <3>1, <3>5, <4>1 DEF Places
    <3> QED
      BY <3>3, <3>4, <3>5
  <2> QED
    BY <1>5, <2>1, <2>2, <2>3, <2>4 DEF Thread
<1>6. CASE UNCHANGED vars
  BY <1>6 DEF vars, link_vars, Places
<1> QED
  BY <1>1, <1>2, <1>3, <1>4, <1>5, <1>6 DEF Next

\* The inductive invariant of the client.
BleInv == Discovery /\ ScanInv /\ Places

\* It holds in every state.
LEMMA BleInvariant == Spec => []BleInv
<1>1. Init => BleInv
  BY DiscoveryInit, ScanInit, PlacesInit DEF BleInv
<1>2. BleInv /\ [Next]_vars => BleInv'
  BY DiscoveryStep, ScanStep, PlacesStep DEF BleInv
<1> QED
  BY <1>1, <1>2, PTL DEF Spec

\* The state machine and its callbacks: for all services and sizes of the tables,
\* every variable keeps its type, the stack is asked for handles that exist, and an
\* index leaves its array only where that is recorded.
THEOREM BleTypes == Spec => []TypeOK
<1>1. BleInv => TypeOK
  <2> SUFFICES ASSUME BleInv PROVE TypeOK
    OBVIOUS
  <2>1. MaxChara \in Nat
    BY BoundsAssumption
  <2>2. worker.i \in 0..MaxChara /\ connects \in 0..2
    BY <2>1 DEF BleInv, Places
  <2>3. corrupt \/ find_info_index < MaxChara
    BY DEF BleInv, Discovery, DiscoveryTypes
  <2> QED
    BY <2>2, <2>3 DEF BleInv, Discovery, DiscoveryTypes, Linked, ScanInv, Places, TypeOK, CharaEntry, DescEntry
<1> QED
  BY <1>1, BleInvariant, PTL

\* fibo_char_data and fibo_char_des_data, which check no bound: no access leaves
\* the arrays while the service is plain, however the responses are cut, however
\* many connections to other peers were lost before and at which point.
THEOREM PlainNeverOverflows == Spec => []NoOverflow
<1>1. BleInv => NoOverflow
  <2> SUFFICES ASSUME BleInv, corrupt PROVE ~Plain(peer)
    BY DEF NoOverflow
  <2>1. corrupt = TRUE
    BY DEF BleInv, Discovery, DiscoveryTypes
  <2> QED
    BY <2>1 DEF BleInv, Discovery, Room
<1> QED
  BY <1>1, BleInvariant, PTL

\* The application's thread, oc_ble_client_demo.c:674-709: on a connection it writes
\* to and reads from values of this peer's characteristics only, although the peer
\* may have changed since it tested its index.
THEOREM AccessesOfPeer == Spec => []AccessOfPeer
<1>1. BleInv => AccessOfPeer
  <2> SUFFICES ASSUME BleInv, worker.pc \in {"write", "read"}, link = "up"
               PROVE  \/ chara[worker.i].valueHandle = 0
                      \/ /\ peer # Absent
                         /\ chara[worker.i].valueHandle - 1 \in CharasOf(peer)
    BY DEF AccessOfPeer
  <2>1. PICK i \in 0..(MaxChara - 1) : i = worker.i
    <3>1. MaxChara \in Nat /\ worker.i \in Nat /\ worker.i < MaxChara
      BY BoundsAssumption DEF BleInv, Places
    <3>2. worker.i \in 0..(MaxChara - 1)
      BY <3>1
    <3> QED
      BY <3>2
  <2>2. CASE peer = Absent
    <3>1. chara[i] = NoChara
      BY <2>2 DEF BleInv, Discovery, Linked, Blank
    <3> QED
      BY <2>1, <3>1 DEF NoChara
  <2>3. CASE peer # Absent
    <3>1. PICK s \in Services : s = peer /\ Lists(chara, chara_count, s)
      BY <2>3 DEF BleInv, Discovery, Linked, Tables
    <3>2. CASE i < chara_count
      <4>1. PICK h \in CharasOf(s) : h = chara[i].handle /\ chara[i].valueHandle = h + 1
        BY <3>1, <3>2 DEF Lists
      <4>2. h \in Nat
        BY CharaFacts
      <4>3. chara[i].valueHandle - 1 = h
        BY <4>1, <4>2
      <4> QED
        BY <2>1, <2>3, <3>1, <4>1, <4>3
    <3>3. CASE ~(i < chara_count)
      BY <2>1, <3>1, <3>3 DEF Lists
    <3> QED
      BY <3>2, <3>3
  <2> QED
    BY <2>2, <2>3
<1> QED
  BY <1>1, BleInvariant, PTL

\* GATT_CLIENT_SET_CONFIG: whenever the client gets there, it has found every
\* descriptor of the service once, counted it with its characteristic, and enabled
\* exactly the ones that can be enabled, once each.
THEOREM AllConfigured == Spec => []ConfiguresAll
<1>1. BleInv => ConfiguresAll
  <2> SUFFICES ASSUME BleInv, state = "config" PROVE ConfiguresAll
    BY DEF ConfiguresAll
  <2>1. PICK s \in Services : s = peer
    BY DEF BleInv, Discovery, Linked
  <2>2. Ends(s) /\ Found(desc, chara, chara_count, s, EndOf(s) + 1) /\ AllWritten(written, s)
    BY <2>1 DEF BleInv, Discovery, Configured
  <2>3. \A h \in DescsOf(s) : h < EndOf(s) + 1
    <3> SUFFICES ASSUME NEW h \in DescsOf(s) PROVE h < EndOf(s) + 1
      OBVIOUS
    <3>1. h \in Nat /\ h <= LastOf(s) /\ LastOf(s) \in Nat /\ EndOf(s) \in Nat /\ LastOf(s) <= EndOf(s)
      BY HandlesBounded, ServiceFacts
    <3> QED
      BY <3>1
  <2>4. Below(s, EndOf(s) + 1) = DescsOf(s)
    BY <2>3 DEF Below
  <2>5. HandlesOf(desc) = DescsOf(s) /\ Len(desc) = Cardinality(DescsOf(s))
    BY <2>2, <2>4 DEF Found
  <2>6. HandlesOf(written) = {h \in DescsOf(s) : KindAt(s, h) = "cccd"}
        /\ Len(written) = Cardinality(HandlesOf(written))
    BY <2>2 DEF AllWritten
  <2>7. ASSUME NEW i \in 0..(chara_count - 1)
        PROVE  chara[i].descNum = Cardinality({h \in DescsOf(s) :
                 h > chara[i].handle /\ \A j \in (i + 1)..(chara_count - 1) : h < chara[j].handle})
    <3>1. chara[i].descNum = Cardinality(Owned(chara, chara_count, s, EndOf(s) + 1, i))
      BY <2>2 DEF Found
    <3>2. Owned(chara, chara_count, s, EndOf(s) + 1, i) = {h \in DescsOf(s) :
            h > chara[i].handle /\ \A j \in (i + 1)..(chara_count - 1) : h < chara[j].handle}
      BY <2>3 DEF Owned
    <3> QED
      BY <3>1, <3>2
  <2> QED
    BY <2>1, <2>5, <2>6, <2>7 DEF ConfiguresAll
<1> QED
  BY <1>1, BleInvariant, PTL

=============================================================================
