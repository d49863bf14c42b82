----------------------------- MODULE PostLemmas -----------------------------
(***************************************************************************)
(* What the operators that Post is built from return, for every history    *)
(* and every list of candidates: the ancestry of commits, the order of a   *)
(* list of revisions and the diffs that are made of it, and the matches    *)
(* among the review requests.                                              *)
(***************************************************************************)
EXTENDS Revisions, ReviewRequestMatch, FiniteSetTheorems, FunctionTheorems,
        SequenceTheorems, WellFoundedInduction, TLAPS

(* Natural numbers are well ordered, so that the least counterexample of a *)
(* claim about commits can be looked at.                                   *)
LEMMA LeastNumber ==
  ASSUME NEW S \in SUBSET Nat, S # {}
  PROVE  \E x \in S : \A y \in S : x <= y
<1> DEFINE R == OpToRel(<, Nat)
<1>1. IsWellFoundedOn(R, Nat)
  BY NatLessThanWellFounded
<1>2. \A x, y \in Nat : <<x, y>> \in R <=> x < y
  BY DEF OpToRel
<1> HIDE DEF R
<1>3. PICK x \in S : \A y \in S : ~(<<y, x>> \in R)
  BY <1>1, WFMin
<1>4. \A y \in S : x <= y
  <2>1. TAKE y \in S
  <2>2. ~(y < x)
    BY <1>2, <1>3
  <2> QED BY <2>2
<1> QED BY <1>4

LEMMA MinIsLeast ==
  ASSUME NEW S \in SUBSET Nat, S # {}
  PROVE  Min(S) \in S /\ \A x \in S : Min(S) <= x
BY LeastNumber DEF Min
-----------------------------------------------------------------------------
(* Sets of commits that the ancestors of their members belong to *)
IsClosed(h, S) ==
  S \subseteq Commit(h) /\ \A c \in S : ToSet(h.parents[c]) \subseteq S

LEMMA CommitsAreNumbers ==
  ASSUME NEW h, IsHistory(h)
  PROVE  Commit(h) \subseteq Nat
<1>1. h.parents \in Seq(Seq(Nat))
  BY DEF IsHistory
<1>2. DOMAIN h.parents = 1..Len(h.parents)
  BY <1>1
<1> QED BY <1>2 DEF Commit

LEMMA ParentsAreOlder ==
  ASSUME NEW h, IsHistory(h), NEW c \in Commit(h), NEW p \in ToSet(h.parents[c])
  PROVE  c \in Nat /\ p \in Nat /\ p \in Commit(h) /\ p < c
<1>1. Commit(h) = 1..Len(h.parents) /\ Len(h.parents) \in Nat
  BY DEF IsHistory, Commit
<1>2. p \in 1..(c - 1)
  BY DEF IsHistory
<1> QED BY <1>1, <1>2

(* The equation of Ancestors has a solution: the smallest closed sets *)
LEMMA AncestorsAre ==
  ASSUME NEW h, IsHistory(h)
  PROVE  Ancestors(h) = [c \in Commit(h) |-> {c} \cup
           UNION {Ancestors(h)[p] : p \in ToSet(h.parents[c])}]
<1> DEFINE Above(c) == {S \in SUBSET Commit(h) : c \in S /\ IsClosed(h, S)}
           least == [c \in Commit(h) |->
                       {a \in Commit(h) : \A S \in Above(c) : a \in S}]
           Step(c) == {c} \cup UNION {least[p] : p \in ToSet(h.parents[c])}
<1>1. ASSUME NEW c \in Commit(h)
      PROVE  least[c] \subseteq Step(c)
  <2>1. \A p \in ToSet(h.parents[c]) : p \in Commit(h) /\ p \in least[p]
    BY ParentsAreOlder
  <2>2. Step(c) \subseteq Commit(h)
    BY <2>1
  <2>3. ASSUME NEW x \in Step(c), NEW q \in ToSet(h.parents[x])
        PROVE  q \in Step(c)
    <3>1. CASE x = c
      BY <2>1, <3>1
    <3>2. ASSUME NEW p \in ToSet(h.parents[c]), x \in least[p]
          PROVE  q \in least[p]
      <4>1. x \in Commit(h) /\ q \in Commit(h)
        BY <2>2, ParentsAreOlder
      <4>2. \A S \in Above(p) : q \in S
        BY <2>1, <3>2 DEF IsClosed
      <4> QED BY <2>1, <4>1, <4>2
    <3> QED BY <3>1, <3>2
  <2>4. Step(c) \in Above(c)
    BY <2>2, <2>3 DEF IsClosed
  <2> QED BY <2>4
<1>2. ASSUME NEW c \in Commit(h)
      PROVE  Step(c) \subseteq least[c]
  <2>1. c \in least[c]
    OBVIOUS
  <2>2. ASSUME NEW p \in ToSet(h.parents[c])
        PROVE  least[p] \subseteq least[c]
    <3>1. p \in Commit(h)
      BY ParentsAreOlder
    <3>2. Above(c) \subseteq Above(p)
      BY <3>1 DEF IsClosed
    <3> QED BY <3>1, <3>2
  <2> HIDE DEF least
  <2> QED BY <2>1, <2>2
<1>3. least = [c \in Commit(h) |-> {c} \cup
                 UNION {least[p] : p \in ToSet(h.parents[c])}]
  <2>1. \A c \in Commit(h) : least[c] = Step(c)
    BY <1>1, <1>2
  <2> QED BY <2>1
<1> HIDE DEF least
<1> QED BY <1>3 DEF Ancestors

(* Whatever holds of a commit and passes to parents holds of its ancestors *)
LEMMA AncestorsLeast ==
  ASSUME NEW h, IsHistory(h), NEW S, IsClosed(h, S), NEW c \in S
  PROVE  Ancestors(h)[c] \subseteq S
<1> DEFINE Bad == {x \in S : ~(Ancestors(h)[x] \subseteq S)}
<1>1. Commit(h) \subseteq Nat /\ S \subseteq Commit(h)
  BY DEF IsHistory, Commit, IsClosed
<1>2. SUFFICES ASSUME Bad # {} PROVE FALSE
  BY <1>2
<1>3. PICK x \in Bad : \A y \in Bad : x <= y
  BY <1>1, <1>2, LeastNumber
<1>4. \A p \in ToSet(h.parents[x]) : Ancestors(h)[p] \subseteq S
  <2>1. TAKE p \in ToSet(h.parents[x])
  <2>2. p \in S /\ x \in Commit(h)
    BY <1>1 DEF IsClosed
  <2>3. x \in Nat /\ p \in Nat /\ p < x
    BY <2>2, ParentsAreOlder
  <2>4. p \notin Bad
    BY <1>3, <2>3
  <2> QED BY <2>2, <2>4
<1>5. Ancestors(h)[x] = {x} \cup
        UNION {Ancestors(h)[p] : p \in ToSet(h.parents[x])}
  BY <1>1, AncestorsAre
<1> QED BY <1>4, <1>5

LEMMA AncestorsClosed ==
  ASSUME NEW h, IsHistory(h), NEW c \in Commit(h)
  PROVE  c \in Ancestors(h)[c] /\ IsClosed(h, Ancestors(h)[c])
<1> DEFINE Bad == {x \in Commit(h) : ~IsClosed(h, Ancestors(h)[x])}
<1>1. Commit(h) \subseteq Nat /\ IsClosed(h, Commit(h))
  BY ParentsAreOlder DEF IsHistory, Commit, IsClosed
<1>2. \A x \in Commit(h) : /\ x \in Ancestors(h)[x]
                           /\ Ancestors(h)[x] \subseteq Commit(h)
  BY <1>1, AncestorsAre, AncestorsLeast
<1>3. Bad = {}
  <2>1. SUFFICES ASSUME Bad # {} PROVE FALSE
    OBVIOUS
  <2>2. PICK x \in Bad : \A y \in Bad : x <= y
    BY <1>1, <2>1, LeastNumber
  <2>3. Ancestors(h)[x] = {x} \cup
          UNION {Ancestors(h)[p] : p \in ToSet(h.parents[x])}
    BY AncestorsAre
  <2>4. \A p \in ToSet(h.parents[x]) : IsClosed(h, Ancestors(h)[p])
    <3>1. TAKE p \in ToSet(h.parents[x])
    <3>2. x \in Nat /\ p \in Nat /\ p \in Commit(h) /\ p < x
      BY ParentsAreOlder
    <3>3. p \notin Bad
      BY <2>2, <3>2
    <3> QED BY <3>2, <3>3
  <2>5. ASSUME NEW a \in Ancestors(h)[x], NEW q \in ToSet(h.parents[a])
        PROVE  q \in Ancestors(h)[x]
    <3>1. CASE a = x
      <4>1. q \in Ancestors(h)[q]
        BY <1>2, <3>1, ParentsAreOlder
      <4> QED BY <2>3, <3>1, <4>1
    <3>2. ASSUME NEW p \in ToSet(h.parents[x]), a \in Ancestors(h)[p]
          PROVE  q \in Ancestors(h)[p]
      BY <2>4, <3>2 DEF IsClosed
    <3> QED BY <2>3, <3>1, <3>2
  <2> QED BY <1>2, <2>5 DEF IsClosed
<1> QED BY <1>2, <1>3

(* Ancestry is an order that agrees with the dates *)
LEMMA AncestorsOrder ==
  ASSUME NEW h, IsHistory(h), NEW c \in Commit(h), NEW a \in Ancestors(h)[c]
  PROVE  /\ a \in Commit(h) /\ a \in Nat /\ c \in Nat /\ a <= c
         /\ Ancestors(h)[a] \subseteq Ancestors(h)[c]
<1>1. Commit(h) \subseteq Nat /\ a \in Commit(h)
  <2>1. Commit(h) \subseteq Nat
    BY CommitsAreNumbers
  <2>2. Ancestors(h)[c] \subseteq Commit(h)
    BY AncestorsClosed DEF IsClosed
  <2> QED BY <2>1, <2>2
<1>2. a <= c
  <2> DEFINE S == {x \in Commit(h) : x <= c}
  <2>1. ASSUME NEW x \in S, NEW p \in ToSet(h.parents[x])
        PROVE  p \in S
    <3>1. x \in Nat /\ p \in Nat /\ p \in Commit(h) /\ p < x
      BY ParentsAreOlder
    <3>2. p <= c
      BY <1>1, <3>1
    <3> QED BY <3>1, <3>2
  <2>2. IsClosed(h, S) /\ c \in S
    BY <1>1, <2>1 DEF IsClosed
  <2> HIDE DEF S
  <2>3. a \in S
    BY <2>2, AncestorsLeast
  <2> QED BY <2>3 DEF S
<1>3. Ancestors(h)[a] \subseteq Ancestors(h)[c]
  BY AncestorsClosed, AncestorsLeast
<1> QED BY <1>1, <1>2, <1>3

(* An ancestor is the commit itself or an ancestor of one of its parents *)
LEMMA AncestorsStep ==
  ASSUME NEW h, IsHistory(h), NEW c \in Commit(h)
  PROVE  /\ \A p \in ToSet(h.parents[c]) :
              Ancestors(h)[p] \subseteq Ancestors(h)[c]
         /\ \A a \in Ancestors(h)[c] : a # c =>
              \E p \in ToSet(h.parents[c]) : a \in Ancestors(h)[p]
BY AncestorsAre
-----------------------------------------------------------------------------
(* The place of a commit among others, by date *)
Place(S, c) == Cardinality({x \in S : x <= c})

LEMMA PlacesIncrease ==
  ASSUME NEW S \in SUBSET Nat, IsFiniteSet(S)
  PROVE  /\ \A c \in S : Place(S, c) \in 1..Cardinality(S)
         /\ \A c, d \in S : c < d => Place(S, c) < Place(S, d)
<1> DEFINE UpTo(c) == {x \in S : x <= c}
<1>1. ASSUME NEW c \in S
      PROVE  /\ IsFiniteSet(UpTo(c)) /\ Cardinality(UpTo(c)) \in Nat
             /\ Cardinality(UpTo(c)) <= Cardinality(S)
  <2>1. UpTo(c) \in SUBSET S
    OBVIOUS
  <2> HIDE DEF UpTo
  <2>2. IsFiniteSet(UpTo(c)) /\ Cardinality(UpTo(c)) <= Cardinality(S)
    BY <2>1, FS_Subset
  <2> QED BY <2>2, FS_CardinalityType
<1>2. Cardinality(S) \in Nat
  BY FS_CardinalityType
<1>3. \A c \in S : Cardinality(UpTo(c)) # 0
  <2>1. TAKE c \in S
  <2>2. c \in UpTo(c)
    OBVIOUS
  <2> HIDE DEF UpTo
  <2> QED BY <1>1, <2>2, FS_EmptySet
<1>4. ASSUME NEW c \in S, NEW d \in S, c < d
      PROVE  Cardinality(UpTo(c)) < Cardinality(UpTo(d))
  <2>1. UpTo(c) \subseteq UpTo(d) /\ d \in UpTo(d) /\ d \notin UpTo(c)
    <3>1. c \in Nat /\ d \in Nat /\ d <= d /\ ~(d <= c)
      BY <1>4
    <3>2. \A x \in S : x <= c => x <= d
      BY <1>4, <3>1
    <3> QED BY <3>1, <3>2
  <2> HIDE DEF UpTo
  <2>2. /\ Cardinality(UpTo(c)) <= Cardinality(UpTo(d))
        /\ Cardinality(UpTo(c)) # Cardinality(UpTo(d))
    BY <1>1, <2>1, FS_Subset
  <2>3. /\ Cardinality(UpTo(c)) \in Nat /\ Cardinality(UpTo(d)) \in Nat
    BY <1>1
  <2> QED BY <2>2, <2>3
<1>5. \A c \in S : Place(S, c) = Cardinality(UpTo(c))
  BY DEF Place
<1> HIDE DEF UpTo
<1>6. \A c \in S : Place(S, c) \in 1..Cardinality(S)
  BY <1>1, <1>2, <1>3, <1>5
<1> QED BY <1>4, <1>5, <1>6

(* Every place is taken, so that Nth chooses what it says *)
LEMMA NthIs ==
  ASSUME NEW S \in SUBSET Nat, IsFiniteSet(S), NEW n \in 1..Cardinality(S)
  PROVE  Nth(S, n) \in S /\ Place(S, Nth(S, n)) = n
<1> DEFINE T == 1..Cardinality(S)
           f == [c \in S |-> Place(S, c)]
<1>1. Cardinality(S) \in Nat
  BY FS_CardinalityType
<1>2. IsFiniteSet(T) /\ Cardinality(T) = Cardinality(S)
  BY <1>1, FS_Interval
<1>3. f \in [S -> T] /\ \A c \in S : f[c] = Place(S, c)
  BY PlacesIncrease
<1>4. \A c, d \in S : f[c] = f[d] => c = d
  <2>1. TAKE c, d \in S
  <2>2. Place(S, c) \in Nat /\ Place(S, d) \in Nat /\ c \in Nat /\ d \in Nat
    BY PlacesIncrease
  <2>3. /\ c < d => Place(S, c) < Place(S, d)
        /\ d < c => Place(S, d) < Place(S, c)
    BY PlacesIncrease
  <2> QED BY <1>3, <2>2, <2>3
<1> HIDE DEF f, T
<1>5. f \in Injection(S, T)
  BY <1>3, <1>4, Fun_IsInj
<1>6. f \in Surjection(S, T)
  BY <1>2, <1>5, FS_Injection
<1>7. \E c \in S : f[c] = n
  BY <1>6 DEF Surjection, T
<1>8. \E c \in S : Place(S, c) = n
  BY <1>3, <1>7
<1> QED BY <1>8 DEF Nth, Place

(* What Nth numbers is in order, and nothing is left out *)
LEMMA NthOrder ==
  ASSUME NEW S \in SUBSET Nat, IsFiniteSet(S)
  PROVE  /\ Cardinality(S) \in Nat
         /\ \A n \in 1..Cardinality(S) : Nth(S, n) \in S
         /\ \A x \in S : \E n \in 1..Cardinality(S) : x = Nth(S, n)
         /\ \A m, n \in 1..Cardinality(S) : m < n => Nth(S, m) < Nth(S, n)
<1>1. \A n \in 1..Cardinality(S) : Nth(S, n) \in S /\ Place(S, Nth(S, n)) = n
  BY NthIs
<1>2. \A c, d \in S : Place(S, c) = Place(S, d) => c = d
  <2>1. TAKE c, d \in S
  <2>2. Place(S, c) \in Nat /\ Place(S, d) \in Nat /\ c \in Nat /\ d \in Nat
    BY PlacesIncrease
  <2>3. /\ c < d => Place(S, c) < Place(S, d)
        /\ d < c => Place(S, d) < Place(S, c)
    BY PlacesIncrease
  <2> QED BY <2>2, <2>3
<1>3. \A x \in S : \E n \in 1..Cardinality(S) : x = Nth(S, n)
  <2>1. TAKE x \in S
  <2>2. Place(S, x) \in 1..Cardinality(S)
    BY PlacesIncrease
  <2>3. x = Nth(S, Place(S, x))
    BY <1>1, <1>2, <2>2
  <2> QED BY <2>2, <2>3
<1>4. ASSUME NEW m \in 1..Cardinality(S), NEW n \in 1..Cardinality(S), m < n
      PROVE  Nth(S, m) < Nth(S, n)
  <2>1. Nth(S, m) \in S /\ Nth(S, n) \in S
    BY <1>1
  <2>2. /\ Place(S, Nth(S, m)) = m /\ Place(S, Nth(S, n)) = n
        /\ Nth(S, m) \in Nat /\ Nth(S, n) \in Nat
    BY <1>1, <2>1
  <2>3. ~(Nth(S, n) < Nth(S, m)) /\ Nth(S, m) # Nth(S, n)
    BY <1>4, <2>1, <2>2, PlacesIncrease
  <2> QED BY <2>2, <2>3
<1>5. Cardinality(S) \in Nat
  BY FS_CardinalityType
<1> QED BY <1>1, <1>3, <1>4, <1>5

LEMMA Places ==
  ASSUME NEW n \in Nat
  PROVE  /\ n # 0 => 1 \in 1..n /\ n \in 1..n
         /\ \A i \in 1..(n - 1) : i \in 1..n /\ i + 1 \in 1..n /\ i < i + 1
OBVIOUS

(* Neighbours: nothing of the set lies between the places n and n + 1 *)
LEMMA NthNext ==
  ASSUME NEW S \in SUBSET Nat, IsFiniteSet(S),
         NEW n \in 1..(Cardinality(S) - 1), NEW x \in S,
         Nth(S, n) <= x, x < Nth(S, n + 1)
  PROVE  x = Nth(S, n)
<1>1. PICK k \in 1..Cardinality(S) : x = Nth(S, k)
  BY NthOrder
<1>2. n \in 1..Cardinality(S) /\ n + 1 \in 1..Cardinality(S)
      /\ Cardinality(S) \in Nat /\ n \in Nat /\ k \in Nat
  BY NthOrder
<1>3. Nth(S, n) \in Nat /\ Nth(S, n + 1) \in Nat /\ x \in Nat
  BY <1>2, NthOrder
<1>4. ~(k < n) /\ ~(n + 1 < k) /\ k # n + 1
  BY <1>1, <1>2, <1>3, NthOrder
<1>5. k = n
  BY <1>2, <1>4
<1> QED BY <1>1, <1>5
-----------------------------------------------------------------------------
(* What git rev-list gives of one range *)
LEMMA RevListIs ==
  ASSUME NEW h, IsHistory(h), NEW tip \in Commit(h), NEW base \in Commit(h)
  PROVE  /\ RevList(h, {tip}, {base}) = Ancestors(h)[tip] \ Ancestors(h)[base]
         /\ RevList(h, {tip}, {base}) \in SUBSET Nat
         /\ RevList(h, {tip}, {base}) \subseteq Commit(h)
         /\ IsFiniteSet(RevList(h, {tip}, {base}))
<1>1. Commit(h) = 1..Len(h.parents) /\ Len(h.parents) \in Nat
  BY DEF IsHistory, Commit
<1>2. IsFiniteSet(Commit(h)) /\ Commit(h) \subseteq Nat
  <2>1. IsFiniteSet(1..Len(h.parents))
    BY <1>1, FS_Interval
  <2> QED BY <1>1, <2>1
<1>3. Ancestors(h)[tip] \subseteq Commit(h)
  BY AncestorsClosed DEF IsClosed
<1>4. RevList(h, {tip}, {base}) = Ancestors(h)[tip] \ Ancestors(h)[base]
  BY <1>3 DEF RevList
<1>5. RevList(h, {tip}, {base}) \in SUBSET Commit(h)
  BY DEF RevList
<1> QED BY <1>2, <1>4, <1>5, FS_Subset

LEMMA OnlyParent ==
  ASSUME NEW h, IsHistory(h), NEW c \in Commit(h), Len(h.parents[c]) = 1
  PROVE  ToSet(h.parents[c]) = {FirstParent(h, c)}
<1>1. h.parents[c] \in Seq(Nat)
  BY DEF IsHistory, Commit
<1>2. DOMAIN h.parents[c] = {1}
  BY <1>1
<1> QED BY <1>2 DEF ToSet, FirstParent

OneParentEach(h, S) == \A c \in S : Len(h.parents[c]) = 1

(* A range whose commits have one parent each is a line: each of them has  *)
(* the base and all older ones for ancestors.                              *)
LEMMA RangeIsLine ==
  ASSUME NEW h, IsHistory(h), NEW tip \in Commit(h),
         NEW base \in Ancestors(h)[tip],
         NEW S, S = RevList(h, {tip}, {base}), OneParentEach(h, S)
  PROVE  \A x \in S : /\ base \in Ancestors(h)[x]
                      /\ \A z \in S : z <= x => z \in Ancestors(h)[x]
<1> DEFINE InLine(x) == /\ base \in Ancestors(h)[x]
                        /\ \A z \in S : z <= x => z \in Ancestors(h)[x]
           A == {x \in Ancestors(h)[tip] :
                   x \in Ancestors(h)[base] \/ InLine(x)}
<1>1. base \in Commit(h) /\ S = Ancestors(h)[tip] \ Ancestors(h)[base]
      /\ S \subseteq Nat /\ S \subseteq Commit(h)
  BY RevListIs, AncestorsOrder
<1>2. IsClosed(h, Ancestors(h)[tip]) /\ IsClosed(h, Ancestors(h)[base])
      /\ base \in Ancestors(h)[base] /\ tip \in Ancestors(h)[tip]
  BY <1>1, AncestorsClosed
<1>3. ASSUME NEW x \in A, NEW q \in ToSet(h.parents[x])
      PROVE  q \in A
  <2>1. q \in Ancestors(h)[tip]
    BY <1>2, <1>3 DEF IsClosed
  <2>2. CASE x \in Ancestors(h)[base]
    BY <1>2, <2>1, <2>2 DEF IsClosed
  <2>3. CASE x \notin Ancestors(h)[base]
    <3>1. x \in S /\ x \in Commit(h) /\ InLine(x)
      BY <1>1, <2>3
    <3>2. ToSet(h.parents[x]) = {q} /\ q \in Nat /\ x \in Nat /\ q < x
      <4>1. q \in Nat /\ x \in Nat /\ q < x
        BY <3>1, ParentsAreOlder
      <4>2. Len(h.parents[x]) = 1
        BY <3>1 DEF OneParentEach
      <4> QED BY <3>1, <4>1, <4>2, OnlyParent
    <3>3. \A a \in Ancestors(h)[x] : a # x => a \in Ancestors(h)[q]
      BY <3>1, <3>2, AncestorsStep
    <3>4. base \in Ancestors(h)[q]
      BY <1>2, <2>3, <3>1, <3>3
    <3>5. ASSUME NEW z \in S, z <= q
          PROVE  z \in Ancestors(h)[q]
      <4>1. z <= x /\ z # x
        BY <1>1, <3>2, <3>5
      <4> QED BY <3>1, <3>3, <4>1
    <3> QED BY <2>1, <3>4, <3>5
  <2> QED BY <2>2, <2>3
<1>4. tip \in A
  BY <1>1, <1>2
<1>5. A \subseteq Commit(h)
  BY <1>2 DEF IsClosed
<1> HIDE DEF A
<1>6. Ancestors(h)[tip] \subseteq A
  BY <1>3, <1>4, <1>5, AncestorsLeast DEF IsClosed
<1> QED BY <1>1, <1>6 DEF A

IsLine(h, base, tip, S) ==
  /\ Cardinality(S) \in Nat \ {0} /\ Nth(S, Cardinality(S)) = tip
  /\ FirstParent(h, Nth(S, 1)) = base
  /\ \A i \in 1..(Cardinality(S) - 1) :
       FirstParent(h, Nth(S, i + 1)) = Nth(S, i)

(* So in the order of their dates each is the parent of the next, the      *)
(* first has the base for its parent, and the last is the tip.             *)
LEMMA OldestFirstIsLine ==
  ASSUME NEW h, IsHistory(h), NEW tip \in Commit(h),
         NEW base \in Ancestors(h)[tip],
         NEW S, S = RevList(h, {tip}, {base}), S # {}, OneParentEach(h, S)
  PROVE  IsLine(h, base, tip, S)
<1> DEFINE n == Cardinality(S)
<1>1. base \in Commit(h) /\ S = Ancestors(h)[tip] \ Ancestors(h)[base]
      /\ S \in SUBSET Nat /\ S \subseteq Commit(h) /\ IsFiniteSet(S)
      /\ tip \in Ancestors(h)[tip] /\ base \in Ancestors(h)[base]
  BY RevListIs, AncestorsOrder, AncestorsClosed
<1>2. n \in Nat \ {0}
  BY <1>1, FS_CardinalityType, FS_EmptySet
<1>9. 1 \in 1..n /\ n \in 1..n
  BY <1>2, Places
<1>3. tip \in S
  <2>1. tip \in Ancestors(h)[base] => S = {}
    BY <1>1, AncestorsOrder
  <2> QED BY <1>1, <2>1
<1>4. \A x \in S : x <= tip
  BY <1>1, AncestorsOrder
<1>5. \A x \in S : /\ FirstParent(h, x) \in Nat /\ x \in Nat
                   /\ FirstParent(h, x) < x
                   /\ FirstParent(h, x) \in Ancestors(h)[tip]
                   /\ \A a \in Ancestors(h)[x] : a # x =>
                        a \in Ancestors(h)[FirstParent(h, x)]
  <2>1. TAKE x \in S
  <2>2. ToSet(h.parents[x]) = {FirstParent(h, x)} /\ x \in Commit(h)
    BY <1>1, OnlyParent DEF OneParentEach
  <2>3. FirstParent(h, x) \in Ancestors(h)[tip]
    BY <1>1, <2>2, AncestorsClosed DEF IsClosed
  <2> QED BY <2>2, <2>3, ParentsAreOlder, AncestorsStep
<1>6. Nth(S, n) = tip
  <2>1. PICK k \in 1..n : tip = Nth(S, k)
    BY <1>1, <1>3, NthOrder
  <2>2. Nth(S, n) \in S /\ (k < n => tip < Nth(S, n))
    BY <1>1, <1>9, <2>1, NthOrder
  <2>3. tip \in Nat /\ Nth(S, n) \in Nat /\ Nth(S, n) <= tip
    BY <1>1, <1>3, <1>4, <2>2
  <2>4. k = n
    BY <1>2, <2>1, <2>2, <2>3
  <2> QED BY <2>1, <2>4
<1>7. FirstParent(h, Nth(S, 1)) = base
  <2> DEFINE c == Nth(S, 1)
             p == FirstParent(h, c)
  <2>1. c \in S
    BY <1>1, <1>9, NthOrder
  <2>2. \A x \in S : ~(x < c)
    <3>1. TAKE x \in S
    <3>2. PICK k \in 1..n : x = Nth(S, k)
      BY <1>1, NthOrder
    <3>3. k = 1 \/ c < x
      <4>1. k = 1 \/ 1 < k
        BY <1>2, <3>2
      <4> QED BY <1>1, <1>9, <3>2, <4>1, NthOrder
    <3>4. x \in Nat /\ c \in Nat
      BY <1>1, <2>1
    <3>5. x = c \/ c < x
      BY <3>2, <3>3
    <3> HIDE DEF c
    <3> QED BY <3>4, <3>5
  <2> HIDE DEF c
  <2>3. p \in Ancestors(h)[base]
    BY <1>1, <1>5, <2>1, <2>2
  <2>4. base \in Ancestors(h)[p]
    BY <1>1, <1>5, <2>1, RangeIsLine
  <2>5. p <= base /\ base <= p /\ p \in Nat /\ base \in Nat
    <3>1. p <= base /\ p \in Nat /\ base \in Nat /\ p \in Commit(h)
      BY <1>1, <2>3, AncestorsOrder
    <3> QED BY <3>1, <2>4, AncestorsOrder
  <2>6. p = base
    BY <2>5
  <2> QED BY <2>6 DEF c
<1>8. ASSUME NEW i \in 1..(n - 1)
      PROVE  FirstParent(h, Nth(S, i + 1)) = Nth(S, i)
  <2> DEFINE c == Nth(S, i + 1)
             q == Nth(S, i)
             p == FirstParent(h, c)
  <2>1. i \in 1..n /\ i + 1 \in 1..n /\ i < i + 1
    BY <1>2, Places
  <2>2. c \in S /\ q \in S /\ q < c
    BY <1>1, <2>1, NthOrder
  <2>3. \A x \in S : q <= x /\ x < c => x = q
    BY <1>1, <1>8, NthNext
  <2> HIDE DEF c, q
  <2>4. q \in Nat /\ c \in Nat /\ q <= c /\ q # c
    <3>1. q \in Nat /\ c \in Nat
      BY <1>1, <2>2
    <3> QED BY <2>2, <3>1
  <2>5. q \in Ancestors(h)[p]
    BY <1>1, <1>5, <2>2, <2>4, RangeIsLine
  <2>6. p \in Commit(h) /\ p \in Ancestors(h)[tip] /\ p < c /\ q <= p
    BY <1>1, <1>5, <2>2, <2>5, AncestorsOrder
  <2>7. p \notin Ancestors(h)[base]
    BY <1>1, <2>2, <2>5, AncestorsOrder
  <2>8. p = q
    BY <1>1, <2>3, <2>6, <2>7
  <2> QED BY <2>8 DEF c, q
<1> QED BY <1>2, <1>6, <1>7, <1>8 DEF IsLine
-----------------------------------------------------------------------------
(* The youngest remote ancestor is on the remote, unless what is not       *)
(* pushed begins with a root.                                              *)
LEMMA RemoteAncestorIs ==
  ASSUME NEW h, IsHistory(h), NEW c \in Commit(h)
  PROVE  /\ YoungestRemoteAncestor(h, c) \in Commit(h)
         /\ (\A x \in RevList(h, {c}, h.remotes) : ~IsRoot(h, x)) =>
              \E t \in h.remotes :
                YoungestRemoteAncestor(h, c) \in Ancestors(h)[t]
<1> DEFINE local == RevList(h, {c}, h.remotes)
           last == Min(local)
           Y == YoungestRemoteAncestor(h, c)
<1>1. /\ local = {x \in Ancestors(h)[c] :
                    \A t \in h.remotes : x \notin Ancestors(h)[t]}
      /\ local \in SUBSET Nat /\ local \subseteq Commit(h)
      /\ c \in Ancestors(h)[c]
  BY AncestorsClosed, AncestorsOrder DEF RevList, IsClosed
<1>2. local = {} => Y = c /\ \E t \in h.remotes : c \in Ancestors(h)[t]
  BY <1>1 DEF YoungestRemoteAncestor
<1>3. ASSUME local # {}
      PROVE  /\ last \in local /\ \A x \in local : last <= x
             /\ Y = IF IsRoot(h, last) THEN last ELSE FirstParent(h, last)
  BY <1>1, <1>3, MinIsLeast DEF YoungestRemoteAncestor
<1>4. ASSUME local # {}, ~IsRoot(h, last)
      PROVE  /\ Y \in Commit(h)
             /\ \E t \in h.remotes : Y \in Ancestors(h)[t]
  <2> HIDE DEF local, last, Y
  <2>1. last \in Commit(h) /\ last \in local /\ Y = FirstParent(h, last)
    BY <1>1, <1>3, <1>4
  <2>2. h.parents[last] \in Seq(Nat) /\ h.parents[last] # <<>>
    BY <1>4, <2>1 DEF IsRoot, IsHistory, Commit
  <2>3. Y \in ToSet(h.parents[last])
    BY <2>1, <2>2 DEF ToSet, FirstParent
  <2>4. last \in Nat /\ Y \in Nat /\ Y \in Commit(h) /\ Y < last
    BY <2>1, <2>3, ParentsAreOlder
  <2>5. Y \in Ancestors(h)[c]
    BY <1>1, <2>1, <2>3, AncestorsClosed DEF IsClosed
  <2>6. Y \notin local
    BY <1>3, <1>4, <2>4
  <2> QED BY <1>1, <2>4, <2>5, <2>6
<1>5. Y \in Commit(h)
  BY <1>1, <1>2, <1>3, <1>4
<1>6. ASSUME \A x \in local : ~IsRoot(h, x)
      PROVE  \E t \in h.remotes : Y \in Ancestors(h)[t]
  <2>1. local # {} => ~IsRoot(h, last)
    BY <1>3, <1>6
  <2> QED BY <1>2, <1>4, <2>1
<1> QED BY <1>5, <1>6
-----------------------------------------------------------------------------
(* A later history: nothing that there was has changed *)
Extends(h, g) ==
  /\ IsHistory(h) /\ IsHistory(g)
  /\ Commit(h) \subseteq Commit(g) /\ g.remotes = h.remotes
  /\ \A c \in Commit(h) : /\ g.parents[c] = h.parents[c]
                          /\ g.change[c] = h.change[c]

LEMMA AddCommitExtends ==
  ASSUME NEW h, IsHistory(h), NEW parents \in Seq(Nat),
         ToSet(parents) \subseteq Commit(h), NEW change \in Nat, NEW message
  PROVE  Extends(h, AddCommit(h, parents, change, message))
<1> DEFINE g == AddCommit(h, parents, change, message)
           n == Len(h.parents)
<1>1. /\ h.parents \in Seq(Seq(Nat)) /\ h.change \in Seq(Nat)
      /\ n \in Nat /\ Len(h.change) = n /\ Commit(h) = 1..n
  BY DEF IsHistory, Commit
<1>2. /\ g.parents = Append(h.parents, parents)
      /\ g.change = Append(h.change, change)
      /\ g.head = n + 1 /\ g.upstream = h.upstream /\ g.remotes = h.remotes
      /\ DOMAIN g = DOMAIN h
  BY DEF AddCommit, IsHistory
<1> HIDE DEF g
<1>3. /\ g.parents \in Seq(Seq(Nat)) /\ Len(g.parents) = n + 1
      /\ \A c \in 1..n : g.parents[c] = h.parents[c]
      /\ g.parents[n + 1] = parents
  BY <1>1, <1>2, AppendProperties
<1>4. /\ g.change \in Seq(Nat) /\ Len(g.change) = n + 1
      /\ \A c \in 1..n : g.change[c] = h.change[c]
  BY <1>1, <1>2, AppendProperties
<1>5. Commit(g) = Commit(h) \cup {n + 1}
  <2>1. Commit(g) = 1..(n + 1)
    BY <1>1, <1>3 DEF Commit
  <2> HIDE DEF n
  <2>2. 1..(n + 1) = (1..n) \cup {n + 1}
    BY <1>1
  <2> QED BY <1>1, <2>1, <2>2
<1>6. ASSUME NEW c \in Commit(g)
      PROVE  ToSet(g.parents[c]) \subseteq 1..(c - 1)
  <2>1. CASE c \in Commit(h)
    BY <1>1, <1>3, <2>1 DEF IsHistory
  <2>2. CASE c = n + 1
    <3>1. c - 1 = n
      BY <1>1, <2>2
    <3> QED BY <1>1, <1>3, <2>2, <3>1
  <2> QED BY <1>5, <2>1, <2>2
<1>7. {g.head, g.upstream} \cup g.remotes \subseteq Commit(g)
  BY <1>2, <1>5 DEF IsHistory
<1>8. IsHistory(g)
  <2>1. DOMAIN g = {"parents", "change", "message", "head", "upstream",
                    "remotes"}
    BY <1>2 DEF IsHistory
  <2> QED BY <1>3, <1>4, <1>6, <1>7, <2>1 DEF IsHistory
<1>9. Extends(h, g)
  BY <1>1, <1>2, <1>3, <1>4, <1>5, <1>8 DEF Extends
<1> QED BY <1>9 DEF g

LEMMA AmendExtends ==
  ASSUME NEW h, IsHistory(h), NEW change \in Nat, NEW message
  PROVE  Extends(h, Amend(h, change, message))
<1>1. /\ h.head \in Commit(h) /\ h.parents[h.head] \in Seq(Nat)
      /\ \A p \in ToSet(h.parents[h.head]) : p \in Commit(h)
  BY ParentsAreOlder DEF IsHistory, Commit
<1> QED BY <1>1, AddCommitExtends DEF Amend

LEMMA AncestorsStay ==
  ASSUME NEW h, NEW g, Extends(h, g), NEW c \in Commit(h)
  PROVE  Ancestors(g)[c] = Ancestors(h)[c]
<1>1. /\ IsHistory(h) /\ IsHistory(g) /\ Commit(h) \subseteq Commit(g)
      /\ \A x \in Commit(h) : g.parents[x] = h.parents[x]
  BY DEF Extends
<1>2. c \in Ancestors(h)[c] /\ IsClosed(h, Ancestors(h)[c])
      /\ c \in Ancestors(g)[c] /\ IsClosed(g, Ancestors(g)[c])
  BY <1>1, AncestorsClosed
<1>3. IsClosed(g, Ancestors(h)[c])
  BY <1>1, <1>2 DEF IsClosed
<1>4. Ancestors(g)[c] \subseteq Ancestors(h)[c]
  BY <1>1, <1>2, <1>3, AncestorsLeast
<1>5. IsClosed(h, Ancestors(g)[c])
  BY <1>1, <1>2, <1>4 DEF IsClosed
<1>6. Ancestors(h)[c] \subseteq Ancestors(g)[c]
  BY <1>1, <1>2, <1>5, AncestorsLeast
<1> QED BY <1>4, <1>6

(* What is made of commits stays what it was *)
LEMMA HistoryStays ==
  ASSUME NEW h, NEW g, Extends(h, g), NEW c \in Commit(h)
  PROVE  /\ Tree(g, c) = Tree(h, c)
         /\ RevList(g, {c}, g.remotes) = RevList(h, {c}, h.remotes)
         /\ \A x \in RevList(h, {c}, h.remotes) :
              x \in Commit(h) /\ (IsRoot(g, x) <=> IsRoot(h, x))
         /\ YoungestRemoteAncestor(g, c) = YoungestRemoteAncestor(h, c)
         /\ UNION {Ancestors(g)[t] : t \in g.remotes} =
              UNION {Ancestors(h)[t] : t \in h.remotes}
<1>1. /\ IsHistory(h) /\ IsHistory(g) /\ Commit(h) \subseteq Commit(g)
      /\ g.remotes = h.remotes /\ h.remotes \subseteq Commit(h)
      /\ \A x \in Commit(h) : /\ g.parents[x] = h.parents[x]
                              /\ g.change[x] = h.change[x]
  BY DEF Extends, IsHistory
<1>2. /\ Ancestors(g)[c] = Ancestors(h)[c]
      /\ Ancestors(h)[c] \subseteq Commit(h)
      /\ \A t \in h.remotes : Ancestors(g)[t] = Ancestors(h)[t]
  BY <1>1, AncestorsStay, AncestorsClosed DEF IsClosed
<1>3. Tree(g, c) = Tree(h, c)
  BY <1>1, <1>2 DEF Tree
<1>4. RevList(g, {c}, g.remotes) = RevList(h, {c}, h.remotes)
  BY <1>1, <1>2 DEF RevList
<1>5. RevList(h, {c}, h.remotes) \in SUBSET Nat
      /\ RevList(h, {c}, h.remotes) \subseteq Commit(h)
  <2>1. RevList(h, {c}, h.remotes) \subseteq Commit(h)
    BY DEF RevList
  <2>2. Commit(h) \subseteq Nat
    BY <1>1, CommitsAreNumbers
  <2> QED BY <2>1, <2>2
<1>6. \A x \in Commit(h) : /\ IsRoot(g, x) <=> IsRoot(h, x)
                           /\ FirstParent(g, x) = FirstParent(h, x)
  BY <1>1 DEF IsRoot, FirstParent
<1>7. YoungestRemoteAncestor(g, c) = YoungestRemoteAncestor(h, c)
  <2> DEFINE local == RevList(h, {c}, h.remotes)
  <2>1. CASE local = {}
    BY <1>4, <2>1 DEF YoungestRemoteAncestor
  <2>2. CASE local # {}
    <3>1. Min(local) \in Commit(h)
      BY <1>5, <2>2, MinIsLeast
    <3> QED BY <1>4, <1>6, <2>2, <3>1 DEF YoungestRemoteAncestor
  <2> QED BY <2>1, <2>2
<1>8. UNION {Ancestors(g)[t] : t \in g.remotes} =
        UNION {Ancestors(h)[t] : t \in h.remotes}
  BY <1>1, <1>2
<1> QED BY <1>3, <1>4, <1>5, <1>6, <1>7, <1>8
-----------------------------------------------------------------------------
LEMMA MaxIsGreatest ==
  ASSUME NEW S \in SUBSET Nat, IsFiniteSet(S), S # {}
  PROVE  Max(S) \in S /\ \A x \in S : x <= Max(S)
<1> DEFINE n == Cardinality(S)
<1>1. n \in Nat /\ n # 0
  BY FS_CardinalityType, FS_EmptySet
<1>2. n \in 1..n
  BY <1>1, Places
<1>3. Nth(S, n) \in S
  BY <1>2, NthOrder
<1>4. ASSUME NEW x \in S
      PROVE  x <= Nth(S, n)
  <2>1. PICK k \in 1..n : x = Nth(S, k)
    BY NthOrder
  <2>2. k = n \/ k < n
    BY <1>1, <2>1
  <2>3. x = Nth(S, n) \/ x < Nth(S, n)
    BY <1>2, <2>1, <2>2, NthOrder
  <2>4. x \in Nat /\ Nth(S, n) \in Nat
    BY <1>3
  <2> HIDE DEF n
  <2> QED BY <2>3, <2>4
<1>5. \E c \in S : \A x \in S : c >= x
  BY <1>3, <1>4
<1>6. Max(S) \in S /\ \A x \in S : Max(S) >= x
  BY <1>5 DEF Max
<1> QED BY <1>6

(* What parse_revision_spec names are commits *)
LEMMA RevisionsAre ==
  ASSUME NEW h, IsHistory(h), NEW spec, IsSpec(h, spec),
         NEW r, r = ParseRevisionSpec(h, spec), r # None
  PROVE  /\ r.base \in Commit(h) /\ r.tip \in Commit(h)
         /\ r.parent_base = IF YoungestRemoteAncestor(h, r.base) = r.base
                            THEN None ELSE YoungestRemoteAncestor(h, r.base)
<1> DEFINE named == NamedRevisions(h, spec)
<1>1. /\ h.head \in Commit(h) /\ h.upstream \in Commit(h)
      /\ Commit(h) \subseteq Nat /\ IsFiniteSet(Commit(h))
  <2>1. Commit(h) = 1..Len(h.parents) /\ Len(h.parents) \in Nat
    BY DEF IsHistory, Commit
  <2>2. IsFiniteSet(1..Len(h.parents))
    BY <2>1, FS_Interval
  <2> QED BY <2>1, <2>2 DEF IsHistory
<1>2. ASSUME NEW c \in Commit(h), ~IsRoot(h, c)
      PROVE  FirstParent(h, c) \in Commit(h)
  <2>1. h.parents[c] \in Seq(Nat) /\ h.parents[c] # <<>>
    BY <1>2 DEF IsRoot, IsHistory, Commit
  <2>2. FirstParent(h, c) \in ToSet(h.parents[c])
    BY <2>1 DEF ToSet, FirstParent
  <2> QED BY <2>2, ParentsAreOlder
<1>3. ASSUME NEW a \in Commit(h), NEW b \in Commit(h), MergeBase(h, a, b) # None
      PROVE  MergeBase(h, a, b) \in Commit(h)
  <2> DEFINE common == Ancestors(h)[a] \cap Ancestors(h)[b]
  <2>1. common \in SUBSET Commit(h)
    BY AncestorsClosed DEF IsClosed
  <2>2. common # {} /\ MergeBase(h, a, b) = Max(common)
    BY <1>3 DEF MergeBase
  <2> HIDE DEF common
  <2>3. IsFiniteSet(common) /\ common \in SUBSET Nat
    BY <1>1, <2>1, FS_Subset
  <2> QED BY <2>1, <2>2, <2>3, MaxIsGreatest
<1>4. named.base # None => named.base \in Commit(h) /\ named.tip \in Commit(h)
  BY <1>1, <1>2, <1>3 DEF NamedRevisions, Revs, IsSpec
<1> HIDE DEF named
<1>5. /\ named.base # None /\ r.base = named.base /\ r.tip = named.tip
      /\ r.parent_base = IF YoungestRemoteAncestor(h, named.base) = named.base
                         THEN None ELSE YoungestRemoteAncestor(h, named.base)
  BY DEF ParseRevisionSpec, named
<1> QED BY <1>4, <1>5
-----------------------------------------------------------------------------
(* Parts of a sequence: what is kept, and that the first stays the first *)
LEMMA AtIs ==
  ASSUME NEW S, NEW s \in Seq(S), NEW places \in SUBSET (1..Len(s))
  PROVE  /\ At(s, places) \in Seq(S)
         /\ ToSet(At(s, places)) = {s[i] : i \in places}
         /\ 1 \in places => At(s, places) # <<>> /\ At(s, places)[1] = s[1]
<1> DEFINE n == Cardinality(places)
           at == At(s, places)
<1>1. /\ Len(s) \in Nat /\ places \in SUBSET Nat
      /\ \A i \in places : i \in 1..Len(s) /\ s[i] \in S /\ i >= 1
  OBVIOUS
<1>2. IsFiniteSet(places)
  <2>1. IsFiniteSet(1..Len(s))
    BY <1>1, FS_Interval
  <2> QED BY <2>1, FS_Subset
<1>3. /\ n \in Nat
      /\ \A k \in 1..n : Nth(places, k) \in places
      /\ \A i \in places : \E k \in 1..n : i = Nth(places, k)
      /\ \A k, m \in 1..n : k < m => Nth(places, k) < Nth(places, m)
  BY <1>1, <1>2, NthOrder
<1>4. at = [k \in 1..n |-> s[Nth(places, k)]]
  BY DEF At
<1> HIDE DEF n, at
<1>5. at \in [1..n -> S]
  BY <1>1, <1>3, <1>4
<1>6. at \in Seq(S) /\ Len(at) = n
  BY <1>3, <1>5
<1>7. ToSet(at) = {s[i] : i \in places}
  BY <1>3, <1>4 DEF ToSet
<1>8. ASSUME 1 \in places
      PROVE  at # <<>> /\ at[1] = s[1]
  <2>1. PICK k \in 1..n : 1 = Nth(places, k)
    BY <1>3, <1>8
  <2>2. 1 \in 1..n /\ k \in Nat /\ k >= 1
    BY <1>3
  <2>3. Nth(places, 1) \in Nat /\ Nth(places, 1) >= 1
    BY <1>1, <1>3, <2>2
  <2>4. ~(1 < k)
    BY <1>3, <2>1, <2>2, <2>3
  <2>5. k = 1
    BY <2>2, <2>4
  <2> QED BY <1>3, <1>4, <1>6, <2>1, <2>2, <2>5
<1> QED BY <1>6, <1>7, <1>8 DEF at

LEMMA ConcatSet ==
  ASSUME NEW S, NEW s \in Seq(S), NEW t \in Seq(S)
  PROVE  /\ s \o t \in Seq(S)
         /\ ToSet(s \o t) = ToSet(s) \cup ToSet(t)
         /\ s # <<>> => s \o t # <<>> /\ (s \o t)[1] = s[1]
         /\ s = <<>> => s \o t = t
<1>1. /\ s \o t \in Seq(S) /\ Len(s \o t) = Len(s) + Len(t)
      /\ \A i \in 1..(Len(s) + Len(t)) :
           (s \o t)[i] = IF i <= Len(s) THEN s[i] ELSE t[i - Len(s)]
  BY ConcatProperties
<1>2. Len(s) \in Nat /\ Len(t) \in Nat /\ DOMAIN s = 1..Len(s)
      /\ DOMAIN t = 1..Len(t) /\ DOMAIN (s \o t) = 1..(Len(s) + Len(t))
  BY <1>1
<1>3. ToSet(s \o t) \subseteq ToSet(s) \cup ToSet(t)
  <2>1. SUFFICES ASSUME NEW x \in ToSet(s \o t) PROVE x \in ToSet(s) \cup ToSet(t)
    OBVIOUS
  <2>2. PICK i \in 1..(Len(s) + Len(t)) : x = (s \o t)[i]
    BY <1>2 DEF ToSet
  <2>3. CASE i <= Len(s)
    BY <1>1, <1>2, <2>2, <2>3 DEF ToSet
  <2>4. CASE ~(i <= Len(s))
    <3>1. i - Len(s) \in 1..Len(t) /\ x = t[i - Len(s)]
      BY <1>1, <1>2, <2>2, <2>4
    <3> QED BY <1>2, <3>1 DEF ToSet
  <2> QED BY <2>3, <2>4
<1>4. ToSet(s) \subseteq ToSet(s \o t)
  <2>1. SUFFICES ASSUME NEW x \in ToSet(s) PROVE x \in ToSet(s \o t)
    OBVIOUS
  <2>2. PICK i \in 1..Len(s) : x = s[i]
    BY <1>2 DEF ToSet
  <2>3. i \in 1..(Len(s) + Len(t)) /\ i <= Len(s)
    BY <1>2
  <2> QED BY <1>1, <1>2, <2>2, <2>3 DEF ToSet
<1>5. ToSet(t) \subseteq ToSet(s \o t)
  <2>1. SUFFICES ASSUME NEW x \in ToSet(t) PROVE x \in ToSet(s \o t)
    OBVIOUS
  <2>2. PICK i \in 1..Len(t) : x = t[i]
    BY <1>2 DEF ToSet
  <2>3. /\ i + Len(s) \in 1..(Len(s) + Len(t)) /\ ~(i + Len(s) <= Len(s))
        /\ (i + Len(s)) - Len(s) = i
    BY <1>2
  <2>4. x = (s \o t)[i + Len(s)]
    BY <1>1, <2>2, <2>3
  <2> QED BY <1>2, <2>3, <2>4 DEF ToSet
<1>6. ASSUME s # <<>>
      PROVE  s \o t # <<>> /\ (s \o t)[1] = s[1]
  <2>1. Len(s) >= 1
    BY <1>2, <1>6
  <2>2. 1 \in 1..(Len(s) + Len(t)) /\ 1 <= Len(s) /\ Len(s) + Len(t) # 0
    BY <1>2, <2>1
  <2> QED BY <1>1, <2>2
<1>7. s = <<>> => s \o t = t
  BY ConcatEmptySeq
<1> QED BY <1>1, <1>3, <1>4, <1>5, <1>6, <1>7

(* The dictionary of exact matches loses no match, and keeps the first *)
LEMMA DistinctIs ==
  ASSUME NEW S, NEW ids \in Seq(S)
  PROVE  /\ Distinct(ids) \in Seq(S)
         /\ ToSet(Distinct(ids)) = ToSet(ids)
         /\ ids # <<>> => Distinct(ids) # <<>> /\ Distinct(ids)[1] = ids[1]
<1> DEFINE P == {i \in DOMAIN ids : \A j \in 1..(i - 1) : ids[j] # ids[i]}
<1>1. P \in SUBSET (1..Len(ids)) /\ Len(ids) \in Nat
      /\ DOMAIN ids = 1..Len(ids)
  OBVIOUS
<1>2. \A i \in P : i \in DOMAIN ids
  OBVIOUS
<1>3. \A x \in ToSet(ids) : \E i \in P : ids[i] = x
  <2>1. TAKE x \in ToSet(ids)
  <2> DEFINE Q == {i \in DOMAIN ids : ids[i] = x}
  <2>2. Q \in SUBSET Nat /\ Q # {}
    BY <1>1 DEF ToSet
  <2>3. PICK i \in Q : \A j \in Q : i <= j
    BY <2>2, LeastNumber
  <2>4. \A j \in 1..(i - 1) : ids[j] # ids[i]
    <3>1. TAKE j \in 1..(i - 1)
    <3>2. j \in DOMAIN ids /\ ~(i <= j)
      BY <1>1, <2>3
    <3> QED BY <2>3, <3>2
  <2> QED BY <2>3, <2>4
<1>4. ids # <<>> => 1 \in P
  <2>1. 1..(1 - 1) = {}
    OBVIOUS
  <2>2. ids # <<>> => 1 \in DOMAIN ids
    BY <1>1
  <2> QED BY <2>1, <2>2
<1>5. Distinct(ids) = At(ids, P)
  BY DEF Distinct
<1> HIDE DEF P
<1>6. ToSet(ids) = {ids[i] : i \in P}
  BY <1>2, <1>3 DEF ToSet
<1> QED BY <1>1, <1>4, <1>5, <1>6, AtIs
-----------------------------------------------------------------------------
(* The exact matches are the candidates that have the commit, the tree or  *)
(* the text and are not another's; those with the commit come first, and   *)
(* those with the text last.                                               *)
IsList(candidates, S) ==
  /\ Len(candidates) \in Nat /\ DOMAIN candidates = 1..Len(candidates)
  /\ \A i \in DOMAIN candidates : candidates[i].id \in S

LEMMA ExactMatchesAre ==
  ASSUME NEW S, NEW list, IsList(list, S), NEW commit_id, NEW text
  PROVE  LET exact == ExactMatches(list, commit_id, text)
             test(i) == Tests(list[i], commit_id, text)
         IN  /\ exact \in Seq(S)
             /\ ToSet(exact) = {list[i].id : i \in {j \in DOMAIN list :
                                                      IsExact(test(j))}}
             /\ 1 \in DOMAIN list
                  /\ \/ ByCommit(test(1))
                     \/ /\ ByText(test(1))
                        /\ \A i \in DOMAIN list :
                             ~ByCommit(test(i)) /\ ~ByTree(test(i))
                => exact # <<>> /\ exact[1] = list[1].id
<1> DEFINE exact == ExactMatches(list, commit_id, text)
           test(i) == Tests(list[i], commit_id, text)
           ids == [i \in DOMAIN list |-> list[i].id]
           commits == {i \in DOMAIN ids : ByCommit(test(i))}
           trees == {i \in DOMAIN ids : ByTree(test(i))}
           texts == {i \in DOMAIN ids : ByText(test(i))}
           a == At(ids, commits)
           b == At(ids, trees)
           c == At(ids, texts)
<1>1. ids \in [1..Len(list) -> S] /\ Len(list) \in Nat
      /\ DOMAIN list = 1..Len(list)
  BY DEF IsList
<1>2. ids \in Seq(S) /\ Len(ids) = Len(list) /\ DOMAIN ids = DOMAIN list
  BY <1>1
<1>3. \A i \in DOMAIN list : ids[i] = list[i].id
  OBVIOUS
<1>4. exact = Distinct(a \o b \o c)
  BY DEF ExactMatches
<1>5. /\ commits \in SUBSET (1..Len(ids)) /\ trees \in SUBSET (1..Len(ids))
      /\ texts \in SUBSET (1..Len(ids))
  BY <1>1, <1>2
<1>6. /\ commits = {i \in DOMAIN list : ByCommit(test(i))}
      /\ trees = {i \in DOMAIN list : ByTree(test(i))}
      /\ texts = {i \in DOMAIN list : ByText(test(i))}
  BY <1>2
<1>7. \A i \in DOMAIN list :
        IsExact(test(i)) <=> i \in commits \cup trees \cup texts
  BY <1>6 DEF IsExact
<1> HIDE DEF ids, commits, trees, texts, exact
<1>8. /\ a \in Seq(S) /\ ToSet(a) = {ids[i] : i \in commits}
      /\ 1 \in commits => a # <<>> /\ a[1] = ids[1]
  BY <1>2, <1>5, AtIs
<1>9. /\ b \in Seq(S) /\ ToSet(b) = {ids[i] : i \in trees}
  BY <1>2, <1>5, AtIs
<1>10. /\ c \in Seq(S) /\ ToSet(c) = {ids[i] : i \in texts}
       /\ 1 \in texts => c # <<>> /\ c[1] = ids[1]
  BY <1>2, <1>5, AtIs
<1>a. commits = {} => a = <<>>
  BY FS_EmptySet DEF At
<1>b. trees = {} => b = <<>>
  BY FS_EmptySet DEF At
<1> HIDE DEF a, b, c
<1>11. /\ a \o b \in Seq(S) /\ ToSet(a \o b) = ToSet(a) \cup ToSet(b)
       /\ a # <<>> => a \o b # <<>> /\ (a \o b)[1] = a[1]
       /\ a = <<>> => a \o b = b
  BY <1>8, <1>9, ConcatSet
<1>12. /\ a \o b \o c \in Seq(S)
       /\ ToSet(a \o b \o c) = ToSet(a \o b) \cup ToSet(c)
       /\ a \o b # <<>> => a \o b \o c # <<>> /\ (a \o b \o c)[1] = (a \o b)[1]
       /\ a \o b = <<>> => a \o b \o c = c
  BY <1>10, <1>11, ConcatSet
<1>13. /\ exact \in Seq(S) /\ ToSet(exact) = ToSet(a \o b \o c)
       /\ a \o b \o c # <<>> => exact # <<>> /\ exact[1] = (a \o b \o c)[1]
  BY <1>4, <1>12, DistinctIs
<1>14. ToSet(exact) = {ids[i] : i \in commits \cup trees \cup texts}
  BY <1>8, <1>9, <1>10, <1>11, <1>12, <1>13
<1>15. {list[i].id : i \in {j \in DOMAIN list : IsExact(test(j))}}
       = {ids[i] : i \in commits \cup trees \cup texts}
  BY <1>3, <1>6, <1>7
<1>16. ASSUME 1 \in DOMAIN list,
              \/ ByCommit(test(1))
              \/ /\ ByText(test(1))
                 /\ \A i \in DOMAIN list : ~ByCommit(test(i)) /\ ~ByTree(test(i))
       PROVE  exact # <<>> /\ exact[1] = list[1].id
  <2>1. \/ 1 \in commits
        \/ 1 \in texts /\ commits = {} /\ trees = {}
    BY <1>6, <1>16
  <2> QED BY <1>3, <1>8, <1>10, <1>a, <1>b, <1>11, <1>12, <1>13, <1>16, <2>1
<1> QED BY <1>13, <1>14, <1>15, <1>16 DEF exact

(* A slice that reaches beyond the end of a list ends with it *)
End(s, n) == IF n <= Len(s) THEN n ELSE Len(s)

IsSlice(t, S, s, m, n) ==
  /\ t \in Seq(S)
  /\ Len(t) = IF m <= End(s, n) THEN End(s, n) - m + 1 ELSE 0
  /\ \A i \in 1..(End(s, n) - m + 1) : t[i] = s[m + i - 1]

LEMMA SliceIs ==
  ASSUME NEW S, NEW s \in Seq(S), NEW m \in Nat \ {0}, NEW n \in Nat
  PROVE  IsSlice(Slice(s, m, n), S, s, m, n)
<1> DEFINE k == End(s, n)
<1>1. Len(s) \in Nat /\ k \in Nat /\ k <= n /\ k <= Len(s)
      /\ k \in {n, Len(s)} /\ (n <= Len(s) => k = n) /\ (~(n <= Len(s)) => k = Len(s))
  BY DEF End
<1> HIDE DEF k
<1>2. Min({n, Len(s)}) = k
  <2>1. {n, Len(s)} \in SUBSET Nat /\ {n, Len(s)} # {}
    BY <1>1
  <2>2. Min({n, Len(s)}) \in {n, Len(s)}
        /\ \A x \in {n, Len(s)} : Min({n, Len(s)}) <= x
    BY <2>1, MinIsLeast
  <2> QED BY <1>1, <2>2
<1>3. \A i \in m..k : s[i] \in S
  BY <1>1
<1>4. m \in Int /\ k \in Int
  BY <1>1
<1>5. Slice(s, m, n) = SubSeq(s, m, k)
  BY <1>2 DEF Slice
<1>6. /\ SubSeq(s, m, k) \in Seq(S)
      /\ Len(SubSeq(s, m, k)) = IF m <= k THEN k - m + 1 ELSE 0
      /\ \A i \in 1..(k - m + 1) : SubSeq(s, m, k)[i] = s[m + i - 1]
  BY <1>3, <1>4, SubSeqProperties
<1> QED BY <1>5, <1>6 DEF IsSlice, k

LEMMA FirstSlice ==
  ASSUME NEW S, NEW s \in Seq(S), NEW n \in Nat \ {0}
  PROVE  /\ Slice(s, 1, n) \in Seq(S)
         /\ Len(Slice(s, 1, n)) = End(s, n)
         /\ s # <<>> => Slice(s, 1, n) # <<>> /\ Slice(s, 1, n)[1] = s[1]
<1> DEFINE k == End(s, n)
<1>1. PICK m \in Nat \ {0} : m = 1
  OBVIOUS
<1>2. n \in Nat
  OBVIOUS
<1>3. /\ Slice(s, m, n) \in Seq(S)
      /\ Len(Slice(s, m, n)) = IF m <= k THEN k - m + 1 ELSE 0
      /\ \A i \in 1..(k - m + 1) : Slice(s, m, n)[i] = s[m + i - 1]
  <2>1. IsSlice(Slice(s, m, n), S, s, m, n)
    BY <1>2, SliceIs
  <2> QED BY <2>1 DEF IsSlice
<1>4. k \in Nat /\ (s # <<>> => k > 0)
  BY DEF End
<1> HIDE DEF k
<1>5. Slice(s, 1, n) \in Seq(S) /\ Len(Slice(s, 1, n)) = k
  BY <1>1, <1>3, <1>4
<1>6. ASSUME s # <<>>
      PROVE  Slice(s, 1, n) # <<>> /\ Slice(s, 1, n)[1] = s[1]
  <2>1. 1 \in 1..(k - m + 1) /\ m + 1 - 1 = 1 /\ Len(Slice(s, 1, n)) > 0
    BY <1>1, <1>4, <1>5, <1>6
  <2>2. Slice(s, m, n)[1] = s[1]
    BY <1>3, <2>1
  <2> QED BY <1>1, <1>5, <2>1, <2>2
<1> QED BY <1>5, <1>6 DEF k
-----------------------------------------------------------------------------
(* What is made of finitely many things is finite *)
LEMMA ImageIsFinite ==
  ASSUME NEW S, IsFiniteSet(S), NEW f
  PROVE  IsFiniteSet({f[x] : x \in S})
<1> DEFINE T == {f[x] : x \in S}
           g == [x \in S |-> f[x]]
<1>1. g \in [S -> T] /\ \A t \in T : \E x \in S : g[x] = t
  OBVIOUS
<1> HIDE DEF g, T
<1>2. g \in Surjection(S, T)
  BY <1>1, Fun_IsSurj
<1>3. IsFiniteSet(T)
  BY <1>2, FS_Surjection
<1> QED BY <1>3 DEF T

(* A tree has finitely many changes *)
LEMMA TreeIsFinite ==
  ASSUME NEW h, IsHistory(h), NEW c \in Commit(h)
  PROVE  IsFiniteSet(Tree(h, c))
<1>1. IsFiniteSet(Commit(h)) /\ Ancestors(h)[c] \in SUBSET Commit(h)
  <2>1. Len(h.parents) \in Nat /\ Commit(h) = 1..Len(h.parents)
    BY DEF IsHistory, Commit
  <2>2. IsFiniteSet(1..Len(h.parents))
    BY <2>1, FS_Interval
  <2>3. Ancestors(h)[c] \subseteq Commit(h)
    BY AncestorsClosed DEF IsClosed
  <2> QED BY <2>1, <2>2, <2>3
<1>2. IsFiniteSet(Ancestors(h)[c])
  BY <1>1, FS_Subset
<1>3. IsFiniteSet({h.change[x] : x \in Ancestors(h)[c]})
  BY <1>2, ImageIsFinite
<1>4. Tree(h, c) \in SUBSET {h.change[x] : x \in Ancestors(h)[c]}
  BY DEF Tree
<1> QED BY <1>3, <1>4, FS_Subset

(* The questions begin with the exact matches, if there are any *)
LEMMA QuestionsAre ==
  ASSUME NEW S, NEW list, IsList(list, S), NEW commit_id, NEW text,
         MaxPrompts \in Nat \ {0},
         NEW asked \in Questions(list, commit_id, text)
  PROVE  LET exact == ExactMatches(list, commit_id, text)
         IN  /\ asked \in Seq(S)
             /\ exact # <<>> => asked # <<>> /\ asked[1] = exact[1]
<1> DEFINE exact == ExactMatches(list, commit_id, text)
           fuzzy == FuzzyMatches(list, commit_id, text) \ ToSet(exact)
<1>1. PICK others \in SetToSeqs(fuzzy) :
        asked = Slice(exact \o others, 1, MaxPrompts)
  BY DEF Questions
<1>2. exact \in Seq(S)
  BY ExactMatchesAre
<1>3. fuzzy \subseteq S /\ IsFiniteSet(fuzzy)
  <2> DEFINE ids == [i \in DOMAIN list |-> list[i].id]
             T == {ids[i] : i \in DOMAIN list}
  <2>1. IsFiniteSet(DOMAIN list)
    BY FS_Interval DEF IsList
  <2>2. fuzzy \in SUBSET T /\ T \subseteq S
    BY DEF FuzzyMatches, IsList
  <2> HIDE DEF fuzzy, ids
  <2>3. IsFiniteSet(T)
    BY <2>1, ImageIsFinite
  <2> HIDE DEF T
  <2> QED BY <2>2, <2>3, FS_Subset
<1>4. others \in Seq(S)
  <2>1. others \in [1..Cardinality(fuzzy) -> fuzzy]
    BY DEF SetToSeqs
  <2>2. Cardinality(fuzzy) \in Nat
    BY <1>3, FS_CardinalityType
  <2> HIDE DEF fuzzy
  <2> QED BY <1>3, <2>1, <2>2
<1> HIDE DEF exact, fuzzy
<1> DEFINE both == exact \o others
<1>5. both \in Seq(S) /\ (exact # <<>> => both # <<>> /\ both[1] = exact[1])
  BY <1>2, <1>4, ConcatSet
<1>6. asked = Slice(both, 1, MaxPrompts)
  BY <1>1
<1> HIDE DEF both
<1>7. MaxPrompts \in Nat \ {0} /\ both \in Seq(S)
  BY <1>5
<1>8. /\ asked \in Seq(S)
      /\ both # <<>> => asked # <<>> /\ asked[1] = both[1]
  BY <1>6, <1>7, FirstSlice
<1> QED BY <1>5, <1>8 DEF exact
=============================================================================
