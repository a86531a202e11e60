------------------------------ MODULE LruOrder ------------------------------
(***************************************************************************)
(* What files sorted by mtime and an OrderedDict used as an LRU have in    *)
(* common: which of their members was used no later than which.  An order  *)
(* is the set of these pairs; every member is in the pair with itself.     *)
(***************************************************************************)
EXTENDS Naturals, FiniteSetTheorems, WellFoundedInduction, TLAPS

\* The members of an order.
In(order) == {p[1] : p \in order}

IsOrder(order, T) ==
    /\ order \subseteq T \X T
    /\ \A x, y \in T : <<x, y>> \in order \/ <<y, x>> \in order
    /\ \A x, y \in T : <<x, y>> \in order /\ <<y, x>> \in order => x = y
    /\ \A x, y, z \in T : <<x, y>> \in order /\ <<y, z>> \in order => <<x, z>> \in order

\* The order of what stays when the members of T go.
Without(order, T) == {p \in order : p[1] \notin T /\ p[2] \notin T}

\* Old members and new ones, used in the order of new after all the others.
Then(order, new) ==
    LET T == In(new) IN Without(order, T) \cup ((In(order) \ T) \X T) \cup new

\* move_to_end() of one member, or its insertion.
Used(order, x) == Then(order, {<<x, x>>})

\* The least recently used member: none of an empty order, else one.
Oldest(order) == {x \in In(order) : \A y \in In(order) : <<x, y>> \in order}

\* What popitem(last=False) takes from one with n members or one more.
Surplus(order, n) == IF Cardinality(In(order)) <= n THEN {} ELSE Oldest(order)

\* The members used after x.
After(order, x) == {y \in In(order) \ {x} : <<x, y>> \in order}

-----------------------------------------------------------------------------
LEMMA OrderIsOf ==
    ASSUME NEW T, NEW o, IsOrder(o, T)
    PROVE  In(o) = T /\ IsOrder(o, In(o))
<1>1. \A x \in T : <<x, x>> \in o /\ <<x, x>>[1] = x
  BY DEF IsOrder
<1>2. T \subseteq In(o)
  BY <1>1 DEF In
<1>3. \A p \in o : p[1] \in T
  BY DEF IsOrder
<1>4. In(o) = T
  BY <1>2, <1>3 DEF In
<1>5. QED
  BY <1>4

LEMMA NoOrder == IsOrder({}, {}) /\ In({}) = {}
BY DEF IsOrder, In

LEMMA OrderOfOne ==
    ASSUME NEW x
    PROVE  IsOrder({<<x, x>>}, {x}) /\ In({<<x, x>>}) = {x}
BY DEF IsOrder, In

\* What stays keeps its order.
LEMMA WithoutIsOrder ==
    ASSUME NEW order, NEW S, IsOrder(order, S), NEW T
    PROVE  IsOrder(Without(order, T), S \ T) /\ In(Without(order, T)) = S \ T
<1>1. IsOrder(Without(order, T), S \ T)
  <2>1. \A x, y \in S \ T : <<x, y>> \in Without(order, T) <=> <<x, y>> \in order
    BY DEF Without
  <2>2. Without(order, T) \subseteq (S \ T) \X (S \ T)
    BY DEF IsOrder, Without
  <2>3. QED
    BY <2>1, <2>2 DEF IsOrder
<1>2. QED
  BY <1>1, OrderIsOf

\* What is used comes last, in the order of its use.
LEMMA ThenIsOrder ==
    ASSUME NEW order, NEW S, IsOrder(order, S), NEW new, NEW T, IsOrder(new, T)
    PROVE  IsOrder(Then(order, new), S \cup T) /\ In(Then(order, new)) = S \cup T
<1> DEFINE old == Without(order, T)
           rest == S \ T
           all == S \cup T
           o == Then(order, new)
<1>1. o = old \cup (rest \X T) \cup new
  BY OrderIsOf DEF Then
<1>2. IsOrder(old, rest)
  BY WithoutIsOrder
<1>3. IsOrder(o, all)
  <2>1. rest \cup T = all /\ rest \cap T = {}
    OBVIOUS
  <2> HIDE DEF old, rest, all, o
  <2>2. \A x, y \in all : <<x, y>> \in o <=>
            \/ x \in rest /\ y \in rest /\ <<x, y>> \in old
            \/ x \in rest /\ y \in T
            \/ x \in T /\ y \in T /\ <<x, y>> \in new
    BY <1>1, <1>2 DEF IsOrder
  <2>3. o \subseteq all \X all
    BY <1>1, <1>2, <2>1 DEF IsOrder
  <2>4. \A x, y \in all : <<x, y>> \in o \/ <<y, x>> \in o
    BY <1>2, <2>1, <2>2 DEF IsOrder
  <2>5. \A x, y \in all : <<x, y>> \in o /\ <<y, x>> \in o => x = y
    BY <1>2, <2>1, <2>2 DEF IsOrder
  <2>6. \A x, y, z \in all : <<x, y>> \in o /\ <<y, z>> \in o => <<x, z>> \in o
    BY <1>2, <2>1, <2>2 DEF IsOrder
  <2>7. QED
    BY <2>3, <2>4, <2>5, <2>6 DEF IsOrder
<1>4. QED
  BY <1>3, OrderIsOf

LEMMA UsedIsOrder ==
    ASSUME NEW order, NEW S, IsOrder(order, S), NEW x
    PROVE  IsOrder(Used(order, x), S \cup {x}) /\ In(Used(order, x)) = S \cup {x}
<1>1. IsOrder({<<x, x>>}, {x})
  BY OrderOfOne
<1>2. QED
  BY <1>1, ThenIsOrder DEF Used

\* Finitely many members have a least recently used one: one with as few
\* members before it as there can be.
LEMMA OldestExists ==
    ASSUME NEW order, NEW S, IsOrder(order, S), IsFiniteSet(S), S # {}
    PROVE  \E x \in S : Oldest(order) = {x}
<1> DEFINE before(x) == {y \in S : <<y, x>> \in order}
           count(x) == Cardinality(before(x))
           counts == {count(x) : x \in S}
<1>1. \A x \in S : IsFiniteSet(before(x)) /\ count(x) \in Nat
  BY FS_Subset, FS_CardinalityType
<1>2. counts \subseteq Nat /\ counts # {}
  BY <1>1
<1>3. PICK n \in counts : \A m \in counts : ~(m < n)
  <2>1. IsWellFoundedOn(OpToRel(<, Nat), Nat)
    BY NatLessThanWellFounded
  <2>2. PICK n \in counts : \A m \in counts : <<m, n>> \notin OpToRel(<, Nat)
    BY <1>2, <2>1, WFMin
  <2>3. QED
    BY <1>2, <2>2 DEF OpToRel
<1>4. PICK x \in S : n = count(x)
  OBVIOUS
<1>5. \A y \in S : <<x, y>> \in order
  <2>1. SUFFICES ASSUME NEW y \in S, <<x, y>> \notin order PROVE FALSE
    OBVIOUS
  <2>2. <<y, x>> \in order /\ <<x, x>> \in order
    BY <2>1 DEF IsOrder
  <2>3. before(y) \subseteq before(x) /\ x \in before(x) /\ x \notin before(y)
    BY <2>1, <2>2 DEF IsOrder
  <2>4. count(y) < count(x)
    <3>1. before(y) \in SUBSET before(x) /\ before(y) # before(x)
      BY <2>3
    <3> HIDE DEF before
    <3>2. count(y) <= count(x) /\ count(y) # count(x)
      BY <1>1, <3>1, FS_Subset
    <3>3. QED
      BY <1>1, <3>2
  <2>5. QED
    BY <1>3, <1>4, <2>4
<1>6. In(order) = S
  BY OrderIsOf
<1>7. Oldest(order) = {x}
  <2>1. Oldest(order) = {y \in S : \A z \in S : <<y, z>> \in order}
    BY <1>6 DEF Oldest
  <2>2. \A y \in S : <<y, x>> \in order => y = x
    BY <1>5 DEF IsOrder
  <2>3. QED
    BY <1>5, <2>1, <2>2
<1>8. QED
  BY <1>7

\* What is used is last; the others stay as they were.
LEMMA UsedIsLast ==
    ASSUME NEW order, NEW S, IsOrder(order, S), NEW x
    PROVE  /\ \A y \in S \cup {x} : <<y, x>> \in Used(order, x)
           /\ \A y, z \in S \ {x} : <<y, z>> \in Used(order, x) <=> <<y, z>> \in order
<1>1. In({<<x, x>>}) = {x} /\ In(order) = S
  BY OrderOfOne, OrderIsOf
<1>2. Used(order, x) = Without(order, {x}) \cup ((S \ {x}) \X {x}) \cup {<<x, x>>}
  BY <1>1 DEF Used, Then
<1>3. QED
  BY <1>2 DEF Without

\* Without its oldest member an order is one shorter.
LEMMA WithoutOldest ==
    ASSUME NEW order, NEW S, IsOrder(order, S), IsFiniteSet(S), S # {}
    PROVE  \E x \in S :
               /\ Oldest(order) = {x}
               /\ \A y \in S : <<x, y>> \in order
               /\ IsOrder(Without(order, Oldest(order)), S \ {x})
               /\ In(Without(order, Oldest(order))) = S \ {x}
               /\ IsFiniteSet(S \ {x}) /\ Cardinality(S \ {x}) = Cardinality(S) - 1
<1>1. PICK x \in S : Oldest(order) = {x}
  BY OldestExists
<1>2. \A y \in S : <<x, y>> \in order
  BY <1>1, OrderIsOf DEF Oldest
<1>3. IsFiniteSet(S \ {x}) /\ Cardinality(S \ {x}) = Cardinality(S) - 1
  BY FS_RemoveElement
<1>4. IsOrder(Without(order, {x}), S \ {x}) /\ In(Without(order, {x})) = S \ {x}
  BY WithoutIsOrder
<1>5. QED
  BY <1>1, <1>2, <1>3, <1>4

\* Using once more what was used last changes nothing.
LEMMA UsedTwice ==
    ASSUME NEW order, NEW S, IsOrder(order, S), NEW x \in S, \A y \in S : <<y, x>> \in order
    PROVE  Used(order, x) = order
<1>1. IsOrder(Used(order, x), S)
  <2>1. S \cup {x} = S
    OBVIOUS
  <2>2. QED
    BY <2>1, UsedIsOrder
<1>2. \A y, z \in S : <<y, z>> \in Used(order, x) <=> <<y, z>> \in order
  <2>1. \A y \in S : <<y, x>> \in Used(order, x)
    BY UsedIsLast
  <2>2. \A z \in S : z # x => <<x, z>> \notin Used(order, x) /\ <<x, z>> \notin order
    BY <1>1, <2>1 DEF IsOrder
  <2>3. \A y, z \in S \ {x} : <<y, z>> \in Used(order, x) <=> <<y, z>> \in order
    BY UsedIsLast
  <2>4. QED
    BY <2>1, <2>2, <2>3
<1>3. QED
  BY <1>1, <1>2 DEF IsOrder

\* An LRU of at most n members one of which was just used: when its surplus
\* goes, those that stay are the ones that fewer than n were used after.
LEMMA SurplusGoes ==
    ASSUME NEW n \in Nat \ {0}, NEW order, NEW S, IsOrder(order, S), IsFiniteSet(S), Cardinality(S) <= n + 1,
           NEW x \in S, \A y \in S : <<y, x>> \in order
    PROVE  \E stay \in SUBSET S :
               /\ stay = S \ Surplus(order, n) /\ x \in stay
               /\ IsOrder(Without(order, Surplus(order, n)), stay)
               /\ IsFiniteSet(stay) /\ Cardinality(stay) <= n
               /\ \A y \in S : y \in stay <=> Cardinality(After(order, y)) < n
               /\ \A y \in stay : After(order, y) \subseteq stay
<1> DEFINE stay == S \ Surplus(order, n)
<1>1. Cardinality(S) \in Nat /\ Cardinality(S) # 0 /\ In(order) = S
  BY FS_CardinalityType, FS_EmptySet, OrderIsOf
<1>2. \A y \in S : After(order, y) \in SUBSET (S \ {y})
  BY <1>1 DEF After
<1>3. \A y \in S : IsFiniteSet(S \ {y}) /\ Cardinality(S \ {y}) = Cardinality(S) - 1
  BY FS_RemoveElement
<1>4. IsOrder(Without(order, Surplus(order, n)), stay)
  BY WithoutIsOrder
<1>5. CASE Cardinality(S) <= n
  <2>1. Surplus(order, n) = {} /\ stay = S
    BY <1>1, <1>5 DEF Surplus
  <2>2. \A y \in S : Cardinality(After(order, y)) < n
    <3>1. SUFFICES ASSUME NEW y \in S PROVE Cardinality(After(order, y)) < n
      OBVIOUS
    <3>2. Cardinality(After(order, y)) \in Nat /\ Cardinality(After(order, y)) <= Cardinality(S) - 1
      BY <1>2, <1>3, FS_Subset, FS_CardinalityType
    <3>3. QED
      BY <1>1, <1>5, <3>2
  <2>3. QED
    BY <1>2, <1>4, <1>5, <2>1, <2>2
<1>6. CASE ~(Cardinality(S) <= n)
  <2>1. Cardinality(S) = n + 1 /\ S # {}
    BY <1>1, <1>6
  <2>2. PICK old \in S : Oldest(order) = {old} /\ \A y \in S : <<old, y>> \in order
    BY <2>1, WithoutOldest
  <2>3. Surplus(order, n) = {old} /\ stay = S \ {old}
    BY <1>1, <1>6, <2>2 DEF Surplus
  <2>4. IsFiniteSet(stay) /\ Cardinality(stay) = n
    BY <1>3, <2>1, <2>3
  <2>5. old # x
    <3>1. SUFFICES ASSUME old = x PROVE FALSE
      OBVIOUS
    <3>2. \A y \in S : y = x
      BY <2>2, <3>1 DEF IsOrder
    <3>3. stay = {}
      BY <2>3, <3>1, <3>2
    <3>4. QED
      BY <2>4, <3>3, FS_EmptySet
  <2>6. After(order, old) = stay
    BY <1>1, <2>2, <2>3 DEF After
  <2>7. \A y \in stay : After(order, y) \in SUBSET (stay \ {y})
    BY <1>1, <2>2, <2>3 DEF IsOrder, After
  <2>8. \A y \in stay : Cardinality(After(order, y)) < n
    <3>1. SUFFICES ASSUME NEW y \in stay PROVE Cardinality(After(order, y)) < n
      OBVIOUS
    <3> HIDE DEF stay
    <3>2. IsFiniteSet(stay \ {y}) /\ Cardinality(stay \ {y}) = n - 1
      BY <2>4, FS_RemoveElement
    <3>3. Cardinality(After(order, y)) \in Nat /\ Cardinality(After(order, y)) <= n - 1
      BY <2>7, <3>2, FS_Subset, FS_CardinalityType
    <3>4. QED
      BY <3>3
  <2>9. x \in stay /\ stay \in SUBSET S
    BY <2>3, <2>5
  <2> HIDE DEF stay
  <2>10. \A y \in S : y \in stay <=> Cardinality(After(order, y)) < n
    BY <2>2, <2>3, <2>4, <2>6, <2>8
  <2>11. Cardinality(stay) <= n /\ \A y \in stay : After(order, y) \subseteq stay
    BY <2>4, <2>7
  <2>12. stay = S \ Surplus(order, n)
    BY DEF stay
  <2>13. QED
    BY <1>4, <2>4, <2>9, <2>10, <2>11, <2>12
<1>7. QED
  BY <1>5, <1>6
=============================================================================
