-------------------------- MODULE SelectionProofs ---------------------------
(***************************************************************************)
(* Theorems about choosing from sequences by position.                     *)
(***************************************************************************)
EXTENDS Selection, FiniteSetTheorems, SequenceTheorems, WellFoundedInduction, TLAPS

\* Of several numbers there is a lowest.
THEOREM LowestIsLeast ==
    ASSUME NEW S \in SUBSET Nat, S # {}
    PROVE  Lowest(S) \in S /\ \A m \in S : Lowest(S) <= m
  <1> DEFINE Less == {ss \in Nat \X Nat : ss[1] < ss[2]}
  <1>1. IsWellFoundedOn(Less, Nat)
    <2>1. OpToRel(<, Nat) = Less
      BY Zenon DEF OpToRel
    <2>2. QED
      BY Zenon, NatLessThanWellFounded, <2>1
  <1> HIDE DEF Less
  <1>2. PICK p \in S : \A q \in S : ~ (<<q, p>> \in Less)
    BY <1>1, WFMin
  <1>3. \A q \in S : p <= q
    <2> SUFFICES ASSUME NEW q \in S PROVE p <= q
      OBVIOUS
    <2>1. p \in Nat /\ q \in Nat /\ <<q, p>> \notin Less
      BY <1>2
    <2>2. ~ (q < p)
      BY <2>1, Zenon DEF Less
    <2>3. QED
      BY <2>1, <2>2
  <1>4. QED
    BY <1>3 DEF Lowest

-----------------------------------------------------------------------------
(***************************************************************************)
(* The members of a finite set in ascending order.                         *)
(***************************************************************************)

\* How many numbers of a set are below one of them tells them apart.
LEMMA BelowGrows ==
    ASSUME NEW S \in SUBSET Int, IsFiniteSet(S), NEW m \in S, NEW n \in S, m < n
    PROVE  Cardinality(Below(S, m)) < Cardinality(Below(S, n))
  <1>1. Below(S, n) \in SUBSET S /\ Below(S, m) \in SUBSET Below(S, n)
    <2>1. \A k \in S : k < m => k < n
      OBVIOUS
    <2>2. QED
      BY <2>1, Zenon DEF Below
  <1>2. IsFiniteSet(Below(S, n))
    BY <1>1, FS_Subset
  <1>3. IsFiniteSet(Below(S, m)) /\ Cardinality(Below(S, m)) <= Cardinality(Below(S, n))
    BY <1>1, <1>2, FS_Subset
  <1>4. m \in Below(S, n) /\ m \notin Below(S, m)
    BY DEF Below
  <1>5. Cardinality(Below(S, m)) # Cardinality(Below(S, n))
    BY <1>1, <1>2, <1>4, FS_Subset
  <1>6. Cardinality(Below(S, m)) \in Nat /\ Cardinality(Below(S, n)) \in Nat
    BY <1>2, <1>3, FS_CardinalityType
  <1>7. QED
    BY <1>3, <1>5, <1>6

\* Every place in the order is some member's.
LEMMA PlacesAreTaken ==
    ASSUME NEW S \in SUBSET Int, IsFiniteSet(S)
    PROVE  /\ \A m \in S : Cardinality(Below(S, m)) + 1 \in 1..Cardinality(S)
           /\ \A n \in 1..Cardinality(S) : \E m \in S : Cardinality(Below(S, m)) = n - 1
  <1> DEFINE places == 0..(Cardinality(S) - 1)
             place == [m \in S |-> Cardinality(Below(S, m))]
  <1>1. Cardinality(S) \in Nat
    BY FS_CardinalityType
  <1>2. ASSUME NEW m \in S
        PROVE  Cardinality(Below(S, m)) \in places
    <2>1. Below(S, m) \in SUBSET S /\ Below(S, m) # S
      BY DEF Below
    <2>2. IsFiniteSet(Below(S, m)) /\ Cardinality(Below(S, m)) <= Cardinality(S)
      BY <2>1, FS_Subset
    <2>3. Cardinality(Below(S, m)) # Cardinality(S)
      BY <2>1, FS_Subset
    <2>4. Cardinality(Below(S, m)) \in Nat
      BY <2>2, FS_CardinalityType
    <2>5. QED
      BY <1>1, <2>2, <2>3, <2>4
  <1>3. \A m, n \in S : place[m] = place[n] => m = n
    <2>1. SUFFICES ASSUME NEW m \in S, NEW n \in S, m < n
                   PROVE  place[m] # place[n]
      OBVIOUS
    <2>2. Cardinality(Below(S, m)) < Cardinality(Below(S, n))
      BY <2>1, BelowGrows
    <2>3. Cardinality(Below(S, m)) \in Int /\ Cardinality(Below(S, n)) \in Int
      BY <1>2
    <2>4. QED
      BY <2>2, <2>3
  <1>4. IsFiniteSet(places) /\ Cardinality(places) = Cardinality(S)
    BY <1>1, FS_Interval
  <1>5. place \in Injection(S, places)
    <2>1. place \in [S -> places]
      BY <1>2
    <2> HIDE DEF place, places
    <2>2. QED
      BY <1>3, <2>1 DEF Injection, IsInjective
  <1>6. place \in Surjection(S, places)
    BY <1>4, <1>5, FS_Injection
  <1>7. \A n \in 1..Cardinality(S) : \E m \in S : Cardinality(Below(S, m)) = n - 1
    <2>1. SUFFICES ASSUME NEW n \in 1..Cardinality(S)
                   PROVE  \E m \in S : Cardinality(Below(S, m)) = n - 1
      OBVIOUS
    <2>2. n - 1 \in places
      BY <1>1
    <2>3. \E m \in S : place[m] = n - 1
      BY <1>6, <2>2 DEF Surjection
    <2>4. QED
      BY <2>3
  <1>8. \A m \in S : Cardinality(Below(S, m)) + 1 \in 1..Cardinality(S)
    BY <1>1, <1>2
  <1>9. QED
    BY <1>7, <1>8

\* Ascending lists the members of a set, each at the place that is its own.
THEOREM AscendingLists ==
    ASSUME NEW S \in SUBSET Int, IsFiniteSet(S)
    PROVE  /\ Ascending(S) \in Seq(S)
           /\ Len(Ascending(S)) = Cardinality(S)
           /\ \A n \in 1..Cardinality(S) :
                Ascending(S)[n] \in S /\ Cardinality(Below(S, Ascending(S)[n])) = n - 1
           /\ \A m \in S : /\ Cardinality(Below(S, m)) + 1 \in 1..Cardinality(S)
                           /\ Ascending(S)[Cardinality(Below(S, m)) + 1] = m
  <1> DEFINE order == Ascending(S)
  <1>1. Cardinality(S) \in Nat
    BY FS_CardinalityType
  <1>2. /\ DOMAIN order = 1..Cardinality(S)
        /\ \A n \in 1..Cardinality(S) :
             order[n] \in S /\ Cardinality(Below(S, order[n])) = n - 1
    BY PlacesAreTaken DEF Ascending
  <1>3. order = [n \in 1..Cardinality(S) |-> order[n]]
    BY DEF Ascending
  <1> HIDE DEF order
  <1>4. order \in Seq(S) /\ Len(order) = Cardinality(S)
    BY <1>1, <1>2, <1>3
  <1>5. ASSUME NEW m \in S
        PROVE  order[Cardinality(Below(S, m)) + 1] = m
    <2> DEFINE n == Cardinality(Below(S, m)) + 1
    <2>1. n \in 1..Cardinality(S)
      BY PlacesAreTaken
    <2>2. order[n] \in S /\ Cardinality(Below(S, order[n])) = n - 1
      BY <1>2, <2>1
    <2>3. Cardinality(Below(S, m)) \in Int
      <3>1. Below(S, m) \in SUBSET S
        BY DEF Below
      <3>2. QED
        BY <3>1, FS_Subset, FS_CardinalityType
    <2>4. Cardinality(Below(S, order[n])) = Cardinality(Below(S, m))
      BY <2>2, <2>3
    <2> HIDE DEF n
    <2>5. ASSUME NEW a \in S, NEW b \in S, a < b
          PROVE  Cardinality(Below(S, a)) # Cardinality(Below(S, b))
      <3>1. Below(S, a) \in SUBSET S /\ Below(S, b) \in SUBSET S
        BY Zenon DEF Below
      <3>2. Cardinality(Below(S, a)) \in Nat /\ Cardinality(Below(S, b)) \in Nat
        BY <3>1, FS_Subset, FS_CardinalityType
      <3>3. Cardinality(Below(S, a)) < Cardinality(Below(S, b))
        BY <2>5, BelowGrows
      <3>4. QED
        BY <3>2, <3>3
    <2>6. ~ (order[n] < m) /\ ~ (m < order[n])
      BY <2>2, <2>4, <2>5
    <2>7. order[n] \in Int /\ m \in Int
      BY <2>2
    <2>8. order[n] = m
      BY <2>6, <2>7
    <2>9. QED
      BY <2>8 DEF n
  <1>6. QED
    BY <1>2, <1>4, <1>5, PlacesAreTaken DEF order

\* Of finitely many numbers there is a highest.
THEOREM HighestIsGreatest ==
    ASSUME NEW S \in SUBSET Int, IsFiniteSet(S), S # {}
    PROVE  Highest(S) \in S /\ \A m \in S : m <= Highest(S)
  <1>1. Cardinality(S) \in Nat /\ Cardinality(S) # 0
    BY FS_CardinalityType, FS_EmptySet
  <1>2. PICK h \in S : Cardinality(Below(S, h)) = Cardinality(S) - 1
    BY <1>1, PlacesAreTaken
  <1>3. Below(S, h) \in SUBSET S /\ h \notin Below(S, h)
    BY DEF Below
  <1>4. IsFiniteSet(Below(S, h))
    BY <1>3, FS_Subset
  <1>5. Cardinality(Below(S, h) \cup {h}) = Cardinality(S)
    <2>1. Cardinality(Below(S, h) \cup {h}) = Cardinality(Below(S, h)) + 1
      BY <1>3, <1>4, FS_AddElement
    <2>2. QED
      BY <1>1, <1>2, <2>1
  <1>6. Below(S, h) \cup {h} \in SUBSET S
    BY <1>3
  <1>7. Below(S, h) \cup {h} = S
    BY <1>5, <1>6, FS_Subset
  <1>8. \A m \in S : m <= h
    BY <1>7 DEF Below
  <1>9. QED
    BY <1>8 DEF Highest

-----------------------------------------------------------------------------
(***************************************************************************)
(* What is selected from a sequence.                                       *)
(***************************************************************************)

\* Selecting keeps the members at the positions, and the first of them first.
THEOREM SelectKeeps ==
    ASSUME NEW V, NEW s \in Seq(V), NEW T \in SUBSET DOMAIN s
    PROVE  /\ IsFiniteSet(T) /\ T \in SUBSET Nat
           /\ Select(s, T) \in Seq(V)
           /\ Len(Select(s, T)) = Cardinality(T)
           /\ \A n \in DOMAIN Select(s, T) : \E t \in T : Select(s, T)[n] = s[t]
           /\ \A t \in T : \E n \in DOMAIN Select(s, T) : Select(s, T)[n] = s[t]
           /\ Select(s, T) = <<>> <=> T = {}
           /\ T # {} => Select(s, T)[1] = s[Lowest(T)]
  <1> DEFINE order == Ascending(T)
             picked == Select(s, T)
  <1>1. IsFiniteSet(T) /\ T \in SUBSET Nat /\ T \in SUBSET Int
    <2>1. DOMAIN s = 1..Len(s) /\ Len(s) \in Nat
      BY LenProperties
    <2>2. IsFiniteSet(DOMAIN s)
      BY <2>1, FS_Interval
    <2>3. QED
      BY <2>1, <2>2, FS_Subset
  <1>2. Cardinality(T) \in Nat
    BY <1>1, FS_CardinalityType
  <1>3. /\ \A n \in 1..Cardinality(T) :
             order[n] \in T /\ Cardinality(Below(T, order[n])) = n - 1
        /\ \A m \in T : /\ Cardinality(Below(T, m)) + 1 \in 1..Cardinality(T)
                        /\ order[Cardinality(Below(T, m)) + 1] = m
    BY <1>1, AscendingLists
  <1> HIDE DEF order
  <1>4. picked = [n \in 1..Cardinality(T) |-> s[order[n]]]
    BY DEF Select, order
  <1> HIDE DEF picked
  <1>5. \A t \in T : s[t] \in V
    BY ElementOfSeq
  <1>6. picked \in Seq(V) /\ Len(picked) = Cardinality(T) /\ DOMAIN picked = 1..Cardinality(T)
    BY <1>2, <1>3, <1>4, <1>5
  <1>7. \A n \in DOMAIN picked : \E t \in T : picked[n] = s[t]
    BY <1>3, <1>4
  <1>8. \A t \in T : \E n \in DOMAIN picked : picked[n] = s[t]
    <2>1. SUFFICES ASSUME NEW t \in T
                   PROVE  \E n \in DOMAIN picked : picked[n] = s[t]
      OBVIOUS
    <2> DEFINE n == Cardinality(Below(T, t)) + 1
    <2>2. n \in 1..Cardinality(T) /\ order[n] = t
      BY <1>3
    <2> HIDE DEF n
    <2>3. QED
      BY <1>4, <1>6, <2>2
  <1>9. picked = <<>> <=> T = {}
    <2>1. picked = <<>> <=> Len(picked) = 0
      BY <1>6
    <2>2. Cardinality(T) = 0 <=> T = {}
      BY <1>1, FS_EmptySet
    <2>3. QED
      BY <1>6, <2>1, <2>2
  <1>10. ASSUME T # {}
         PROVE  picked[1] = s[Lowest(T)]
    <2> DEFINE low == Lowest(T)
    <2>1. low \in T /\ \A m \in T : low <= m
      BY <1>1, <1>10, LowestIsLeast
    <2> HIDE DEF low
    <2>2. Below(T, low) = {}
      BY <1>1, <2>1 DEF Below
    <2>3. Cardinality(Below(T, low)) + 1 = 1
      BY <2>2, FS_EmptySet
    <2>4. 1 \in 1..Cardinality(T) /\ order[1] = low
      BY <1>3, <2>1, <2>3
    <2>5. QED
      BY <1>4, <2>4 DEF low
  <1>11. QED
    BY <1>1, <1>6, <1>7, <1>8, <1>9, <1>10 DEF picked

=============================================================================
