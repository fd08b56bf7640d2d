---------------------------- MODULE WorkspaceProofs ----------------------------
(***************************************************************************)
(* Proofs about Workspace, for every tree, however mounts fold it.         *)
(***************************************************************************)
EXTENDS Workspace, LockProofs

-----------------------------------------------------------------------------
(***************************************************************************)
(* A finite set in a strict linear order: what Listed makes of it.         *)
(***************************************************************************)
Linear(S, R) ==
    /\ \A x \in S : <<x, x>> \notin R
    /\ \A x, y, z \in S : <<x, y>> \in R /\ <<y, z>> \in R => <<x, z>> \in R
    /\ \A x, y \in S : x = y \/ <<x, y>> \in R \/ <<y, x>> \in R

Below(S, R, x) == {y \in S : <<y, x>> \in R}

\* Each place in the order is taken by one member.
LEMMA PlacesTaken ==
    ASSUME NEW S, IsFiniteSet(S), NEW R, Linear(S, R)
    PROVE  /\ Cardinality(S) \in Nat
           /\ \A k \in 1..Cardinality(S) : \E x \in S : Cardinality(Below(S, R, x)) = k - 1
<1>. DEFINE before(x) == {y \in S : <<y, x>> \in R}
            n == Cardinality(S)
            place == [x \in S |-> Cardinality(before(x))]
            T == 0..(n - 1)
<1>1. n \in Nat
    BY FS_CardinalityType
<1>2. \A x \in S : IsFiniteSet(before(x)) /\ Cardinality(before(x)) \in Nat /\ Cardinality(before(x)) < n
  <2>. SUFFICES ASSUME NEW x \in S
                PROVE  IsFiniteSet(before(x)) /\ Cardinality(before(x)) \in Nat /\ Cardinality(before(x)) < n
      OBVIOUS
  <2>1. before(x) \subseteq S /\ before(x) # S
      BY DEF Linear
  <2>. HIDE DEF before
  <2>2. IsFiniteSet(before(x)) /\ Cardinality(before(x)) <= n /\ Cardinality(before(x)) # n
      BY <2>1, FS_Subset
  <2>3. Cardinality(before(x)) \in Nat
      BY <2>2, FS_CardinalityType
  <2>. HIDE DEF n
  <2>. QED
      BY <1>1, <2>2, <2>3
<1>3. \A x, y \in S : x # y => place[x] # place[y]
  <2>1. \A x, y \in S : <<x, y>> \in R => place[x] < place[y]
    <3>. SUFFICES ASSUME NEW x \in S, NEW y \in S, <<x, y>> \in R
                  PROVE  place[x] < place[y]
        OBVIOUS
    <3>1. before(x) \subseteq before(y) /\ x \in before(y) /\ x \notin before(x)
        BY DEF Linear
    <3>2. before(x) \subseteq before(y) /\ before(x) # before(y)
        BY <3>1
    <3>3. Cardinality(before(x)) < Cardinality(before(y))
      <4>. HIDE DEF before
      <4>. QED
          BY <1>2, <3>2, FS_Subset
    <3>. QED
        BY <3>3
  <2>2. \A x \in S : place[x] \in Nat
      BY <1>2
  <2>3. \A x, y \in S : place[x] < place[y] => place[x] # place[y]
    <3>. HIDE DEF place
    <3>. QED
        BY <2>2
  <2>4. \A x, y \in S : x # y => place[x] < place[y] \/ place[y] < place[x]
    <3>. HIDE DEF place
    <3>. QED
        BY <2>1, Zenon DEF Linear
  <2>. HIDE DEF place
  <2>. QED
      BY <2>3, <2>4, Zenon
<1>4. place \in Injection(S, T)
  <2>1. place \in [S -> T]
    <3>. HIDE DEF before, n
    <3>. QED
        BY <1>1, <1>2
  <2>. HIDE DEF place, T
  <2>. QED
      BY <1>3, <2>1 DEF Injection, IsInjective
<1>5. IsFiniteSet(T) /\ Cardinality(T) = n
  <2>. HIDE DEF n
  <2>. QED
      BY <1>1, FS_Interval
<1>6. place \in Surjection(S, T)
  <2>. HIDE DEF place, T
  <2>. QED
      BY <1>4, <1>5, FS_Injection
<1>7. \A k \in 1..n : \E x \in S : place[x] = k - 1
  <2>. SUFFICES ASSUME NEW k \in 1..n PROVE \E x \in S : place[x] = k - 1
      OBVIOUS
  <2>1. k - 1 \in T
      BY <1>1
  <2>. HIDE DEF place, T
  <2>. QED
      BY <1>6, <2>1 DEF Surjection
<1>8. \A x \in S : place[x] = Cardinality(Below(S, R, x))
    BY DEF Below
<1>. HIDE DEF place
<1>. QED
    BY <1>1, <1>7, <1>8

\* Who takes each place: two places are never taken by one.
LEMMA TakenOnce ==
    ASSUME NEW S, IsFiniteSet(S), NEW R, NEW L,
           DOMAIN L = 1..Cardinality(S), L = [k \in DOMAIN L |-> L[k]],
           \A k \in 1..Cardinality(S) : L[k] \in S /\ Cardinality(Below(S, R, L[k])) = k - 1
    PROVE  /\ L \in [1..Cardinality(S) -> S]
           /\ \A j, k \in 1..Cardinality(S) : L[j] = L[k] => j = k
<1>1. Cardinality(S) \in Nat
    BY FS_CardinalityType
<1>2. \A j, k \in 1..Cardinality(S) : L[j] = L[k] => j = k
  <2>. SUFFICES ASSUME NEW j \in 1..Cardinality(S), NEW k \in 1..Cardinality(S), L[j] = L[k]
                PROVE  j = k
      OBVIOUS
  <2>1. Cardinality(Below(S, R, L[j])) = j - 1 /\ Cardinality(Below(S, R, L[k])) = k - 1
      OBVIOUS
  <2>2. j - 1 = k - 1
      BY <2>1
  <2>. QED
      BY <1>1, <2>2
<1>. QED
    BY <1>2

\* Every member takes a place, and one that comes before another an earlier one.
LEMMA AllTaken ==
    ASSUME NEW S, IsFiniteSet(S), NEW R, Linear(S, R), NEW L, L \in [1..Cardinality(S) -> S],
           \A j, k \in 1..Cardinality(S) : L[j] = L[k] => j = k,
           \A k \in 1..Cardinality(S) : Cardinality(Below(S, R, L[k])) = k - 1
    PROVE  /\ \A x \in S : \E k \in 1..Cardinality(S) : L[k] = x
           /\ \A j, k \in 1..Cardinality(S) : <<L[j], L[k]>> \in R => j < k
<1>. DEFINE n == Cardinality(S)
            T == 1..n
<1>1. n \in Nat /\ IsFiniteSet(T) /\ Cardinality(T) = n
    BY FS_CardinalityType, FS_Interval
<1>2. L \in Surjection(T, S)
  <2>1. L \in Injection(T, S)
      BY DEF Injection, IsInjective
  <2>. HIDE DEF T
  <2>. QED
      BY <1>1, <2>1, FS_Injection
<1>3. \A x \in S : \E k \in T : L[k] = x
  <2>. HIDE DEF T
  <2>. QED
      BY <1>2 DEF Surjection
<1>4. SUFFICES ASSUME NEW j \in T, NEW k \in T, <<L[j], L[k]>> \in R PROVE j < k
    BY <1>3
<1>5. L[j] \in S /\ L[k] \in S
    OBVIOUS
<1>6. /\ Below(S, R, L[j]) \subseteq Below(S, R, L[k])
      /\ L[j] \in Below(S, R, L[k]) /\ L[j] \notin Below(S, R, L[j])
    BY <1>4, <1>5 DEF Linear, Below
<1>7. Below(S, R, L[j]) # Below(S, R, L[k])
    BY <1>6
<1>8. IsFiniteSet(Below(S, R, L[k]))
  <2>1. Below(S, R, L[k]) \subseteq S
      BY DEF Below
  <2>. QED
      BY <2>1, FS_Subset
<1>9. Cardinality(Below(S, R, L[j])) < Cardinality(Below(S, R, L[k]))
    BY <1>6, <1>7, <1>8, FS_Subset
<1>10. j - 1 < k - 1
    BY <1>9
<1>. QED
    BY <1>1, <1>10

\* A path comes before another, as a relation.
PathOrder == {pair \in Path \X Path : PlaceBefore(pair[1], pair[2])}

LEMMA PathsAreLinear == ASSUME NEW S, S \subseteq Path PROVE Linear(S, PathOrder)
<1>1. \A p, q \in S : <<p, q>> \in PathOrder <=> PlaceBefore(p, q)
    BY DEF PathOrder
<1>2. \A p \in S : ~PlaceBefore(p, p)
    BY BeforeIsStrict
<1>3. \A p, q, r \in S : PlaceBefore(p, q) /\ PlaceBefore(q, r) => PlaceBefore(p, r)
    BY BeforeIsTransitive
<1>4. \A p, q \in S : p = q \/ PlaceBefore(p, q) \/ PlaceBefore(q, p)
    BY BeforeIsTotal
<1>. QED
    BY <1>1, <1>2, <1>3, <1>4 DEF Linear

LEMMA WalkOrder ==
    ASSUME NEW S, IsFiniteSet(S), S \subseteq Path
    PROVE  /\ Cardinality(S) \in Nat /\ Len(InWalkOrder(S)) = Cardinality(S)
           /\ InWalkOrder(S) \in [1..Cardinality(S) -> S]
           /\ \A j, k \in 1..Cardinality(S) : InWalkOrder(S)[j] = InWalkOrder(S)[k] => j = k
           /\ \A p \in S : \E k \in 1..Cardinality(S) : InWalkOrder(S)[k] = p
           /\ \A j, k \in 1..Cardinality(S) : PlaceBefore(InWalkOrder(S)[j], InWalkOrder(S)[k]) => j < k
<1>. DEFINE n == Cardinality(S)
            L == InWalkOrder(S)
<1>1. Linear(S, PathOrder)
    BY PathsAreLinear
<1>2. \A k \in 1..n : \E x \in S : Cardinality(Below(S, PathOrder, x)) = k - 1
    BY <1>1, PlacesTaken
<1>3. \A x \in S : {y \in S : PlaceBefore(y, x)} = Below(S, PathOrder, x)
    BY DEF PathOrder, Below
<1>4. /\ L = [k \in 1..n |-> L[k]]
      /\ \A k \in 1..n : L[k] = CHOOSE x \in S : Cardinality({y \in S : PlaceBefore(y, x)}) = k - 1
  <2>. DEFINE taker(k) == CHOOSE x \in S : Cardinality({y \in S : PlaceBefore(y, x)}) = k - 1
  <2>1. L = [k \in 1..n |-> taker(k)]
      BY DEF InWalkOrder, Listed
  <2>2. L = [k \in 1..n |-> L[k]] /\ \A k \in 1..n : L[k] = taker(k)
    <3>. HIDE DEF taker, L, n
    <3>. QED
        BY <2>1
  <2>. QED
      BY <2>2
<1>5. \A k \in 1..n : L[k] \in S /\ Cardinality(Below(S, PathOrder, L[k])) = k - 1
  <2>. SUFFICES ASSUME NEW k \in 1..n PROVE L[k] \in S /\ Cardinality(Below(S, PathOrder, L[k])) = k - 1
      OBVIOUS
  <2>. DEFINE place(x) == Cardinality({y \in S : PlaceBefore(y, x)})
  <2>1. \E x \in S : place(x) = k - 1
      BY <1>2, <1>3
  <2>2. L[k] = CHOOSE x \in S : place(x) = k - 1
      BY <1>4
  <2>3. L[k] \in S /\ place(L[k]) = k - 1
    <3>. HIDE DEF place, L, n
    <3>. QED
        BY <2>1, <2>2
  <2>. QED
      BY <1>3, <2>3
<1>6. n \in Nat
    BY FS_CardinalityType
<1>7. DOMAIN L = 1..n /\ L = [k \in DOMAIN L |-> L[k]]
    BY <1>4
<1>8. L \in [1..n -> S] /\ \A j, k \in 1..n : L[j] = L[k] => j = k
  <2>. HIDE DEF L
  <2>. QED
      BY <1>5, <1>7, TakenOnce
<1>9. Len(L) = n
    BY <1>6, <1>8
<1>10. /\ \A p \in S : \E k \in 1..n : L[k] = p
       /\ \A j, k \in 1..n : <<L[j], L[k]>> \in PathOrder => j < k
  <2>. HIDE DEF L
  <2>. QED
      BY <1>1, <1>5, <1>8, AllTaken
<1>11. \A j, k \in 1..n : PlaceBefore(L[j], L[k]) => <<L[j], L[k]>> \in PathOrder
    BY <1>8 DEF PathOrder
<1>. QED
    BY <1>6, <1>8, <1>9, <1>10, <1>11

-----------------------------------------------------------------------------
(***************************************************************************)
(* The walk.                                                               *)
(***************************************************************************)
\* The directories entered when the walk has passed so many.
Passed(f) ==
    LET order == InWalkOrder(DOMAIN world.tree)
    IN  /\ f \in [0..Len(order) -> SUBSET DOMAIN world.tree]
        /\ f[0] = {}
        /\ \A k \in 1..Len(order) : f[k] = IF Enters(order[k], f[k - 1]) THEN f[k - 1] \cup {order[k]} ELSE f[k - 1]

LEMMA WalkedIsPassed ==
    ASSUME IsFiniteSet(DOMAIN world.tree), DOMAIN world.tree \subseteq Path
    PROVE  \E f : Passed(f) /\ Walked = f[Len(InWalkOrder(DOMAIN world.tree))]
<1>. DEFINE D == DOMAIN world.tree
            order == InWalkOrder(D)
            n == Len(order)
            grow(k, seen) == IF Enters(order[k], seen) THEN seen \cup {order[k]} ELSE seen
            body(f) == [k \in 0..n |-> IF k = 0 THEN {} ELSE grow(k, f[k - 1])]
            over == CHOOSE f : f = body(f)
            step == [c \in (1..n) \X SUBSET D |-> grow(c[1], c[2])]
<1>1. n \in Nat /\ \A k \in 1..n : order[k] \in D
    BY WalkOrder
<1>2. Walked = over[n]
    BY DEF Walked
<1>3. \A k \in 1..n : \A seen \in SUBSET D : grow(k, seen) \in SUBSET D
    BY <1>1
<1>4. step \in [(1..n) \X SUBSET D -> SUBSET D]
  <2>. HIDE DEF grow, n, order
  <2>. QED
      BY <1>3
<1>5. \A k \in 1..n : \A seen \in SUBSET D : step[<<k, seen>>] = grow(k, seen)
  <2>. HIDE DEF grow, n, order
  <2>. QED
      OBVIOUS
<1>6. PICK f \in [0..n -> SUBSET D] : f[0] = {} /\ \A k \in 1..n : f[k] = step[<<k, f[k - 1]>>]
  <2>. DEFINE T == SUBSET D
              none == {}
  <2>1. none \in T /\ step \in [(1..n) \X T -> T]
      BY <1>4
  <2>. HIDE DEF step, n, T, none
  <2>2. \E f : Steps(f, n, T, none, step)
      BY <1>1, <2>1, StepByStep
  <2>. QED
      BY <2>2 DEF T, none, Steps
<1>7. f = body(f)
  <2>1. \A k \in 1..n : f[k - 1] \in SUBSET D
      BY <1>1, <1>6
  <2>2. \A k \in 0..n : f[k] = IF k = 0 THEN {} ELSE grow(k, f[k - 1])
    <3>. HIDE DEF grow, step, n, D
    <3>1. \A k \in 1..n : f[k] = grow(k, f[k - 1])
        BY <1>5, <1>6, <2>1
    <3>2. \A k \in 0..n : k = 0 \/ (k \in 1..n /\ k # 0)
        BY <1>1
    <3>. QED
        BY <1>6, <3>1, <3>2
  <2>. HIDE DEF grow, n, D
  <2>. QED
      BY <1>6, <2>2
<1>8. over = body(over)
  <2>. HIDE DEF body
  <2>. QED
      BY <1>7
<1>9. over[0] = {} /\ \A k \in 1..n : over[k] = grow(k, over[k - 1])
  <2>1. 0 \in 0..n /\ \A k \in 1..n : k \in 0..n /\ k # 0
      BY <1>1
  <2>2. \A k \in 0..n : over[k] = IF k = 0 THEN {} ELSE grow(k, over[k - 1])
    <3>. HIDE DEF over, grow, n
    <3>. QED
        BY <1>8
  <2>. HIDE DEF over, grow, n
  <2>. QED
      BY <2>1, <2>2
<1>10. over \in [0..n -> SUBSET D]
  <2>. DEFINE A == {k \in 0..n : over[k] \in SUBSET D}
  <2>1. 0 \in A
      BY <1>1, <1>9
  <2>2. \A k \in 1..n : k - 1 \in A => k \in A
    <3>. HIDE DEF over, grow, n, D
    <3>. QED
        BY <1>1, <1>3, <1>9
  <2>3. 0..n \subseteq A
    <3>. HIDE DEF A, n
    <3>. QED
        BY <1>1, <2>1, <2>2, AllCounted
  <2>. HIDE DEF over, grow, n, D
  <2>. QED
      BY <1>8, <2>3
<1>11. Passed(over)
  <2>. HIDE DEF over
  <2>. QED
      BY <1>9, <1>10 DEF Passed
<1>. QED
    BY <1>2, <1>11

\* No two of some paths lead to one directory.
Apart(W) == \A p, q \in W : world.tree[p].identity = world.tree[q].identity => p = q

LEMMA WalkedIsApart ==
    ASSUME IsFiniteSet(DOMAIN world.tree), DOMAIN world.tree \subseteq Path
    PROVE  Walked \subseteq DOMAIN world.tree /\ IsFiniteSet(Walked) /\ Apart(Walked)
<1>. DEFINE D == DOMAIN world.tree
            order == InWalkOrder(D)
            n == Len(order)
<1>1. n \in Nat
    BY WalkOrder
<1>2. PICK f : Passed(f) /\ Walked = f[n]
    BY WalkedIsPassed
<1>3. /\ f \in [0..n -> SUBSET D] /\ f[0] = {}
      /\ \A k \in 1..n : f[k] = IF Enters(order[k], f[k - 1]) THEN f[k - 1] \cup {order[k]} ELSE f[k - 1]
    BY <1>2 DEF Passed
<1>. DEFINE A == {k \in 0..n : Apart(f[k])}
<1>4. 0 \in A
    BY <1>1, <1>3 DEF Apart
<1>5. \A k \in 1..n : k - 1 \in A => k \in A
  <2>. SUFFICES ASSUME NEW k \in 1..n, Apart(f[k - 1]) PROVE Apart(f[k])
    <3>1. \A i \in 1..n : i \in 0..n
        BY <1>1
    <3>. HIDE DEF n
    <3>. QED
        BY <3>1
  <2>1. CASE ~Enters(order[k], f[k - 1])
      BY <1>3, <2>1
  <2>2. CASE Enters(order[k], f[k - 1])
    <3>1. f[k] = f[k - 1] \cup {order[k]}
        BY <1>3, <2>2
    <3>2. \A q \in f[k - 1] : world.tree[q].identity # world.tree[order[k]].identity
        BY <2>2 DEF Enters
    <3>. HIDE DEF order, n
    <3>. QED
        BY <3>1, <3>2 DEF Apart
  <2>. QED
      BY <2>1, <2>2
<1>6. n \in A
  <2>1. 0..n \subseteq A
    <3>. HIDE DEF A, n
    <3>. QED
        BY <1>1, <1>4, <1>5, AllCounted
  <2>. HIDE DEF A, n
  <2>. QED
      BY <1>1, <2>1
<1>7. Walked \subseteq D
  <2>. HIDE DEF n
  <2>. QED
      BY <1>1, <1>2, <1>3
<1>. QED
    BY <1>2, <1>6, <1>7, FS_Subset

-----------------------------------------------------------------------------
(***************************************************************************)
(* The projects of some paths.                                             *)
(***************************************************************************)
\* A claim comes before another, as a relation.
ClaimOrder ==
    {pair \in (Path \X Nat) \X (Path \X Nat) :
        PlaceBefore(pair[1][1], pair[2][1]) \/ (pair[1][1] = pair[2][1] /\ pair[1][2] < pair[2][2])}

LEMMA ClaimsAreLinear == ASSUME NEW S, S \subseteq Path \X Nat PROVE Linear(S, ClaimOrder)
<1>1. \A c, d \in S : <<c, d>> \in ClaimOrder <=> PlaceBefore(c[1], d[1]) \/ (c[1] = d[1] /\ c[2] < d[2])
    BY DEF ClaimOrder
<1>2. \A c \in S : c[1] \in Path /\ c[2] \in Nat /\ c = <<c[1], c[2]>>
    OBVIOUS
<1>3. \A c \in S : ~PlaceBefore(c[1], c[1]) /\ ~(c[2] < c[2])
    BY <1>2, BeforeIsStrict
<1>4. \A c, d, e \in S : PlaceBefore(c[1], d[1]) /\ PlaceBefore(d[1], e[1]) => PlaceBefore(c[1], e[1])
    BY <1>2, BeforeIsTransitive
<1>5. \A c, d \in S : c[1] = d[1] \/ PlaceBefore(c[1], d[1]) \/ PlaceBefore(d[1], c[1])
    BY <1>2, BeforeIsTotal
<1>6. \A c, d, e \in S : c[2] < d[2] /\ d[2] < e[2] => c[2] < e[2]
    BY <1>2
<1>7. \A c, d \in S : c[2] = d[2] \/ c[2] < d[2] \/ d[2] < c[2]
    BY <1>2
<1>8. \A c, d, e \in S : <<c, d>> \in ClaimOrder /\ <<d, e>> \in ClaimOrder => <<c, e>> \in ClaimOrder
  <2>. SUFFICES ASSUME NEW c \in S, NEW d \in S, NEW e \in S, <<c, d>> \in ClaimOrder, <<d, e>> \in ClaimOrder
                PROVE  <<c, e>> \in ClaimOrder
      OBVIOUS
  <2>1. PlaceBefore(c[1], d[1]) \/ (c[1] = d[1] /\ c[2] < d[2])
      BY <1>1
  <2>2. PlaceBefore(d[1], e[1]) \/ (d[1] = e[1] /\ d[2] < e[2])
      BY <1>1
  <2>3. PlaceBefore(c[1], e[1]) \/ (c[1] = e[1] /\ c[2] < e[2])
      BY <1>4, <1>6, <2>1, <2>2
  <2>. QED
      BY <1>1, <2>3
<1>9. \A c \in S : <<c, c>> \notin ClaimOrder
    BY <1>1, <1>3
<1>10. \A c, d \in S : c # d => <<c, d>> \in ClaimOrder \/ <<d, c>> \in ClaimOrder
  <2>. SUFFICES ASSUME NEW c \in S, NEW d \in S, c # d
                PROVE  <<c, d>> \in ClaimOrder \/ <<d, c>> \in ClaimOrder
      OBVIOUS
  <2>1. c[1] # d[1] \/ c[2] # d[2]
      BY <1>2
  <2>. QED
      BY <1>1, <1>5, <1>7, <2>1
<1>. QED
    BY <1>8, <1>9, <1>10 DEF Linear

Listing(P) == Len(P) \in Nat /\ DOMAIN P = 1..Len(P) /\ P = [k \in 1..Len(P) |-> P[k]]

LEMMA Joined ==
    ASSUME NEW s, NEW t, Listing(s), Listing(t)
    PROVE  /\ Listing(s \o t) /\ Len(s \o t) = Len(s) + Len(t)
           /\ \A k \in 1..Len(s) : (s \o t)[k] = s[k]
           /\ \A k \in (Len(s) + 1)..(Len(s) + Len(t)) : k - Len(s) \in 1..Len(t) /\ (s \o t)[k] = t[k - Len(s)]
<1>. DEFINE T == {s[k] : k \in DOMAIN s} \cup {t[k] : k \in DOMAIN t}
<1>1. s \in Seq(T) /\ t \in Seq(T)
  <2>1. /\ Len(s) \in Nat /\ s = [k \in 1..Len(s) |-> s[k]] /\ \A k \in 1..Len(s) : s[k] \in T
        /\ Len(t) \in Nat /\ t = [k \in 1..Len(t) |-> t[k]] /\ \A k \in 1..Len(t) : t[k] \in T
      BY DEF Listing
  <2>. HIDE DEF T
  <2>2. s \in [1..Len(s) -> T] /\ t \in [1..Len(t) -> T]
      BY <2>1
  <2>. QED
      BY <2>1, <2>2
<1>. HIDE DEF T
<1>2. s \o t \in Seq(T) /\ Len(s \o t) = Len(s) + Len(t)
    BY <1>1
<1>3. Len(s \o t) \in Nat /\ DOMAIN (s \o t) = 1..Len(s \o t)
    BY <1>2
<1>4. s \o t = [k \in 1..Len(s \o t) |-> (s \o t)[k]]
  <2>. DEFINE u == s \o t
  <2>1. u \in Seq(T)
      BY <1>2
  <2>. HIDE DEF u
  <2>2. u = [k \in 1..Len(u) |-> u[k]]
      BY <2>1
  <2>. QED
      BY <2>2 DEF u
<1>5. \A k \in 1..Len(s) : (s \o t)[k] = s[k]
    BY <1>1
<1>6. \A k \in (Len(s) + 1)..(Len(s) + Len(t)) : k - Len(s) \in 1..Len(t) /\ (s \o t)[k] = t[k - Len(s)]
    BY <1>1
<1>. QED
    BY <1>2, <1>3, <1>4, <1>5, <1>6 DEF Listing

\* The adapters' order does not name one twice.
Registry(adapters) ==
    /\ \E n \in Nat : DOMAIN adapters = 1..n
    /\ \A i, j \in DOMAIN adapters : adapters[i] = adapters[j] => i = j

LEMMA ProjectsAreApart ==
    ASSUME NEW paths, IsFiniteSet(paths), paths \subseteq Path, NEW adapters, Registry(adapters)
    PROVE  LET P == ProjectsIn(paths, adapters)
           IN  /\ Listing(P)
               /\ \A k \in DOMAIN P : /\ P[k].path \in paths /\ P[k].eco \in Claims(P[k].path)
                                      /\ \E i \in DOMAIN adapters : P[k].eco = adapters[i]
               /\ \A p \in paths : \A i \in DOMAIN adapters : adapters[i] \in Claims(p) =>
                     \E k \in DOMAIN P : P[k].path = p /\ P[k].eco = adapters[i]
               /\ \A j, k \in DOMAIN P : P[j].path = P[k].path /\ P[j].eco = P[k].eco => j = k
<1>. DEFINE S == {c \in paths \X DOMAIN adapters : adapters[c[2]] \in Claims(c[1])}
            n == Cardinality(S)
            before(c, d) == PlaceBefore(c[1], d[1]) \/ (c[1] = d[1] /\ c[2] < d[2])
            L == [k \in 1..n |-> CHOOSE x \in S : Cardinality({y \in S : before(y, x)}) = k - 1]
            P == ProjectsIn(paths, adapters)
<1>1. S \subseteq Path \X Nat
    BY DEF Registry
<1>2. IsFiniteSet(S) /\ n \in Nat
  <2>1. PICK m \in Nat : DOMAIN adapters = 1..m
      BY DEF Registry
  <2>2. IsFiniteSet(DOMAIN adapters)
      BY <2>1, FS_Interval
  <2>3. IsFiniteSet(paths \X DOMAIN adapters)
      BY <2>2, FS_Product
  <2>4. IsFiniteSet(S)
      BY <2>3, FS_Subset
  <2>. QED
      BY <2>4, FS_CardinalityType
<1>3. \A k \in 1..n : \E x \in S : Cardinality(Below(S, ClaimOrder, x)) = k - 1
  <2>1. Linear(S, ClaimOrder)
      BY <1>1, ClaimsAreLinear
  <2>. HIDE DEF S
  <2>. QED
      BY <1>2, <2>1, PlacesTaken
<1>4. \A x \in S : {y \in S : before(y, x)} = Below(S, ClaimOrder, x)
  <2>. HIDE DEF S
  <2>. QED
      BY <1>1 DEF ClaimOrder, Below
<1>5. \A k \in 1..n : L[k] \in S /\ Cardinality(Below(S, ClaimOrder, L[k])) = k - 1
  <2>. SUFFICES ASSUME NEW k \in 1..n PROVE L[k] \in S /\ Cardinality(Below(S, ClaimOrder, L[k])) = k - 1
      OBVIOUS
  <2>. DEFINE place(x) == Cardinality({y \in S : before(y, x)})
  <2>1. \E x \in S : place(x) = k - 1
    <3>. HIDE DEF S, before
    <3>. QED
        BY <1>3, <1>4
  <2>2. L[k] = CHOOSE x \in S : place(x) = k - 1
    <3>. HIDE DEF S, n, before
    <3>. QED
        OBVIOUS
  <2>3. L[k] \in S /\ place(L[k]) = k - 1
    <3>. HIDE DEF place, L, n, S
    <3>. QED
        BY <2>1, <2>2
  <2>. HIDE DEF S, L, before
  <2>. QED
      BY <1>4, <2>3
<1>6. L \in [1..n -> S] /\ \A j, k \in 1..n : L[j] = L[k] => j = k
  <2>1. DOMAIN L = 1..n /\ L = [k \in DOMAIN L |-> L[k]]
    <3>. DEFINE taker(k) == CHOOSE x \in S : Cardinality({y \in S : before(y, x)}) = k - 1
    <3>1. L = [k \in 1..n |-> taker(k)]
        OBVIOUS
    <3>. HIDE DEF taker, L, n
    <3>. QED
        BY <3>1
  <2>. HIDE DEF S, L
  <2>. QED
      BY <1>2, <1>5, <2>1, TakenOnce
<1>7. P = [k \in 1..n |-> Project(L[k][1], adapters[L[k][2]], {})]
  <2>1. P = [k \in DOMAIN L |-> Project(L[k][1], adapters[L[k][2]], {})]
      BY DEF ProjectsIn, Listed
  <2>. HIDE DEF S, L
  <2>. QED
      BY <1>6, <2>1
<1>8. \A k \in 1..n : /\ L[k][1] \in paths /\ L[k][2] \in DOMAIN adapters /\ L[k] = <<L[k][1], L[k][2]>>
                      /\ P[k].path = L[k][1] /\ P[k].eco = adapters[L[k][2]] /\ adapters[L[k][2]] \in Claims(L[k][1])
  <2>1. \A c \in S : /\ c[1] \in paths /\ c[2] \in DOMAIN adapters /\ c = <<c[1], c[2]>>
                     /\ adapters[c[2]] \in Claims(c[1])
      OBVIOUS
  <2>. HIDE DEF S, L, n, P
  <2>. QED
      BY <1>6, <1>7, <2>1 DEF Project
<1>9. DOMAIN P = 1..n
  <2>. HIDE DEF P, L, n
  <2>. QED
      BY <1>7
<1>10. \A j, k \in 1..n : P[j].path = P[k].path /\ P[j].eco = P[k].eco => j = k
  <2>. SUFFICES ASSUME NEW j \in 1..n, NEW k \in 1..n, P[j].path = P[k].path, P[j].eco = P[k].eco
                PROVE  j = k
      OBVIOUS
  <2>. HIDE DEF P, L, n, S
  <2>1. L[j][2] = L[k][2]
      BY <1>8 DEF Registry
  <2>2. L[j] = L[k]
      BY <1>8, <2>1
  <2>. QED
      BY <1>6, <2>2
<1>11. \A p \in paths : \A i \in DOMAIN adapters : adapters[i] \in Claims(p) =>
          \E k \in DOMAIN P : P[k].path = p /\ P[k].eco = adapters[i]
  <2>1. \A x \in S : \E k \in 1..n : L[k] = x
    <3>1. Linear(S, ClaimOrder)
        BY <1>1, ClaimsAreLinear
    <3>. HIDE DEF S, L
    <3>. QED
        BY <1>2, <1>5, <1>6, <3>1, AllTaken
  <2>. SUFFICES ASSUME NEW p \in paths, NEW i \in DOMAIN adapters, adapters[i] \in Claims(p)
                PROVE  \E k \in DOMAIN P : P[k].path = p /\ P[k].eco = adapters[i]
      OBVIOUS
  <2>2. <<p, i>> \in S
      OBVIOUS
  <2>. HIDE DEF P, L, n, S
  <2>3. PICK k \in 1..n : L[k] = <<p, i>>
      BY <2>1, <2>2
  <2>4. L[k][1] = p /\ L[k][2] = i
      BY <2>3
  <2>5. P[k].path = p /\ P[k].eco = adapters[i]
      BY <1>8, <2>4
  <2>. QED
      BY <1>9, <2>5
<1>. HIDE DEF P, n, L, S
<1>12. Listing(P)
  <2>1. DOMAIN P = 1..n /\ P = [k \in 1..n |-> P[k]]
      BY <1>7
  <2>. QED
      BY <1>2, <2>1 DEF Listing
<1>13. \A k \in DOMAIN P : /\ P[k].path \in paths /\ P[k].eco \in Claims(P[k].path)
                           /\ \E i \in DOMAIN adapters : P[k].eco = adapters[i]
    BY <1>8, <1>9
<1>14. \A j, k \in DOMAIN P : P[j].path = P[k].path /\ P[j].eco = P[k].eco => j = k
    BY <1>9, <1>10
<1>. QED
    BY <1>11, <1>12, <1>13, <1>14 DEF P

-----------------------------------------------------------------------------
(***************************************************************************)
(* No directory twice.                                                     *)
(***************************************************************************)
Once(list) ==
    /\ Listing(list)
    /\ \A j, k \in DOMAIN list : list[j].eco = list[k].eco /\ j # k =>
          world.tree[list[j].path].identity # world.tree[list[k].path].identity

\* Two lists that share no ecosystem.
LEMMA OnceJoined ==
    ASSUME NEW s, NEW t, Once(s), Once(t), \A j \in DOMAIN s, k \in DOMAIN t : s[j].eco # t[k].eco
    PROVE  Once(s \o t)
<1>1. Listing(s) /\ Listing(t)
    BY DEF Once
<1>2. DOMAIN s = 1..Len(s) /\ DOMAIN t = 1..Len(t) /\ Len(s) \in Nat /\ Len(t) \in Nat
    BY <1>1 DEF Listing
<1>3. /\ Listing(s \o t) /\ DOMAIN (s \o t) = 1..(Len(s) + Len(t))
      /\ \A k \in 1..Len(s) : (s \o t)[k] = s[k]
      /\ \A k \in (Len(s) + 1)..(Len(s) + Len(t)) : k - Len(s) \in 1..Len(t) /\ (s \o t)[k] = t[k - Len(s)]
    BY <1>1, Joined DEF Listing
<1>4. SUFFICES ASSUME NEW j \in 1..(Len(s) + Len(t)), NEW k \in 1..(Len(s) + Len(t)),
                      (s \o t)[j].eco = (s \o t)[k].eco, j # k
               PROVE  world.tree[(s \o t)[j].path].identity # world.tree[(s \o t)[k].path].identity
    BY <1>3 DEF Once
<1>5. \A i \in 1..(Len(s) + Len(t)) : i \in 1..Len(s) \/ i \in (Len(s) + 1)..(Len(s) + Len(t))
    BY <1>2
<1>6. CASE j \in 1..Len(s) /\ k \in 1..Len(s)
    BY <1>2, <1>3, <1>4, <1>6 DEF Once
<1>7. CASE j \in (Len(s) + 1)..(Len(s) + Len(t)) /\ k \in (Len(s) + 1)..(Len(s) + Len(t))
  <2>1. j - Len(s) # k - Len(s)
      BY <1>2, <1>4
  <2>. QED
      BY <1>2, <1>3, <1>4, <1>7, <2>1 DEF Once
<1>8. CASE j \in 1..Len(s) /\ k \in (Len(s) + 1)..(Len(s) + Len(t))
    BY <1>2, <1>3, <1>4, <1>8
<1>9. CASE k \in 1..Len(s) /\ j \in (Len(s) + 1)..(Len(s) + Len(t))
    BY <1>2, <1>3, <1>4, <1>9
<1>. QED
    BY <1>5, <1>6, <1>7, <1>8, <1>9

LEMMA ProjectsOnce ==
    ASSUME NEW paths, IsFiniteSet(paths), paths \subseteq Path, Apart(paths), NEW adapters, Registry(adapters)
    PROVE  /\ Once(ProjectsIn(paths, adapters))
           /\ \A k \in DOMAIN ProjectsIn(paths, adapters) :
                 \E i \in DOMAIN adapters : ProjectsIn(paths, adapters)[k].eco = adapters[i]
<1>. DEFINE P == ProjectsIn(paths, adapters)
<1>1. /\ Listing(P)
      /\ \A k \in DOMAIN P : P[k].path \in paths /\ \E i \in DOMAIN adapters : P[k].eco = adapters[i]
      /\ \A j, k \in DOMAIN P : P[j].path = P[k].path /\ P[j].eco = P[k].eco => j = k
    BY ProjectsAreApart
<1>. HIDE DEF P
<1>2. Once(P)
    BY <1>1 DEF Once, Apart
<1>. QED
    BY <1>1, <1>2 DEF P

LEMMA GapsOnce ==
    ASSUME NEW paths, IsFiniteSet(paths), paths \subseteq Path, Apart(paths)
    PROVE  /\ Once(ManifestGaps(paths))
           /\ \A k \in DOMAIN ManifestGaps(paths) :
                 LET p == ManifestGaps(paths)[k].path
                 IN  /\ ManifestGaps(paths)[k].eco = "unscanned" /\ ManifestGaps(paths)[k].unread = Gaps(p)
                     /\ p \in paths /\ Gaps(p) # {} /\ Claims(p) = {}
           /\ \A p \in paths : Gaps(p) # {} /\ Claims(p) = {} =>
                 \E k \in DOMAIN ManifestGaps(paths) : ManifestGaps(paths)[k].path = p
<1>. DEFINE S == {p \in paths : Gaps(p) # {} /\ Claims(p) = {}}
            L == InWalkOrder(S)
            P == ManifestGaps(paths)
<1>1. S \subseteq paths /\ IsFiniteSet(S)
    BY FS_Subset
<1>2. \A p \in paths : p \in S <=> Gaps(p) # {} /\ Claims(p) = {}
    OBVIOUS
<1>3. /\ Cardinality(S) \in Nat /\ L \in [1..Cardinality(S) -> S]
      /\ \A j, k \in 1..Cardinality(S) : L[j] = L[k] => j = k
      /\ \A p \in S : \E k \in 1..Cardinality(S) : L[k] = p
  <2>. HIDE DEF S
  <2>. QED
      BY <1>1, WalkOrder
<1>4. P = [k \in DOMAIN L |-> Project(L[k], "unscanned", Gaps(L[k]))]
    BY DEF ManifestGaps
<1>. HIDE DEF S, L, P
<1>5. /\ DOMAIN P = 1..Cardinality(S)
      /\ \A k \in DOMAIN P : P[k].path = L[k] /\ P[k].eco = "unscanned" /\ P[k].unread = Gaps(L[k])
    BY <1>3, <1>4 DEF Project
<1>6. Listing(P)
  <2>1. P = [k \in 1..Cardinality(S) |-> P[k]]
      BY <1>3, <1>4
  <2>. QED
      BY <1>3, <1>5, <2>1 DEF Listing
<1>7. \A j, k \in DOMAIN P : j # k => world.tree[P[j].path].identity # world.tree[P[k].path].identity
    BY <1>1, <1>3, <1>5 DEF Apart
<1>. QED
    BY <1>1, <1>3, <1>5, <1>6, <1>7, <1>2 DEF Once, P

LEMMA Registries ==
    /\ Registry(Adapters) /\ Registry(ByName)
    /\ \A i \in DOMAIN Adapters : Adapters[i] \notin {"unscanned", "coverage-note"}
    /\ \A i \in DOMAIN ByName : ByName[i] \notin {"unscanned", "coverage-note"}
<1>1. /\ DOMAIN Adapters = 1..8 /\ Adapters[1] = "npm" /\ Adapters[2] = "pypi" /\ Adapters[3] = "gem"
      /\ Adapters[4] = "cargo" /\ Adapters[5] = "composer" /\ Adapters[6] = "nuget" /\ Adapters[7] = "gomod"
      /\ Adapters[8] = "clojure"
    BY DEF Adapters
<1>2. /\ DOMAIN ByName = 1..8 /\ ByName[1] = "cargo" /\ ByName[2] = "clojure" /\ ByName[3] = "composer"
      /\ ByName[4] = "gem" /\ ByName[5] = "gomod" /\ ByName[6] = "npm" /\ ByName[7] = "nuget"
      /\ ByName[8] = "pypi"
    BY DEF ByName
<1>3. \A i \in 1..8 : i = 1 \/ i = 2 \/ i = 3 \/ i = 4 \/ i = 5 \/ i = 6 \/ i = 7 \/ i = 8
    OBVIOUS
<1>4. \A i, j \in DOMAIN Adapters : Adapters[i] = Adapters[j] => i = j
    BY <1>1, <1>3
<1>5. \A i, j \in DOMAIN ByName : ByName[i] = ByName[j] => i = j
    BY <1>2, <1>3
<1>6. \A i \in DOMAIN Adapters : Adapters[i] \notin {"unscanned", "coverage-note"}
    BY <1>1, <1>3
<1>7. \A i \in DOMAIN ByName : ByName[i] \notin {"unscanned", "coverage-note"}
    BY <1>2, <1>3
<1>. QED
    BY <1>1, <1>2, <1>4, <1>5, <1>6, <1>7 DEF Registry

LEMMA DeepOnce ==
    ASSUME IsFiniteSet(DOMAIN world.tree), DOMAIN world.tree \subseteq Path
    PROVE  Once(Deep)
<1>1. Walked \subseteq Path /\ IsFiniteSet(Walked) /\ Apart(Walked)
    BY WalkedIsApart
<1>2. /\ Once(ProjectsIn(Walked, ByName))
      /\ \A k \in DOMAIN ProjectsIn(Walked, ByName) : ProjectsIn(Walked, ByName)[k].eco # "unscanned"
    BY <1>1, ProjectsOnce, Registries
<1>3. /\ Once(ManifestGaps(Walked))
      /\ \A k \in DOMAIN ManifestGaps(Walked) : ManifestGaps(Walked)[k].eco = "unscanned"
    BY <1>1, GapsOnce
<1>. QED
    BY <1>2, <1>3, OnceJoined DEF Deep

LEMMA OneOnce == ASSUME NEW path, NEW eco, NEW what PROVE Once(<<Project(path, eco, what)>>)
<1>. DEFINE s == <<Project(path, eco, what)>>
<1>1. Len(s) = 1 /\ DOMAIN s = {1}
    OBVIOUS
<1>2. Listing(s)
  <2>1. DOMAIN s = 1..Len(s) /\ s = [k \in 1..Len(s) |-> s[k]]
      BY <1>1
  <2>. QED
      BY <1>1, <2>1 DEF Listing
<1>. HIDE DEF s
<1>. QED
    BY <1>1, <1>2 DEF Once, s

LEMMA ShallowOnce == Once(Shallow)
<1>. DEFINE here == ProjectsIn({<<>>}, Adapters)
            gap == Project(<<>>, "unscanned", Gaps(<<>>))
            all == IF here # <<>> \/ Gaps(<<>>) = {} THEN here ELSE <<gap>>
            note(notes) == Project(<<>>, "coverage-note", notes)
            missing == LeftOut(IF all = <<>> THEN {} ELSE {<<>>})
<1>1. {<<>>} \subseteq Path /\ IsFiniteSet({<<>>}) /\ Apart({<<>>})
  <2>1. <<>> \in Path
      BY DEF Path
  <2>2. Apart({<<>>})
      BY DEF Apart
  <2>. QED
      BY <2>1, <2>2, FS_Singleton
<1>2. Once(here) /\ \A k \in DOMAIN here : here[k].eco # "coverage-note"
    BY <1>1, ProjectsOnce, Registries
<1>3. Once(<<gap>>) /\ \A k \in DOMAIN <<gap>> : <<gap>>[k].eco # "coverage-note"
    BY OneOnce DEF Project
<1>7. Shallow = IF missing = {} THEN all ELSE Append(all, note(missing))
    BY Zenon DEF Shallow
<1>. HIDE DEF here, gap, missing
<1>4. Once(all) /\ \A k \in DOMAIN all : all[k].eco # "coverage-note"
    BY <1>2, <1>3
<1>. HIDE DEF all
<1>5. \A notes : Once(all \o <<note(notes)>>)
  <2>. SUFFICES ASSUME NEW notes PROVE Once(all \o <<note(notes)>>)
      OBVIOUS
  <2>1. Once(<<note(notes)>>) /\ \A k \in DOMAIN <<note(notes)>> : <<note(notes)>>[k].eco = "coverage-note"
      BY OneOnce DEF Project
  <2>. HIDE DEF note
  <2>. QED
      BY <1>4, <2>1, OnceJoined
<1>6. \A notes : Append(all, note(notes)) = all \o <<note(notes)>>
  <2>1. all \in Seq({all[k] : k \in DOMAIN all})
      BY <1>4 DEF Once, Listing
  <2>. QED
      BY <2>1
<1>. QED
    BY <1>4, <1>5, <1>6, <1>7

-----------------------------------------------------------------------------
\* What a parser leaves of a file that one of the adapters claims.
Legible(d) ==
    \/ d.eco = "npm" /\ NpmFile(d)
    \/ d.eco = "pypi" /\ PypiFile(d)
    \/ d.eco \in DOMAIN OtherFormats /\ OtherFile(d)

\* The tree that is scanned, as mounts may have folded it.
FoldedTree ==
    LET tree == world.tree
    IN  /\ IsFiniteSet(DOMAIN tree) /\ DOMAIN tree \subseteq Path
        /\ <<>> \in DOMAIN tree /\ \A p \in DOMAIN tree : \A k \in 0..Len(p) : Leading(p, k) \in DOMAIN tree
        /\ \A p \in DOMAIN tree : IsFiniteSet(tree[p].files) /\ \A d \in tree[p].docs : Legible(d)
        /\ \A p, q \in DOMAIN tree : tree[p].identity = tree[q].identity => MountShows(tree, p, q)

\* What is scanned does not change, and what is to be resolved is there once.
Resolving == (\E s \in Scans : world = s[1]) /\ Once(todo)

LEMMA TreesAreTrees == ASSUME \E s \in Scans : world = s[1] PROVE FoldedTree
BY WorkspaceAssumption DEF Path, FoldedTree, Legible

LEMMA InitResolving == ASSUME Init PROVE Resolving
<1>1. Once(<<>>)
    BY DEF Once, Listing
<1>. QED
    BY <1>1 DEF Init, Resolving

LEMMA TailOnce == ASSUME NEW list, Once(list), list # <<>> PROVE Once(Tail(list))
<1>1. list \in Seq({list[k] : k \in DOMAIN list})
    BY DEF Once, Listing
<1>. DEFINE rest == Tail(list)
<1>2. /\ rest \in Seq({list[k] : k \in DOMAIN list})
      /\ \A k \in DOMAIN rest : k + 1 \in DOMAIN list /\ rest[k] = list[k + 1]
    BY <1>1
<1>3. Listing(rest)
  <2>. HIDE DEF rest
  <2>. QED
      BY <1>2 DEF Listing
<1>4. \A j, k \in DOMAIN rest : j \in Nat /\ k \in Nat /\ (j # k => j + 1 # k + 1)
    BY <1>1
<1>. HIDE DEF rest
<1>. QED
    BY <1>2, <1>3, <1>4 DEF Once, rest

LEMMA StepResolves == ASSUME Resolving, [Next]_vars PROVE Resolving'
<1>1. world' = world
    BY DEF Next, vars, Discover, Resolve, ReconstructDepth, NothingResolved, Report
<1>2. CASE Discover
  <2>1. Once(Deep) /\ Once(Shallow)
      BY DeepOnce, ShallowOnce, TreesAreTrees DEF Resolving, FoldedTree
  <2>2. Once(todo')
      BY <1>2, <2>1 DEF Discover
  <2>. QED
      BY <1>1, <2>2 DEF Resolving, Once
<1>3. CASE Resolve
  <2>1. Once(todo')
      BY <1>3, TailOnce DEF Resolve, Resolving
  <2>. QED
      BY <1>1, <2>1 DEF Resolving, Once
<1>4. CASE UNCHANGED todo
    BY <1>1, <1>4 DEF Resolving, Once
<1>. QED
    BY <1>2, <1>3, <1>4 DEF Next, vars, ReconstructDepth, NothingResolved, Report

\* However a tree is folded by mounts, whatever is pruned and in whatever order names
\* stand, no directory is resolved twice for an ecosystem or disclosed twice
\* (discoverProjects, discoverManifestGaps).
THEOREM NoneTwice == Spec => []ResolvedOnce
<1>1. Resolving => ResolvedOnce
    BY DEF Resolving, Once, ResolvedOnce
<1>2. Spec => []Resolving
    BY InitResolving, StepResolves, PTL DEF Spec
<1>. QED
    BY <1>1, <1>2, PTL

-----------------------------------------------------------------------------
(***************************************************************************)
(* No directory left out.                                                  *)
(***************************************************************************)
LEMMA AboveIsBefore ==
    ASSUME NEW p \in Path, p # <<>>
    PROVE  /\ Len(p) - 1 \in 0..Len(p) /\ Leading(p, Len(p) - 1) \in Path
           /\ PlaceBefore(Leading(p, Len(p) - 1), p)
<1>. DEFINE m == Len(p) - 1
            q == Leading(p, m)
<1>1. m \in 0..Len(p) /\ m < Len(p) /\ Len(p) \in Nat
    BY DEF Path
<1>2. q \in Path /\ Len(q) = m /\ \A i \in 1..m : q[i] = p[i]
  <2>1. q = [i \in 1..m |-> p[i]]
      BY <1>1 DEF Leading, Path
  <2>2. m \in Nat /\ \A i \in 1..m : p[i] \in DOMAIN Order
      BY <1>1 DEF Path
  <2>. HIDE DEF m, q
  <2>3. q \in [1..m -> DOMAIN Order]
      BY <2>1, <2>2
  <2>4. q \in Path /\ Len(q) = m
      BY <2>2, <2>3 DEF Path
  <2>. QED
      BY <2>1, <2>4
<1>. HIDE DEF m, q
<1>3. m \in 0..Len(q)
    BY <1>1, <1>2
<1>4. PlaceBefore(q, p)
    BY <1>1, <1>2, <1>3, BeforeBySteps
<1>. QED
    BY <1>1, <1>2, <1>4 DEF m, q

\* What the walk has entered it keeps, and it entered each directory in its turn.
LEMMA WalkGrows ==
    ASSUME IsFiniteSet(DOMAIN world.tree), DOMAIN world.tree \subseteq Path, NEW f, Passed(f)
    PROVE  LET order == InWalkOrder(DOMAIN world.tree)
           IN  /\ \A j, k \in 0..Len(order) : j <= k => f[j] \subseteq f[k]
               /\ \A k \in 0..Len(order) : \A p \in f[k] :
                     \E i \in 1..Len(order) : p = order[i] /\ Enters(p, f[i - 1])
<1>. DEFINE order == InWalkOrder(DOMAIN world.tree)
            n == Len(order)
<1>1. n \in Nat
    BY WalkOrder
<1>2. f[0] = {} /\ \A k \in 1..n : f[k] = IF Enters(order[k], f[k - 1]) THEN f[k - 1] \cup {order[k]} ELSE f[k - 1]
    BY DEF Passed
<1>. HIDE DEF order, n
<1>3. \A j, k \in 0..n : j <= k => f[j] \subseteq f[k]
  <2>. SUFFICES ASSUME NEW j \in 0..n PROVE \A k \in 0..n : j <= k => f[j] \subseteq f[k]
      OBVIOUS
  <2>. DEFINE A == {k \in 0..n : j <= k => f[j] \subseteq f[k]}
  <2>1. 0 \in A
      BY <1>1
  <2>2. \A k \in 1..n : k - 1 \in A => k \in A
    <3>. SUFFICES ASSUME NEW k \in 1..n, k - 1 \in A PROVE k \in A
        OBVIOUS
    <3>1. k \in 0..n
        BY <1>1
    <3>2. f[k - 1] \subseteq f[k]
      <4>. HIDE DEF A
      <4>1. f[k] = f[k - 1] \cup {order[k]} \/ f[k] = f[k - 1]
          BY <1>2
      <4>. QED
          BY <4>1
    <3>3. j <= k => j = k \/ j <= k - 1
        BY <1>1
    <3>. QED
        BY <3>1, <3>2, <3>3
  <2>. HIDE DEF A
  <2>3. 0..n \subseteq A
      BY <1>1, <2>1, <2>2, AllCounted
  <2>. QED
      BY <2>3 DEF A
<1>4. \A k \in 0..n : \A p \in f[k] : \E i \in 1..n : p = order[i] /\ Enters(p, f[i - 1])
  <2>. DEFINE inTurn(p) == \E i \in 1..n : p = order[i] /\ Enters(p, f[i - 1])
              A == {k \in 0..n : \A p \in f[k] : inTurn(p)}
  <2>1. 0 \in A
      BY <1>1, <1>2
  <2>2. \A k \in 1..n : k - 1 \in A => k \in A
    <3>. SUFFICES ASSUME NEW k \in 1..n, k - 1 \in A, NEW p \in f[k] PROVE inTurn(p)
      <4>1. \A k \in 1..n : k \in 0..n
          BY <1>1
      <4>. HIDE DEF inTurn
      <4>. QED
          BY <4>1
    <3>1. p \in f[k - 1] \/ (p = order[k] /\ Enters(p, f[k - 1]))
      <4>. HIDE DEF A
      <4>1. CASE Enters(order[k], f[k - 1])
        <5>1. f[k] = f[k - 1] \cup {order[k]}
            BY <1>2, <4>1
        <5>. QED
            BY <4>1, <5>1
      <4>2. CASE ~Enters(order[k], f[k - 1])
          BY <1>2, <4>2
      <4>. QED
          BY <4>1, <4>2
    <3>. QED
        BY <3>1
  <2>. HIDE DEF A
  <2>3. 0..n \subseteq A
      BY <1>1, <2>1, <2>2, AllCounted
  <2>. QED
      BY <2>3 DEF A
<1>. QED
    BY <1>3, <1>4 DEF order, n

\* A directory is entered from the one above it; and where the walk gets to one that
\* no name prunes, it enters it, or has entered it under another path.
LEMMA WalkMeets ==
    ASSUME IsFiniteSet(DOMAIN world.tree), DOMAIN world.tree \subseteq Path
    PROVE  LET reached(p) == /\ ~Pruned(p)
                             /\ p # <<>> => /\ Leading(p, Len(p) - 1) \in Walked
                                            /\ world.tree[Leading(p, Len(p) - 1)].readable
           IN  /\ \A p \in Walked : reached(p)
               /\ \A p \in DOMAIN world.tree : reached(p) =>
                     \E q \in Walked : world.tree[q].identity = world.tree[p].identity
<1>. DEFINE D == DOMAIN world.tree
            order == InWalkOrder(D)
            n == Len(order)
            above(p) == Leading(p, Len(p) - 1)
<1>1. /\ n \in Nat
      /\ \A p \in D : \E k \in 1..n : order[k] = p
      /\ \A j, k \in 1..n : PlaceBefore(order[j], order[k]) => j < k
    BY WalkOrder
<1>2. PICK f : Passed(f) /\ Walked = f[n]
    BY WalkedIsPassed
<1>3. \A k \in 1..n : f[k] = IF Enters(order[k], f[k - 1]) THEN f[k - 1] \cup {order[k]} ELSE f[k - 1]
    BY <1>2 DEF Passed
<1>4. /\ \A j, k \in 0..n : j <= k => f[j] \subseteq f[k]
      /\ \A k \in 0..n : \A p \in f[k] : \E i \in 1..n : p = order[i] /\ Enters(p, f[i - 1])
    BY <1>2, WalkGrows
<1>. HIDE DEF order, n
<1>5. \A i \in 1..n : f[i - 1] \subseteq Walked /\ f[i] \subseteq Walked
    BY <1>1, <1>2, <1>4
<1>6. ASSUME NEW p \in Walked
      PROVE  ~Pruned(p) /\ (p # <<>> => above(p) \in Walked /\ world.tree[above(p)].readable)
  <2>1. PICK i \in 1..n : p = order[i] /\ Enters(p, f[i - 1])
      BY <1>1, <1>2, <1>4
  <2>. QED
      BY <1>5, <2>1 DEF Enters
<1>7. ASSUME NEW p \in D, ~Pruned(p), p # <<>> => above(p) \in Walked /\ world.tree[above(p)].readable
      PROVE  \E q \in Walked : world.tree[q].identity = world.tree[p].identity
  <2>1. PICK k \in 1..n : order[k] = p
      BY <1>1
  <2>2. p # <<>> => above(p) \in f[k - 1]
    <3>. SUFFICES ASSUME p # <<>> PROVE above(p) \in f[k - 1]
        OBVIOUS
    <3>1. above(p) \in f[n] /\ n \in 0..n
        BY <1>1, <1>2, <1>7
    <3>2. PICK i \in 1..n : above(p) = order[i] /\ Enters(order[i], f[i - 1])
        BY <1>4, <3>1
    <3>3. PlaceBefore(order[i], order[k])
        BY <2>1, <3>2, AboveIsBefore
    <3>4. i < k
        BY <1>1, <3>3
    <3>5. order[i] \in f[i]
        BY <1>3, <3>2
    <3>6. i \in 0..n /\ k - 1 \in 0..n /\ i <= k - 1
        BY <1>1, <3>4
    <3>7. f[i] \subseteq f[k - 1]
        BY <1>4, <3>6
    <3>. QED
        BY <3>2, <3>5, <3>7
  <2>3. CASE Enters(p, f[k - 1])
    <3>1. p \in f[k]
        BY <1>3, <2>1, <2>3
    <3>. QED
        BY <1>5, <3>1
  <2>4. CASE ~Enters(p, f[k - 1])
    <3>1. PICK q \in f[k - 1] : world.tree[q].identity = world.tree[p].identity
        BY <1>7, <2>2, <2>4 DEF Enters
    <3>. QED
        BY <1>5, <3>1
  <2>. QED
      BY <2>3, <2>4
<1>. QED
    BY <1>6, <1>7

LEMMA LeadingPaths ==
    ASSUME NEW p \in Path, NEW m \in 0..Len(p)
    PROVE  /\ Leading(p, m) \in Path /\ Len(Leading(p, m)) = m /\ m \in Nat
           /\ \A i \in 1..m : Leading(p, m)[i] = p[i]
           /\ \A k \in 0..m : Leading(Leading(p, m), k) = Leading(p, k)
           /\ m = Len(p) => Leading(p, m) = p
           /\ m # 0 => p[m] \in DOMAIN Order /\ Append(Leading(p, m - 1), p[m]) = Leading(p, m)
<1>. DEFINE q == Leading(p, m)
<1>1. m \in Nat /\ Len(p) \in Nat /\ p = [i \in 1..Len(p) |-> p[i]] /\ \A i \in 1..Len(p) : p[i] \in DOMAIN Order
    BY DEF Path
<1>2. q = [i \in 1..m |-> p[i]]
    BY DEF Leading, Path
<1>3. q \in Path /\ Len(q) = m
  <2>. HIDE DEF q
  <2>1. q \in [1..m -> DOMAIN Order]
      BY <1>1, <1>2
  <2>. QED
      BY <1>1, <2>1 DEF Path
<1>4. ASSUME NEW k \in 0..m PROVE Leading(q, k) = Leading(p, k)
  <2>1. Leading(p, k) = [i \in 1..k |-> p[i]]
      BY <1>1 DEF Leading, Path
  <2>. HIDE DEF q
  <2>2. Leading(q, k) = [i \in 1..k |-> q[i]]
      BY <1>3 DEF Leading, Path
  <2>3. \A i \in 1..k : q[i] = p[i]
      BY <1>1, <1>2
  <2>. QED
      BY <2>1, <2>2, <2>3
<1>5. ASSUME m # 0 PROVE p[m] \in DOMAIN Order /\ Append(Leading(p, m - 1), p[m]) = q
  <2>1. m - 1 \in Nat /\ m - 1 \in 0..Len(p) /\ m = (m - 1) + 1
      BY <1>1, <1>5
  <2>2. Leading(p, m - 1) = [i \in 1..(m - 1) |-> p[i]]
      BY <2>1 DEF Leading, Path
  <2>3. p[m] \in DOMAIN Order
      BY <1>1, <1>5
  <2>. DEFINE r == Leading(p, m - 1)
  <2>4. r \in [1..(m - 1) -> DOMAIN Order]
      BY <1>1, <2>2
  <2>. HIDE DEF q, r
  <2>5. r \in Seq(DOMAIN Order) /\ Len(r) = m - 1
      BY <2>1, <2>4
  <2>6. Append(r, p[m]) = [i \in 1..m |-> IF i = m THEN p[m] ELSE r[i]]
      BY <2>1, <2>3, <2>5
  <2>7. \A i \in 1..m : i # m => r[i] = p[i]
      BY <2>1, <2>2 DEF r
  <2>8. Append(r, p[m]) = q
      BY <1>2, <2>6, <2>7
  <2>. QED
      BY <2>3, <2>8 DEF r
<1>6. m = Len(p) => q = p
    BY <1>1, <1>2
<1>7. \A i \in 1..m : q[i] = p[i]
    BY <1>2
<1>. QED
    BY <1>1, <1>3, <1>4, <1>5, <1>6, <1>7

\* A path and all that it leads through are entered, and seen without a pruned name.
LEMMA WalkedIsVisible ==
    ASSUME IsFiniteSet(DOMAIN world.tree), DOMAIN world.tree \subseteq Path, NEW p \in Walked
    PROVE  p \in Visible /\ \A k \in 0..Len(p) : Leading(p, k) \in Walked
<1>1. p \in Path /\ p \in DOMAIN world.tree /\ Len(p) \in Nat
    BY WalkedIsApart DEF Path
<1>. DEFINE A == {i \in 0..Len(p) : Leading(p, Len(p) - i) \in Walked}
<1>2. 0 \in A
    BY <1>1, LeadingPaths
<1>3. \A i \in 1..Len(p) : i - 1 \in A => i \in A
  <2>. SUFFICES ASSUME NEW i \in 1..Len(p), i - 1 \in A PROVE i \in A
      OBVIOUS
  <2>. DEFINE m == Len(p) - (i - 1)
              a == Leading(p, m)
  <2>1. m \in 0..Len(p) /\ m # 0 /\ m - 1 = Len(p) - i /\ m - 1 \in 0..m /\ i \in 0..Len(p) /\ a \in Walked
      BY <1>1
  <2>. HIDE DEF m
  <2>2. a \in Path /\ Len(a) = m /\ Leading(a, m - 1) = Leading(p, m - 1)
      BY <1>1, <2>1, LeadingPaths
  <2>3. a # <<>>
      BY <2>1, <2>2
  <2>4. Leading(a, Len(a) - 1) \in Walked
      BY <2>1, <2>3, WalkMeets
  <2>. QED
      BY <2>1, <2>2, <2>4
<1>4. \A k \in 0..Len(p) : Leading(p, k) \in Walked
  <2>. SUFFICES ASSUME NEW k \in 0..Len(p) PROVE Leading(p, k) \in Walked
      OBVIOUS
  <2>1. Len(p) - k \in 0..Len(p) /\ Len(p) - (Len(p) - k) = k
      BY <1>1
  <2>2. 0..Len(p) \subseteq A
    <3>. HIDE DEF A
    <3>. QED
        BY <1>1, <1>2, <1>3, AllCounted
  <2>. QED
      BY <2>1, <2>2
<1>5. ASSUME NEW k \in 0..Len(p), k < Len(p) PROVE world.tree[Leading(p, k)].readable
  <2>. DEFINE c == Leading(p, k + 1)
  <2>1. k + 1 \in 0..Len(p) /\ k + 1 # 0 /\ (k + 1) - 1 = k /\ k \in 0..(k + 1)
      BY <1>1, <1>5
  <2>2. c \in Walked /\ Len(c) = k + 1 /\ Leading(c, k) = Leading(p, k)
      BY <1>1, <1>4, <2>1, LeadingPaths
  <2>. HIDE DEF c
  <2>3. c # <<>>
      BY <2>1, <2>2
  <2>. QED
      BY <2>1, <2>2, <2>3, WalkMeets
<1>6. \A k \in 0..Len(p) : ~Pruned(Leading(p, k))
    BY <1>4, WalkMeets
<1>. QED
    BY <1>1, <1>4, <1>5, <1>6 DEF Visible

\* A name is pruned in two places alike if both are in a build tree, or none.
LEMMA PrunedAlike ==
    ASSUME NEW p \in Path, NEW q \in Path, NEW name \in DOMAIN Order,
           (\E k \in DOMAIN p : p[k] \in ArtifactContext) = (\E k \in DOMAIN q : q[k] \in ArtifactContext)
    PROVE  Pruned(Append(p, name)) <=> Pruned(Append(q, name))
<1>1. ASSUME NEW r \in Path
      PROVE  /\ Append(r, name) # <<>> /\ Last(Append(r, name)) = name
             /\ InsideBuildTree(Append(r, name)) <=> \E k \in DOMAIN r : r[k] \in ArtifactContext
  <2>1. /\ Len(r) \in Nat /\ DOMAIN r = 1..Len(r) /\ Len(Append(r, name)) = Len(r) + 1
        /\ Append(r, name)[Len(r) + 1] = name /\ \A k \in 1..Len(r) : Append(r, name)[k] = r[k]
      BY DEF Path
  <2>2. (Len(r) + 1) - 1 = Len(r) /\ Len(r) + 1 # 0
      BY <2>1
  <2>3. InsideBuildTree(Append(r, name)) <=> \E k \in 1..Len(r) : r[k] \in ArtifactContext
      BY <2>1, <2>2 DEF InsideBuildTree
  <2>4. Append(r, name) # <<>>
      BY <2>1, <2>2
  <2>. QED
      BY <2>1, <2>3, <2>4 DEF Last
<1>. QED
    BY <1>1 DEF Pruned

\* Whatever directory can be seen is entered, under this path or under another.
LEMMA VisibleIsMet ==
    ASSUME FoldedTree, BuildsStayApart, NEW p \in Visible
    PROVE  \E q \in Walked : world.tree[q].identity = world.tree[p].identity
<1>1. p \in DOMAIN world.tree /\ p \in Path /\ Len(p) \in Nat
    BY DEF Visible, FoldedTree, Path
<1>2. \A k \in 0..Len(p) : Leading(p, k) \in DOMAIN world.tree
    BY <1>1 DEF FoldedTree
<1>. DEFINE met(a) == \E q \in Walked : world.tree[q].identity = world.tree[a].identity
            A == {k \in 0..Len(p) : met(Leading(p, k))}
<1>3. 0 \in A
  <2>1. Leading(p, 0) = <<>>
      BY <1>1 DEF Leading, Path
  <2>2. ~Pruned(<<>>) /\ <<>> \in DOMAIN world.tree
      BY DEF Pruned, FoldedTree
  <2>3. met(<<>>)
      BY <2>2, WalkMeets DEF FoldedTree
  <2>. QED
      BY <1>1, <2>1, <2>3
<1>4. \A k \in 1..Len(p) : k - 1 \in A => k \in A
  <2>. SUFFICES ASSUME NEW k \in 1..Len(p), k - 1 \in A PROVE met(Leading(p, k))
    <3>. HIDE DEF met
    <3>1. \A k \in 1..Len(p) : k \in 0..Len(p)
        BY <1>1
    <3>. QED
        BY <3>1
  <2>. DEFINE a == Leading(p, k - 1)
              c == Leading(p, k)
              name == p[k]
  <2>1. k \in 0..Len(p) /\ k # 0 /\ k - 1 \in 0..Len(p) /\ k - 1 < Len(p)
      BY <1>1
  <2>2. /\ a \in Path /\ a \in DOMAIN world.tree /\ world.tree[a].readable
        /\ c \in DOMAIN world.tree /\ ~Pruned(c) /\ name \in DOMAIN Order /\ Append(a, name) = c
      BY <1>1, <1>2, <2>1, LeadingPaths DEF Visible
  <2>3. PICK q \in Walked : world.tree[q].identity = world.tree[a].identity
      BY DEF A
  <2>. HIDE DEF a, c, name, A
  <2>4. /\ q \in DOMAIN world.tree /\ q \in Path /\ Len(q) \in Nat
        /\ \A j \in 0..Len(q) : Leading(q, j) \in Walked /\ Len(Leading(q, j)) = j
    <3>1. q \in DOMAIN world.tree /\ q \in Path
        BY WalkedIsApart DEF FoldedTree
    <3>2. \A j \in 0..Len(q) : Leading(q, j) \in Walked
        BY WalkedIsVisible DEF FoldedTree
    <3>. QED
        BY <3>1, <3>2, LeadingPaths DEF Path
  <2>5. ~Repeats(world.tree, q)
    <3>. SUFFICES ASSUME NEW i \in 0..Len(q), NEW j \in 0..Len(q),
                         world.tree[Leading(q, i)].identity = world.tree[Leading(q, j)].identity
                  PROVE  i = j
        BY DEF Repeats
    <3>1. Apart(Walked)
        BY WalkedIsApart DEF FoldedTree
    <3>2. Leading(q, i) = Leading(q, j)
        BY <2>4, <3>1 DEF Apart
    <3>. QED
        BY <2>4, <3>2
  <2>6. MountShows(world.tree, a, q)
      BY <2>2, <2>3, <2>4 DEF FoldedTree
  <2>. DEFINE d == Append(q, name)
  <2>7. d \in DOMAIN world.tree /\ world.tree[d].identity = world.tree[c].identity /\ world.tree[q].readable
      BY <2>2, <2>5, <2>6 DEF MountShows
  <2>8. ~Pruned(d)
    <3>1. (\E i \in DOMAIN a : a[i] \in ArtifactContext) = (\E i \in DOMAIN q : q[i] \in ArtifactContext)
        BY <2>2, <2>3, <2>4 DEF BuildsStayApart
    <3>. QED
        BY <2>2, <2>4, <3>1, PrunedAlike
  <2>9. d # <<>> /\ Leading(d, Len(d) - 1) = q
    <3>1. Len(d) = Len(q) + 1 /\ (Len(q) + 1) - 1 = Len(q) /\ Len(q) + 1 # 0
        BY <2>2, <2>4 DEF Path
    <3>2. d # <<>>
        BY <3>1
    <3>3. SubSeq(d, 1, Len(q)) = q
        BY <2>2, <2>4 DEF Path
    <3>. QED
        BY <3>1, <3>2, <3>3 DEF Leading
  <2>10. met(d)
      BY <2>4, <2>7, <2>8, <2>9, WalkMeets DEF FoldedTree
  <2>. QED
      BY <2>7, <2>10 DEF c
<1>5. Len(p) \in A
  <2>1. 0..Len(p) \subseteq A
    <3>. HIDE DEF A
    <3>. QED
        BY <1>1, <1>3, <1>4, AllCounted
  <2>. QED
      BY <1>1, <2>1
<1>. QED
    BY <1>1, <1>5, LeadingPaths

\* What a directory is due does not depend on the path to it.
LEMMA DueAlike ==
    ASSUME FoldedTree, NEW p \in DOMAIN world.tree, NEW q \in DOMAIN world.tree,
           world.tree[p].identity = world.tree[q].identity
    PROVE  Due(p) = Due(q)
<1>1. MountShows(world.tree, p, q)
    BY DEF FoldedTree
<1>2. Claims(p) = Claims(q)
    BY <1>1 DEF MountShows, Claims
<1>3. Gaps(p) = Gaps(q)
    BY <1>1 DEF MountShows, Gaps
<1>. QED
    BY <1>2, <1>3 DEF Due

\* Every adapter is in the registry, and by its name.
LEMMA AllRegistered ==
    ASSUME FoldedTree, NEW p \in DOMAIN world.tree, NEW eco \in Claims(p)
    PROVE  (\E i \in DOMAIN ByName : ByName[i] = eco) /\ \E i \in DOMAIN Adapters : Adapters[i] = eco
<1>1. eco \in {"npm", "pypi", "cargo", "composer", "gem", "nuget", "gomod", "clojure"}
  <2>1. eco \in {"npm", "pypi"} \cup DOMAIN OtherFormats
      BY DEF FoldedTree, Claims, Legible
  <2>2. DOMAIN OtherFormats = {"cargo", "composer", "gem", "nuget", "gomod", "clojure"}
      BY DEF OtherFormats
  <2>. QED
      BY <2>1, <2>2
<1>2. /\ DOMAIN ByName = 1..8 /\ ByName[1] = "cargo" /\ ByName[2] = "clojure" /\ ByName[3] = "composer"
      /\ ByName[4] = "gem" /\ ByName[5] = "gomod" /\ ByName[6] = "npm" /\ ByName[7] = "nuget"
      /\ ByName[8] = "pypi"
    BY DEF ByName
<1>3. /\ DOMAIN Adapters = 1..8 /\ Adapters[1] = "npm" /\ Adapters[2] = "pypi" /\ Adapters[3] = "gem"
      /\ Adapters[4] = "cargo" /\ Adapters[5] = "composer" /\ Adapters[6] = "nuget" /\ Adapters[7] = "gomod"
      /\ Adapters[8] = "clojure"
    BY DEF Adapters
<1>4. 1 \in 1..8 /\ 2 \in 1..8 /\ 3 \in 1..8 /\ 4 \in 1..8 /\ 5 \in 1..8 /\ 6 \in 1..8 /\ 7 \in 1..8 /\ 8 \in 1..8
    OBVIOUS
<1>5. \E i \in DOMAIN ByName : ByName[i] = eco
    BY <1>1, <1>2, <1>4
<1>6. \E i \in DOMAIN Adapters : Adapters[i] = eco
    BY <1>1, <1>3, <1>4
<1>. QED
    BY <1>5, <1>6

LEMMA FoundJoined ==
    ASSUME NEW s, NEW t, Listing(s), Listing(t)
    PROVE  Found(s \o t) = Found(s) \cup Found(t)
<1>. DEFINE key(e) == Key(e.path, e.eco)
<1>1. DOMAIN s = 1..Len(s) /\ DOMAIN t = 1..Len(t) /\ Len(s) \in Nat /\ Len(t) \in Nat
    BY DEF Listing
<1>2. /\ DOMAIN (s \o t) = 1..(Len(s) + Len(t))
      /\ \A k \in 1..Len(s) : (s \o t)[k] = s[k]
      /\ \A k \in (Len(s) + 1)..(Len(s) + Len(t)) : k - Len(s) \in 1..Len(t) /\ (s \o t)[k] = t[k - Len(s)]
    BY Joined DEF Listing
<1>3. \A l : Found(l) = {key(l[k]) : k \in DOMAIN l}
    BY DEF Found
<1>. HIDE DEF key
<1>4. \A k \in DOMAIN (s \o t) : key((s \o t)[k]) \in Found(s) \cup Found(t)
  <2>. SUFFICES ASSUME NEW k \in DOMAIN (s \o t) PROVE key((s \o t)[k]) \in Found(s) \cup Found(t)
      OBVIOUS
  <2>1. CASE k \in 1..Len(s)
      BY <1>1, <1>2, <1>3, <2>1
  <2>2. CASE k \in (Len(s) + 1)..(Len(s) + Len(t))
    <3>1. k - Len(s) \in DOMAIN t /\ (s \o t)[k] = t[k - Len(s)]
        BY <1>1, <1>2, <2>2
    <3>. QED
        BY <1>3, <3>1
  <2>. QED
      BY <1>1, <1>2, <2>1, <2>2
<1>5. \A k \in DOMAIN s : key(s[k]) \in Found(s \o t)
  <2>1. \A k \in DOMAIN s : k \in DOMAIN (s \o t) /\ (s \o t)[k] = s[k]
      BY <1>1, <1>2
  <2>. QED
      BY <1>3, <2>1
<1>6. \A k \in DOMAIN t : key(t[k]) \in Found(s \o t)
  <2>. SUFFICES ASSUME NEW k \in DOMAIN t PROVE key(t[k]) \in Found(s \o t)
      OBVIOUS
  <2>1. k + Len(s) \in (Len(s) + 1)..(Len(s) + Len(t)) /\ (k + Len(s)) - Len(s) = k
      BY <1>1
  <2>2. k + Len(s) \in DOMAIN (s \o t) /\ (s \o t)[k + Len(s)] = t[k]
      BY <1>1, <1>2, <2>1
  <2>. QED
      BY <1>3, <2>2
<1>. QED
    BY <1>3, <1>4, <1>5, <1>6

\* What the walk finds: every directory it enters, for all that it is due.
LEMMA DeepFinds ==
    ASSUME FoldedTree
    PROVE  \A x : x \in Found(Deep) <=> \E p \in Walked : \E eco \in Due(p) : x = Key(p, eco)
<1>. DEFINE P == ProjectsIn(Walked, ByName)
            G == ManifestGaps(Walked)
<1>1. Walked \subseteq DOMAIN world.tree /\ Walked \subseteq Path /\ IsFiniteSet(Walked) /\ Apart(Walked)
    BY WalkedIsApart DEF FoldedTree
<1>2. /\ Listing(P)
      /\ \A k \in DOMAIN P : P[k].path \in Walked /\ P[k].eco \in Claims(P[k].path)
      /\ \A p \in Walked : \A i \in DOMAIN ByName : ByName[i] \in Claims(p) =>
            \E k \in DOMAIN P : P[k].path = p /\ P[k].eco = ByName[i]
    BY <1>1, ProjectsAreApart, Registries
<1>3. /\ Listing(G)
      /\ \A k \in DOMAIN G : /\ G[k].path \in Walked /\ G[k].eco = "unscanned"
                             /\ Gaps(G[k].path) # {} /\ Claims(G[k].path) = {}
      /\ \A p \in Walked : Gaps(p) # {} /\ Claims(p) = {} => \E k \in DOMAIN G : G[k].path = p
    BY <1>1, GapsOnce DEF Once
<1>4. Found(Deep) = Found(P) \cup Found(G)
  <2>1. Deep = P \o G
      BY DEF Deep
  <2>. HIDE DEF P, G
  <2>. QED
      BY <1>2, <1>3, <2>1, FoundJoined
<1>. HIDE DEF P, G
<1>5. ASSUME NEW x \in Found(Deep) PROVE \E p \in Walked : \E eco \in Due(p) : x = Key(p, eco)
  <2>1. CASE x \in Found(P)
    <3>1. PICK k \in DOMAIN P : x = Key(P[k].path, P[k].eco)
        BY <2>1 DEF Found
    <3>2. P[k].path \in Walked /\ P[k].eco \in Due(P[k].path)
        BY <1>2 DEF Due
    <3>. QED
        BY <3>1, <3>2
  <2>2. CASE x \in Found(G)
    <3>1. PICK k \in DOMAIN G : x = Key(G[k].path, G[k].eco)
        BY <2>2 DEF Found
    <3>2. G[k].path \in Walked /\ G[k].eco \in Due(G[k].path)
        BY <1>3 DEF Due
    <3>. QED
        BY <3>1, <3>2
  <2>. QED
      BY <1>4, <1>5, <2>1, <2>2
<1>6. ASSUME NEW p \in Walked, NEW eco \in Due(p) PROVE Key(p, eco) \in Found(Deep)
  <2>1. CASE Claims(p) # {}
    <3>1. eco \in Claims(p)
        BY <1>6, <2>1 DEF Due
    <3>2. PICK i \in DOMAIN ByName : ByName[i] = eco
        BY <1>1, <3>1, AllRegistered
    <3>3. PICK k \in DOMAIN P : P[k].path = p /\ P[k].eco = eco
        BY <1>2, <3>1, <3>2
    <3>4. Key(p, eco) \in Found(P)
        BY <3>3 DEF Found
    <3>. QED
        BY <1>4, <3>4
  <2>2. CASE Claims(p) = {}
    <3>1. Gaps(p) # {} /\ eco = "unscanned"
        BY <1>6, <2>2 DEF Due
    <3>2. PICK k \in DOMAIN G : G[k].path = p
        BY <1>3, <2>2, <3>1
    <3>3. Key(p, eco) \in Found(G)
        BY <1>3, <3>1, <3>2 DEF Found
    <3>. QED
        BY <1>4, <3>3
  <2>. QED
      BY <2>1, <2>2
<1>. QED
    BY <1>5, <1>6

LEMMA DeepFindsAll == ASSUME FoldedTree, BuildsStayApart, todo' = Deep PROVE AllFound
<1>1. \A x : x \in Found(Deep) <=> \E p \in Walked : \E eco \in Due(p) : x = Key(p, eco)
    BY DeepFinds
<1>2. Walked \subseteq DOMAIN world.tree /\ Visible \subseteq DOMAIN world.tree
    BY WalkedIsApart DEF FoldedTree, Visible
<1>3. ASSUME NEW p \in Walked, NEW eco \in Due(p) PROVE \E q \in Visible : \E e \in Due(q) : Key(p, eco) = Key(q, e)
  <2>1. p \in Visible
      BY WalkedIsVisible DEF FoldedTree
  <2>. QED
      BY <2>1
<1>4. ASSUME NEW p \in Visible, NEW eco \in Due(p) PROVE \E q \in Walked : \E e \in Due(q) : Key(p, eco) = Key(q, e)
  <2>1. PICK q \in Walked : world.tree[q].identity = world.tree[p].identity
      BY VisibleIsMet
  <2>2. Due(q) = Due(p)
      BY <1>2, <2>1, DueAlike
  <2>3. Key(p, eco) = Key(q, eco)
      BY <2>1 DEF Key
  <2>. QED
      BY <2>2, <2>3
<1>5. Found(todo') = UNION {{Key(p, eco) : eco \in Due(p)} : p \in Visible}
    BY <1>1, <1>3, <1>4
<1>. QED
    BY <1>5 DEF AllFound

\* A recursive scan leaves out no directory that can be seen without a pruned name,
\* whatever the alphabet makes the walk meet first and however mounts fold the tree, as
\* long as none leads into a build tree from outside (discoverProjects, skipWalkDir).
THEOREM AllResolved == Spec => NothingLeftOut
<1>1. Resolving /\ [Next]_vars => [Discover /\ opt.recurse /\ BuildsStayApart => AllFound]_vars
  <2>. SUFFICES ASSUME Resolving, Discover, opt.recurse, BuildsStayApart PROVE AllFound
      BY DEF vars
  <2>1. FoldedTree
      BY TreesAreTrees DEF Resolving
  <2>2. todo' = Deep
      BY DEF Discover
  <2>. QED
      BY <2>1, <2>2, DeepFindsAll
<1>2. Spec => []Resolving
    BY InitResolving, StepResolves, PTL DEF Spec
<1>. QED
    BY <1>1, <1>2, PTL DEF Spec, NothingLeftOut

-----------------------------------------------------------------------------
(***************************************************************************)
(* A whole graph, whatever is read and merged.                             *)
(***************************************************************************)
LEMMA ReconstructedWhole ==
    ASSUME Whole(g), NEW lost
    PROVE  Whole(Reconstructed(lost)) /\ Kept(g, Reconstructed(lost))
<1>. DEFINE requires == [id \in Pins \ lost |-> world.publishes[<<id.name, id.ver>>]]
            S == FlatPython
            body(f) == [T \in SUBSET S |->
                           IF T = {} THEN g ELSE Reconstruct(f[T \ {OneOf(T)}], OneOf(T), requires)]
            iter == CHOOSE f : f = body(f)
<1>1. Reconstructed(lost) = iter[S]
    BY DEF Reconstructed, FoldSet, MapThenFoldSet, OneOf
<1>2. IsFiniteSet(S) /\ S \subseteq g.roots /\ \A r \in S : r.eco = "pypi"
  <2>1. S \subseteq g.roots /\ \A r \in S : r.eco = "pypi"
      BY DEF FlatPython
  <2>2. IsFiniteSet(g.roots)
      BY DEF Whole
  <2>. QED
      BY <2>1, <2>2, FS_Subset
<1>. HIDE DEF S, requires
<1>3. PICK f : f = body(f)
  <2>1. PICK f : InTurn(f, g, S, requires)
      BY <1>2, TurnsTaken, Zenon
  <2>2. f = body(f)
      BY <2>1, Zenon DEF InTurn
  <2>. QED
      BY <2>2
<1>4. iter = body(iter)
  <2>. HIDE DEF body
  <2>. QED
      BY <1>3
<1>5. InTurn(iter, g, S, requires)
  <2>. HIDE DEF iter
  <2>. QED
      BY <1>4 DEF InTurn
<1>6. Whole(iter[S]) /\ Kept(g, iter[S])
  <2>. HIDE DEF iter
  <2>. QED
      BY <1>2, <1>5, TurnsWhole
<1>. QED
    BY <1>1, <1>6

\* What is pinned beneath a Python project is a node.
LEMMA PinsAreNodes == ASSUME Whole(g) PROVE Pins \subseteq DOMAIN g.at
BY DEF Pins, FlatPython, Whole, Joins, Dangles

LEMMA ReadWhole == ASSUME NEW d, Legible(d), ~Fails(d) PROVE Whole(Read(d))
<1>1. CASE d.eco = "npm"
    BY <1>1, NpmWhole DEF Legible, Read, OtherFormats
<1>2. CASE d.eco = "pypi"
    BY <1>2, PypiWhole DEF Legible, Read, OtherFormats
<1>3. CASE d.eco \notin {"npm", "pypi"}
  <2>1. d.eco \in DOMAIN OtherFormats /\ OtherFile(d) /\ ~OtherFails(d)
      BY <1>3 DEF Legible, Fails
  <2>2. Read(d) = ReadOther(d)
      BY <1>3 DEF Read
  <2>. QED
      BY <2>1, <2>2, OtherWhole
<1>. QED
    BY <1>1, <1>2, <1>3

\* A file's format is one of those that its adapter reads.
LEMMA FormatListed ==
    ASSUME NEW d, Legible(d)
    PROVE  /\ DOMAIN Formats(d.eco) \subseteq Nat
           /\ \E k \in DOMAIN Formats(d.eco) : Formats(d.eco)[k] = d.format
<1>1. CASE d.eco = "npm"
  <2>1. Formats(d.eco) = NpmFormats /\ NpmFile(d)
      BY <1>1 DEF Formats, Legible, OtherFormats
  <2>2. d.format \in {"package-lock", "pnpm", "yarn", "bun", "package.json"}
      BY <2>1 DEF NpmFile
  <2>3. /\ DOMAIN NpmFormats = 1..5 /\ NpmFormats[1] = "package-lock" /\ NpmFormats[2] = "pnpm"
        /\ NpmFormats[3] = "yarn" /\ NpmFormats[4] = "bun" /\ NpmFormats[5] = "package.json"
      BY DEF NpmFormats
  <2>4. 1 \in 1..5 /\ 2 \in 1..5 /\ 3 \in 1..5 /\ 4 \in 1..5 /\ 5 \in 1..5 /\ 1..5 \subseteq Nat
      OBVIOUS
  <2>. QED
      BY <2>1, <2>2, <2>3, <2>4
<1>2. CASE d.eco = "pypi"
  <2>1. Formats(d.eco) = PyFormats /\ PypiFile(d)
      BY <1>2 DEF Formats, Legible, OtherFormats
  <2>2. d.format \in {"uv", "poetry", "pdm", "pylock", "pipfile", "requirements", "Pipfile", "pyproject", "setup.py"}
      BY <2>1 DEF PypiFile, NamedLock
  <2>3. /\ DOMAIN PyFormats = 1..9 /\ PyFormats[1] = "uv" /\ PyFormats[2] = "poetry" /\ PyFormats[3] = "pdm"
        /\ PyFormats[4] = "pylock" /\ PyFormats[5] = "pipfile" /\ PyFormats[6] = "requirements"
        /\ PyFormats[7] = "Pipfile" /\ PyFormats[8] = "pyproject" /\ PyFormats[9] = "setup.py"
      BY DEF PyFormats
  <2>4. /\ 1 \in 1..9 /\ 2 \in 1..9 /\ 3 \in 1..9 /\ 4 \in 1..9 /\ 5 \in 1..9 /\ 6 \in 1..9
        /\ 7 \in 1..9 /\ 8 \in 1..9 /\ 9 \in 1..9 /\ 1..9 \subseteq Nat
      OBVIOUS
  <2>. QED
      BY <2>1, <2>2, <2>3, <2>4
<1>3. CASE d.eco \notin {"npm", "pypi"}
  <2>1. d.eco \in DOMAIN OtherFormats /\ OtherFile(d) /\ Formats(d.eco) = OtherFormats[d.eco]
      BY <1>3 DEF Legible, Formats
  <2>2. DOMAIN OtherFormats[d.eco] \subseteq Nat
    <3>1. d.eco \in {"cargo", "composer", "gem", "nuget", "gomod", "clojure"}
        BY <2>1 DEF OtherFormats
    <3>. QED
        BY <3>1 DEF OtherFormats
  <2>. QED
      BY <2>1, <2>2 DEF OtherFile
<1>. QED
    BY <1>1, <1>2, <1>3

\* An adapter that claims a directory reads one of its files.
LEMMA ChosenLies ==
    ASSUME FoldedTree, NEW p \in DOMAIN world.tree, NEW eco \in Claims(p)
    PROVE  Chosen(p, eco) \in world.tree[p].docs /\ Legible(Chosen(p, eco))
<1>. DEFINE files == {d \in world.tree[p].docs : d.eco = eco}
            rank(d) == CHOOSE k \in DOMAIN Formats(eco) : Formats(eco)[k] = d.format
            ranks == {rank(d) : d \in files}
            c == CHOOSE d \in files : \A e \in files : rank(d) <= rank(e)
<1>1. \A d \in files : rank(d) \in Nat
  <2>. SUFFICES ASSUME NEW d \in files PROVE rank(d) \in Nat
      OBVIOUS
  <2>1. Legible(d) /\ d.eco = eco
      BY DEF FoldedTree
  <2>2. DOMAIN Formats(eco) \subseteq Nat /\ \E k \in DOMAIN Formats(eco) : Formats(eco)[k] = d.format
      BY <2>1, FormatListed
  <2>. QED
      BY <2>2
<1>2. files # {}
    BY DEF Claims
<1>. HIDE DEF rank, files
<1>3. ranks \subseteq Nat /\ ranks # {}
    BY <1>1, <1>2
<1>4. Min(ranks) \in ranks /\ \A k \in ranks : Min(ranks) <= k
  <2>. HIDE DEF ranks
  <2>. QED
      BY <1>3, LeastIn
<1>5. \E d \in files : \A e \in files : rank(d) <= rank(e)
    BY <1>4
<1>6. c \in files
    BY <1>5
<1>7. Chosen(p, eco) = c
    BY DEF Chosen, files, rank
<1>. QED
    BY <1>6, <1>7 DEF files, FoldedTree

\* What is not read stands as a root of its own.
LEMMA UnreadWhole == ASSUME NEW eco, NEW path, NEW what, IsFiniteSet(what) PROVE Whole(Unread(eco, path, what))
<1>. DEFINE root == Id(eco, BaseName(path), "0.0.0", "none")
<1>1. root.src \in Sources
    BY IdParts DEF Classes
<1>2. Unread(eco, path, what) = Graph(Only(root, [Leaves(what) EXCEPT !.class = "path"]), {}, {root})
    BY DEF Unread
<1>. HIDE DEF root
<1>. QED
    BY <1>1, <1>2, OpenFirm DEF Firm

-----------------------------------------------------------------------------
(***************************************************************************)
(* What is to be resolved can be read, or is a finite list of what cannot. *)
(***************************************************************************)
Fit(p) ==
    \/ p.eco \in {"unscanned", "coverage-note"} /\ IsFiniteSet(p.unread)
    \/ p.eco \notin {"unscanned", "coverage-note"} /\ p.path \in DOMAIN world.tree /\ p.eco \in Claims(p.path)

AllFit(list) == \A k \in DOMAIN list : Fit(list[k])

LEMMA GapsFinite == ASSUME FoldedTree, NEW p \in DOMAIN world.tree PROVE IsFiniteSet(Gaps(p))
<1>. DEFINE files == IF world.tree[p].readable THEN world.tree[p].files ELSE {}
            S == {x \in files : IsGapManifest(x) \/ x.name \in AgentConfig}
            name == [x \in S |-> x.name]
<1>1. IsFiniteSet(files)
    BY FS_EmptySet DEF FoldedTree
<1>2. IsFiniteSet(S)
  <2>. HIDE DEF files
  <2>. QED
      BY <1>1, FS_Subset
<1>3. Gaps(p) = {x.name : x \in S}
    BY Zenon DEF Gaps
<1>. HIDE DEF S
<1>4. Gaps(p) = {name[x] : x \in DOMAIN name} /\ DOMAIN name = S
    BY <1>3
<1>. HIDE DEF name
<1>. QED
    BY <1>2, <1>4, FiniteValues

LEMMA LeftOutFinite == ASSUME FoldedTree, NEW scanned PROVE IsFiniteSet(LeftOut(scanned))
<1>. DEFINE ecos == {ByName[i] : i \in DOMAIN ByName}
<1>1. IsFiniteSet(ecos)
  <2>1. PICK n \in Nat : DOMAIN ByName = 1..n
      BY Registries DEF Registry
  <2>2. IsFiniteSet(DOMAIN ByName)
      BY <2>1, FS_Interval
  <2>. QED
      BY <2>2, FiniteValues
<1>2. IsFiniteSet(Walked) /\ Walked \subseteq DOMAIN world.tree
    BY WalkedIsApart DEF FoldedTree
<1>3. \A p \in Walked : Claims(p) \subseteq ecos
    BY <1>2, AllRegistered
<1>. HIDE DEF ecos
<1>4. LeftOut(scanned) \subseteq ecos \X Walked
    BY <1>3 DEF LeftOut
<1>5. IsFiniteSet(ecos \X Walked)
    BY <1>1, <1>2, FS_Product
<1>. QED
    BY <1>4, <1>5, FS_Subset

LEMMA FitJoined ==
    ASSUME NEW s, NEW t, Listing(s), Listing(t), AllFit(s), AllFit(t)
    PROVE  Listing(s \o t) /\ AllFit(s \o t)
<1>1. DOMAIN s = 1..Len(s) /\ DOMAIN t = 1..Len(t) /\ Len(s) \in Nat /\ Len(t) \in Nat
    BY DEF Listing
<1>2. /\ Listing(s \o t) /\ DOMAIN (s \o t) = 1..(Len(s) + Len(t))
      /\ \A k \in 1..Len(s) : (s \o t)[k] = s[k]
      /\ \A k \in (Len(s) + 1)..(Len(s) + Len(t)) : k - Len(s) \in 1..Len(t) /\ (s \o t)[k] = t[k - Len(s)]
    BY Joined DEF Listing
<1>3. SUFFICES ASSUME NEW k \in 1..(Len(s) + Len(t)) PROVE Fit((s \o t)[k])
    BY <1>2 DEF AllFit
<1>4. k \in 1..Len(s) \/ k \in (Len(s) + 1)..(Len(s) + Len(t))
    BY <1>1
<1>5. CASE k \in 1..Len(s)
    BY <1>1, <1>2, <1>5 DEF AllFit
<1>6. CASE k \in (Len(s) + 1)..(Len(s) + Len(t))
    BY <1>1, <1>2, <1>6 DEF AllFit
<1>. QED
    BY <1>4, <1>5, <1>6

LEMMA OneFit ==
    ASSUME NEW path, NEW eco \in {"unscanned", "coverage-note"}, NEW what, IsFiniteSet(what)
    PROVE  Listing(<<Project(path, eco, what)>>) /\ AllFit(<<Project(path, eco, what)>>)
<1>. DEFINE s == <<Project(path, eco, what)>>
<1>1. Listing(s)
    BY OneOnce DEF Once
<1>2. DOMAIN s = {1} /\ s[1] = Project(path, eco, what)
    OBVIOUS
<1>. HIDE DEF s
<1>3. AllFit(s)
    BY <1>2 DEF AllFit, Fit, Project
<1>. QED
    BY <1>1, <1>3 DEF s

LEMMA DeepFit == ASSUME FoldedTree PROVE AllFit(Deep)
<1>. DEFINE P == ProjectsIn(Walked, ByName)
            G == ManifestGaps(Walked)
<1>1. Walked \subseteq DOMAIN world.tree /\ Walked \subseteq Path /\ IsFiniteSet(Walked) /\ Apart(Walked)
    BY WalkedIsApart DEF FoldedTree
<1>2. Listing(P) /\ AllFit(P)
  <2>1. /\ Listing(P)
        /\ \A k \in DOMAIN P : /\ P[k].path \in Walked /\ P[k].eco \in Claims(P[k].path)
                               /\ \E i \in DOMAIN ByName : P[k].eco = ByName[i]
      BY <1>1, ProjectsAreApart, Registries
  <2>. HIDE DEF P
  <2>2. \A k \in DOMAIN P : P[k].eco \notin {"unscanned", "coverage-note"}
      BY <2>1, Registries
  <2>. QED
      BY <1>1, <2>1, <2>2 DEF AllFit, Fit
<1>3. Listing(G) /\ AllFit(G)
  <2>1. /\ Listing(G)
        /\ \A k \in DOMAIN G : G[k].eco = "unscanned" /\ G[k].path \in Walked /\ G[k].unread = Gaps(G[k].path)
      BY <1>1, GapsOnce DEF Once
  <2>. HIDE DEF G
  <2>2. \A k \in DOMAIN G : IsFiniteSet(G[k].unread)
      BY <1>1, <2>1, GapsFinite
  <2>. QED
      BY <2>1, <2>2 DEF AllFit, Fit
<1>4. Deep = P \o G
    BY DEF Deep
<1>. HIDE DEF P, G
<1>. QED
    BY <1>2, <1>3, <1>4, FitJoined

LEMMA ShallowFit == ASSUME FoldedTree PROVE AllFit(Shallow)
<1>. DEFINE here == ProjectsIn({<<>>}, Adapters)
            gap == Project(<<>>, "unscanned", Gaps(<<>>))
            all == IF here # <<>> \/ Gaps(<<>>) = {} THEN here ELSE <<gap>>
            note(notes) == Project(<<>>, "coverage-note", notes)
            missing == LeftOut(IF all = <<>> THEN {} ELSE {<<>>})
<1>1. {<<>>} \subseteq Path /\ IsFiniteSet({<<>>}) /\ <<>> \in DOMAIN world.tree
    BY FS_Singleton DEF Path, FoldedTree
<1>2. Listing(here) /\ AllFit(here)
  <2>1. /\ Listing(here)
        /\ \A k \in DOMAIN here : /\ here[k].path \in {<<>>} /\ here[k].eco \in Claims(here[k].path)
                                  /\ \E i \in DOMAIN Adapters : here[k].eco = Adapters[i]
      BY <1>1, ProjectsAreApart, Registries
  <2>. HIDE DEF here
  <2>2. \A k \in DOMAIN here : here[k].eco \notin {"unscanned", "coverage-note"}
      BY <2>1, Registries
  <2>. QED
      BY <1>1, <2>1, <2>2 DEF AllFit, Fit
<1>3. Listing(<<gap>>) /\ AllFit(<<gap>>)
    BY <1>1, GapsFinite, OneFit
<1>4. IsFiniteSet(missing)
  <2>. DEFINE scanned == IF all = <<>> THEN {} ELSE {<<>>}
  <2>. HIDE DEF scanned
  <2>1. IsFiniteSet(LeftOut(scanned))
      BY LeftOutFinite
  <2>. QED
      BY <2>1 DEF scanned
<1>5. Shallow = IF missing = {} THEN all ELSE Append(all, note(missing))
    BY Zenon DEF Shallow
<1>. HIDE DEF here, gap, missing
<1>6. Listing(all) /\ AllFit(all)
    BY <1>2, <1>3
<1>. HIDE DEF all
<1>7. Listing(<<note(missing)>>) /\ AllFit(<<note(missing)>>)
    BY <1>4, OneFit
<1>. HIDE DEF note
<1>8. Append(all, note(missing)) = all \o <<note(missing)>>
  <2>1. all \in Seq({all[k] : k \in DOMAIN all})
      BY <1>6 DEF Listing
  <2>. QED
      BY <2>1
<1>9. AllFit(all \o <<note(missing)>>)
    BY <1>6, <1>7, FitJoined
<1>. QED
    BY <1>5, <1>6, <1>8, <1>9

LEMMA TailFit ==
    ASSUME NEW list, Listing(list), AllFit(list), list # <<>>
    PROVE  Fit(Head(list)) /\ AllFit(Tail(list))
<1>1. list \in Seq({list[k] : k \in DOMAIN list})
    BY DEF Listing
<1>. DEFINE rest == Tail(list)
<1>2. /\ 1 \in DOMAIN list /\ Head(list) = list[1]
      /\ \A k \in DOMAIN rest : k + 1 \in DOMAIN list /\ rest[k] = list[k + 1]
    BY <1>1
<1>. HIDE DEF rest
<1>3. AllFit(rest)
    BY <1>2 DEF AllFit
<1>. QED
    BY <1>2, <1>3 DEF AllFit, rest

-----------------------------------------------------------------------------
\* What is to be resolved can be, what has been is whole, and the stages follow on.
Ready ==
    /\ Resolving /\ AllFit(todo) /\ Whole(g)
    /\ stage \in {"discover", "resolve", "report", "done"}
    /\ exit \in {"none", "clean", "incomplete", "internal"} /\ (exit # "none") = (stage = "done")
    /\ unfetched \subseteq DOMAIN g.at

LEMMA ReadyIsTyped == ASSUME Ready PROVE TypeOK
<1>1. \A e \in g.edges : e[1] \in DOMAIN g.at /\ (e[2] \in DOMAIN g.at \/ Dangles(e))
    BY DEF Ready, Whole, Joins
<1>2. \A id \in DOMAIN g.at : g.at[id].count >= 0 /\ id.src \in {"registry", "git", "path", "url"}
  <2>1. \A id \in DOMAIN g.at : g.at[id].count \in Nat /\ id.src \in Sources
      BY DEF Ready, Whole, Sound
  <2>. QED
      BY <2>1 DEF Sources
<1>3. g.roots \subseteq DOMAIN g.at /\ (g.roots = {} => DOMAIN g.at = {})
    BY DEF Ready, Whole
<1>. QED
    BY <1>1, <1>2, <1>3 DEF Ready, TypeOK

LEMMA InitReady == ASSUME Init PROVE Ready
<1>1. AllFit(<<>>)
    BY DEF AllFit
<1>2. Resolving /\ Whole(g)
    BY InitResolving, Whole0 DEF Init
<1>. QED
    BY <1>1, <1>2 DEF Init, Ready

LEMMA DiscoverReady == ASSUME Ready, Discover PROVE Ready'
<1>1. FoldedTree
    BY TreesAreTrees DEF Ready, Resolving
<1>2. AllFit(todo')
    BY <1>1, DeepFit, ShallowFit DEF Discover
<1>3. Resolving' /\ UNCHANGED <<world, g, unfetched>>
    BY StepResolves DEF Ready, Next, Discover
<1>4. AllFit(todo)'
    BY <1>2, <1>3 DEF AllFit, Fit, Claims
<1>5. /\ stage' \in {"resolve", "done"}
      /\ exit' \in {"none", "clean", "incomplete"} /\ (exit' # "none") = (stage' = "done")
    BY DEF Discover, Ready
<1>. QED
    BY <1>3, <1>4, <1>5 DEF Ready

LEMMA ResolveReady == ASSUME Ready, Resolve PROVE Ready'
<1>. DEFINE p == Head(todo)
<1>1. FoldedTree
    BY TreesAreTrees DEF Ready, Resolving
<1>2. Fit(p) /\ AllFit(todo')
    BY TailFit DEF Ready, Resolving, Once, Resolve
<1>3. Resolving' /\ UNCHANGED <<world, stage, unfetched, exit>>
    BY StepResolves DEF Ready, Next, Resolve
<1>4. AllFit(todo)'
    BY <1>2, <1>3 DEF AllFit, Fit, Claims
<1>5. g' = g \/ \E h : Whole(h) /\ g' = Merge(g, h)
  <2>1. CASE p.eco \in {"unscanned", "coverage-note"}
    <3>1. Whole(Unread(p.eco, p.path, p.unread))
        BY <1>2, <2>1, UnreadWhole DEF Fit
    <3>2. g' = Merge(g, Unread(p.eco, p.path, p.unread))
        BY <2>1 DEF Resolve
    <3>. QED
        BY <3>1, <3>2
  <2>2. CASE p.eco \notin {"unscanned", "coverage-note"} /\ Fails(Chosen(p.path, p.eco))
      BY <2>2 DEF Resolve
  <2>3. CASE p.eco \notin {"unscanned", "coverage-note"} /\ ~Fails(Chosen(p.path, p.eco))
    <3>1. p.path \in DOMAIN world.tree /\ p.eco \in Claims(p.path)
        BY <1>2, <2>3 DEF Fit
    <3>2. Legible(Chosen(p.path, p.eco))
        BY <1>1, <3>1, ChosenLies
    <3>3. Whole(Read(Chosen(p.path, p.eco)))
        BY <2>3, <3>2, ReadWhole
    <3>4. g' = Merge(g, Read(Chosen(p.path, p.eco)))
        BY <2>3 DEF Resolve
    <3>. QED
        BY <3>3, <3>4
  <2>. QED
      BY <2>1, <2>2, <2>3
<1>6. Whole(g') /\ DOMAIN g.at \subseteq DOMAIN g'.at
  <2>1. ASSUME NEW h, Whole(h), g' = Merge(g, h) PROVE Whole(g') /\ DOMAIN g.at \subseteq DOMAIN g'.at
    <3>1. Whole(g')
        BY <2>1, MergedWhole DEF Ready
    <3>2. DOMAIN g'.at = DOMAIN g.at \cup DOMAIN h.at
        BY <2>1 DEF Merge, Graph, Over
    <3>. QED
        BY <3>1, <3>2
  <2>. QED
      BY <1>5, <2>1 DEF Ready
<1>7. Whole(g)'
    BY <1>6 DEF Whole, Joins, Sound, Graph, Dangles
<1>. QED
    BY <1>3, <1>4, <1>6, <1>7 DEF Ready

LEMMA ReconstructReady == ASSUME Ready, ReconstructDepth PROVE Ready'
<1>1. PICK lost \in SUBSET Pins : unfetched' = lost /\ g' = Reconstructed(lost)
    BY DEF ReconstructDepth
<1>2. Whole(g') /\ DOMAIN g'.at = DOMAIN g.at
    BY <1>1, ReconstructedWhole DEF Ready, Kept
<1>3. unfetched' \subseteq DOMAIN g'.at
    BY <1>1, <1>2, PinsAreNodes DEF Ready
<1>4. Resolving' /\ UNCHANGED <<world, todo, exit>> /\ stage = "resolve" /\ stage' = "report"
    BY StepResolves DEF Ready, Next, ReconstructDepth
<1>5. AllFit(todo)'
    BY <1>4 DEF Ready, AllFit, Fit, Claims
<1>6. Whole(g)'
    BY <1>2 DEF Whole, Joins, Sound, Graph, Dangles
<1>. QED
    BY <1>3, <1>4, <1>5, <1>6 DEF Ready

LEMMA StepReady == ASSUME Ready, [Next]_vars PROVE Ready'
<1>1. CASE NothingResolved \/ Report \/ UNCHANGED vars
  <2>1. Resolving' /\ UNCHANGED <<world, todo, g, unfetched>>
      BY <1>1, StepResolves DEF Ready, NothingResolved, Report, vars
  <2>2. AllFit(todo)'
      BY <2>1 DEF Ready, AllFit, Fit, Claims
  <2>3. Whole(g)'
      BY <2>1 DEF Ready, Whole, Joins, Sound, Graph, Dangles
  <2>4. /\ stage' \in {"discover", "resolve", "report", "done"}
        /\ exit' \in {"none", "clean", "incomplete", "internal"} /\ (exit' # "none") = (stage' = "done")
      BY <1>1 DEF Ready, NothingResolved, Report, vars
  <2>. QED
      BY <2>1, <2>2, <2>3, <2>4 DEF Ready
<1>. QED
    BY <1>1, DiscoverReady, ResolveReady, ReconstructReady DEF Next

\* Whatever files lie in the tree, in whatever format and however broken, and whichever
\* projects fail or fetches are lost, the merged graph stays whole: every edge leads
\* from a node to a node, or to the workspace member npm.go links to without one; what
\* has nodes has a root; and no count of what is left open falls below zero (the parsers
\* of every ecosystem, graph.go, pydepth.go).
THEOREM GraphIsWhole == Spec => []TypeOK
<1>1. Spec => []Ready
    BY InitReady, StepReady, PTL DEF Spec
<1>2. Ready => TypeOK
    BY ReadyIsTyped
<1>. QED
    BY <1>1, <1>2, PTL

-----------------------------------------------------------------------------
(***************************************************************************)
(* What is left open is counted.                                           *)
(***************************************************************************)
\* The sums of the counts of each set.
Sums(f, c, S) == f = [T \in SUBSET S |-> IF T = {} THEN 0 ELSE c[OneOf(T)] + f[T \ {OneOf(T)}]]

LEMMA SumsTaken ==
    ASSUME NEW S, IsFiniteSet(S), NEW c
    PROVE  \E f : Sums(f, c, S)
<1>. DEFINE N == Cardinality(S)
            upTo(n) == {T \in SUBSET S : Cardinality(T) <= n}
            sum(f, T) == IF T = {} THEN 0 ELSE c[OneOf(T)] + f[T \ {OneOf(T)}]
            taken(n, f) == f = [T \in upTo(n) |-> sum(f, T)]
            A == {n \in 0..N : \E f : taken(n, f)}
<1>1. N \in Nat /\ \A T \in SUBSET S : Cardinality(T) \in Nat /\ Cardinality(T) <= N
    BY FS_CardinalityType, FS_Subset
<1>2. \A T \in SUBSET S : T # {} => T \ {OneOf(T)} \in SUBSET S /\ Cardinality(T \ {OneOf(T)}) = Cardinality(T) - 1
    BY OneOfIn
<1>3. 0 \in A
  <2>. DEFINE f == [T \in upTo(0) |-> 0]
  <2>1. \A T \in upTo(0) : T = {}
    <3>. SUFFICES ASSUME NEW T \in SUBSET S, Cardinality(T) <= 0, T # {} PROVE FALSE
        OBVIOUS
    <3>1. Cardinality(T \ {OneOf(T)}) = Cardinality(T) - 1 /\ T \ {OneOf(T)} \in SUBSET S
        BY <1>2
    <3>. QED
        BY <1>1, <3>1
  <2>2. f = [T \in upTo(0) |-> sum(f, T)]
    <3>. HIDE DEF upTo
    <3>. QED
        BY <2>1
  <2>. HIDE DEF f, upTo, sum
  <2>3. \E h : taken(0, h)
      BY <2>2
  <2>4. 0 \in 0..N
    <3>. HIDE DEF N
    <3>. QED
        BY <1>1
  <2>. HIDE DEF taken, N
  <2>. QED
      BY <2>3, <2>4
<1>4. \A n \in 1..N : n - 1 \in A => n \in A
  <2>. SUFFICES ASSUME NEW n \in 1..N, NEW f, taken(n - 1, f) PROVE \E h : taken(n, h)
    <3>1. \A i \in 1..N : i \in 0..N
        BY <1>1
    <3>. HIDE DEF taken
    <3>. QED
        BY <3>1
  <2>. DEFINE h == [T \in upTo(n) |-> IF T \in upTo(n - 1) THEN f[T] ELSE sum(f, T)]
  <2>1. \A T \in upTo(n) : T # {} => T \ {OneOf(T)} \in upTo(n - 1) /\ T \ {OneOf(T)} \in upTo(n)
    <3>. SUFFICES ASSUME NEW T \in upTo(n), T # {}
                  PROVE  T \ {OneOf(T)} \in upTo(n - 1) /\ T \ {OneOf(T)} \in upTo(n)
        OBVIOUS
    <3>1. Cardinality(T) \in Nat /\ Cardinality(T) <= n /\ Cardinality(T \ {OneOf(T)}) = Cardinality(T) - 1
        BY <1>1, <1>2
    <3>. DEFINE U == T \ {OneOf(T)}
    <3>2. U \in SUBSET S /\ Cardinality(U) = Cardinality(T) - 1
        BY <1>2
    <3>. HIDE DEF U
    <3>3. Cardinality(U) <= n - 1 /\ Cardinality(U) <= n
        BY <3>1, <3>2
    <3>. QED
        BY <3>2, <3>3 DEF U
  <2>2. \A T \in upTo(n - 1) : f[T] = sum(f, T)
    <3>. HIDE DEF sum, upTo
    <3>. QED
        OBVIOUS
  <2>3. \A T \in upTo(n) : h[T] = sum(f, T)
    <3>. HIDE DEF sum, upTo
    <3>. QED
        BY <2>2
  <2>4. \A T \in upTo(n - 1) : T \in upTo(n) => h[T] = f[T]
    <3>. HIDE DEF sum, upTo
    <3>. QED
        OBVIOUS
  <2>5. \A T \in upTo(n) : sum(f, T) = sum(h, T)
    <3>. SUFFICES ASSUME NEW T \in upTo(n), T # {} PROVE f[T \ {OneOf(T)}] = h[T \ {OneOf(T)}]
        OBVIOUS
    <3>. HIDE DEF h, upTo
    <3>. QED
        BY <2>1, <2>4
  <2>6. h = [T \in upTo(n) |-> sum(h, T)]
    <3>1. h = [T \in upTo(n) |-> h[T]]
      <4>. HIDE DEF upTo, sum
      <4>. QED
          OBVIOUS
    <3>2. \A T \in upTo(n) : h[T] = sum(h, T)
      <4>. HIDE DEF upTo, sum, h
      <4>. QED
          BY <2>3, <2>5
    <3>. HIDE DEF h, upTo, sum
    <3>. QED
        BY <3>1, <3>2
  <2>. QED
      BY <2>6
<1>5. N \in A
  <2>. HIDE DEF A
  <2>1. 0..N \subseteq A
      BY <1>1, <1>3, <1>4, AllCounted
  <2>. QED
      BY <1>1, <2>1
<1>6. PICK f : taken(N, f)
    BY <1>5
<1>7. upTo(N) = SUBSET S
    BY <1>1
<1>8. f = [T \in SUBSET S |-> sum(f, T)]
  <2>. HIDE DEF sum, upTo
  <2>. QED
      BY <1>6, <1>7
<1>. QED
    BY <1>8 DEF Sums

\* A sum of counts is at least each of them.
LEMMA SumsCover ==
    ASSUME NEW S, IsFiniteSet(S), NEW c, \A x \in S : c[x] \in Nat, NEW f, Sums(f, c, S)
    PROVE  f[S] \in Nat /\ \A x \in S : c[x] <= f[S]
<1>. DEFINE N == Cardinality(S)
            covers(T) == f[T] \in Nat /\ \A x \in T : c[x] <= f[T]
            A == {n \in 0..N : \A T \in SUBSET S : Cardinality(T) = n => covers(T)}
<1>1. N \in Nat /\ \A T \in SUBSET S : Cardinality(T) \in Nat /\ Cardinality(T) <= N
    BY FS_CardinalityType, FS_Subset
<1>2. \A T \in SUBSET S : f[T] = IF T = {} THEN 0 ELSE c[OneOf(T)] + f[T \ {OneOf(T)}]
    BY DEF Sums
<1>3. \A T \in SUBSET S : T # {} => /\ OneOf(T) \in T /\ T \ {OneOf(T)} \in SUBSET S
                                    /\ Cardinality(T \ {OneOf(T)}) = Cardinality(T) - 1
    BY OneOfIn
<1>4. 0 \in A
  <2>1. \A T \in SUBSET S : Cardinality(T) = 0 => T = {}
    <3>. SUFFICES ASSUME NEW T \in SUBSET S, Cardinality(T) = 0, T # {} PROVE FALSE
        OBVIOUS
    <3>1. Cardinality(T \ {OneOf(T)}) = 0 - 1 /\ T \ {OneOf(T)} \in SUBSET S
        BY <1>3
    <3>. QED
        BY <1>1, <3>1
  <2>2. covers({})
    <3>1. {} \in SUBSET S
        OBVIOUS
    <3>2. f[{}] = 0
        BY <1>2, <3>1
    <3>. QED
        BY <3>2
  <2>. HIDE DEF covers
  <2>. QED
      BY <1>1, <2>1, <2>2
<1>5. \A n \in 1..N : n - 1 \in A => n \in A
  <2>. SUFFICES ASSUME NEW n \in 1..N, \A T \in SUBSET S : Cardinality(T) = n - 1 => covers(T),
                       NEW T \in SUBSET S, Cardinality(T) = n
                PROVE  covers(T)
    <3>1. \A i \in 1..N : i \in 0..N
        BY <1>1
    <3>. HIDE DEF covers
    <3>. QED
        BY <3>1
  <2>1. T # {}
    <3>. SUFFICES ASSUME T = {} PROVE FALSE
        OBVIOUS
    <3>1. Cardinality(T) = 0
        BY FS_EmptySet
    <3>. HIDE DEF N
    <3>. QED
        BY <1>1, <3>1
  <2>. DEFINE U == T \ {OneOf(T)}
              r == OneOf(T)
  <2>2. covers(U)
    <3>1. U \in SUBSET S /\ Cardinality(U) = n - 1
        BY <1>3, <2>1
    <3>. HIDE DEF covers, U
    <3>. QED
        BY <3>1
  <2>3. f[T] = c[r] + f[U] /\ c[r] \in Nat /\ U \subseteq S /\ \A x \in T : x = r \/ x \in U
      BY <1>2, <1>3, <2>1
  <2>. HIDE DEF U, r
  <2>. QED
      BY <2>2, <2>3
<1>6. N \in A
  <2>. HIDE DEF A
  <2>1. 0..N \subseteq A
      BY <1>1, <1>4, <1>5, AllCounted
  <2>. QED
      BY <1>1, <2>1
<1>7. S \in SUBSET S /\ Cardinality(S) = N
    OBVIOUS
<1>. HIDE DEF N
<1>8. covers(S)
  <2>. HIDE DEF covers
  <2>. QED
      BY <1>6, <1>7
<1>. QED
    BY <1>8

\* What one node leaves open is in the total.
LEMMA OpenIsTotalled ==
    ASSUME NEW h, IsFiniteSet(DOMAIN h.at), \A id \in DOMAIN h.at : h.at[id].count \in Nat
    PROVE  Unresolved(h) \in Nat /\ \A id \in DOMAIN h.at : h.at[id].count <= Unresolved(h)
<1>. DEFINE S == DOMAIN h.at
            c == [id \in S |-> h.at[id].count]
            body(f) == [T \in SUBSET S |-> IF T = {} THEN 0 ELSE h.at[OneOf(T)].count + f[T \ {OneOf(T)}]]
            iter == CHOOSE f : f = body(f)
<1>1. Unresolved(h) = iter[S]
    BY DEF Unresolved, MapThenSumSet, MapThenFoldSet, OneOf
<1>2. \A T \in SUBSET S : T # {} => c[OneOf(T)] = h.at[OneOf(T)].count
    BY OneOfIn
<1>3. \A f : Sums(f, c, S) <=> f = body(f)
  <2>. SUFFICES ASSUME NEW f PROVE Sums(f, c, S) <=> f = body(f)
      OBVIOUS
  <2>. HIDE DEF S, c
  <2>. QED
      BY <1>2 DEF Sums
<1>4. PICK f : f = body(f)
  <2>1. \E f : Sums(f, c, S)
      BY SumsTaken
  <2>. HIDE DEF body
  <2>. QED
      BY <1>3, <2>1
<1>5. iter = body(iter)
  <2>. HIDE DEF body
  <2>. QED
      BY <1>4
<1>6. Sums(iter, c, S)
  <2>. HIDE DEF iter, body, c, S
  <2>. QED
      BY <1>3, <1>5
<1>7. \A x \in S : c[x] \in Nat /\ c[x] = h.at[x].count
    OBVIOUS
<1>8. iter[S] \in Nat /\ \A x \in S : c[x] <= iter[S]
  <2>. HIDE DEF iter, c
  <2>. QED
      BY <1>6, <1>7, SumsCover
<1>. HIDE DEF iter, c
<1>. QED
    BY <1>1, <1>7, <1>8

LEMMA ReadTame == ASSUME NEW d, Legible(d), ~Fails(d) PROVE Tame(Read(d))
<1>1. CASE d.eco = "npm"
    BY <1>1, NpmTame DEF Legible, Read, OtherFormats
<1>2. CASE d.eco = "pypi"
    BY <1>2, PypiTame DEF Legible, Read, OtherFormats
<1>3. CASE d.eco \notin {"npm", "pypi"}
  <2>1. d.eco \in DOMAIN OtherFormats /\ OtherFile(d) /\ ~OtherFails(d)
      BY <1>3 DEF Legible, Fails
  <2>2. Read(d) = ReadOther(d)
      BY <1>3 DEF Read
  <2>. QED
      BY <2>1, <2>2, OtherTame
<1>. QED
    BY <1>1, <1>2, <1>3

-----------------------------------------------------------------------------
(***************************************************************************)
(* An account of what is scanned.                                          *)
(***************************************************************************)
\* A graph is part of another, but for what reconstruction moves.
Within(h, m) ==
    /\ DOMAIN h.at \subseteq DOMAIN m.at /\ h.roots \subseteq m.roots
    /\ \A e \in h.edges : e \in m.edges \/ (e[1] \in m.roots /\ e[1].eco = "pypi")

\* Something is left open.
Discloses(m) == \E id \in DOMAIN m.at : m.at[id].count > 0

\* A note of what was not read leaves something open.
NotesCount(m) == IsFiniteSet(DOMAIN m.at) /\ \A id \in DOMAIN m.at : id.eco \in Notes => m.at[id].count > 0

LEMMA MergedParts ==
    ASSUME NEW m, NEW h
    PROVE  /\ DOMAIN Merge(m, h).at = DOMAIN m.at \cup DOMAIN h.at
           /\ \A id \in DOMAIN m.at : Merge(m, h).at[id] = m.at[id]
           /\ \A id \in DOMAIN h.at \ DOMAIN m.at : Merge(m, h).at[id] = h.at[id]
           /\ Merge(m, h).edges = m.edges \cup h.edges /\ Merge(m, h).roots = m.roots \cup h.roots
BY DEF Merge, Graph, Over

\* What is in a graph stays there in a merge, and what is merged in is there.
LEMMA MergeKeeps ==
    ASSUME NEW m, NEW h
    PROVE  /\ \A x : Within(x, m) => Within(x, Merge(m, h))
           /\ Within(h, Merge(m, h))
           /\ Discloses(m) => Discloses(Merge(m, h))
           /\ NotesCount(m) /\ NotesCount(h) => NotesCount(Merge(m, h))
<1>. DEFINE n == Merge(m, h)
<1>1. /\ DOMAIN n.at = DOMAIN m.at \cup DOMAIN h.at
      /\ \A id \in DOMAIN m.at : n.at[id] = m.at[id]
      /\ \A id \in DOMAIN h.at \ DOMAIN m.at : n.at[id] = h.at[id]
      /\ n.edges = m.edges \cup h.edges /\ n.roots = m.roots \cup h.roots
    BY MergedParts
<1>. HIDE DEF n
<1>2. \A x : Within(x, m) => Within(x, n)
    BY <1>1 DEF Within
<1>3. Within(h, n)
    BY <1>1 DEF Within
<1>4. Discloses(m) => Discloses(n)
    BY <1>1 DEF Discloses
<1>5. NotesCount(m) /\ NotesCount(h) => NotesCount(n)
  <2>. SUFFICES ASSUME NotesCount(m), NotesCount(h) PROVE NotesCount(n)
      OBVIOUS
  <2>1. IsFiniteSet(DOMAIN m.at \cup DOMAIN h.at)
      BY FS_Union DEF NotesCount
  <2>2. \A id \in DOMAIN n.at : id.eco \in Notes => n.at[id].count > 0
      BY <1>1 DEF NotesCount
  <2>. QED
      BY <1>1, <2>1, <2>2 DEF NotesCount
<1>. QED
    BY <1>2, <1>3, <1>4, <1>5 DEF n

LEMMA ReconstructionKeeps ==
    ASSUME NEW m, NEW n, Kept(m, n)
    PROVE  /\ \A x : Within(x, m) => Within(x, n)
           /\ Discloses(m) => Discloses(n)
           /\ NotesCount(m) => NotesCount(n)
<1>1. \A x : Within(x, m) => Within(x, n)
    BY DEF Within, Kept
<1>. QED
    BY <1>1 DEF Discloses, NotesCount, Kept

\* What is not read stands as a note of it.
LEMMA UnreadDiscloses ==
    ASSUME NEW eco, NEW path, NEW what, IsFiniteSet(what), what # {}
    PROVE  NotesCount(Unread(eco, path, what)) /\ \E id \in DOMAIN Unread(eco, path, what).at : id.eco = eco
<1>. DEFINE root == Id(eco, BaseName(path), "0.0.0", "none")
            a == [Leaves(what) EXCEPT !.class = "path"]
            at == Only(root, a)
<1>1. DOMAIN at = {root} /\ at[root] = a
    BY DEF Only
<1>2. a.count = Cardinality(what)
    BY DEF Leaves, Plain
<1>3. Cardinality(what) > 0
    BY FS_EmptySet, FS_CardinalityType
<1>4. Unread(eco, path, what).at = at
    BY DEF Unread, Graph
<1>5. root.eco = eco
    BY DEF Id
<1>6. IsFiniteSet({root})
    BY FS_Singleton
<1>. HIDE DEF root, a, at
<1>7. NotesCount(Unread(eco, path, what))
    BY <1>1, <1>2, <1>3, <1>4, <1>6 DEF NotesCount
<1>. QED
    BY <1>1, <1>4, <1>5, <1>7

LEMMA TameCounts == ASSUME NEW m, Tame(m) PROVE NotesCount(m)
BY DEF Tame, NotesCount

\* What is open is counted.
LEMMA DisclosedIsCounted == ASSUME NEW m, Whole(m), NotesCount(m), Discloses(m) PROVE Unresolved(m) > 0
<1>1. PICK id \in DOMAIN m.at : m.at[id].count > 0
    BY DEF Discloses
<1>2. IsFiniteSet(DOMAIN m.at) /\ \A i \in DOMAIN m.at : m.at[i].count \in Nat
    BY DEF NotesCount, Whole, Sound
<1>3. Unresolved(m) \in Nat /\ m.at[id].count <= Unresolved(m)
    BY <1>2, OpenIsTotalled
<1>. QED
    BY <1>1, <1>2, <1>3

-----------------------------------------------------------------------------
\* What is to be resolved, by path and ecosystem.
Coming(list) == {<<list[k].path, list[k].eco>> : k \in DOMAIN list}

LEMMA TailComes ==
    ASSUME NEW list, Once(list), list # <<>>
    PROVE  LET c == <<Head(list).path, Head(list).eco>>
           IN  /\ Coming(list) = Coming(Tail(list)) \cup {c} /\ c \notin Coming(Tail(list))
               /\ \E k \in DOMAIN list : list[k] = Head(list)
               /\ \A k \in DOMAIN Tail(list) : \E j \in DOMAIN list : Tail(list)[k] = list[j]
               /\ \A k \in DOMAIN list : list[k] = Head(list) \/ \E j \in DOMAIN Tail(list) : Tail(list)[j] = list[k]
<1>. DEFINE rest == Tail(list)
            first == Head(list)
            c == <<first.path, first.eco>>
<1>1. list \in Seq({list[k] : k \in DOMAIN list})
    BY DEF Once, Listing
<1>2. /\ Len(list) \in Nat /\ DOMAIN list = 1..Len(list) /\ 1 \in DOMAIN list /\ first = list[1]
      /\ DOMAIN rest = 1..(Len(list) - 1)
      /\ \A k \in DOMAIN rest : k + 1 \in DOMAIN list /\ k + 1 # 1 /\ rest[k] = list[k + 1]
    BY <1>1
<1>. HIDE DEF rest, first
<1>3. \A k \in DOMAIN list : k = 1 \/ (k - 1 \in DOMAIN rest /\ (k - 1) + 1 = k)
    BY <1>2
<1>4. \A k \in DOMAIN list : k # 1 => \E j \in DOMAIN rest : rest[j] = list[k]
  <2>. SUFFICES ASSUME NEW k \in DOMAIN list, k # 1 PROVE \E j \in DOMAIN rest : rest[j] = list[k]
      OBVIOUS
  <2>1. k - 1 \in DOMAIN rest /\ (k - 1) + 1 = k
      BY <1>3
  <2>. QED
      BY <1>2, <2>1
<1>5. c \notin Coming(rest)
  <2>. SUFFICES ASSUME NEW k \in DOMAIN rest, <<rest[k].path, rest[k].eco>> = c PROVE FALSE
      BY DEF Coming
  <2>1. k + 1 \in DOMAIN list /\ k + 1 # 1 /\ list[k + 1].path = list[1].path /\ list[k + 1].eco = list[1].eco
      BY <1>2
  <2>. QED
      BY <1>2, <2>1 DEF Once
<1>6. Coming(list) = Coming(rest) \cup {c}
  <2>1. \A x \in Coming(list) : x \in Coming(rest) \cup {c}
    <3>. SUFFICES ASSUME NEW k \in DOMAIN list PROVE <<list[k].path, list[k].eco>> \in Coming(rest) \cup {c}
        BY DEF Coming
    <3>1. CASE k = 1
        BY <1>2, <3>1
    <3>2. CASE k # 1
      <4>1. PICK j \in DOMAIN rest : rest[j] = list[k]
          BY <1>4, <3>2
      <4>. QED
          BY <4>1 DEF Coming
    <3>. QED
        BY <3>1, <3>2
  <2>2. \A x \in Coming(rest) : x \in Coming(list)
    <3>. SUFFICES ASSUME NEW k \in DOMAIN rest PROVE <<rest[k].path, rest[k].eco>> \in Coming(list)
        BY DEF Coming
    <3>1. k + 1 \in DOMAIN list /\ rest[k] = list[k + 1]
        BY <1>2
    <3>. QED
        BY <3>1 DEF Coming
  <2>3. c \in Coming(list)
      BY <1>2 DEF Coming
  <2>. HIDE DEF c
  <2>. QED
      BY <2>1, <2>2, <2>3
<1>. HIDE DEF c
<1>7. \E k \in DOMAIN list : list[k] = first
    BY <1>2
<1>8. \A k \in DOMAIN rest : \E j \in DOMAIN list : rest[k] = list[j]
    BY <1>2
<1>9. \A k \in DOMAIN list : list[k] = first \/ \E j \in DOMAIN rest : rest[j] = list[k]
    BY <1>2, <1>4
<1>. QED
    BY <1>5, <1>6, <1>7, <1>8, <1>9 DEF rest, first, c

\* An entry of the list is a note of something, or a claim.
Proper(p) == IF p.eco \in Notes THEN p.unread # {} ELSE <<p.path, p.eco>> \in Claimed

NoteComes(list) == \E k \in DOMAIN list : list[k].eco \in Notes

\* A list in which all that is scanned is to be resolved or disclosed.
Covers(list) ==
    /\ Claimed \subseteq Coming(list)
    /\ \A k \in DOMAIN list : Proper(list[k])
    /\ ToDisclose => NoteComes(list)

LEMMA JoinedMembers ==
    ASSUME NEW s, NEW t, Listing(s), Listing(t)
    PROVE  /\ \A k \in DOMAIN s : \E j \in DOMAIN (s \o t) : (s \o t)[j] = s[k]
           /\ \A k \in DOMAIN t : \E j \in DOMAIN (s \o t) : (s \o t)[j] = t[k]
           /\ \A j \in DOMAIN (s \o t) : \/ \E k \in DOMAIN s : (s \o t)[j] = s[k]
                                         \/ \E k \in DOMAIN t : (s \o t)[j] = t[k]
<1>. DEFINE u == s \o t
<1>1. DOMAIN s = 1..Len(s) /\ DOMAIN t = 1..Len(t) /\ Len(s) \in Nat /\ Len(t) \in Nat
    BY DEF Listing
<1>2. /\ DOMAIN u = 1..(Len(s) + Len(t))
      /\ \A k \in 1..Len(s) : u[k] = s[k]
      /\ \A k \in (Len(s) + 1)..(Len(s) + Len(t)) : k - Len(s) \in 1..Len(t) /\ u[k] = t[k - Len(s)]
    BY Joined DEF Listing
<1>. HIDE DEF u
<1>3. \A k \in DOMAIN s : \E j \in DOMAIN u : u[j] = s[k]
  <2>1. \A k \in DOMAIN s : k \in DOMAIN u /\ u[k] = s[k]
      BY <1>1, <1>2
  <2>. QED
      BY <2>1
<1>4. \A k \in DOMAIN t : \E j \in DOMAIN u : u[j] = t[k]
  <2>. SUFFICES ASSUME NEW k \in DOMAIN t PROVE \E j \in DOMAIN u : u[j] = t[k]
      OBVIOUS
  <2>1. k + Len(s) \in (Len(s) + 1)..(Len(s) + Len(t)) /\ (k + Len(s)) - Len(s) = k
      BY <1>1
  <2>2. k + Len(s) \in DOMAIN u /\ u[k + Len(s)] = t[k]
      BY <1>1, <1>2, <2>1
  <2>. QED
      BY <2>2
<1>5. \A j \in DOMAIN u : (\E k \in DOMAIN s : u[j] = s[k]) \/ (\E k \in DOMAIN t : u[j] = t[k])
  <2>. SUFFICES ASSUME NEW j \in DOMAIN u PROVE (\E k \in DOMAIN s : u[j] = s[k]) \/ (\E k \in DOMAIN t : u[j] = t[k])
      OBVIOUS
  <2>1. CASE j \in 1..Len(s)
      BY <1>1, <1>2, <2>1
  <2>2. CASE j \in (Len(s) + 1)..(Len(s) + Len(t))
    <3>1. j - Len(s) \in DOMAIN t /\ u[j] = t[j - Len(s)]
        BY <1>1, <1>2, <2>2
    <3>. QED
        BY <3>1
  <2>. QED
      BY <1>1, <1>2, <2>1, <2>2
<1>. QED
    BY <1>3, <1>4, <1>5 DEF u

\* What the adapters of either registry claim of some directories.
LEMMA ClaimsListed ==
    ASSUME FoldedTree, NEW paths, IsFiniteSet(paths), paths \subseteq DOMAIN world.tree, Apart(paths),
           NEW adapters \in {Adapters, ByName}
    PROVE  LET P == ProjectsIn(paths, adapters)
           IN  /\ Listing(P) /\ Coming(P) = UNION {{q} \X Claims(q) : q \in paths}
               /\ \A k \in DOMAIN P : P[k].eco \notin Notes
<1>. DEFINE P == ProjectsIn(paths, adapters)
            claimed == UNION {{q} \X Claims(q) : q \in paths}
<1>1. Registry(adapters) /\ \A i \in DOMAIN adapters : adapters[i] \notin Notes
    BY Registries DEF Notes
<1>2. paths \subseteq Path
    BY DEF FoldedTree
<1>3. /\ Listing(P)
      /\ \A k \in DOMAIN P : /\ P[k].path \in paths /\ P[k].eco \in Claims(P[k].path)
                             /\ \E i \in DOMAIN adapters : P[k].eco = adapters[i]
      /\ \A p \in paths : \A i \in DOMAIN adapters : adapters[i] \in Claims(p) =>
            \E k \in DOMAIN P : P[k].path = p /\ P[k].eco = adapters[i]
    BY <1>1, <1>2, ProjectsAreApart
<1>4. \A p \in paths : \A eco \in Claims(p) : \E i \in DOMAIN adapters : adapters[i] = eco
    BY AllRegistered
<1>. HIDE DEF P
<1>5. \A k \in DOMAIN P : P[k].eco \notin Notes
    BY <1>1, <1>3
<1>6. Coming(P) \subseteq claimed
    BY <1>3 DEF Coming
<1>7. claimed \subseteq Coming(P)
  <2>. SUFFICES ASSUME NEW p \in paths, NEW eco \in Claims(p) PROVE <<p, eco>> \in Coming(P)
      OBVIOUS
  <2>1. PICK k \in DOMAIN P : P[k].path = p /\ P[k].eco = eco
      BY <1>3, <1>4
  <2>. QED
      BY <2>1 DEF Coming
<1>8. Coming(P) = claimed
    BY <1>6, <1>7
<1>. QED
    BY <1>3, <1>5, <1>8 DEF P

LEMMA DeepCovers == ASSUME FoldedTree, opt.recurse PROVE Covers(Deep)
<1>. DEFINE P == ProjectsIn(Walked, ByName)
            G == ManifestGaps(Walked)
<1>1. Scanned = Walked
    BY DEF Scanned
<1>2. Walked \subseteq DOMAIN world.tree /\ Walked \subseteq Path /\ IsFiniteSet(Walked) /\ Apart(Walked)
    BY WalkedIsApart DEF FoldedTree
<1>3. Listing(P) /\ Coming(P) = Claimed /\ \A k \in DOMAIN P : P[k].eco \notin Notes
    BY <1>1, <1>2, ClaimsListed DEF Claimed
<1>4. /\ Listing(G)
      /\ \A k \in DOMAIN G : G[k].eco \in Notes /\ G[k].unread # {}
      /\ \A p \in Walked : Gaps(p) # {} /\ Claims(p) = {} => \E k \in DOMAIN G : G[k].path = p
    BY <1>2, GapsOnce DEF Once, Notes
<1>5. Deep = P \o G
    BY DEF Deep
<1>. HIDE DEF P, G
<1>. DEFINE L == P \o G
<1>6. /\ \A k \in DOMAIN P : \E j \in DOMAIN L : L[j] = P[k]
      /\ \A k \in DOMAIN G : \E j \in DOMAIN L : L[j] = G[k]
      /\ \A j \in DOMAIN L : (\E k \in DOMAIN P : L[j] = P[k]) \/ (\E k \in DOMAIN G : L[j] = G[k])
    BY <1>3, <1>4, JoinedMembers
<1>. HIDE DEF L
<1>7. Claimed \subseteq Coming(L)
    BY <1>3, <1>6 DEF Coming
<1>8. \A k \in DOMAIN L : Proper(L[k])
  <2>1. \A k \in DOMAIN P : Proper(P[k])
      BY <1>3 DEF Proper, Coming
  <2>2. \A k \in DOMAIN G : Proper(G[k])
      BY <1>4 DEF Proper
  <2>. QED
      BY <1>6, <2>1, <2>2
<1>9. ToDisclose => NoteComes(L)
  <2>. SUFFICES ASSUME NEW q \in Walked, Claims(q) = {}, Gaps(q) # {} PROVE NoteComes(L)
      BY <1>1 DEF ToDisclose
  <2>1. PICK k \in DOMAIN G : G[k].path = q
      BY <1>4
  <2>. QED
      BY <1>4, <1>6, <2>1 DEF NoteComes
<1>. QED
    BY <1>5, <1>7, <1>8, <1>9 DEF Covers, L

LEMMA ShallowCovers == ASSUME FoldedTree, ~opt.recurse PROVE Covers(Shallow)
<1>. DEFINE here == ProjectsIn({<<>>}, Adapters)
            gap == Project(<<>>, "unscanned", Gaps(<<>>))
            all == IF here # <<>> \/ Gaps(<<>>) = {} THEN here ELSE <<gap>>
            note(notes) == Project(<<>>, "coverage-note", notes)
            missing == LeftOut(IF all = <<>> THEN {} ELSE {<<>>})
<1>1. Scanned = {<<>>} /\ <<>> \in DOMAIN world.tree /\ IsFiniteSet({<<>>}) /\ Apart({<<>>})
    BY FS_Singleton DEF Scanned, FoldedTree, Apart
<1>2. Listing(here) /\ Coming(here) = Claimed /\ \A k \in DOMAIN here : here[k].eco \notin Notes
    BY <1>1, ClaimsListed DEF Claimed
<1>3. Shallow = IF missing = {} THEN all ELSE Append(all, note(missing))
    BY Zenon DEF Shallow
<1>4. LeftOut({<<>>}) \subseteq missing
  <2>1. \A S : S \subseteq {<<>>} => LeftOut({<<>>}) \subseteq LeftOut(S)
      BY DEF LeftOut
  <2>. DEFINE S == IF all = <<>> THEN {} ELSE {<<>>}
  <2>2. S \subseteq {<<>>}
      OBVIOUS
  <2>. HIDE DEF S
  <2>3. LeftOut({<<>>}) \subseteq LeftOut(S)
      BY <2>1, <2>2
  <2>. QED
      BY <2>3 DEF S
<1>5. Listing(<<gap>>) /\ Listing(<<note(missing)>>)
    BY OneOnce DEF Once
<1>6. /\ gap.eco \in Notes /\ gap.unread = Gaps(<<>>)
      /\ note(missing).eco \in Notes /\ note(missing).unread = missing
    BY DEF Project, Notes
<1>7. here = <<>> => Claimed = {}
  <2>1. here = <<>> => Coming(here) = {}
      BY DEF Coming
  <2>. HIDE DEF here
  <2>. QED
      BY <1>2, <2>1
<1>8. here # <<>> => Claims(<<>>) # {}
  <2>. SUFFICES ASSUME here # <<>> PROVE Claims(<<>>) # {}
      OBVIOUS
  <2>. HIDE DEF here
  <2>1. DOMAIN here # {}
      BY <1>2 DEF Listing
  <2>2. Coming(here) # {}
      BY <2>1 DEF Coming
  <2>. QED
      BY <1>1, <1>2, <2>2 DEF Claimed
<1>. HIDE DEF here, gap, missing, note
<1>9. /\ Listing(all) /\ Claimed \subseteq Coming(all)
      /\ \A k \in DOMAIN all : Proper(all[k])
      /\ Claims(<<>>) = {} /\ Gaps(<<>>) # {} => NoteComes(all)
  <2>1. CASE here # <<>> \/ Gaps(<<>>) = {}
    <3>1. \A k \in DOMAIN here : Proper(here[k])
        BY <1>2 DEF Proper, Coming
    <3>. QED
        BY <1>2, <1>8, <2>1, <3>1
  <2>2. CASE here = <<>> /\ Gaps(<<>>) # {}
    <3>1. DOMAIN <<gap>> = {1} /\ <<gap>>[1] = gap
        OBVIOUS
    <3>2. all = <<gap>>
        BY <2>2
    <3>. QED
        BY <1>5, <1>6, <1>7, <2>2, <3>1, <3>2 DEF Proper, NoteComes
  <2>. QED
      BY <2>1, <2>2
<1>. HIDE DEF all
<1>10. CASE missing = {}
  <2>1. ToDisclose => NoteComes(all)
      BY <1>1, <1>4, <1>9, <1>10 DEF ToDisclose
  <2>. QED
      BY <1>3, <1>9, <1>10, <2>1 DEF Covers
<1>11. CASE missing # {}
  <2>. DEFINE t == <<note(missing)>>
              L == all \o t
  <2>1. Shallow = L
    <3>1. all \in Seq({all[k] : k \in DOMAIN all})
        BY <1>9 DEF Listing
    <3>2. Append(all, note(missing)) = L
        BY <3>1
    <3>. HIDE DEF L
    <3>. QED
        BY <1>3, <1>11, <3>2
  <2>2. DOMAIN t = {1} /\ t[1] = note(missing) /\ Listing(t)
      BY <1>5
  <2>. HIDE DEF t
  <2>3. /\ \A k \in DOMAIN all : \E j \in DOMAIN L : L[j] = all[k]
        /\ \A k \in DOMAIN t : \E j \in DOMAIN L : L[j] = t[k]
        /\ \A j \in DOMAIN L : (\E k \in DOMAIN all : L[j] = all[k]) \/ (\E k \in DOMAIN t : L[j] = t[k])
      BY <1>9, <2>2, JoinedMembers
  <2>. HIDE DEF L
  <2>4. Proper(t[1]) /\ t[1].eco \in Notes
      BY <1>6, <1>11, <2>2 DEF Proper
  <2>5. Claimed \subseteq Coming(L)
    <3>1. Coming(all) \subseteq Coming(L)
        BY <2>3 DEF Coming
    <3>. QED
        BY <1>9, <3>1
  <2>6. \A k \in DOMAIN L : Proper(L[k])
      BY <1>9, <2>2, <2>3, <2>4
  <2>7. NoteComes(L)
      BY <2>2, <2>3, <2>4 DEF NoteComes
  <2>. QED
      BY <2>1, <2>5, <2>6, <2>7 DEF Covers
<1>. QED
    BY <1>10, <1>11

\* After the walk: what the adapters claim is to come, has failed and is counted, or is in
\* the graph; and what is to be disclosed is to come or is there.
Accounted(list, m) ==
    /\ \A c \in Claimed : c \in Coming(list) \/ c \in Failing \/ Within(Read(Chosen(c[1], c[2])), m)
    /\ \A k \in DOMAIN list : Proper(list[k])
    /\ ToDisclose => Discloses(m) \/ NoteComes(list)

Account ==
    /\ Ready /\ NotesCount(g)
    /\ IF stage = "discover" THEN failures = 0
       ELSE Accounted(todo, g) /\ failures = Cardinality(Failing \ Coming(todo))
    /\ stage \in {"report", "done"} => todo = <<>>
    /\ exit = "clean" /\ opt.failOnIncomplete => Failing = {} /\ ~ToDisclose

LEMMA ClaimedFinite == ASSUME FoldedTree PROVE IsFiniteSet(Failing) /\ \A c \in Claimed : c[2] \notin Notes
<1>. DEFINE ecos == {ByName[i] : i \in DOMAIN ByName}
<1>1. IsFiniteSet(ecos) /\ \A eco \in ecos : eco \notin Notes
  <2>1. PICK n \in Nat : DOMAIN ByName = 1..n
      BY Registries DEF Registry
  <2>2. IsFiniteSet(DOMAIN ByName)
      BY <2>1, FS_Interval
  <2>3. \A i \in DOMAIN ByName : ByName[i] \notin Notes
      BY Registries DEF Notes
  <2>4. IsFiniteSet(ecos)
      BY <2>2, FiniteValues
  <2>. QED
      BY <2>3, <2>4
<1>2. IsFiniteSet(Scanned) /\ Scanned \subseteq DOMAIN world.tree
  <2>1. IsFiniteSet(Walked) /\ Walked \subseteq DOMAIN world.tree
      BY WalkedIsApart DEF FoldedTree
  <2>2. IsFiniteSet({<<>>}) /\ <<>> \in DOMAIN world.tree
      BY FS_Singleton DEF FoldedTree
  <2>. QED
      BY <2>1, <2>2 DEF Scanned
<1>3. \A p \in Scanned : Claims(p) \subseteq ecos
    BY <1>2, AllRegistered
<1>. HIDE DEF ecos
<1>4. Claimed \subseteq Scanned \X ecos
    BY <1>3 DEF Claimed
<1>5. IsFiniteSet(Claimed)
  <2>1. IsFiniteSet(Scanned \X ecos)
      BY <1>1, <1>2, FS_Product
  <2>. QED
      BY <1>4, <2>1, FS_Subset
<1>6. Failing \subseteq Claimed
    BY DEF Failing
<1>7. IsFiniteSet(Failing)
    BY <1>5, <1>6, FS_Subset
<1>. QED
    BY <1>1, <1>4, <1>7

\* What is scanned, and what is claimed there, does not change.
LEMMA ScanStands ==
    ASSUME UNCHANGED <<world, opt>>
    PROVE  Claimed' = Claimed /\ Failing' = Failing /\ ToDisclose' = ToDisclose
<1>1. Walked' = Walked
    BY SMT DEF Walked, Enters, Pruned
<1>2. Scanned' = Scanned
    BY <1>1 DEF Scanned
<1>3. \A p : Claims(p)' = Claims(p) /\ Gaps(p)' = Gaps(p)
    BY Zenon DEF Claims, Gaps
<1>4. Claimed' = Claimed
    BY <1>2, <1>3 DEF Claimed
<1>5. \A p, eco : Chosen(p, eco)' = Chosen(p, eco)
    BY Zenon DEF Chosen
<1>6. Failing' = Failing
    BY <1>4, <1>5 DEF Failing
<1>7. LeftOut(Scanned)' = LeftOut(Scanned)
    BY <1>1, <1>2, <1>3 DEF LeftOut
<1>8. ToDisclose' = ToDisclose
    BY <1>2, <1>3, <1>7 DEF ToDisclose
<1>. QED
    BY <1>4, <1>6, <1>8

LEMMA AccountedStands ==
    ASSUME UNCHANGED <<world, opt>>, Accounted(todo', g')
    PROVE  Accounted(todo, g)'
<1>1. Claimed' = Claimed /\ Failing' = Failing /\ ToDisclose' = ToDisclose
    BY ScanStands
<1>2. \A p, eco : Chosen(p, eco)' = Chosen(p, eco)
    BY Zenon DEF Chosen
<1>. QED
    BY <1>1, <1>2 DEF Accounted, Proper

LEMMA InitAccounts == ASSUME Init PROVE Account
<1>1. NotesCount(g)
  <2>1. DOMAIN g.at = {}
      BY DEF Init, NoGraph, Graph
  <2>. QED
      BY <2>1, FS_EmptySet DEF NotesCount
<1>. QED
    BY <1>1, InitReady DEF Init, Account

LEMMA DiscoverAccounts == ASSUME Account, Discover PROVE Account'
<1>1. FoldedTree
    BY TreesAreTrees DEF Account, Ready, Resolving
<1>2. Ready' /\ UNCHANGED <<world, opt, g, failures>>
    BY StepReady DEF Account, Next, Discover
<1>3. Covers(todo')
  <2>1. opt.recurse => Covers(Deep)
      BY <1>1, DeepCovers
  <2>2. ~opt.recurse => Covers(Shallow)
      BY <1>1, ShallowCovers
  <2>. QED
      BY <2>1, <2>2 DEF Discover
<1>4. Accounted(todo', g')
    BY <1>3 DEF Covers, Accounted
<1>5. Accounted(todo, g)' /\ Failing' = Failing
    BY <1>2, <1>4, AccountedStands, ScanStands
<1>6. failures' = Cardinality(Failing' \ Coming(todo'))
  <2>1. Failing \ Coming(todo') = {}
      BY <1>3 DEF Covers, Failing
  <2>2. failures' = 0
      BY <1>2 DEF Account, Discover
  <2>. QED
      BY <1>5, <2>1, <2>2, FS_EmptySet
<1>7. NotesCount(g)'
    BY <1>2 DEF Account, NotesCount
<1>8. stage' # "discover" /\ (stage' \in {"report", "done"} => todo' = <<>>)
    BY DEF Discover
<1>9. exit' = "clean" => Failing' = {} /\ ~ToDisclose'
  <2>. SUFFICES ASSUME exit' = "clean" PROVE Failing = {} /\ ~ToDisclose
      BY <1>2, ScanStands
  <2>1. todo' = <<>>
      BY DEF Discover, Account, Ready
  <2>. QED
      BY <1>3, <2>1 DEF Covers, Coming, NoteComes, Failing
<1>. QED
    BY <1>2, <1>5, <1>6, <1>7, <1>8, <1>9 DEF Account

LEMMA ResolveAccounts == ASSUME Account, Resolve PROVE Account'
<1>. DEFINE p == Head(todo)
            c == <<p.path, p.eco>>
            rest == Tail(todo)
            doc == Chosen(p.path, p.eco)
<1>1. FoldedTree
    BY TreesAreTrees DEF Account, Ready, Resolving
<1>2. Ready' /\ UNCHANGED <<world, opt, stage>> /\ todo' = rest
    BY StepReady DEF Account, Next, Resolve
<1>3. /\ todo # <<>> /\ stage = "resolve" /\ Whole(g) /\ NotesCount(g) /\ Fit(p) /\ Accounted(todo, g)
      /\ failures = Cardinality(Failing \ Coming(todo))
  <2>1. todo # <<>> /\ stage = "resolve"
      BY DEF Resolve
  <2>2. Fit(p)
      BY <2>1, TailFit DEF Account, Ready, Resolving, Once
  <2>. QED
      BY <2>1, <2>2 DEF Account, Ready
<1>4. /\ Coming(todo) = Coming(rest) \cup {c} /\ c \notin Coming(rest)
      /\ \E k \in DOMAIN todo : todo[k] = p
      /\ \A k \in DOMAIN rest : \E j \in DOMAIN todo : rest[k] = todo[j]
      /\ \A k \in DOMAIN todo : todo[k] = p \/ \E j \in DOMAIN rest : rest[j] = todo[k]
    BY <1>3, TailComes DEF Account, Ready, Resolving
<1>5. IsFiniteSet(Failing) /\ \A d \in Claimed : d[2] \notin Notes
    BY <1>1, ClaimedFinite
<1>6. Proper(p) /\ \A k \in DOMAIN rest : Proper(rest[k])
    BY <1>3, <1>4 DEF Accounted
<1>7. p.eco \in Notes <=> p.eco \in {"unscanned", "coverage-note"}
    BY DEF Notes
<1>8. IsFiniteSet(Failing \ Coming(todo))
    BY <1>5, FS_Subset
<1>9. /\ NotesCount(g') /\ Accounted(rest, g')
      /\ failures' = Cardinality(Failing \ Coming(rest))
  <2>1. CASE p.eco \in Notes
    <3>. DEFINE h == Unread(p.eco, p.path, p.unread)
    <3>1. g' = Merge(g, h) /\ failures' = failures
        BY <1>7, <2>1 DEF Resolve
    <3>2. NotesCount(h) /\ \E id \in DOMAIN h.at : id.eco \in Notes
        BY <1>3, <1>6, <1>7, <2>1, UnreadDiscloses DEF Fit, Proper
    <3>. HIDE DEF h
    <3>3. NotesCount(g') /\ Within(h, g') /\ \A x : Within(x, g) => Within(x, g')
        BY <1>3, <3>1, <3>2, MergeKeeps
    <3>4. Discloses(g')
        BY <3>2, <3>3 DEF Within, NotesCount, Discloses
    <3>5. c \notin Claimed /\ c \notin Failing
        BY <1>5, <2>1 DEF Failing
    <3>6. Failing \ Coming(rest) = Failing \ Coming(todo)
        BY <1>4, <3>5
    <3>7. Accounted(rest, g')
        BY <1>3, <1>4, <1>6, <3>3, <3>4, <3>5 DEF Accounted
    <3>. QED
        BY <1>3, <3>1, <3>3, <3>6, <3>7
  <2>2. ASSUME p.eco \notin Notes PROVE (ToDisclose => Discloses(g) \/ NoteComes(rest)) /\ c \in Claimed
      BY <1>3, <1>4, <1>6, <2>2 DEF Accounted, NoteComes, Proper
  <2>3. CASE p.eco \notin Notes /\ Fails(doc)
    <3>1. g' = g /\ failures' = failures + 1
        BY <1>7, <2>3 DEF Resolve
    <3>2. c \in Failing
        BY <2>2, <2>3 DEF Failing
    <3>3. Failing \ Coming(rest) = (Failing \ Coming(todo)) \cup {c} /\ c \notin Failing \ Coming(todo)
        BY <1>4, <3>2
    <3>4. Cardinality(Failing \ Coming(rest)) = Cardinality(Failing \ Coming(todo)) + 1
      <4>. DEFINE S == Failing \ Coming(todo)
                  T == Failing \ Coming(rest)
      <4>. HIDE DEF S, T, c
      <4>1. Cardinality(S \cup {c}) = Cardinality(S) + 1
          BY <1>8, <3>3, FS_AddElement DEF S
      <4>. QED
          BY <3>3, <4>1 DEF S, T
    <3>5. Accounted(rest, g)
        BY <1>3, <1>4, <1>6, <2>2, <2>3, <3>2 DEF Accounted
    <3>. QED
        BY <1>3, <3>1, <3>4, <3>5
  <2>4. CASE p.eco \notin Notes /\ ~Fails(doc)
    <3>1. g' = Merge(g, Read(doc)) /\ failures' = failures
        BY <1>7, <2>4 DEF Resolve
    <3>2. Legible(doc)
        BY <1>1, <1>3, <1>7, <2>4, ChosenLies DEF Fit
    <3>3. NotesCount(Read(doc))
        BY <2>4, <3>2, ReadTame, TameCounts
    <3>. DEFINE h == Read(doc)
    <3>. HIDE DEF h
    <3>4. /\ NotesCount(g') /\ Within(h, g') /\ \A x : Within(x, g) => Within(x, g')
          /\ Discloses(g) => Discloses(g')
        BY <1>3, <3>1, <3>3, MergeKeeps DEF h
    <3>5. c \in Claimed /\ c \notin Failing /\ Read(Chosen(c[1], c[2])) = h
        BY <2>2, <2>4 DEF Failing, h
    <3>6. Failing \ Coming(rest) = Failing \ Coming(todo)
        BY <1>4, <3>5
    <3>7. Accounted(rest, g')
        BY <1>3, <1>4, <1>6, <2>2, <2>4, <3>4, <3>5 DEF Accounted
    <3>. QED
        BY <1>3, <3>1, <3>4, <3>6, <3>7
  <2>. QED
      BY <2>1, <2>3, <2>4
<1>10. Accounted(todo, g)' /\ Failing' = Failing
    BY <1>2, <1>9, AccountedStands, ScanStands
<1>11. NotesCount(g)'
    BY <1>9 DEF NotesCount
<1>12. exit' = "none"
    BY <1>3 DEF Account, Ready, Resolve
<1>. QED
    BY <1>2, <1>3, <1>9, <1>10, <1>11, <1>12 DEF Account

LEMMA ReconstructAccounts == ASSUME Account, ReconstructDepth PROVE Account'
<1>1. PICK lost : g' = Reconstructed(lost)
    BY DEF ReconstructDepth
<1>2. /\ Ready' /\ UNCHANGED <<world, opt, todo, failures>> /\ todo = <<>>
      /\ stage = "resolve" /\ stage' = "report"
    BY StepReady DEF Account, Next, ReconstructDepth
<1>3. Kept(g, g')
    BY <1>1, ReconstructedWhole DEF Account, Ready
<1>4. /\ \A x : Within(x, g) => Within(x, g')
      /\ Discloses(g) => Discloses(g')
      /\ NotesCount(g')
    BY <1>3, ReconstructionKeeps DEF Account
<1>5. Accounted(todo', g')
    BY <1>2, <1>4 DEF Account, Accounted
<1>6. Accounted(todo, g)' /\ Failing' = Failing
    BY <1>2, <1>5, AccountedStands, ScanStands
<1>7. NotesCount(g)'
    BY <1>4 DEF NotesCount
<1>8. exit' = "none"
    BY DEF Account, Ready, ReconstructDepth
<1>. QED
    BY <1>2, <1>6, <1>7, <1>8 DEF Account

\* When all is read, no note is to come.
LEMMA ReadIsAccounted ==
    ASSUME Account, todo = <<>>, stage # "discover"
    PROVE  /\ \A c \in Claimed \ Failing : Within(Read(Chosen(c[1], c[2])), g)
           /\ failures = Cardinality(Failing)
           /\ ToDisclose => Unresolved(g) > 0
<1>1. Accounted(todo, g) /\ failures = Cardinality(Failing \ Coming(todo))
    BY DEF Account
<1>2. Coming(todo) = {} /\ ~NoteComes(todo)
    BY DEF Coming, NoteComes
<1>3. Failing \ Coming(todo) = Failing
    BY <1>2
<1>4. ToDisclose => Unresolved(g) > 0
    BY <1>1, <1>2, DisclosedIsCounted DEF Accounted, Account, Ready
<1>. QED
    BY <1>1, <1>2, <1>3, <1>4 DEF Accounted

\* A clean exit of a strict scan: nothing failed, and nothing was to be disclosed.
LEMMA CleanReport == ASSUME Account, Report, exit' = "clean", opt.failOnIncomplete PROVE Failing = {} /\ ~ToDisclose
<1>1. ~Incomplete /\ stage = "report"
    BY DEF Report
<1>2. failures = Cardinality(Failing) /\ (ToDisclose => Unresolved(g) > 0)
    BY <1>1, ReadIsAccounted DEF Account
<1>3. Whole(g) /\ IsFiniteSet(DOMAIN g.at) /\ FoldedTree
    BY TreesAreTrees DEF Account, NotesCount, Ready, Resolving
<1>4. ~(Unresolved(g) > 0) /\ ~(failures > 0)
    BY <1>1 DEF Incomplete, Degraded
<1>5. IsFiniteSet(Failing)
    BY <1>3, ClaimedFinite
<1>6. Failing = {}
  <2>. HIDE DEF Failing
  <2>1. Cardinality(Failing) \in Nat /\ (Cardinality(Failing) = 0 => Failing = {})
      BY <1>5, FS_CardinalityType, FS_EmptySet
  <2>. QED
      BY <1>2, <1>4, <2>1
<1>. QED
    BY <1>2, <1>4, <1>6

LEMMA StepAccounts == ASSUME Account, [Next]_vars PROVE Account'
<1>1. CASE NothingResolved \/ Report \/ UNCHANGED vars
  <2>1. Ready' /\ UNCHANGED <<world, opt, todo, g, failures>>
      BY <1>1, StepReady DEF Account, Next, NothingResolved, Report, vars
  <2>2. (stage = "discover" <=> stage' = "discover") /\ (stage' \in {"report", "done"} => todo' = <<>>)
      BY <1>1 DEF Account, NothingResolved, Report, vars
  <2>3. NotesCount(g)'
      BY <2>1 DEF Account, NotesCount
  <2>4. stage # "discover" => Accounted(todo, g)' /\ Failing' = Failing
    <3>1. stage # "discover" => Accounted(todo', g')
        BY <2>1 DEF Account
    <3>. QED
        BY <2>1, <3>1, AccountedStands, ScanStands
  <2>5. exit' = "clean" /\ opt.failOnIncomplete => Failing' = {} /\ ~ToDisclose'
    <3>. SUFFICES ASSUME exit' = "clean", opt.failOnIncomplete PROVE Failing = {} /\ ~ToDisclose
        BY <2>1, ScanStands
    <3>1. CASE Report
        BY <3>1, CleanReport
    <3>2. CASE NothingResolved \/ UNCHANGED vars
        BY <3>2 DEF Account, NothingResolved, vars
    <3>. QED
        BY <1>1, <3>1, <3>2
  <2>. QED
      BY <2>1, <2>2, <2>3, <2>4, <2>5 DEF Account
<1>. QED
    BY <1>1, DiscoverAccounts, ResolveAccounts, ReconstructAccounts DEF Next

LEMMA AccountIsWhole == ASSUME Account PROVE NothingUnaccounted
<1>1. FoldedTree
    BY TreesAreTrees DEF Account, Ready, Resolving
<1>2. SUFFICES ASSUME AllRead PROVE NothingUnaccounted
    BY DEF NothingUnaccounted
<1>3. todo = <<>> /\ stage # "discover"
    BY <1>2 DEF Account, AllRead
<1>4. \A c \in Claimed \ Failing : HoldsAll(Read(Chosen(c[1], c[2])))
    BY <1>3, ReadIsAccounted DEF Within, HoldsAll
<1>5. failures = Cardinality(Failing) /\ (ToDisclose => Unresolved(g) > 0)
    BY <1>3, ReadIsAccounted
<1>6. exit = "clean" /\ opt.failOnIncomplete => Failing = {} /\ ~ToDisclose
    BY DEF Account
<1>7. opt.recurse /\ BuildsStayApart =>
          \A p \in Visible : \E q \in Scanned : world.tree[q].identity = world.tree[p].identity
    BY <1>1, VisibleIsMet DEF Scanned
<1>. QED
    BY <1>4, <1>5, <1>6, <1>7 DEF NothingUnaccounted

\* For every tree, however mounts fold it, and whatever its files hold: all that an adapter
\* claims ends in the merged graph with its links, or among the failures, each counted
\* once; what no adapter reads, and what a scan of one directory leaves out, is counted as
\* unresolved; a clean exit of a scan that must be complete says that neither is there;
\* and no directory that can be seen is passed over (resolveProjects, gapAdapter,
\* noteAdapter, discoverProjects, graph.go, coverage.go).
THEOREM AllAccounted == Spec => []NothingUnaccounted
<1>1. Spec => []Account
    BY InitAccounts, StepAccounts, PTL DEF Spec
<1>2. Account => NothingUnaccounted
    BY AccountIsWhole
<1>. QED
    BY <1>1, <1>2, PTL

=============================================================================
