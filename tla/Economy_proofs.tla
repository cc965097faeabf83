---------------------------- MODULE Economy_proofs ----------------------------
(* What the economy guarantees for any number of rows, any kinds and costs: *)
(* the rows, the orders that name them and the buffer of living rows agree  *)
(* at every point of every tick, and so do the books kept over them.  A sum *)
(* (supply, wealth, cap) is the cardinality of a set of points, one for     *)
(* every unit of value, so what a step does to a sum follows from what it   *)
(* does to one row.                                                         *)
EXTENDS Economy, FiniteSetTheorems, TLAPS

(* Sums of naturals over finite sets.                                       *)

\* One term has as many points as it is worth.
LEMMA PointsOfOne ==
  ASSUME NEW x, NEW n \in Nat
  PROVE  IsFiniteSet({x} \X (1 .. n)) /\ Cardinality({x} \X (1 .. n)) = n
<1>1. IsFiniteSet({x}) /\ Cardinality({x}) = 1
  BY FS_Singleton
<1>2. IsFiniteSet(1 .. n) /\ Cardinality(1 .. n) = n
  BY FS_Interval
<1>3. /\ IsFiniteSet({x} \X (1 .. n))
      /\ Cardinality({x} \X (1 .. n)) = Cardinality({x}) * Cardinality(1 .. n)
  BY <1>1, <1>2, FS_Product
<1>4. Cardinality({x}) * Cardinality(1 .. n) = 1 * n
  BY <1>1, <1>2
<1> QED
  BY <1>3, <1>4

\* A sum of naturals is a natural.
LEMMA TotalType ==
  ASSUME NEW D, IsFiniteSet(D), NEW c \in [D -> Nat]
  PROVE  IsFiniteSet(Points(c)) /\ Total(c) \in Nat
<1> DEFINE Of(x) == {x} \X (1 .. c[x])
           image == {Of(x) : x \in D}
           f == [x \in D |-> Of(x)]
<1>1. f \in Surjection(D, image)
  BY DEF Surjection
<1>2. IsFiniteSet(image)
  BY <1>1, FS_Surjection
<1>3. \A T \in image : IsFiniteSet(T)
  <2>1. ASSUME NEW x \in D PROVE IsFiniteSet(Of(x))
    <3>1. c[x] \in Nat
      OBVIOUS
    <3> QED
      BY <3>1, PointsOfOne
  <2> QED
    BY <2>1
<1>4. IsFiniteSet(UNION image)
  BY <1>2, <1>3, FS_UNION
<1>5. Points(c) = UNION image
  BY DEF Points
<1> QED
  BY <1>4, <1>5, FS_CardinalityType DEF Total

LEMMA TotalEmpty == \A c : DOMAIN c = {} => Total(c) = 0
<1> SUFFICES ASSUME NEW c, DOMAIN c = {} PROVE Total(c) = 0
  OBVIOUS
<1>1. Points(c) = {}
  BY DEF Points
<1> QED
  BY <1>1, FS_EmptySet DEF Total

LEMMA TotalOfOne == \A a : \A n \in Nat : Total([x \in {a} |-> n]) = n
<1> SUFFICES ASSUME NEW a, NEW n \in Nat PROVE Total([x \in {a} |-> n]) = n
  OBVIOUS
<1>1. Points([x \in {a} |-> n]) = {a} \X (1 .. n)
  BY DEF Points
<1> QED
  BY <1>1, PointsOfOne DEF Total

\* A sum over two parts is the sum of theirs.
LEMMA TotalSplits ==
  ASSUME NEW A, NEW B, IsFiniteSet(A), IsFiniteSet(B), A \cap B = {}, NEW c \in [A \cup B -> Nat]
  PROVE  Total(c) = Total([x \in A |-> c[x]]) + Total([x \in B |-> c[x]])
<1> DEFINE a == [x \in A |-> c[x]]
           b == [x \in B |-> c[x]]
<1>1. a \in [A -> Nat] /\ b \in [B -> Nat]
  OBVIOUS
<1>2. IsFiniteSet(Points(a)) /\ IsFiniteSet(Points(b)) /\ Total(a) \in Nat /\ Total(b) \in Nat
  BY <1>1, TotalType
<1>3. Points(c) = Points(a) \cup Points(b)
  BY DEF Points
<1>4. Points(a) \cap Points(b) = {}
  <2>1. \A p \in Points(a) : p[1] \in A
    BY DEF Points
  <2>2. \A p \in Points(b) : p[1] \in B
    BY DEF Points
  <2> QED
    BY <2>1, <2>2
<1> HIDE DEF a, b
<1>5. Cardinality(Points(a) \cap Points(b)) = 0
  BY <1>4, FS_EmptySet
<1>6. Cardinality(Points(a) \cup Points(b)) =
        Cardinality(Points(a)) + Cardinality(Points(b)) - Cardinality(Points(a) \cap Points(b))
  BY <1>2, FS_Union
<1>7. Total(c) = Total(a) + Total(b)
  BY <1>2, <1>3, <1>5, <1>6 DEF Total
<1> QED
  BY <1>7 DEF a, b

\* A sum does not mind what its terms are called.
LEMMA TotalRenamed ==
  \A D, E, f, c, d :
    /\ IsFiniteSet(D) /\ f \in Bijection(D, E) /\ c \in [D -> Nat] /\ d \in [E -> Nat]
    /\ \A x \in D : c[x] = d[f[x]]
    => Total(c) = Total(d)
<1> TAKE D, E, f, c, d
<1> HAVE /\ IsFiniteSet(D) /\ f \in Bijection(D, E) /\ c \in [D -> Nat] /\ d \in [E -> Nat]
         /\ \A x \in D : c[x] = d[f[x]]
<1> DEFINE g == [p \in Points(c) |-> <<f[p[1]], p[2]>>]
<1>1. \A p : p \in Points(c) <=> \E x \in D : \E n \in 1 .. c[x] : p = <<x, n>>
  BY DEF Points
<1>2. \A p : p \in Points(d) <=> \E y \in E : \E n \in 1 .. d[y] : p = <<y, n>>
  BY DEF Points
<1>3. /\ \A x \in D : f[x] \in E
      /\ \A x, y \in D : f[x] = f[y] => x = y
      /\ \A y \in E : \E x \in D : f[x] = y
  BY DEF Bijection, Injection, Surjection, IsInjective
<1>4. g \in [Points(c) -> Points(d)]
  BY <1>1, <1>2, <1>3
<1>5. \A p, q \in Points(c) : g[p] = g[q] => p = q
  BY <1>1, <1>3
<1>6. ASSUME NEW q \in Points(d) PROVE \E p \in Points(c) : g[p] = q
  <2>1. PICK y \in E : \E n \in 1 .. d[y] : q = <<y, n>>
    BY <1>2
  <2>4. PICK n \in 1 .. d[y] : q = <<y, n>>
    BY <2>1
  <2>2. PICK x \in D : f[x] = y
    BY <1>3
  <2>3. <<x, n>> \in Points(c)
    BY <1>1, <2>2
  <2> QED
    BY <2>2, <2>3, <2>4
<1>7. g \in Bijection(Points(c), Points(d))
  BY <1>4, <1>5, <1>6 DEF Bijection, Injection, Surjection, IsInjective
<1>8. ExistsBijection(Points(c), Points(d))
  BY <1>7 DEF ExistsBijection
<1> QED
  BY <1>8, TotalType, FS_Bijection DEF Total

LEMMA TotalOfParts ==
  \A D, A, B, c, a, b :
    /\ IsFiniteSet(D) /\ c \in [D -> Nat] /\ D = A \cup B /\ A \cap B = {}
    /\ a \in [A -> Nat] /\ (\A x \in A : a[x] = c[x])
    /\ b \in [B -> Nat] /\ (\A x \in B : b[x] = c[x])
    => Total(c) = Total(a) + Total(b)
<1> SUFFICES ASSUME NEW D, NEW A, NEW B, NEW c, NEW a, NEW b,
                    IsFiniteSet(D), c \in [D -> Nat], D = A \cup B, A \cap B = {},
                    a \in [A -> Nat], \A x \in A : a[x] = c[x],
                    b \in [B -> Nat], \A x \in B : b[x] = c[x]
             PROVE  Total(c) = Total(a) + Total(b)
  OBVIOUS
<1>1. IsFiniteSet(A) /\ IsFiniteSet(B) /\ c \in [A \cup B -> Nat]
  BY FS_Subset
<1>2. a = [x \in A |-> c[x]] /\ b = [x \in B |-> c[x]]
  OBVIOUS
<1> QED
  BY <1>1, <1>2, TotalSplits


\* One term and the rest.
LEMMA TotalTakes ==
  \A D, R, y, c, r :
    /\ IsFiniteSet(D) /\ c \in [D -> Nat] /\ y \in D
    /\ R = D \ {y} /\ r \in [R -> Nat] /\ \A x \in R : r[x] = c[x]
    => Total(c) = c[y] + Total(r)
<1> SUFFICES ASSUME NEW D, NEW R, NEW y, NEW c, NEW r,
                    IsFiniteSet(D), c \in [D -> Nat], y \in D,
                    R = D \ {y}, r \in [R -> Nat], \A x \in R : r[x] = c[x]
             PROVE  Total(c) = c[y] + Total(r)
  OBVIOUS
<1> DEFINE A == {y}
           a == [x \in A |-> c[x]]
           b == [x \in R |-> c[x]]
<1>1. IsFiniteSet(A) /\ IsFiniteSet(R)
  BY FS_Singleton, FS_RemoveElement
<1>2. D = A \cup R /\ A \cap R = {} /\ c \in [A \cup R -> Nat] /\ b = r
  OBVIOUS
<1>3. Total(a) = c[y]
  <2>1. a = [x \in {y} |-> c[y]] /\ c[y] \in Nat
    OBVIOUS
  <2> HIDE DEF a
  <2> QED
    BY <2>1, TotalOfOne
<1>4. Total(c) = Total(a) + Total(b)
  BY <1>1, <1>2, TotalSplits
<1> HIDE DEF a, b
<1> QED
  BY <1>2, <1>3, <1>4

LEMMA TotalBounded ==
  \A D, E, c, most :
    /\ IsFiniteSet(E) /\ D \subseteq E /\ c \in [D -> Nat] /\ most \in Nat
    /\ \A x \in D : c[x] <= most
    => Total(c) <= Cardinality(E) * most
<1> TAKE D, E, c, most
<1> HAVE /\ IsFiniteSet(E) /\ D \subseteq E /\ c \in [D -> Nat] /\ most \in Nat
         /\ \A x \in D : c[x] <= most
<1>1. IsFiniteSet(1 .. most) /\ Cardinality(1 .. most) = most
  BY FS_Interval
<1>2. IsFiniteSet(E \X (1 .. most)) /\ Cardinality(E \X (1 .. most)) = Cardinality(E) * most
  BY <1>1, FS_Product
<1>3. Points(c) \subseteq E \X (1 .. most)
  BY DEF Points
<1> QED
  BY <1>2, <1>3, FS_Subset DEF Total

LEMMA MinIs == \A a, b \in Int : Min({a, b}) = IF a <= b THEN a ELSE b
<1> TAKE a, b \in Int
<1>1. \E x \in {a, b} : \A y \in {a, b} : x <= y
  <2>1. CASE a <= b
    BY <2>1
  <2>2. CASE b <= a
    BY <2>2
  <2> QED
    BY <2>1, <2>2
<1>2. Min({a, b}) \in {a, b} /\ \A y \in {a, b} : Min({a, b}) <= y
  BY <1>1 DEF Min
<1> QED
  BY <1>2

LEMMA MaxIs == \A a, b \in Int : Max({a, b}) = IF a <= b THEN b ELSE a
<1> TAKE a, b \in Int
<1>1. \E x \in {a, b} : \A y \in {a, b} : x >= y
  <2>1. CASE a <= b
    BY <2>1
  <2>2. CASE b <= a
    BY <2>2
  <2> QED
    BY <2>1, <2>2
<1>2. Max({a, b}) \in {a, b} /\ \A y \in {a, b} : Max({a, b}) >= y
  BY <1>1 DEF Max
<1> QED
  BY <1>2
-----------------------------------------------------------------------------
(* What rows and queues are worth, for any table of rows e and of queues q.  *)

WorthIn(e, S, price) == Total([s \in S |-> price[e[s].kind]])
Priced(e, S, price) ==
  S \subseteq Slots /\ IsFiniteSet(S) /\ \A s \in S : price[e[s].kind] \in Nat

LEMMA FiniteRows == \A S : S \subseteq Slots => IsFiniteSet(S)
BY EconomyAssumption, FS_Subset DEF EconomyAssumption

LEMMA WorthType == ASSUME NEW e, NEW S, NEW price, Priced(e, S, price) PROVE WorthIn(e, S, price) \in Nat
BY TotalType DEF WorthIn, Priced

LEMMA WorthSame ==
  ASSUME NEW e, NEW f, NEW S, NEW price, \A s \in S : e[s].kind = f[s].kind
  PROVE  WorthIn(e, S, price) = WorthIn(f, S, price)
<1>1. [s \in S |-> price[e[s].kind]] = [s \in S |-> price[f[s].kind]]
  OBVIOUS
<1> QED
  BY <1>1 DEF WorthIn

LEMMA WorthSplits ==
  ASSUME NEW e, NEW A, NEW B, NEW price, Priced(e, A, price), Priced(e, B, price), A \cap B = {}
  PROVE  WorthIn(e, A \cup B, price) = WorthIn(e, A, price) + WorthIn(e, B, price)
<1> DEFINE c == [s \in A \cup B |-> price[e[s].kind]]
<1>1. c \in [A \cup B -> Nat] /\ IsFiniteSet(A) /\ IsFiniteSet(B)
  BY DEF Priced
<1>2. /\ [s \in A |-> c[s]] = [s \in A |-> price[e[s].kind]]
      /\ [s \in B |-> c[s]] = [s \in B |-> price[e[s].kind]]
  OBVIOUS
<1> HIDE DEF c
<1>3. Total(c) = Total([s \in A |-> c[s]]) + Total([s \in B |-> c[s]])
  BY <1>1, TotalSplits
<1> QED
  BY <1>2, <1>3 DEF WorthIn, c

LEMMA WorthEmpty == \A e, price : WorthIn(e, {}, price) = 0
BY TotalEmpty DEF WorthIn

LEMMA WorthOfOne ==
  ASSUME NEW e, NEW s, NEW price, price[e[s].kind] \in Nat
  PROVE  WorthIn(e, {s}, price) = price[e[s].kind]
<1>1. [t \in {s} |-> price[e[t].kind]] = [t \in {s} |-> price[e[s].kind]]
  OBVIOUS
<1> QED
  BY <1>1, TotalOfOne DEF WorthIn

\* The entries of the queues of the rows in B, and what they are worth.
EntriesIn(q, B) == {e \in B \X (1 .. QueueCap) : e[2] \in DOMAIN q[e[1]]}
QueuedIn(q, B, price) == Total([e \in EntriesIn(q, B) |-> price[q[e[1]][e[2]]]])
Queued(q, B, price) ==
  /\ B \subseteq Slots
  /\ \A s \in B : q[s] \in Seq(UnitKinds) /\ Len(q[s]) <= QueueCap
  /\ \A k \in UnitKinds : price[k] \in Nat

LEMMA EntriesFinite == \A q, B : B \subseteq Slots => IsFiniteSet(EntriesIn(q, B))
<1> SUFFICES ASSUME NEW q, NEW B, B \subseteq Slots PROVE IsFiniteSet(EntriesIn(q, B))
  OBVIOUS
<1>0. QueueCap \in Int /\ 1 \in Int
  BY EconomyAssumption DEF EconomyAssumption
<1>1. IsFiniteSet(1 .. QueueCap) /\ IsFiniteSet(B)
  BY <1>0, FS_Interval, FiniteRows
<1>2. IsFiniteSet(B \X (1 .. QueueCap))
  BY <1>1, FS_Product
<1> QED
  BY <1>2, FS_Subset DEF EntriesIn

LEMMA EntriesTyped ==
  ASSUME NEW q, NEW B, NEW price, Queued(q, B, price)
  PROVE  /\ [e \in EntriesIn(q, B) |-> price[q[e[1]][e[2]]]] \in [EntriesIn(q, B) -> Nat]
         /\ IsFiniteSet(EntriesIn(q, B))
         /\ \A x \in EntriesIn(q, B) : \E s \in B : \E i \in 1 .. Len(q[s]) : x = <<s, i>>
         /\ \A s \in B : \A i \in 1 .. Len(q[s]) : <<s, i>> \in EntriesIn(q, B)
<1>1. IsFiniteSet(EntriesIn(q, B))
  BY EntriesFinite DEF Queued
<1>2. QueueCap \in Nat
  BY EconomyAssumption DEF EconomyAssumption
<1>3. ASSUME NEW x \in EntriesIn(q, B)
      PROVE  \E s \in B : \E i \in 1 .. Len(q[s]) : x = <<s, i>>
  BY <1>3 DEF EntriesIn, Queued
<1>4. ASSUME NEW s \in B, NEW i \in 1 .. Len(q[s]) PROVE <<s, i>> \in EntriesIn(q, B)
  <2>1. i \in 1 .. QueueCap /\ i \in DOMAIN q[s]
    BY <1>2, <1>4 DEF Queued
  <2> QED
    BY <2>1 DEF EntriesIn
<1>5. ASSUME NEW x \in EntriesIn(q, B) PROVE price[q[x[1]][x[2]]] \in Nat
  <2>1. PICK s \in B : \E i \in 1 .. Len(q[s]) : x = <<s, i>>
    BY <1>3
  <2>2. PICK i \in 1 .. Len(q[s]) : x = <<s, i>>
    BY <2>1
  <2>3. q[s][i] \in UnitKinds
    BY <2>2 DEF Queued
  <2> QED
    BY <2>2, <2>3 DEF Queued
<1> QED
  BY <1>1, <1>3, <1>4, <1>5

LEMMA QueuedType ==
  ASSUME NEW q, NEW B, NEW price, Queued(q, B, price) PROVE QueuedIn(q, B, price) \in Nat
BY EntriesTyped, TotalType DEF QueuedIn

LEMMA QueuedSame ==
  ASSUME NEW q, NEW p, NEW B, NEW price, \A s \in B : q[s] = p[s]
  PROVE  QueuedIn(q, B, price) = QueuedIn(p, B, price)
<1>1. EntriesIn(q, B) = EntriesIn(p, B)
  BY DEF EntriesIn
<1>2. [e \in EntriesIn(q, B) |-> price[q[e[1]][e[2]]]] = [e \in EntriesIn(q, B) |-> price[p[e[1]][e[2]]]]
  BY DEF EntriesIn
<1> QED
  BY <1>1, <1>2 DEF QueuedIn

LEMMA QueuedEmpty ==
  ASSUME NEW q, NEW B, NEW price, \A s \in B : q[s] = <<>>
  PROVE  QueuedIn(q, B, price) = 0
<1>1. EntriesIn(q, B) = {}
  BY DEF EntriesIn
<1> QED
  BY <1>1, TotalEmpty DEF QueuedIn

LEMMA QueuedSplits ==
  ASSUME NEW q, NEW A, NEW B, NEW price,
         Queued(q, A, price), Queued(q, B, price), A \cap B = {}
  PROVE  QueuedIn(q, A \cup B, price) = QueuedIn(q, A, price) + QueuedIn(q, B, price)
<1> DEFINE c == [e \in EntriesIn(q, A \cup B) |-> price[q[e[1]][e[2]]]]
<1>0. Queued(q, A \cup B, price)
  BY DEF Queued
<1>1. c \in [EntriesIn(q, A \cup B) -> Nat] /\ IsFiniteSet(EntriesIn(q, A)) /\ IsFiniteSet(EntriesIn(q, B))
  BY <1>0, EntriesTyped
<1>2. EntriesIn(q, A \cup B) = EntriesIn(q, A) \cup EntriesIn(q, B) /\ EntriesIn(q, A) \cap EntriesIn(q, B) = {}
  BY DEF EntriesIn
<1>3. /\ [e \in EntriesIn(q, A) |-> c[e]] = [e \in EntriesIn(q, A) |-> price[q[e[1]][e[2]]]]
      /\ [e \in EntriesIn(q, B) |-> c[e]] = [e \in EntriesIn(q, B) |-> price[q[e[1]][e[2]]]]
  BY <1>2
<1> HIDE DEF c
<1> DEFINE a == EntriesIn(q, A)
           b == EntriesIn(q, B)
<1>6. c \in [a \cup b -> Nat] /\ IsFiniteSet(a) /\ IsFiniteSet(b) /\ a \cap b = {}
  BY <1>1, <1>2
<1> DEFINE ca == [e \in a |-> c[e]]
           cb == [e \in b |-> c[e]]
<1>7. /\ ca \in [a -> Nat] /\ \A x \in a : ca[x] = c[x]
      /\ cb \in [b -> Nat] /\ \A x \in b : cb[x] = c[x]
  BY <1>6
<1>9. IsFiniteSet(a \cup b)
  BY <1>6, FS_Union
<1> HIDE DEF a, b, ca, cb
<1>8. Total(c) = Total(ca) + Total(cb)
  BY <1>6, <1>7, <1>9, TotalOfParts
<1>4. Total(c) = Total([e \in EntriesIn(q, A) |-> c[e]]) + Total([e \in EntriesIn(q, B) |-> c[e]])
  BY <1>8 DEF a, b, ca, cb
<1>5. Total(c) = QueuedIn(q, A \cup B, price)
  BY DEF QueuedIn, c
<1> QED
  BY <1>3, <1>4, <1>5 DEF QueuedIn

LEMMA EntriesOfOne ==
  ASSUME NEW q, NEW s, NEW price, Queued(q, {s}, price)
  PROVE  /\ EntriesIn(q, {s}) = {s} \X (1 .. Len(q[s])) /\ Len(q[s]) \in Nat
         /\ \A i \in 1 .. Len(q[s]) : price[q[s][i]] \in Nat
<1>1. q[s] \in Seq(UnitKinds) /\ Len(q[s]) <= QueueCap
  BY DEF Queued
<1>2. Len(q[s]) \in Nat /\ DOMAIN q[s] = 1 .. Len(q[s]) /\ QueueCap \in Nat
  BY <1>1, EconomyAssumption DEF EconomyAssumption
<1>3. \A i \in 1 .. Len(q[s]) : q[s][i] \in UnitKinds
  BY <1>1
<1>4. EntriesIn(q, {s}) = {s} \X (1 .. Len(q[s]))
  BY <1>1, <1>2 DEF EntriesIn
<1> QED
  BY <1>2, <1>3, <1>4 DEF Queued

\* The sequence y is x without its entry i: those behind it have moved up.
Without(x, i, y) ==
  /\ i \in 1 .. Len(x) /\ Len(y) = Len(x) - 1
  /\ \A j \in 1 .. Len(y) : y[j] = IF j < i THEN x[j] ELSE x[j + 1]

\* The row s and no other.
Alone(s) == {s}

\* A queue loses what the removed entry was worth.
LEMMA QueuedRemoved ==
  \A q, p, s, price, i :
    Queued(q, Alone(s), price) /\ Queued(p, Alone(s), price) /\ Without(q[s], i, p[s])
    => QueuedIn(q, Alone(s), price) = price[q[s][i]] + QueuedIn(p, Alone(s), price)
<1> USE DEF Alone
<1> TAKE q, p, s, price, i
<1> HAVE Queued(q, Alone(s), price) /\ Queued(p, Alone(s), price) /\ Without(q[s], i, p[s])
<1>0. /\ i \in 1 .. Len(q[s]) /\ Len(p[s]) = Len(q[s]) - 1
      /\ \A j \in 1 .. Len(p[s]) : p[s][j] = IF j < i THEN q[s][j] ELSE q[s][j + 1]
  BY DEF Without
<1> DEFINE n == Len(q[s])
           D == {s} \X (1 .. n)
           E == {s} \X (1 .. n - 1)
           c == [e \in D |-> price[q[e[1]][e[2]]]]
           d == [e \in E |-> price[p[e[1]][e[2]]]]
           at == {<<s, i>>}
           rest == D \ at
           r == [x \in rest |-> c[x]]
           f == [e \in E |-> <<s, IF e[2] < i THEN e[2] ELSE e[2] + 1>>]
<1>1. n \in Nat /\ i \in 1 .. n /\ EntriesIn(q, {s}) = D /\ \A j \in 1 .. n : price[q[s][j]] \in Nat
  BY Zenon, <1>0, EntriesOfOne
<1>2. EntriesIn(p, {s}) = E /\ \A j \in 1 .. n - 1 : price[p[s][j]] \in Nat
  BY <1>0, EntriesOfOne
<1>3. QueuedIn(q, {s}, price) = Total(c) /\ QueuedIn(p, {s}, price) = Total(d)
  BY <1>1, <1>2 DEF QueuedIn
<1>4. IsFiniteSet(D) /\ IsFiniteSet(E) /\ IsFiniteSet(at) /\ IsFiniteSet(rest)
  <2>1. Queued(q, {s}, price) /\ Queued(p, {s}, price) /\ {s} \subseteq Slots
    BY DEF Queued
  <2>2. IsFiniteSet(EntriesIn(q, {s})) /\ IsFiniteSet(EntriesIn(p, {s}))
    BY <2>1, EntriesFinite
  <2>3. IsFiniteSet(D) /\ IsFiniteSet(E)
    BY <1>1, <1>2, <2>2
  <2> HIDE DEF D, E
  <2> QED
    BY <2>3, FS_Singleton, FS_Subset
<1>5. c \in [D -> Nat]
  BY <1>1
<1>6. d \in [E -> Nat]
  BY <1>2
<1>7. r \in [rest -> Nat]
  BY <1>5
<1> HIDE DEF c, d, r
<1>8. f \in Bijection(E, rest)
  <2>1. ASSUME NEW x \in E PROVE f[x] \in rest
    BY <1>1
  <2>2. ASSUME NEW x \in E, NEW y \in E, f[x] = f[y] PROVE x = y
    <3>1. x = <<s, x[2]>> /\ y = <<s, y[2]>> /\ x[2] \in 1 .. n - 1 /\ y[2] \in 1 .. n - 1
      OBVIOUS
    <3>2. f[x][2] = (IF x[2] < i THEN x[2] ELSE x[2] + 1)
          /\ f[y][2] = (IF y[2] < i THEN y[2] ELSE y[2] + 1)
      OBVIOUS
    <3> HIDE DEF f
    <3>3. x[2] = y[2]
      BY <1>1, <2>2, <3>1, <3>2
    <3> QED
      BY <3>1, <3>3
  <2>3. ASSUME NEW y \in rest PROVE \E x \in E : f[x] = y
    <3>1. y = <<s, y[2]>> /\ y[2] \in 1 .. n /\ y[2] # i
      OBVIOUS
    <3>2. CASE y[2] < i
      <4>1. <<s, y[2]>> \in E
        BY <1>1, <3>1, <3>2
      <4>2. f[<<s, y[2]>>] = y
        BY <3>1, <3>2, <4>1
      <4> QED
        BY <4>1, <4>2
    <3>3. CASE y[2] > i
      <4>1. <<s, y[2] - 1>> \in E
        BY <1>1, <3>1, <3>3
      <4>2. f[<<s, y[2] - 1>>] = y
        BY <1>1, <3>1, <3>3, <4>1
      <4> QED
        BY <4>1, <4>2
    <3>4. y[2] < i \/ y[2] > i
      BY <1>1, <3>1
    <3> QED
      BY Zenon, <3>2, <3>3, <3>4
  <2>4. f \in [E -> rest]
    BY <2>1
  <2> HIDE DEF f, rest, E
  <2> QED
    BY <2>2, <2>3, <2>4 DEF Bijection, Injection, Surjection, IsInjective
<1>9. \A x \in E : d[x] = r[f[x]]
  <2> SUFFICES ASSUME NEW x \in E PROVE d[x] = r[f[x]]
    OBVIOUS
  <2>1. x = <<s, x[2]>> /\ x[2] \in 1 .. n - 1
    OBVIOUS
  <2>2. f[x] = (IF x[2] < i THEN <<s, x[2]>> ELSE <<s, x[2] + 1>>) /\ f[x] \in rest
    <3>1. f[x] = <<s, IF x[2] < i THEN x[2] ELSE x[2] + 1>>
      OBVIOUS
    <3>2. f[x] \in rest
      BY Zenon, <1>8 DEF Bijection, Surjection
    <3>3. f[x] = (IF x[2] < i THEN <<s, x[2]>> ELSE <<s, x[2] + 1>>)
      BY Zenon, <3>1
    <3> QED
      BY <3>2, <3>3
  <2>3. d[x] = price[p[s][x[2]]]
    BY <2>1 DEF d
  <2>4. r[f[x]] = price[q[s][f[x][2]]]
    BY <2>2, <1>1 DEF r, c
  <2> QED
    BY <1>0, <1>1, <2>1, <2>2, <2>3, <2>4
<1>10. Total(d) = Total(r)
  <2> HIDE DEF f, rest, E
  <2> QED
    BY <1>4, <1>6, <1>7, <1>8, <1>9, TotalRenamed
<1>11. Total(c) = c[<<s, i>>] + Total(r)
  <2> DEFINE y == <<s, i>>
  <2>1. y \in D /\ r = [x \in D \ {y} |-> c[x]]
    BY <1>1 DEF r
  <2>3. IsFiniteSet(D) /\ c \in [D -> Nat] /\ y \in D
    BY <1>4, <1>5, <2>1
  <2>4. rest = D \ {y} /\ r \in [rest -> Nat] /\ \A x \in rest : r[x] = c[x]
    BY <1>7 DEF r
  <2> HIDE DEF y, D, E, f, rest, at
  <2>2. Total(c) = c[y] + Total(r)
    BY ONLY <2>3, <2>4, TotalTakes
  <2> QED
    BY <2>2 DEF y
<1>12. c[<<s, i>>] = price[q[s][i]]
  BY <1>1 DEF c
<1> QED
  BY <1>3, <1>10, <1>11, <1>12

\* The heads of the queues of the rows in A are popped.
LEMMA QueuedTails ==
  ASSUME NEW q, NEW p, NEW A, NEW price, Queued(q, A, price), Queued(p, A, price),
         \A s \in A : /\ Len(q[s]) >= 1 /\ Len(p[s]) = Len(q[s]) - 1
                      /\ \A j \in 1 .. Len(p[s]) : p[s][j] = q[s][j + 1]
  PROVE  /\ [s \in A |-> price[q[s][1]]] \in [A -> Nat]
         /\ QueuedIn(q, A, price) = Total([s \in A |-> price[q[s][1]]]) + QueuedIn(p, A, price)
<1> DEFINE D == EntriesIn(q, A)
           E == EntriesIn(p, A)
           H == {<<s, 1>> : s \in A}
           R == D \ H
           c == [e \in D |-> price[q[e[1]][e[2]]]]
           d == [e \in E |-> price[p[e[1]][e[2]]]]
           g == [s \in A |-> price[q[s][1]]]
           h == [e \in H |-> c[e]]
           r == [e \in R |-> c[e]]
           k == [s \in A |-> <<s, 1>>]
           f == [e \in E |-> <<e[1], e[2] + 1>>]
<1>1. /\ c \in [D -> Nat] /\ IsFiniteSet(D)
      /\ \A x \in D : \E s \in A : \E i \in 1 .. Len(q[s]) : x = <<s, i>>
      /\ \A s \in A : \A i \in 1 .. Len(q[s]) : <<s, i>> \in D
  BY EntriesTyped
<1>2. /\ d \in [E -> Nat] /\ IsFiniteSet(E)
      /\ \A x \in E : \E s \in A : \E i \in 1 .. Len(p[s]) : x = <<s, i>>
      /\ \A s \in A : \A i \in 1 .. Len(p[s]) : <<s, i>> \in E
  BY EntriesTyped
<1>3. \A s \in A : Len(q[s]) \in Nat /\ Len(p[s]) \in Nat
  BY DEF Queued
<1>4. QueuedIn(q, A, price) = Total(c) /\ QueuedIn(p, A, price) = Total(d)
  BY DEF QueuedIn
<1>5. IsFiniteSet(A)
  BY FiniteRows DEF Queued
<1>6. \A e \in D : c[e] = price[q[e[1]][e[2]]]
  OBVIOUS
<1>7. \A e \in E : d[e] = price[p[e[1]][e[2]]]
  OBVIOUS
<1> HIDE DEF D, E, c, d
<1>8. \A s \in A : <<s, 1>> \in D
  BY <1>1, <1>3
<1>9. H \subseteq D /\ D = H \cup R /\ H \cap R = {}
  BY <1>8
<1>10. h \in [H -> Nat] /\ r \in [R -> Nat]
  BY <1>1, <1>9
<1>11. Total(c) = Total(h) + Total(r)
  <2> HIDE DEF H, R
  <2>1. (\A e \in H : h[e] = c[e]) /\ (\A e \in R : r[e] = c[e])
    OBVIOUS
  <2> HIDE DEF h, r
  <2> QED
    BY <1>1, <1>9, <1>10, <2>1, TotalOfParts
<1>12. g \in [A -> Nat] /\ \A s \in A : g[s] = h[k[s]]
  <2>1. \A s \in A : g[s] = c[<<s, 1>>] /\ c[<<s, 1>>] \in Nat
    BY <1>1, <1>6, <1>8
  <2> QED
    BY <2>1
<1>13. k \in Bijection(A, H)
  BY DEF Bijection, Injection, Surjection, IsInjective
<1>14. Total(g) = Total(h)
  <2> HIDE DEF g, h, k, H
  <2> QED
    BY <1>5, <1>10, <1>12, <1>13, TotalRenamed
<1>15. f \in Bijection(E, R)
  <2>1. ASSUME NEW x \in E PROVE f[x] \in R
    <3>1. PICK s \in A : \E i \in 1 .. Len(p[s]) : x = <<s, i>>
      BY <1>2
    <3>2. PICK i \in 1 .. Len(p[s]) : x = <<s, i>>
      BY <3>1
    <3>3. f[x] = <<s, i + 1>> /\ i + 1 \in 1 .. Len(q[s]) /\ i + 1 # 1
      BY <1>3, <3>2
    <3> QED
      BY <1>1, <3>3
  <2>2. ASSUME NEW x \in E, NEW y \in E, f[x] = f[y] PROVE x = y
    <3>1. PICK s \in A : \E i \in 1 .. Len(p[s]) : x = <<s, i>>
      BY <1>2
    <3>2. PICK i \in 1 .. Len(p[s]) : x = <<s, i>>
      BY <3>1
    <3>3. PICK t \in A : \E j \in 1 .. Len(p[t]) : y = <<t, j>>
      BY <1>2
    <3>4. PICK j \in 1 .. Len(p[t]) : y = <<t, j>>
      BY <3>3
    <3>5. f[x] = <<s, i + 1>> /\ f[y] = <<t, j + 1>>
      BY <3>2, <3>4
    <3>6. s = t /\ i = j
      BY <1>3, <2>2, <3>2, <3>4, <3>5
    <3> QED
      BY <3>2, <3>4, <3>6
  <2>3. ASSUME NEW y \in R PROVE \E x \in E : f[x] = y
    <3>1. PICK s \in A : \E i \in 1 .. Len(q[s]) : y = <<s, i>>
      BY <1>1
    <3>2. PICK i \in 1 .. Len(q[s]) : y = <<s, i>>
      BY <3>1
    <3>3. i # 1
      BY <3>2
    <3>4. i - 1 \in 1 .. Len(p[s])
      BY <1>3, <3>2, <3>3
    <3>5. <<s, i - 1>> \in E
      BY <1>2, <3>4
    <3>6. f[<<s, i - 1>>] = y
      BY <3>2, <3>5
    <3> QED
      BY <3>5, <3>6
  <2>4. f \in [E -> R]
    BY <2>1
  <2> HIDE DEF f, R
  <2> QED
    BY <2>2, <2>3, <2>4 DEF Bijection, Injection, Surjection, IsInjective
<1>16. \A x \in E : d[x] = r[f[x]]
  <2> SUFFICES ASSUME NEW x \in E PROVE d[x] = r[f[x]]
    OBVIOUS
  <2>1. PICK s \in A : \E i \in 1 .. Len(p[s]) : x = <<s, i>>
    BY <1>2
  <2>2. PICK i \in 1 .. Len(p[s]) : x = <<s, i>>
    BY <2>1
  <2>3. f[x] = <<s, i + 1>> /\ f[x] \in R
    <3>1. f[x] \in R
      BY Zenon, <1>15 DEF Bijection, Surjection
    <3> QED
      BY <2>2, <3>1
  <2>4. r[f[x]] = price[q[s][i + 1]]
    BY <1>6, <2>3
  <2>5. d[x] = price[p[s][i]]
    BY <1>7, <2>2
  <2> QED
    BY <2>2, <2>4, <2>5
<1>17. Total(d) = Total(r)
  <2> HIDE DEF f, R, r
  <2> QED
    BY <1>2, <1>10, <1>15, <1>16, TotalRenamed
<1> QED
  BY <1>4, <1>11, <1>12, <1>14, <1>17
-----------------------------------------------------------------------------
(* The rows.                                                               *)

\* The inductive invariant.  A living row still has a generation to lose, so
\* its id is an id; a site's progress has not reached its target.
RowsInv ==
  /\ RowsTypeOK
  /\ \A s \in Alive : gen[s] < MaxGen
  /\ \A s \in Sites : ent[s].progress < ent[s].target
  /\ ScratchExact
  /\ BuildOrdersLive
  /\ StallOnlyAtTheEnd

\* Sets of rows only ever hold rows, and a row is of one sort.
LEMMA RowFacts ==
  /\ Alive \subseteq Slots /\ Units \subseteq Alive /\ Buildings \subseteq Alive
  /\ Sites \subseteq Buildings /\ Finished \subseteq Buildings /\ Workers \subseteq Units
  /\ Units \cap Buildings = {}
  /\ Free \cap Alive = {}
BY EconomyAssumption DEF EconomyAssumption, Alive, Units, Buildings, Sites, Finished, Workers, Free

LEMMA RowsInit == Init => RowsInv
<1> SUFFICES ASSUME Init PROVE RowsInv
  OBVIOUS
<1> USE DEF Init
<1>0. /\ StartKind \in [Slots -> Kinds \cup {None}] /\ None \notin Entities
      /\ MaxGen \in Nat \ {0} /\ StallTicks \in Nat \ {0}
  BY EconomyAssumption DEF EconomyAssumption
<1>1. ent \in [Slots -> Entities \cup {None}]
  BY <1>0 DEF Entities
<1>2. gen \in [Slots -> Gens] /\ stall \in [Slots -> 0 .. StallTicks - 1]
  BY <1>0 DEF Gens
<1>3. RowsTypeOK
  BY <1>1, <1>2 DEF RowsTypeOK, Phases
<1>4. \A s \in Alive : gen[s] < MaxGen
  BY <1>0 DEF Alive
<1>5. Sites = {}
  BY DEF Sites, Buildings, Alive
<1> QED
  BY <1>3, <1>4, <1>5 DEF RowsInv, ScratchExact, BuildOrdersLive, StallOnlyAtTheEnd

\* The steps that leave the rows, and the order of the systems, as they are.
LEMMA RowsUntouched ==
  ASSUME RowsInv, UNCHANGED <<ent, gen, live, orders, stall, attend>>,
         progress' \in [Slots -> Nat], phase' \in Phases,
         placement' \in BuildingKinds \cup {None},
         objective' \in Ids \cup {None}, dirty' \in BOOLEAN, orphaned' \in BOOLEAN,
         phase # "commands" \/ phase' = "commands"
  PROVE  RowsInv'
<1>1. RowsTypeOK'
  BY DEF RowsInv, RowsTypeOK
<1>2. /\ Alive' = Alive /\ Sites' = Sites /\ Workers' = Workers
      /\ \A id : Names(id, Sites)' <=> Names(id, Sites)
  BY DEF Alive, Sites, Buildings, Workers, Units, Names, IdAt
<1> QED
  BY <1>1, <1>2 DEF RowsInv, ScratchExact, BuildOrdersLive, StallOnlyAtTheEnd

\* A new order names a live site, and only workers are given one.
LEMMA RowsReordered ==
  ASSUME RowsInv, phase = "commands",
         UNCHANGED <<phase, ent, gen, live, queue, progress, stall, attend, placement, enemy>>,
         orders' \in [Slots -> Ids \cup {None}],
         \A w \in Slots : \/ orders'[w] \in {None, orders[w]}
                          \/ w \in Workers /\ Names(orders'[w], Sites)
  PROVE  RowsInv'
<1>1. RowsTypeOK'
  BY DEF RowsInv, RowsTypeOK, enemy
<1>2. /\ Alive' = Alive /\ Sites' = Sites /\ Workers' = Workers
      /\ \A id : Names(id, Sites)' <=> Names(id, Sites)
  BY DEF Alive, Sites, Buildings, Workers, Units, Names, IdAt
<1>3. BuildOrdersLive'
  BY <1>2 DEF RowsInv, BuildOrdersLive
<1> QED
  BY <1>1, <1>2, <1>3 DEF RowsInv, ScratchExact, StallOnlyAtTheEnd

\* The id of a living row is an id.
LEMMA LivingId == RowsInv => \A s \in Alive : IdAt(s) \in Ids
BY EconomyAssumption DEF EconomyAssumption, RowsInv, RowsTypeOK, IdAt, Ids, Gens, Alive

LEMMA ConfirmKeepsRows == \A w, s \in Slots : RowsInv /\ ConfirmPlacement(w, s) => RowsInv'
<1> SUFFICES ASSUME NEW w \in Slots, NEW s \in Slots, RowsInv, ConfirmPlacement(w, s)
             PROVE  RowsInv'
  OBVIOUS
<1> USE DEF ConfirmPlacement
<1> DEFINE site == [kind |-> placement, progress |-> 0, target |-> BuildTicks[placement]]
<1>0. /\ None \notin Entities /\ BuildTicks \in [BuildingKinds -> Nat \ {0}]
      /\ StallTicks \in Nat \ {0}
  BY EconomyAssumption DEF EconomyAssumption
<1>1. /\ site \in Entities /\ site.kind \in BuildingKinds
      /\ site.progress = 0 /\ site.target \in Nat \ {0}
  BY <1>0 DEF RowsInv, RowsTypeOK, Entities, Kinds
<1>2. ent' = [ent EXCEPT ![s] = site] /\ stall' = [stall EXCEPT ![s] = 0]
  BY DEF FreshStall
<1>3. s \notin Alive /\ w # s /\ w \in Workers /\ IdAt(s) \in Ids
  BY EconomyAssumption DEF EconomyAssumption, RowsInv, RowsTypeOK, Free, Alive, Workers, Units, IdAt, Ids, Gens
<1>4. RowsTypeOK'
  BY <1>0, <1>1, <1>2, <1>3 DEF RowsInv, RowsTypeOK, enemy
<1>5. Alive' = Alive \cup {s} /\ gen[s] < MaxGen
  BY <1>0, <1>1, <1>2 DEF RowsInv, RowsTypeOK, Alive, Free
<1>6. Sites' = Sites \cup {s} /\ Workers \subseteq Workers'
  <2>1. \A t \in Slots : t # s => ent'[t] = ent[t]
    BY <1>2 DEF RowsInv, RowsTypeOK
  <2>2. ent'[s] = site
    BY <1>2 DEF RowsInv, RowsTypeOK
  <2> QED
    BY <1>1, <1>3, <1>5, <2>1, <2>2, RowFacts DEF Sites, Buildings, Workers, Units
<1>7. BuildOrdersLive'
  <2>1. \A v \in Slots : orders'[v] = orders[v] \/ (v = w /\ orders'[v] = IdAt(s))
    BY DEF RowsInv, RowsTypeOK
  <2> QED
    BY <2>1, <1>3, <1>6 DEF RowsInv, BuildOrdersLive, Names, IdAt
<1>8. StallOnlyAtTheEnd' /\ \A t \in Sites' : ent'[t].progress < ent'[t].target
  <2>1. \A t \in Slots : t # s => ent'[t] = ent[t] /\ stall'[t] = stall[t]
    BY <1>2 DEF RowsInv, RowsTypeOK
  <2>2. ent'[s] = site /\ stall'[s] = 0
    BY <1>2 DEF RowsInv, RowsTypeOK
  <2> QED
    BY <1>1, <1>6, <2>1, <2>2, RowFacts DEF RowsInv, StallOnlyAtTheEnd
<1> QED
  BY <1>4, <1>5, <1>7, <1>8 DEF RowsInv, ScratchExact

\* Rows are freed: what they leave behind names nobody else.
LEMMA CancelKeepsRows == \A s \in Slots : RowsInv /\ CancelConstruction(s) => RowsInv'
<1> SUFFICES ASSUME NEW s \in Slots, RowsInv, CancelConstruction(s)
             PROVE  RowsInv'
  OBVIOUS
<1> USE DEF CancelConstruction
<1>0. MaxGen \in Nat \ {0} /\ None \notin Ids
  BY EconomyAssumption DEF EconomyAssumption
<1>1. s \in Alive /\ gen[s] < MaxGen
  BY RowFacts DEF RowsInv
<1>2. \A t \in Slots : ent'[t] = IF t = s THEN None ELSE ent[t]
  BY DEF Despawned
<1>3. \A t \in Slots : gen'[t] = IF t = s THEN gen[t] + 1 ELSE gen[t]
  BY DEF Regenerated
<1>4. \A v \in Slots : orders'[v] = IF orders[v] = IdAt(s) THEN None ELSE orders[v]
  BY DEF Unordered, Names
<1>5. RowsTypeOK'
  <2>1. ent' \in [Slots -> Entities \cup {None}]
    BY DEF Despawned, RowsInv, RowsTypeOK
  <2>2. gen' \in [Slots -> Gens]
    BY <1>0, <1>1 DEF Regenerated, RowsInv, RowsTypeOK, Gens
  <2>3. orders' \in [Slots -> Ids \cup {None}]
    BY DEF Unordered, RowsInv, RowsTypeOK
  <2>4. progress' \in [Slots -> Nat]
    BY DEF Zeroed, RowsInv, RowsTypeOK
  <2>5. orphaned' \in BOOLEAN
    BY DEF RowsInv, RowsTypeOK
  <2> QED
    BY <2>1, <2>2, <2>3, <2>4, <2>5 DEF RowsInv, RowsTypeOK
<1>6. Alive' = Alive \ {s} /\ Sites' = Sites \ {s} /\ Workers' = Workers
  BY <1>2, RowFacts DEF Alive, Sites, Buildings, Units, Workers
<1>7. BuildOrdersLive'
  <2>1. SUFFICES ASSUME NEW v \in Slots, orders'[v] # None
                 PROVE  v \in Workers' /\ \E t \in Sites' : orders'[v] = IdAt(t)'
    BY DEF BuildOrdersLive, Names
  <2>2. orders'[v] = orders[v] /\ orders[v] # IdAt(s)
    BY <1>4, <2>1
  <2>3. PICK t \in Sites : orders[v] = IdAt(t)
    BY <2>1, <2>2 DEF RowsInv, BuildOrdersLive, Names
  <2>4. t # s /\ t \in Slots /\ IdAt(t)' = IdAt(t)
    BY <1>3, <2>2, <2>3, RowFacts DEF IdAt
  <2> QED
    BY <1>6, <2>1, <2>2, <2>3, <2>4 DEF RowsInv, BuildOrdersLive
<1>8. /\ StallOnlyAtTheEnd' /\ \A t \in Sites' : ent'[t].progress < ent'[t].target
      /\ \A t \in Alive' : gen'[t] < MaxGen
  BY <1>2, <1>3, <1>6, RowFacts DEF RowsInv, StallOnlyAtTheEnd
<1> QED
  BY <1>5, <1>7, <1>8 DEF RowsInv, ScratchExact

LEMMA StartTickKeepsRows == RowsInv /\ StartTick => RowsInv'
<1> SUFFICES ASSUME RowsInv, StartTick PROVE RowsInv'
  OBVIOUS
<1> USE DEF StartTick
<1>1. RowsTypeOK'
  BY RowFacts DEF RowsInv, RowsTypeOK, Phases, purse, enemy
<1>2. /\ Alive' = Alive /\ Sites' = Sites /\ Workers' = Workers
      /\ \A id : Names(id, Sites)' <=> Names(id, Sites)
  BY DEF Alive, Sites, Buildings, Workers, Units, Names, IdAt
<1> QED
  BY <1>1, <1>2 DEF RowsInv, ScratchExact, BuildOrdersLive, StallOnlyAtTheEnd

\* A unit only ever takes a free row: no living row, and no site, changes.
LEMMA ProductionKeepsRows ==
  ASSUME NEW spot \in [Ready -> Free \cup {None}], RowsInv, QueuesOK, Production(spot)
  PROVE  RowsInv'
<1> DEFINE served == {s \in Ready : spot[s] # None}
           born(t) == {s \in served : spot[s] = t}
           taken == {spot[s] : s \in served}
<1>0. None \notin Entities
  BY EconomyAssumption DEF EconomyAssumption
<1>1. taken \subseteq Free /\ taken \subseteq Slots
  BY DEF Free
<1>2. \A t \in Slots : t \notin taken => ent'[t] = ent[t]
  BY DEF Production
<1>3. \A s \in Producing : s \in Slots /\ Head(queue[s]) \in UnitKinds
  BY RowFacts DEF QueuesOK, Producing
<1>4. ASSUME NEW t \in taken
      PROVE  /\ ent'[t] \in Entities /\ ent'[t].kind \in UnitKinds /\ ent'[t].target = 0
  <2>1. PICK s \in served : spot[s] = t
    OBVIOUS
  <2> DEFINE b == CHOOSE x \in born(t) : TRUE
  <2>2. b \in Ready /\ born(t) # {}
    BY <2>1
  <2>3. ent'[t] = [kind |-> Head(queue[b]), progress |-> 0, target |-> 0]
    BY <1>1, <2>2 DEF Production
  <2>4. Head(queue[b]) \in UnitKinds
    BY <1>3, <2>2 DEF Ready
  <2> QED
    BY <2>3, <2>4 DEF Entities, Kinds
<1>5. ent' \in [Slots -> Entities \cup {None}]
  <2>1. \A t \in Slots : ent'[t] \in Entities \cup {None}
    BY <1>2, <1>4 DEF RowsInv, RowsTypeOK
  <2>2. ent' = [t \in Slots |-> ent'[t]]
    BY DEF Production
  <2> QED
    BY <2>1, <2>2
<1>6. progress' \in [Slots -> Nat]
  <2>1. \A s \in Producing : Need(s) \in Nat
    BY <1>3, EconomyAssumption DEF EconomyAssumption, Need
  <2>2. \A s \in Slots : \/ progress'[s] \in {0, progress[s]}
                         \/ s \in Producing /\ progress'[s] = Min({Need(s), progress[s] + 1})
    BY DEF Production
  <2>3. \A s \in Slots : progress[s] \in Nat
    BY DEF RowsInv, RowsTypeOK
  <2>4. ASSUME NEW s \in Slots PROVE progress'[s] \in Nat
    <3>1. CASE progress'[s] \in {0, progress[s]}
      BY <2>3, <3>1
    <3>2. CASE s \in Producing /\ progress'[s] = Min({Need(s), progress[s] + 1})
      <4>1. Need(s) \in Nat /\ progress[s] + 1 \in Nat
        BY <2>1, <2>3, <3>2
      <4> QED
        BY <3>2, <4>1, MinIs
    <3> QED
      BY <2>2, <3>1, <3>2
  <2>5. progress' = [s \in Slots |-> progress'[s]]
    BY DEF Production
  <2> QED
    BY <2>4, <2>5
<1>7. RowsTypeOK'
  BY <1>1, <1>5, <1>6 DEF Production, RowsInv, RowsTypeOK, Phases, purse, enemy
<1>8. /\ Alive' = Alive \cup taken /\ taken \cap Alive = {}
      /\ \A t \in taken : gen[t] < MaxGen
  BY <1>0, <1>1, <1>2, <1>4 DEF Alive, Free
<1>9. Sites' = Sites
  <2>1. Sites \subseteq Sites'
    BY <1>2, <1>8, RowFacts DEF Sites, Buildings
  <2>2. Sites' \subseteq Sites
    BY <1>2, <1>4, <1>8, RowFacts DEF Sites, Buildings
  <2> QED
    BY <2>1, <2>2
<1>10. Workers \subseteq Workers'
  BY <1>2, <1>8, RowFacts DEF Workers, Units
<1>11. BuildOrdersLive'
  BY <1>9, <1>10 DEF Production, RowsInv, BuildOrdersLive, Names, IdAt
<1>12. StallOnlyAtTheEnd' /\ \A t \in Sites' : ent'[t].progress < ent'[t].target
  <2>1. \A t \in Sites : ent'[t] = ent[t] /\ stall'[t] = stall[t]
    BY <1>2, <1>8, RowFacts DEF Production
  <2> QED
    BY <1>9, <2>1 DEF RowsInv, StallOnlyAtTheEnd
<1>13. ScratchExact'
  BY <1>8 DEF Production, RowsInv, ScratchExact
<1> QED
  BY <1>7, <1>8, <1>11, <1>12, <1>13 DEF Production, RowsInv

LEMMA CombatKeepsRows ==
  ASSUME NEW dead \in SUBSET Alive, RowsInv, Combat(dead)
  PROVE  RowsInv'
<1> DEFINE fallen == dead \cap Buildings
<1>0. MaxGen \in Nat \ {0}
  BY EconomyAssumption DEF EconomyAssumption
<1>1. \A t \in Slots : ent'[t] = IF t \in dead THEN None ELSE ent[t]
  BY DEF Combat, Despawned
<1>2. \A t \in Slots : gen'[t] = IF t \in dead THEN gen[t] + 1 ELSE gen[t]
  BY DEF Combat, Regenerated
<1>3. \A v \in Slots : orders'[v] = IF v \in dead \/ Names(orders[v], fallen) THEN None ELSE orders[v]
  BY DEF Combat, Unordered
<1>4. RowsTypeOK'
  <2>1. ent' \in [Slots -> Entities \cup {None}]
    BY DEF Combat, Despawned, RowsInv, RowsTypeOK
  <2>2. gen' \in [Slots -> Gens]
    BY <1>0 DEF Combat, Regenerated, RowsInv, RowsTypeOK, Gens
  <2>3. orders' \in [Slots -> Ids \cup {None}]
    <3>1. orders' = [v \in Slots |-> orders'[v]]
      BY DEF Combat
    <3> QED
      BY <1>3, <3>1 DEF RowsInv, RowsTypeOK
  <2>4. progress' \in [Slots -> Nat]
    BY DEF Combat, Zeroed, RowsInv, RowsTypeOK
  <2>5. live' \subseteq Slots /\ dirty' \in BOOLEAN
    BY DEF Combat, Alarm, RowsInv, RowsTypeOK
  <2> QED
    BY <2>1, <2>2, <2>3, <2>4, <2>5 DEF Combat, RowsInv, RowsTypeOK, Phases
<1>5. /\ Alive' = Alive \ dead /\ Sites' = Sites \ dead /\ Workers' = Workers \ dead
  BY <1>1, RowFacts DEF Alive, Sites, Buildings, Units, Workers
<1>6. BuildOrdersLive'
  <2>1. SUFFICES ASSUME NEW v \in Slots, orders'[v] # None
                 PROVE  v \in Workers' /\ \E t \in Sites' : orders'[v] = IdAt(t)'
    BY DEF BuildOrdersLive, Names
  <2>2. orders'[v] = orders[v] /\ v \notin dead /\ ~Names(orders[v], fallen)
    BY <1>3, <2>1
  <2>3. PICK t \in Sites : orders[v] = IdAt(t)
    BY <2>1, <2>2 DEF RowsInv, BuildOrdersLive, Names
  <2>4. t \notin dead /\ t \in Slots /\ IdAt(t)' = IdAt(t)
    BY <1>2, <2>2, <2>3, RowFacts DEF IdAt, Names
  <2> QED
    BY <1>5, <2>1, <2>2, <2>3, <2>4 DEF RowsInv, BuildOrdersLive
<1>7. /\ StallOnlyAtTheEnd' /\ \A t \in Sites' : ent'[t].progress < ent'[t].target
      /\ \A t \in Alive' : gen'[t] < MaxGen
  BY <1>1, <1>2, <1>5, RowFacts DEF Combat, RowsInv, StallOnlyAtTheEnd
<1>8. ScratchExact'
  BY <1>5 DEF Combat, RowsInv, ScratchExact
<1> QED
  BY <1>4, <1>6, <1>7, <1>8 DEF RowsInv

\* What finishing and advancing do to an entity's record.
LEMMA Updates ==
  ASSUME NEW e \in Entities
  PROVE  LET done == [e EXCEPT !.progress = 0, !.target = 0]
             next == [e EXCEPT !.progress = @ + 1]
         IN /\ done \in Entities /\ done.kind = e.kind /\ done.target = 0
            /\ next \in Entities /\ next.kind = e.kind /\ next.target = e.target
            /\ next.progress = e.progress + 1
<1>1. e.kind \in Kinds /\ e.progress \in Nat /\ e.target \in Nat
  BY DEF Entities
<1>2. [e EXCEPT !.progress = 0] \in Entities /\ [e EXCEPT !.progress = 0].kind = e.kind
  BY DEF Entities
<1>3. \A f \in Entities : /\ [f EXCEPT !.target = 0] \in Entities
                          /\ [f EXCEPT !.target = 0].kind = f.kind
                          /\ [f EXCEPT !.target = 0].target = 0
  BY DEF Entities
<1>4. [e EXCEPT !.progress = 0, !.target = 0] = [[e EXCEPT !.progress = 0] EXCEPT !.target = 0]
  OBVIOUS
<1>5. /\ [e EXCEPT !.progress = @ + 1] \in Entities
      /\ [e EXCEPT !.progress = @ + 1].kind = e.kind
      /\ [e EXCEPT !.progress = @ + 1].target = e.target
      /\ [e EXCEPT !.progress = @ + 1].progress = e.progress + 1
  BY <1>1 DEF Entities
<1> QED
  BY <1>2, <1>3, <1>4, <1>5

\* Construction finishes some sites and gives up others; the rest keep to
\* their counts.
LEMMA ConstructionKeepsRows ==
  ASSUME NEW arrived \in SUBSET Workers, NEW clear \in SUBSET Sites,
         RowsInv, Construction(arrived, clear)
  PROVE  RowsInv'
<1> DEFINE attended == {s \in Sites \cap live : \E w \in arrived \cap live : orders[w] = IdAt(s)}
           ending == {s \in attended : ent[s].progress + 1 >= ent[s].target}
           finished == ending \cap clear
           held == ending \ clear
           stalled == {s \in held : Exhausted(s)}
<1>0. MaxGen \in Nat \ {0} /\ StallTicks \in Nat \ {0} /\ None \notin Entities
  BY EconomyAssumption DEF EconomyAssumption
<1>1. /\ finished \subseteq Sites /\ held \subseteq Sites /\ stalled \subseteq held
      /\ attended \subseteq Sites /\ ending \subseteq attended /\ finished \cap held = {}
  OBVIOUS
<1>2. \A s \in Slots : ent'[s] =
        CASE s \in stalled -> None
          [] s \in finished -> [ent[s] EXCEPT !.progress = 0, !.target = 0]
          [] s \in attended \ ending -> [ent[s] EXCEPT !.progress = @ + 1]
          [] OTHER -> ent[s]
  BY DEF Construction
<1>3. \A s \in Slots : stall'[s] = IF s \in held \ stalled THEN stall[s] + 1
                                   ELSE IF s \in attended THEN 0 ELSE stall[s]
  BY DEF Construction, Discards
<1>4. \A s \in Slots : gen'[s] = IF s \in stalled THEN gen[s] + 1 ELSE gen[s]
  BY DEF Construction, Regenerated
<1>5. \A w \in Slots : orders'[w] = IF Names(orders[w], Sites \ (finished \cup stalled))
                                    THEN orders[w] ELSE None
  BY DEF Construction
<1>6. \A s \in Sites : /\ ent[s] \in Entities /\ s \in Slots /\ ent[s].kind \in BuildingKinds
                       /\ ent[s].progress \in Nat /\ ent[s].target \in Nat
                       /\ ent[s].progress < ent[s].target
  BY RowFacts DEF RowsInv, RowsTypeOK, Sites, Buildings, Alive, Entities
<1>7. \A s \in Sites : ent'[s] \in Entities \cup {None}
  <2> SUFFICES ASSUME NEW s \in Sites PROVE ent'[s] \in Entities \cup {None}
    OBVIOUS
  <2>1. ent[s] \in Entities /\ s \in Slots
    BY <1>6
  <2> QED
    BY <1>2, <2>1, Updates
<1>8. \A s \in Slots \ Sites : ent'[s] = ent[s]
  BY <1>1, <1>2
<1>9. RowsTypeOK'
  <2>1. ent' \in [Slots -> Entities \cup {None}]
    <3>1. ent' = [s \in Slots |-> ent'[s]]
      BY DEF Construction
    <3> QED
      BY <1>7, <1>8, <3>1 DEF RowsInv, RowsTypeOK
  <2>2. gen' \in [Slots -> Gens]
    <3>1. \A s \in stalled : gen[s] < MaxGen
      BY <1>1, RowFacts DEF RowsInv
    <3>2. \A s \in Slots : gen[s] \in 0 .. MaxGen
      BY DEF RowsInv, RowsTypeOK, Gens
    <3>3. \A s \in Slots : gen'[s] \in 0 .. MaxGen
      BY <1>0, <1>4, <3>1, <3>2
    <3>4. gen' = [s \in Slots |-> gen'[s]]
      BY DEF Construction, Regenerated
    <3> QED
      BY <3>3, <3>4 DEF Gens
  <2>3. orders' \in [Slots -> Ids \cup {None}]
    BY DEF Construction, RowsInv, RowsTypeOK
  <2>4. progress' \in [Slots -> Nat]
    BY DEF Construction, Zeroed, RowsInv, RowsTypeOK
  <2>5. stall' \in [Slots -> 0 .. StallTicks - 1]
    <3>1. \A s \in Slots : stall[s] \in 0 .. StallTicks - 1
      BY DEF RowsInv, RowsTypeOK
    <3>2. \A s \in held \ stalled : stall[s] + 1 < StallTicks
      BY <1>0, <1>1, <1>6, <3>1 DEF Exhausted, Discards
    <3>3. \A s \in Slots : stall'[s] \in 0 .. StallTicks - 1
      BY <1>0, <1>3, <3>1, <3>2
    <3>4. stall' = [s \in Slots |-> stall'[s]]
      BY DEF Construction
    <3> QED
      BY <3>3, <3>4
  <2>6. live' \subseteq Slots /\ attend' \subseteq Slots
    BY <1>1, <1>6 DEF Construction, Retained, RowsInv, RowsTypeOK
  <2>7. dirty' \in BOOLEAN /\ orphaned' \in BOOLEAN
    BY DEF Construction, Alarm, RowsInv, RowsTypeOK
  <2> QED
    BY <2>1, <2>2, <2>3, <2>4, <2>5, <2>6, <2>7 DEF Construction, RowsInv, RowsTypeOK, Phases
<1>10. /\ \A s \in stalled : ent'[s] = None
       /\ \A s \in finished : ent'[s].kind = ent[s].kind /\ ent'[s].target = 0 /\ ent'[s] # None
       /\ \A s \in attended \ ending : /\ ent'[s].kind = ent[s].kind /\ ent'[s] # None
                                       /\ ent'[s].target = ent[s].target
                                       /\ ent'[s].progress = ent[s].progress + 1
       /\ \A s \in Sites \ (stalled \cup finished \cup (attended \ ending)) : ent'[s] = ent[s]
  <2>1. \A s \in stalled : ent'[s] = None
    BY <1>1, <1>2, <1>6
  <2>2. ASSUME NEW s \in finished
        PROVE  ent'[s].kind = ent[s].kind /\ ent'[s].target = 0 /\ ent'[s] \in Entities
    <3>1. ent'[s] = [ent[s] EXCEPT !.progress = 0, !.target = 0]
      BY <1>1, <1>2, <1>6
    <3>2. ent[s] \in Entities
      BY <1>1, <1>6
    <3> QED
      BY <3>1, <3>2, Updates
  <2>3. ASSUME NEW s \in attended \ ending
        PROVE  /\ ent'[s].kind = ent[s].kind /\ ent'[s] \in Entities
               /\ ent'[s].target = ent[s].target /\ ent'[s].progress = ent[s].progress + 1
    <3>1. ent'[s] = [ent[s] EXCEPT !.progress = @ + 1]
      BY <1>1, <1>2, <1>6
    <3>2. ent[s] \in Entities
      BY <1>1, <1>6
    <3> QED
      BY <3>1, <3>2, Updates
  <2>4. \A s \in Sites \ (stalled \cup finished \cup (attended \ ending)) : ent'[s] = ent[s]
    BY <1>2, <1>6
  <2> QED
    BY <1>0, <2>1, <2>2, <2>3, <2>4
<1>11. Alive' = Alive \ stalled
  BY <1>1, <1>6, <1>8, <1>10, RowFacts DEF Alive
<1>12. Sites' = Sites \ (finished \cup stalled)
  <2>1. \A s \in Sites \ (finished \cup stalled) :
          ent'[s] # None /\ ent'[s].kind = ent[s].kind /\ ent'[s].target = ent[s].target
    BY <1>10, RowFacts DEF Alive
  <2>2. Sites \ (finished \cup stalled) \subseteq Sites'
    BY <1>6, <2>1 DEF Sites, Buildings, Alive
  <2>3. \A s \in Sites' : s \in Slots /\ s \notin finished \cup stalled
    BY <1>10 DEF Sites, Buildings, Alive
  <2>4. \A s \in Sites' : s \in Sites
    BY <1>8, <2>3 DEF Sites, Buildings, Alive
  <2> QED
    BY <2>2, <2>3, <2>4
<1>13. Workers' = Workers
  <2>1. \A s \in Slots \ Sites : s \in Workers' <=> s \in Workers
    BY <1>8 DEF Workers, Units, Alive
  <2>2. \A s \in Sites : s \notin Workers /\ s \notin Workers'
    <3>1. ASSUME NEW s \in Sites, s \in Alive' PROVE ent'[s].kind = ent[s].kind
      BY <1>1, <1>10, <1>11, <3>1
    <3> QED
      BY <1>6, <3>1, EconomyAssumption DEF EconomyAssumption, Workers, Units
  <2> QED
    BY <2>1, <2>2 DEF Workers, Units, Alive
<1>14. BuildOrdersLive'
  <2>1. SUFFICES ASSUME NEW v \in Slots, orders'[v] # None
                 PROVE  v \in Workers' /\ \E t \in Sites' : orders'[v] = IdAt(t)'
    BY DEF BuildOrdersLive, Names
  <2>2. orders'[v] = orders[v] /\ Names(orders[v], Sites \ (finished \cup stalled))
    BY <1>5, <2>1
  <2>3. PICK t \in Sites \ (finished \cup stalled) : orders[v] = IdAt(t)
    BY <2>2 DEF Names
  <2>4. IdAt(t)' = IdAt(t)
    BY <1>4, <1>6, <2>3 DEF IdAt
  <2> QED
    BY <1>12, <1>13, <2>1, <2>2, <2>3, <2>4 DEF RowsInv, BuildOrdersLive
<1>15. ASSUME NEW s \in Sites'
       PROVE  ent'[s].progress < ent'[s].target
              /\ (stall'[s] > 0 => ent'[s].progress = ent'[s].target - 1)
  <2>1. s \in Sites \ (finished \cup stalled) /\ stall[s] \in Nat
    BY <1>0, <1>6, <1>12 DEF RowsInv, RowsTypeOK
  <2>2. CASE s \in attended \ ending
    BY <1>3, <1>6, <1>10, <2>1, <2>2
  <2>3. CASE s \in held \ stalled
    <3>1. ent'[s] = ent[s] /\ ent[s].progress + 1 >= ent[s].target
      BY <1>1, <1>10, <2>1, <2>3
    <3> QED
      BY <1>6, <2>1, <3>1
  <2>4. CASE s \notin attended
    <3>1. ent'[s] = ent[s] /\ stall'[s] = stall[s]
      BY <1>1, <1>3, <1>6, <1>10, <2>1, <2>4
    <3> QED
      BY <1>6, <2>1, <3>1 DEF RowsInv, StallOnlyAtTheEnd
  <2> QED
    BY <2>1, <2>2, <2>3, <2>4
<1>16. ScratchExact' /\ \A s \in Alive' : gen'[s] < MaxGen
  BY <1>1, <1>4, <1>11, RowFacts DEF Construction, Retained, RowsInv, ScratchExact
<1> QED
  BY <1>9, <1>14, <1>15, <1>16 DEF RowsInv, StallOnlyAtTheEnd

LEMMA QueuesInit == Init => QueuesOK
<1> SUFFICES ASSUME Init PROVE QueuesOK
  OBVIOUS
<1>1. queue = [s \in Slots |-> <<>>] /\ QueueCap \in Nat
  BY EconomyAssumption DEF EconomyAssumption, Init
<1> QED
  BY <1>1 DEF QueuesOK

\* A queue is replaced by one that is typed and no longer than it may be.
LEMMA QueuesReplaced ==
  ASSUME QueuesOK, queue' = [s \in Slots |-> queue'[s]],
         \A s \in Slots : \/ queue'[s] = queue[s]
                          \/ queue'[s] \in Seq(UnitKinds) /\ Len(queue'[s]) <= QueueCap
  PROVE  QueuesOK'
<1>1. \A s \in Slots : queue'[s] \in Seq(UnitKinds) /\ Len(queue'[s]) <= QueueCap
  BY DEF QueuesOK
<1> QED
  BY <1>1 DEF QueuesOK

LEMMA EmptiedKeepsQueues == ASSUME QueuesOK, NEW S, queue' = Emptied(S) PROVE QueuesOK'
<1>1. queue' = [s \in Slots |-> queue'[s]] /\ \A s \in Slots : queue'[s] \in {<<>>, queue[s]}
  BY DEF Emptied
<1>2. QueueCap \in Nat /\ <<>> \in Seq(UnitKinds) /\ Len(<<>>) <= QueueCap
  BY EconomyAssumption DEF EconomyAssumption
<1> QED
  BY <1>1, <1>2, QueuesReplaced

LEMMA EnqueueKeepsQueues ==
  ASSUME NEW s \in Slots, NEW k \in UnitKinds, QueuesOK, Enqueue(s, k) PROVE QueuesOK'
<1>1. /\ queue' = [queue EXCEPT ![s] = Append(queue[s], k)]
      /\ Len(queue[s]) < QueueCap /\ QueueCap \in Nat
  BY EconomyAssumption DEF EconomyAssumption, Enqueue
<1>2. queue[s] \in Seq(UnitKinds)
  BY DEF QueuesOK
<1>3. Append(queue[s], k) \in Seq(UnitKinds) /\ Len(Append(queue[s], k)) <= QueueCap
  BY <1>1, <1>2
<1>4. queue' = [t \in Slots |-> queue'[t]]
      /\ \A t \in Slots : queue'[t] = IF t = s THEN Append(queue[s], k) ELSE queue[t]
  BY <1>1 DEF QueuesOK
<1> QED
  BY <1>3, <1>4, QueuesReplaced

LEMMA CancelQueuedKeepsQueues ==
  ASSUME NEW s \in Slots, NEW i \in 1 .. QueueCap, QueuesOK, CancelQueued(s, i) PROVE QueuesOK'
<1> DEFINE rest == SubSeq(queue[s], 1, i - 1) \o SubSeq(queue[s], i + 1, Len(queue[s]))
<1>1. queue' = [queue EXCEPT ![s] = rest] /\ i \in DOMAIN queue[s] /\ QueueCap \in Nat
  BY EconomyAssumption DEF EconomyAssumption, CancelQueued
<1>2. queue[s] \in Seq(UnitKinds) /\ Len(queue[s]) \in Nat /\ Len(queue[s]) <= QueueCap
      /\ i \in 1 .. Len(queue[s])
  BY <1>1 DEF QueuesOK
<1>3. rest \in Seq(UnitKinds) /\ Len(rest) <= QueueCap
  <2>1. SubSeq(queue[s], 1, i - 1) \in Seq(UnitKinds) /\ Len(SubSeq(queue[s], 1, i - 1)) = i - 1
    BY <1>2
  <2>2. SubSeq(queue[s], i + 1, Len(queue[s])) \in Seq(UnitKinds)
        /\ Len(SubSeq(queue[s], i + 1, Len(queue[s]))) = Len(queue[s]) - i
    BY <1>2
  <2> DEFINE before == SubSeq(queue[s], 1, i - 1)
             after == SubSeq(queue[s], i + 1, Len(queue[s]))
  <2>3. before \in Seq(UnitKinds) /\ Len(before) = i - 1
        /\ after \in Seq(UnitKinds) /\ Len(after) = Len(queue[s]) - i
    BY <2>1, <2>2
  <2>4. i \in Nat /\ Len(queue[s]) \in Nat /\ Len(queue[s]) <= QueueCap /\ QueueCap \in Nat
    BY <1>1, <1>2
  <2> HIDE DEF before, after
  <2>5. before \o after \in Seq(UnitKinds) /\ Len(before \o after) = Len(before) + Len(after)
    BY <2>3
  <2>6. Len(before \o after) <= QueueCap
    BY <2>3, <2>4, <2>5
  <2> QED
    BY <2>5, <2>6 DEF before, after
<1>4. queue' = [t \in Slots |-> queue'[t]]
      /\ \A t \in Slots : queue'[t] = IF t = s THEN rest ELSE queue[t]
  BY <1>1 DEF QueuesOK
<1> QED
  BY <1>3, <1>4, QueuesReplaced

LEMMA ProductionKeepsQueues ==
  ASSUME NEW spot \in [Ready -> Free \cup {None}], QueuesOK, Production(spot) PROVE QueuesOK'
<1> DEFINE served == {s \in Ready : spot[s] # None}
<1>1. queue' = [s \in Slots |-> queue'[s]]
      /\ \A s \in Slots : queue'[s] = IF s \in served THEN Tail(queue[s]) ELSE queue[s]
  BY DEF Production, Popped
<1>2. ASSUME NEW s \in served
      PROVE  Tail(queue[s]) \in Seq(UnitKinds) /\ Len(Tail(queue[s])) <= QueueCap
  <2>1. queue[s] \in Seq(UnitKinds) /\ queue[s] # <<>> /\ Len(queue[s]) <= QueueCap
    BY RowFacts DEF Ready, Producing, QueuesOK
  <2>2. Tail(queue[s]) \in Seq(UnitKinds) /\ Len(Tail(queue[s])) = Len(queue[s]) - 1
    BY <2>1
  <2> QED
    BY <2>1, <2>2, EconomyAssumption DEF EconomyAssumption
<1> QED
  BY <1>1, <1>2, QueuesReplaced

LEMMA QueuesNext == QueuesOK /\ [Next]_vars => QueuesOK'
<1> SUFFICES ASSUME QueuesOK, [Next]_vars PROVE QueuesOK'
  OBVIOUS
<1>1. ASSUME UNCHANGED queue PROVE QueuesOK'
  BY <1>1 DEF QueuesOK
<1>2. CASE Command
  <2>1. CASE \E s \in Slots : CancelConstruction(s)
    BY <2>1, EmptiedKeepsQueues DEF CancelConstruction
  <2>2. CASE \E s \in Slots, k \in UnitKinds : Enqueue(s, k)
    BY <2>2, EnqueueKeepsQueues
  <2>3. CASE \E s \in Slots, i \in 1 .. QueueCap : CancelQueued(s, i)
    BY <2>3, CancelQueuedKeepsQueues
  <2> QED
    BY <1>1, <1>2, <2>1, <2>2, <2>3
    DEF Command, BeginPlacement, CancelPlacement, ConfirmPlacement, OrderBuild, OrderElsewhere, rows
<1>3. CASE System
  <2>1. CASE \E arrived \in SUBSET Workers, clear \in SUBSET Sites : Construction(arrived, clear)
    BY <2>1, EmptiedKeepsQueues DEF Construction
  <2>2. CASE \E spot \in [Ready -> Free \cup {None}] : Production(spot)
    BY <2>2, ProductionKeepsQueues
  <2>3. CASE \E dead \in SUBSET Alive : Combat(dead)
    BY <2>3, EmptiedKeepsQueues DEF Combat
  <2> QED
    BY <1>1, <1>3, <2>1, <2>2, <2>3 DEF System, StartTick, Gather, EnemyAI, Recount, rows
<1> QED
  BY <1>1, <1>2, <1>3 DEF Next, vars, rows

LEMMA RowsNext == RowsInv /\ QueuesOK /\ [Next]_vars => RowsInv'
<1> SUFFICES ASSUME RowsInv, QueuesOK, [Next]_vars PROVE RowsInv'
  OBVIOUS
<1>0. RowsTypeOK
  BY DEF RowsInv
<1>1. CASE \E k \in BuildingKinds : BeginPlacement(k)
  BY <1>0, <1>1, RowsUntouched DEF BeginPlacement, rows, enemy, RowsTypeOK
<1>2. CASE CancelPlacement
  BY <1>0, <1>2, RowsUntouched DEF CancelPlacement, rows, enemy, RowsTypeOK
<1>3. CASE \E w, s \in Slots : ConfirmPlacement(w, s)
  BY <1>3, ConfirmKeepsRows
<1>4. CASE \E s \in Slots : CancelConstruction(s)
  BY <1>4, CancelKeepsRows
<1>5. CASE \E group \in SUBSET Workers, s \in Slots : OrderBuild(group, s)
  <2>1. PICK group \in SUBSET Workers, s \in Slots : OrderBuild(group, s)
    BY <1>5
  <2>2. IdAt(s) \in Ids /\ Names(IdAt(s), Sites)
    BY <2>1, LivingId, RowFacts DEF OrderBuild, Names
  <2>3. orders' \in [Slots -> Ids \cup {None}]
        /\ \A w \in Slots : orders'[w] = orders[w] \/ (w \in Workers /\ orders'[w] = IdAt(s))
    <3>1. orders' = [w \in Slots |-> IF w \in group THEN IdAt(s) ELSE orders[w]]
      BY <2>1 DEF OrderBuild
    <3>2. orders \in [Slots -> Ids \cup {None}] /\ group \subseteq Workers
      BY <1>0, <2>1 DEF RowsTypeOK
    <3> QED
      BY <2>2, <3>1, <3>2
  <2> QED
    BY <2>1, <2>2, <2>3, RowsReordered DEF OrderBuild, purse
<1>6. CASE \E w \in Slots : OrderElsewhere(w)
  <2>1. orders' \in [Slots -> Ids \cup {None}]
        /\ \A w \in Slots : orders'[w] \in {None, orders[w]}
    BY <1>0, <1>6 DEF OrderElsewhere, RowsTypeOK
  <2> QED
    BY <1>6, <2>1, RowsReordered DEF OrderElsewhere, purse
<1>7. CASE \E s \in Slots, k \in UnitKinds : Enqueue(s, k)
  BY <1>0, <1>7, RowsUntouched DEF Enqueue, enemy, RowsTypeOK
<1>8. CASE \E s \in Slots, i \in 1 .. QueueCap : CancelQueued(s, i)
  <2>1. progress' \in [Slots -> Nat]
    BY <1>0, <1>8 DEF CancelQueued, RowsTypeOK
  <2> QED
    BY <1>0, <1>8, <2>1, RowsUntouched DEF CancelQueued, enemy, RowsTypeOK
<1>9. CASE StartTick
  BY <1>9, StartTickKeepsRows
<1>10. CASE \E arrived \in SUBSET Workers, clear \in SUBSET Sites : Construction(arrived, clear)
  BY <1>10, ConstructionKeepsRows
<1>11. CASE \E spot \in [Ready -> Free \cup {None}] : Production(spot)
  BY <1>11, ProductionKeepsRows
<1>12. CASE \E amount \in Deposits : Gather(amount)
  BY <1>0, <1>12, RowsUntouched DEF Gather, rows, enemy, RowsTypeOK, Phases
<1>13. CASE EnemyAI
  <2>1. objective' \in Ids \cup {None}
    <3>1. \A s \in Buildings : IdAt(s) \in Ids
      BY <1>0, LivingId, RowFacts
    <3>2. CASE dirty
      BY <1>13, <3>1, <3>2 DEF EnemyAI
    <3>3. CASE ~dirty
      BY <1>0, <1>13, <3>3 DEF EnemyAI, RowsTypeOK
    <3> QED
      BY <3>2, <3>3
  <2>2. dirty' \in BOOLEAN /\ orphaned' \in BOOLEAN
    BY <1>0, <1>13 DEF EnemyAI, RowsTypeOK
  <2> QED
    BY <1>0, <1>13, <2>1, <2>2, RowsUntouched DEF EnemyAI, rows, purse, RowsTypeOK, Phases
<1>14. CASE \E dead \in SUBSET Alive : Combat(dead)
  BY <1>14, CombatKeepsRows
<1>15. CASE Recount
  BY <1>0, <1>15, RowsUntouched DEF Recount, rows, enemy, RowsTypeOK, Phases
<1>16. CASE UNCHANGED vars
  BY <1>0, <1>16, RowsUntouched DEF vars, rows, purse, enemy, RowsTypeOK
<1> QED
  BY <1>1, <1>2, <1>3, <1>4, <1>5, <1>6, <1>7, <1>8, <1>9, <1>10, <1>11, <1>12, <1>13, <1>14,
     <1>15, <1>16 DEF Next, Command, System

\* The rows and their queues are well formed at every point of every tick.
THEOREM RowsAlwaysAgree == Spec => [](RowsInv /\ QueuesOK)
<1>1. Init => RowsInv /\ QueuesOK
  BY RowsInit, QueuesInit
<1>2. RowsInv /\ QueuesOK /\ [Next]_vars => (RowsInv /\ QueuesOK)'
  BY RowsNext, QueuesNext
<1> QED
  BY <1>1, <1>2, PTL DEF Spec

\* No system ever reads a dead row from `live_scratch', or misses a living one.
THEOREM ScratchIsExact == Spec => []ScratchExact
<1>1. RowsInv => ScratchExact
  BY DEF RowsInv
<1> QED
  BY <1>1, RowsAlwaysAgree, PTL

\* A Build order is a living worker's and names a live, unfinished site.
THEOREM BuildOrdersAreLive == Spec => []BuildOrdersLive
<1>1. RowsInv => BuildOrdersLive
  BY DEF RowsInv
<1> QED
  BY <1>1, RowsAlwaysAgree, PTL

\* Only a site at its last tick has failures to count.
THEOREM StallsAreLate == Spec => []StallOnlyAtTheEnd
<1>1. RowsInv => StallOnlyAtTheEnd
  BY DEF RowsInv
<1> QED
  BY <1>1, RowsAlwaysAgree, PTL
-----------------------------------------------------------------------------
(* Who is alive after each action, and as what.                            *)

\* A living row holds an entity of a kind the code knows.
LEMMA LivingKinds ==
  ASSUME RowsTypeOK
  PROVE  /\ \A s \in Alive : ent[s] \in Entities /\ ent[s].kind \in Kinds /\ ent[s].target \in Nat
         /\ Sites \cup Finished = Buildings /\ Sites \cap Finished = {}
         /\ Units \cup Buildings = Alive /\ Units \cap Buildings = {}
<1>1. \A s \in Alive : ent[s] \in Entities
  BY DEF RowsTypeOK, Alive
<1>2. \A s \in Alive : ent[s].kind \in Kinds /\ ent[s].target \in Nat
  BY <1>1 DEF Entities
<1>3. Units \cup Buildings = Alive /\ Units \cap Buildings = {}
  BY <1>2, EconomyAssumption DEF EconomyAssumption, Kinds, Units, Buildings
<1>4. Sites \cup Finished = Buildings /\ Sites \cap Finished = {}
  BY <1>2 DEF Sites, Finished, Buildings
<1> QED
  BY <1>1, <1>2, <1>3, <1>4

LEMMA ConfirmCensus ==
  ASSUME NEW w \in Slots, NEW s \in Slots, RowsInv, ConfirmPlacement(w, s)
  PROVE  /\ s \notin Alive /\ placement \in BuildingKinds
         /\ Units' = Units /\ Finished' = Finished /\ Sites' = Sites \cup {s}
         /\ Buildings' = Buildings \cup {s}
         /\ ent'[s].kind = placement /\ \A t \in Slots \ {s} : ent'[t] = ent[t]
<1> DEFINE site == [kind |-> placement, progress |-> 0, target |-> BuildTicks[placement]]
<1>0. None \notin Entities /\ BuildTicks \in [BuildingKinds -> Nat \ {0}]
      /\ BuildingKinds \cap UnitKinds = {}
  BY EconomyAssumption DEF EconomyAssumption
<1>1. /\ placement \in BuildingKinds /\ site \in Entities /\ site.kind = placement
      /\ site.target \in Nat \ {0}
  BY <1>0 DEF RowsInv, RowsTypeOK, ConfirmPlacement, Entities, Kinds
<1>2. ent'[s] = site /\ \A t \in Slots \ {s} : ent'[t] = ent[t]
  BY DEF RowsInv, RowsTypeOK, ConfirmPlacement
<1>3. s \notin Alive
  BY DEF ConfirmPlacement, Free, Alive
<1>4. Alive' = Alive \cup {s}
  BY <1>0, <1>1, <1>2 DEF Alive
<1> HIDE DEF site
<1>5. Units' = Units
  BY <1>0, <1>1, <1>2, <1>3, <1>4 DEF Units, Alive
<1>6. Buildings' = Buildings \cup {s}
  BY <1>0, <1>1, <1>2, <1>3, <1>4 DEF Buildings, Alive
<1>7. s \notin Buildings /\ Buildings \subseteq Slots
  BY <1>3, RowFacts
<1>8. Finished' = Finished /\ Sites' = Sites \cup {s}
  BY <1>1, <1>2, <1>6, <1>7 DEF Finished, Sites
<1> QED
  BY <1>1, <1>2, <1>3, <1>5, <1>6, <1>8

\* Rows of S are despawned, and the rest stay as they were.
LEMMA DespawnCensus ==
  ASSUME NEW S \in SUBSET Slots, ent' = Despawned(S)
  PROVE  /\ Units' = Units \ S /\ Finished' = Finished \ S /\ Sites' = Sites \ S
         /\ Buildings' = Buildings \ S /\ Alive' = Alive \ S
         /\ \A t \in Slots \ S : ent'[t] = ent[t]
<1>1. \A t \in Slots : ent'[t] = IF t \in S THEN None ELSE ent[t]
  BY DEF Despawned
<1>2. Alive' = Alive \ S
  BY <1>1 DEF Alive
<1>3. Units' = Units \ S /\ Buildings' = Buildings \ S
  BY <1>1, <1>2, RowFacts DEF Units, Buildings
<1>4. Finished' = Finished \ S /\ Sites' = Sites \ S
  BY <1>1, <1>3, RowFacts DEF Finished, Sites
<1> QED
  BY <1>1, <1>2, <1>3, <1>4

\* A tick's construction finishes some sites and gives up others.
LEMMA ConstructionCensus ==
  ASSUME NEW arrived \in SUBSET Workers, NEW clear \in SUBSET Sites,
         RowsInv, Construction(arrived, clear)
  PROVE  \E finished, stalled \in SUBSET Sites :
           /\ finished \cap stalled = {}
           /\ Units' = Units /\ Finished' = Finished \cup finished
           /\ Sites' = Sites \ (finished \cup stalled) /\ Buildings' = Buildings \ stalled
           /\ \A t \in Slots \ stalled : ent'[t].kind = ent[t].kind
           /\ cap' = Min({MaxSupplyCap, cap + GrantOf(finished)})
           /\ stock' = Credited(CostOf(stalled))
           /\ gen' = Regenerated(stalled)
           /\ queue' = Emptied(stalled) /\ progress' = Zeroed(stalled)
           /\ dirty' = Alarm(finished)
           /\ orphaned' = (orphaned \/ Names(objective, stalled))
           /\ \A t \in Slots : ent[t] = None => ent'[t] = None
<1> DEFINE attended == {s \in Sites \cap live : \E w \in arrived \cap live : orders[w] = IdAt(s)}
           ending == {s \in attended : ent[s].progress + 1 >= ent[s].target}
           finished == ending \cap clear
           held == ending \ clear
           stalled == {s \in held : Exhausted(s)}
<1>0. None \notin Entities /\ BuildingKinds \cap UnitKinds = {}
  BY EconomyAssumption DEF EconomyAssumption
<1>1. /\ finished \in SUBSET Sites /\ stalled \in SUBSET Sites /\ attended \subseteq Sites
      /\ finished \cap stalled = {} /\ finished \cap (attended \ ending) = {}
      /\ stalled \cap (attended \ ending) = {}
  OBVIOUS
<1>2. \A s \in Slots : ent'[s] =
        CASE s \in stalled -> None
          [] s \in finished -> [ent[s] EXCEPT !.progress = 0, !.target = 0]
          [] s \in attended \ ending -> [ent[s] EXCEPT !.progress = @ + 1]
          [] OTHER -> ent[s]
  BY DEF Construction
<1>3. /\ cap' = Min({MaxSupplyCap, cap + GrantOf(finished)})
      /\ stock' = Credited(CostOf(stalled))
      /\ gen' = Regenerated(stalled)
      /\ queue' = Emptied(stalled) /\ progress' = Zeroed(stalled)
      /\ dirty' = Alarm(finished)
      /\ orphaned' = (orphaned \/ Names(objective, stalled))
  BY DEF Construction
<1>4. \A s \in Sites : s \in Slots /\ ent[s] \in Entities /\ s \in Buildings /\ ent[s].target > 0
                       /\ ent[s].kind \in BuildingKinds
  BY RowFacts, LivingKinds DEF RowsInv, Sites, Buildings
<1> DEFINE worked == attended \ ending
<1> HIDE DEF attended, ending, finished, held, stalled
<1>5. \A s \in stalled : ent'[s] = None
  BY <1>1, <1>2, <1>4
<1>6. ASSUME NEW s \in finished
      PROVE  ent'[s].kind = ent[s].kind /\ ent'[s].target = 0 /\ ent'[s] # None
  <2>1. ent'[s] = [ent[s] EXCEPT !.progress = 0, !.target = 0]
    BY <1>1, <1>2, <1>4
  <2>2. ent[s] \in Entities
    BY <1>1, <1>4
  <2> QED
    BY <1>0, <2>1, <2>2, Updates
<1>7. ASSUME NEW s \in worked
      PROVE  ent'[s].kind = ent[s].kind /\ ent'[s].target = ent[s].target /\ ent'[s] # None
  <2>1. ent'[s] = [ent[s] EXCEPT !.progress = @ + 1]
    BY <1>1, <1>2, <1>4
  <2>2. ent[s] \in Entities
    BY <1>1, <1>4
  <2> QED
    BY <1>0, <2>1, <2>2, Updates
<1>8. \A s \in Slots \ (stalled \cup finished \cup worked) : ent'[s] = ent[s]
  BY <1>2
<1> HIDE DEF worked
<1>9. \A t \in Slots \ stalled : ent'[t].kind = ent[t].kind /\ (ent'[t] = None <=> ent[t] = None)
  <2>1. \A t \in finished \cup worked : ent[t] # None
    BY <1>0, <1>1, <1>4 DEF worked
  <2> QED
    BY <1>6, <1>7, <1>8, <2>1
<1>10. Alive' = Alive \ stalled
  BY <1>5, <1>9 DEF Alive
<1>11. Buildings' = Buildings \ stalled
  BY <1>9, <1>10, RowFacts DEF Buildings, Alive
<1>12. Units' = Units
  <2>1. Units \cap stalled = {}
    BY <1>1, <1>4, RowFacts
  <2> QED
    BY <1>9, <1>10, <2>1, RowFacts DEF Units, Alive
<1>13. \A t \in Buildings \ (stalled \cup finished) : ent'[t].target = ent[t].target
  BY <1>7, <1>8, RowFacts
<1>14. Sites' = Sites \ (finished \cup stalled)
  BY <1>1, <1>4, <1>6, <1>11, <1>13, RowFacts DEF Sites
<1>15. Finished' = Finished \cup finished
  <2>1. Finished \cap (stalled \cup finished) = {}
    BY <1>1, LivingKinds DEF RowsInv
  <2>2. finished \subseteq Buildings \ stalled
    BY <1>1, <1>4
  <2> QED
    BY <1>6, <1>11, <1>13, <2>1, <2>2 DEF Finished
<1>16. \A t \in Slots : ent[t] = None => ent'[t] = None
  BY <1>5, <1>9
<1> QED
  BY <1>1, <1>3, <1>9, <1>11, <1>12, <1>14, <1>15, <1>16

\* A unit is born in a free row, and is what the head of a queue said.
LEMMA ProductionCensus ==
  ASSUME NEW spot \in [Ready -> Free \cup {None}], RowsInv, QueuesOK, Production(spot)
  PROVE  LET served == {s \in Ready : spot[s] # None}
             taken == {spot[s] : s \in served}
         IN /\ served \subseteq Finished /\ \A s \in served : queue[s] # <<>>
            /\ taken \subseteq Slots /\ taken \cap Alive = {}
            /\ Units' = Units \cup taken /\ Finished' = Finished /\ Sites' = Sites
            /\ Buildings' = Buildings
            /\ \A s, t \in served : spot[s] = spot[t] => s = t
            /\ \A s \in served : ent'[spot[s]].kind = Head(queue[s])
            /\ \A t \in Slots \ taken : ent'[t] = ent[t]
<1> DEFINE served == {s \in Ready : spot[s] # None}
           born(t) == {s \in served : spot[s] = t}
           taken == {spot[s] : s \in served}
<1>0. None \notin Entities /\ BuildingKinds \cap UnitKinds = {}
  BY EconomyAssumption DEF EconomyAssumption
<1>1. taken \subseteq Free /\ taken \subseteq Slots /\ taken \cap Alive = {}
  BY RowFacts DEF Free
<1>2. served \subseteq Finished /\ \A s \in served : queue[s] # <<>>
  BY DEF Ready, Producing
<1>3. \A t \in Slots \ taken : ent'[t] = ent[t]
  BY DEF Production
<1>4. \A s, t \in served : spot[s] = spot[t] => s = t
  BY DEF Production
<1>5. ASSUME NEW s \in served
      PROVE  /\ ent'[spot[s]] = [kind |-> Head(queue[s]), progress |-> 0, target |-> 0]
             /\ Head(queue[s]) \in UnitKinds
  <2> DEFINE t == spot[s]
             b == CHOOSE x \in born(t) : TRUE
  <2>1. t \in Slots /\ born(t) # {}
    BY <1>1
  <2>2. b \in served /\ spot[b] = t
    BY <2>1
  <2>3. b = s
    BY <1>4, <2>2
  <2>4. ent'[t] = [kind |-> Head(queue[b]), progress |-> 0, target |-> 0]
    BY <2>1 DEF Production
  <2>5. queue[s] \in Seq(UnitKinds) /\ queue[s] # <<>>
    BY <1>2, RowFacts DEF QueuesOK
  <2>6. Head(queue[s]) \in UnitKinds
    BY <2>5
  <2> HIDE DEF b, t
  <2> QED
    BY <2>3, <2>4, <2>6 DEF t
<1> HIDE DEF served, born
<1>6. \A t \in taken : ent'[t] # None /\ ent'[t].kind \in UnitKinds
  <2> SUFFICES ASSUME NEW s \in served
               PROVE  ent'[spot[s]] # None /\ ent'[spot[s]].kind \in UnitKinds
    OBVIOUS
  <2> DEFINE k == Head(queue[s])
  <2>2. ent'[spot[s]] = [kind |-> k, progress |-> 0, target |-> 0] /\ k \in UnitKinds
    BY <1>5
  <2> HIDE DEF k
  <2>1. ent'[spot[s]] \in Entities /\ ent'[spot[s]].kind = k
    BY <2>2 DEF Entities, Kinds
  <2> QED
    BY <1>0, <2>1, <2>2
<1>7. ASSUME NEW s \in served PROVE ent'[spot[s]].kind = Head(queue[s])
  <2> DEFINE k == Head(queue[s])
  <2>1. ent'[spot[s]] = [kind |-> k, progress |-> 0, target |-> 0]
    BY <1>5
  <2> HIDE DEF k
  <2>2. ent'[spot[s]].kind = k
    BY <2>1
  <2> QED
    BY <2>2 DEF k
<1> HIDE DEF taken
<1>8. Alive' = Alive \cup taken
  BY <1>1, <1>3, <1>6 DEF Alive
<1>9. Units' = Units \cup taken /\ Buildings' = Buildings
  BY <1>0, <1>1, <1>3, <1>6, <1>8, RowFacts DEF Units, Buildings
<1>10. Finished' = Finished /\ Sites' = Sites
  BY <1>1, <1>3, <1>9, RowFacts DEF Finished, Sites
<1> QED
  BY <1>1, <1>2, <1>3, <1>4, <1>7, <1>9, <1>10 DEF served, taken
-----------------------------------------------------------------------------
(* What the sums are worth.                                                *)

UnitPrice(price) == \A k \in UnitKinds : price[k] \in Nat
WellQueued(q) == q \in [Slots -> Seq(UnitKinds)] /\ \A s \in Slots : Len(q[s]) <= QueueCap

LEMMA PricesAre ==
  /\ UnitPrice(SupplyCost)
  /\ \A r \in Resources : UnitPrice(Prices(r)) /\ \A k \in Kinds : Prices(r)[k] = Cost[k][r] /\ Cost[k][r] \in Nat
  /\ \A e, S : S \subseteq Slots /\ (\A s \in S : e[s].kind \in UnitKinds) => Priced(e, S, SupplyCost)
  /\ \A e, S : S \subseteq Slots /\ (\A s \in S : e[s].kind \in BuildingKinds) => Priced(e, S, Grant)
  /\ \A r \in Resources : \A e, S : S \subseteq Slots /\ (\A s \in S : e[s].kind \in Kinds) => Priced(e, S, Prices(r))
<1>0. /\ Cost \in [Kinds -> [Resources -> Nat]] /\ SupplyCost \in [UnitKinds -> Nat]
      /\ Grant \in [BuildingKinds -> Nat] /\ UnitKinds \subseteq Kinds
  BY EconomyAssumption DEF EconomyAssumption, Kinds
<1>1. UnitPrice(SupplyCost)
  BY <1>0 DEF UnitPrice
<1>2. \A r \in Resources : UnitPrice(Prices(r)) /\ \A k \in Kinds : Prices(r)[k] = Cost[k][r] /\ Cost[k][r] \in Nat
  BY <1>0 DEF UnitPrice, Prices
<1>3. \A e, S : S \subseteq Slots /\ (\A s \in S : e[s].kind \in UnitKinds) => Priced(e, S, SupplyCost)
  BY <1>0, FiniteRows DEF Priced
<1>4. \A e, S : S \subseteq Slots /\ (\A s \in S : e[s].kind \in BuildingKinds) => Priced(e, S, Grant)
  BY <1>0, FiniteRows DEF Priced
<1>5. \A r \in Resources : \A e, S : S \subseteq Slots /\ (\A s \in S : e[s].kind \in Kinds) => Priced(e, S, Prices(r))
  BY <1>2, FiniteRows DEF Priced
<1> QED
  BY <1>1, <1>2, <1>3, <1>4, <1>5

LEMMA QueuedPart ==
  \A q, A, price : WellQueued(q) /\ A \subseteq Slots /\ UnitPrice(price) => Queued(q, A, price)
BY DEF WellQueued, UnitPrice, Queued

\* The rows outside A keep their queues.
LEMMA QueuedOutside ==
  \A q, p, A, price :
    /\ A \subseteq Slots /\ WellQueued(q) /\ WellQueued(p) /\ UnitPrice(price)
    /\ \A s \in Slots \ A : q[s] = p[s]
    => /\ QueuedIn(q, A, price) \in Nat /\ QueuedIn(p, A, price) \in Nat
       /\ QueuedIn(q, Slots, price) \in Nat /\ QueuedIn(p, Slots, price) \in Nat
       /\ QueuedIn(q, Slots, price) - QueuedIn(q, A, price) = QueuedIn(p, Slots, price) - QueuedIn(p, A, price)
<1> SUFFICES ASSUME NEW q, NEW p, NEW A, NEW price,
                    A \subseteq Slots, WellQueued(q), WellQueued(p), UnitPrice(price),
                    \A s \in Slots \ A : q[s] = p[s]
             PROVE  /\ QueuedIn(q, A, price) \in Nat /\ QueuedIn(p, A, price) \in Nat
                    /\ QueuedIn(q, Slots, price) \in Nat /\ QueuedIn(p, Slots, price) \in Nat
                    /\ QueuedIn(q, Slots, price) - QueuedIn(q, A, price) = QueuedIn(p, Slots, price) - QueuedIn(p, A, price)
  OBVIOUS
<1> DEFINE B == Slots \ A
<1>1. /\ Queued(q, A, price) /\ Queued(p, A, price) /\ Queued(q, B, price) /\ Queued(p, B, price)
      /\ Queued(q, Slots, price) /\ Queued(p, Slots, price)
  BY QueuedPart
<1>2. A \cup B = Slots /\ A \cap B = {}
  OBVIOUS
<1>3. QueuedIn(q, B, price) = QueuedIn(p, B, price)
  BY QueuedSame
<1> HIDE DEF B
<1>4. QueuedIn(q, Slots, price) = QueuedIn(q, A, price) + QueuedIn(q, B, price)
  BY <1>1, <1>2, QueuedSplits
<1>5. QueuedIn(p, Slots, price) = QueuedIn(p, A, price) + QueuedIn(p, B, price)
  BY <1>1, <1>2, QueuedSplits
<1>6. /\ QueuedIn(q, A, price) \in Nat /\ QueuedIn(p, A, price) \in Nat /\ QueuedIn(q, B, price) \in Nat
      /\ QueuedIn(q, Slots, price) \in Nat /\ QueuedIn(p, Slots, price) \in Nat
  BY <1>1, QueuedType
<1> QED
  BY <1>3, <1>4, <1>5, <1>6

\* An entry leaves the queue of s.
LEMMA QueuePays ==
  \A q, p, s, price, i :
    /\ s \in Slots /\ WellQueued(q) /\ WellQueued(p) /\ UnitPrice(price)
    /\ \A t \in Slots \ {s} : q[t] = p[t]
    /\ Without(q[s], i, p[s])
    => QueuedIn(q, Slots, price) = price[q[s][i]] + QueuedIn(p, Slots, price) /\ price[q[s][i]] \in Nat
<1> SUFFICES ASSUME NEW q, NEW p, NEW s, NEW price, NEW i,
                    s \in Slots, WellQueued(q), WellQueued(p), UnitPrice(price),
                    \A t \in Slots \ {s} : q[t] = p[t],
                    Without(q[s], i, p[s])
             PROVE  QueuedIn(q, Slots, price) = price[q[s][i]] + QueuedIn(p, Slots, price) /\ price[q[s][i]] \in Nat
  OBVIOUS
<1>1. Queued(q, {s}, price) /\ Queued(p, {s}, price)
  BY QueuedPart
<1>2. QueuedIn(q, {s}, price) = price[q[s][i]] + QueuedIn(p, {s}, price)
  <2>1. Alone(s) = {s}
    BY DEF Alone
  <2> QED
    BY <1>1, <2>1, QueuedRemoved
<1>3. /\ QueuedIn(q, {s}, price) \in Nat /\ QueuedIn(p, {s}, price) \in Nat
      /\ QueuedIn(q, Slots, price) \in Nat /\ QueuedIn(p, Slots, price) \in Nat
      /\ QueuedIn(q, Slots, price) - QueuedIn(q, {s}, price) = QueuedIn(p, Slots, price) - QueuedIn(p, {s}, price)
  BY QueuedOutside
<1>4. price[q[s][i]] \in Nat
  <2>1. q[s] \in Seq(UnitKinds)
    BY DEF WellQueued
  <2>2. q[s][i] \in UnitKinds
    BY <2>1 DEF Without
  <2> QED
    BY <2>2 DEF UnitPrice
<1> DEFINE a == QueuedIn(q, {s}, price)
           b == QueuedIn(p, {s}, price)
           c == QueuedIn(q, Slots, price)
           d == QueuedIn(p, Slots, price)
           v == price[q[s][i]]
<1>5. a = v + b /\ a \in Nat /\ b \in Nat /\ c \in Nat /\ d \in Nat /\ v \in Nat /\ c - a = d - b
  BY <1>2, <1>3, <1>4
<1> HIDE DEF a, b, c, d, v
<1>6. c = v + d
  BY <1>5
<1> QED
  BY <1>5, <1>6 DEF c, d, v

\* Queues that are thrown away cannot be worth less than nothing.
LEMMA QueuesEmptied ==
  \A q, p, A, price :
    /\ A \subseteq Slots /\ WellQueued(q) /\ WellQueued(p) /\ UnitPrice(price)
    /\ (\A s \in Slots \ A : q[s] = p[s]) /\ \A s \in A : p[s] = <<>>
    => QueuedIn(p, Slots, price) <= QueuedIn(q, Slots, price)
<1> SUFFICES ASSUME NEW q, NEW p, NEW A, NEW price,
                    A \subseteq Slots, WellQueued(q), WellQueued(p), UnitPrice(price),
                    \A s \in Slots \ A : q[s] = p[s], \A s \in A : p[s] = <<>>
             PROVE  QueuedIn(p, Slots, price) <= QueuedIn(q, Slots, price)
  OBVIOUS
<1>1. QueuedIn(p, A, price) = 0
  BY QueuedEmpty
<1>2. /\ QueuedIn(q, A, price) \in Nat
      /\ QueuedIn(q, Slots, price) \in Nat /\ QueuedIn(p, Slots, price) \in Nat
      /\ QueuedIn(q, Slots, price) - QueuedIn(q, A, price) = QueuedIn(p, Slots, price) - QueuedIn(p, A, price)
  BY QueuedOutside
<1> QED
  BY <1>1, <1>2

\* Only the queues of living buildings count, where no other row has one.
LEMMA QueuedNarrow ==
  ASSUME NEW q, NEW B \in SUBSET Slots, NEW price, \A s \in Slots \ B : q[s] = <<>>
  PROVE  QueuedIn(q, B, price) = QueuedIn(q, Slots, price)
<1>1. EntriesIn(q, B) = EntriesIn(q, Slots)
  BY DEF EntriesIn
<1> QED
  BY <1>1 DEF QueuedIn

\* A row without entries has none waiting for somebody else, nor ticks served.
QueuesOwned == \A s \in Slots : queue[s] # <<>> \/ progress[s] # 0 => s \in Finished

\* What the books of a state are the sums of.
Books ==
  /\ CommittedSupply = WorthIn(ent, Units, SupplyCost) + QueuedIn(queue, Slots, SupplyCost)
  /\ WorthIn(ent, Units, SupplyCost) \in Nat /\ QueuedIn(queue, Slots, SupplyCost) \in Nat
  /\ \A r \in Resources :
       /\ Wealth(r) = stock[r] + WorthIn(ent, Sites, Prices(r)) + QueuedIn(queue, Slots, Prices(r))
       /\ WorthIn(ent, Sites, Prices(r)) \in Nat /\ QueuedIn(queue, Slots, Prices(r)) \in Nat

LEMMA BooksAre == RowsInv /\ QueuesOK /\ QueuesOwned => Books
<1> HAVE RowsInv /\ QueuesOK /\ QueuesOwned
<1>1. \A price : QueuesWorth(price) = QueuedIn(queue, Buildings, price)
  BY DEF QueuesWorth, QueuedIn, Entries, EntriesIn
<1>2. Buildings \in SUBSET Slots /\ \A s \in Slots \ Buildings : queue[s] = <<>>
  BY RowFacts DEF QueuesOwned
<1>3. \A price : QueuedIn(queue, Buildings, price) = QueuedIn(queue, Slots, price)
  BY <1>2, QueuedNarrow
<1>4. CommittedSupply = WorthIn(ent, Units, SupplyCost) + QueuesWorth(SupplyCost)
  BY DEF CommittedSupply, UnitSupply, ReservedSupply, Worth, WorthIn
<1>5. \A r \in Resources : Wealth(r) = stock[r] + WorthIn(ent, Sites, Prices(r)) + QueuesWorth(Prices(r))
  BY DEF Wealth, Worth, WorthIn
<1>6. Priced(ent, Units, SupplyCost)
  BY PricesAre, RowFacts DEF Units
<1>7. \A r \in Resources : Priced(ent, Sites, Prices(r))
  BY PricesAre, RowFacts, LivingKinds DEF RowsInv
<1>8. WellQueued(queue)
  BY DEF QueuesOK, WellQueued
<1>9. Queued(queue, Slots, SupplyCost) /\ \A r \in Resources : Queued(queue, Slots, Prices(r))
  BY <1>8, QueuedPart, PricesAre
<1> QED
  BY <1>1, <1>3, <1>4, <1>5, <1>6, <1>7, <1>9, WorthType, QueuedType DEF Books

StockOK == stock \in [Resources -> 0 .. MaxStock]

\* A credit saturates, and only beyond MaxStock.
LEMMA CreditIs ==
  ASSUME StockOK, NEW amount, \A r \in Resources : amount[r] \in Nat
  PROVE  /\ Credited(amount) \in [Resources -> 0 .. MaxStock]
         /\ \A r \in Resources : /\ Credited(amount)[r] <= stock[r] + amount[r]
                                 /\ stock[r] + amount[r] <= MaxStock
                                      => Credited(amount)[r] = stock[r] + amount[r]
<1>0. MaxStock \in Nat
  BY EconomyAssumption DEF EconomyAssumption
<1>1. ASSUME NEW r \in Resources
      PROVE  /\ Min({MaxStock, stock[r] + amount[r]}) \in 0 .. MaxStock
             /\ Min({MaxStock, stock[r] + amount[r]}) <= stock[r] + amount[r]
             /\ stock[r] + amount[r] <= MaxStock
                  => Min({MaxStock, stock[r] + amount[r]}) = stock[r] + amount[r]
  <2>1. stock[r] \in Nat /\ amount[r] \in Nat
    BY <1>0 DEF StockOK
  <2>2. stock[r] + amount[r] \in Int /\ MaxStock \in Int
    BY <1>0, <2>1
  <2>3. Min({MaxStock, stock[r] + amount[r]}) =
          IF MaxStock <= stock[r] + amount[r] THEN MaxStock ELSE stock[r] + amount[r]
    BY <2>2, MinIs
  <2> QED
    BY <1>0, <2>1, <2>3
<1>2. \A r \in Resources : Credited(amount)[r] = Min({MaxStock, stock[r] + amount[r]})
  BY DEF Credited
<1> QED
  BY <1>1, <1>2 DEF Credited

ObjectiveInv ==
  /\ phase = "combat" => ~dirty
  /\ ~dirty => objective = None \/ Names(objective, Buildings) \/ orphaned

\* The inductive invariant of the books.
BooksInv ==
  /\ QueuesOwned /\ StockOK
  /\ used \in Nat /\ CommittedSupply <= used
  /\ phase # "recount" => used = CommittedSupply
  /\ \A r \in Resources : Wealth(r) <= MaxStock

LEMMA OwnedNext ==
  ASSUME RowsInv, QueuesOK, QueuesOwned, [Next]_vars PROVE QueuesOwned'
<1>2. ASSUME UNCHANGED <<ent, queue, progress>> PROVE QueuesOwned'
  <2>1. Finished' = Finished
    BY <1>2 DEF Finished, Buildings, Alive
  <2> QED
    BY <1>2, <2>1 DEF QueuesOwned
<1>3. ASSUME UNCHANGED ent, \A s \in Slots \ Finished : queue'[s] = queue[s] /\ progress'[s] = progress[s]
      PROVE  QueuesOwned'
  <2>1. Finished' = Finished
    BY <1>3 DEF Finished, Buildings, Alive
  <2> QED
    BY <1>3, <2>1 DEF QueuesOwned
<1>4. CASE \E w, s \in Slots : ConfirmPlacement(w, s)
  <2>1. PICK w, s \in Slots : ConfirmPlacement(w, s)
    BY <1>4
  <2>2. UNCHANGED <<queue, progress, Finished>>
    BY <2>1, ConfirmCensus DEF ConfirmPlacement
  <2> QED
    BY <2>2 DEF QueuesOwned
<1>5. ASSUME NEW S \in SUBSET Slots, queue' = Emptied(S), progress' = Zeroed(S),
             Finished \ S \subseteq Finished'
      PROVE  QueuesOwned'
  BY <1>5 DEF QueuesOwned, Emptied, Zeroed
<1>6. CASE \E s \in Slots : CancelConstruction(s)
  <2>1. PICK s \in Slots : CancelConstruction(s)
    BY <1>6
  <2>2. Finished' = Finished \ {s} /\ queue' = Emptied({s}) /\ progress' = Zeroed({s})
    BY <2>1, DespawnCensus DEF CancelConstruction
  <2> QED
    BY <2>2, <1>5
<1>7. CASE \E s \in Slots, k \in UnitKinds : Enqueue(s, k)
  <2>1. PICK s \in Slots, k \in UnitKinds : Enqueue(s, k)
    BY <1>7
  <2>2. s \in Finished /\ \A t \in Slots \ {s} : queue'[t] = queue[t]
    BY <2>1 DEF Enqueue, QueuesOK
  <2> QED
    BY <1>3, <2>1, <2>2 DEF Enqueue
<1>8. CASE \E s \in Slots, i \in 1 .. QueueCap : CancelQueued(s, i)
  <2>1. PICK s \in Slots, i \in 1 .. QueueCap : CancelQueued(s, i)
    BY <1>8
  <2>2. queue[s] # <<>>
    BY <2>1 DEF CancelQueued
  <2>3. s \in Finished
    BY <2>2 DEF QueuesOwned
  <2>4. \A t \in Slots \ {s} : queue'[t] = queue[t] /\ progress'[t] = progress[t]
    BY <2>1 DEF CancelQueued, QueuesOK, RowsInv, RowsTypeOK
  <2> QED
    BY <1>3, <2>1, <2>3, <2>4 DEF CancelQueued
<1>9. CASE \E arrived \in SUBSET Workers, clear \in SUBSET Sites : Construction(arrived, clear)
  <2>1. PICK arrived \in SUBSET Workers, clear \in SUBSET Sites : Construction(arrived, clear)
    BY <1>9
  <2>2. PICK finished, stalled \in SUBSET Sites :
          /\ Finished' = Finished \cup finished
          /\ queue' = Emptied(stalled) /\ progress' = Zeroed(stalled)
    BY <2>1, ConstructionCensus
  <2>3. stalled \in SUBSET Slots
    BY RowFacts
  <2> QED
    BY <2>2, <2>3, <1>5
<1>10. CASE \E spot \in [Ready -> Free \cup {None}] : Production(spot)
  <2>1. PICK spot \in [Ready -> Free \cup {None}] : Production(spot)
    BY <1>10
  <2>2. Finished' = Finished
    BY <2>1, ProductionCensus
  <2>3. Ready \subseteq Finished /\ Producing \subseteq Finished
    BY DEF Ready, Producing
  <2>4. \A s \in Slots \ Finished : queue'[s] = queue[s] /\ progress'[s] = progress[s]
    <3> SUFFICES ASSUME NEW s \in Slots \ Finished
                 PROVE  queue'[s] = queue[s] /\ progress'[s] = progress[s]
      OBVIOUS
    <3>1. s \notin Ready /\ s \notin Producing
      BY <2>3
    <3> QED
      BY <2>1, <3>1 DEF Production, Popped
  <2> QED
    BY <2>2, <2>4 DEF QueuesOwned
<1>11. CASE \E dead \in SUBSET Alive : Combat(dead)
  <2>1. PICK dead \in SUBSET Alive : Combat(dead)
    BY <1>11
  <2> DEFINE fallen == dead \cap Buildings
  <2>2. Finished' = Finished \ dead /\ queue' = Emptied(fallen) /\ progress' = Zeroed(fallen)
    BY <2>1, DespawnCensus, RowFacts DEF Combat
  <2>3. fallen \in SUBSET Slots /\ Finished \ fallen \subseteq Finished'
    BY <2>2, RowFacts
  <2> HIDE DEF fallen
  <2> QED
    BY <2>2, <2>3, <1>5
<1> QED
  BY <1>2, <1>4, <1>6, <1>7, <1>8, <1>9, <1>10, <1>11
  DEF Next, Command, System, BeginPlacement, CancelPlacement, OrderBuild, OrderElsewhere,
      StartTick, Gather, EnemyAI, Recount, vars, rows
\* What every step does to them.
BooksKept ==
  /\ QueuesOwned' /\ StockOK'
  /\ used' \in Nat /\ CommittedSupply' <= used'
  /\ phase' # "recount" => used' = CommittedSupply'
  /\ \A r \in Resources : /\ Wealth(r)' <= MaxStock
                          /\ phase = "commands" => Wealth(r)' = Wealth(r)
                          /\ phase # "gather" => Wealth(r)' <= Wealth(r)
  /\ phase = "production" => CommittedSupply' = CommittedSupply
  /\ used' > used => used' <= cap'

\* The rows of a part keep their kinds: it is worth what it was.
LEMMA PartKept ==
  \A e, f, A, B, price :
    /\ Priced(e, A, price) /\ B \subseteq A /\ \A s \in B : f[s].kind = e[s].kind
    => /\ WorthIn(e, A, price) = WorthIn(f, B, price) + WorthIn(e, A \ B, price)
       /\ WorthIn(f, B, price) \in Nat /\ WorthIn(e, A \ B, price) \in Nat
<1> TAKE e, f, A, B, price
<1> HAVE Priced(e, A, price) /\ B \subseteq A /\ \A s \in B : f[s].kind = e[s].kind
<1>1. Priced(e, B, price) /\ Priced(e, A \ B, price) /\ B \cap (A \ B) = {} /\ A = B \cup (A \ B)
  BY FS_Subset DEF Priced
<1>2. WorthIn(e, A, price) = WorthIn(e, B, price) + WorthIn(e, A \ B, price)
  <2> DEFINE C == A \ B
  <2>1. Priced(e, C, price) /\ B \cap C = {} /\ A = B \cup C
    BY <1>1
  <2> HIDE DEF C
  <2>2. WorthIn(e, B \cup C, price) = WorthIn(e, B, price) + WorthIn(e, C, price)
    BY <1>1, <2>1, WorthSplits
  <2> QED
    BY <2>1, <2>2 DEF C
<1>3. WorthIn(f, B, price) = WorthIn(e, B, price)
  BY WorthSame
<1>4. WorthIn(e, B, price) \in Nat /\ WorthIn(e, A \ B, price) \in Nat
  BY <1>1, WorthType
<1> QED
  BY <1>2, <1>3, <1>4

\* The steps that touch neither the rows nor the queues.
LEMMA BooksUntouched ==
  ASSUME Books, Books', UNCHANGED <<ent, queue>>
  PROVE  /\ CommittedSupply' = CommittedSupply /\ CommittedSupply \in Nat
         /\ \A r \in Resources :
              \E a, b \in Nat : Wealth(r) = stock[r] + a + b /\ Wealth(r)' = stock'[r] + a + b
<1>1. Units' = Units /\ Sites' = Sites
  BY DEF Units, Sites, Buildings, Alive
<1>2. CommittedSupply' = CommittedSupply /\ CommittedSupply \in Nat
  BY <1>1 DEF Books
<1>3. ASSUME NEW r \in Resources
      PROVE  \E a, b \in Nat : Wealth(r) = stock[r] + a + b /\ Wealth(r)' = stock'[r] + a + b
  <2> DEFINE a == WorthIn(ent, Sites, Prices(r))
             b == QueuedIn(queue, Slots, Prices(r))
  <2>1. /\ Wealth(r) = stock[r] + a + b /\ a \in Nat /\ b \in Nat
        /\ Wealth(r)' = stock'[r] + a + b
    BY <1>1 DEF Books
  <2> HIDE DEF a, b
  <2> QED
    BY <2>1
<1> QED
  BY <1>2, <1>3

LEMMA QuietKeepsBooks ==
  ASSUME BooksInv, Books, Books', QueuesOwned', UNCHANGED <<ent, queue, stock, used>>,
         phase = "recount" => phase' = "recount"
  PROVE  BooksKept
<1>1. StockOK'
  BY DEF BooksInv, StockOK
<1>2. CommittedSupply' = CommittedSupply /\ CommittedSupply \in Nat
  BY BooksUntouched
<1>3. \A r \in Resources : Wealth(r)' = Wealth(r) /\ Wealth(r) \in Int
  <2> TAKE r \in Resources
  <2>1. PICK a, b \in Nat : Wealth(r) = stock[r] + a + b /\ Wealth(r)' = stock'[r] + a + b
    BY BooksUntouched
  <2>2. stock[r] \in Nat
    BY EconomyAssumption DEF EconomyAssumption, BooksInv, StockOK
  <2> QED
    BY <2>1, <2>2
<1> QED
  BY <1>1, <1>2, <1>3 DEF BooksInv, BooksKept

LEMMA GatherKeepsBooks ==
  ASSUME BooksInv, Books, Books', QueuesOwned', NEW amount \in Deposits, Gather(amount)
  PROVE  BooksKept
<1>1. \A r \in Resources : amount[r] \in Nat
  BY EconomyAssumption DEF EconomyAssumption
<1>2. /\ Credited(amount) \in [Resources -> 0 .. MaxStock]
      /\ \A r \in Resources : stock[r] + amount[r] <= MaxStock
                                => Credited(amount)[r] = stock[r] + amount[r]
  BY <1>1, CreditIs DEF BooksInv
<1>3. stock' = Credited(amount) /\ UNCHANGED <<ent, queue, used>>
      /\ phase = "gather" /\ phase' = "enemy ai"
      /\ \A r \in Resources : Wealth(r) + amount[r] <= MaxStock
  BY DEF Gather, rows
<1>4. CommittedSupply' = CommittedSupply /\ CommittedSupply \in Nat
  BY <1>3, BooksUntouched
<1>5. ASSUME NEW r \in Resources PROVE Wealth(r)' <= MaxStock
  <2>1. PICK a, b \in Nat : Wealth(r) = stock[r] + a + b /\ Wealth(r)' = stock'[r] + a + b
    BY <1>3, BooksUntouched
  <2>2. stock[r] \in Nat /\ MaxStock \in Nat /\ amount[r] \in Nat
    BY <1>1, EconomyAssumption DEF EconomyAssumption, BooksInv, StockOK
  <2>5. Wealth(r) + amount[r] <= MaxStock
    BY <1>3
  <2>3. stock[r] + amount[r] <= MaxStock
    BY <2>1, <2>2, <2>5
  <2>4. stock'[r] = stock[r] + amount[r]
    BY <1>2, <1>3, <2>3
  <2> QED
    BY <2>1, <2>2, <2>4, <2>5
<1>6. StockOK'
  BY <1>2, <1>3 DEF StockOK
<1>7. used' = used /\ used = CommittedSupply /\ used \in Nat
  BY <1>3 DEF BooksInv
<1>8. used' = CommittedSupply' /\ used' \in Nat /\ CommittedSupply' <= used' /\ ~(used' > used)
  BY <1>4, <1>7
<1>9. phase # "production" /\ phase # "commands" /\ phase = "gather"
  BY <1>3
<1> QED
  BY Zenon, <1>5, <1>6, <1>8, <1>9 DEF BooksKept

LEMMA RecountKeepsBooks ==
  ASSUME RowsInv, BooksInv, Books, Books', QueuesOwned', Recount
  PROVE  BooksKept
<1>1. live = Alive /\ Alive \cap Units = Units
  BY RowFacts DEF Recount, RowsInv, ScratchExact
<1>2. used' = CommittedSupply /\ UNCHANGED <<ent, queue, stock>>
      /\ phase = "recount" /\ phase' = "commands"
  BY <1>1 DEF Recount, CommittedSupply, rows
<1>3. CommittedSupply' = CommittedSupply /\ CommittedSupply \in Nat
  BY <1>2, BooksUntouched
<1>4. \A r \in Resources : Wealth(r)' = Wealth(r) /\ Wealth(r) \in Int
  <2> TAKE r \in Resources
  <2>1. PICK a, b \in Nat : Wealth(r) = stock[r] + a + b /\ Wealth(r)' = stock'[r] + a + b
    BY <1>2, BooksUntouched
  <2>2. stock[r] \in Nat
    BY EconomyAssumption DEF EconomyAssumption, BooksInv, StockOK
  <2> QED
    BY <1>2, <2>1, <2>2
<1>5. StockOK'
  BY <1>2 DEF BooksInv, StockOK
<1> QED
  BY <1>2, <1>3, <1>4, <1>5 DEF BooksInv, BooksKept

LEMMA ConfirmKeepsBooks ==
  ASSUME RowsInv, BooksInv, Books, Books', QueuesOwned', NEW w \in Slots, NEW s \in Slots,
         ConfirmPlacement(w, s)
  PROVE  BooksKept
<1> DEFINE k == placement
<1>1. /\ s \notin Alive /\ k \in BuildingKinds /\ k \in Kinds
      /\ Units' = Units /\ Sites' = Sites \cup {s}
      /\ ent'[s].kind = k /\ \A t \in Slots \ {s} : ent'[t] = ent[t]
  BY ConfirmCensus DEF Kinds
<1>2. /\ stock' = [r \in Resources |-> stock[r] - Cost[k][r]]
      /\ \A r \in Resources : stock[r] >= Cost[k][r]
      /\ UNCHANGED <<phase, queue, used>>
      /\ phase = "commands"
  BY DEF ConfirmPlacement, Debited, Covers
<1> HIDE DEF k
<1>3. WorthIn(ent', Units', SupplyCost) = WorthIn(ent, Units, SupplyCost)
  <2>1. \A t \in Units : ent'[t].kind = ent[t].kind
    BY <1>1, RowFacts
  <2> QED
    BY <1>1, <2>1, WorthSame
<1>4. CommittedSupply' = CommittedSupply /\ CommittedSupply \in Nat
  BY <1>2, <1>3 DEF Books
<1>5. ASSUME NEW r \in Resources
      PROVE  /\ stock'[r] \in 0 .. MaxStock
             /\ Wealth(r)' = Wealth(r) /\ Wealth(r) \in Nat
  <2> DEFINE p == Prices(r)
             rest == Sites' \ Sites
  <2>1. p[k] = Cost[k][r] /\ Cost[k][r] \in Nat
    BY <1>1, PricesAre
  <2>2. Priced(ent', Sites', p)
    <3>1. \A t \in Sites' : t \in Slots /\ ent'[t].kind \in Kinds
      BY <1>1, RowFacts, LivingKinds DEF RowsInv
    <3> QED
      BY <3>1, PricesAre
  <2>3. \A t \in Sites : ent[t].kind = ent'[t].kind
    BY <1>1, RowFacts
  <2>4. rest = {s}
    BY <1>1, RowFacts
  <2> HIDE DEF p
  <2>5. WorthIn(ent', Sites', p) = WorthIn(ent, Sites, p) + WorthIn(ent', rest, p)
    BY <1>1, <2>2, <2>3, PartKept
  <2>6. WorthIn(ent', {s}, p) = p[k]
    BY <1>1, <2>1, WorthOfOne
  <2>7. WorthIn(ent', Sites', p) = WorthIn(ent, Sites, p) + Cost[k][r]
    BY <2>1, <2>4, <2>5, <2>6
  <2>8. stock[r] \in 0 .. MaxStock /\ MaxStock \in Nat
    BY EconomyAssumption DEF EconomyAssumption, BooksInv, StockOK
  <2>9. stock'[r] = stock[r] - Cost[k][r] /\ stock[r] >= Cost[k][r]
    BY <1>2
  <2>10. /\ Wealth(r) = stock[r] + WorthIn(ent, Sites, p) + QueuedIn(queue, Slots, p)
         /\ Wealth(r)' = stock'[r] + WorthIn(ent', Sites', p) + QueuedIn(queue, Slots, p)
         /\ WorthIn(ent, Sites, p) \in Nat /\ QueuedIn(queue, Slots, p) \in Nat
    BY <1>2 DEF Books, p
  <2> QED
    BY <2>1, <2>7, <2>8, <2>9, <2>10
<1>6. StockOK'
  BY <1>2, <1>5 DEF StockOK
<1> QED
  BY <1>2, <1>4, <1>5, <1>6 DEF BooksInv, BooksKept

\* Sites that go, whether finished or given up, take their worth with them.
LEMMA SitesGo ==
  ASSUME RowsInv, NEW gone \in SUBSET Sites, Sites' = Sites \ gone,
         \A t \in Slots \ gone : ent'[t].kind = ent[t].kind \/ t \notin Sites,
         NEW r \in Resources
  PROVE  /\ WorthIn(ent, Sites, Prices(r)) = WorthIn(ent', Sites', Prices(r)) + WorthIn(ent, gone, Prices(r))
         /\ WorthIn(ent', Sites', Prices(r)) \in Nat /\ WorthIn(ent, gone, Prices(r)) \in Nat
<1> DEFINE p == Prices(r)
           left == Sites \ gone
<1>1. Priced(ent, Sites, p)
  BY PricesAre, RowFacts, LivingKinds DEF RowsInv
<1>2. left \subseteq Sites /\ Sites \ left = gone /\ \A t \in left : ent'[t].kind = ent[t].kind
  BY RowFacts
<1> HIDE DEF p, left
<1>3. /\ WorthIn(ent, Sites, p) = WorthIn(ent', left, p) + WorthIn(ent, Sites \ left, p)
      /\ WorthIn(ent', left, p) \in Nat /\ WorthIn(ent, Sites \ left, p) \in Nat
  BY <1>1, <1>2, PartKept
<1> QED
  BY <1>2, <1>3 DEF p, left

LEMMA CostOfIs == \A S : \A r \in Resources : CostOf(S)[r] = WorthIn(ent, S, Prices(r))
BY DEF CostOf, Worth, WorthIn

\* Rows whose queues are blank already.
LEMMA EmptiedSites ==
  ASSUME RowsInv, QueuesOK, QueuesOwned, NEW S \in SUBSET Sites PROVE Emptied(S) = queue
<1>1. \A s \in S : s \in Slots /\ s \notin Finished
  BY RowFacts, LivingKinds DEF RowsInv
<1>2. \A s \in S : queue[s] = <<>>
  BY <1>1 DEF QueuesOwned
<1>3. queue = [s \in Slots |-> queue[s]]
  BY DEF QueuesOK
<1> QED
  BY <1>2, <1>3 DEF Emptied

LEMMA CancelKeepsBooks ==
  ASSUME RowsInv, QueuesOK, BooksInv, Books, Books', QueuesOwned', NEW s \in Slots,
         CancelConstruction(s)
  PROVE  BooksKept
<1>1. /\ {s} \in SUBSET Sites /\ {s} \in SUBSET Slots
      /\ stock' = Credited(CostOf({s})) /\ ent' = Despawned({s}) /\ queue' = Emptied({s})
      /\ UNCHANGED <<phase, used>>
      /\ phase = "commands"
  BY DEF CancelConstruction
<1>2. Units' = Units \ {s} /\ Sites' = Sites \ {s} /\ \A t \in Slots \ {s} : ent'[t] = ent[t]
  BY <1>1, DespawnCensus
<1>3. Units' = Units /\ \A t \in Units : ent'[t].kind = ent[t].kind
  BY <1>1, <1>2, RowFacts
<1>4. queue' = queue
  BY <1>1, EmptiedSites DEF BooksInv
<1>5. WorthIn(ent', Units', SupplyCost) = WorthIn(ent, Units, SupplyCost)
  BY <1>3, WorthSame
<1>6. CommittedSupply' = CommittedSupply /\ CommittedSupply \in Nat
  BY <1>4, <1>5 DEF Books
<1>7. \A r \in Resources :
        /\ WorthIn(ent, Sites, Prices(r)) = WorthIn(ent', Sites', Prices(r)) + CostOf({s})[r]
        /\ CostOf({s})[r] \in Nat
  BY <1>1, <1>2, SitesGo, CostOfIs
<1>8. /\ Credited(CostOf({s})) \in [Resources -> 0 .. MaxStock]
      /\ \A r \in Resources : stock[r] + CostOf({s})[r] <= MaxStock
                                => Credited(CostOf({s}))[r] = stock[r] + CostOf({s})[r]
  BY <1>7, CreditIs DEF BooksInv
<1>9. ASSUME NEW r \in Resources PROVE Wealth(r)' = Wealth(r) /\ Wealth(r) \in Nat
  <2> DEFINE a == WorthIn(ent', Sites', Prices(r))
             b == QueuedIn(queue, Slots, Prices(r))
             c == CostOf({s})[r]
  <2>1. /\ Wealth(r) = stock[r] + WorthIn(ent, Sites, Prices(r)) + b
        /\ Wealth(r)' = stock'[r] + a + b /\ a \in Nat /\ b \in Nat
    BY <1>4 DEF Books
  <2>2. WorthIn(ent, Sites, Prices(r)) = a + c /\ c \in Nat
    BY <1>7
  <2>3. stock[r] \in Nat /\ Wealth(r) <= MaxStock /\ MaxStock \in Nat
    BY EconomyAssumption DEF EconomyAssumption, BooksInv, StockOK
  <2>4. stock[r] + c <= MaxStock => stock'[r] = stock[r] + c
    BY <1>1, <1>8
  <2> HIDE DEF a, b, c
  <2> QED
    BY <2>1, <2>2, <2>3, <2>4
<1>10. StockOK'
  BY <1>1, <1>8 DEF StockOK
<1> QED
  BY <1>1, <1>6, <1>9, <1>10 DEF BooksInv, BooksKept

LEMMA EnqueueKeepsBooks ==
  ASSUME RowsInv, QueuesOK, QueuesOK', BooksInv, Books, Books', QueuesOwned', cap \in Nat,
         NEW s \in Slots, NEW k \in UnitKinds, Enqueue(s, k)
  PROVE  BooksKept
<1>1. /\ phase = "commands" /\ UNCHANGED <<phase, ent, cap>>
      /\ \A r \in Resources : stock[r] >= Cost[k][r]
      /\ stock' = [r \in Resources |-> stock[r] - Cost[k][r]]
      /\ queue' = [queue EXCEPT ![s] = Append(queue[s], k)]
      /\ used' = used + SupplyCost[k] /\ Fits(k) /\ k \in Kinds
  BY DEF Enqueue, Covers, Debited, Kinds
<1>2. queue[s] \in Seq(UnitKinds) /\ Len(queue[s]) \in Nat
  BY DEF QueuesOK
<1> DEFINE i == Len(queue[s]) + 1
<1>3. /\ queue'[s] = Append(queue[s], k) /\ \A t \in Slots \ {s} : queue'[t] = queue[t]
      /\ queue'[s][i] = k
  BY <1>1, <1>2 DEF QueuesOK
<1>4. Without(queue'[s], i, queue[s])
  BY <1>2, <1>3 DEF Without
<1>5. WellQueued(queue) /\ WellQueued(queue')
  BY DEF QueuesOK, WellQueued
<1> HIDE DEF i
<1>6. \A price : UnitPrice(price) =>
        QueuedIn(queue', Slots, price) = price[k] + QueuedIn(queue, Slots, price) /\ price[k] \in Nat
  <2> TAKE price
  <2> HAVE UnitPrice(price)
  <2>1. /\ QueuedIn(queue', Slots, price) = price[queue'[s][i]] + QueuedIn(queue, Slots, price)
        /\ price[queue'[s][i]] \in Nat
    BY <1>3, <1>4, <1>5, QueuePays
  <2> QED
    BY <1>3, <2>1
<1>7. Units' = Units /\ Sites' = Sites
  BY <1>1 DEF Units, Sites, Buildings, Alive
<1>8. /\ QueuedIn(queue', Slots, SupplyCost) = SupplyCost[k] + QueuedIn(queue, Slots, SupplyCost)
      /\ SupplyCost[k] \in Nat
  BY <1>6, PricesAre
<1>9. CommittedSupply' = CommittedSupply + SupplyCost[k] /\ CommittedSupply \in Nat
  BY <1>1, <1>7, <1>8 DEF Books
<1>10. used = CommittedSupply /\ used' = CommittedSupply' /\ used' \in Nat
  BY <1>1, <1>8, <1>9 DEF BooksInv
<1>11. used' > used => used' <= cap
  BY <1>1, <1>8, <1>9, <1>10 DEF Fits
<1>12. ASSUME NEW r \in Resources
       PROVE  Wealth(r)' = Wealth(r) /\ Wealth(r) \in Nat /\ stock'[r] \in 0 .. MaxStock
  <2> DEFINE a == WorthIn(ent, Sites, Prices(r))
             b == QueuedIn(queue, Slots, Prices(r))
             c == Cost[k][r]
  <2>0. UnitPrice(Prices(r)) /\ Prices(r)[k] = c
    BY <1>1, PricesAre
  <2>1. QueuedIn(queue', Slots, Prices(r)) = c + b /\ c \in Nat
    BY <1>6, <2>0
  <2>2. /\ Wealth(r) = stock[r] + a + b /\ a \in Nat /\ b \in Nat
        /\ Wealth(r)' = stock'[r] + a + QueuedIn(queue', Slots, Prices(r))
    BY <1>1, <1>7 DEF Books
  <2>3. stock[r] \in 0 .. MaxStock /\ MaxStock \in Nat /\ stock'[r] = stock[r] - c /\ stock[r] >= c
    BY <1>1, EconomyAssumption DEF EconomyAssumption, BooksInv, StockOK
  <2> HIDE DEF a, b, c
  <2> QED
    BY <2>1, <2>2, <2>3
<1>13. StockOK'
  BY <1>1, <1>12 DEF StockOK
<1>14. /\ \A r \in Resources : Wealth(r)' = Wealth(r) /\ Wealth(r) \in Nat
       /\ \A r \in Resources : Wealth(r) <= MaxStock
  BY <1>12 DEF BooksInv
<1> QED
  BY <1>1, <1>10, <1>11, <1>13, <1>14 DEF BooksKept

LEMMA CancelQueuedKeepsBooks ==
  ASSUME RowsInv, QueuesOK, QueuesOK', BooksInv, Books, Books', QueuesOwned',
         NEW s \in Slots, NEW i \in 1 .. QueueCap, CancelQueued(s, i)
  PROVE  BooksKept
<1> DEFINE k == queue[s][i]
           rest == SubSeq(queue[s], 1, i - 1) \o SubSeq(queue[s], i + 1, Len(queue[s]))
<1>1. /\ phase = "commands" /\ UNCHANGED <<phase, ent, cap>>
      /\ i \in DOMAIN queue[s]
      /\ stock' = Credited(Cost[k])
      /\ queue' = [queue EXCEPT ![s] = rest]
      /\ used' = IF used < SupplyCost[k] THEN 0 ELSE used - SupplyCost[k]
  BY DEF CancelQueued
<1>2. queue[s] \in Seq(UnitKinds) /\ Len(queue[s]) \in Nat /\ i \in 1 .. Len(queue[s])
  BY <1>1 DEF QueuesOK
<1>3. k \in UnitKinds /\ k \in Kinds
  BY <1>2 DEF Kinds
<1>4. queue'[s] = rest /\ \A t \in Slots \ {s} : queue'[t] = queue[t]
  BY <1>1 DEF QueuesOK
<1>5. Without(queue[s], i, rest)
  <2> DEFINE n == Len(queue[s])
             x == SubSeq(queue[s], 1, i - 1)
             y == SubSeq(queue[s], i + 1, n)
  <2>1. /\ x \in Seq(UnitKinds) /\ Len(x) = i - 1 /\ \A j \in 1 .. i - 1 : x[j] = queue[s][j]
        /\ y \in Seq(UnitKinds) /\ Len(y) = n - i /\ \A j \in 1 .. n - i : y[j] = queue[s][i + j]
    BY <1>2
  <2>2. n \in Nat /\ i \in 1 .. n
    BY <1>2
  <2> HIDE DEF x, y, n
  <2>5. Len(x \o y) = Len(x) + Len(y)
        /\ \A j \in 1 .. Len(x) + Len(y) : (x \o y)[j] = IF j <= Len(x) THEN x[j] ELSE y[j - Len(x)]
    BY <2>1
  <2>3. /\ Len(x \o y) = n - 1
        /\ \A j \in 1 .. n - 1 : (x \o y)[j] = IF j < i THEN x[j] ELSE y[j - (i - 1)]
    BY <2>1, <2>2, <2>5
  <2>4. \A j \in 1 .. n - 1 : (x \o y)[j] = IF j < i THEN queue[s][j] ELSE queue[s][j + 1]
    <3> TAKE j \in 1 .. n - 1
    <3>1. CASE j < i
      BY <2>1, <2>2, <2>3, <3>1
    <3>2. CASE ~(j < i)
      <4>1. (x \o y)[j] = y[j - (i - 1)] /\ j - (i - 1) \in 1 .. n - i /\ i + (j - (i - 1)) = j + 1
        BY <2>2, <2>3, <3>2
      <4> QED
        BY <2>1, <3>2, <4>1
    <3> QED
      BY <3>1, <3>2
  <2> QED
    BY <2>2, <2>3, <2>4 DEF Without, x, y, n
<1> HIDE DEF rest
<1>6. WellQueued(queue) /\ WellQueued(queue')
  BY DEF QueuesOK, WellQueued
<1>7. \A price : UnitPrice(price) =>
        QueuedIn(queue, Slots, price) = price[k] + QueuedIn(queue', Slots, price) /\ price[k] \in Nat
  BY <1>4, <1>5, <1>6, QueuePays
<1> HIDE DEF k
<1>8. Units' = Units /\ Sites' = Sites
  BY <1>1 DEF Units, Sites, Buildings, Alive
<1>9. /\ QueuedIn(queue, Slots, SupplyCost) = SupplyCost[k] + QueuedIn(queue', Slots, SupplyCost)
      /\ SupplyCost[k] \in Nat
  BY <1>7, PricesAre
<1>10. CommittedSupply = CommittedSupply' + SupplyCost[k] /\ CommittedSupply' \in Nat
  BY <1>1, <1>8, <1>9 DEF Books
<1>11. used = CommittedSupply
  BY <1>1 DEF BooksInv
<1>12. used' = CommittedSupply' /\ used' \in Nat /\ ~(used' > used)
  BY <1>1, <1>9, <1>10, <1>11
<1>13. \A r \in Resources : Cost[k][r] \in Nat
  BY <1>3, PricesAre
<1>14. /\ Credited(Cost[k]) \in [Resources -> 0 .. MaxStock]
       /\ \A r \in Resources : stock[r] + Cost[k][r] <= MaxStock
                                => Credited(Cost[k])[r] = stock[r] + Cost[k][r]
  BY <1>13, CreditIs DEF BooksInv
<1>15. ASSUME NEW r \in Resources PROVE Wealth(r)' = Wealth(r) /\ Wealth(r) \in Nat
  <2> DEFINE a == WorthIn(ent, Sites, Prices(r))
             b == QueuedIn(queue', Slots, Prices(r))
             c == Cost[k][r]
  <2>0. UnitPrice(Prices(r)) /\ Prices(r)[k] = c
    BY <1>3, PricesAre
  <2>1. QueuedIn(queue, Slots, Prices(r)) = c + b /\ c \in Nat
    BY <1>7, <2>0
  <2>2. /\ Wealth(r) = stock[r] + a + QueuedIn(queue, Slots, Prices(r)) /\ a \in Nat /\ b \in Nat
        /\ Wealth(r)' = stock'[r] + a + b
    BY <1>1, <1>8 DEF Books
  <2>3. stock[r] \in Nat /\ Wealth(r) <= MaxStock /\ MaxStock \in Nat
    BY EconomyAssumption DEF EconomyAssumption, BooksInv, StockOK
  <2>4. stock[r] + c <= MaxStock => stock'[r] = stock[r] + c
    BY <1>1, <1>14
  <2> HIDE DEF a, b, c
  <2> QED
    BY <2>1, <2>2, <2>3, <2>4
<1>16. StockOK'
  BY <1>1, <1>14 DEF StockOK
<1>17. /\ \A r \in Resources : Wealth(r)' = Wealth(r) /\ Wealth(r) \in Nat
       /\ \A r \in Resources : Wealth(r) <= MaxStock
  BY <1>15 DEF BooksInv
<1> QED
  BY <1>1, <1>12, <1>16, <1>17 DEF BooksKept

LEMMA ConstructionKeepsBooks ==
  ASSUME RowsInv, QueuesOK, BooksInv, Books, Books', QueuesOwned',
         NEW arrived \in SUBSET Workers, NEW clear \in SUBSET Sites, Construction(arrived, clear)
  PROVE  BooksKept
<1>1. PICK finished, stalled \in SUBSET Sites :
        /\ Units' = Units /\ Sites' = Sites \ (finished \cup stalled)
        /\ \A t \in Slots \ stalled : ent'[t].kind = ent[t].kind
        /\ stock' = Credited(CostOf(stalled)) /\ queue' = Emptied(stalled)
  BY ConstructionCensus
<1> DEFINE gone == finished \cup stalled
<1>2. queue' = queue
  BY <1>1, EmptiedSites DEF BooksInv
<1>3. \A t \in Units : ent'[t].kind = ent[t].kind
  BY <1>1, RowFacts
<1>4. WorthIn(ent', Units', SupplyCost) = WorthIn(ent, Units, SupplyCost)
  BY <1>1, <1>3, WorthSame
<1>5. CommittedSupply' = CommittedSupply /\ CommittedSupply \in Nat
  BY <1>2, <1>4 DEF Books
<1>6. UNCHANGED used /\ phase = "construction" /\ phase' = "production"
  BY DEF Construction
<1>7. \A r \in Resources : CostOf(stalled)[r] \in Nat /\ CostOf(stalled)[r] <= WorthIn(ent, gone, Prices(r))
  <2> TAKE r \in Resources
  <2> DEFINE p == Prices(r)
  <2>1. Priced(ent, gone, p)
    BY PricesAre, RowFacts, LivingKinds DEF RowsInv
  <2>2. stalled \subseteq gone
    OBVIOUS
  <2>3. CostOf(stalled)[r] = WorthIn(ent, stalled, p)
    BY CostOfIs
  <2> HIDE DEF gone, p
  <2>4. /\ WorthIn(ent, gone, p) = WorthIn(ent, stalled, p) + WorthIn(ent, gone \ stalled, p)
        /\ WorthIn(ent, stalled, p) \in Nat /\ WorthIn(ent, gone \ stalled, p) \in Nat
    BY <2>1, <2>2, PartKept
  <2>5. WorthIn(ent, stalled, p) <= WorthIn(ent, gone, p)
    BY <2>4
  <2> QED
    BY <2>3, <2>4, <2>5 DEF p
<1>8. \A r \in Resources :
        /\ WorthIn(ent, Sites, Prices(r)) = WorthIn(ent', Sites', Prices(r)) + WorthIn(ent, gone, Prices(r))
        /\ WorthIn(ent', Sites', Prices(r)) \in Nat /\ WorthIn(ent, gone, Prices(r)) \in Nat
  BY <1>1, SitesGo
<1>9. /\ Credited(CostOf(stalled)) \in [Resources -> 0 .. MaxStock]
      /\ \A r \in Resources : Credited(CostOf(stalled))[r] <= stock[r] + CostOf(stalled)[r]
  BY <1>7, CreditIs DEF BooksInv
<1>10. ASSUME NEW r \in Resources PROVE Wealth(r)' <= Wealth(r) /\ Wealth(r) \in Nat /\ Wealth(r)' \in Nat
  <2> DEFINE a == WorthIn(ent', Sites', Prices(r))
             b == QueuedIn(queue, Slots, Prices(r))
             c == CostOf(stalled)[r]
             g == WorthIn(ent, gone, Prices(r))
  <2>1. /\ Wealth(r) = stock[r] + WorthIn(ent, Sites, Prices(r)) + b
        /\ Wealth(r)' = stock'[r] + a + b /\ a \in Nat /\ b \in Nat
    BY <1>2 DEF Books
  <2>2. WorthIn(ent, Sites, Prices(r)) = a + g /\ g \in Nat /\ c \in Nat /\ c <= g
    BY <1>7, <1>8
  <2>3. stock[r] \in Nat /\ MaxStock \in Nat
    BY EconomyAssumption DEF EconomyAssumption, BooksInv, StockOK
  <2>4. stock'[r] <= stock[r] + c /\ stock'[r] \in Nat
    BY <1>1, <1>9, <2>3
  <2> HIDE DEF a, b, c, g
  <2> QED
    BY <2>1, <2>2, <2>3, <2>4
<1>11. StockOK'
  BY <1>1, <1>9 DEF StockOK
<1>12. used' = used /\ used' = CommittedSupply' /\ used' \in Nat /\ ~(used' > used)
  BY <1>5, <1>6 DEF BooksInv
<1>13. \A r \in Resources : Wealth(r)' <= Wealth(r) /\ Wealth(r)' <= MaxStock
  <2> TAKE r \in Resources
  <2>1. Wealth(r) <= MaxStock /\ MaxStock \in Nat
    BY EconomyAssumption DEF EconomyAssumption, BooksInv
  <2> QED
    BY <1>10, <2>1
<1>14. CommittedSupply' <= used'
  BY <1>12
<1> QED
  BY <1>5, <1>6, <1>11, <1>12, <1>13, <1>14 DEF BooksKept

\* A part of the rows falls: what is left is worth no more.
LEMMA CombatKeepsBooks ==
  ASSUME RowsInv, QueuesOK, QueuesOK', BooksInv, Books, Books', QueuesOwned',
         NEW dead \in SUBSET Alive, Combat(dead)
  PROVE  BooksKept
<1> DEFINE fallen == dead \cap Buildings
           gone == dead \cap Sites
<1>1. /\ phase = "combat" /\ phase' = "recount" /\ UNCHANGED <<stock, used>>
      /\ ent' = Despawned(dead) /\ queue' = Emptied(fallen)
  BY DEF Combat
<1>2. dead \in SUBSET Slots /\ fallen \in SUBSET Slots /\ gone \in SUBSET Sites
  BY RowFacts
<1>3. /\ Units' = Units \ dead /\ Sites' = Sites \ gone
      /\ \A t \in Slots \ dead : ent'[t] = ent[t]
  BY <1>1, <1>2, DespawnCensus
<1>4. WellQueued(queue) /\ WellQueued(queue')
  BY DEF QueuesOK, WellQueued
<1>5. \A price : UnitPrice(price) => QueuedIn(queue', Slots, price) <= QueuedIn(queue, Slots, price)
  <2>1. /\ \A s \in Slots \ fallen : queue[s] = queue'[s]
        /\ \A s \in fallen : queue'[s] = <<>>
    BY <1>1, <1>2 DEF Emptied
  <2> QED
    BY <1>2, <1>4, <2>1, QueuesEmptied
<1>6. WorthIn(ent', Units', SupplyCost) <= WorthIn(ent, Units, SupplyCost)
  <2> DEFINE left == Units \ dead
  <2>1. Priced(ent, Units, SupplyCost)
    BY PricesAre, RowFacts DEF Units
  <2>2. left \subseteq Units /\ \A s \in left : ent'[s].kind = ent[s].kind
    BY <1>3, RowFacts
  <2>3. Units' = left
    BY <1>3
  <2> HIDE DEF left
  <2>4. /\ WorthIn(ent, Units, SupplyCost) = WorthIn(ent', left, SupplyCost) + WorthIn(ent, Units \ left, SupplyCost)
        /\ WorthIn(ent', left, SupplyCost) \in Nat /\ WorthIn(ent, Units \ left, SupplyCost) \in Nat
    BY <2>1, <2>2, PartKept
  <2> QED
    BY <2>3, <2>4
<1>7. CommittedSupply' <= CommittedSupply /\ CommittedSupply \in Nat /\ CommittedSupply' \in Nat
  <2>1. QueuedIn(queue', Slots, SupplyCost) <= QueuedIn(queue, Slots, SupplyCost)
    BY <1>5, PricesAre
  <2> QED
    BY <1>6, <2>1 DEF Books
<1>8. ASSUME NEW r \in Resources PROVE Wealth(r)' <= Wealth(r) /\ Wealth(r) \in Nat /\ Wealth(r)' \in Nat
  <2> DEFINE a == WorthIn(ent', Sites', Prices(r))
             b == QueuedIn(queue, Slots, Prices(r))
             d == QueuedIn(queue', Slots, Prices(r))
             g == WorthIn(ent, gone, Prices(r))
  <2>1. /\ Wealth(r) = stock[r] + WorthIn(ent, Sites, Prices(r)) + b
        /\ Wealth(r)' = stock[r] + a + d /\ a \in Nat /\ b \in Nat /\ d \in Nat
    BY <1>1 DEF Books
  <2>2. WorthIn(ent, Sites, Prices(r)) = a + g /\ g \in Nat
    BY <1>2, <1>3, SitesGo
  <2>3. stock[r] \in Nat /\ MaxStock \in Nat
    BY EconomyAssumption DEF EconomyAssumption, BooksInv, StockOK
  <2>4. d <= b
    BY <1>5, PricesAre
  <2> HIDE DEF a, b, d, g
  <2> QED
    BY <2>1, <2>2, <2>3, <2>4
<1>9. StockOK'
  BY <1>1 DEF BooksInv, StockOK
<1>10. used' = used /\ CommittedSupply' <= used' /\ used' \in Nat /\ ~(used' > used)
  BY <1>1, <1>7 DEF BooksInv
<1>11. \A r \in Resources : Wealth(r)' <= Wealth(r) /\ Wealth(r)' <= MaxStock
  <2> TAKE r \in Resources
  <2>1. Wealth(r) <= MaxStock /\ MaxStock \in Nat
    BY EconomyAssumption DEF EconomyAssumption, BooksInv
  <2> QED
    BY <1>8, <2>1
<1> QED
  BY <1>1, <1>9, <1>10, <1>11 DEF BooksKept

\* The units that are born are those whose entries leave the queues.
LEMMA ProductionKeepsBooks ==
  ASSUME RowsInv, RowsInv', QueuesOK, QueuesOK', BooksInv, Books, Books', QueuesOwned',
         NEW spot \in [Ready -> Free \cup {None}], Production(spot)
  PROVE  BooksKept
<1> DEFINE served == {s \in Ready : spot[s] # None}
           taken == {spot[s] : s \in served}
<1>1. /\ served \subseteq Finished /\ \A s \in served : queue[s] # <<>>
      /\ taken \subseteq Slots /\ taken \cap Alive = {}
      /\ Units' = Units \cup taken /\ Sites' = Sites
      /\ \A s, t \in served : spot[s] = spot[t] => s = t
      /\ \A s \in served : ent'[spot[s]].kind = Head(queue[s])
      /\ \A t \in Slots \ taken : ent'[t] = ent[t]
  BY ProductionCensus
<1>2. /\ phase = "production" /\ phase' = "gather" /\ UNCHANGED <<stock, used>>
      /\ queue' = [s \in Slots |-> IF s \in served THEN Tail(queue[s]) ELSE queue[s]]
  BY DEF Production, Popped, purse
<1>3. served \subseteq Slots /\ served \subseteq Ready
  BY <1>1, RowFacts
<1>4. \A x : x \in taken <=> \E s \in served : x = spot[s]
  OBVIOUS
<1> HIDE DEF served, taken
<1>5. WellQueued(queue) /\ WellQueued(queue')
  BY DEF QueuesOK, WellQueued
<1>6. \A s \in served : /\ Len(queue[s]) >= 1 /\ Len(queue'[s]) = Len(queue[s]) - 1
                        /\ \A j \in 1 .. Len(queue'[s]) : queue'[s][j] = queue[s][j + 1]
                        /\ Head(queue[s]) = queue[s][1]
  <2> TAKE s \in served
  <2>1. queue[s] \in Seq(UnitKinds) /\ queue[s] # <<>> /\ queue'[s] = Tail(queue[s])
    BY <1>1, <1>2, <1>3 DEF QueuesOK
  <2> QED
    BY <2>1
<1>7. ASSUME NEW price, UnitPrice(price)
      PROVE  /\ [s \in served |-> price[queue[s][1]]] \in [served -> Nat]
             /\ QueuedIn(queue, Slots, price) =
                  Total([s \in served |-> price[queue[s][1]]]) + QueuedIn(queue', Slots, price)
  <2> DEFINE h == [s \in served |-> price[queue[s][1]]]
  <2>1. Queued(queue, served, price) /\ Queued(queue', served, price)
    BY <1>3, <1>5, <1>7, QueuedPart
  <2>2. h \in [served -> Nat] /\ QueuedIn(queue, served, price) = Total(h) + QueuedIn(queue', served, price)
    BY <2>1, <1>6, QueuedTails
  <2>3. \A s \in Slots \ served : queue[s] = queue'[s]
    BY <1>2
  <2>4. /\ QueuedIn(queue, served, price) \in Nat /\ QueuedIn(queue', served, price) \in Nat
        /\ QueuedIn(queue, Slots, price) \in Nat /\ QueuedIn(queue', Slots, price) \in Nat
        /\ QueuedIn(queue, Slots, price) - QueuedIn(queue, served, price) =
             QueuedIn(queue', Slots, price) - QueuedIn(queue', served, price)
    BY <1>3, <1>5, <1>7, <2>3, QueuedOutside
  <2>5. Total(h) \in Nat
    BY <1>3, <2>2, FiniteRows, TotalType
  <2> HIDE DEF h
  <2>6. QueuedIn(queue, Slots, price) = Total(h) + QueuedIn(queue', Slots, price)
    BY <2>2, <2>4, <2>5
  <2> QED
    BY <2>2, <2>6 DEF h
<1>8. WorthIn(ent', Units', SupplyCost) =
        WorthIn(ent, Units, SupplyCost) + Total([s \in served |-> SupplyCost[queue[s][1]]])
  <2> DEFINE h == [s \in served |-> SupplyCost[queue[s][1]]]
             k == [t \in taken |-> SupplyCost[ent'[t].kind]]
             f == [s \in served |-> spot[s]]
  <2>1. Priced(ent', Units', SupplyCost)
    <3>1. \A t \in Units' : t \in Slots /\ ent'[t].kind \in UnitKinds
      BY DEF Units, Alive
    <3> QED
      BY <3>1, PricesAre
  <2>2. Units \subseteq Units' /\ Units' \ Units = taken /\ \A t \in Units : ent[t].kind = ent'[t].kind
    BY <1>1, RowFacts
  <2>3. WorthIn(ent', Units', SupplyCost) = WorthIn(ent, Units, SupplyCost) + WorthIn(ent', Units' \ Units, SupplyCost)
    BY <2>1, <2>2, PartKept
  <2>4. WorthIn(ent', Units' \ Units, SupplyCost) = Total(k)
    BY <2>2 DEF WorthIn
  <2>5. h \in [served -> Nat] /\ UnitPrice(SupplyCost)
    BY <1>7, PricesAre
  <2>6. \A s \in served : spot[s] \in taken /\ h[s] = k[spot[s]]
    BY <1>1, <1>4, <1>6
  <2>7. f \in Bijection(served, taken)
    BY <1>1, <1>4 DEF Bijection, Injection, Surjection, IsInjective
  <2>8. k \in [taken -> Nat] /\ \A s \in served : h[s] = k[f[s]]
    <3>1. \A s \in served : f[s] = spot[s] /\ h[s] \in Nat
      BY <2>5
    <3>2. ASSUME NEW t \in taken PROVE k[t] \in Nat
      <4>1. PICK s \in served : t = spot[s]
        BY <1>4
      <4>2. k[t] = h[s] /\ h[s] \in Nat
        BY <2>6, <3>1, <4>1
      <4> QED
        BY <4>2
    <3>3. \A s \in served : h[s] = k[f[s]]
      BY <2>6, <3>1
    <3> HIDE DEF h, f
    <3> QED
      BY <3>2, <3>3
  <2> HIDE DEF h, k, f
  <2>9. Total(h) = Total(k)
    BY <1>3, <2>5, <2>7, <2>8, FiniteRows, TotalRenamed
  <2> QED
    BY <2>3, <2>4, <2>9 DEF h
<1>9. CommittedSupply' = CommittedSupply /\ CommittedSupply \in Nat
  <2> DEFINE h == [s \in served |-> SupplyCost[queue[s][1]]]
  <2>1. h \in [served -> Nat] /\ QueuedIn(queue, Slots, SupplyCost) = Total(h) + QueuedIn(queue', Slots, SupplyCost)
    BY <1>7, PricesAre
  <2>2. Total(h) \in Nat
    BY <1>3, <2>1, FiniteRows, TotalType
  <2>3. WorthIn(ent', Units', SupplyCost) = WorthIn(ent, Units, SupplyCost) + Total(h)
    BY <1>8
  <2> HIDE DEF h
  <2> QED
    BY <2>1, <2>2, <2>3 DEF Books
<1>10. ASSUME NEW r \in Resources PROVE Wealth(r)' <= Wealth(r) /\ Wealth(r) \in Nat /\ Wealth(r)' \in Nat
  <2> DEFINE p == Prices(r)
             h == [s \in served |-> p[queue[s][1]]]
  <2>0. UnitPrice(p)
    BY PricesAre
  <2>1. h \in [served -> Nat] /\ QueuedIn(queue, Slots, p) = Total(h) + QueuedIn(queue', Slots, p)
    BY <1>7, <2>0
  <2>2. Total(h) \in Nat
    BY <1>3, <2>1, FiniteRows, TotalType
  <2>3. WorthIn(ent', Sites', p) = WorthIn(ent, Sites, p)
    <3>1. \A t \in Sites : ent'[t].kind = ent[t].kind
      BY <1>1, RowFacts
    <3> QED
      BY <1>1, <3>1, WorthSame
  <2>4. /\ Wealth(r) = stock[r] + WorthIn(ent, Sites, p) + QueuedIn(queue, Slots, p)
        /\ Wealth(r)' = stock[r] + WorthIn(ent', Sites', p) + QueuedIn(queue', Slots, p)
        /\ WorthIn(ent, Sites, p) \in Nat /\ QueuedIn(queue, Slots, p) \in Nat /\ QueuedIn(queue', Slots, p) \in Nat
    BY <1>2 DEF Books
  <2>5. stock[r] \in Nat
    BY EconomyAssumption DEF EconomyAssumption, BooksInv, StockOK
  <2> HIDE DEF h, p
  <2> QED
    BY <2>1, <2>2, <2>3, <2>4, <2>5
<1>11. StockOK'
  BY <1>2 DEF BooksInv, StockOK
<1>12. used' = used /\ used' = CommittedSupply' /\ used' \in Nat /\ CommittedSupply' <= used' /\ ~(used' > used)
  BY <1>2, <1>9 DEF BooksInv
<1>13. \A r \in Resources : Wealth(r)' <= Wealth(r) /\ Wealth(r)' <= MaxStock
  <2> TAKE r \in Resources
  <2>1. Wealth(r) <= MaxStock /\ MaxStock \in Nat
    BY EconomyAssumption DEF EconomyAssumption, BooksInv
  <2> QED
    BY <1>10, <2>1
<1> QED
  BY <1>2, <1>9, <1>11, <1>12, <1>13 DEF BooksKept
-----------------------------------------------------------------------------
(* The cap.                                                                *)

CapInv == cap \in 0 .. MaxSupplyCap /\ CapBacked

LEMMA BaseType == Base \in Int
<1> DEFINE D == {t \in Slots : StartKind[t] \in BuildingKinds}
           c == [s \in D |-> Grant[StartKind[s]]]
<1>1. IsFiniteSet(D)
  BY FiniteRows
<1>2. c \in [D -> Nat]
  BY EconomyAssumption DEF EconomyAssumption
<1>3. StartCap \in Nat
  BY EconomyAssumption DEF EconomyAssumption
<1>4. Total(c) \in Nat
  <2> HIDE DEF c, D
  <2> QED
    BY <1>1, <1>2, TotalType
<1> QED
  BY <1>3, <1>4 DEF Base, StartGrant

LEMMA CapInit == Init => CapInv
<1> HAVE Init
<1>0. /\ None \notin Kinds \cup Entities
      /\ StartKind \in [Slots -> Kinds \cup {None}] /\ BuildingKinds \subseteq Kinds
      /\ StartCap \in 0 .. MaxSupplyCap /\ StartCap \in Int
  BY EconomyAssumption DEF EconomyAssumption, Kinds
<1>1. \A s \in Slots : ent[s] = IF StartKind[s] = None THEN None
                                ELSE [kind |-> StartKind[s], progress |-> 0, target |-> 0]
  BY DEF Init
<1>2. ASSUME NEW s \in Slots
      PROVE  /\ s \in Finished <=> StartKind[s] \in BuildingKinds
             /\ s \in Finished => ent[s].kind = StartKind[s]
  <2>1. CASE StartKind[s] = None
    BY <1>0, <1>1, <2>1 DEF Finished, Buildings, Alive
  <2>2. CASE StartKind[s] # None
    <3> DEFINE e == [kind |-> StartKind[s], progress |-> 0, target |-> 0]
    <3>1. e \in Entities /\ e.kind = StartKind[s] /\ e.target = 0
      BY <1>0, <2>2 DEF Entities
    <3>2. ent[s] = e
      BY <1>1, <2>2
    <3> HIDE DEF e
    <3> QED
      BY <1>0, <3>1, <3>2 DEF Finished, Buildings, Alive
  <2> QED
    BY <2>1, <2>2
<1>3. Finished = {t \in Slots : StartKind[t] \in BuildingKinds}
  BY <1>2, RowFacts
<1>4. [s \in Finished |-> Grant[ent[s].kind]] = [s \in Finished |-> Grant[StartKind[s]]]
  BY <1>2, RowFacts
<1>5. GrantOf(Finished) = StartGrant
  BY <1>3, <1>4 DEF GrantOf, Worth, StartGrant
<1>6. cap = StartCap
  BY DEF Init
<1>7. StartGrant \in Int
  <2>1. Priced(ent, Finished, Grant)
    BY PricesAre, RowFacts DEF Buildings
  <2> QED
    BY <1>5, <2>1, WorthType DEF GrantOf, Worth, WorthIn
<1>8. StartCap = Base + GrantOf(Finished)
  BY <1>0, <1>5, <1>7 DEF Base
<1> QED
  BY <1>0, <1>6, <1>8 DEF CapInv, CapBacked

\* The finished buildings, and so their grants, are what they were.
LEMMA CapKept ==
  ASSUME CapInv, UNCHANGED cap, Finished' = Finished,
         \A s \in Finished : ent'[s].kind = ent[s].kind
  PROVE  CapInv'
<1>1. WorthIn(ent', Finished, Grant) = WorthIn(ent, Finished, Grant)
  BY WorthSame
<1>2. GrantOf(Finished)' = GrantOf(Finished)
  BY <1>1 DEF GrantOf, Worth, WorthIn
<1>3. CapBacked'
  BY <1>2 DEF CapInv, CapBacked
<1> QED
  BY <1>3 DEF CapInv

LEMMA ConstructionKeepsCap ==
  ASSUME RowsInv, CapInv,
         NEW arrived \in SUBSET Workers, NEW clear \in SUBSET Sites, Construction(arrived, clear)
  PROVE  CapInv'
<1>1. PICK finished, stalled \in SUBSET Sites :
        /\ finished \cap stalled = {} /\ Finished' = Finished \cup finished
        /\ \A t \in Slots \ stalled : ent'[t].kind = ent[t].kind
        /\ cap' = Min({MaxSupplyCap, cap + GrantOf(finished)})
  BY ConstructionCensus
<1> DEFINE g == WorthIn(ent, finished, Grant)
           f == WorthIn(ent, Finished, Grant)
           h == WorthIn(ent', Finished', Grant)
<1>2. /\ Finished \subseteq Finished' /\ Finished' \ Finished = finished /\ Finished' \subseteq Slots
      /\ \A s \in Finished' : ent'[s].kind = ent[s].kind /\ ent'[s].kind \in BuildingKinds
  <2>1. Finished' \cap stalled = {} /\ finished \cap Finished = {}
    BY <1>1, LivingKinds DEF RowsInv
  <2>2. Finished' \subseteq Slots /\ \A s \in Finished' : s \in Buildings
    BY <1>1, RowFacts
  <2>3. \A s \in Finished' : ent'[s].kind = ent[s].kind
    BY <1>1, <2>1, <2>2
  <2> QED
    BY <1>1, <2>1, <2>2, <2>3 DEF Buildings
<1>3. h = f + g /\ f \in Nat /\ g \in Nat
  <2>1. Priced(ent', Finished', Grant)
    BY <1>2, PricesAre
  <2>2. \A s \in Finished : ent[s].kind = ent'[s].kind
    BY <1>2
  <2> DEFINE F == Finished'
             rest == F \ Finished
  <2>5. Priced(ent', F, Grant) /\ Finished \subseteq F /\ rest = finished
    BY <1>2, <2>1
  <2> HIDE DEF F
  <2>6. /\ WorthIn(ent', F, Grant) = WorthIn(ent, Finished, Grant) + WorthIn(ent', F \ Finished, Grant)
        /\ WorthIn(ent, Finished, Grant) \in Nat /\ WorthIn(ent', F \ Finished, Grant) \in Nat
    BY <2>2, <2>5, PartKept
  <2>3. h = f + WorthIn(ent', finished, Grant) /\ f \in Nat /\ WorthIn(ent', finished, Grant) \in Nat
    BY <2>5, <2>6 DEF F
  <2>4. WorthIn(ent', finished, Grant) = g
    <3>1. \A s \in finished : ent'[s].kind = ent[s].kind
      BY <1>1, <1>2
    <3> QED
      BY <3>1, WorthSame
  <2> HIDE DEF f, g, h
  <2> QED
    BY <1>2, <2>3, <2>4
<1>4. \A most \in Nat : (\A k \in BuildingKinds : Grant[k] <= most) => h <= Cardinality(Slots) * most
  <2> TAKE most \in Nat
  <2> HAVE \A k \in BuildingKinds : Grant[k] <= most
  <2> DEFINE c == [s \in Finished' |-> Grant[ent'[s].kind]]
  <2>1. c \in [Finished' -> Nat] /\ \A s \in Finished' : c[s] <= most
    BY <1>2, EconomyAssumption DEF EconomyAssumption
  <2>2. IsFiniteSet(Slots) /\ Finished' \subseteq Slots
    BY <1>2, EconomyAssumption DEF EconomyAssumption
  <2> HIDE DEF c
  <2>3. Total(c) <= Cardinality(Slots) * most
    BY <2>1, <2>2, TotalBounded
  <2> QED
    BY <2>3 DEF WorthIn, c
<1>5. GrantOf(finished) = g /\ GrantOf(Finished) = f /\ GrantOf(Finished)' = h
  BY DEF GrantOf, Worth, WorthIn
<1>6. MaxSupplyCap \in Nat /\ cap \in 0 .. MaxSupplyCap /\ Cardinality(Slots) \in Nat
  BY EconomyAssumption, FS_CardinalityType DEF EconomyAssumption, CapInv
<1> HIDE DEF f, g, h
<1>7. cap' = IF MaxSupplyCap <= cap + g THEN MaxSupplyCap ELSE cap + g
  <2>1. MaxSupplyCap \in Int /\ cap + g \in Int
    BY <1>3, <1>6
  <2>2. cap' = Min({MaxSupplyCap, cap + g})
    BY <1>1, <1>5
  <2> QED
    BY <2>1, <2>2, MinIs
<1>8. cap' \in 0 .. MaxSupplyCap
  BY <1>3, <1>6, <1>7
<1>9. ASSUME NEW most \in 0 .. MaxSupplyCap, \A k \in BuildingKinds : Grant[k] <= most,
             0 <= Base, Base + Cardinality(Slots) * most <= MaxSupplyCap
      PROVE  cap' = Base + h
  <2>1. cap = Base + f
    BY <1>5, <1>9 DEF CapInv, CapBacked
  <2>2. most \in Nat
    BY <1>6
  <2>3. h <= Cardinality(Slots) * most
    BY <1>4, <1>9, <2>2
  <2>4. Cardinality(Slots) * most \in Nat
    BY <1>6, <2>2
  <2> DEFINE m == Cardinality(Slots) * most
  <2>5. h <= m /\ m \in Nat /\ Base + m <= MaxSupplyCap /\ Base \in Int
    BY <1>9, <2>3, <2>4, BaseType
  <2> HIDE DEF m
  <2> QED
    BY <1>3, <1>6, <1>7, <2>1, <2>5
<1>10. CapBacked'
  BY <1>5, <1>9 DEF CapBacked
<1> QED
  BY <1>8, <1>10 DEF CapInv

LEMMA CombatKeepsCap ==
  ASSUME RowsInv, CapInv, NEW dead \in SUBSET Alive, Combat(dead)
  PROVE  CapInv'
<1> DEFINE left == Finished \ dead
           f == WorthIn(ent, Finished, Grant)
           g == WorthIn(ent, Finished \ left, Grant)
           h == WorthIn(ent', left, Grant)
<1>1. cap' = Max({0, cap - GrantOf(dead \cap Finished)}) /\ ent' = Despawned(dead)
  BY DEF Combat, Revoked
<1>2. Finished' = left /\ Finished \ left = dead \cap Finished /\ left \subseteq Finished
      /\ \A s \in left : ent'[s].kind = ent[s].kind
  BY <1>1, DespawnCensus, RowFacts
<1>3. f = h + g /\ f \in Nat /\ g \in Nat /\ h \in Nat
  <2>1. Priced(ent, Finished, Grant)
    BY PricesAre, RowFacts DEF Buildings
  <2>2. f \in Nat
    BY <2>1, WorthType
  <2> HIDE DEF left
  <2> QED
    BY <1>2, <2>1, <2>2, PartKept
<1>4. GrantOf(dead \cap Finished) = g /\ GrantOf(Finished) = f /\ GrantOf(Finished)' = h
  BY <1>2 DEF GrantOf, Worth, WorthIn
<1>5. MaxSupplyCap \in Nat /\ cap \in 0 .. MaxSupplyCap
  BY EconomyAssumption DEF EconomyAssumption, CapInv
<1> HIDE DEF f, g, h
<1>6. cap' = IF 0 <= cap - g THEN cap - g ELSE 0
  <2>1. 0 \in Int /\ cap - g \in Int
    BY <1>3, <1>5
  <2>2. cap' = Max({0, cap - g})
    BY <1>1, <1>4
  <2> QED
    BY <2>1, <2>2, MaxIs
<1>7. cap' \in 0 .. MaxSupplyCap
  BY <1>3, <1>5, <1>6
<1>8. ASSUME 0 <= Base, cap = Base + f PROVE cap' = Base + h
  BY <1>3, <1>5, <1>6, <1>8, BaseType
<1>9. CapBacked'
  BY <1>4, <1>8 DEF CapInv, CapBacked
<1> QED
  BY <1>7, <1>9 DEF CapInv

LEMMA CapNext ==
  ASSUME RowsInv, QueuesOK, CapInv, [Next]_vars PROVE CapInv'
<1>1. ASSUME UNCHANGED <<ent, cap>> PROVE CapInv'
  <2>1. Finished' = Finished
    BY <1>1 DEF Finished, Buildings, Alive
  <2> QED
    BY <1>1, <2>1, CapKept
<1>2. CASE \E w, s \in Slots : ConfirmPlacement(w, s)
  <2>1. PICK w, s \in Slots : ConfirmPlacement(w, s)
    BY <1>2
  <2>2. Finished' = Finished /\ UNCHANGED cap /\ \A t \in Finished : ent'[t].kind = ent[t].kind
    BY <2>1, ConfirmCensus, RowFacts DEF ConfirmPlacement
  <2> QED
    BY <2>2, CapKept
<1>3. CASE \E s \in Slots : CancelConstruction(s)
  <2>1. PICK s \in Slots : CancelConstruction(s)
    BY <1>3
  <2>2. Finished' = Finished \ {s} /\ \A t \in Slots \ {s} : ent'[t] = ent[t]
    BY <2>1, DespawnCensus DEF CancelConstruction
  <2>3. s \notin Finished /\ UNCHANGED cap
    BY <2>1, LivingKinds DEF CancelConstruction, RowsInv
  <2>4. Finished' = Finished /\ \A t \in Finished : ent'[t].kind = ent[t].kind
    BY <2>2, <2>3, RowFacts
  <2> QED
    BY <2>3, <2>4, CapKept
<1>4. CASE \E arrived \in SUBSET Workers, clear \in SUBSET Sites : Construction(arrived, clear)
  BY <1>4, ConstructionKeepsCap
<1>5. CASE \E spot \in [Ready -> Free \cup {None}] : Production(spot)
  <2>1. PICK spot \in [Ready -> Free \cup {None}] : Production(spot)
    BY <1>5
  <2> DEFINE taken == {spot[s] : s \in {t \in Ready : spot[t] # None}}
  <2>2. Finished' = Finished /\ taken \cap Alive = {} /\ \A t \in Slots \ taken : ent'[t] = ent[t]
    BY <2>1, ProductionCensus
  <2> HIDE DEF taken
  <2>3. UNCHANGED cap /\ \A t \in Finished : ent'[t].kind = ent[t].kind
    BY <2>1, <2>2, RowFacts DEF Production, purse
  <2> QED
    BY <2>2, <2>3, CapKept
<1>6. CASE \E dead \in SUBSET Alive : Combat(dead)
  BY <1>6, CombatKeepsCap
<1> QED
  BY <1>1, <1>2, <1>3, <1>4, <1>5, <1>6
  DEF Next, Command, System, BeginPlacement, CancelPlacement, OrderBuild, OrderElsewhere,
      Enqueue, CancelQueued, StartTick, Gather, EnemyAI, Recount, vars, rows, purse
-----------------------------------------------------------------------------
(* The enemy's objective.                                                  *)

LEMMA ObjectiveKept ==
  ASSUME ObjectiveInv, phase' # "combat", UNCHANGED objective,
         ~dirty' => ~dirty, orphaned => orphaned',
         NEW S \in SUBSET Buildings, Buildings \ S \subseteq Buildings',
         \A t \in Buildings \ S : gen'[t] = gen[t],
         ~dirty' /\ Names(objective, S) => orphaned'
  PROVE  ObjectiveInv'
<1> SUFFICES ASSUME ~dirty'
             PROVE  objective' = None \/ Names(objective, Buildings)' \/ orphaned'
  BY DEF ObjectiveInv
<1>1. CASE objective = None \/ orphaned
  BY <1>1
<1>2. CASE Names(objective, Buildings) /\ ~Names(objective, S)
  <2>1. PICK t \in Buildings : objective = IdAt(t)
    BY <1>2 DEF Names
  <2>2. t \in Buildings \ S
    BY <1>2, <2>1 DEF Names
  <2>3. t \in Buildings' /\ IdAt(t)' = IdAt(t)
    BY <2>2 DEF IdAt
  <2> QED
    BY <2>1, <2>3 DEF Names
<1> QED
  BY <1>1, <1>2 DEF ObjectiveInv

LEMMA ObjectiveNext ==
  ASSUME RowsInv, QueuesOK, ObjectiveInv, [Next]_vars PROVE ObjectiveInv'
<1>0. {} \in SUBSET Buildings /\ ~Names(objective, {})
  BY DEF Names
<1>1. ASSUME UNCHANGED <<ent, gen, objective, dirty, orphaned>>, phase' # "combat" PROVE ObjectiveInv'
  <2>1. Buildings' = Buildings
    BY <1>1 DEF Buildings, Alive
  <2> QED
    BY <1>0, <1>1, <2>1, ObjectiveKept
<1>2. CASE \E w, s \in Slots : ConfirmPlacement(w, s)
  <2>1. PICK w, s \in Slots : ConfirmPlacement(w, s)
    BY <1>2
  <2>2. Buildings' = Buildings \cup {s}
    BY <2>1, ConfirmCensus
  <2>3. UNCHANGED <<gen, objective, dirty, orphaned>> /\ phase' # "combat"
    BY <2>1 DEF ConfirmPlacement, enemy
  <2> QED
    BY <1>0, <2>2, <2>3, ObjectiveKept
<1>3. CASE \E s \in Slots : CancelConstruction(s)
  <2>1. PICK s \in Slots : CancelConstruction(s)
    BY <1>3
  <2>2. /\ {s} \in SUBSET Buildings /\ Buildings' = Buildings \ {s}
        /\ \A t \in Buildings \ {s} : gen'[t] = gen[t]
    BY <2>1, DespawnCensus, RowFacts DEF CancelConstruction, Regenerated
  <2>3. /\ UNCHANGED <<objective, dirty>> /\ orphaned' = (orphaned \/ objective = IdAt(s))
        /\ phase' # "combat"
    BY <2>1 DEF CancelConstruction
  <2>4. Names(objective, {s}) => objective = IdAt(s)
    BY DEF Names
  <2>5. (orphaned => orphaned') /\ (~dirty' => ~dirty) /\ (Names(objective, {s}) => orphaned')
    BY Zenon, <2>3, <2>4
  <2> QED
    BY <2>2, <2>3, <2>5, ObjectiveKept
<1>4. CASE \E arrived \in SUBSET Workers, clear \in SUBSET Sites : Construction(arrived, clear)
  <2>1. PICK arrived \in SUBSET Workers, clear \in SUBSET Sites : Construction(arrived, clear)
    BY <1>4
  <2>2. PICK finished, stalled \in SUBSET Sites :
          /\ Buildings' = Buildings \ stalled /\ gen' = Regenerated(stalled)
          /\ dirty' = Alarm(finished) /\ orphaned' = (orphaned \/ Names(objective, stalled))
    BY <2>1, ConstructionCensus
  <2>3. UNCHANGED objective /\ phase' # "combat"
    BY <2>1 DEF Construction
  <2>4. stalled \in SUBSET Buildings /\ \A t \in Buildings \ stalled : gen'[t] = gen[t]
    BY <2>2, RowFacts DEF Regenerated
  <2>5. /\ orphaned => orphaned'
        /\ Names(objective, stalled) => orphaned'
    BY Zenon, <2>2
  <2>6. ~dirty' => ~dirty
    BY Zenon, <2>2 DEF Alarm
  <2>7. Buildings \ stalled \subseteq Buildings'
    BY <2>2
  <2> QED
    BY <2>3, <2>4, <2>5, <2>6, <2>7, ObjectiveKept
<1>5. CASE \E spot \in [Ready -> Free \cup {None}] : Production(spot)
  <2>1. PICK spot \in [Ready -> Free \cup {None}] : Production(spot)
    BY <1>5
  <2>2. Buildings' = Buildings
    BY <2>1, ProductionCensus
  <2>3. UNCHANGED <<gen, objective, dirty, orphaned>> /\ phase' # "combat"
    BY <2>1 DEF Production, enemy
  <2> QED
    BY <1>0, <2>2, <2>3, ObjectiveKept
<1>6. CASE EnemyAI
  <2>1. UNCHANGED <<ent, gen>> /\ dirty' = FALSE
    BY <1>6 DEF EnemyAI, rows
  <2>2. Buildings' = Buildings /\ \A t : IdAt(t)' = IdAt(t)
    BY <2>1 DEF Buildings, Alive, IdAt
  <2>3. objective' = None \/ Names(objective, Buildings)' \/ orphaned'
    <3>1. CASE dirty
      <4>1. objective' = None \/ \E s \in Buildings : objective' = IdAt(s)
        BY <1>6, <3>1 DEF EnemyAI
      <4> QED
        BY <2>2, <4>1 DEF Names
    <3>2. CASE ~dirty
      <4>1. UNCHANGED <<objective, orphaned>>
        BY <1>6, <3>2 DEF EnemyAI
      <4>2. Names(objective, Buildings)' <=> Names(objective, Buildings)
        BY <2>2, <4>1 DEF Names
      <4> QED
        BY <3>2, <4>1, <4>2 DEF ObjectiveInv
    <3> QED
      BY <3>1, <3>2
  <2> QED
    BY <2>1, <2>3 DEF ObjectiveInv
<1>7. CASE \E dead \in SUBSET Alive : Combat(dead)
  <2>1. PICK dead \in SUBSET Alive : Combat(dead)
    BY <1>7
  <2> DEFINE fallen == dead \cap Buildings
  <2>2. Buildings' = Buildings \ fallen /\ \A t \in Buildings \ fallen : gen'[t] = gen[t]
    BY <2>1, DespawnCensus, RowFacts DEF Combat, Regenerated
  <2>3. fallen \in SUBSET Buildings /\ UNCHANGED <<objective, orphaned>> /\ phase' # "combat"
    BY <2>1 DEF Combat
  <2>4. dirty' = Alarm(fallen)
    BY <2>1 DEF Combat
  <2> HIDE DEF fallen
  <2>5. (~dirty' => ~dirty) /\ (~dirty' => fallen = {})
    BY Zenon, <2>4 DEF Alarm
  <2>6. ~dirty' => ~Names(objective, fallen)
    BY <2>5 DEF Names
  <2> QED
    BY <2>2, <2>3, <2>5, <2>6, ObjectiveKept
<1>8. CASE UNCHANGED vars
  <2>1. Buildings' = Buildings /\ \A t : IdAt(t)' = IdAt(t)
    BY <1>8 DEF Buildings, Alive, IdAt, vars, rows
  <2>2. Names(objective, Buildings)' <=> Names(objective, Buildings)
    BY <1>8, <2>1 DEF Names, vars, enemy
  <2> QED
    BY <1>8, <2>2 DEF ObjectiveInv, vars, enemy
<1> QED
  BY <1>1, <1>2, <1>3, <1>4, <1>5, <1>6, <1>7, <1>8
  DEF Next, Command, System, BeginPlacement, CancelPlacement, OrderBuild, OrderElsewhere,
      Enqueue, CancelQueued, StartTick, Gather, Recount, rows, enemy

(* A recycled row.                                                         *)

LEMMA NobodyInherits ==
  ASSUME RowsInv, QueuesOK, QueuesOwned, Next,
         NEW s \in Slots, ent[s] = None, ent'[s] # None
  PROVE  /\ queue'[s] = <<>> /\ progress'[s] = 0
         /\ ent'[s].kind \in UnitKinds => orders'[s] = None
<1>1. s \notin Alive /\ s \notin Finished /\ s \notin Workers
  BY RowFacts DEF Alive
<1>2. queue[s] = <<>> /\ progress[s] = 0 /\ orders[s] = None
  BY <1>1 DEF QueuesOwned, RowsInv, BuildOrdersLive
<1>3. CASE \E w, t \in Slots : ConfirmPlacement(w, t)
  <2>1. PICK w, t \in Slots : ConfirmPlacement(w, t)
    BY <1>3
  <2>2. s = t /\ ent'[s].kind \in BuildingKinds
    BY <2>1, ConfirmCensus
  <2>3. UNCHANGED <<queue, progress>>
    BY <2>1 DEF ConfirmPlacement
  <2> QED
    BY <1>2, <2>2, <2>3, EconomyAssumption DEF EconomyAssumption
<1>4. CASE \E t \in Slots : CancelConstruction(t)
  BY <1>4 DEF CancelConstruction, Despawned
<1>5. CASE \E arrived \in SUBSET Workers, clear \in SUBSET Sites : Construction(arrived, clear)
  BY <1>5, ConstructionCensus
<1>6. CASE \E spot \in [Ready -> Free \cup {None}] : Production(spot)
  <2>1. PICK spot \in [Ready -> Free \cup {None}] : Production(spot)
    BY <1>6
  <2>2. s \notin Producing /\ s \notin Ready
    BY <1>1 DEF Producing, Ready
  <2>3. queue'[s] = queue[s] /\ progress'[s] = progress[s] /\ orders' = orders
    BY <2>1, <2>2 DEF Production, Popped
  <2> QED
    BY <1>2, <2>3
<1>7. CASE \E dead \in SUBSET Alive : Combat(dead)
  BY <1>7 DEF Combat, Despawned
<1> QED
  BY <1>3, <1>4, <1>5, <1>6, <1>7
  DEF Next, Command, System, BeginPlacement, CancelPlacement, OrderBuild, OrderElsewhere,
      Enqueue, CancelQueued, StartTick, Gather, EnemyAI, Recount, rows

(* The books.                                                              *)

\* Everything the economy promises about its rows and its sums.
EconomyInv == RowsInv /\ QueuesOK /\ BooksInv /\ CapInv /\ ObjectiveInv

LEMMA EconomyInit == Init => EconomyInv
<1> HAVE Init
<1>1. RowsInv /\ QueuesOK /\ CapInv
  BY RowsInit, QueuesInit, CapInit
<1>2. QueuesOwned
  BY DEF Init, QueuesOwned
<1>3. StockOK
  BY EconomyAssumption DEF EconomyAssumption, Init, StockOK
<1>4. Books
  BY <1>1, <1>2, BooksAre
<1>5. Sites = {}
  <2>1. \A s \in Slots : ent[s] = None \/ ent[s].target = 0
    BY DEF Init
  <2> QED
    BY <2>1 DEF Sites, Buildings, Alive
<1>6. \A price : QueuedIn(queue, Slots, price) = 0 /\ WorthIn(ent, Sites, price) = 0
  <2>1. \A s \in Slots : queue[s] = <<>>
    BY DEF Init
  <2> QED
    BY <1>5, <2>1, QueuedEmpty, WorthEmpty
<1>7. \A r \in Resources : Wealth(r) <= MaxStock
  <2> TAKE r \in Resources
  <2>1. stock[r] \in 0 .. MaxStock /\ MaxStock \in Nat
    BY <1>3, EconomyAssumption DEF EconomyAssumption, StockOK
  <2>2. Wealth(r) = stock[r] + 0 + 0
    BY <1>4, <1>6 DEF Books
  <2> QED
    BY <2>1, <2>2
<1>8. used = WorthIn(ent, Units, SupplyCost)
  BY DEF Init, UnitSupply, Worth, WorthIn
<1>9. used = CommittedSupply /\ used \in Nat
  BY <1>4, <1>6, <1>8 DEF Books
<1>10. BooksInv
  BY <1>2, <1>3, <1>7, <1>9 DEF BooksInv
<1>11. ObjectiveInv
  BY DEF Init, ObjectiveInv
<1> QED
  BY <1>1, <1>10, <1>11 DEF EconomyInv

\* What every step does to the books.
LEMMA BooksNext ==
  ASSUME EconomyInv, [Next]_vars PROVE BooksKept
<1>0. RowsInv /\ QueuesOK /\ BooksInv /\ QueuesOwned /\ cap \in Nat
  BY EconomyAssumption DEF EconomyAssumption, EconomyInv, BooksInv, CapInv
<1>1. RowsInv' /\ QueuesOK' /\ QueuesOwned'
  BY <1>0, RowsNext, QueuesNext, OwnedNext
<1>2. Books
  BY <1>0, BooksAre
<1>3. (RowsInv /\ QueuesOK /\ QueuesOwned => Books)'
  BY BooksAre, PTL
<1>4. Books'
  BY <1>1, <1>3
<1>5. CASE \E w, s \in Slots : ConfirmPlacement(w, s)
  BY <1>0, <1>1, <1>2, <1>4, <1>5, ConfirmKeepsBooks
<1>6. CASE \E s \in Slots : CancelConstruction(s)
  BY <1>0, <1>1, <1>2, <1>4, <1>6, CancelKeepsBooks
<1>7. CASE \E s \in Slots, k \in UnitKinds : Enqueue(s, k)
  BY <1>0, <1>1, <1>2, <1>4, <1>7, EnqueueKeepsBooks
<1>8. CASE \E s \in Slots, i \in 1 .. QueueCap : CancelQueued(s, i)
  BY <1>0, <1>1, <1>2, <1>4, <1>8, CancelQueuedKeepsBooks
<1>9. CASE \E arrived \in SUBSET Workers, clear \in SUBSET Sites : Construction(arrived, clear)
  BY <1>0, <1>1, <1>2, <1>4, <1>9, ConstructionKeepsBooks
<1>10. CASE \E spot \in [Ready -> Free \cup {None}] : Production(spot)
  BY <1>0, <1>1, <1>2, <1>4, <1>10, ProductionKeepsBooks
<1>11. CASE \E amount \in Deposits : Gather(amount)
  BY <1>0, <1>1, <1>2, <1>4, <1>11, GatherKeepsBooks
<1>12. CASE \E dead \in SUBSET Alive : Combat(dead)
  BY <1>0, <1>1, <1>2, <1>4, <1>12, CombatKeepsBooks
<1>13. CASE Recount
  BY <1>0, <1>1, <1>2, <1>4, <1>13, RecountKeepsBooks
<1>14. ASSUME UNCHANGED <<ent, queue, stock, used>>, phase = "recount" => phase' = "recount"
       PROVE  BooksKept
  BY <1>0, <1>1, <1>2, <1>4, <1>14, QuietKeepsBooks
<1> QED
  BY <1>5, <1>6, <1>7, <1>8, <1>9, <1>10, <1>11, <1>12, <1>13, <1>14
  DEF Next, Command, System, BeginPlacement, CancelPlacement, OrderBuild, OrderElsewhere,
      StartTick, EnemyAI, vars, rows, purse

LEMMA EconomyNext == EconomyInv /\ [Next]_vars => EconomyInv'
<1> HAVE EconomyInv /\ [Next]_vars
<1>1. RowsInv /\ QueuesOK /\ CapInv /\ ObjectiveInv
  BY DEF EconomyInv
<1>2. RowsInv' /\ QueuesOK' /\ CapInv' /\ ObjectiveInv'
  BY <1>1, RowsNext, QueuesNext, CapNext, ObjectiveNext
<1>3. BooksInv'
  BY BooksNext DEF BooksKept, BooksInv
<1> QED
  BY <1>2, <1>3 DEF EconomyInv

\* The rows, the orders, the queues and the sums agree at every point of every tick.
THEOREM EconomyInvariant == Spec => []EconomyInv
<1> QED
  BY EconomyInit, EconomyNext, PTL DEF Spec

\* No stock goes below zero or past its saturation, no queue past its capacity.
THEOREM TypeCorrect == Spec => []TypeOK
<1>1. EconomyInv => TypeOK
  BY DEF EconomyInv, RowsInv, BooksInv, StockOK, CapInv, TypeOK
<1> QED
  BY <1>1, EconomyInvariant, PTL

\* Between ticks `used' is what the living units and the queues cost.
THEOREM SupplyIsExact == Spec => []SupplyExact
<1>1. EconomyInv => SupplyExact
  BY DEF EconomyInv, BooksInv, SupplyExact
<1> QED
  BY <1>1, EconomyInvariant, PTL

\* Away from its clamps the cap is what the finished buildings grant.
THEOREM CapIsBacked == Spec => []CapBacked
<1>1. EconomyInv => CapBacked
  BY DEF EconomyInv, CapInv
<1> QED
  BY <1>1, EconomyInvariant, PTL

\* When the enemy moves, its objective stands, or was cancelled by the player.
THEOREM ObjectiveStands == Spec => []ObjectiveFollowsDeaths
<1>1. EconomyInv => ObjectiveFollowsDeaths
  BY DEF EconomyInv, ObjectiveInv, ObjectiveFollowsDeaths
<1> QED
  BY <1>1, EconomyInvariant, PTL

\* Nothing raises the used supply past the cap.
THEOREM CapIsABound == Spec => CapHolds
<1>1. EconomyInv /\ [Next]_vars => [used' > used => used' <= cap']_vars
  BY BooksNext DEF BooksKept
<1> QED
  BY <1>1, EconomyInvariant, PTL DEF Spec, CapHolds

\* Commands move the player's wealth about; only gathering adds to it.
THEOREM NothingIsConjured == Spec => NothingConjured
<1>1. EconomyInv /\ [Next]_vars =>
        [\A r \in Resources :
           /\ phase = "commands" => Wealth(r)' = Wealth(r)
           /\ phase # "gather" => Wealth(r)' <= Wealth(r)]_vars
  BY BooksNext DEF BooksKept
<1> QED
  BY <1>1, EconomyInvariant, PTL DEF Spec, NothingConjured

\* A ready unit appears or stays paid for in its queue.
THEOREM ProductionKeepsThePaid == Spec => ProductionKeepsWhatWasPaid
<1>1. EconomyInv /\ [Next]_vars => [phase = "production" => CommittedSupply' = CommittedSupply]_vars
  BY BooksNext DEF BooksKept
<1> QED
  BY <1>1, EconomyInvariant, PTL DEF Spec, ProductionKeepsWhatWasPaid

\* A recycled row starts with no queue, no ticks and no order.
THEOREM RowsStartBlank == Spec => NothingInherited
<1>1. EconomyInv /\ [Next]_vars =>
        [\A s \in Slots : ent[s] = None /\ ent'[s] # None =>
           queue'[s] = <<>> /\ progress'[s] = 0 /\ (ent'[s].kind \in UnitKinds => orders'[s] = None)]_vars
  BY NobodyInherits DEF EconomyInv, BooksInv
<1> QED
  BY <1>1, EconomyInvariant, PTL DEF Spec, NothingInherited
===============================================================================
