--------------------------- MODULE PagedListProofs ---------------------------
(* Theorems about PagedList for tables, pages and numbers of any size.       *)
EXTENDS PagedList, FiniteSetTheorems, TLAPS

-----------------------------------------------------------------------------
\* The members of S whose number lies in the interval from a to below b.
Slice(S, f, a, b) == {x \in S : a <= f[x] /\ f[x] < b}

LEMMA DisjointUnion ==
  ASSUME NEW S, IsFiniteSet(S), NEW T, IsFiniteSet(T), S \cap T = {}
  PROVE  /\ IsFiniteSet(S \cup T)
         /\ Cardinality(S \cup T) = Cardinality(S) + Cardinality(T)
<1>1. Cardinality(S \cup T) = Cardinality(S) + Cardinality(T) - Cardinality(S \cap T)
      /\ IsFiniteSet(S \cup T)
  BY FS_Union, Zenon
<1>2. Cardinality(S \cap T) = 0
  BY FS_EmptySet
<1>3. Cardinality(S) \in Nat /\ Cardinality(T) \in Nat
  BY FS_CardinalityType
<1> QED BY <1>1, <1>2, <1>3

(* How many members of a finite set an injective numbering puts in an        *)
(* interval.                                                                 *)
LEMMA InInterval ==
  ASSUME NEW S, IsFiniteSet(S), NEW f \in [S -> Int],
         \A x, y \in S : f[x] = f[y] => x = y,
         NEW a \in Int, NEW b \in Int
  PROVE  /\ IsFiniteSet(Slice(S, f, a, b)) /\ Cardinality(Slice(S, f, a, b)) \in Nat
         /\ Cardinality(Slice(S, f, a, b)) <= (IF a < b THEN b - a ELSE 0)
<1> DEFINE T == Slice(S, f, a, b)
           g == [x \in T |-> f[x]]
<1>1. T \subseteq S /\ \A x \in T : a <= f[x] /\ f[x] < b
  BY DEF Slice
<1>2. IsFiniteSet(T) /\ Cardinality(T) \in Nat
  BY <1>1, FS_Subset, FS_CardinalityType
<1> HIDE DEF T
<1>3. g \in Injection(T, a .. b - 1)
  BY <1>1 DEF Injection, IsInjective
<1>4. IsFiniteSet(a .. b - 1)
      /\ Cardinality(a .. b - 1) = IF a > b - 1 THEN 0 ELSE (b - 1) - a + 1
  BY FS_Interval
<1>5. Cardinality(T) <= Cardinality(a .. b - 1)
  BY <1>3, <1>4, FS_Injection
<1>6. Cardinality(T) <= (IF a < b THEN b - a ELSE 0)
  BY <1>2, <1>4, <1>5
<1> QED BY <1>2, <1>6 DEF T

(* If the numbers are those below the size of the set, each one is taken.    *)
LEMMA Numbered ==
  ASSUME NEW S, IsFiniteSet(S), NEW f \in [S -> Int],
         \A x, y \in S : f[x] = f[y] => x = y,
         \A x \in S : 0 <= f[x] /\ f[x] < Cardinality(S),
         NEW o \in Nat, NEW l \in Nat
  PROVE  Cardinality(Slice(S, f, o, o + l)) =
           IF Cardinality(S) <= o THEN 0
           ELSE IF Cardinality(S) < o + l THEN Cardinality(S) - o ELSE l
<1> DEFINE n == Cardinality(S)
           A == Slice(S, f, 0, o)
           T == Slice(S, f, o, o + l)
           B == Slice(S, f, o + l, n)
<1>1. n \in Nat
  BY FS_CardinalityType
<1>2. \A x \in S : 0 <= f[x] /\ f[x] < n
  OBVIOUS
<1> HIDE DEF n
<1>3. IsFiniteSet(A) /\ Cardinality(A) \in Nat /\ Cardinality(A) <= o
  BY InInterval
<1>4. IsFiniteSet(T) /\ Cardinality(T) \in Nat
  BY InInterval
<1>5. IsFiniteSet(B) /\ Cardinality(B) \in Nat
      /\ Cardinality(B) <= (IF o + l < n THEN n - (o + l) ELSE 0)
  BY <1>1, InInterval
<1>6. Cardinality(T) <= l
  BY InInterval
<1>7. Cardinality(T) <= (IF o < n THEN n - o ELSE 0)
  <2>1. T \subseteq Slice(S, f, o, n)
    BY <1>2 DEF Slice
  <2>2. /\ IsFiniteSet(Slice(S, f, o, n)) /\ Cardinality(Slice(S, f, o, n)) \in Nat
        /\ Cardinality(Slice(S, f, o, n)) <= (IF o < n THEN n - o ELSE 0)
    BY <1>1, InInterval
  <2> QED BY <1>1, <1>4, <2>1, <2>2, FS_Subset
<1>8. S = (A \cup T) \cup B /\ A \cap T = {} /\ (A \cup T) \cap B = {}
  BY <1>1, <1>2 DEF Slice
<1>9. Cardinality(A \cup T) = Cardinality(A) + Cardinality(T) /\ IsFiniteSet(A \cup T)
  BY <1>3, <1>4, <1>8, DisjointUnion
<1>10. n = Cardinality(A) + Cardinality(T) + Cardinality(B)
  <2>1. Cardinality((A \cup T) \cup B) = Cardinality(A \cup T) + Cardinality(B)
    BY <1>5, <1>8, <1>9, DisjointUnion
  <2>2. Cardinality(S) = Cardinality(A \cup T) + Cardinality(B)
    BY <1>8, <2>1
  <2> QED BY <1>9, <2>2 DEF n
<1>11. Cardinality(T) = IF n <= o THEN 0 ELSE IF n < o + l THEN n - o ELSE l
  BY <1>1, <1>3, <1>4, <1>5, <1>6, <1>7, <1>10
<1> QED BY <1>11 DEF n

LEMMA OneMore ==
  ASSUME NEW A, IsFiniteSet(A), NEW B, IsFiniteSet(B), \A x, y \in B \ A : x = y
  PROVE  Cardinality(B) <= Cardinality(A) + 1
<1>1. Cardinality(A) \in Nat /\ Cardinality(B) \in Nat
  BY FS_CardinalityType
<1>2. CASE B \subseteq A
  BY <1>1, <1>2, FS_Subset
<1>3. CASE ~(B \subseteq A)
  <2>1. PICK x : x \in B \ A
    BY <1>3
  <2>2. B \subseteq A \cup {x}
    BY <2>1
  <2>3. IsFiniteSet(A \cup {x}) /\ Cardinality(A \cup {x}) = Cardinality(A) + 1
    BY <2>1, FS_AddElement
  <2>4. Cardinality(B) <= Cardinality(A \cup {x})
    BY <2>2, <2>3, FS_Subset
  <2> QED BY <1>1, <2>3, <2>4
<1> QED BY <1>2, <1>3

-----------------------------------------------------------------------------
(* The list of a table t under the status a, whatever the state.             *)
Table == [Ids -> Row \cup {Nil}]
Asked == Int \cup {Nil}

ListedIn(t, a) == {i \in Ids : t[i] # Nil /\ (a # Nil => t[i].status = Int8(a))}
BeforeIn(t, i, j) == t[i].stamp > t[j].stamp \/ (t[i].stamp = t[j].stamp /\ i > j)
AheadIn(t, a, i) == {j \in ListedIn(t, a) : BeforeIn(t, j, i)}
RankIn(t, a, i) == Cardinality(AheadIn(t, a, i))

LEMMA ListedIsFinite ==
  ASSUME NEW t \in Table, NEW a \in Asked
  PROVE  /\ ListedIn(t, a) \subseteq Ids /\ IsFiniteSet(ListedIn(t, a))
         /\ Cardinality(ListedIn(t, a)) \in 0 .. LastId
         /\ \A i \in ListedIn(t, a) : i \in Int /\ t[i].stamp \in Int
<1>1. IsFiniteSet(Ids) /\ Cardinality(Ids) = LastId
  BY FS_Interval, SizeAssumption DEF Ids
<1>2. ListedIn(t, a) \subseteq Ids
  BY DEF ListedIn
<1>3. IsFiniteSet(ListedIn(t, a)) /\ Cardinality(ListedIn(t, a)) <= LastId
  BY <1>1, <1>2, FS_Subset
<1>4. Cardinality(ListedIn(t, a)) \in Nat
  BY <1>3, FS_CardinalityType
<1>5. \A i \in ListedIn(t, a) : i \in Int /\ t[i].stamp \in Int
  <2> SUFFICES ASSUME NEW i \in ListedIn(t, a) PROVE i \in Int /\ t[i].stamp \in Int
    OBVIOUS
  <2>1. i \in Ids /\ t[i] \in Row
    BY DEF ListedIn, Table
  <2>2. i \in Int
    BY <2>1, SizeAssumption DEF Ids
  <2>3. t[i].stamp \in Stamps
    BY <2>1 DEF Row
  <2> QED BY <2>2, <2>3, InputAssumption
<1> QED BY <1>2, <1>3, <1>4, <1>5, SizeAssumption

\* The ranks are the numbers below the length of the list, each one once.
LEMMA Ranks ==
  ASSUME NEW t \in Table, NEW a \in Asked
  PROVE  /\ \A i \in ListedIn(t, a) :
              /\ IsFiniteSet(AheadIn(t, a, i))
              /\ RankIn(t, a, i) \in Nat
              /\ RankIn(t, a, i) < Cardinality(ListedIn(t, a))
         /\ \A i, j \in ListedIn(t, a) :
              BeforeIn(t, i, j) => RankIn(t, a, i) < RankIn(t, a, j)
         /\ \A i, j \in ListedIn(t, a) :
              RankIn(t, a, i) = RankIn(t, a, j) => i = j
<1> DEFINE L == ListedIn(t, a)
<1>1. /\ IsFiniteSet(L) /\ Cardinality(L) \in Nat
      /\ \A i \in L : i \in Int /\ t[i].stamp \in Int
  BY ListedIsFinite
<1>2. ASSUME NEW i \in L
      PROVE  /\ IsFiniteSet(AheadIn(t, a, i)) /\ RankIn(t, a, i) \in Nat
             /\ RankIn(t, a, i) < Cardinality(L)
  <2>1. AheadIn(t, a, i) \subseteq L /\ i \notin AheadIn(t, a, i)
    BY <1>1 DEF AheadIn, BeforeIn
  <2>2. IsFiniteSet(AheadIn(t, a, i)) /\ Cardinality(AheadIn(t, a, i)) <= Cardinality(L)
        /\ Cardinality(AheadIn(t, a, i)) # Cardinality(L)
    BY <1>1, <2>1, FS_Subset
  <2> QED BY <1>1, <2>2, FS_CardinalityType DEF RankIn
<1>3. ASSUME NEW i \in L, NEW j \in L, BeforeIn(t, i, j)
      PROVE  RankIn(t, a, i) < RankIn(t, a, j)
  <2>1. AheadIn(t, a, i) \subseteq AheadIn(t, a, j)
    BY <1>1, <1>3 DEF AheadIn, BeforeIn
  <2>2. i \in AheadIn(t, a, j) /\ i \notin AheadIn(t, a, i)
    BY <1>1, <1>3 DEF AheadIn, BeforeIn
  <2>3. /\ Cardinality(AheadIn(t, a, i)) <= Cardinality(AheadIn(t, a, j))
        /\ Cardinality(AheadIn(t, a, i)) # Cardinality(AheadIn(t, a, j))
    BY <1>2, <2>1, <2>2, FS_Subset
  <2> QED BY <1>2, <2>3 DEF RankIn
<1>4. ASSUME NEW i \in L, NEW j \in L, RankIn(t, a, i) = RankIn(t, a, j)
      PROVE  i = j
  <2>1. i = j \/ BeforeIn(t, i, j) \/ BeforeIn(t, j, i)
    BY <1>1 DEF BeforeIn
  <2> QED BY <1>2, <1>3, <1>4, <2>1
<1> QED BY <1>2, <1>3, <1>4

(* LIMIT l OFFSET o of a list of n rows has n - o rows, at most l.           *)
LEMMA PageLength ==
  ASSUME NEW t \in Table, NEW a \in Asked, NEW o \in Nat, NEW l \in Nat
  PROVE  LET P == {i \in ListedIn(t, a) : RankIn(t, a, i) >= o /\ RankIn(t, a, i) < o + l}
             n == Cardinality(ListedIn(t, a))
         IN  Cardinality(P) = IF n <= o THEN 0 ELSE IF n < o + l THEN n - o ELSE l
<1> DEFINE L == ListedIn(t, a)
           f == [i \in L |-> RankIn(t, a, i)]
           P == {i \in L : RankIn(t, a, i) >= o /\ RankIn(t, a, i) < o + l}
<1>1. IsFiniteSet(L) /\ Cardinality(L) \in Nat
  BY ListedIsFinite
<1>2. /\ f \in [L -> Int] /\ \A i, j \in L : f[i] = f[j] => i = j
      /\ \A i \in L : 0 <= f[i] /\ f[i] < Cardinality(L)
  BY Ranks
<1>3. P = Slice(L, f, o, o + l)
  BY <1>2 DEF Slice
<1> HIDE DEF f, L
<1>4. Cardinality(Slice(L, f, o, o + l)) =
        IF Cardinality(L) <= o THEN 0
        ELSE IF Cardinality(L) < o + l THEN Cardinality(L) - o ELSE l
  BY <1>1, <1>2, Numbered
<1> QED BY <1>3, <1>4 DEF L

-----------------------------------------------------------------------------
(* One row becomes another, appears or goes.                                 *)
Kept(t, u, i) == \A j \in Ids : j # i => u[j] = t[j]

\* i takes a place in the list of u that it did not have in that of t.
Placed(t, u, a, i) ==
  i \in ListedIn(u, a) /\ (i \notin ListedIn(t, a) \/ t[i].stamp # u[i].stamp)

\* How many rows a placement adds to the list: one or none.
One(t, u, a, i) == IF Placed(t, u, a, i) THEN 1 ELSE 0

\* Of the rows X, those that keep their place from t to u.
Keeping(t, u, a, i, X) == IF Placed(u, t, a, i) THEN X \ {i} ELSE X

\* Of the rows X, those before the position n, and those at it or after it.
Under(t, a, X, n) == {r \in X : RankIn(t, a, r) < n}
AtOrAfter(t, a, X, n) == {r \in X \cap ListedIn(t, a) : RankIn(t, a, r) >= n}

\* Any other row moves down by one if i is placed before it, and else not.
LEMMA RankRises ==
  ASSUME NEW t \in Table, NEW u \in Table, NEW a \in Asked, NEW i \in Ids, Kept(t, u, i),
         NEW r \in ListedIn(u, a), r # i \/ ~Placed(t, u, a, i)
  PROVE  /\ r \in ListedIn(t, a)
         /\ RankIn(u, a, r) <= RankIn(t, a, r) + 1
         /\ ~Placed(t, u, a, i) => RankIn(u, a, r) <= RankIn(t, a, r)
         /\ ~BeforeIn(u, i, r) => RankIn(u, a, r) <= RankIn(t, a, r)
<1>1. r \in ListedIn(t, a) /\ u[r].stamp = t[r].stamp
  BY DEF ListedIn, Kept, Placed
<1>2. /\ IsFiniteSet(AheadIn(u, a, r)) /\ RankIn(u, a, r) \in Nat
      /\ IsFiniteSet(AheadIn(t, a, r)) /\ RankIn(t, a, r) \in Nat
  BY <1>1, Ranks
<1>3. \A j \in AheadIn(u, a, r) :
        \/ j \in AheadIn(t, a, r)
        \/ j = i /\ Placed(t, u, a, i) /\ BeforeIn(u, i, r)
  BY <1>1 DEF AheadIn, ListedIn, BeforeIn, Kept, Placed
<1>4. RankIn(u, a, r) <= RankIn(t, a, r) + 1
  BY <1>2, <1>3, OneMore DEF RankIn
<1>5. ASSUME ~Placed(t, u, a, i) \/ ~BeforeIn(u, i, r)
      PROVE  RankIn(u, a, r) <= RankIn(t, a, r)
  <2>1. AheadIn(u, a, r) \subseteq AheadIn(t, a, r)
    BY <1>3, <1>5
  <2> QED BY <1>2, <2>1, FS_Subset DEF RankIn
<1> QED BY <1>1, <1>4, <1>5

\* The list gets longer by the row that is placed, less the one that is not
\* where it was.
LEMMA Length ==
  ASSUME NEW t \in Table, NEW u \in Table, NEW a \in Asked, NEW i \in Ids, Kept(t, u, i)
  PROVE  Cardinality(ListedIn(u, a)) =
           Cardinality(ListedIn(t, a)) - One(u, t, a, i) + One(t, u, a, i)
<1> DEFINE L == ListedIn(t, a)
           M == ListedIn(u, a)
<1>1. \A j \in Ids : j # i => (j \in L <=> j \in M)
  BY DEF ListedIn, Kept
<1>2. /\ L \subseteq Ids /\ IsFiniteSet(L) /\ Cardinality(L) \in Nat
      /\ M \subseteq Ids /\ IsFiniteSet(M) /\ Cardinality(M) \in Nat
  BY ListedIsFinite
<1> HIDE DEF L, M, One
<1>3. CASE i \in L /\ i \in M
  <2>1. L = M
    BY <1>1, <1>2, <1>3
  <2>2. Placed(t, u, a, i) <=> Placed(u, t, a, i)
    BY <1>3 DEF Placed, L, M
  <2> QED BY <1>2, <2>1, <2>2 DEF L, M, One
<1>4. CASE i \in L /\ i \notin M
  <2>1. M = L \ {i}
    BY <1>1, <1>2, <1>4
  <2>2. Cardinality(M) = Cardinality(L) - 1
    BY <1>2, <1>4, <2>1, FS_RemoveElement
  <2>3. ~Placed(t, u, a, i) /\ Placed(u, t, a, i)
    BY <1>4 DEF Placed, L, M
  <2> QED BY <1>2, <2>2, <2>3 DEF L, M, One
<1>5. CASE i \notin L /\ i \in M
  <2>1. M = L \cup {i}
    BY <1>1, <1>2, <1>5
  <2>2. Cardinality(M) = Cardinality(L) + 1
    BY <1>2, <1>5, <2>1, FS_AddElement
  <2>3. Placed(t, u, a, i) /\ ~Placed(u, t, a, i)
    BY <1>5 DEF Placed, L, M
  <2> QED BY <1>2, <2>2, <2>3 DEF L, M, One
<1>6. CASE i \notin L /\ i \notin M
  <2>1. L = M
    BY <1>1, <1>2, <1>6
  <2>2. ~Placed(t, u, a, i) /\ ~Placed(u, t, a, i)
    BY <1>6 DEF Placed, L, M
  <2> QED BY <1>2, <2>1, <2>2 DEF L, M, One
<1> QED BY <1>3, <1>4, <1>5, <1>6

\* Of the rows not seen that keep their place, one more at most comes to lie
\* before the position n, and only when i leaves its place.
LEMMA UnseenGrow ==
  ASSUME NEW t \in Table, NEW u \in Table, NEW a \in Asked, NEW i \in Ids, Kept(t, u, i),
         NEW X, X \subseteq ListedIn(t, a), NEW n \in Int
  PROVE  LET Y == Keeping(t, u, a, i, X)
         IN  /\ Y \subseteq ListedIn(u, a)
             /\ Cardinality(Under(u, a, Y, n)) <=
                  Cardinality(Under(t, a, X, n)) + One(u, t, a, i)
<1> DEFINE Y == Keeping(t, u, a, i, X)
           V == Under(u, a, Y, n)
           U == Under(t, a, X, n)
<1>1. Kept(u, t, i)
  BY DEF Kept
<1>2. \A r \in Y : r \in ListedIn(t, a) /\ (r # i \/ ~Placed(u, t, a, i))
  BY DEF Keeping
<1>3. \A r \in Y : /\ r \in ListedIn(u, a)
                   /\ RankIn(t, a, r) <= RankIn(u, a, r) + 1
                   /\ ~Placed(u, t, a, i) => RankIn(t, a, r) <= RankIn(u, a, r)
  BY <1>1, <1>2, RankRises
<1>4. \A r \in Y : RankIn(t, a, r) \in Nat /\ RankIn(u, a, r) \in Nat
  BY <1>2, <1>3, Ranks
<1>5. Y \subseteq X /\ IsFiniteSet(X)
  BY ListedIsFinite, FS_Subset DEF Keeping
<1> HIDE DEF Y
<1>6. IsFiniteSet(U) /\ IsFiniteSet(V) /\ Cardinality(U) \in Nat /\ Cardinality(V) \in Nat
  <2>1. U \subseteq X /\ V \subseteq X
    BY <1>5 DEF Under
  <2> QED BY <1>5, <2>1, FS_Subset, FS_CardinalityType
<1>7. CASE ~Placed(u, t, a, i)
  <2>1. V \subseteq U
    BY <1>3, <1>4, <1>5, <1>7 DEF Under
  <2>2. Cardinality(V) <= Cardinality(U)
    BY <1>6, <2>1, FS_Subset
  <2> QED BY <1>3, <1>6, <1>7, <2>2 DEF Y, One, Keeping
<1>8. CASE Placed(u, t, a, i)
  <2>1. \A r \in V \ U : RankIn(t, a, r) = n /\ r \in ListedIn(t, a)
    BY <1>2, <1>3, <1>4, <1>5 DEF Under
  <2>2. \A r, s \in V \ U : r = s
    BY <2>1, Ranks
  <2>3. Cardinality(V) <= Cardinality(U) + 1
    BY <1>6, <2>2, OneMore
  <2> QED BY <1>3, <1>6, <1>8, <2>3 DEF Y, One, Keeping
<1> QED BY <1>7, <1>8

\* Of any rows, one more at most comes to lie at the position n or after it,
\* and only when i takes a place.
LEMMA SeenGrow ==
  ASSUME NEW t \in Table, NEW u \in Table, NEW a \in Asked, NEW i \in Ids, Kept(t, u, i),
         NEW X, NEW n \in Int
  PROVE  Cardinality(AtOrAfter(u, a, X, n)) <=
           Cardinality(AtOrAfter(t, a, X, n)) + One(t, u, a, i)
<1> DEFINE V == AtOrAfter(u, a, X, n)
           U == AtOrAfter(t, a, X, n)
<1>1. IsFiniteSet(U) /\ IsFiniteSet(V) /\ Cardinality(U) \in Nat /\ Cardinality(V) \in Nat
  <2>1. U \subseteq ListedIn(t, a) /\ V \subseteq ListedIn(u, a)
    BY DEF AtOrAfter
  <2> QED BY <2>1, ListedIsFinite, FS_Subset, FS_CardinalityType
<1>2. \A r \in V : r # i \/ ~Placed(t, u, a, i) =>
        /\ r \in ListedIn(t, a)
        /\ RankIn(u, a, r) <= RankIn(t, a, r) + 1
        /\ ~Placed(t, u, a, i) => RankIn(u, a, r) <= RankIn(t, a, r)
        /\ ~BeforeIn(u, i, r) => RankIn(u, a, r) <= RankIn(t, a, r)
  BY RankRises DEF AtOrAfter
<1>3. \A r \in ListedIn(u, a) : RankIn(u, a, r) \in Nat
  BY Ranks
<1>4. \A r \in ListedIn(t, a) : RankIn(t, a, r) \in Nat
  BY Ranks
<1>5. CASE ~Placed(t, u, a, i)
  <2>1. V \subseteq U
    BY <1>2, <1>3, <1>4, <1>5 DEF AtOrAfter
  <2>2. Cardinality(V) <= Cardinality(U)
    BY <1>1, <2>1, FS_Subset
  <2> QED BY <1>1, <1>5, <2>2 DEF One
<1>6. CASE Placed(t, u, a, i)
  <2>1. i \in ListedIn(u, a)
    BY <1>6 DEF Placed
  <2>2. ASSUME RankIn(u, a, i) >= n PROVE \A r \in V \ U : r = i
    <3> SUFFICES ASSUME NEW r \in V \ U, r # i PROVE FALSE
      OBVIOUS
    <3>1. r \in ListedIn(t, a) /\ RankIn(t, a, r) < n /\ RankIn(u, a, r) <= RankIn(t, a, r) + 1
      BY <1>2, <1>4 DEF AtOrAfter
    <3>2. BeforeIn(u, i, r)
      BY <1>2, <1>3, <1>4, <3>1 DEF AtOrAfter
    <3>3. RankIn(u, a, i) < RankIn(u, a, r)
      BY <2>1, <3>2, Ranks DEF AtOrAfter
    <3> QED BY <1>3, <1>4, <2>1, <2>2, <3>1, <3>3 DEF AtOrAfter
  <2>3. ASSUME RankIn(u, a, i) < n PROVE \A r \in V \ U : RankIn(u, a, r) = n
    <3> SUFFICES ASSUME NEW r \in V \ U PROVE RankIn(u, a, r) = n
      OBVIOUS
    <3>1. r # i
      BY <1>3, <2>1, <2>3 DEF AtOrAfter
    <3>2. r \in ListedIn(t, a) /\ RankIn(t, a, r) < n /\ RankIn(u, a, r) <= RankIn(t, a, r) + 1
      BY <1>2, <1>4, <3>1 DEF AtOrAfter
    <3> QED BY <1>3, <1>4, <3>2 DEF AtOrAfter
  <2>4. \A r, s \in V \ U : r = s
    BY <1>3, <2>1, <2>2, <2>3, Ranks DEF AtOrAfter
  <2>5. Cardinality(V) <= Cardinality(U) + 1
    BY <1>1, <2>4, OneMore
  <2> QED BY <1>6, <2>5 DEF One
<1> QED BY <1>5, <1>6

-----------------------------------------------------------------------------
\* The number of the first row of the page, and of the next one to be read.
First == (FirstPage - 1) * Limit
Position == IF pc = "answered" THEN First + Limit ELSE First

LEMMA Sizes1 ==
  ASSUME page \in Int, size \in Int
  PROVE  /\ FirstPage \in Nat \ {0} /\ Limit \in 1 .. MaxSize /\ Limit \in Nat
         /\ First \in Nat /\ Position \in Nat
<1>1. FirstPage \in Nat \ {0} /\ Limit \in 1 .. MaxSize /\ Limit \in Nat
  BY SizeAssumption DEF FirstPage, Limit
<1>2. First \in Nat
  BY <1>1 DEF First
<1> QED BY <1>1, <1>2 DEF Position

LEMMA Fits ==
  ASSUME NEW n \in 0 .. MaxInt
  PROVE  Wrap(n) = n
<1>1. MaxInt \in Nat /\ n \in Nat /\ n <= MaxInt
  BY SizeAssumption
<1> DEFINE x == n + MaxInt + 1
           y == 2 * (MaxInt + 1)
<1>2. x \in Nat /\ y \in Nat /\ y > 0 /\ x < y
  BY <1>1
<1> HIDE DEF x, y
<1>3. x % y = x
  BY <1>2
<1> QED BY <1>1, <1>3 DEF Wrap, x, y

\* A page whose first row has a number is the rows of that number and the next.
LEMMA PageIs ==
  ASSUME TypeOK, First <= MaxInt
  PROVE  PageRows = {i \in ListedIn(rows, asked) :
                       /\ RankIn(rows, asked, i) >= First
                       /\ RankIn(rows, asked, i) < First + Limit}
<1>1. First \in Nat /\ MaxInt \in Nat
  BY Sizes1, SizeAssumption DEF TypeOK
<1>2. Offset = First
  BY <1>1, Fits DEF Offset, First
<1>3. Skipped = First
  BY <1>1, <1>2 DEF Skipped
<1> QED BY <1>3 DEF PageRows, Rank, RankIn, AheadIn, Listed, ListedIn, Matches, Before, BeforeIn

\* What Change does to the list.
LEMMA Changed ==
  ASSUME TypeOK, NEW i \in Ids, NEW v \in Row \cup {Nil}, Change(i, v)
  PROVE  /\ rows \in Table /\ rows' \in Table /\ asked \in Asked /\ asked' = asked
         /\ Kept(rows, rows', i)
         /\ Leaves(i, v) <=> Placed(rows', rows, asked, i)
         /\ Enters(i, v) <=> Placed(rows, rows', asked, i)
<1>1. /\ rows \in Table /\ asked \in Asked /\ asked' = asked
      /\ rows' = [rows EXCEPT ![i] = v]
  BY DEF Change, requestVars, TypeOK, Table, Asked
<1>2. rows' \in Table /\ Kept(rows, rows', i) /\ rows'[i] = v
  BY <1>1 DEF Table, Kept
<1>3. Leaves(i, v) <=> Placed(rows', rows, asked, i)
  BY <1>2 DEF Leaves, Moves, Placed, ListedIn, Matches
<1>4. Enters(i, v) <=> Placed(rows, rows', asked, i)
  BY <1>2 DEF Enters, Moves, Placed, ListedIn, Matches
<1> QED BY <1>1, <1>2, <1>3, <1>4

\* Every writer of the table changes one row.
LEMMA Writers ==
  ASSUME TypeOK,
         \/ \E v \in Row : Create(v)
         \/ \E i \in Ids : \/ \E s \in Statuses : SetStatus(i, s)
                           \/ \E x \in Stamps : Upsert(i, x)
                           \/ Delete(i)
  PROVE  nextId' \in 1 .. LastId + 1 /\ \E i \in Ids, v \in Row \cup {Nil} : Change(i, v)
<1>1. ASSUME NEW v \in Row, Create(v)
      PROVE  nextId' \in 1 .. LastId + 1 /\ \E i \in Ids, w \in Row \cup {Nil} : Change(i, w)
  BY <1>1, SizeAssumption DEF Create, Ids
<1>2. ASSUME NEW i \in Ids, rows[i] # Nil
      PROVE  /\ \A s \in Statuses : [rows[i] EXCEPT !.status = s] \in Row
             /\ \A x \in Stamps : [rows[i] EXCEPT !.stamp = x] \in Row
  <2>1. rows[i] \in Row
    BY <1>2 DEF TypeOK
  <2> QED BY <2>1 DEF Row
<1>3. ASSUME NEW i \in Ids, NEW s \in Statuses, SetStatus(i, s)
      PROVE  nextId' = nextId /\ \E w \in Row \cup {Nil} : Change(i, w)
  BY <1>2, <1>3 DEF SetStatus
<1>4. ASSUME NEW i \in Ids, NEW x \in Stamps, Upsert(i, x)
      PROVE  nextId' = nextId /\ \E w \in Row \cup {Nil} : Change(i, w)
  BY <1>2, <1>4 DEF Upsert
<1>5. ASSUME NEW i \in Ids, Delete(i)
      PROVE  nextId' = nextId /\ \E w \in Row \cup {Nil} : Change(i, w)
  BY <1>5 DEF Delete
<1> QED BY <1>1, <1>3, <1>4, <1>5 DEF TypeOK

-----------------------------------------------------------------------------
(* Types.                                                                    *)
THEOREM Typing == Spec => []TypeOK
<1>1. Init => TypeOK
  <2> SUFFICES ASSUME Init PROVE TypeOK
    OBVIOUS
  <2>1. stayed \subseteq Ids
    BY DEF Init, Listed
  <2>2. page \in Int /\ size \in Int /\ asked \in Int \cup {Nil}
    BY InputAssumption DEF Init
  <2> QED BY <2>1, <2>2 DEF Init, TypeOK
<1>2. TypeOK /\ [Next]_vars => TypeOK'
  <2> SUFFICES ASSUME TypeOK, [Next]_vars PROVE TypeOK'
    OBVIOUS
  <2>1. ASSUME NEW i \in Ids, NEW v \in Row \cup {Nil}, Change(i, v),
               nextId' \in 1 .. LastId + 1
        PROVE  TypeOK'
    <3>1. rows' \in [Ids -> Row \cup {Nil}]
      BY <2>1 DEF Change, TypeOK
    <3>2. /\ left' \in Nat /\ entered' \in Nat /\ leftSince' \in Nat /\ enteredSince' \in Nat
          /\ stayed' \subseteq Ids
      BY <2>1 DEF Change, TypeOK
    <3> QED BY <2>1, <3>1, <3>2 DEF Change, requestVars, pageVars, TypeOK
  <2>2. CASE Count
    <3>1. Cardinality(Listed) \in Nat
      <4>1. Listed = ListedIn(rows, asked)
        BY DEF Listed, ListedIn, Matches
      <4>2. rows \in Table /\ asked \in Asked
        BY DEF TypeOK, Table, Asked
      <4> QED BY <4>1, <4>2, ListedIsFinite
    <3> QED BY <2>2, <3>1 DEF Count, tableVars, requestVars, pageVars, moveVars, TypeOK
  <2>3. CASE Find
    <3>1. PageRows \subseteq Ids
      BY DEF PageRows, Listed
    <3>2. IsFiniteSet(PageRows \cap seen)
      <4>1. IsFiniteSet(Ids)
        BY FS_Interval, SizeAssumption DEF Ids
      <4>2. PageRows \cap seen \in SUBSET Ids
        BY <3>1
      <4> QED BY <4>1, <4>2, FS_Subset
    <3>3. Cardinality(PageRows \cap seen) \in Nat
      BY <3>2, FS_CardinalityType
    <3> QED BY <2>3, <3>1, <3>3 DEF Find, tableVars, requestVars, moveVars, TypeOK
  <2>4. CASE NextPage
    BY <2>4 DEF NextPage, tableVars, pageVars, moveVars, TypeOK
  <2>5. CASE Refuse \/ DbFails
    BY <2>5 DEF Refuse, DbFails, tableVars, requestVars, pageVars, moveVars, TypeOK
  <2>6. CASE UNCHANGED vars
    BY <2>6 DEF vars, tableVars, requestVars, pageVars, moveVars, TypeOK
  <2> QED BY <2>1, <2>2, <2>3, <2>4, <2>5, <2>6, Writers DEF Next
<1> QED BY <1>1, <1>2, PTL DEF Spec

-----------------------------------------------------------------------------
(* The answer.                                                               *)
\* Since the Count, the list has changed by what has left and entered.
Counted ==
  /\ total <= LastId
  /\ pc = "find" => Cardinality(Listed) = total - leftSince + enteredSince

AnswerInv == Counted /\ AnswerIsPage

LEMMA AnswerInvHolds == Spec => []AnswerInv
<1>1. Init => AnswerInv
  BY SizeAssumption DEF Init, AnswerInv, Counted, AnswerIsPage
<1>2. TypeOK /\ TypeOK' /\ AnswerInv /\ [Next]_vars => AnswerInv'
  <2> SUFFICES ASSUME TypeOK, TypeOK', AnswerInv, [Next]_vars PROVE AnswerInv'
    OBVIOUS
  <2>1. Listed = ListedIn(rows, asked) /\ Listed' = ListedIn(rows', asked')
    BY DEF Listed, ListedIn, Matches
  <2>2. rows \in Table /\ asked \in Asked /\ LastId \in Nat
    BY SizeAssumption DEF TypeOK, Table, Asked
  <2>3. ASSUME NEW i \in Ids, NEW v \in Row \cup {Nil}, Change(i, v) PROVE AnswerInv'
    <3> DEFINE gone == One(rows', rows, asked, i)
               come == One(rows, rows', asked, i)
    <3>1. /\ rows' \in Table /\ asked' = asked /\ Kept(rows, rows', i)
          /\ pc = "find" => leftSince' = leftSince + gone /\ enteredSince' = enteredSince + come
      BY <2>3, Changed DEF Change, One
    <3>2. Cardinality(Listed') = Cardinality(Listed) - gone + come
      BY <2>1, <2>2, <3>1, Length
    <3>3. Cardinality(Listed) \in Nat
      BY <2>1, <2>2, ListedIsFinite
    <3>4. UNCHANGED <<page, size, pc, total, shown>>
          /\ (pc # "find" => UNCHANGED <<leftSince, enteredSince>>)
      BY <2>3 DEF Change, requestVars, pageVars
    <3>5. Counted'
      <4> HIDE DEF gone, come
      <4>1. gone \in Int /\ come \in Int
        BY DEF gone, come, One
      <4> QED BY <3>1, <3>2, <3>3, <3>4, <4>1 DEF AnswerInv, Counted, TypeOK
    <3>6. AnswerIsPage'
      BY <3>4 DEF AnswerInv, AnswerIsPage, FirstPage, Limit
    <3> QED BY <3>5, <3>6 DEF AnswerInv
  <2>4. CASE Count
    <3>1. Listed' = Listed
      BY <2>1, <2>4 DEF Count, tableVars, requestVars
    <3>2. Cardinality(Listed) \in 0 .. LastId
      BY <2>1, <2>2, ListedIsFinite
    <3> QED BY <2>2, <2>4, <3>1, <3>2 DEF Count, AnswerInv, Counted, AnswerIsPage
  <2>5. CASE Find
    <3>1. /\ UNCHANGED <<page, size, total, leftSince, enteredSince>> /\ pc' = "answered"
          /\ shown' = PageRows
      BY <2>5 DEF Find, tableVars, requestVars
    <3>2. FirstPage' = FirstPage /\ Limit' = Limit
      BY <3>1 DEF FirstPage, Limit
    <3>3. ASSUME First <= MaxInt
          PROVE  Cardinality(PageRows) =
                   LET n == Cardinality(Listed)
                   IN  IF n <= First THEN 0 ELSE IF n < First + Limit THEN n - First ELSE Limit
      <4>1. First \in Nat /\ Limit \in Nat
        BY Sizes1 DEF TypeOK
      <4> QED BY <2>1, <2>2, <3>3, <4>1, PageIs, PageLength
    <3>4. /\ Cardinality(Listed) = total - leftSince + enteredSince
          /\ Cardinality(Listed) \in Nat
          /\ total \in Nat /\ leftSince \in Nat /\ enteredSince \in Nat
          /\ First \in Nat /\ Limit \in Nat
      BY <2>1, <2>2, <2>5, ListedIsFinite, Sizes1 DEF Find, AnswerInv, Counted, TypeOK
    <3>5. AnswerIsPage'
      <4> SUFFICES ASSUME First <= MaxInt
          PROVE  LET rest == total - First
                     n    == Cardinality(PageRows)
                 IN /\ n <= Limit
                    /\ n <= (IF rest + enteredSince > 0 THEN rest + enteredSince ELSE 0)
                    /\ n >= (IF rest - leftSince < Limit THEN rest - leftSince ELSE Limit)
        BY <3>1, <3>2 DEF AnswerIsPage, First
      <4> QED BY <3>3, <3>4
    <3> QED BY <3>1, <3>5 DEF AnswerInv, Counted
  <2>6. CASE NextPage \/ Refuse \/ DbFails
    <3>1. UNCHANGED total /\ pc' \in {"count", "refused", "failed"}
      BY <2>6 DEF NextPage, Refuse, DbFails
    <3> QED BY <3>1 DEF AnswerInv, Counted, AnswerIsPage
  <2>7. CASE UNCHANGED vars
    <3>1. Listed' = Listed
      BY <2>1, <2>7 DEF vars, tableVars, requestVars
    <3> QED BY <2>7, <3>1 DEF vars, requestVars, pageVars, AnswerInv, Counted, AnswerIsPage,
                              FirstPage, Limit
  <2> QED BY <2>3, <2>4, <2>5, <2>6, <2>7, Writers DEF Next
<1> QED BY <1>1, <1>2, Typing, PTL DEF Spec

(* A page agrees with the total answered with it, but for the rows that      *)
(* left or entered between the two statements.                               *)
THEOREM PageAgrees == Spec => []AnswerIsPage
<1>1. AnswerInv => AnswerIsPage
  BY DEF AnswerInv
<1> QED BY <1>1, AnswerInvHolds, PTL

-----------------------------------------------------------------------------
(* The walk.                                                                 *)
\* The rows the reader has passed by, and those it will see again.
Passed == Under(rows, asked, stayed \ seen, Position)
Again  == AtOrAfter(rows, asked, seen, Position)

WalkInv ==
  walk # "none" =>
    /\ page \in Nat \ {0}
    /\ walk = "byTotal" => size \in 1 .. MaxSize
    /\ First <= MaxInt
    /\ pc = "answered" /\ walk = "untilEmpty" /\ shown # {} => First < LastId
    /\ stayed \subseteq ListedIn(rows, asked)
    /\ Cardinality(Passed) <= left
    /\ repeats + Cardinality(Again) <= entered

LEMMA NextFirst ==
  ASSUME page \in Nat \ {0}, size \in Int, page' = page + 1, size' = size
  PROVE  First' = First + Limit /\ Limit' = Limit
         /\ (size \in 1 .. MaxSize => page * size = First + Limit)
<1>1. FirstPage = page /\ FirstPage' = page + 1 /\ Limit' = Limit
  BY DEF FirstPage, Limit
<1>2. Limit \in Nat
  BY SizeAssumption DEF Limit
<1>3. \A x, l \in Int : ((x + 1) - 1) * l = (x - 1) * l + l
  OBVIOUS
<1>4. size \in 1 .. MaxSize => Limit = size
  BY SizeAssumption DEF Limit
<1>5. page * Limit = (page - 1) * Limit + Limit
  BY <1>2, <1>3
<1> QED BY <1>1, <1>2, <1>3, <1>4, <1>5 DEF First

LEMMA WalkInvHolds == Spec => [](WalkInv /\ NothingMissed)
<1>1. Init => WalkInv /\ NothingMissed
  <2> SUFFICES ASSUME Init PROVE WalkInv
    BY DEF Init, NothingMissed
  <2>1. SUFFICES ASSUME walk # "none"
        PROVE  /\ First <= MaxInt /\ stayed \subseteq ListedIn(rows, asked)
               /\ Cardinality(Passed) <= left
               /\ repeats + Cardinality(Again) <= entered
    BY DEF Init, WalkInv
  <2>2. page = 1 /\ size \in Int
    BY <2>1, InputAssumption DEF Init
  <2>3. First = 0 /\ Position = 0
    <3>1. FirstPage = 1 /\ Limit \in Nat
      BY <2>2, SizeAssumption DEF FirstPage, Limit
    <3>2. First = 0
      BY <3>1 DEF First
    <3> QED BY <3>2 DEF Init, Position
  <2>4. stayed = ListedIn(rows, asked) /\ rows \in Table /\ asked \in Asked
    BY InputAssumption DEF Init, Listed, ListedIn, Matches, Table, Asked
  <2>5. Passed = {} /\ Again = {}
    <3>1. \A r \in stayed : RankIn(rows, asked, r) \in Nat
      BY <2>4, Ranks
    <3> QED BY <2>3, <3>1 DEF Passed, Again, Init, Under, AtOrAfter
  <2> QED BY <2>3, <2>4, <2>5, FS_EmptySet, SizeAssumption DEF Init
<1>2. TypeOK /\ TypeOK' /\ Counted /\ Counted' /\ WalkInv /\ NothingMissed /\ [Next]_vars
        => WalkInv' /\ NothingMissed'
  <2> SUFFICES ASSUME TypeOK, TypeOK', Counted, Counted', WalkInv, NothingMissed, [Next]_vars
      PROVE  WalkInv' /\ NothingMissed'
    OBVIOUS
  <2>1. Listed = ListedIn(rows, asked) /\ Listed' = ListedIn(rows', asked')
    BY DEF Listed, ListedIn, Matches
  <2>2. /\ rows \in Table /\ asked \in Asked /\ LastId \in Nat /\ MaxSize \in Nat
        /\ page \in Int /\ size \in Int
        /\ left \in Nat /\ entered \in Nat /\ repeats \in Nat
        /\ leftSince \in Nat /\ enteredSince \in Nat /\ total \in Nat
    BY SizeAssumption DEF TypeOK, Table, Asked
  <2>3. First \in Nat /\ Limit \in Nat /\ Limit <= MaxSize /\ Position \in Nat
    BY <2>2, Sizes1
  <2>4. CASE walk = "none"
    <3>1. walk' = walk
      <4>1. \A i \in Ids, v \in Row \cup {Nil} : Change(i, v) => walk' = walk
        BY DEF Change, requestVars
      <4> QED BY <4>1, Writers DEF Next, Refuse, Count, Find, DbFails, NextPage, vars, requestVars
    <3> QED BY <2>4, <3>1 DEF WalkInv, NothingMissed
  <2>5. CASE walk # "none"
    <3> USE <2>5
    <3>1. /\ page \in Nat \ {0} /\ (walk = "byTotal" => size \in 1 .. MaxSize)
          /\ First <= MaxInt
          /\ pc = "answered" /\ walk = "untilEmpty" /\ shown # {} => First < LastId
          /\ stayed \subseteq ListedIn(rows, asked)
          /\ Cardinality(Passed) <= left
          /\ repeats + Cardinality(Again) <= entered
      BY DEF WalkInv
    <3>2. ASSUME NEW i \in Ids, NEW v \in Row \cup {Nil}, Change(i, v)
          PROVE  WalkInv' /\ NothingMissed'
      <4> DEFINE gone == One(rows', rows, asked, i)
                 come == One(rows, rows', asked, i)
      <4>1. /\ rows' \in Table /\ asked' = asked /\ Kept(rows, rows', i)
            /\ stayed' = IF Placed(rows', rows, asked, i) THEN stayed \ {i} ELSE stayed
            /\ left' = left + gone /\ entered' = entered + come
            /\ UNCHANGED <<page, size, walk, pc, total, shown, seen, repeats>>
        BY <3>2, Changed DEF Change, requestVars, pageVars, One
      <4>2. First' = First /\ Position' = Position
        BY <4>1 DEF First, Position, FirstPage, Limit
      <4>3. stayed' \subseteq ListedIn(rows', asked)
        BY <2>2, <2>3, <3>1, <4>1, UnseenGrow DEF Keeping
      <4>4. Cardinality(Passed') <= Cardinality(Passed) + gone
        <5> DEFINE X == stayed \ seen
                   Y == Keeping(rows, rows', asked, i, X)
        <5>1. X \subseteq ListedIn(rows, asked)
          BY <3>1
        <5>2. Cardinality(Under(rows', asked, Y, Position)) <=
                Cardinality(Under(rows, asked, X, Position)) + gone
          <6> HIDE DEF X
          <6> QED BY <2>2, <2>3, <4>1, <5>1, UnseenGrow
        <5>3. Passed' = Under(rows', asked, Y, Position)
          BY <4>1, <4>2 DEF Passed, Under, Keeping
        <5> QED BY <5>2, <5>3 DEF Passed
      <4>5. Cardinality(Again') <= Cardinality(Again) + come
        <5>1. Again' = AtOrAfter(rows', asked, seen, Position)
          BY <4>1, <4>2 DEF Again, AtOrAfter
        <5> QED BY <2>2, <2>3, <4>1, <5>1, SeenGrow DEF Again
      <4>6. /\ gone \in Nat /\ come \in Nat
            /\ Cardinality(Passed) \in Nat /\ Cardinality(Passed') \in Nat
            /\ Cardinality(Again) \in Nat /\ Cardinality(Again') \in Nat
        <5>1. \A t \in Table : \A X : IsFiniteSet(X \cap ListedIn(t, asked))
          BY <2>2, ListedIsFinite, FS_Subset
        <5>2. /\ Passed = Passed \cap ListedIn(rows, asked)
              /\ Again = Again \cap ListedIn(rows, asked)
          BY <3>1 DEF Passed, Again, Under, AtOrAfter
        <5>3. /\ Passed' = Passed' \cap ListedIn(rows', asked)
              /\ Again' = Again' \cap ListedIn(rows', asked)
          BY <4>1, <4>3 DEF Passed, Again, Under, AtOrAfter
        <5>4. IsFiniteSet(Passed) /\ IsFiniteSet(Again)
          BY <2>2, <5>1, <5>2
        <5>5. IsFiniteSet(Passed') /\ IsFiniteSet(Again')
          BY <4>1, <5>1, <5>3
        <5> QED BY <5>4, <5>5, FS_CardinalityType DEF One
      <4>7. WalkInv'
        <5> HIDE DEF gone, come
        <5>1. Cardinality(Passed') <= left' /\ repeats' + Cardinality(Again') <= entered'
          BY <2>2, <3>1, <4>1, <4>4, <4>5, <4>6
        <5> QED BY <3>1, <4>1, <4>2, <4>3, <5>1 DEF WalkInv
      <4>8. NothingMissed'
        <5>1. SUFFICES ASSUME pc = "answered", ~GoesOn
              PROVE  /\ walk = "untilEmpty" => Cardinality(Missed') <= left'
                     /\ walk = "byTotal" => Cardinality(Missed') <= left' + enteredSince'
          BY <4>1 DEF NothingMissed, GoesOn
        <5>2. /\ walk = "untilEmpty" => Cardinality(Missed) <= left
              /\ walk = "byTotal" => Cardinality(Missed) <= left + enteredSince
          BY <5>1 DEF NothingMissed
        <5>3. enteredSince' = enteredSince
          BY <3>2, <5>1 DEF Change
        <5>4. Missed' \subseteq Missed /\ Missed \subseteq ListedIn(rows, asked)
          BY <3>1, <4>1 DEF Missed
        <5>5. /\ Cardinality(Missed) \in Nat /\ Cardinality(Missed') \in Nat
              /\ Cardinality(Missed') <= Cardinality(Missed)
          BY <2>2, <5>4, ListedIsFinite, FS_Subset, FS_CardinalityType
        <5> HIDE DEF gone, come
        <5> QED BY <2>2, <4>1, <4>6, <5>2, <5>3, <5>5
      <4> QED BY <4>7, <4>8
    <3>3. CASE Find
      <4> DEFINE L == ListedIn(rows, asked)
                 n == Cardinality(L)
                 next == First + Limit
                 old == Again \cap PageRows
                 far == Again \ PageRows
      <4>1. /\ pc = "find" /\ pc' = "answered" /\ shown' = PageRows /\ seen' = seen \cup PageRows
            /\ repeats' = repeats + Cardinality(PageRows \cap seen)
            /\ UNCHANGED <<rows, asked, page, size, walk, total, stayed, left, entered,
                           enteredSince>>
        BY <3>3 DEF Find, tableVars, requestVars, moveVars
      <4>2. First' = First /\ Position = First /\ Position' = next
        BY <4>1 DEF First, Position, FirstPage, Limit
      <4>3. /\ PageRows = {r \in L : RankIn(rows, asked, r) >= First
                                     /\ RankIn(rows, asked, r) < next}
            /\ \A r \in L : RankIn(rows, asked, r) \in Nat /\ RankIn(rows, asked, r) < n
            /\ IsFiniteSet(L) /\ n \in 0 .. LastId
        BY <2>2, <3>1, PageIs, Ranks, ListedIsFinite
      <4> HIDE DEF n, next
      <4>4. Limit >= 1 /\ next \in Nat /\ n \in Nat /\ next = First + Limit
        BY <2>2, <2>3, <4>3, Sizes1 DEF next
      <4>5. Passed' = Passed
        BY <2>3, <3>1, <4>1, <4>2, <4>3, <4>4 DEF Passed, Under
      <4>6. repeats' + Cardinality(Again') = repeats + Cardinality(Again)
        <5>1. Again' = far /\ PageRows \cap seen = old
          <6>1. Again' = {r \in (seen \cup PageRows) \cap L : RankIn(rows, asked, r) >= next}
            BY <4>1, <4>2 DEF Again, AtOrAfter
          <6>2. Again = {r \in seen \cap L : RankIn(rows, asked, r) >= First}
            BY <4>2 DEF Again, AtOrAfter
          <6> QED BY <2>3, <4>3, <4>4, <6>1, <6>2
        <5>2. Again = old \cup far /\ old \cap far = {}
          OBVIOUS
        <5>3. IsFiniteSet(old) /\ IsFiniteSet(far)
          <6>1. old \subseteq L /\ far \subseteq L
            BY DEF Again, AtOrAfter
          <6> QED BY <4>3, <6>1, FS_Subset
        <5>4. Cardinality(Again) = Cardinality(old) + Cardinality(far)
          <6> HIDE DEF old, far
          <6> QED BY <5>2, <5>3, DisjointUnion
        <5>5. Cardinality(old) \in Nat /\ Cardinality(far) \in Nat
          BY <5>3, FS_CardinalityType
        <5>6. repeats' = repeats + Cardinality(old)
          BY <4>1, <5>1
        <5> HIDE DEF old, far
        <5> QED BY <2>2, <5>1, <5>4, <5>5, <5>6
      <4>7. shown' # {} => First < LastId
        BY <2>2, <2>3, <4>1, <4>3
      <4>8. WalkInv'
        BY <3>1, <4>1, <4>2, <4>5, <4>6, <4>7 DEF WalkInv
      <4>9. IsFiniteSet(Passed) /\ Cardinality(Passed) \in Nat
        <5>1. Passed \subseteq L
          BY <3>1 DEF Passed, Under
        <5> QED BY <4>3, <5>1, FS_Subset, FS_CardinalityType
      <4>10. Missed' = stayed \ (seen \cup PageRows)
        BY <4>1 DEF Missed
      <4>11. ASSUME walk = "untilEmpty", ~GoesOn' PROVE Cardinality(Missed') <= left'
        <5>1. PageRows = {}
          BY <4>1, <4>11 DEF GoesOn
        <5>2. n <= First
          <6>1. Cardinality(PageRows) = IF n <= First THEN 0
                                         ELSE IF n < next THEN n - First ELSE Limit
            BY <2>2, <2>3, <4>3, PageLength DEF n, next
          <6>2. Cardinality(PageRows) = 0
            BY <5>1, FS_EmptySet
          <6> QED BY <2>3, <4>4, <6>1, <6>2
        <5>3. \A r \in L : RankIn(rows, asked, r) < First
          BY <2>3, <4>3, <4>4, <5>2
        <5>4. Missed' = Passed
          BY <3>1, <4>2, <4>10, <5>1, <5>3 DEF Passed, Under
        <5> QED BY <3>1, <4>1, <5>4
      <4>12. ASSUME walk = "byTotal", ~GoesOn'
             PROVE  Cardinality(Missed') <= left' + enteredSince'
        <5>1. next >= total
          <6>1. page * size >= total
            BY <2>2, <4>1, <4>12 DEF GoesOn
          <6>2. page * size = next
            <7>1. size \in 1 .. MaxSize /\ Limit = size /\ FirstPage = page
              BY <2>2, <3>1, <4>12, SizeAssumption DEF Limit, FirstPage
            <7>2. \A x, l \in Int : x * l = (x - 1) * l + l
              OBVIOUS
            <7> QED BY <2>2, <7>1, <7>2 DEF next, First
          <6> QED BY <6>1, <6>2
        <5> DEFINE f == [r \in L |-> RankIn(rows, asked, r)]
                   B == Slice(L, f, next, n)
        <5>2. f \in [L -> Int] /\ \A r, s \in L : f[r] = f[s] => r = s
          BY <2>2, Ranks
        <5>3. /\ IsFiniteSet(B) /\ Cardinality(B) \in Nat
              /\ Cardinality(B) <= (IF next < n THEN n - next ELSE 0)
          <6> HIDE DEF f, L
          <6> QED BY <4>3, <4>4, <5>2, InInterval
        <5>4. Missed' \subseteq Passed \cup B
          <6>1. \A r \in L : f[r] = RankIn(rows, asked, r)
            OBVIOUS
          <6> SUFFICES ASSUME NEW r \in stayed, r \notin seen, r \notin PageRows
              PROVE  r \in Passed \cup B
            BY <4>10
          <6>2. r \in L
            BY <3>1
          <6>3. RankIn(rows, asked, r) < First \/ RankIn(rows, asked, r) >= next
            BY <2>3, <4>3, <4>4, <6>2
          <6>4. CASE RankIn(rows, asked, r) < First
            BY <4>2, <6>4 DEF Passed, Under
          <6>5. CASE RankIn(rows, asked, r) >= next
            BY <4>3, <4>4, <6>1, <6>2, <6>5 DEF Slice
          <6> QED BY <6>3, <6>4, <6>5
        <5>5. n = total - leftSince + enteredSince
          BY <2>1, <4>1 DEF Counted, n
        <5> HIDE DEF B
        <5>6. Cardinality(B) <= enteredSince
          BY <2>2, <4>4, <5>1, <5>3, <5>5
        <5>7. Cardinality(Passed \cup B) = Cardinality(Passed) + Cardinality(B) 
                                            - Cardinality(Passed \cap B)
              /\ IsFiniteSet(Passed \cup B)
          BY <4>9, <5>3, FS_Union
        <5>8. Cardinality(Passed \cap B) \in Nat
          BY <4>9, FS_Subset, FS_CardinalityType
        <5>9. Cardinality(Missed') <= Cardinality(Passed \cup B) /\ Cardinality(Missed') \in Nat
              /\ Cardinality(Passed \cup B) \in Nat
          BY <5>4, <5>7, FS_Subset, FS_CardinalityType
        <5> QED BY <2>2, <3>1, <4>1, <4>9, <5>3, <5>6, <5>7, <5>8, <5>9
      <4>13. NothingMissed'
        BY <4>1, <4>11, <4>12 DEF NothingMissed
      <4> QED BY <4>8, <4>13
    <3>4. CASE NextPage
      <4>1. /\ page' = page + 1 /\ size' = size /\ pc = "answered" /\ pc' = "count" /\ GoesOn
            /\ UNCHANGED <<rows, asked, walk, total, shown, seen, repeats, stayed, left, entered>>
        BY <3>4 DEF NextPage, tableVars, pageVars, moveVars
      <4>2. First' = First + Limit /\ Limit' = Limit
            /\ (size \in 1 .. MaxSize => page * size = First + Limit)
        BY <2>2, <3>1, <4>1, NextFirst
      <4>3. Position = First + Limit /\ Position' = First'
        BY <4>1 DEF Position
      <4>4. Passed' = Passed /\ Again' = Again
        BY <4>1, <4>2, <4>3 DEF Passed, Again, Under, AtOrAfter
      <4>5. First' <= MaxInt
        BY <2>2, <2>3, <3>1, <4>1, <4>2, SizeAssumption DEF GoesOn, Counted
      <4>6. NothingMissed'
        BY <4>1 DEF NothingMissed
      <4> QED BY <2>2, <3>1, <4>1, <4>4, <4>5, <4>6 DEF WalkInv
    <3>5. CASE Count \/ Refuse \/ DbFails
      <4>1. /\ pc # "answered" /\ pc' # "answered"
            /\ UNCHANGED <<rows, asked, page, size, walk, shown, seen, repeats, stayed, left,
                           entered>>
        BY <3>5 DEF Count, Refuse, DbFails, tableVars, requestVars, pageVars, moveVars
      <4>2. First' = First /\ Position' = First /\ Position = First
        BY <4>1 DEF First, Position, FirstPage, Limit
      <4>3. Passed' = Passed /\ Again' = Again
        BY <4>1, <4>2 DEF Passed, Again, Under, AtOrAfter
      <4> QED BY <3>1, <4>1, <4>2, <4>3 DEF WalkInv, NothingMissed
    <3>6. CASE UNCHANGED vars
      <4>1. UNCHANGED <<rows, asked, page, size, walk, pc, total, shown, seen, repeats, stayed,
                        left, entered, leftSince, enteredSince>>
        BY <3>6 DEF vars, tableVars, requestVars, pageVars, moveVars
      <4>2. First' = First /\ Position' = Position
        BY <4>1 DEF First, Position, FirstPage, Limit
      <4>3. Passed' = Passed /\ Again' = Again
        BY <4>1, <4>2 DEF Passed, Again, Under, AtOrAfter
      <4>4. NothingMissed'
        BY <4>1 DEF NothingMissed, Missed, GoesOn
      <4> QED BY <3>1, <4>1, <4>2, <4>3, <4>4 DEF WalkInv
    <3> QED BY <3>2, <3>3, <3>4, <3>5, <3>6, Writers DEF Next
  <2> QED BY <2>4, <2>5
<1> QED BY <1>1, <1>2, Typing, AnswerInvHolds, PTL DEF Spec, AnswerInv

(* A reader of the whole list has missed no more of the rows that never      *)
(* moved than have left it (by the total: or entered after the last Count).  *)
THEOREM NoneMissed == Spec => []NothingMissed
<1> QED BY WalkInvHolds, PTL

(* It is shown a row again at most once for each row that has entered.       *)
THEOREM NoneTwice == Spec => []NothingTwice
<1>1. TypeOK /\ WalkInv => NothingTwice
  <2> SUFFICES ASSUME TypeOK, WalkInv, walk # "none" PROVE repeats <= entered
    BY DEF NothingTwice
  <2>1. rows \in Table /\ asked \in Asked /\ repeats \in Nat /\ entered \in Nat
    BY DEF TypeOK, Table, Asked
  <2>2. Again \subseteq ListedIn(rows, asked)
    BY DEF Again, AtOrAfter
  <2>3. Cardinality(Again) \in Nat
    BY <2>1, <2>2, ListedIsFinite, FS_Subset, FS_CardinalityType
  <2> QED BY <2>1, <2>3 DEF WalkInv
<1> QED BY <1>1, Typing, WalkInvHolds, PTL
=============================================================================
