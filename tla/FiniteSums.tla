----------------------------- MODULE FiniteSums -----------------------------
(***************************************************************************)
(* What MapThenSumSet, the sum over a finite set, adds up to.  It is a     *)
(* recursion over subsets that takes an arbitrary element at each step:    *)
(* there is such a recursion, and the sum does not depend on the elements  *)
(* it takes.  And a finite set of numbers has a least and a greatest.      *)
(*                                                                         *)
(* Each induction is by a smallest set that would be a counterexample.     *)
(***************************************************************************)
EXTENDS Integers, FiniteSets, FiniteSetsExt, FiniteSetTheorems, WellFoundedInduction, TLAPS

Sum(f, S) == MapThenSumSet(LAMBDA p : f[p], S)

Any(s) == CHOOSE x \in s : TRUE

(* g is the recursion on the subsets of S.                                 *)
Sums(f, S, g) ==
  g = [s \in SUBSET S |-> IF s = {} THEN 0 ELSE f[Any(s)] + g[s \ {Any(s)}]]

-----------------------------------------------------------------------------
(* A family of finite sets has a member none of whose subsets is another.  *)
LEMMA SmallestSet ==
  ASSUME NEW S, IsFiniteSet(S), NEW F, F \subseteq SUBSET S, F # {}
  PROVE  \E T \in F : \A U \in F : U \subseteq T => U = T
<1>. DEFINE R == StrictSubsetOrdering(S)
<1>1. IsWellFoundedOn(R, FiniteSubsetsOf(S))
  BY FS_StrictSubsetOrderingWellFounded
<1>2. F \subseteq FiniteSubsetsOf(S)
  BY FS_Subset DEF FiniteSubsetsOf
<1>3. PICK T \in F : \A U \in F : <<U, T>> \notin R
  <2>. HIDE DEF R
  <2>. QED BY <1>1, <1>2, WFMin
<1>. QED BY <1>3 DEF StrictSubsetOrdering

LEMMA LeastExists ==
  ASSUME NEW S, IsFiniteSet(S), S # {}, \A x \in S : x \in Int
  PROVE  \E m \in S : \A x \in S : m <= x
<1>. DEFINE Below(m) == {x \in S : x <= m}
            F == {Below(m) : m \in S}
<1>1. F \subseteq SUBSET S /\ F # {}
  OBVIOUS
<1>2. \A x \in S : x \in Int
  OBVIOUS
<1>3. PICK T \in F : \A U \in F : U \subseteq T => U = T
  <2>. HIDE DEF F
  <2>. QED BY <1>1, SmallestSet
<1>4. PICK m \in S : \A n \in S : Below(n) \subseteq Below(m) => Below(n) = Below(m)
  <2>1. PICK m \in S : T = Below(m)
    BY <1>3
  <2>2. \A n \in S : Below(n) \in F
    OBVIOUS
  <2>. HIDE DEF F, Below
  <2>. QED BY <1>3, <2>1, <2>2
<1>5. ASSUME NEW n \in S, ~(m <= n) PROVE FALSE
  <2>1. n < m /\ n \in Int /\ m \in Int
    BY <1>2, <1>5
  <2>2. \A x \in S : x <= n => x <= m
    BY <1>2, <2>1
  <2>3. Below(n) \subseteq Below(m)
    BY <2>2
  <2>4. m \in Below(m) /\ m \notin Below(n)
    BY <2>1
  <2>. QED BY <1>4, <2>3, <2>4
<1>. QED BY <1>5

LEMMA GreatestExists ==
  ASSUME NEW S, IsFiniteSet(S), S # {}, \A x \in S : x \in Int
  PROVE  \E m \in S : \A x \in S : m >= x
<1>. DEFINE Above(m) == {x \in S : x >= m}
            F == {Above(m) : m \in S}
<1>1. F \subseteq SUBSET S /\ F # {}
  OBVIOUS
<1>2. \A x \in S : x \in Int
  OBVIOUS
<1>3. PICK T \in F : \A U \in F : U \subseteq T => U = T
  <2>. HIDE DEF F
  <2>. QED BY <1>1, SmallestSet
<1>4. PICK m \in S : \A n \in S : Above(n) \subseteq Above(m) => Above(n) = Above(m)
  <2>1. PICK m \in S : T = Above(m)
    BY <1>3
  <2>2. \A n \in S : Above(n) \in F
    OBVIOUS
  <2>. HIDE DEF F, Above
  <2>. QED BY <1>3, <2>1, <2>2
<1>5. ASSUME NEW n \in S, ~(m >= n) PROVE FALSE
  <2>1. n > m /\ n \in Int /\ m \in Int
    BY <1>2, <1>5
  <2>2. \A x \in S : x >= n => x >= m
    BY <1>2, <2>1
  <2>3. Above(n) \subseteq Above(m)
    BY <2>2
  <2>4. m \in Above(m) /\ m \notin Above(n)
    BY <2>1
  <2>. QED BY <1>4, <2>3, <2>4
<1>. QED BY <1>5

LEMMA SumUnfolds ==
  ASSUME NEW f, NEW S
  PROVE  Sum(f, S) = (CHOOSE g : Sums(f, S, g))[S]
BY DEF Sum, MapThenSumSet, MapThenFoldSet, Sums, Any

(* Two recursions agree on what they have in common.                       *)
LEMMA SumsAgree ==
  ASSUME NEW f, NEW S, IsFiniteSet(S), NEW T, NEW g, NEW h,
         Sums(f, S, g), Sums(f, T, h)
  PROVE  \A s \in SUBSET S : s \subseteq T => g[s] = h[s]
<1>. DEFINE F == {s \in SUBSET S : s \subseteq T /\ g[s] # h[s]}
<1>1. SUFFICES ASSUME F # {} PROVE FALSE
  OBVIOUS
<1>2. PICK s \in F : \A u \in F : u \subseteq s => u = s
  <2>1. F \subseteq SUBSET S
    OBVIOUS
  <2>. HIDE DEF F
  <2>. QED BY <1>1, <2>1, SmallestSet
<1>3. s # {}
  <2>1. {} \in SUBSET S /\ {} \in SUBSET T
    OBVIOUS
  <2>2. g[{}] = 0 /\ h[{}] = 0
    BY <2>1 DEF Sums
  <2>. QED BY <2>2
<1>. DEFINE x == Any(s)
<1>4. x \in s
  BY <1>3 DEF Any
<1>5. g[s \ {x}] = h[s \ {x}]
  BY <1>2, <1>4
<1>6. g[s] = f[x] + g[s \ {x}]
  BY <1>3 DEF Sums
<1>7. h[s] = f[x] + h[s \ {x}]
  BY <1>3 DEF Sums
<1>. QED BY <1>5, <1>6, <1>7

(* There is a recursion on the subsets of a finite set.                    *)
LEMMA SumsExist ==
  ASSUME NEW f, NEW S, IsFiniteSet(S)
  PROVE  \E g : Sums(f, S, g)
<1>. DEFINE F == {T \in SUBSET S : ~ \E g : Sums(f, T, g)}
<1>1. SUFFICES ASSUME F # {} PROVE FALSE
  OBVIOUS
<1>2. PICK T \in F : \A u \in F : u \subseteq T => u = T
  <2>1. F \subseteq SUBSET S
    OBVIOUS
  <2>. HIDE DEF F
  <2>. QED BY <1>1, <2>1, SmallestSet
<1>. DEFINE G(s) == CHOOSE g : Sums(f, s, g)
            V(s) == IF s = {} THEN 0 ELSE f[Any(s)] + G(s \ {Any(s)})[s \ {Any(s)}]
            v == [s \in SUBSET T |-> V(s)]
<1>3. ASSUME NEW s \in SUBSET T, s # T
      PROVE  Sums(f, s, G(s))
  <2>1. s \in SUBSET S /\ s \notin F
    BY <1>2, <1>3
  <2>2. \E g : Sums(f, s, g)
    BY <2>1
  <2>. HIDE DEF F
  <2>. QED BY <2>2
<1>4. ASSUME NEW s \in SUBSET T, s # T
      PROVE  G(s)[s] = V(s)
  <2>1. Sums(f, s, G(s))
    BY <1>3, <1>4
  <2>. HIDE DEF G
  <2>2. CASE s = {}
    BY <2>1, <2>2 DEF Sums
  <2>3. CASE s # {}
    <3>. DEFINE u == s \ {Any(s)}
    <3>1. u \in SUBSET s /\ u \in SUBSET T /\ u # T /\ s \in SUBSET s
      BY <2>3, <1>4 DEF Any
    <3>2. Sums(f, u, G(u))
      BY <3>1, <1>3
    <3>3. IsFiniteSet(s)
      <4>1. s \in SUBSET S
        OBVIOUS
      <4>. QED BY <4>1, FS_Subset
    <3>4. G(s)[u] = G(u)[u]
      <4>. HIDE DEF u
      <4>. QED BY <2>1, <3>1, <3>2, <3>3, SumsAgree
    <3>5. G(s)[s] = f[Any(s)] + G(s)[u]
      BY <2>1, <2>3, <3>1 DEF Sums
    <3>. QED BY <3>4, <3>5, <2>3
  <2>. QED BY <2>2, <2>3
<1>5. Sums(f, T, v)
  <2>. HIDE DEF G
  <2>1. ASSUME NEW s \in SUBSET T, s # {}
        PROVE  V(s) = f[Any(s)] + v[s \ {Any(s)}]
    <3>1. s \ {Any(s)} \in SUBSET T /\ s \ {Any(s)} # T
      BY <2>1 DEF Any
    <3>2. v[s \ {Any(s)}] = V(s \ {Any(s)})
      BY <3>1
    <3>3. V(s) = f[Any(s)] + G(s \ {Any(s)})[s \ {Any(s)}]
      BY <2>1
    <3>. HIDE DEF V, v
    <3>. QED BY <3>1, <3>2, <3>3, <1>4
  <2>2. \A s \in SUBSET T : V(s) = IF s = {} THEN 0 ELSE f[Any(s)] + v[s \ {Any(s)}]
    BY <2>1
  <2>. HIDE DEF V
  <2>. QED BY <2>2 DEF Sums
<1>6. \E g : Sums(f, T, g)
  <2>. HIDE DEF v
  <2>. QED BY <1>5
<1>. QED BY <1>6, <1>2

LEMMA SumRecursion ==
  ASSUME NEW f, NEW S, IsFiniteSet(S)
  PROVE  Sum(f, S) = IF S = {} THEN 0 ELSE f[Any(S)] + Sum(f, S \ {Any(S)})
<1>. DEFINE G(s) == CHOOSE g : Sums(f, s, g)
            u == S \ {Any(S)}
<1>1. Sums(f, S, G(S))
  BY SumsExist
<1>2. Sum(f, S) = G(S)[S]
  BY SumUnfolds
<1>3. IsFiniteSet(u) /\ u \in SUBSET S /\ S \in SUBSET S /\ u \in SUBSET u
  BY FS_RemoveElement
<1>. HIDE DEF u
<1>4. Sums(f, u, G(u))
  BY <1>3, SumsExist
<1>5. Sum(f, u) = G(u)[u]
  BY SumUnfolds
<1>. HIDE DEF G
<1>6. G(S)[u] = G(u)[u]
  BY <1>1, <1>3, <1>4, SumsAgree
<1>7. G(S)[S] = IF S = {} THEN 0 ELSE f[Any(S)] + G(S)[u]
  BY <1>1, <1>3 DEF Sums, u
<1>. QED BY <1>2, <1>5, <1>6, <1>7 DEF u

-----------------------------------------------------------------------------
LEMMA SumOfNone == \A f : Sum(f, {}) = 0
BY SumRecursion, FS_EmptySet

LEMMA SumType ==
  ASSUME NEW S, IsFiniteSet(S), NEW f, \A x \in S : f[x] \in Nat
  PROVE  Sum(f, S) \in Nat
<1>. DEFINE F == {s \in SUBSET S : Sum(f, s) \notin Nat}
<1>1. SUFFICES ASSUME F # {} PROVE FALSE
  OBVIOUS
<1>2. PICK s \in F : \A u \in F : u \subseteq s => u = s
  <2>1. F \subseteq SUBSET S
    OBVIOUS
  <2>. HIDE DEF F
  <2>. QED BY <1>1, <2>1, SmallestSet
<1>3. s # {} /\ IsFiniteSet(s)
  <2>1. s \in SUBSET S /\ Sum(f, s) \notin Nat
    OBVIOUS
  <2>. HIDE DEF F
  <2>2. s # {}
    BY <2>1, SumOfNone
  <2>. QED BY <2>1, <2>2, FS_Subset
<1>. DEFINE u == s \ {Any(s)}
<1>4. Any(s) \in s /\ Sum(f, s) = f[Any(s)] + Sum(f, u)
  BY <1>3, SumRecursion DEF Any
<1>5. Sum(f, u) \in Nat
  BY <1>2, <1>4
<1>. QED BY <1>4, <1>5

(* Any element may be taken first.                                         *)
LEMMA SumWithout ==
  ASSUME NEW S, IsFiniteSet(S), NEW f, \A x \in S : f[x] \in Nat
  PROVE  \A x \in S : Sum(f, S) = f[x] + Sum(f, S \ {x})
<1>. DEFINE F == {s \in SUBSET S : \E x \in s : Sum(f, s) # f[x] + Sum(f, s \ {x})}
<1>1. SUFFICES ASSUME F # {} PROVE FALSE
  OBVIOUS
<1>2. PICK s \in F : \A u \in F : u \subseteq s => u = s
  <2>1. F \subseteq SUBSET S
    OBVIOUS
  <2>. HIDE DEF F
  <2>. QED BY <1>1, <2>1, SmallestSet
<1>3. PICK x \in s : Sum(f, s) # f[x] + Sum(f, s \ {x})
  OBVIOUS
<1>. DEFINE y == Any(s)
            sx == s \ {x}
            sy == s \ {y}
            sxy == s \ {x, y}
<1>4. IsFiniteSet(s) /\ IsFiniteSet(sx) /\ IsFiniteSet(sy) /\ IsFiniteSet(sxy)
  BY FS_Subset, FS_Difference
<1>5. y \in s
  BY <1>3 DEF Any
<1>6. Sum(f, s) = f[y] + Sum(f, sy)
  BY <1>3, <1>4, SumRecursion
<1>7. x # y
  BY <1>3, <1>6
<1>8. sx \notin F /\ sy \notin F
  BY <1>2, <1>5
<1>9. sx \in SUBSET S /\ sy \in SUBSET S /\ y \in sx /\ x \in sy /\ sx \ {y} = sxy /\ sy \ {x} = sxy
  BY <1>5, <1>7
<1>10. Sum(f, sy) = f[x] + Sum(f, sxy)
  BY <1>8, <1>9
<1>11. Sum(f, sx) = f[y] + Sum(f, sxy)
  BY <1>8, <1>9
<1>12. Sum(f, sxy) \in Nat
  BY <1>4, SumType
<1>13. f[x] \in Nat /\ f[y] \in Nat
  BY <1>5
<1>. HIDE DEF y, sx, sy, sxy
<1>. QED BY <1>3, <1>6, <1>10, <1>11, <1>12, <1>13 DEF sx

LEMMA SumWith ==
  ASSUME NEW S, IsFiniteSet(S), NEW x, x \notin S, NEW f, \A y \in S \cup {x} : f[y] \in Nat
  PROVE  Sum(f, S \cup {x}) = Sum(f, S) + f[x]
<1>. DEFINE T == S \cup {x}
<1>1. IsFiniteSet(T) /\ x \in T /\ T \ {x} = S
  BY FS_AddElement
<1>2. Sum(f, T) = f[x] + Sum(f, T \ {x})
  <2>. HIDE DEF T
  <2>. QED BY <1>1, SumWithout DEF T
<1>3. Sum(f, S) \in Nat /\ f[x] \in Nat
  BY SumType
<1>. QED BY <1>1, <1>2, <1>3

(* Of disjoint sets the sums add up.                                       *)
LEMMA SumOfBoth ==
  ASSUME NEW S, IsFiniteSet(S), NEW f, \A x \in S : f[x] \in Nat,
         NEW P, P \subseteq S
  PROVE  Sum(f, S) = Sum(f, P) + Sum(f, S \ P)
<1>. DEFINE F == {p \in SUBSET S : Sum(f, S) # Sum(f, p) + Sum(f, S \ p)}
<1>1. SUFFICES ASSUME F # {} PROVE FALSE
  OBVIOUS
<1>2. PICK p \in F : \A u \in F : u \subseteq p => u = p
  <2>1. F \subseteq SUBSET S
    OBVIOUS
  <2>. HIDE DEF F
  <2>. QED BY <1>1, <2>1, SmallestSet
<1>3. p \in SUBSET S /\ Sum(f, S) # Sum(f, p) + Sum(f, S \ p)
  OBVIOUS
<1>4. Sum(f, S) \in Nat
  BY SumType
<1>5. p # {}
  <2>1. Sum(f, {}) = 0 /\ S \ {} = S
    BY SumOfNone
  <2>. HIDE DEF F
  <2>. QED BY <2>1, <1>3, <1>4
<1>6. PICK x \in p : TRUE
  BY <1>5
<1>. DEFINE q == p \ {x}
            r == S \ p
<1>7. IsFiniteSet(p) /\ IsFiniteSet(q) /\ IsFiniteSet(r) /\ S \ q = r \cup {x} /\ x \notin r
      /\ q \in SUBSET S /\ q \notin F /\ x \in S /\ r \cup {x} \subseteq S
  <2>1. IsFiniteSet(r) /\ IsFiniteSet(p)
    <3>. HIDE DEF F
    <3>. QED BY <1>3, FS_Subset, FS_Difference
  <2>2. IsFiniteSet(q)
    <3>. HIDE DEF F
    <3>. QED BY <2>1, FS_RemoveElement
  <2>3. q \in SUBSET S /\ q \notin F
    BY <1>2, <1>6
  <2>4. S \ q = r \cup {x} /\ x \notin r /\ x \in S
    BY <1>3, <1>6
  <2>. QED BY <2>1, <2>2, <2>3, <2>4
<1>8. Sum(f, S) = Sum(f, q) + Sum(f, r \cup {x})
  BY <1>7
<1>. HIDE DEF F, q, r
<1>9. Sum(f, r \cup {x}) = Sum(f, r) + f[x]
  BY <1>7, SumWith
<1>10. Sum(f, p) = f[x] + Sum(f, q)
  BY <1>3, <1>6, <1>7, SumWithout DEF q
<1>11. Sum(f, q) \in Nat /\ Sum(f, r) \in Nat /\ f[x] \in Nat
  BY <1>3, <1>7, SumType DEF q, r
<1>. QED BY <1>3, <1>8, <1>9, <1>10, <1>11 DEF r

LEMMA SumIsMonotone ==
  ASSUME NEW S, IsFiniteSet(S), NEW f, \A x \in S : f[x] \in Nat,
         NEW P, P \subseteq S
  PROVE  Sum(f, P) <= Sum(f, S)
<1>1. Sum(f, S) = Sum(f, P) + Sum(f, S \ P)
  BY SumOfBoth
<1>2. IsFiniteSet(P) /\ IsFiniteSet(S \ P)
  BY FS_Subset, FS_Difference
<1>3. Sum(f, P) \in Nat /\ Sum(f, S \ P) \in Nat
  BY <1>2, SumType
<1>. QED BY <1>1, <1>3
=============================================================================
