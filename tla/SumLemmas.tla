----------------------------- MODULE SumLemmas -----------------------------
(***************************************************************************)
(* Sums over finite sets.  MapThenSumSet of the community modules computes *)
(* a sum by a recursive function over the subsets, taking elements off in  *)
(* an order that CHOOSE gives; here it is shown to be what one expects: a  *)
(* number that does not depend on the order and grows by an element's      *)
(* amount when the element is added.                                       *)
(*                                                                         *)
(* The proofs by induction look for the smallest counterexample.           *)
(***************************************************************************)
EXTENDS Integers, FiniteSets, FiniteSetsExt, FiniteSetTheorems, WellFoundedInduction, TLAPS

LEMMA LeastNatural ==
  ASSUME NEW S, S \subseteq Nat, S # {}
  PROVE  \E n \in S : \A m \in S : n <= m
<1> DEFINE R == OpToRel(<, Nat)
<1>1. IsWellFoundedOn(R, Nat)
  BY NatLessThanWellFounded
<1>2. \A x, y \in Nat : <<x, y>> \in R <=> x < y
  BY DEF OpToRel
<1> HIDE DEF R
<1>3. \E x \in S : \A y \in S : ~ (<<y, x>> \in R)
  BY <1>1, WFMin
<1>4. PICK n \in S : \A m \in S : ~ (<<m, n>> \in R)
  BY <1>3
<1>5. ASSUME NEW m \in S PROVE n <= m
  <2>1. m \in Nat /\ n \in Nat
    OBVIOUS
  <2>2. ~ (m < n)
    BY <2>1, <1>2, <1>4
  <2>3. QED
    BY <2>1, <2>2
<1>6. QED
  BY <1>5

LEMMA GreatestNatural ==
  ASSUME NEW n \in Nat, NEW S, S \subseteq 0..n, S # {}
  PROVE  \E x \in S : \A y \in S : y <= x
<1> DEFINE T == {n - x : x \in S}
<1>0. ASSUME NEW x \in S PROVE n - x \in Nat
  <2>1. x \in 0..n
    OBVIOUS
  <2>2. QED
    BY <2>1
<1>1. T \subseteq Nat /\ T # {}
  BY <1>0
<1>2. PICK m \in T : \A k \in T : m <= k
  BY <1>1, LeastNatural
<1>3. PICK x \in S : m = n - x
  OBVIOUS
<1>4. \A y \in S : y <= x
  BY <1>2, <1>3
<1>5. QED
  BY <1>4

\* Of some finite sets one is a smallest: what holds of a set when it holds of the
\* smaller ones holds of all.
LEMMA SmallestSet ==
  ASSUME NEW C, C # {}, \A t \in C : IsFiniteSet(t)
  PROVE  \E t \in C : \A u \in C : Cardinality(t) <= Cardinality(u)
<1> DEFINE Sizes == {Cardinality(t) : t \in C}
<1>1. Sizes \subseteq Nat /\ Sizes # {}
  BY FS_CardinalityType
<1>2. PICK n \in Sizes : \A m \in Sizes : n <= m
  <2> HIDE DEF Sizes
  <2>1. QED
    BY <1>1, LeastNatural
<1>3. QED
  BY <1>2

LEMMA OneLess ==
  ASSUME NEW t, IsFiniteSet(t), NEW x \in t
  PROVE  /\ IsFiniteSet(t \ {x}) /\ Cardinality(t \ {x}) \in Nat
         /\ Cardinality(t) = Cardinality(t \ {x}) + 1
<1>1. IsFiniteSet(t \ {x}) /\ Cardinality(t \ {x}) = Cardinality(t) - 1
  BY FS_RemoveElement
<1>2. Cardinality(t) \in Nat /\ Cardinality(t \ {x}) \in Nat
  BY <1>1, FS_CardinalityType
<1>3. QED
  BY <1>1, <1>2

----------------------------------------------------------------------------
Some(s) == CHOOSE x \in s : TRUE

LEMMA SomeIsIn == \A s : s # {} => Some(s) \in s
  BY DEF Some

\* "it" computes the sum of F over each subset of S.
Sums(it, F, S) ==
  it = [s \in SUBSET S |-> IF s = {} THEN 0 ELSE F[Some(s)] + it[s \ {Some(s)}]]

\* The sum of F over S.
SumOf(F, S) == CHOOSE v : \E it : Sums(it, F, S) /\ v = it[S]

\* Two computations agree on the finite sets that both know.
LEMMA SumsAgree ==
  ASSUME NEW F, NEW S, NEW T, NEW f, NEW g, Sums(f, F, S), Sums(g, F, T),
         NEW s, s \subseteq S, s \subseteq T, IsFiniteSet(s)
  PROVE  f[s] = g[s]
<1> DEFINE Apart == {t \in SUBSET s : f[t] # g[t]}
<1>1. SUFFICES ASSUME Apart # {} PROVE FALSE
  OBVIOUS
<1>2. PICK t \in Apart : \A u \in Apart : Cardinality(t) <= Cardinality(u)
  <2>1. \A t \in Apart : IsFiniteSet(t)
    BY FS_Subset
  <2> HIDE DEF Apart
  <2>2. QED
    BY <1>1, <2>1, SmallestSet
<1>3. /\ f[t] = IF t = {} THEN 0 ELSE F[Some(t)] + f[t \ {Some(t)}]
      /\ g[t] = IF t = {} THEN 0 ELSE F[Some(t)] + g[t \ {Some(t)}]
  BY DEF Sums
<1>4. t # {} /\ Some(t) \in t /\ IsFiniteSet(t)
  BY <1>3, SomeIsIn, FS_Subset
<1>5. t \ {Some(t)} \in Apart
  BY <1>3
<1>6. Cardinality(t) <= Cardinality(t \ {Some(t)})
  BY <1>2, <1>5
<1>7. QED
  BY <1>4, <1>6, OneLess

\* The sum of a finite set is computed, one element after another.
LEMMA SumIsComputed ==
  ASSUME NEW F, NEW S, IsFiniteSet(S)
  PROVE  \E it : Sums(it, F, S)
<1> DEFINE Without == {t \in SUBSET S : ~ \E it : Sums(it, F, t)}
<1>1. SUFFICES ASSUME Without # {} PROVE FALSE
  OBVIOUS
<1>2. PICK t \in Without : \A u \in Without : Cardinality(t) <= Cardinality(u)
  <2>1. \A t \in Without : IsFiniteSet(t)
    BY FS_Subset
  <2> HIDE DEF Without
  <2>2. QED
    BY <1>1, <2>1, SmallestSet
<1>3. IsFiniteSet(t)
  BY FS_Subset
<1>4. ASSUME NEW s \in SUBSET t, s # {}
      PROVE  /\ IsFiniteSet(s \ {Some(s)}) /\ s \ {Some(s)} \subseteq t
             /\ \E it : Sums(it, F, s \ {Some(s)})
  <2> DEFINE u == s \ {Some(s)}
  <2>1. IsFiniteSet(s) /\ Cardinality(s) <= Cardinality(t) /\ Some(s) \in s
    BY <1>3, <1>4, FS_Subset, SomeIsIn
  <2>2. IsFiniteSet(u) /\ Cardinality(u) \in Nat /\ Cardinality(s) = Cardinality(u) + 1
    BY <2>1, OneLess
  <2>3. Cardinality(t) \in Nat
    BY <1>3, FS_CardinalityType
  <2>4. ~ (Cardinality(t) <= Cardinality(u))
    <3> HIDE DEF u
    <3>1. QED
      BY <2>1, <2>2, <2>3
  <2>5. u \notin Without
    BY <1>2, <2>4
  <2>6. QED
    BY <2>2, <2>5
<1>5. ASSUME NEW u, \E it : Sums(it, F, u)
      PROVE  \E it : Sums(it, F, u) /\ SumOf(F, u) = it[u]
  <2>1. \E v : \E it : Sums(it, F, u) /\ v = it[u]
    BY <1>5
  <2>2. QED
    BY <2>1 DEF SumOf
<1> DEFINE it == [s \in SUBSET t |-> IF s = {} THEN 0 ELSE F[Some(s)] + SumOf(F, s \ {Some(s)})]
<1>6. ASSUME NEW s \in SUBSET t, s # {} PROVE it[s \ {Some(s)}] = SumOf(F, s \ {Some(s)})
  <2> DEFINE u == s \ {Some(s)}
  <2>1. u \in SUBSET t
    BY <1>4
  <2>2. PICK f : Sums(f, F, u) /\ SumOf(F, u) = f[u]
    BY <1>4, <1>5, <1>6
  <2> HIDE DEF u
  <2>3. f[u] = IF u = {} THEN 0 ELSE F[Some(u)] + f[u \ {Some(u)}]
    BY <2>2 DEF Sums
  <2>4. it[u] = IF u = {} THEN 0 ELSE F[Some(u)] + SumOf(F, u \ {Some(u)})
    BY <2>1
  <2>5. ASSUME u # {} PROVE f[u \ {Some(u)}] = SumOf(F, u \ {Some(u)})
    <3>1. PICK g : Sums(g, F, u \ {Some(u)}) /\ SumOf(F, u \ {Some(u)}) = g[u \ {Some(u)}]
      BY <1>4, <1>5, <2>1, <2>5
    <3>2. IsFiniteSet(u \ {Some(u)})
      BY <1>4, <2>1, <2>5
    <3>3. QED
      BY <2>2, <3>1, <3>2, SumsAgree
  <2>6. QED
    BY <2>2, <2>3, <2>4, <2>5 DEF u
<1>7. Sums(it, F, t)
  BY <1>6 DEF Sums
<1>8. QED
  BY <1>2, <1>7

\* Whatever computes a sum computes this one.
LEMMA SumIsAny ==
  ASSUME NEW F, NEW S, IsFiniteSet(S), NEW it, Sums(it, F, S)
  PROVE  SumOf(F, S) = it[S]
<1>1. \E v : \E f : Sums(f, F, S) /\ v = f[S]
  OBVIOUS
<1>2. PICK f : Sums(f, F, S) /\ SumOf(F, S) = f[S]
  BY <1>1 DEF SumOf
<1>3. f[S] = it[S]
  <2>1. S \subseteq S
    OBVIOUS
  <2>2. QED
    BY <1>2, <2>1, SumsAgree
<1>4. QED
  BY <1>2, <1>3

LEMMA SumUnfolds ==
  ASSUME NEW F, NEW S, IsFiniteSet(S)
  PROVE  SumOf(F, S) = IF S = {} THEN 0 ELSE F[Some(S)] + SumOf(F, S \ {Some(S)})
<1>1. PICK f : Sums(f, F, S)
  BY SumIsComputed
<1>2. SumOf(F, S) = f[S] /\ f[S] = IF S = {} THEN 0 ELSE F[Some(S)] + f[S \ {Some(S)}]
  <2>1. SumOf(F, S) = f[S]
    BY <1>1, SumIsAny
  <2>2. QED
    BY <1>1, <2>1 DEF Sums
<1>3. ASSUME S # {} PROVE f[S \ {Some(S)}] = SumOf(F, S \ {Some(S)})
  <2> DEFINE u == S \ {Some(S)}
  <2>1. IsFiniteSet(u) /\ u \subseteq S
    BY FS_RemoveElement
  <2> HIDE DEF u
  <2>2. PICK g : Sums(g, F, u)
    BY <2>1, SumIsComputed
  <2>3. SumOf(F, u) = g[u] /\ f[u] = g[u]
    BY <1>1, <2>1, <2>2, SumIsAny, SumsAgree
  <2>4. QED
    BY <2>3 DEF u
<1>4. QED
  BY <1>2, <1>3

LEMMA SumEmpty == ASSUME NEW F PROVE SumOf(F, {}) = 0
  BY SumUnfolds, FS_EmptySet

\* Sums of natural numbers are natural numbers.
LEMMA SumIsNat ==
  ASSUME NEW F, NEW S, IsFiniteSet(S), \A x \in S : F[x] \in Nat
  PROVE  SumOf(F, S) \in Nat
<1> DEFINE Other == {t \in SUBSET S : SumOf(F, t) \notin Nat}
<1>1. SUFFICES ASSUME Other # {} PROVE FALSE
  OBVIOUS
<1>2. PICK t \in Other : \A u \in Other : Cardinality(t) <= Cardinality(u)
  <2>1. \A t \in Other : IsFiniteSet(t)
    BY FS_Subset
  <2> HIDE DEF Other
  <2>2. QED
    BY <1>1, <2>1, SmallestSet
<1>3. IsFiniteSet(t) /\ t \subseteq S /\ SumOf(F, t) \notin Nat
  BY FS_Subset
<1>4. t # {} /\ Some(t) \in t
  BY <1>3, SumEmpty, SomeIsIn
<1>5. SumOf(F, t) = F[Some(t)] + SumOf(F, t \ {Some(t)}) /\ F[Some(t)] \in Nat
  BY <1>3, <1>4, SumUnfolds
<1>6. t \ {Some(t)} \in Other
  BY <1>3, <1>5
<1>7. Cardinality(t) <= Cardinality(t \ {Some(t)})
  BY <1>2, <1>6
<1>8. QED
  BY <1>3, <1>4, <1>7, OneLess

\* Any element can be the one that is taken off.
LEMMA SumRemoves ==
  ASSUME NEW F, NEW S, IsFiniteSet(S), \A x \in S : F[x] \in Nat
  PROVE  \A e \in S : SumOf(F, S) = F[e] + SumOf(F, S \ {e})
<1> DEFINE Other == {t \in SUBSET S : \E e \in t : SumOf(F, t) # F[e] + SumOf(F, t \ {e})}
<1>1. SUFFICES ASSUME Other # {} PROVE FALSE
  OBVIOUS
<1>2. PICK t \in Other : \A u \in Other : Cardinality(t) <= Cardinality(u)
  <2>1. \A t \in Other : IsFiniteSet(t)
    BY FS_Subset
  <2> HIDE DEF Other
  <2>2. QED
    BY <1>1, <2>1, SmallestSet
<1>3. PICK e \in t : SumOf(F, t) # F[e] + SumOf(F, t \ {e})
  OBVIOUS
<1> DEFINE x == Some(t)
           both == (t \ {x}) \ {e}
<1>4. IsFiniteSet(t) /\ t \subseteq S
  BY FS_Subset
<1>5. x \in t /\ SumOf(F, t) = F[x] + SumOf(F, t \ {x})
  BY <1>4, SomeIsIn, SumUnfolds
<1> HIDE DEF x
<1>6. x # e
  BY <1>3, <1>5
<1>7. ASSUME NEW a \in t, NEW b \in t \ {a}
      PROVE  SumOf(F, t \ {a}) = F[b] + SumOf(F, (t \ {a}) \ {b})
  <2>1. Cardinality(t \ {a}) \in Nat /\ Cardinality(t) = Cardinality(t \ {a}) + 1
    BY <1>4, OneLess
  <2>2. ~ (Cardinality(t) <= Cardinality(t \ {a}))
    BY <2>1
  <2>3. t \ {a} \notin Other
    BY <1>2, <2>2
  <2>4. QED
    BY <1>4, <2>3
<1>8. SumOf(F, t \ {x}) = F[e] + SumOf(F, both)
  BY <1>5, <1>6, <1>7
<1>9. SumOf(F, t \ {e}) = F[x] + SumOf(F, both)
  <2>1. (t \ {e}) \ {x} = both
    OBVIOUS
  <2>2. QED
    BY <1>5, <1>6, <1>7, <2>1
<1>10. F[x] \in Nat /\ F[e] \in Nat /\ SumOf(F, both) \in Nat
  <2>1. IsFiniteSet(both) /\ both \subseteq S
    BY <1>4, FS_Subset
  <2> HIDE DEF both
  <2>2. SumOf(F, both) \in Nat
    BY <2>1, SumIsNat
  <2>3. QED
    BY <1>4, <1>5, <2>2
<1>11. QED
  BY <1>3, <1>5, <1>8, <1>9, <1>10

\* An element that is added adds its amount.
LEMMA SumAdds ==
  ASSUME NEW F, NEW S, IsFiniteSet(S), NEW e, e \notin S,
         \A x \in S \cup {e} : F[x] \in Nat
  PROVE  SumOf(F, S \cup {e}) = SumOf(F, S) + F[e]
<1>1. IsFiniteSet(S \cup {e}) /\ (S \cup {e}) \ {e} = S
  BY FS_AddElement
<1>2. SumOf(F, S \cup {e}) = F[e] + SumOf(F, (S \cup {e}) \ {e})
  <2>1. e \in S \cup {e}
    OBVIOUS
  <2> DEFINE T == S \cup {e}
  <2>2. IsFiniteSet(T) /\ e \in T /\ \A x \in T : F[x] \in Nat
    BY <1>1
  <2> HIDE DEF T
  <2>3. SumOf(F, T) = F[e] + SumOf(F, T \ {e})
    BY <2>2, SumRemoves
  <2>4. QED
    BY <2>3 DEF T
<1>3. SumOf(F, S) \in Nat /\ F[e] \in Nat
  BY SumIsNat
<1>4. QED
  BY <1>1, <1>2, <1>3

\* Only the amounts of the elements matter.
LEMMA SumIsOfAmounts ==
  ASSUME NEW F, NEW G, NEW S, IsFiniteSet(S), \A x \in S : F[x] = G[x]
  PROVE  SumOf(F, S) = SumOf(G, S)
<1>1. PICK f : Sums(f, F, S)
  BY SumIsComputed
<1>2. \A s \in SUBSET S : s # {} => F[Some(s)] = G[Some(s)]
  BY SomeIsIn
<1>3. Sums(f, G, S)
  BY <1>1, <1>2 DEF Sums
<1>4. QED
  BY <1>1, <1>3, SumIsAny

\* What MapThenSumSet computes is the sum.
LEMMA MapThenSumSetSums ==
  ASSUME NEW F, NEW S, IsFiniteSet(S)
  PROVE  MapThenSumSet(LAMBDA x : F[x], S) = SumOf(F, S)
<1>1. MapThenSumSet(LAMBDA x : F[x], S) = (CHOOSE it : Sums(it, F, S))[S]
  BY DEF MapThenSumSet, MapThenFoldSet, Sums, Some
<1>2. Sums(CHOOSE it : Sums(it, F, S), F, S)
  BY SumIsComputed
<1>3. QED
  BY <1>1, <1>2, SumIsAny

\* Sums of amounts that are sums.
LEMMA SumOfSums ==
  ASSUME NEW F, NEW G, NEW H, NEW S, IsFiniteSet(S),
         \A x \in S : F[x] \in Nat /\ G[x] \in Nat /\ H[x] = F[x] + G[x]
  PROVE  SumOf(H, S) = SumOf(F, S) + SumOf(G, S)
<1> DEFINE Other == {t \in SUBSET S : SumOf(H, t) # SumOf(F, t) + SumOf(G, t)}
<1>1. SUFFICES ASSUME Other # {} PROVE FALSE
  OBVIOUS
<1>2. PICK t \in Other : \A u \in Other : Cardinality(t) <= Cardinality(u)
  <2>1. \A t \in Other : IsFiniteSet(t)
    BY FS_Subset
  <2> HIDE DEF Other
  <2>2. QED
    BY <1>1, <2>1, SmallestSet
<1>3. IsFiniteSet(t) /\ t \subseteq S /\ SumOf(H, t) # SumOf(F, t) + SumOf(G, t)
  BY FS_Subset
<1>4. PICK e : e \in t
  BY <1>3, SumEmpty
<1> DEFINE u == t \ {e}
<1>5. IsFiniteSet(u) /\ u \subseteq S /\ ~ (Cardinality(t) <= Cardinality(u))
  <2>1. /\ IsFiniteSet(u) /\ Cardinality(u) \in Nat
        /\ Cardinality(t) = Cardinality(u) + 1
    BY <1>3, <1>4, OneLess
  <2>2. u \subseteq S
    BY <1>3
  <2> HIDE DEF u
  <2>3. QED
    BY <2>1, <2>2
<1>6. SumOf(H, u) = SumOf(F, u) + SumOf(G, u)
  BY <1>2, <1>5
<1>7. \A x \in t : F[x] \in Nat /\ G[x] \in Nat /\ H[x] \in Nat
  BY <1>3
<1>8. /\ SumOf(F, t) = F[e] + SumOf(F, u) /\ SumOf(G, t) = G[e] + SumOf(G, u)
      /\ SumOf(H, t) = H[e] + SumOf(H, u)
  BY <1>3, <1>4, <1>7, SumRemoves
<1>9. SumOf(F, u) \in Nat /\ SumOf(G, u) \in Nat
  <2>1. \A x \in u : F[x] \in Nat /\ G[x] \in Nat
    BY <1>7
  <2> HIDE DEF u
  <2>2. QED
    BY <1>5, <2>1, SumIsNat
<1> HIDE DEF u
<1>10. H[e] = F[e] + G[e] /\ F[e] \in Nat /\ G[e] \in Nat
  BY <1>3, <1>4
<1>11. QED
  BY <1>3, <1>6, <1>8, <1>9, <1>10

LEMMA ImageIsFinite ==
  ASSUME NEW S, IsFiniteSet(S), NEW m
  PROVE  IsFiniteSet({m[x] : x \in S})
<1> DEFINE f == [x \in S |-> m[x]]
<1>1. f \in Surjection(S, {m[x] : x \in S})
  BY DEF Surjection
<1>2. QED
  BY <1>1, FS_Surjection

\* Elements that are renamed keep their amounts, and their sum.
LEMMA SumOfImage ==
  ASSUME NEW F, NEW G, NEW S, IsFiniteSet(S), NEW m,
         \A x, y \in S : m[x] = m[y] => x = y,
         \A x \in S : G[x] \in Nat /\ F[m[x]] = G[x]
  PROVE  SumOf(F, {m[x] : x \in S}) = SumOf(G, S)
<1> DEFINE Image(t) == {m[x] : x \in t}
           Other == {t \in SUBSET S : SumOf(F, Image(t)) # SumOf(G, t)}
<1>1. SUFFICES ASSUME Other # {} PROVE FALSE
  OBVIOUS
<1>2. PICK t \in Other : \A u \in Other : Cardinality(t) <= Cardinality(u)
  <2>1. \A t \in Other : IsFiniteSet(t)
    BY FS_Subset
  <2> HIDE DEF Other
  <2>2. QED
    BY <1>1, <2>1, SmallestSet
<1>3. IsFiniteSet(t) /\ t \subseteq S /\ SumOf(F, Image(t)) # SumOf(G, t)
  BY FS_Subset
<1>4. PICK e : e \in t
  <2>1. Image({}) = {}
    OBVIOUS
  <2>2. QED
    BY <1>3, <2>1, SumEmpty
<1> DEFINE u == t \ {e}
<1>5. IsFiniteSet(u) /\ u \subseteq S /\ ~ (Cardinality(t) <= Cardinality(u))
  <2>1. /\ IsFiniteSet(u) /\ Cardinality(u) \in Nat
        /\ Cardinality(t) = Cardinality(u) + 1
    BY <1>3, <1>4, OneLess
  <2>2. u \subseteq S
    BY <1>3
  <2> HIDE DEF u
  <2>3. QED
    BY <2>1, <2>2
<1>6. SumOf(F, Image(u)) = SumOf(G, u)
  BY <1>2, <1>5
<1>7. SumOf(G, t) = G[e] + SumOf(G, u) /\ SumOf(G, u) \in Nat
  <2>1. \A x \in t : G[x] \in Nat
    BY <1>3
  <2>2. \A x \in u : G[x] \in Nat
    BY <2>1
  <2>3. SumOf(G, u) \in Nat
    <3> HIDE DEF u
    <3>1. QED
      BY <1>5, <2>2, SumIsNat
  <2>4. QED
    BY <1>3, <1>4, <2>1, <2>3, SumRemoves
<1>8. SumOf(F, Image(t)) = SumOf(F, Image(u)) + F[m[e]]
  <2>1. Image(t) = Image(u) \cup {m[e]} /\ m[e] \notin Image(u)
    BY <1>3, <1>4
  <2>2. IsFiniteSet(Image(u))
    BY <1>5, ImageIsFinite
  <2>3. \A v \in Image(u) \cup {m[e]} : F[v] \in Nat
    BY <1>3, <1>4
  <2> DEFINE I == Image(u)
             n == m[e]
  <2>4. /\ Image(t) = I \cup {n} /\ n \notin I /\ IsFiniteSet(I)
        /\ \A v \in I \cup {n} : F[v] \in Nat
    BY <2>1, <2>2, <2>3
  <2>5. SumOf(F, I \cup {n}) = SumOf(F, I) + F[n]
    <3> HIDE DEF I, n
    <3>1. QED
      BY <2>4, SumAdds
  <2>6. QED
    BY <2>4, <2>5
<1>9. F[m[e]] = G[e] /\ G[e] \in Nat
  BY <1>3, <1>4
<1> HIDE DEF Image, u
<1>10. QED
  BY <1>3, <1>6, <1>7, <1>8, <1>9

\* The elements of a set are counted kind by kind: k[x] is the kind of x, and C counts
\* the elements of a kind.
LEMMA CountByKind ==
  ASSUME NEW C, NEW k, NEW S, IsFiniteSet(S),
         \A x \in S : C[k[x]] = Cardinality({y \in S : k[y] = k[x]})
  PROVE  SumOf(C, {k[x] : x \in S}) = Cardinality(S)
<1> DEFINE Kinds == {k[x] : x \in S}
           Of(t) == {y \in S : k[y] \in t}
           Other == {t \in SUBSET Kinds : SumOf(C, t) # Cardinality(Of(t))}
<1>0. IsFiniteSet(Kinds)
  BY ImageIsFinite
<1>1. ASSUME Other # {} PROVE FALSE
  <2>1. PICK t \in Other : \A u \in Other : Cardinality(t) <= Cardinality(u)
    <3>1. \A t \in Other : IsFiniteSet(t)
      <4> HIDE DEF Kinds
      <4>1. QED
        BY <1>0, FS_Subset
    <3> HIDE DEF Other
    <3>2. QED
      BY <1>1, <3>1, SmallestSet
  <2>2. IsFiniteSet(t) /\ t \subseteq Kinds /\ SumOf(C, t) # Cardinality(Of(t))
    <3> HIDE DEF Kinds
    <3>1. QED
      BY <1>0, FS_Subset
  <2>3. \A v \in t : /\ C[v] \in Nat /\ C[v] = Cardinality({y \in S : k[y] = v})
                     /\ IsFiniteSet({y \in S : k[y] = v})
    <3>1. \A v : IsFiniteSet({y \in S : k[y] = v})
      BY FS_Subset
    <3>2. \A v \in t : C[v] = Cardinality({y \in S : k[y] = v})
      BY <2>2
    <3>3. QED
      BY <3>1, <3>2, FS_CardinalityType
  <2>4. PICK v : v \in t
    <3>1. Of({}) = {}
      OBVIOUS
    <3>2. QED
      BY <2>2, <3>1, SumEmpty, FS_EmptySet
  <2> DEFINE u == t \ {v}
             one == {y \in S : k[y] = v}
  <2>5. IsFiniteSet(u) /\ u \subseteq Kinds /\ ~ (Cardinality(t) <= Cardinality(u))
    BY <2>2, <2>4, OneLess
  <2>6. SumOf(C, u) = Cardinality(Of(u))
    <3> HIDE DEF Of, Kinds, u
    <3>1. QED
      BY <2>1, <2>5
  <2>7. SumOf(C, t) = C[v] + SumOf(C, u)
    <3>1. \A x \in t : C[x] \in Nat
      BY <2>3
    <3> HIDE DEF Kinds
    <3>2. QED
      BY <2>2, <2>4, <3>1, SumRemoves
  <2>8. Cardinality(Of(t)) = Cardinality(Of(u)) + Cardinality(one)
    <3>1. IsFiniteSet(Of(u)) /\ IsFiniteSet(one)
      BY FS_Subset
    <3>2. Of(t) = Of(u) \cup one /\ Of(u) \cap one = {}
      BY <2>4
    <3>3. Cardinality(Of(u)) \in Nat /\ Cardinality(one) \in Nat
      <4> HIDE DEF Of, one
      <4>1. QED
        BY <3>1, FS_CardinalityType
    <3> HIDE DEF Of, one, u
    <3>4. Cardinality(Of(u) \cup one)
            = Cardinality(Of(u)) + Cardinality(one) - Cardinality(Of(u) \cap one)
      BY <3>1, FS_Union
    <3>5. QED
      BY <3>2, <3>3, <3>4, FS_EmptySet
  <2>9. C[v] = Cardinality(one) /\ Cardinality(one) \in Nat /\ Cardinality(Of(u)) \in Nat
    <3>1. IsFiniteSet(Of(u))
      BY FS_Subset
    <3>2. Cardinality(Of(u)) \in Nat
      <4> HIDE DEF Of
      <4>1. QED
        BY <3>1, FS_CardinalityType
    <3>3. QED
      BY <2>3, <2>4, <3>2
  <2> HIDE DEF Of, one, u
  <2>10. QED
    BY <2>2, <2>6, <2>7, <2>8, <2>9
<1>2. SumOf(C, Kinds) = Cardinality(Of(Kinds))
  BY <1>1
<1>3. Of(Kinds) = S
  OBVIOUS
<1>4. QED
  BY <1>2, <1>3
=============================================================================
