---------------------------- MODULE SumTheorems ----------------------------
(***************************************************************************)
(* What the escrow proofs need to know about Sum: it is a natural number,  *)
(* it splits over disjoint sets and over pointwise addition, and it only   *)
(* depends on the values of the function on the set.                       *)
(***************************************************************************)
EXTENDS Sums, FiniteSetTheorems, TLAPS

(***************************************************************************)
(* The units of a finite set of natural amounts are finitely many.         *)
(***************************************************************************)
LEMMA UnitsFinite ==
  ASSUME NEW S, IsFiniteSet(S), NEW f, \A x \in S : f[x] \in Nat
  PROVE  IsFiniteSet(Units(f, S))
<1> DEFINE Piece == [x \in S |-> {x} \X (1 .. f[x])]
           Pieces == {{x} \X (1 .. f[x]) : x \in S}
<1>1. Piece \in Surjection(S, Pieces)
  BY DEF Surjection
<1>2. IsFiniteSet(Pieces)
  BY <1>1, FS_Surjection
<1>3. ASSUME NEW T \in Pieces PROVE IsFiniteSet(T)
  <2>1. PICK x \in S : T = {x} \X (1 .. f[x])
    OBVIOUS
  <2>2. IsFiniteSet({x})
    BY FS_Singleton
  <2>3. f[x] \in Int
    OBVIOUS
  <2>4. IsFiniteSet(1 .. f[x])
    BY <2>3, FS_Interval
  <2> QED
    BY <2>1, <2>2, <2>4, FS_Product
<1> QED
  BY <1>2, <1>3, FS_UNION DEF Units

(***************************************************************************)
(* A sum of natural amounts is a natural number.                           *)
(***************************************************************************)
LEMMA SumType ==
  ASSUME NEW S, IsFiniteSet(S), NEW f, \A x \in S : f[x] \in Nat
  PROVE  Sum(f, S) \in Nat
BY UnitsFinite, FS_CardinalityType DEF Sum

(***************************************************************************)
(* The sum over no milestone at all is zero.                               *)
(***************************************************************************)
LEMMA SumEmpty ==
  ASSUME NEW f
  PROVE  Sum(f, {}) = 0
<1>1. Units(f, {}) = {}
  BY DEF Units
<1> QED
  BY <1>1, FS_EmptySet DEF Sum

(***************************************************************************)
(* So is a sum of zeroes.                                                  *)
(***************************************************************************)
LEMMA SumZero ==
  ASSUME NEW S, NEW f, \A x \in S : f[x] = 0
  PROVE  Sum(f, S) = 0
<1>1. Units(f, S) = {}
  BY DEF Units
<1> QED
  BY <1>1, FS_EmptySet DEF Sum

(***************************************************************************)
(* Functions that agree on the set have the same sum over it.              *)
(***************************************************************************)
LEMMA SumSame ==
  ASSUME NEW S, NEW f, NEW g, \A x \in S : f[x] = g[x]
  PROVE  Sum(f, S) = Sum(g, S)
<1>1. Units(f, S) = Units(g, S)
  BY DEF Units
<1> QED
  BY <1>1 DEF Sum

(***************************************************************************)
(* The sum over one milestone is its amount.                               *)
(***************************************************************************)
LEMMA SumOne ==
  ASSUME NEW x, NEW f, f[x] \in Nat
  PROVE  Sum(f, {x}) = f[x]
<1> DEFINE U == {x} \X (1 .. f[x])
           g == [i \in 1 .. f[x] |-> <<x, i>>]
<1>1. Units(f, {x}) = U
  BY DEF Units
<1>2. g \in Bijection(1 .. f[x], U)
  BY DEF Bijection, Injection, Surjection, IsInjective
<1>3. IsFiniteSet(1 .. f[x]) /\ Cardinality(1 .. f[x]) = f[x]
  <2>1. f[x] \in Int /\ 1 \in Int
    OBVIOUS
  <2> QED
    BY <2>1, FS_Interval
<1>4. ExistsBijection(1 .. f[x], U)
  BY <1>2 DEF ExistsBijection
<1> HIDE DEF U
<1>5. Cardinality(U) = f[x]
  BY <1>3, <1>4, FS_Bijection
<1> QED
  BY <1>1, <1>5 DEF Sum

(***************************************************************************)
(* Sums over disjoint sets add up.                                         *)
(***************************************************************************)
LEMMA SumDisjoint ==
  ASSUME NEW S, IsFiniteSet(S), NEW T, IsFiniteSet(T), S \cap T = {},
         NEW f, \A x \in S \cup T : f[x] \in Nat
  PROVE  Sum(f, S \cup T) = Sum(f, S) + Sum(f, T)
<1> DEFINE A == Units(f, S)
           B == Units(f, T)
           C == Units(f, S \cup T)
<1>1. C = A \cup B
  BY DEF Units
<1>2. A \cap B = {}
  BY DEF Units
<1>3. IsFiniteSet(A) /\ IsFiniteSet(B)
  BY UnitsFinite
<1> HIDE DEF A, B, C
<1>4. Cardinality(A) \in Nat /\ Cardinality(B) \in Nat
  BY <1>3, FS_CardinalityType
<1>5. Cardinality(A \cup B) = Cardinality(A) + Cardinality(B) - Cardinality(A \cap B)
  BY <1>3, FS_Union
<1>6. Cardinality(A \cap B) = 0
  BY <1>2, FS_EmptySet
<1>7. Cardinality(C) = Cardinality(A) + Cardinality(B)
  BY <1>1, <1>4, <1>5, <1>6
<1> QED
  BY <1>7 DEF Sum, A, B, C

(***************************************************************************)
(* Taking one element out of the set takes its amount out of the sum.      *)
(***************************************************************************)
LEMMA SumRemove ==
  ASSUME NEW S, IsFiniteSet(S), NEW x \in S,
         NEW f, \A y \in S : f[y] \in Nat
  PROVE  Sum(f, S) = Sum(f, S \ {x}) + f[x]
<1>1. S = (S \ {x}) \cup {x}
  OBVIOUS
<1>2. IsFiniteSet(S \ {x}) /\ IsFiniteSet({x})
  BY FS_RemoveElement, FS_Singleton
<1>3. Sum(f, (S \ {x}) \cup {x}) = Sum(f, S \ {x}) + Sum(f, {x})
  BY <1>2, SumDisjoint
<1> QED
  BY <1>1, <1>3, SumOne

(***************************************************************************)
(* Sums of natural amounts are monotone in the set.                        *)
(***************************************************************************)
LEMMA SumSubset ==
  ASSUME NEW S, IsFiniteSet(S), NEW T, T \subseteq S,
         NEW f, \A x \in S : f[x] \in Nat
  PROVE  Sum(f, S) = Sum(f, T) + Sum(f, S \ T)
<1>1. S = T \cup (S \ T)
  OBVIOUS
<1>2. IsFiniteSet(T) /\ IsFiniteSet(S \ T)
  BY FS_Subset
<1>3. Sum(f, T \cup (S \ T)) = Sum(f, T) + Sum(f, S \ T)
  BY <1>2, SumDisjoint
<1> QED
  BY <1>1, <1>3

(***************************************************************************)
(* The sum of a function that is the pointwise sum of two others.          *)
(***************************************************************************)
LEMMA SumPlus ==
  ASSUME NEW S, IsFiniteSet(S), NEW f, NEW g, NEW h,
         \A x \in S : f[x] \in Nat /\ g[x] \in Nat /\ h[x] = f[x] + g[x]
  PROVE  Sum(h, S) = Sum(f, S) + Sum(g, S)
<1> DEFINE F == Units(f, S)
           G == Units(g, S)
           H == Units(h, S)
           Shift == [u \in G |-> <<u[1], f[u[1]] + u[2]>>]
<1>1. /\ F = {u \in S \X Nat : u[2] \in 1 .. f[u[1]]}
      /\ G = {u \in S \X Nat : u[2] \in 1 .. g[u[1]]}
      /\ H = {u \in S \X Nat : u[2] \in 1 .. h[u[1]]}
  BY DEF Units
<1> HIDE DEF F, G, H
<1>2. F \subseteq H
  BY <1>1
<1>3. Shift \in Bijection(G, H \ F)
  <2>1. \A u \in G : Shift[u] \in H \ F
    BY <1>1
  <2>2. \A u, v \in G : Shift[u] = Shift[v] => u = v
    BY <1>1
  <2>3. \A w \in H \ F : \E u \in G : Shift[u] = w
    <3> SUFFICES ASSUME NEW w \in H \ F PROVE \E u \in G : Shift[u] = w
      OBVIOUS
    <3> DEFINE u == <<w[1], w[2] - f[w[1]]>>
    <3>1. u \in G
      BY <1>1
    <3>2. w = <<w[1], w[2]>>
      BY <1>1
    <3>3. w[2] \in Nat /\ f[w[1]] \in Nat
      BY <1>1
    <3>4. Shift[u] = <<w[1], f[w[1]] + (w[2] - f[w[1]])>>
      BY <3>1
    <3>5. f[w[1]] + (w[2] - f[w[1]]) = w[2]
      BY <3>3
    <3> QED
      BY <3>1, <3>2, <3>4, <3>5
  <2> QED
    BY <2>1, <2>2, <2>3 DEF Bijection, Injection, Surjection, IsInjective
<1>4. IsFiniteSet(F) /\ IsFiniteSet(G) /\ IsFiniteSet(H)
  BY UnitsFinite DEF F, G, H
<1>5. Cardinality(H \ F) = Cardinality(G)
  BY <1>3, <1>4, FS_Bijection DEF ExistsBijection
<1>6. Cardinality(H \ F) = Cardinality(H) - Cardinality(F)
  <2>1. H \cap F = F
    BY <1>2
  <2>2. Cardinality(H \ F) = Cardinality(H) - Cardinality(H \cap F)
    BY <1>4, FS_Difference
  <2> QED
    BY <2>1, <2>2
<1>7. Cardinality(F) \in Nat /\ Cardinality(G) \in Nat /\ Cardinality(H) \in Nat
  BY <1>4, FS_CardinalityType
<1> QED
  BY <1>5, <1>6, <1>7 DEF Sum, F, G, H

(***************************************************************************)
(* Sums are ordered as their terms are.                                    *)
(***************************************************************************)
LEMMA SumAtMost ==
  ASSUME NEW S, IsFiniteSet(S), NEW f, NEW g,
         \A x \in S : f[x] \in Nat /\ g[x] \in Nat /\ f[x] <= g[x]
  PROVE  Sum(f, S) <= Sum(g, S)
<1> DEFINE rest == [x \in S |-> g[x] - f[x]]
<1>1. \A x \in S : rest[x] \in Nat /\ g[x] = f[x] + rest[x]
  OBVIOUS
<1> HIDE DEF rest
<1>2. Sum(g, S) = Sum(f, S) + Sum(rest, S)
  BY <1>1, SumPlus
<1>3. Sum(f, S) \in Nat /\ Sum(rest, S) \in Nat
  BY <1>1, SumType
<1> QED
  BY <1>2, <1>3

=============================================================================
