------------------------- MODULE FiniteSumTheorems -------------------------
(***************************************************************************)
(* What every sum over a finite set obeys, from the definition of the      *)
(* fold: the recursive function it evaluates exists and is one, an element *)
(* can be taken out of a sum wherever it is, and equal terms, single       *)
(* changes, disjoint parts and renamings give the sums they should.        *)
(*                                                                         *)
(* The provers cannot instantiate an induction theorem.  Induction over a  *)
(* finite set is done here through a smallest set that contradicts the     *)
(* claim: MinimalSet.                                                      *)
(***************************************************************************)
EXTENDS FiniteSums, FiniteSets, FiniteSetTheorems, WellFoundedInduction, TLAPS

LEMMA MinimalSet ==
  ASSUME NEW S, IsFiniteSet(S), NEW C \in SUBSET (SUBSET S), C # {}
  PROVE  \E A \in C : \A B \in C : B \subseteq A => B = A
<1>1. IsWellFoundedOn(StrictSubsetOrdering(S), FiniteSubsetsOf(S))
  BY FS_StrictSubsetOrderingWellFounded
<1>2. C \subseteq FiniteSubsetsOf(S)
  BY FS_Subset DEF FiniteSubsetsOf
<1>3. PICK A \in C : \A B \in C : <<B, A>> \notin StrictSubsetOrdering(S)
  BY <1>1, <1>2, WFMin
<1> QED BY <1>3 DEF StrictSubsetOrdering

-----------------------------------------------------------------------------
(* The function the fold evaluates, on the subsets of S.                    *)
First(s) == CHOOSE x \in s : TRUE
Rest(s) == s \ {First(s)}
Term(f, g, s) == IF s = {} THEN 0 ELSE f[First(s)] + g[Rest(s)]
Step(f, S, g) == [s \in SUBSET S |-> Term(f, g, s)]
Partial(f, S) == CHOOSE g : g = Step(f, S, g)

LEMMA SumIsPartial ==
  ASSUME NEW f, NEW S
  PROVE  Sum(f, S) = Partial(f, S)[S]
  BY DEF Sum, MapThenSumSet, MapThenFoldSet, Partial, Step, Term, First, Rest

LEMMA FirstIsIn ==
  ASSUME NEW s, s # {}
  PROVE  First(s) \in s
  BY DEF First

(* There is such a function: for each n, one that satisfies the equation on *)
(* the subsets of at most n members, and S has a number of members.         *)
LEMMA PartialExists ==
  ASSUME NEW f, NEW S, IsFiniteSet(S)
  PROVE  Partial(f, S) = Step(f, S, Partial(f, S))
<1> DEFINE Solves(g, n) == \A s \in SUBSET S : Cardinality(s) <= n => g[s] = Term(f, g, s)
           C == {n \in Nat : ~ \E g : g = [s \in SUBSET S |-> g[s]] /\ Solves(g, n)}
<1>1. C = {}
  <2>1. SUFFICES ASSUME C # {} PROVE FALSE
    OBVIOUS
  <2>2. C \subseteq Nat
    OBVIOUS
  <2>3. PICK n \in C : \A k \in C : ~ (<<k, n>> \in OpToRel(<, Nat))
    <3> HIDE DEF C
    <3> QED BY <2>1, <2>2, NatLessThanWellFounded, WFMin
  <2>4. n \in Nat
    OBVIOUS
  <2>5. CASE n = 0
    <3> DEFINE g == [s \in SUBSET S |-> 0]
    <3>1. ASSUME NEW s \in SUBSET S, Cardinality(s) <= 0 PROVE s = {}
      BY <3>1, FS_Subset, FS_CardinalityType, FS_EmptySet
    <3>2. Solves(g, 0)
      BY <3>1 DEF Term
    <3>3. g = [s \in SUBSET S |-> g[s]]
      OBVIOUS
    <3> HIDE DEF g
    <3> QED BY <2>5, <3>2, <3>3
  <2>6. CASE n # 0
    <3>1. n - 1 \in Nat /\ n - 1 < n
      BY <2>4, <2>6
    <3>2. <<n - 1, n>> \in OpToRel(<, Nat)
      BY <3>1, <2>4 DEF OpToRel
    <3>3. n - 1 \notin C
      BY <3>2, <2>3
    <3>4. PICK g : g = [s \in SUBSET S |-> g[s]] /\ Solves(g, n - 1)
      BY <3>1, <3>3
    <3> DEFINE h == [s \in SUBSET S |-> Term(f, g, s)]
    <3>5. ASSUME NEW s \in SUBSET S, Cardinality(s) <= n PROVE h[s] = Term(f, h, s)
      <4>1. CASE s = {}
        BY <4>1 DEF Term
      <4>2. CASE s # {}
        <5>1. Rest(s) \in SUBSET S /\ First(s) \in s
          BY <4>2, FirstIsIn DEF Rest
        <5>2. IsFiniteSet(s) /\ Cardinality(s) \in Nat
          BY FS_Subset, FS_CardinalityType
        <5>3. Cardinality(Rest(s)) <= n - 1
          <6>1. Cardinality(s \ {First(s)}) = Cardinality(s) - 1
            BY <5>1, <5>2, FS_RemoveElement
          <6> QED BY <6>1, <5>2, <3>5, <2>4 DEF Rest
        <5>4. g[Rest(s)] = Term(f, g, Rest(s))
          BY <5>1, <5>3, <3>4
        <5>5. h[s] = Term(f, g, s) /\ h[Rest(s)] = Term(f, g, Rest(s))
          BY <5>1
        <5> HIDE DEF h
        <5>6. Term(f, g, s) = f[First(s)] + g[Rest(s)]
          BY <4>2 DEF Term
        <5>7. Term(f, h, s) = f[First(s)] + h[Rest(s)]
          BY <4>2 DEF Term
        <5> QED BY <5>4, <5>5, <5>6, <5>7
      <4> QED BY <4>1, <4>2
    <3>6. h = [s \in SUBSET S |-> h[s]]
      OBVIOUS
    <3>7. Solves(h, n)
      BY <3>5
    <3> HIDE DEF h
    <3> QED BY <3>6, <3>7, <2>4
  <2> QED BY <2>5, <2>6
<1>2. Cardinality(S) \in Nat
  BY FS_CardinalityType
<1>3. PICK g : g = [s \in SUBSET S |-> g[s]] /\ Solves(g, Cardinality(S))
  BY <1>1, <1>2
<1>4. \A s \in SUBSET S : Cardinality(s) <= Cardinality(S)
  BY FS_Subset
<1>5. \A s \in SUBSET S : g[s] = Term(f, g, s)
  BY <1>3, <1>4
<1>6. [s \in SUBSET S |-> g[s]] = [s \in SUBSET S |-> Term(f, g, s)]
  BY <1>5
<1>7. g = Step(f, S, g)
  BY <1>3, <1>6 DEF Step
<1> QED BY <1>7 DEF Partial

LEMMA PartialValue ==
  ASSUME NEW f, NEW S, IsFiniteSet(S), NEW s \in SUBSET S
  PROVE  Partial(f, S)[s] = Term(f, Partial(f, S), s)
<1> DEFINE g == Partial(f, S)
<1>1. g = Step(f, S, g)
  BY PartialExists
<1> HIDE DEF g
<1>2. g[s] = Term(f, g, s)
  BY <1>1 DEF Step
<1> QED BY <1>2 DEF g

(* And only one: two agree where both are defined.                          *)
LEMMA PartialsAgree ==
  ASSUME NEW f, NEW S, NEW T \in SUBSET S, IsFiniteSet(S)
  PROVE  \A s \in SUBSET T : Partial(f, S)[s] = Partial(f, T)[s]
<1> DEFINE g == Partial(f, S)
           h == Partial(f, T)
           C == {s \in SUBSET T : g[s] # h[s]}
<1>1. IsFiniteSet(T)
  BY FS_Subset
<1>2. \A s \in SUBSET T : g[s] = Term(f, g, s) /\ h[s] = Term(f, h, s)
  BY <1>1, PartialValue
<1>3. SUFFICES ASSUME C # {} PROVE FALSE
  OBVIOUS
<1> HIDE DEF g, h
<1>4. C \in SUBSET (SUBSET T)
  OBVIOUS
<1>5. PICK A \in C : \A B \in C : B \subseteq A => B = A
  <2> HIDE DEF C
  <2> QED BY <1>1, <1>3, <1>4, MinimalSet
<1>6. g[A] = Term(f, g, A) /\ h[A] = Term(f, h, A)
  BY <1>2
<1>7. CASE A = {}
  BY <1>6, <1>7 DEF Term
<1>8. CASE A # {}
  <2>1. First(A) \in A
    BY <1>8, FirstIsIn
  <2>2. Rest(A) \in SUBSET T /\ Rest(A) \subseteq A /\ Rest(A) # A
    BY <2>1 DEF Rest
  <2>3. g[Rest(A)] = h[Rest(A)]
    BY <2>2, <1>5
  <2> QED BY <1>6, <1>8, <2>3 DEF Term
<1> QED BY <1>7, <1>8

-----------------------------------------------------------------------------
(* The empty sum, and the element the fold takes first.                     *)
LEMMA SumEmpty ==
  ASSUME NEW f
  PROVE  Sum(f, {}) = 0
<1>1. IsFiniteSet({})
  BY FS_EmptySet
<1>2. Partial(f, {})[{}] = Term(f, Partial(f, {}), {})
  BY <1>1, PartialValue
<1> QED BY <1>2, SumIsPartial DEF Term

LEMMA SumFirst ==
  ASSUME NEW f, NEW S, IsFiniteSet(S), S # {}
  PROVE  Sum(f, S) = f[First(S)] + Sum(f, Rest(S))
<1>1. Rest(S) \in SUBSET S
  BY DEF Rest
<1>2. Sum(f, S) = Partial(f, S)[S]
  BY SumIsPartial
<1>3. Partial(f, S)[S] = Term(f, Partial(f, S), S)
  BY PartialValue
<1>4. Partial(f, S)[Rest(S)] = Partial(f, Rest(S))[Rest(S)]
  BY <1>1, PartialsAgree
<1>5. Sum(f, Rest(S)) = Partial(f, Rest(S))[Rest(S)]
  BY SumIsPartial
<1> QED BY <1>2, <1>3, <1>4, <1>5 DEF Term

(* A sum of integers is one, a sum of naturals is one.                      *)
LEMMA SumInt ==
  ASSUME NEW S, IsFiniteSet(S), NEW f, \A x \in S : f[x] \in Int
  PROVE  Sum(f, S) \in Int
<1> DEFINE C == {s \in SUBSET S : Sum(f, s) \notin Int}
<1>1. SUFFICES ASSUME C # {} PROVE FALSE
  OBVIOUS
<1>2. C \in SUBSET (SUBSET S)
  OBVIOUS
<1>3. PICK A \in C : \A B \in C : B \subseteq A => B = A
  <2> HIDE DEF C
  <2> QED BY <1>1, <1>2, MinimalSet
<1>4. A # {}
  BY SumEmpty
<1>5. First(A) \in A
  BY <1>4, FirstIsIn
<1>6. Rest(A) \in SUBSET S /\ Rest(A) \subseteq A /\ Rest(A) # A
  BY <1>5 DEF Rest
<1>7. Sum(f, Rest(A)) \in Int /\ f[First(A)] \in Int
  BY <1>3, <1>5, <1>6
<1>8. Sum(f, A) = f[First(A)] + Sum(f, Rest(A))
  BY <1>4, FS_Subset, SumFirst
<1> QED BY <1>7, <1>8

LEMMA SumNat ==
  ASSUME NEW S, IsFiniteSet(S), NEW f, \A x \in S : f[x] \in Nat
  PROVE  Sum(f, S) \in Nat
<1> DEFINE C == {s \in SUBSET S : Sum(f, s) \notin Nat}
<1>1. SUFFICES ASSUME C # {} PROVE FALSE
  OBVIOUS
<1>2. C \in SUBSET (SUBSET S)
  OBVIOUS
<1>3. PICK A \in C : \A B \in C : B \subseteq A => B = A
  <2> HIDE DEF C
  <2> QED BY <1>1, <1>2, MinimalSet
<1>4. A # {}
  BY SumEmpty
<1>5. First(A) \in A
  BY <1>4, FirstIsIn
<1>6. Rest(A) \in SUBSET S /\ Rest(A) \subseteq A /\ Rest(A) # A
  BY <1>5 DEF Rest
<1>7. Sum(f, Rest(A)) \in Nat /\ f[First(A)] \in Nat
  BY <1>3, <1>5, <1>6
<1>8. Sum(f, A) = f[First(A)] + Sum(f, Rest(A))
  BY <1>4, FS_Subset, SumFirst
<1> QED BY <1>7, <1>8

(* Any member can be taken out.                                             *)
LEMMA SumTakeOut ==
  ASSUME NEW S, IsFiniteSet(S), NEW f, \A x \in S : f[x] \in Int, NEW x \in S
  PROVE  Sum(f, S) = f[x] + Sum(f, S \ {x})
<1> DEFINE C == {s \in SUBSET S : \E z \in s : Sum(f, s) # f[z] + Sum(f, s \ {z})}
<1>1. SUFFICES ASSUME C # {} PROVE FALSE
  OBVIOUS
<1>2. C \in SUBSET (SUBSET S)
  OBVIOUS
<1>3. PICK A \in C : \A B \in C : B \subseteq A => B = A
  <2> HIDE DEF C
  <2> QED BY <1>1, <1>2, MinimalSet
<1>4. PICK z \in A : Sum(f, A) # f[z] + Sum(f, A \ {z})
  OBVIOUS
<1> DEFINE y == First(A)
<1>5. y \in A
  BY <1>4, FirstIsIn
<1>6. Sum(f, A) = f[y] + Sum(f, A \ {y})
  BY <1>5, FS_Subset, SumFirst DEF Rest
<1> HIDE DEF y
<1>7. y # z
  BY <1>4, <1>6
<1>8. ASSUME NEW a \in A, NEW b \in A, a # b
      PROVE  Sum(f, A \ {a}) = f[b] + Sum(f, (A \ {a}) \ {b})
  <2>1. A \ {a} \in SUBSET S /\ A \ {a} \subseteq A /\ A \ {a} # A /\ b \in A \ {a}
    BY <1>8
  <2>2. A \ {a} \notin C
    BY <2>1, <1>3
  <2> QED BY <2>1, <2>2
<1>9. /\ Sum(f, A \ {y}) = f[z] + Sum(f, (A \ {y}) \ {z})
      /\ Sum(f, A \ {z}) = f[y] + Sum(f, (A \ {z}) \ {y})
  BY <1>5, <1>7, <1>8
<1>10. (A \ {y}) \ {z} = (A \ {z}) \ {y}
  OBVIOUS
<1>11. Sum(f, (A \ {z}) \ {y}) \in Int
  <2>1. IsFiniteSet((A \ {z}) \ {y})
    BY FS_Subset
  <2> QED BY <2>1, SumInt
<1>12. f[y] \in Int /\ f[z] \in Int
  BY <1>5
<1> DEFINE r == Sum(f, (A \ {z}) \ {y})
<1>13. r \in Int /\ Sum(f, A) = f[y] + (f[z] + r) /\ Sum(f, A \ {z}) = f[y] + r
  BY <1>6, <1>9, <1>10, <1>11
<1> HIDE DEF r
<1> QED BY <1>4, <1>12, <1>13

LEMMA SumAdd ==
  ASSUME NEW S, IsFiniteSet(S), NEW x, x \notin S,
         NEW f, \A y \in S \cup {x} : f[y] \in Int
  PROVE  Sum(f, S \cup {x}) = f[x] + Sum(f, S)
<1>1. IsFiniteSet(S \cup {x})
  BY FS_AddElement
<1>2. (S \cup {x}) \ {x} = S
  OBVIOUS
<1> QED BY <1>1, <1>2, SumTakeOut

(* Equal terms give equal sums.                                             *)
LEMMA SumSame ==
  ASSUME NEW S, IsFiniteSet(S), NEW f, NEW g, \A x \in S : f[x] = g[x]
  PROVE  Sum(f, S) = Sum(g, S)
<1> DEFINE C == {s \in SUBSET S : Sum(f, s) # Sum(g, s)}
<1>1. SUFFICES ASSUME C # {} PROVE FALSE
  OBVIOUS
<1>2. C \in SUBSET (SUBSET S)
  OBVIOUS
<1>3. PICK A \in C : \A B \in C : B \subseteq A => B = A
  <2> HIDE DEF C
  <2> QED BY <1>1, <1>2, MinimalSet
<1>4. A # {}
  BY SumEmpty
<1>5. First(A) \in A
  BY <1>4, FirstIsIn
<1>6. Rest(A) \in SUBSET S /\ Rest(A) \subseteq A /\ Rest(A) # A
  BY <1>5 DEF Rest
<1>7. Sum(f, Rest(A)) = Sum(g, Rest(A)) /\ f[First(A)] = g[First(A)]
  BY <1>3, <1>5, <1>6
<1>8. IsFiniteSet(A)
  BY FS_Subset
<1>9. /\ Sum(f, A) = f[First(A)] + Sum(f, Rest(A))
      /\ Sum(g, A) = g[First(A)] + Sum(g, Rest(A))
  BY <1>4, <1>8, SumFirst
<1> QED BY <1>7, <1>9

(* The sum of terms that are all zero is zero.                              *)
LEMMA SumZero ==
  ASSUME NEW S, IsFiniteSet(S), NEW f, \A x \in S : f[x] = 0
  PROVE  Sum(f, S) = 0
<1> DEFINE C == {s \in SUBSET S : Sum(f, s) # 0}
<1>1. SUFFICES ASSUME C # {} PROVE FALSE
  OBVIOUS
<1>2. C \in SUBSET (SUBSET S)
  OBVIOUS
<1>3. PICK A \in C : \A B \in C : B \subseteq A => B = A
  <2> HIDE DEF C
  <2> QED BY <1>1, <1>2, MinimalSet
<1>4. A # {}
  BY SumEmpty
<1>5. First(A) \in A
  BY <1>4, FirstIsIn
<1>6. Rest(A) \in SUBSET S /\ Rest(A) \subseteq A /\ Rest(A) # A
  BY <1>5 DEF Rest
<1>7. Sum(f, Rest(A)) = 0 /\ f[First(A)] = 0
  BY <1>3, <1>5, <1>6
<1>8. Sum(f, A) = f[First(A)] + Sum(f, Rest(A))
  BY <1>4, FS_Subset, SumFirst
<1> QED BY <1>7, <1>8

(* A sum whose terms differ from another's at one member alone.             *)
LEMMA SumChange ==
  ASSUME NEW S, IsFiniteSet(S), NEW x \in S,
         NEW f, NEW g, \A y \in S : f[y] \in Int /\ g[y] \in Int,
         \A y \in S \ {x} : g[y] = f[y]
  PROVE  Sum(g, S) = Sum(f, S) + g[x] - f[x]
<1>1. IsFiniteSet(S \ {x})
  BY FS_Subset
<1>2. Sum(g, S) = g[x] + Sum(g, S \ {x}) /\ Sum(f, S) = f[x] + Sum(f, S \ {x})
  BY SumTakeOut
<1>3. Sum(g, S \ {x}) = Sum(f, S \ {x})
  BY <1>1, SumSame
<1>4. Sum(f, S \ {x}) \in Int
  BY <1>1, SumInt
<1>5. f[x] \in Int /\ g[x] \in Int
  OBVIOUS
<1> QED BY <1>2, <1>3, <1>4, <1>5

(* The sum of the termwise sums is the sum of the sums.                     *)
LEMMA SumPlus ==
  ASSUME NEW S, IsFiniteSet(S), NEW f, NEW g, NEW h,
         \A x \in S : f[x] \in Int /\ g[x] \in Int /\ h[x] = f[x] + g[x]
  PROVE  Sum(h, S) = Sum(f, S) + Sum(g, S)
<1> DEFINE C == {s \in SUBSET S : Sum(h, s) # Sum(f, s) + Sum(g, s)}
<1>1. SUFFICES ASSUME C # {} PROVE FALSE
  OBVIOUS
<1>2. C \in SUBSET (SUBSET S)
  OBVIOUS
<1>3. PICK A \in C : \A B \in C : B \subseteq A => B = A
  <2> HIDE DEF C
  <2> QED BY <1>1, <1>2, MinimalSet
<1>4. A # {}
  <2>1. Sum(f, {}) = 0 /\ Sum(g, {}) = 0 /\ Sum(h, {}) = 0
    BY SumEmpty
  <2>2. Sum(h, {}) = Sum(f, {}) + Sum(g, {})
    BY <2>1
  <2>3. Sum(h, A) # Sum(f, A) + Sum(g, A)
    OBVIOUS
  <2> QED BY <2>2, <2>3
<1> DEFINE y == First(A)
           R == Rest(A)
<1>5. y \in A /\ y \in S
  BY <1>4, FirstIsIn
<1>6. R \in SUBSET S /\ R \subseteq A /\ R # A
  BY <1>5 DEF Rest
<1>7. IsFiniteSet(A) /\ IsFiniteSet(R)
  BY <1>6, FS_Subset
<1>8. /\ Sum(f, A) = f[y] + Sum(f, R)
      /\ Sum(g, A) = g[y] + Sum(g, R)
      /\ Sum(h, A) = h[y] + Sum(h, R)
  BY <1>4, <1>7, SumFirst
<1>9. Sum(f, R) \in Int /\ Sum(g, R) \in Int
  BY <1>6, <1>7, SumInt
<1>10. f[y] \in Int /\ g[y] \in Int /\ h[y] = f[y] + g[y]
  BY <1>5
<1> HIDE DEF y, R
<1>11. Sum(h, R) = Sum(f, R) + Sum(g, R)
  BY <1>3, <1>6
<1> QED BY <1>8, <1>9, <1>10, <1>11

(* The terms that are zero need not be summed.                              *)
LEMMA SumWithin ==
  ASSUME NEW S, IsFiniteSet(S), NEW T \in SUBSET S,
         NEW f, \A x \in S : f[x] \in Int, \A x \in S \ T : f[x] = 0
  PROVE  Sum(f, S) = Sum(f, T)
<1> DEFINE C == {s \in SUBSET S : T \subseteq s /\ Sum(f, s) # Sum(f, T)}
<1>1. SUFFICES ASSUME C # {} PROVE FALSE
  OBVIOUS
<1>2. C \in SUBSET (SUBSET S)
  OBVIOUS
<1>3. PICK A \in C : \A B \in C : B \subseteq A => B = A
  <2> HIDE DEF C
  <2> QED BY <1>1, <1>2, MinimalSet
<1>4. PICK y \in A : y \notin T
  OBVIOUS
<1>5. A \ {y} \in SUBSET S /\ A \ {y} # A /\ T \subseteq A \ {y}
  BY <1>4
<1>6. Sum(f, A \ {y}) = Sum(f, T)
  BY <1>3, <1>5
<1>7. Sum(f, A) = f[y] + Sum(f, A \ {y})
  BY FS_Subset, SumTakeOut, ZenonT(40)
<1>8. Sum(f, A \ {y}) \in Int
  BY <1>5, FS_Subset, SumInt
<1>9. f[y] = 0
  BY <1>4
<1> QED BY <1>6, <1>7, <1>8, <1>9

(* A sum over two disjoint sets is the sum of the sums over them.           *)
LEMMA SumDisjoint ==
  ASSUME NEW S, NEW T, IsFiniteSet(S), IsFiniteSet(T), S \cap T = {},
         NEW f, \A x \in S \cup T : f[x] \in Int
  PROVE  Sum(f, S \cup T) = Sum(f, S) + Sum(f, T)
<1> DEFINE g == [x \in S \cup T |-> IF x \in S THEN f[x] ELSE 0]
           h == [x \in S \cup T |-> IF x \in S THEN 0 ELSE f[x]]
<1>1. IsFiniteSet(S \cup T)
  BY FS_Union
<1>2. \A x \in S \cup T : g[x] \in Int /\ h[x] \in Int /\ f[x] = g[x] + h[x]
  OBVIOUS
<1>3. /\ \A x \in (S \cup T) \ S : g[x] = 0
      /\ \A x \in (S \cup T) \ T : h[x] = 0
      /\ \A x \in S : g[x] = f[x]
      /\ \A x \in T : h[x] = f[x]
  OBVIOUS
<1> HIDE DEF g, h
<1>4. Sum(f, S \cup T) = Sum(g, S \cup T) + Sum(h, S \cup T)
  BY <1>1, <1>2, SumPlus
<1>5. Sum(g, S \cup T) = Sum(g, S) /\ Sum(h, S \cup T) = Sum(h, T)
  BY <1>1, <1>2, <1>3, SumWithin
<1>6. Sum(g, S) = Sum(f, S) /\ Sum(h, T) = Sum(f, T)
  BY <1>3, SumSame
<1> QED BY <1>4, <1>5, <1>6

(* Larger terms give a larger sum.                                          *)
LEMMA SumAtMost ==
  ASSUME NEW S, IsFiniteSet(S), NEW f, NEW g,
         \A x \in S : f[x] \in Int /\ g[x] \in Int /\ f[x] <= g[x]
  PROVE  Sum(f, S) <= Sum(g, S)
<1> DEFINE h == [x \in S |-> g[x] - f[x]]
<1>1. \A x \in S : h[x] \in Nat /\ h[x] \in Int /\ g[x] = f[x] + h[x]
  OBVIOUS
<1> HIDE DEF h
<1>2. Sum(g, S) = Sum(f, S) + Sum(h, S)
  BY <1>1, SumPlus
<1>3. Sum(f, S) \in Int
  BY SumInt
<1>4. Sum(h, S) \in Nat
  BY <1>1, SumNat
<1> QED BY <1>2, <1>3, <1>4

LEMMA ImageFinite ==
  ASSUME NEW S, IsFiniteSet(S), NEW F
  PROVE  IsFiniteSet({F[x] : x \in S}) /\ Cardinality({F[x] : x \in S}) <= Cardinality(S)
<1> DEFINE T == {F[x] : x \in S}
           G == [x \in S |-> F[x]]
<1>1. G \in Surjection(S, T)
  BY DEF Surjection
<1> QED BY <1>1, FS_Surjection

LEMMA ImageSize ==
  ASSUME NEW S, IsFiniteSet(S), NEW F, \A x, y \in S : F[x] = F[y] => x = y
  PROVE  IsFiniteSet({F[x] : x \in S}) /\ Cardinality({F[x] : x \in S}) = Cardinality(S)
<1> DEFINE T == {F[x] : x \in S}
           G == [x \in S |-> F[x]]
<1>1. G \in Surjection(S, T)
  BY DEF Surjection
<1>2. G \in Injection(S, T)
  BY <1>1 DEF Injection, Surjection, IsInjective
<1> HIDE DEF G
<1> QED BY <1>1, <1>2, FS_Surjection

(* Counting over the images of an injection is counting over its arguments. *)
LEMMA SumRenamed ==
  ASSUME NEW S, IsFiniteSet(S), NEW F, \A x, y \in S : F[x] = F[y] => x = y,
         NEW f, NEW g, \A x \in S : f[x] \in Int /\ g[F[x]] = f[x]
  PROVE  Sum(g, {F[x] : x \in S}) = Sum(f, S)
<1> DEFINE Images(s) == {F[x] : x \in s}
           C == {s \in SUBSET S : Sum(g, Images(s)) # Sum(f, s)}
<1>1. SUFFICES ASSUME C # {} PROVE FALSE
  OBVIOUS
<1>2. C \in SUBSET (SUBSET S)
  OBVIOUS
<1>3. PICK A \in C : \A B \in C : B \subseteq A => B = A
  <2> HIDE DEF C
  <2> QED BY <1>1, <1>2, MinimalSet
<1>4. A \in SUBSET S /\ Sum(g, Images(A)) # Sum(f, A)
  OBVIOUS
<1>5. A # {}
  <2>1. Images({}) = {}
    OBVIOUS
  <2> QED BY <1>4, <2>1, SumEmpty
<1>6. PICK z \in A : TRUE
  BY <1>5
<1> DEFINE B == A \ {z}
<1>7. IsFiniteSet(A) /\ IsFiniteSet(B) /\ B \in SUBSET S /\ z \notin B /\ A = B \cup {z}
  BY <1>4, <1>6, FS_Subset
<1>8. Sum(g, Images(B)) = Sum(f, B)
  BY <1>3, <1>6, <1>7
<1>9. Sum(f, A) = f[z] + Sum(f, B)
  <2> HIDE DEF B
  <2> QED BY <1>4, <1>6, <1>7, SumAdd
<1>10. Images(A) = Images(B) \cup {F[z]} /\ F[z] \notin Images(B)
  BY <1>4, <1>6
<1>11. IsFiniteSet(Images(B)) /\ \A y \in Images(B) \cup {F[z]} : g[y] \in Int
  BY <1>4, <1>6, <1>7, ImageFinite
<1>12. Sum(g, Images(A)) = g[F[z]] + Sum(g, Images(B))
  <2> HIDE DEF B, Images
  <2> QED BY <1>10, <1>11, SumAdd
<1> QED BY <1>4, <1>6, <1>8, <1>9, <1>12

(* A sum is the sum, over the groups its terms fall into, of what each      *)
(* group adds up to: group[x] is where x belongs.                           *)
LEMMA SumByGroup ==
  ASSUME NEW S, IsFiniteSet(S), NEW G, IsFiniteSet(G), NEW f, \A x \in S : f[x] \in Int,
         NEW group, \A x \in S : group[x] \in G
  PROVE  Sum(f, S) = Sum([k \in G |-> Sum(f, {x \in S : group[x] = k})], G)
<1> DEFINE In(s, k) == {x \in s : group[x] = k}
           By(s) == [k \in G |-> Sum(f, In(s, k))]
           C == {s \in SUBSET S : Sum(f, s) # Sum(By(s), G)}
<1>1. SUFFICES ASSUME C # {} PROVE FALSE
  <2>1. S \in SUBSET S
    OBVIOUS
  <2>2. C = {} => Sum(f, S) = Sum(By(S), G)
    BY <2>1
  <2> QED BY <2>2
<1>2. C \in SUBSET (SUBSET S)
  OBVIOUS
<1>3. PICK A \in C : \A B \in C : B \subseteq A => B = A
  <2> HIDE DEF C
  <2> QED BY <1>1, <1>2, MinimalSet
<1>4. A \in SUBSET S /\ Sum(f, A) # Sum(By(A), G)
  OBVIOUS
<1>5. A # {}
  <2>1. \A k \in G : By({})[k] = 0
    <3>1. \A k \in G : In({}, k) = {}
      OBVIOUS
    <3> HIDE DEF In
    <3> QED BY <3>1, SumEmpty
  <2> HIDE DEF By
  <2>2. Sum(By({}), G) = 0
    BY <2>1, SumZero
  <2> QED BY <1>4, <2>2, SumEmpty
<1>6. PICK z \in A : TRUE
  BY <1>5
<1> DEFINE B == A \ {z}
           f1 == By(B)
           g1 == By(A)
<1>7. /\ IsFiniteSet(A) /\ IsFiniteSet(B) /\ B \in SUBSET S /\ B \subseteq A /\ B # A
      /\ z \in S /\ group[z] \in G /\ f[z] \in Int
  BY <1>4, <1>6, FS_Subset
<1>8. Sum(f, B) = Sum(f1, G)
  <2>1. B \notin C
    BY <1>3, <1>7
  <2> HIDE DEF By
  <2> QED BY <1>7, <2>1
<1>9. Sum(f, A) = f[z] + Sum(f, B)
  <2>1. \A x \in A : f[x] \in Int
    BY <1>4
  <2> QED BY <1>6, <1>7, <2>1, SumTakeOut
<1>10. \A k \in G : f1[k] \in Int /\ g1[k] \in Int
  <2> TAKE k \in G
  <2>1. /\ In(A, k) \in SUBSET S /\ In(B, k) \in SUBSET S
        /\ IsFiniteSet(In(A, k)) /\ IsFiniteSet(In(B, k))
    BY <1>4, <1>7, FS_Subset
  <2> HIDE DEF In, B
  <2>2. Sum(f, In(A, k)) \in Int /\ Sum(f, In(B, k)) \in Int
    BY <2>1, SumInt
  <2> QED BY <2>2
<1>11. \A k \in G \ {group[z]} : g1[k] = f1[k]
  <2> TAKE k \in G \ {group[z]}
  <2>1. In(A, k) = In(B, k)
    BY <1>6
  <2> HIDE DEF In
  <2> QED BY <2>1
<1>12. g1[group[z]] = f[z] + f1[group[z]]
  <2> DEFINE T == In(A, group[z])
  <2>1. z \in T /\ IsFiniteSet(T) /\ T \ {z} = In(B, group[z]) /\ \A x \in T : f[x] \in Int
    BY <1>4, <1>6, <1>7, FS_Subset
  <2>2. Sum(f, T) = f[z] + Sum(f, T \ {z})
    <3> HIDE DEF T
    <3> QED BY <2>1, SumTakeOut
  <2>3. g1[group[z]] = Sum(f, T) /\ f1[group[z]] = Sum(f, In(B, group[z]))
    BY <1>7
  <2> HIDE DEF T, f1, g1, In
  <2> QED BY <2>1, <2>2, <2>3
<1>13. Sum(g1, G) = Sum(By(A), G)
  OBVIOUS
<1> HIDE DEF f1, g1, C, By, In, B
<1>14. Sum(g1, G) = Sum(f1, G) + g1[group[z]] - f1[group[z]]
  BY <1>7, <1>10, <1>11, SumChange
<1>15. Sum(f1, G) \in Int
  BY <1>10, SumInt
<1>16. f1[group[z]] \in Int
  BY <1>7, <1>10
<1> QED BY <1>4, <1>7, <1>8, <1>9, <1>12, <1>13, <1>14, <1>15, <1>16

(* A multiple of a sum, and the size of a set as a sum.                     *)
LEMMA Distributes ==
  \A c, x, y \in Int : c * (x + y) = c * x + c * y /\ c * x \in Int /\ c * 0 = 0
  OBVIOUS

LEMMA SumTimes ==
  ASSUME NEW S, IsFiniteSet(S), NEW c \in Int, NEW f, NEW g,
         \A x \in S : f[x] \in Int /\ g[x] = c * f[x]
  PROVE  Sum(g, S) = c * Sum(f, S)
<1> DEFINE C == {s \in SUBSET S : Sum(g, s) # c * Sum(f, s)}
<1>1. SUFFICES ASSUME C # {} PROVE FALSE
  OBVIOUS
<1>2. C \in SUBSET (SUBSET S)
  OBVIOUS
<1>3. PICK A \in C : \A B \in C : B \subseteq A => B = A
  <2> HIDE DEF C
  <2> QED BY <1>1, <1>2, MinimalSet
<1>4. A # {}
  <2>1. Sum(g, {}) = 0 /\ Sum(f, {}) = 0 /\ c * 0 = 0
    BY SumEmpty, Distributes
  <2> QED BY <2>1
<1>5. First(A) \in A
  BY <1>4, FirstIsIn
<1>6. Rest(A) \in SUBSET S /\ Rest(A) \subseteq A /\ Rest(A) # A
  BY <1>5 DEF Rest
<1>7. Sum(g, Rest(A)) = c * Sum(f, Rest(A)) /\ g[First(A)] = c * f[First(A)]
      /\ f[First(A)] \in Int
  BY <1>3, <1>5, <1>6
<1>8. /\ Sum(f, A) = f[First(A)] + Sum(f, Rest(A))
      /\ Sum(g, A) = g[First(A)] + Sum(g, Rest(A))
  BY <1>4, FS_Subset, SumFirst
<1>9. Sum(f, Rest(A)) \in Int
  BY <1>6, FS_Subset, SumInt
<1>10. Sum(g, A) = c * Sum(f, A)
  BY <1>7, <1>8, <1>9, Distributes
<1> QED BY <1>3, <1>10

LEMMA SumOnes ==
  ASSUME NEW S, IsFiniteSet(S), NEW f, \A x \in S : f[x] = 1
  PROVE  Sum(f, S) = Cardinality(S)
<1> DEFINE C == {s \in SUBSET S : Sum(f, s) # Cardinality(s)}
<1>1. SUFFICES ASSUME C # {} PROVE FALSE
  OBVIOUS
<1>2. C \in SUBSET (SUBSET S)
  OBVIOUS
<1>3. PICK A \in C : \A B \in C : B \subseteq A => B = A
  <2> HIDE DEF C
  <2> QED BY <1>1, <1>2, MinimalSet
<1>4. A # {}
  BY SumEmpty, FS_EmptySet
<1>5. First(A) \in A
  BY <1>4, FirstIsIn
<1>6. Rest(A) \in SUBSET S /\ Rest(A) \subseteq A /\ Rest(A) # A
  BY <1>5 DEF Rest
<1>7. Sum(f, Rest(A)) = Cardinality(Rest(A)) /\ f[First(A)] = 1
  BY <1>3, <1>5, <1>6
<1>8. Sum(f, A) = f[First(A)] + Sum(f, Rest(A))
  BY <1>4, FS_Subset, SumFirst
<1>9. IsFiniteSet(A)
  BY FS_Subset
<1>10. Cardinality(Rest(A)) = Cardinality(A) - 1 /\ Cardinality(A) \in Nat
  BY <1>5, <1>9, FS_RemoveElement, FS_CardinalityType DEF Rest
<1>11. Sum(f, A) = Cardinality(A)
  BY <1>7, <1>8, <1>10
<1> QED BY <1>3, <1>11

LEMMA CountByGroup ==
  ASSUME NEW S, IsFiniteSet(S), NEW G, IsFiniteSet(G),
         NEW group, \A x \in S : group[x] \in G
  PROVE  Sum([k \in G |-> Cardinality({x \in S : group[x] = k})], G) = Cardinality(S)
<1> DEFINE ones == [x \in S |-> 1]
           In(k) == {x \in S : group[x] = k}
           counts == [k \in G |-> Cardinality(In(k))]
           sums == [k \in G |-> Sum(ones, In(k))]
<1>1. \A x \in S : ones[x] = 1 /\ ones[x] \in Int
  OBVIOUS
<1> HIDE DEF ones
<1>2. Sum(ones, S) = Sum([k \in G |-> Sum(ones, {x \in S : group[x] = k})], G)
  BY <1>1, SumByGroup
<1>3. \A k \in G : sums[k] = counts[k]
  <2> SUFFICES ASSUME NEW k \in G PROVE Sum(ones, In(k)) = Cardinality(In(k))
    OBVIOUS
  <2>1. IsFiniteSet(In(k)) /\ \A x \in In(k) : ones[x] = 1
    BY <1>1, FS_Subset
  <2> HIDE DEF In
  <2> QED BY <2>1, SumOnes
<1>4. Sum(ones, S) = Sum(sums, G)
  BY <1>2
<1> HIDE DEF sums, counts
<1>5. Sum(sums, G) = Sum(counts, G)
  BY <1>3, SumSame
<1>6. Sum(ones, S) = Cardinality(S)
  BY <1>1, SumOnes
<1> QED BY <1>4, <1>5, <1>6 DEF counts

(* The least and the greatest of a set of numbers.                          *)
LEMMA Earliest ==
  ASSUME NEW T \in SUBSET Nat, T # {}
  PROVE  \E n \in T : \A m \in T : n <= m
<1>1. PICK n \in T : \A m \in T : <<m, n>> \notin OpToRel(<, Nat)
  BY NatLessThanWellFounded, WFMin
<1>2. ASSUME NEW m \in T, ~(n <= m)
      PROVE  FALSE
  <2>1. m < n /\ m \in Nat /\ n \in Nat
    BY <1>2
  <2>2. <<m, n>> \in OpToRel(<, Nat)
    BY <2>1 DEF OpToRel
  <2> QED BY <1>1, <1>2, <2>2
<1> QED BY <1>2

LEMMA LastMember ==
  ASSUME NEW top \in Nat, NEW T \in SUBSET (1 .. top), T # {}
  PROVE  Max(T) \in T /\ \A m \in T : m <= Max(T)
<1> DEFINE C == {c \in Nat : \E n \in T : c = top - n}
<1>1. C \in SUBSET Nat /\ C # {}
  <2>1. PICK n \in T : TRUE
    OBVIOUS
  <2>2. top - n \in Nat
    OBVIOUS
  <2>3. top - n \in C
    BY <2>2
  <2> QED BY <2>3
<1>2. PICK c \in C : \A m \in C : c <= m
  <2> HIDE DEF C
  <2> QED BY <1>1, Earliest
<1>3. PICK n \in T : c = top - n
  OBVIOUS
<1>4. \A m \in T : n >= m
  <2> TAKE m \in T
  <2>1. top - m \in Nat /\ m \in Nat
    OBVIOUS
  <2>2. top - m \in C
    BY <2>1
  <2>3. c <= top - m
    BY <1>2, <2>2
  <2> QED BY <1>3, <2>1, <2>3
<1>5. \E x \in T : \A y \in T : x >= y
  BY <1>4
<1> QED BY <1>5 DEF Max
=============================================================================
