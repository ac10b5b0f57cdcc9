-------------------------------- MODULE Sums --------------------------------
(***************************************************************************)
(* Sums over finite sets: the community module's MapThenSumSet is a        *)
(* recursive function that takes the elements in an order it chooses;      *)
(* these lemmas say that the order does not matter and how a sum changes   *)
(* with its set and its summands.                                          *)
(***************************************************************************)
EXTENDS FiniteSetsExt, Integers, FiniteSetTheorems, WellFoundedInduction, TLAPS

\* The element MapThenSumSet takes from s first.
First(s) == CHOOSE x \in s : TRUE

\* h sums g over every subset of S.
IsSum(h, g, S) ==
  h = [s \in SUBSET S |->
         IF s = {} THEN 0 ELSE g[First(s)] + h[s \ {First(s)}]]

\* The sum of g over S.
SumOf(g, S) == (CHOOSE h : IsSum(h, g, S))[S]

-----------------------------------------------------------------------------
(* Induction over finite sets and the recursion of the sum.                 *)

\* A family that holds a set whenever it holds that set without any one of its
\* elements holds every finite set.
LEMMA FiniteSetInduction ==
  ASSUME NEW S, IsFiniteSet(S), NEW F,
         \A T \in SUBSET S : (\A x \in T : T \ {x} \in F) => T \in F
  PROVE  S \in F
<1> SUFFICES ASSUME S \notin F PROVE FALSE
  OBVIOUS
<1> DEFINE Bad == {T \in SUBSET S : T \notin F}
           Sizes == {Cardinality(T) : T \in Bad}
<1>1. \A T \in SUBSET S : IsFiniteSet(T) /\ Cardinality(T) \in Nat
  BY FS_Subset, FS_CardinalityType
<1>2. Sizes \subseteq Nat /\ Sizes # {}
  BY <1>1
<1>3. PICK n \in Sizes : \A m \in Sizes : ~(<<m, n>> \in OpToRel(<, Nat))
  <2> HIDE DEF Sizes
  <2> QED BY <1>2, WFMin, NatLessThanWellFounded
<1>4. PICK T \in Bad : Cardinality(T) = n
  BY <1>3
<1>5. PICK x \in T : T \ {x} \notin F
  BY <1>4
<1>6. T \ {x} \in SUBSET S /\ Cardinality(T \ {x}) = n - 1
  BY <1>1, <1>4, <1>5, FS_RemoveElement
<1>7. T \ {x} \notin F
  BY <1>5
<1>8. n - 1 \in Sizes
  BY <1>6, <1>7
<1>9. <<n - 1, n>> \in OpToRel(<, Nat)
  <2>1. n \in Nat /\ n - 1 \in Nat
    BY <1>2, <1>3, <1>8
  <2> QED BY <2>1 DEF OpToRel
<1> QED BY <1>3, <1>8, <1>9

\* The first element of a set that has one.
LEMMA FirstIn == ASSUME NEW s, s # {} PROVE First(s) \in s
  BY DEF First

\* What it means to be a sum, a subset at a time.
LEMMA SumRecursion ==
  ASSUME NEW h, NEW g, NEW S, IsSum(h, g, S), NEW T \in SUBSET S
  PROVE  /\ T = {} => h[T] = 0
         /\ T # {} => /\ First(T) \in T
                      /\ h[T] = g[First(T)] + h[T \ {First(T)}]
  BY FirstIn DEF IsSum

\* Two sums of summands that agree are one.
LEMMA SumUnique ==
  ASSUME NEW h, NEW k, NEW f, NEW g, NEW S, NEW Q, IsFiniteSet(S),
         IsSum(h, f, S), IsSum(k, g, Q), S \subseteq Q,
         \A x \in S : f[x] = g[x]
  PROVE  h[S] = k[S]
<1> DEFINE F == {T \in SUBSET S : h[T] = k[T]}
<1>1. ASSUME NEW T \in SUBSET S, \A x \in T : T \ {x} \in F
      PROVE  T \in F
  <2>1. CASE T = {}
    BY <2>1, SumRecursion
  <2>2. CASE T # {}
    <3>1. First(T) \in T /\ T \ {First(T)} \in F
      BY <1>1, <2>2, FirstIn
    <3> QED BY <2>2, <3>1, SumRecursion
  <2> QED BY <2>1, <2>2
<1>2. S \in F
  <2> HIDE DEF F
  <2> QED BY <1>1, FiniteSetInduction
<1> QED BY <1>2

\* Every finite set has a sum: one exists for the subsets of any size up to n, for
\* every n.
LEMMA SumExists ==
  ASSUME NEW g, NEW S, IsFiniteSet(S)
  PROVE  \E h : IsSum(h, g, S)
<1> DEFINE Body(h, s) == IF s = {} THEN 0 ELSE g[First(s)] + h[s \ {First(s)}]
           Upto(n) == \E h : \A s \in SUBSET S :
                        Cardinality(s) <= n => h[s] = Body(h, s)
           Reached == {n \in Nat : ~Upto(n)}
<1>1. \A T \in SUBSET S : IsFiniteSet(T) /\ Cardinality(T) \in Nat
  BY FS_Subset, FS_CardinalityType
<1>2. Upto(0)
  <2> DEFINE h == [s \in SUBSET S |-> 0]
  <2>1. \A s \in SUBSET S : Cardinality(s) <= 0 => h[s] = Body(h, s)
    BY <1>1, FS_EmptySet
  <2> QED BY <2>1
<1>3. ASSUME NEW n \in Nat, Upto(n) PROVE Upto(n + 1)
  <2>1. PICK h : \A s \in SUBSET S : Cardinality(s) <= n => h[s] = Body(h, s)
    BY <1>3
  <2> DEFINE k == [s \in SUBSET S |->
                     IF Cardinality(s) <= n THEN h[s] ELSE Body(h, s)]
  <2>2. ASSUME NEW s \in SUBSET S, Cardinality(s) <= n + 1
        PROVE  k[s] = Body(k, s)
    <3>1. CASE s = {}
      BY <2>1, <3>1
    <3>2. CASE s # {}
      <4>1. First(s) \in s /\ s \ {First(s)} \in SUBSET S
        BY <3>2, FirstIn
      <4>2. Cardinality(s \ {First(s)}) = Cardinality(s) - 1
        BY <1>1, <4>1, FS_RemoveElement
      <4>3. Cardinality(s) \in Nat
        BY <1>1
      <4>4. k[s \ {First(s)}] = h[s \ {First(s)}]
        BY <2>2, <4>1, <4>2, <4>3
      <4>5. k[s] = Body(h, s)
        BY <2>1
      <4> QED BY <3>2, <4>4, <4>5
    <3> QED BY <3>1, <3>2
  <2> QED BY <2>2
<1>4. Reached = {}
  <2> SUFFICES ASSUME Reached # {} PROVE FALSE
    OBVIOUS
  <2>1. PICK n \in Reached : \A m \in Reached : ~(<<m, n>> \in OpToRel(<, Nat))
    <3>1. Reached \subseteq Nat
      OBVIOUS
    <3> HIDE DEF Reached
    <3> QED BY <3>1, WFMin, NatLessThanWellFounded
  <2>2. n \in Nat /\ ~Upto(n)
    BY <2>1
  <2>3. n # 0 /\ n - 1 \in Nat
    <3> HIDE DEF Upto
    <3> QED BY <1>2, <2>2
  <2>4. ~Upto(n - 1)
    <3>1. n - 1 + 1 = n
      BY <2>2
    <3> HIDE DEF Upto
    <3> QED BY <1>3, <2>2, <2>3, <3>1
  <2>5. n - 1 \in Reached
    BY <2>3, <2>4
  <2>6. <<n - 1, n>> \in OpToRel(<, Nat)
    BY <2>2, <2>3 DEF OpToRel
  <2> QED BY <2>1, <2>5, <2>6
<1>5. Cardinality(S) \in Nat
  BY <1>1
<1>6. PICK h : \A s \in SUBSET S : Cardinality(s) <= Cardinality(S) => h[s] = Body(h, s)
  BY <1>4, <1>5
<1> DEFINE k == [s \in SUBSET S |-> h[s]]
<1>7. \A s \in SUBSET S : k[s] = Body(h, s)
  BY <1>1, <1>6, FS_Subset
<1>8. ASSUME NEW s \in SUBSET S PROVE Body(k, s) = Body(h, s)
  <2>1. s # {} => s \ {First(s)} \in SUBSET S
    OBVIOUS
  <2> QED BY <2>1
<1>9. IsSum(k, g, S)
  <2>1. k = [s \in SUBSET S |-> Body(k, s)]
    <3>1. \A s \in SUBSET S : k[s] = Body(k, s)
      BY <1>7, <1>8
    <3>2. k = [s \in SUBSET S |-> k[s]]
      OBVIOUS
    <3> HIDE DEF k, Body
    <3> QED BY <3>1, <3>2
  <2> HIDE DEF k
  <2> QED BY <2>1 DEF IsSum
<1> QED BY <1>9

\* So SumOf is a sum.
LEMMA SumOfIsSum ==
  ASSUME NEW g, NEW S, IsFiniteSet(S)
  PROVE  \E h : IsSum(h, g, S) /\ SumOf(g, S) = h[S]
  BY SumExists DEF SumOf

-----------------------------------------------------------------------------
(* How sums behave.                                                         *)

\* Only the summands over the set matter.
LEMMA SumAgree ==
  ASSUME NEW f, NEW g, NEW S, IsFiniteSet(S), \A x \in S : f[x] = g[x]
  PROVE  SumOf(f, S) = SumOf(g, S)
<1>1. PICK h : IsSum(h, f, S) /\ SumOf(f, S) = h[S]
  BY SumOfIsSum
<1>2. PICK k : IsSum(k, g, S) /\ SumOf(g, S) = k[S]
  BY SumOfIsSum
<1> QED BY <1>1, <1>2, SumUnique

\* A sum over a larger set holds those over its subsets.
LEMMA SumWithin ==
  ASSUME NEW h, NEW g, NEW S, IsFiniteSet(S), IsSum(h, g, S), NEW T \in SUBSET S
  PROVE  SumOf(g, T) = h[T]
<1>1. IsFiniteSet(T)
  BY FS_Subset
<1>2. PICK k : IsSum(k, g, T) /\ SumOf(g, T) = k[T]
  BY <1>1, SumOfIsSum
<1> QED BY <1>1, <1>2, SumUnique

\* The recursion, for SumOf.
LEMMA SumOfRecursion ==
  ASSUME NEW g, NEW S, IsFiniteSet(S)
  PROVE  /\ S = {} => SumOf(g, S) = 0
         /\ S # {} => /\ First(S) \in S
                      /\ SumOf(g, S) = g[First(S)] + SumOf(g, S \ {First(S)})
<1>1. PICK h : IsSum(h, g, S) /\ SumOf(g, S) = h[S]
  BY SumOfIsSum
<1>2. S # {} => /\ First(S) \in S
                /\ SumOf(g, S \ {First(S)}) = h[S \ {First(S)}]
  BY <1>1, SumWithin, FirstIn
<1> QED BY <1>1, <1>2, SumRecursion

\* The sum of nothing.
LEMMA SumEmpty == ASSUME NEW g PROVE SumOf(g, {}) = 0
  BY SumOfRecursion, FS_EmptySet

\* A sum of naturals is one.
LEMMA SumType ==
  ASSUME NEW g, NEW S, IsFiniteSet(S), \A x \in S : g[x] \in Nat
  PROVE  SumOf(g, S) \in Nat
<1> DEFINE F == {T \in SUBSET S : SumOf(g, T) \in Nat}
<1>1. ASSUME NEW T \in SUBSET S, \A x \in T : T \ {x} \in F
      PROVE  T \in F
  <2>1. IsFiniteSet(T)
    BY FS_Subset
  <2>2. CASE T = {}
    BY <2>2, SumEmpty
  <2>3. CASE T # {}
    <3>1. /\ First(T) \in T
          /\ SumOf(g, T) = g[First(T)] + SumOf(g, T \ {First(T)})
      BY <2>1, <2>3, SumOfRecursion
    <3>2. SumOf(g, T \ {First(T)}) \in Nat
      BY <1>1, <3>1
    <3>3. g[First(T)] \in Nat
      BY <3>1
    <3> QED BY <3>1, <3>2, <3>3
  <2> QED BY <2>2, <2>3
<1>2. S \in F
  <2> HIDE DEF F
  <2> QED BY <1>1, FiniteSetInduction
<1> QED BY <1>2

\* Whichever element is taken out, the sum is less by its summand.
LEMMA SumRemove ==
  ASSUME NEW g, NEW S, IsFiniteSet(S), \A x \in S : g[x] \in Nat, NEW y \in S
  PROVE  SumOf(g, S) = g[y] + SumOf(g, S \ {y})
<1> DEFINE F == {T \in SUBSET S :
                   \A x \in T : SumOf(g, T) = g[x] + SumOf(g, T \ {x})}
<1>1. ASSUME NEW T \in SUBSET S, \A x \in T : T \ {x} \in F, NEW x \in T
      PROVE  SumOf(g, T) = g[x] + SumOf(g, T \ {x})
  <2> DEFINE z == First(T)
             U == T \ {x, z}
  <2>1. \A V \in SUBSET S : IsFiniteSet(V) /\ SumOf(g, V) \in Nat
    BY FS_Subset, SumType
  <2>2. z \in T /\ SumOf(g, T) = g[z] + SumOf(g, T \ {z})
    BY <2>1, SumOfRecursion
  <2>3. CASE x = z
    BY <2>2, <2>3
  <2>4. CASE x # z
    <3>1. SumOf(g, T \ {z}) = g[x] + SumOf(g, U)
      <4>1. T \ {z} \in F /\ x \in T \ {z} /\ (T \ {z}) \ {x} = U
        BY <1>1, <2>2, <2>4
      <4> HIDE DEF z, U
      <4> QED BY <4>1
    <3>2. SumOf(g, T \ {x}) = g[z] + SumOf(g, U)
      <4>1. T \ {x} \in F /\ z \in T \ {x} /\ (T \ {x}) \ {z} = U
        BY <1>1, <2>2, <2>4
      <4> HIDE DEF z, U
      <4> QED BY <4>1
    <3>3. /\ g[x] \in Nat /\ g[z] \in Nat /\ SumOf(g, U) \in Nat
      BY <2>1, <2>2
    <3> HIDE DEF z, U
    <3> QED BY <2>2, <3>1, <3>2, <3>3
  <2> QED BY <2>3, <2>4
<1>2. S \in F
  <2>1. \A T \in SUBSET S : (\A x \in T : T \ {x} \in F) => T \in F
    BY <1>1
  <2> HIDE DEF F
  <2> QED BY <2>1, FiniteSetInduction
<1> QED BY <1>2

\* A new element adds its summand.
LEMMA SumAdd ==
  ASSUME NEW g, NEW S, IsFiniteSet(S), NEW y, y \notin S,
         \A x \in S \cup {y} : g[x] \in Nat
  PROVE  SumOf(g, S \cup {y}) = SumOf(g, S) + g[y]
<1>1. IsFiniteSet(S \cup {y})
  BY FS_AddElement
<1> DEFINE W == S \cup {y}
<1>2. W \ {y} = S
  OBVIOUS
<1>3. SumOf(g, W) = g[y] + SumOf(g, S)
  <2>1. IsFiniteSet(W) /\ y \in W /\ \A x \in W : g[x] \in Nat
    BY <1>1
  <2> HIDE DEF W
  <2> QED BY <2>1, <1>2, SumRemove
<1>4. SumOf(g, S) \in Nat /\ g[y] \in Nat
  BY SumType
<1> QED BY <1>3, <1>4

\* A changed summand changes the sum by as much.
LEMMA SumUpdate ==
  ASSUME NEW f, NEW g, NEW S, IsFiniteSet(S), NEW y \in S,
         \A x \in S : f[x] \in Nat /\ g[x] \in Nat,
         \A x \in S \ {y} : f[x] = g[x]
  PROVE  SumOf(g, S) = SumOf(f, S) - f[y] + g[y]
<1>1. IsFiniteSet(S \ {y})
  BY FS_RemoveElement
<1>2. SumOf(f, S \ {y}) = SumOf(g, S \ {y}) /\ SumOf(f, S \ {y}) \in Nat
  BY <1>1, SumAgree, SumType
<1>3. SumOf(f, S) = f[y] + SumOf(f, S \ {y}) /\ SumOf(g, S) = g[y] + SumOf(g, S \ {y})
  BY SumRemove
<1>4. f[y] \in Nat /\ g[y] \in Nat
  OBVIOUS
<1> QED BY <1>2, <1>3, <1>4

\* A sum over a part is at most the whole.
LEMMA SumSubset ==
  ASSUME NEW g, NEW S, IsFiniteSet(S), \A x \in S : g[x] \in Nat, NEW T \in SUBSET S
  PROVE  SumOf(g, T) <= SumOf(g, S)
<1> DEFINE F == {U \in SUBSET S :
                   \A V \in SUBSET U : SumOf(g, V) <= SumOf(g, U)}
<1>1. \A V \in SUBSET S : IsFiniteSet(V) /\ SumOf(g, V) \in Nat
  BY FS_Subset, SumType
<1>2. ASSUME NEW U \in SUBSET S, \A x \in U : U \ {x} \in F, NEW V \in SUBSET U
      PROVE  SumOf(g, V) <= SumOf(g, U)
  <2>1. CASE V = U
    BY <1>1, <2>1
  <2>2. CASE V # U
    <3>1. PICK x \in U : x \notin V
      BY <2>2
    <3>2. SumOf(g, V) <= SumOf(g, U \ {x})
      BY <1>2, <3>1
    <3>3. SumOf(g, U) = g[x] + SumOf(g, U \ {x})
      BY <1>1, SumRemove
    <3>4. SumOf(g, V) \in Nat /\ SumOf(g, U \ {x}) \in Nat /\ g[x] \in Nat
      BY <1>1
    <3> QED BY <3>2, <3>3, <3>4
  <2> QED BY <2>1, <2>2
<1>3. S \in F
  <2>1. \A U \in SUBSET S : (\A x \in U : U \ {x} \in F) => U \in F
    BY <1>2
  <2> HIDE DEF F
  <2> QED BY <2>1, FiniteSetInduction
<1> QED BY <1>3

\* A set covered by two others sums to no more than they do together.
LEMMA SumCover ==
  ASSUME NEW g, NEW A, NEW B, NEW S, IsFiniteSet(A), IsFiniteSet(B),
         S \subseteq A \cup B, \A x \in A \cup B : g[x] \in Nat
  PROVE  SumOf(g, S) <= SumOf(g, A) + SumOf(g, B)
<1> DEFINE F == {U \in SUBSET A : SumOf(g, U \cup B) <= SumOf(g, U) + SumOf(g, B)}
<1>1. ASSUME NEW V, V \subseteq A \cup B
      PROVE  IsFiniteSet(V) /\ SumOf(g, V) \in Nat
  <2>1. IsFiniteSet(V)
    BY <1>1, FS_Union, FS_Subset
  <2> QED BY <1>1, <2>1, SumType
<1>2. ASSUME NEW U \in SUBSET A, \A x \in U : U \ {x} \in F
      PROVE  SumOf(g, U \cup B) <= SumOf(g, U) + SumOf(g, B)
  <2>1. CASE U = {}
    BY <1>1, <2>1, SumEmpty
  <2>2. CASE U # {}
    <3>1. PICK x \in U : TRUE
      BY <2>2
    <3> DEFINE W == U \ {x}
    <3>2. SumOf(g, W \cup B) <= SumOf(g, W) + SumOf(g, B)
      BY <1>2
    <3>3. SumOf(g, U) = g[x] + SumOf(g, W)
      BY <1>1, SumRemove
    <3>4. SumOf(g, U \cup B) <= g[x] + SumOf(g, W \cup B)
      <4>1. CASE x \in B
        <5>1. W \cup B = U \cup B
          BY <4>1
        <5> QED BY <1>1, <5>1
      <4>2. CASE x \notin B
        <5>1. (U \cup B) \ {x} = W \cup B
          BY <4>2
        <5>2. SumOf(g, U \cup B) = g[x] + SumOf(g, (U \cup B) \ {x})
          BY <1>1, SumRemove
        <5> HIDE DEF W
        <5>3. g[x] + SumOf(g, W \cup B) \in Nat
          BY <1>1 DEF W
        <5> QED BY <5>1, <5>2, <5>3
      <4> QED BY <4>1, <4>2
    <3>5. /\ g[x] \in Nat /\ SumOf(g, W) \in Nat /\ SumOf(g, W \cup B) \in Nat
          /\ SumOf(g, U) \in Nat /\ SumOf(g, U \cup B) \in Nat /\ SumOf(g, B) \in Nat
      BY <1>1
    <3> HIDE DEF W
    <3> QED BY <3>2, <3>3, <3>4, <3>5
  <2> QED BY <2>1, <2>2
<1>3. A \in F
  <2>1. \A U \in SUBSET A : (\A x \in U : U \ {x} \in F) => U \in F
    BY <1>2
  <2> HIDE DEF F
  <2> QED BY <2>1, FiniteSetInduction
<1>4. SumOf(g, S) <= SumOf(g, A \cup B)
  BY <1>1, SumSubset
<1>5. /\ SumOf(g, S) \in Nat /\ SumOf(g, A \cup B) \in Nat
      /\ SumOf(g, A) \in Nat /\ SumOf(g, B) \in Nat
  BY <1>1
<1> QED BY <1>3, <1>4, <1>5

-----------------------------------------------------------------------------
(* The community module's sums are these.                                   *)

\* The sum of a function's values.
LEMMA FunctionSum ==
  ASSUME NEW g, NEW S, IsFiniteSet(S)
  PROVE  MapThenSumSet(LAMBDA x : g[x], S) = SumOf(g, S)
<1>1. \E h : IsSum(h, g, S)
  BY SumExists
<1>2. \E h : IsSum(h, g, S) /\ MapThenSumSet(LAMBDA x : g[x], S) = h[S]
  BY <1>1 DEF IsSum, First, MapThenSumSet, MapThenFoldSet
<1>3. \E h : IsSum(h, g, S) /\ SumOf(g, S) = h[S]
  BY SumOfIsSum
<1> QED BY <1>2, <1>3, SumUnique

=============================================================================
