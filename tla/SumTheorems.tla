----------------------------- MODULE SumTheorems -----------------------------
(***************************************************************************)
(* Facts about SumFunction of the community modules that the proofs about  *)
(* the reports need.  The induction over finite sets that they take is     *)
(* done for a set of numbers, of which the library's pigeonhole principle  *)
(* says that it is all of them.                                            *)
(***************************************************************************)
EXTENDS Integers, FiniteSets, Functions, FiniteSetTheorems, TLAPS

(* A set of naturals with 0 and all successors holds them all: if n were     *)
(* missing, successor would map those below n one to one into one less.      *)
LEMMA AllNaturals ==
  ASSUME NEW N, 0 \in N, \A n \in Nat : n \in N => n + 1 \in N, NEW m \in Nat
  PROVE  m \in N
<1> SUFFICES ASSUME m \notin N PROVE FALSE
  OBVIOUS
<1> DEFINE A == {n \in 0..m : n \in N}
<1> DEFINE next == [n \in A |-> n + 1]
<1>1. IsFiniteSet(A) /\ A \subseteq Nat
  <2>1. IsFiniteSet(0..m) /\ A \in SUBSET (0..m)
    BY FS_Interval
  <2> QED BY <2>1, FS_Subset
<1>2. IsFiniteSet(A \ {0}) /\ Cardinality(A \ {0}) = Cardinality(A) - 1
  <2>1. 0 \in A
    OBVIOUS
  <2> QED BY <1>1, <2>1, FS_RemoveElement
<1>3. Cardinality(A \ {0}) < Cardinality(A)
  BY <1>1, <1>2, FS_CardinalityType
<1>4. next \in [A -> A \ {0}]
  <2>1. ASSUME NEW n \in A PROVE n + 1 \in A \ {0}
    OBVIOUS
  <2> QED BY <2>1
<1>5. PICK x, y \in A : x # y /\ next[x] = next[y]
  <2> HIDE DEF A, next
  <2> QED BY <1>1, <1>2, <1>3, <1>4, FS_PigeonHole
<1> QED BY <1>1, <1>5

(* Induction over a finite set S: Q holds a set if it holds all that have one *)
(* element less.                                                              *)
LEMMA AllSubsets ==
  ASSUME NEW S, IsFiniteSet(S), NEW Q,
         \A T \in SUBSET S : (\A x \in T : T \ {x} \in Q) => T \in Q
  PROVE  S \in Q
<1> DEFINE N == {n \in Nat : \A T \in SUBSET S : Cardinality(T) = n => T \in Q}
<1>1. 0 \in N
  <2>1. ASSUME NEW T \in SUBSET S, Cardinality(T) = 0 PROVE T \in Q
    <3>1. T = {}
      BY <2>1, FS_Subset, FS_EmptySet
    <3> QED BY <3>1
  <2> QED BY <2>1
<1>2. ASSUME NEW n \in Nat, n \in N PROVE n + 1 \in N
  <2>1. SUFFICES ASSUME NEW T \in SUBSET S, Cardinality(T) = n + 1 PROVE T \in Q
    OBVIOUS
  <2>2. IsFiniteSet(T)
    BY FS_Subset
  <2>3. ASSUME NEW x \in T PROVE T \ {x} \in Q
    <3>1. Cardinality(T \ {x}) = Cardinality(T) - 1
      BY <2>2, FS_RemoveElement
    <3>2. Cardinality(T \ {x}) = n
      BY <2>1, <3>1
    <3> QED BY <1>2, <3>2
  <2> QED BY <2>3
<1>3. Cardinality(S) \in Nat
  BY FS_CardinalityType
<1> HIDE DEF N
<1>4. Cardinality(S) \in N
  BY <1>1, <1>2, <1>3, AllNaturals
<1> QED BY <1>4 DEF N

-----------------------------------------------------------------------------
(* The function that the fold defines *)

\* One step of it: the element of s that is chosen, and what t has for the others.
FoldChoice(s) == CHOOSE x \in s : TRUE
FoldRest(s) == s \ {FoldChoice(s)}
FoldStep(f, s, t) == IF s = {} THEN 0 ELSE f[FoldChoice(s)] + t[FoldRest(s)]

IsFold(f, D, t) == t = [s \in D |-> FoldStep(f, s, t)]

LEMMA SumDef ==
  ASSUME NEW f, NEW S
  PROVE  SumFunctionOnSet(f, S) = (CHOOSE t : IsFold(f, SUBSET S, t))[S]
  BY DEF SumFunctionOnSet, FoldFunctionOnSet, MapThenFoldSet, IsFold, FoldStep, FoldChoice, FoldRest

LEMMA FoldChoiceIn == ASSUME NEW s, s # {} PROVE FoldChoice(s) \in s
  BY DEF FoldChoice

LEMMA SumExists ==
  ASSUME NEW f, NEW S, IsFiniteSet(S)
  PROVE  \E t : IsFold(f, SUBSET S, t)
<1> DEFINE Upto(n) == {T \in SUBSET S : Cardinality(T) <= n}
<1> DEFINE N == {n \in Nat : \E t : IsFold(f, Upto(n), t)}
<1>1. 0 \in N
  <2>1. ASSUME NEW T \in Upto(0) PROVE T = {}
    BY FS_Subset, FS_EmptySet, FS_CardinalityType
  <2>2. IsFold(f, Upto(0), [s \in Upto(0) |-> 0])
    BY <2>1 DEF IsFold, FoldStep
  <2> QED BY <2>2
<1>2. ASSUME NEW n \in Nat, n \in N PROVE n + 1 \in N
  <2>1. PICK t : IsFold(f, Upto(n), t)
    BY <1>2
  <2> DEFINE u == [s \in Upto(n + 1) |-> FoldStep(f, s, t)]
  <2>2. ASSUME NEW s \in Upto(n + 1), s # {} PROVE u[FoldRest(s)] = t[FoldRest(s)]
    <3>1. IsFiniteSet(s) /\ Cardinality(s) \in Nat
      BY FS_Subset, FS_CardinalityType
    <3>2. Cardinality(FoldRest(s)) = Cardinality(s) - 1
      BY <2>2, <3>1, FoldChoiceIn, FS_RemoveElement DEF FoldRest
    <3>3. FoldRest(s) \in SUBSET S
      BY DEF FoldRest
    <3>4. FoldRest(s) \in Upto(n) /\ FoldRest(s) \in Upto(n + 1)
      BY <3>1, <3>2, <3>3
    <3>5. t[FoldRest(s)] = FoldStep(f, FoldRest(s), t)
      BY <2>1, <3>4 DEF IsFold
    <3> QED BY <3>4, <3>5
  <2>3. \A s \in Upto(n + 1) : FoldStep(f, s, u) = FoldStep(f, s, t)
    <3> HIDE DEF Upto, u
    <3> QED BY <2>2 DEF FoldStep
  <2>4. IsFold(f, Upto(n + 1), u)
    BY <2>3 DEF IsFold
  <2>5. n + 1 \in Nat
    OBVIOUS
  <2> HIDE DEF Upto, u
  <2> QED BY <2>4, <2>5
<1>3. Cardinality(S) \in Nat
  BY FS_CardinalityType
<1>4. Upto(Cardinality(S)) = SUBSET S
  BY FS_Subset
<1>5. Cardinality(S) \in N
  <2> HIDE DEF N
  <2> QED BY <1>1, <1>2, <1>3, AllNaturals
<1> QED BY <1>4, <1>5

LEMMA SumUnique ==
  ASSUME NEW f, NEW S, IsFiniteSet(S),
         NEW D, SUBSET S \subseteq D, NEW t, IsFold(f, D, t),
         NEW E, SUBSET S \subseteq E, NEW u, IsFold(f, E, u)
  PROVE  t[S] = u[S]
<1> DEFINE Q == {T \in SUBSET S : t[T] = u[T]}
<1>1. ASSUME NEW T \in SUBSET S, \A x \in T : T \ {x} \in Q PROVE T \in Q
  <2>1. T # {} => FoldRest(T) \in Q
    BY <1>1, FoldChoiceIn DEF FoldRest
  <2>2. t[T] = FoldStep(f, T, t) /\ u[T] = FoldStep(f, T, u)
    BY DEF IsFold
  <2> QED BY <2>1, <2>2 DEF FoldStep
<1>2. S \in Q
  <2> HIDE DEF Q
  <2> QED BY <1>1, AllSubsets
<1> QED BY <1>2

LEMMA SumIs ==
  ASSUME NEW f, NEW S, IsFiniteSet(S)
  PROVE  \E t : /\ IsFold(f, SUBSET S, t)
                /\ \A T \in SUBSET S : SumFunctionOnSet(f, T) = t[T]
<1>1. PICK t : t = CHOOSE u : IsFold(f, SUBSET S, u)
  OBVIOUS
<1>2. IsFold(f, SUBSET S, t)
  BY <1>1, SumExists
<1>3. ASSUME NEW T \in SUBSET S PROVE SumFunctionOnSet(f, T) = t[T]
  <2>1. PICK u : u = CHOOSE v : IsFold(f, SUBSET T, v)
    OBVIOUS
  <2>2. IsFiniteSet(T)
    BY FS_Subset
  <2>3. IsFold(f, SUBSET T, u)
    BY <2>1, <2>2, SumExists
  <2>4. SumFunctionOnSet(f, T) = u[T]
    BY <2>1, SumDef
  <2>5. SUBSET T \subseteq SUBSET S
    OBVIOUS
  <2> QED BY <1>2, <2>2, <2>3, <2>4, <2>5, SumUnique
<1> QED BY <1>2, <1>3

-----------------------------------------------------------------------------
(* Sums *)

(* A sum over nothing *)
LEMMA SumEmpty == ASSUME NEW f PROVE SumFunctionOnSet(f, {}) = 0
<1>1. IsFiniteSet({})
  BY FS_EmptySet
<1>2. PICK t : /\ IsFold(f, SUBSET {}, t)
               /\ \A T \in SUBSET {} : SumFunctionOnSet(f, T) = t[T]
  BY <1>1, SumIs
<1> QED BY <1>2 DEF IsFold, FoldStep

LEMMA SumStep ==
  ASSUME NEW f, NEW S, IsFiniteSet(S), S # {}
  PROVE  SumFunctionOnSet(f, S) = f[FoldChoice(S)] + SumFunctionOnSet(f, FoldRest(S))
<1>1. PICK t : /\ IsFold(f, SUBSET S, t)
               /\ \A T \in SUBSET S : SumFunctionOnSet(f, T) = t[T]
  BY SumIs
<1>2. S \in SUBSET S /\ FoldRest(S) \in SUBSET S
  BY DEF FoldRest
<1>3. t[S] = FoldStep(f, S, t)
  BY <1>1, <1>2 DEF IsFold
<1> QED BY <1>1, <1>2, <1>3 DEF FoldStep

(* A sum of integers is one. *)
LEMMA SumInt ==
  ASSUME NEW S, IsFiniteSet(S), NEW f, \A x \in S : f[x] \in Int
  PROVE  SumFunctionOnSet(f, S) \in Int
<1> DEFINE Q == {T \in SUBSET S : SumFunctionOnSet(f, T) \in Int}
<1>1. ASSUME NEW T \in SUBSET S, \A x \in T : T \ {x} \in Q PROVE T \in Q
  <2>1. CASE T = {}
    BY <2>1, SumEmpty
  <2>2. CASE T # {}
    <3>1. FoldChoice(T) \in T
      BY <2>2, FoldChoiceIn
    <3>2. SumFunctionOnSet(f, T) = f[FoldChoice(T)] + SumFunctionOnSet(f, T \ {FoldChoice(T)})
      BY <2>2, SumStep, FS_Subset DEF FoldRest
    <3>3. f[FoldChoice(T)] \in Int /\ SumFunctionOnSet(f, T \ {FoldChoice(T)}) \in Int
      BY <1>1, <3>1
    <3> QED BY <3>2, <3>3
  <2> QED BY <2>1, <2>2
<1>2. S \in Q
  <2> HIDE DEF Q
  <2> QED BY <1>1, AllSubsets
<1> QED BY <1>2

(* Any of them can be taken out. *)
LEMMA SumRemove ==
  ASSUME NEW S, IsFiniteSet(S), NEW f, \A x \in S : f[x] \in Int
  PROVE  \A x \in S : SumFunctionOnSet(f, S) = f[x] + SumFunctionOnSet(f, S \ {x})
<1> DEFINE Q == {T \in SUBSET S :
        \A x \in T : SumFunctionOnSet(f, T) = f[x] + SumFunctionOnSet(f, T \ {x})}
<1>1. ASSUME NEW T \in SUBSET S, \A x \in T : T \ {x} \in Q PROVE T \in Q
  <2>1. CASE T = {}
    BY <2>1
  <2>2. CASE T # {}
    <3>1. IsFiniteSet(T)
      BY FS_Subset
    <3>2. PICK c : c = FoldChoice(T)
      OBVIOUS
    <3>3. c \in T
      BY <2>2, <3>2, FoldChoiceIn
    <3>4. SumFunctionOnSet(f, T) = f[c] + SumFunctionOnSet(f, T \ {c})
      BY <2>2, <3>1, <3>2, SumStep DEF FoldRest
    <3>5. T \ {c} \in Q /\ f[c] \in Int
      BY <1>1, <3>3
    <3>7. ASSUME NEW x \in T, x # c
          PROVE  SumFunctionOnSet(f, T) = f[x] + SumFunctionOnSet(f, T \ {x})
      <4>1. PICK rest : rest = SumFunctionOnSet(f, (T \ {c}) \ {x})
        OBVIOUS
      <4>2. (T \ {x}) \ {c} = (T \ {c}) \ {x}
        OBVIOUS
      <4>3. SumFunctionOnSet(f, T \ {c}) = f[x] + rest
        BY <3>5, <3>7, <4>1
      <4>4. T \ {x} \in Q /\ f[x] \in Int
        BY <1>1
      <4>5. SumFunctionOnSet(f, T \ {x}) = f[c] + rest
        <5>1. c \in T \ {x}
          BY <3>3, <3>7
        <5>2. SumFunctionOnSet(f, T \ {x}) = f[c] + SumFunctionOnSet(f, (T \ {x}) \ {c})
          BY <4>4, <5>1
        <5> QED BY <4>1, <4>2, <5>2
      <4>6. rest \in Int
        <5>1. (T \ {c}) \ {x} \in SUBSET S
          OBVIOUS
        <5>2. IsFiniteSet((T \ {c}) \ {x})
          BY <5>1, FS_Subset
        <5> QED BY <4>1, <5>1, <5>2, SumInt
      <4> QED BY <3>4, <3>5, <4>3, <4>4, <4>5, <4>6
    <3> QED BY <3>4, <3>7
  <2> QED BY <2>1, <2>2
<1>2. S \in Q
  <2> HIDE DEF Q
  <2> QED BY <1>1, AllSubsets
<1> QED BY <1>2
(* Nothing but the numbers matters. *)
LEMMA SumSame ==
  ASSUME NEW S, IsFiniteSet(S), NEW f, NEW g, \A x \in S : f[x] = g[x]
  PROVE  SumFunctionOnSet(f, S) = SumFunctionOnSet(g, S)
<1> DEFINE Q == {T \in SUBSET S : SumFunctionOnSet(f, T) = SumFunctionOnSet(g, T)}
<1>1. ASSUME NEW T \in SUBSET S, \A x \in T : T \ {x} \in Q PROVE T \in Q
  <2>1. CASE T = {}
    BY <2>1, SumEmpty
  <2>2. CASE T # {}
    <3>1. FoldChoice(T) \in T
      BY <2>2, FoldChoiceIn
    <3>2. IsFiniteSet(T)
      BY FS_Subset
    <3>3. /\ SumFunctionOnSet(f, T) = f[FoldChoice(T)] + SumFunctionOnSet(f, T \ {FoldChoice(T)})
          /\ SumFunctionOnSet(g, T) = g[FoldChoice(T)] + SumFunctionOnSet(g, T \ {FoldChoice(T)})
      BY <2>2, <3>2, SumStep DEF FoldRest
    <3>4. T \ {FoldChoice(T)} \in Q /\ f[FoldChoice(T)] = g[FoldChoice(T)]
      BY <1>1, <3>1
    <3> QED BY <3>3, <3>4
  <2> QED BY <2>1, <2>2
<1>2. S \in Q
  <2> HIDE DEF Q
  <2> QED BY <1>1, AllSubsets
<1> QED BY <1>2

(* Sums term by term *)
LEMMA SumPlus ==
  ASSUME NEW S, IsFiniteSet(S), NEW f, NEW g, NEW h,
         \A x \in S : f[x] \in Int /\ g[x] \in Int /\ h[x] = f[x] + g[x]
  PROVE  SumFunctionOnSet(h, S) = SumFunctionOnSet(f, S) + SumFunctionOnSet(g, S)
<1> DEFINE Q == {T \in SUBSET S :
        SumFunctionOnSet(h, T) = SumFunctionOnSet(f, T) + SumFunctionOnSet(g, T)}
<1>1. ASSUME NEW T \in SUBSET S, \A x \in T : T \ {x} \in Q PROVE T \in Q
  <2>1. CASE T = {}
    BY <2>1, SumEmpty
  <2>2. CASE T # {}
    <3>1. PICK x : x \in T
      BY <2>2
    <3>2. IsFiniteSet(T) /\ IsFiniteSet(T \ {x}) /\ T \ {x} \in SUBSET S
      BY FS_Subset
    <3>3. /\ SumFunctionOnSet(f, T) = f[x] + SumFunctionOnSet(f, T \ {x})
          /\ SumFunctionOnSet(g, T) = g[x] + SumFunctionOnSet(g, T \ {x})
      BY <3>1, <3>2, SumRemove
    <3>4. SumFunctionOnSet(h, T) = h[x] + SumFunctionOnSet(h, T \ {x})
      <4>1. \A y \in T : h[y] \in Int
        OBVIOUS
      <4> QED BY <4>1, <3>1, <3>2, SumRemove
    <3>5. SumFunctionOnSet(f, T \ {x}) \in Int /\ SumFunctionOnSet(g, T \ {x}) \in Int
      BY <3>2, SumInt
    <3>6. T \ {x} \in Q /\ h[x] = f[x] + g[x] /\ f[x] \in Int /\ g[x] \in Int
      BY <1>1, <3>1
    <3>7. SumFunctionOnSet(h, T \ {x})
            = SumFunctionOnSet(f, T \ {x}) + SumFunctionOnSet(g, T \ {x})
      BY <3>6
    <3>8. SumFunctionOnSet(h, T) = SumFunctionOnSet(f, T) + SumFunctionOnSet(g, T)
      <4> HIDE DEF Q
      <4> QED BY <3>3, <3>4, <3>5, <3>6, <3>7
    <3> QED BY <3>8
  <2> QED BY <2>1, <2>2
<1>2. S \in Q
  <2> HIDE DEF Q
  <2> QED BY <1>1, AllSubsets
<1> QED BY <1>2

(* A sum of terms none of which exceeds m *)
LEMMA SumBound ==
  ASSUME NEW S, IsFiniteSet(S), NEW m \in Int, NEW f, \A x \in S : f[x] \in Int /\ f[x] <= m
  PROVE  SumFunctionOnSet(f, S) <= Cardinality(S) * m
<1> DEFINE Q == {T \in SUBSET S : SumFunctionOnSet(f, T) <= Cardinality(T) * m}
<1>1. ASSUME NEW T \in SUBSET S, \A x \in T : T \ {x} \in Q PROVE T \in Q
  <2>1. CASE T = {}
    <3>1. 0 * m = 0
      OBVIOUS
    <3> QED BY <2>1, <3>1, SumEmpty, FS_EmptySet
  <2>2. CASE T # {}
    <3>1. PICK x : x \in T
      BY <2>2
    <3>2. IsFiniteSet(T) /\ IsFiniteSet(T \ {x}) /\ T \ {x} \in SUBSET S
      BY FS_Subset
    <3>3. SumFunctionOnSet(f, T) = f[x] + SumFunctionOnSet(f, T \ {x})
      BY <3>1, <3>2, SumRemove
    <3>4. PICK n \in Nat : Cardinality(T \ {x}) = n /\ Cardinality(T) = n + 1
      <4>1. Cardinality(T \ {x}) = Cardinality(T) - 1 /\ Cardinality(T) \in Nat
        BY <3>1, <3>2, FS_RemoveElement, FS_CardinalityType
      <4>2. Cardinality(T \ {x}) \in Nat
        BY <3>2, FS_CardinalityType
      <4> QED BY <4>1, <4>2
    <3>5. SumFunctionOnSet(f, T \ {x}) <= n * m
      BY <1>1, <3>1, <3>4
    <3>6. SumFunctionOnSet(f, T \ {x}) \in Int
      BY <3>2, SumInt
    <3>7. (n + 1) * m = n * m + m /\ n * m \in Int
      OBVIOUS
    <3>8. f[x] \in Int /\ f[x] <= m
      BY <3>1
    <3>9. SumFunctionOnSet(f, T) <= Cardinality(T) * m
      <4> HIDE DEF Q
      <4> QED BY <3>3, <3>4, <3>5, <3>6, <3>7, <3>8
    <3> QED BY <3>9
  <2> QED BY <2>1, <2>2
<1>2. S \in Q
  <2> HIDE DEF Q
  <2> QED BY <1>1, AllSubsets
<1> QED BY <1>2

(* A set has as many elements as ones add up to. *)
LEMMA SumOfOnes ==
  ASSUME NEW S, IsFiniteSet(S), NEW f, \A x \in S : f[x] = 1
  PROVE  SumFunctionOnSet(f, S) = Cardinality(S)
<1> DEFINE Q == {T \in SUBSET S : SumFunctionOnSet(f, T) = Cardinality(T)}
<1>1. ASSUME NEW T \in SUBSET S, \A x \in T : T \ {x} \in Q PROVE T \in Q
  <2>1. CASE T = {}
    BY <2>1, SumEmpty, FS_EmptySet
  <2>2. CASE T # {}
    <3>1. PICK x : x \in T
      BY <2>2
    <3>2. IsFiniteSet(T) /\ \A y \in T : f[y] \in Int
      BY FS_Subset
    <3>3. SumFunctionOnSet(f, T) = f[x] + SumFunctionOnSet(f, T \ {x})
      BY <3>1, <3>2, SumRemove
    <3>4. Cardinality(T \ {x}) = Cardinality(T) - 1 /\ Cardinality(T) \in Nat
      BY <3>1, <3>2, FS_RemoveElement, FS_CardinalityType
    <3>5. T \ {x} \in Q /\ f[x] = 1
      BY <1>1, <3>1
    <3>6. SumFunctionOnSet(f, T) = Cardinality(T)
      BY <3>3, <3>4, <3>5
    <3> QED BY <3>6
  <2> QED BY <2>1, <2>2
<1>2. S \in Q
  <2> HIDE DEF Q
  <2> QED BY <1>1, AllSubsets
<1> QED BY <1>2

(* A sum over S is that of the sums over the parts of S that h tells apart.  *)
Part(S, h, g) == {x \in S : h[x] = g}

LEMMA SumOfParts ==
  ASSUME NEW S, IsFiniteSet(S), NEW f, \A x \in S : f[x] \in Int,
         NEW G, IsFiniteSet(G), NEW h, \A x \in S : h[x] \in G,
         NEW part, \A g \in G : part[g] = SumFunctionOnSet(f, Part(S, h, g))
  PROVE  SumFunctionOnSet(f, S) = SumFunctionOnSet(part, G)
<1> DEFINE In(T, g) == {x \in T : h[x] = g}
<1> DEFINE P(T) == [g \in G |-> SumFunctionOnSet(f, In(T, g))]
<1> DEFINE Q == {T \in SUBSET S : SumFunctionOnSet(f, T) = SumFunctionOnSet(P(T), G)}
<1>0. ASSUME NEW T \in SUBSET S, NEW g \in G
      PROVE  IsFiniteSet(In(T, g)) /\ P(T)[g] \in Int
  <2>1. In(T, g) \in SUBSET S
    OBVIOUS
  <2>2. IsFiniteSet(In(T, g))
    BY <2>1, FS_Subset
  <2>3. \A x \in In(T, g) : f[x] \in Int
    BY <2>1
  <2>4. SumFunctionOnSet(f, In(T, g)) \in Int
    <3> HIDE DEF In
    <3> QED BY <2>2, <2>3, SumInt
  <2> QED BY <2>2, <2>4
<1>1. ASSUME NEW T \in SUBSET S, \A x \in T : T \ {x} \in Q PROVE T \in Q
  <2>1. CASE T = {}
    <3>1. \A g \in G : P(T)[g] = 0
      <4>1. \A g \in G : In(T, g) = {}
        BY <2>1
      <4> QED BY <4>1, SumEmpty
    <3>2. PICK o : o = [g \in G |-> 0]
      OBVIOUS
    <3>3. SumFunctionOnSet(o, G) = 0
      <4>1. \A g \in G : o[g] \in Int /\ o[g] = o[g] + o[g]
        BY <3>2
      <4>2. SumFunctionOnSet(o, G) = SumFunctionOnSet(o, G) + SumFunctionOnSet(o, G)
        BY <4>1, SumPlus
      <4>3. SumFunctionOnSet(o, G) \in Int
        BY <4>1, SumInt
      <4>4. \A z \in Int : z = z + z => z = 0
        OBVIOUS
      <4> QED BY <4>2, <4>3, <4>4
    <3>4. SumFunctionOnSet(P(T), G) = 0
      <4>1. \A g \in G : P(T)[g] = o[g]
        BY <3>1, <3>2
      <4> HIDE DEF P
      <4> QED BY <4>1, <3>3, SumSame
    <3> HIDE DEF P
    <3>5. SumFunctionOnSet(f, T) = SumFunctionOnSet(P(T), G)
      BY <2>1, <3>4, SumEmpty
    <3> QED BY <3>5
  <2>2. CASE T # {}
    <3>1. PICK x : x \in T
      BY <2>2
    <3>2. PICK c : c = h[x]
      OBVIOUS
    <3>3. PICK U : U = T \ {x}
      OBVIOUS
    <3>4. c \in G /\ f[x] \in Int /\ U \in SUBSET S /\ IsFiniteSet(T) /\ U \in Q
      BY <1>1, <3>1, <3>2, <3>3, FS_Subset
    <3>5. \A g \in G : P(T)[g] = IF g = c THEN f[x] + P(U)[c] ELSE P(U)[g]
      <4>1. ASSUME NEW g \in G, g # c PROVE P(T)[g] = P(U)[g]
        <5>1. In(T, g) = In(U, g)
          BY <3>2, <3>3, <4>1
        <5> QED BY <5>1
      <4>2. P(T)[c] = f[x] + P(U)[c]
        <5>1. In(U, c) = In(T, c) \ {x} /\ x \in In(T, c)
          BY <3>1, <3>2, <3>3
        <5>2. IsFiniteSet(In(T, c)) /\ \A y \in In(T, c) : f[y] \in Int
          BY <1>0, <3>4
        <5>3. SumFunctionOnSet(f, In(T, c)) = f[x] + SumFunctionOnSet(f, In(U, c))
          <6> HIDE DEF In
          <6> QED BY <5>1, <5>2, SumRemove
        <5> QED BY <3>4, <5>3
      <4> QED BY <4>1, <4>2
    <3>6. \A g \in G : P(T)[g] \in Int /\ P(U)[g] \in Int
      BY <1>0, <3>4
    <3>7. SumFunctionOnSet(P(T), G \ {c}) = SumFunctionOnSet(P(U), G \ {c})
      <4>1. IsFiniteSet(G \ {c}) /\ \A g \in G \ {c} : P(T)[g] = P(U)[g]
        BY <3>5, FS_RemoveElement
      <4> HIDE DEF P
      <4> QED BY <4>1, SumSame
    <3>8. /\ SumFunctionOnSet(P(T), G) = P(T)[c] + SumFunctionOnSet(P(T), G \ {c})
          /\ SumFunctionOnSet(P(U), G) = P(U)[c] + SumFunctionOnSet(P(U), G \ {c})
      <4> HIDE DEF P
      <4> QED BY <3>4, <3>6, SumRemove
    <3>9. SumFunctionOnSet(f, T) = f[x] + SumFunctionOnSet(f, U)
      BY <3>1, <3>3, <3>4, SumRemove
    <3>10. SumFunctionOnSet(P(U), G \ {c}) \in Int
      <4>1. IsFiniteSet(G \ {c}) /\ \A g \in G \ {c} : P(U)[g] \in Int
        BY <3>6, FS_RemoveElement
      <4> HIDE DEF P
      <4> QED BY <4>1, SumInt
    <3>11. P(T)[c] = f[x] + P(U)[c]
      BY <3>4, <3>5
    <3>12. SumFunctionOnSet(f, U) = SumFunctionOnSet(P(U), G)
      BY <3>4
    <3>13. P(U)[c] \in Int
      BY <3>4, <3>6
    <3>14. SumFunctionOnSet(f, T) = SumFunctionOnSet(P(T), G)
      <4> HIDE DEF P
      <4> QED BY <3>4, <3>7, <3>8, <3>9, <3>10, <3>11, <3>12, <3>13
    <3> HIDE DEF P
    <3> QED BY <3>14
  <2> QED BY <2>1, <2>2
<1>2. S \in Q
  <2> HIDE DEF Q
  <2> QED BY <1>1, AllSubsets
<1>3. \A g \in G : P(S)[g] = part[g]
  BY DEF Part
<1>4. SumFunctionOnSet(P(S), G) = SumFunctionOnSet(part, G)
  <2> HIDE DEF P
  <2> QED BY <1>3, SumSame
<1> QED BY <1>2, <1>4

(* The elements of S, counted for each value of h. *)
LEMMA CountOfParts ==
  ASSUME NEW S, IsFiniteSet(S), NEW G, IsFiniteSet(G), NEW h, \A x \in S : h[x] \in G,
         NEW part, \A g \in G : part[g] = Cardinality(Part(S, h, g))
  PROVE  Cardinality(S) = SumFunctionOnSet(part, G)
<1>1. PICK f : f = [x \in S |-> 1]
  OBVIOUS
<1>2. \A x \in S : f[x] = 1
  BY <1>1
<1>3. ASSUME NEW g \in G PROVE part[g] = SumFunctionOnSet(f, Part(S, h, g))
  <2>1. PICK T : T = Part(S, h, g)
    OBVIOUS
  <2>2. T \in SUBSET S
    BY <2>1 DEF Part
  <2>3. IsFiniteSet(T) /\ \A x \in T : f[x] = 1
    BY <1>2, <2>2, FS_Subset
  <2>4. SumFunctionOnSet(f, T) = Cardinality(T)
    BY <2>3, SumOfOnes
  <2> QED BY <2>1, <2>4
<1>4. SumFunctionOnSet(f, S) = SumFunctionOnSet(part, G)
  <2>1. \A x \in S : f[x] \in Int
    BY <1>2
  <2>2. \A g \in G : part[g] = SumFunctionOnSet(f, Part(S, h, g))
    BY <1>3
  <2> QED BY <2>1, <2>2, SumOfParts
<1> QED BY <1>2, <1>4, SumOfOnes

(* Triples of finitely many things *)
LEMMA TriplesFinite ==
  ASSUME NEW A, IsFiniteSet(A), NEW B, IsFiniteSet(B), NEW C, IsFiniteSet(C)
  PROVE  IsFiniteSet(A \X B \X C)
<1> DEFINE pair == [x \in A \X B \X C |-> <<<<x[1], x[2]>>, x[3]>>]
<1>1. IsFiniteSet((A \X B) \X C)
  <2>1. IsFiniteSet(A \X B)
    BY FS_Product
  <2> QED BY <2>1, FS_Product
<1>2. pair \in Injection(A \X B \X C, (A \X B) \X C)
  <2>1. pair \in [A \X B \X C -> (A \X B) \X C]
    OBVIOUS
  <2>2. ASSUME NEW x \in A \X B \X C, NEW y \in A \X B \X C, pair[x] = pair[y] PROVE x = y
    <3>1. x[1] = y[1] /\ x[2] = y[2] /\ x[3] = y[3]
      BY <2>2
    <3>2. x = <<x[1], x[2], x[3]>> /\ y = <<y[1], y[2], y[3]>>
      OBVIOUS
    <3> QED BY <3>1, <3>2
  <2> QED BY <2>1, <2>2 DEF Injection, IsInjective
<1> QED BY <1>1, <1>2, FS_Injection
=============================================================================
