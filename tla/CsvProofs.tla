----------------------------- MODULE CsvProofs -----------------------------
(***************************************************************************)
(* Proofs about CsvRows, for any number of nodes, NICs, buckets and lines,   *)
(* in any order of the nodes: the two CSV printers agree, no latency is lost *)
(* or counted twice, and the repeat numbers of one reporter tell its rows    *)
(* apart and, if its times do not go back, rise.                             *)
(*                                                                           *)
(* The first half is about data: sums over finite sets, taken part by part,  *)
(* and what comes first in sequences that are joined or folded.  Its lemmas  *)
(* down to Sums, and on sequences down to FlattenStep, are those of          *)
(* ReportProofs.  The second half has one invariant, Aggregate; the          *)
(* properties are about a single state and follow from it.                   *)
(***************************************************************************)
EXTENDS CsvRows, FiniteSetTheorems, SequenceTheorems, WellFoundedInduction, TLAPS

----------------------------------------------------------------------------
(* Induction, and sums over finite sets.                                     *)

(* A set of numbers that is not empty has a least one.                       *)
LEMMA Least ==
  ASSUME NEW T, T \subseteq Nat, T # {}
  PROVE  \E x \in T : \A y \in T : x <= y
<1> DEFINE R == OpToRel(<, Nat)
<1>1. IsWellFoundedOn(R, Nat)  BY NatLessThanWellFounded
<1>2. \A x, y \in Nat : x < y => <<x, y>> \in R  BY DEF OpToRel
<1> HIDE DEF R
<1>3. PICK x \in T : \A y \in T : ~(<<y, x>> \in R)  BY <1>1, WFMin
<1>4. \A y \in T : x <= y
  <2> TAKE y \in T
  <2>1. x \in Nat /\ y \in Nat  OBVIOUS
  <2>2. ~(y < x)  BY <1>2, <1>3, <2>1
  <2> QED BY <2>1, <2>2
<1> QED BY <1>4

(* Induction on a set of numbers: what a proof by induction is about is the  *)
(* set of the numbers for which it holds.                                    *)
LEMMA Induction ==
  ASSUME NEW T, 0 \in T, \A n \in Nat : n \in T => n + 1 \in T
  PROVE  Nat \subseteq T
<1> SUFFICES ASSUME Nat \ T # {} PROVE FALSE  OBVIOUS
<1>1. PICK x \in Nat \ T : \A y \in Nat \ T : x <= y  BY Least
<1>2. x # 0 OBVIOUS
<1>3. x - 1 \in Nat /\ x - 1 \in T  BY <1>1, <1>2
<1> QED BY <1>3, <1>1

(* Induction on the subsets of a finite set. *)
LEMMA OnSubsets ==
  ASSUME NEW S, IsFiniteSet(S), NEW D, {} \in D,
         \A T \in SUBSET S : T \in D => \A x \in S \ T : T \cup {x} \in D
  PROVE  \A T \in SUBSET S : T \in D
<1> DEFINE N == {n \in Nat : \A T \in SUBSET S : Cardinality(T) = n => T \in D}
<1>1. 0 \in N  BY FS_EmptySet, FS_Subset
<1>2. ASSUME NEW n \in Nat, n \in N PROVE n + 1 \in N
  <2> SUFFICES ASSUME NEW T \in SUBSET S, Cardinality(T) = n + 1 PROVE T \in D
    OBVIOUS
  <2>1. IsFiniteSet(T)  BY FS_Subset
  <2>2. T # {}  BY FS_EmptySet
  <2>3. PICK x \in T : TRUE  BY <2>2
  <2>4. Cardinality(T \ {x}) = Cardinality(T) - 1  BY <2>1, <2>3, FS_RemoveElement
  <2>5. T \ {x} \in D  BY <1>2, <2>4
  <2>6. T = (T \ {x}) \cup {x} /\ x \in S \ (T \ {x})  BY <2>3
  <2> QED BY <2>5, <2>6
<1>3. Nat \subseteq N
  <2> HIDE DEF N
  <2> QED BY <1>1, <1>2, Induction
<1> SUFFICES ASSUME NEW T \in SUBSET S PROVE T \in D  OBVIOUS
<1>4. IsFiniteSet(T) /\ Cardinality(T) \in Nat  BY FS_Subset, FS_CardinalityType
<1> QED BY <1>3, <1>4

(* g gives the sums of f over the subsets of S. *)
IsSum(g, f, S) ==
  /\ g \in [SUBSET S -> Int]
  /\ g[{}] = 0
  /\ \A T \in SUBSET S : \A x \in T : g[T] = f[x] + g[T \ {x}]

(* There is such a function, by induction on the subsets.                    *)
LEMMA SumExists ==
  ASSUME NEW S, IsFiniteSet(S), NEW f \in [S -> Int]
  PROVE  \E g : IsSum(g, f, S)
<1> DEFINE D == {T \in SUBSET S : \E g : IsSum(g, f, T)}
<1>1. {} \in D
  <2>1. IsSum([T \in {{}} |-> 0], f, {})  BY DEF IsSum
  <2> QED BY <2>1
<1>2. ASSUME NEW T \in SUBSET S, T \in D, NEW x \in S \ T PROVE T \cup {x} \in D
  <2>1. PICK g : IsSum(g, f, T)  BY <1>2
  <2> DEFINE h == [U \in SUBSET (T \cup {x}) |->
                     IF x \in U THEN f[x] + g[U \ {x}] ELSE g[U]]
  <2>2. \A U \in SUBSET (T \cup {x}) : U \ {x} \in SUBSET T /\ (x \notin U => U \in SUBSET T)
    OBVIOUS
  <2>3. h \in [SUBSET (T \cup {x}) -> Int]  BY <2>1, <2>2 DEF IsSum
  <2>4. h[{}] = 0  BY <2>1 DEF IsSum
  <2>5. ASSUME NEW U \in SUBSET (T \cup {x}), NEW y \in U PROVE h[U] = f[y] + h[U \ {y}]
    <3>1. CASE y = x
      <4>1. U \ {y} \in SUBSET (T \cup {x}) /\ x \notin U \ {y}  BY <3>1
      <4>2. h[U \ {y}] = g[U \ {x}]  BY <4>1, <3>1
      <4> QED BY <4>2, <3>1
    <3>2. CASE y # x /\ x \in U
      <4>1. h[U] = f[x] + g[U \ {x}]  BY <3>2
      <4>2. U \ {x} \in SUBSET T /\ y \in U \ {x}  BY <3>2
      <4> DEFINE W == (U \ {x}) \ {y}
      <4>3. g[U \ {x}] = f[y] + g[W]  BY <4>2, <2>1 DEF IsSum
      <4>4. U \ {y} \in SUBSET (T \cup {x}) /\ x \in U \ {y}  BY <3>2
      <4>5. (U \ {y}) \ {x} = W /\ W \in SUBSET T  OBVIOUS
      <4>6. h[U \ {y}] = f[x] + g[W]  BY <4>4, <4>5
      <4>7. f[x] \in Int /\ f[y] \in Int  BY <4>2
      <4>8. g[W] \in Int  BY <4>5, <2>1 DEF IsSum
      <4> HIDE DEF h, W
      <4> QED BY <4>1, <4>3, <4>6, <4>7, <4>8
    <3>3. CASE x \notin U
      <4>1. h[U] = g[U] /\ U \in SUBSET T  BY <3>3
      <4>2. U \ {y} \in SUBSET (T \cup {x}) /\ x \notin U \ {y}  BY <3>3
      <4>3. h[U \ {y}] = g[U \ {y}]  BY <4>2
      <4> QED BY <4>1, <4>3, <2>1 DEF IsSum
    <3> QED BY <3>1, <3>2, <3>3
  <2>6. IsSum(h, f, T \cup {x})
    <3> HIDE DEF h
    <3> QED BY <2>3, <2>4, <2>5 DEF IsSum
  <2> HIDE DEF h
  <2> QED BY <2>6
<1>3. S \in D
  <2> HIDE DEF D
  <2> QED BY <1>1, <1>2, OnSubsets
<1> QED BY <1>3

(* The fold of SumFunctionOnSet has such a function as its solution.         *)
LEMMA FoldOf ==
  ASSUME NEW S, NEW f, NEW g, IsSum(g, f, S)
  PROVE  \E i : /\ i = [s \in SUBSET S |->
                          IF s = {} THEN 0
                          ELSE f[CHOOSE x \in s : TRUE] + i[s \ {CHOOSE x \in s : TRUE}]]
                /\ SumFunctionOnSet(f, S) = i[S]
<1>1. g = [s \in SUBSET S |->
             IF s = {} THEN 0
             ELSE f[CHOOSE x \in s : TRUE] + g[s \ {CHOOSE x \in s : TRUE}]]
  <2>1. \A s \in SUBSET S : s # {} => (CHOOSE x \in s : TRUE) \in s  OBVIOUS
  <2> QED BY <2>1 DEF IsSum
<1> QED BY <1>1 DEF SumFunctionOnSet, FoldFunctionOnSet, MapThenFoldSet

(* Any such function has the value of SumFunctionOnSet.                      *)
LEMMA SumIs ==
  ASSUME NEW S, IsFiniteSet(S), NEW f, NEW g, IsSum(g, f, S)
  PROVE  SumFunctionOnSet(f, S) = g[S]
<1>1. PICK i : /\ i = [s \in SUBSET S |->
                          IF s = {} THEN 0
                          ELSE f[CHOOSE x \in s : TRUE] + i[s \ {CHOOSE x \in s : TRUE}]]
               /\ SumFunctionOnSet(f, S) = i[S]
  BY FoldOf
<1> DEFINE N == {n \in Nat : \A T \in SUBSET S : Cardinality(T) = n => i[T] = g[T]}
<1>2. 0 \in N
  <2>1. i[{}] = 0  BY <1>1
  <2> QED BY <2>1, FS_EmptySet, FS_Subset DEF IsSum
<1>3. ASSUME NEW n \in Nat, n \in N PROVE n + 1 \in N
  <2> SUFFICES ASSUME NEW T \in SUBSET S, Cardinality(T) = n + 1 PROVE i[T] = g[T]
    OBVIOUS
  <2> DEFINE x == CHOOSE x \in T : TRUE
  <2>1. IsFiniteSet(T)  BY FS_Subset
  <2>2. T # {} /\ x \in T  BY FS_EmptySet
  <2>3. i[T] = f[x] + i[T \ {x}]  BY <1>1, <2>2
  <2> HIDE DEF x
  <2>4. Cardinality(T \ {x}) = n
    <3>1. Cardinality(T \ {x}) = Cardinality(T) - 1  BY <2>1, <2>2, FS_RemoveElement
    <3> QED BY <3>1
  <2>5. i[T \ {x}] = g[T \ {x}]  BY <1>3, <2>4
  <2>6. g[T] = f[x] + g[T \ {x}]  BY <2>2 DEF IsSum
  <2> QED BY <2>3, <2>5, <2>6
<1>4. Nat \subseteq N
  <2> HIDE DEF N
  <2> QED BY <1>2, <1>3, Induction
<1>5. Cardinality(S) \in Nat  BY FS_CardinalityType
<1> QED BY <1>1, <1>4, <1>5

(* What the sums of f over the subsets of its domain are. *)
LEMMA Sums ==
  ASSUME NEW S, IsFiniteSet(S), NEW f \in [S -> Int]
  PROVE  /\ SumFunction(f) = SumFunctionOnSet(f, S)
         /\ SumFunctionOnSet(f, {}) = 0
         /\ \A T \in SUBSET S : SumFunctionOnSet(f, T) \in Int
         /\ \A T \in SUBSET S : \A x \in S \ T :
              SumFunctionOnSet(f, T \cup {x}) = f[x] + SumFunctionOnSet(f, T)
<1>1. PICK g : IsSum(g, f, S)  BY SumExists
<1>2. ASSUME NEW T \in SUBSET S PROVE SumFunctionOnSet(f, T) = g[T]
  <2> DEFINE h == [U \in SUBSET T |-> g[U]]
  <2>1. \A U \in SUBSET T : U \in SUBSET S /\ \A x \in U : U \ {x} \in SUBSET T  OBVIOUS
  <2>2. IsSum(h, f, T)  BY <1>1, <2>1 DEF IsSum
  <2>3. IsFiniteSet(T)  BY FS_Subset
  <2>4. h[T] = g[T]  OBVIOUS
  <2> HIDE DEF h
  <2> QED BY <2>2, <2>3, <2>4, SumIs
<1>3. SumFunction(f) = SumFunctionOnSet(f, S)  BY DEF SumFunction
<1>4. ASSUME NEW T \in SUBSET S, NEW x \in S \ T
      PROVE  SumFunctionOnSet(f, T \cup {x}) = f[x] + SumFunctionOnSet(f, T)
  <2>1. (T \cup {x}) \ {x} = T /\ T \cup {x} \in SUBSET S /\ x \in T \cup {x}  OBVIOUS
  <2>2. g[T \cup {x}] = f[x] + g[(T \cup {x}) \ {x}]  BY <1>1, <2>1 DEF IsSum
  <2> QED BY <1>2, <2>1, <2>2
<1>5. g[{}] = 0 /\ \A T \in SUBSET S : g[T] \in Int  BY <1>1 DEF IsSum
<1> QED BY <1>2, <1>3, <1>4, <1>5

(* The sum over a part of the domain.                                        *)
LEMMA SumRestrict ==
  ASSUME NEW S, IsFiniteSet(S), NEW f \in [S -> Int], NEW T \in SUBSET S
  PROVE  SumFunction([x \in T |-> f[x]]) = SumFunctionOnSet(f, T)
<1> DEFINE h == [x \in T |-> f[x]]
<1>1. IsFiniteSet(T)  BY FS_Subset
<1>2. h \in [T -> Int] /\ \A x \in T : h[x] = f[x]  OBVIOUS
<1> HIDE DEF h
<1>3. PICK g : IsSum(g, h, T)  BY <1>1, <1>2, SumExists
<1>4. IsSum(g, f, T)
  <2>1. ASSUME NEW U \in SUBSET T, NEW x \in U PROVE g[U] = f[x] + g[U \ {x}]
    <3>1. x \in T /\ g[U] = h[x] + g[U \ {x}]  BY <1>3 DEF IsSum
    <3> QED BY <3>1, <1>2
  <2> QED BY <1>3, <2>1 DEF IsSum
<1>5. SumFunctionOnSet(f, T) = g[T]  BY <1>1, <1>4, SumIs
<1>6. SumFunctionOnSet(h, T) = g[T]  BY <1>1, <1>3, SumIs
<1>7. SumFunction(h) = SumFunctionOnSet(h, T)  BY <1>1, <1>2, Sums
<1> QED BY <1>5, <1>6, <1>7 DEF h

(* The sum over two parts.                                                   *)
LEMMA SumDisjoint ==
  ASSUME NEW S, IsFiniteSet(S), NEW f \in [S -> Int],
         NEW P \in SUBSET S, NEW Q \in SUBSET S, P \cap Q = {}
  PROVE  SumFunctionOnSet(f, P \cup Q) = SumFunctionOnSet(f, P) + SumFunctionOnSet(f, Q)
<1>0. /\ \A T \in SUBSET S : SumFunctionOnSet(f, T) \in Int
      /\ SumFunctionOnSet(f, {}) = 0
      /\ \A T \in SUBSET S : \A x \in S \ T :
           SumFunctionOnSet(f, T \cup {x}) = f[x] + SumFunctionOnSet(f, T)
  BY Sums
<1> DEFINE D == {W \in SUBSET Q : SumFunctionOnSet(f, P \cup W) =
                                    SumFunctionOnSet(f, P) + SumFunctionOnSet(f, W)}
<1>1. {} \in D
  <2>1. P \cup {} = P  OBVIOUS
  <2>2. SumFunctionOnSet(f, P) + 0 = SumFunctionOnSet(f, P)  BY <1>0
  <2> QED BY <1>0, <2>1, <2>2
<1>2. ASSUME NEW W \in SUBSET Q, W \in D, NEW x \in Q \ W PROVE W \cup {x} \in D
  <2>1. P \cup (W \cup {x}) = (P \cup W) \cup {x} /\ P \cup W \in SUBSET S
        /\ x \in S \ (P \cup W) /\ W \in SUBSET S /\ x \in S \ W
    OBVIOUS
  <2>2. SumFunctionOnSet(f, (P \cup W) \cup {x}) = f[x] + SumFunctionOnSet(f, P \cup W)
    BY <1>0, <2>1
  <2>3. SumFunctionOnSet(f, W \cup {x}) = f[x] + SumFunctionOnSet(f, W)  BY <1>0, <2>1
  <2>4. SumFunctionOnSet(f, P \cup W) = SumFunctionOnSet(f, P) + SumFunctionOnSet(f, W)
    BY <1>2
  <2>5. f[x] \in Int /\ SumFunctionOnSet(f, P) \in Int /\ SumFunctionOnSet(f, W) \in Int
    BY <1>0, <2>1
  <2> DEFINE a == SumFunctionOnSet(f, P)
             b == SumFunctionOnSet(f, W)
             c == f[x]
             d == SumFunctionOnSet(f, W \cup {x})
             e == SumFunctionOnSet(f, P \cup (W \cup {x}))
  <2>6. e = a + d
    <3>1. e = c + SumFunctionOnSet(f, P \cup W)  BY Zenon, <2>1, <2>2
    <3>2. e = c + (a + b)  BY Zenon, <3>1, <2>4
    <3>3. d = c + b  BY Zenon, <2>3
    <3>4. a \in Int /\ b \in Int /\ c \in Int  BY <2>5
    <3> HIDE DEF a, b, c, d, e
    <3> QED BY <3>2, <3>3, <3>4
  <2> QED BY <2>6
<1>3. IsFiniteSet(Q)  BY FS_Subset
<1>4. \A W \in SUBSET Q : W \in D
  <2> HIDE DEF D
  <2>1. \A W \in SUBSET Q : W \in D => \A x \in Q \ W : W \cup {x} \in D  BY <1>2
  <2> QED BY Zenon, <1>1, <1>3, <2>1, OnSubsets
<1>5. Q \in D  BY <1>4
<1> QED BY <1>5

(* The elements of S with that key, and what f adds up to on them.           *)
Part(S, key, b) == {x \in S : key[x] = b}
Parts(S, f, B, key) == [b \in B |-> SumFunction([x \in Part(S, key, b) |-> f[x]])]

(* Summing part by part is summing.                                          *)
LEMMA SumPartition ==
  ASSUME NEW S, IsFiniteSet(S), NEW f \in [S -> Int],
         NEW B, IsFiniteSet(B), NEW key \in [S -> B]
  PROVE  SumFunction(Parts(S, f, B, key)) = SumFunction(f)
<1> DEFINE r == Parts(S, f, B, key)
           Of(T) == {x \in S : key[x] \in T}
<1>0. \A b \in B : r[b] = SumFunctionOnSet(f, Part(S, key, b))
  <2> TAKE b \in B
  <2>1. Part(S, key, b) \in SUBSET S  BY DEF Part
  <2>2. SumFunction([x \in Part(S, key, b) |-> f[x]]) = SumFunctionOnSet(f, Part(S, key, b))
    BY <2>1, SumRestrict
  <2> QED BY <2>2 DEF Parts
<1>1. \A T \in SUBSET S : SumFunctionOnSet(f, T) \in Int  BY Sums
<1>2. r \in [B -> Int]
  <2>1. r = [b \in B |-> r[b]]  BY DEF Parts
  <2>2. \A b \in B : Part(S, key, b) \in SUBSET S  BY DEF Part
  <2>3. \A b \in B : r[b] \in Int  BY <1>0, <1>1, <2>2
  <2> HIDE DEF r
  <2> QED BY <2>1, <2>3
<1> HIDE DEF r
<1>3. /\ SumFunction(r) = SumFunctionOnSet(r, B)
      /\ SumFunctionOnSet(r, {}) = 0
      /\ \A T \in SUBSET B : \A x \in B \ T :
           SumFunctionOnSet(r, T \cup {x}) = r[x] + SumFunctionOnSet(r, T)
  BY <1>2, Sums
<1> DEFINE D == {T \in SUBSET B : SumFunctionOnSet(r, T) = SumFunctionOnSet(f, Of(T))}
<1>4. {} \in D
  <2>1. Of({}) = {}  OBVIOUS
  <2>2. SumFunctionOnSet(f, {}) = 0  BY Sums
  <2> QED BY <1>3, <2>1, <2>2
<1>5. ASSUME NEW T \in SUBSET B, T \in D, NEW b \in B \ T PROVE T \cup {b} \in D
  <2>1. /\ Of(T \cup {b}) = Of(T) \cup Part(S, key, b) /\ Of(T) \cap Part(S, key, b) = {}
        /\ Of(T) \in SUBSET S /\ Part(S, key, b) \in SUBSET S
    BY DEF Part
  <2>2. SumFunctionOnSet(f, Of(T) \cup Part(S, key, b)) =
          SumFunctionOnSet(f, Of(T)) + SumFunctionOnSet(f, Part(S, key, b))
    BY <2>1, SumDisjoint
  <2>3. SumFunctionOnSet(r, T \cup {b}) = r[b] + SumFunctionOnSet(r, T)  BY <1>3
  <2>4. SumFunctionOnSet(r, T) = SumFunctionOnSet(f, Of(T))  BY <1>5
  <2>5. r[b] = SumFunctionOnSet(f, Part(S, key, b))  BY <1>0
  <2>6. /\ SumFunctionOnSet(f, Of(T)) \in Int
        /\ SumFunctionOnSet(f, Part(S, key, b)) \in Int
    BY <1>1, <2>1
  <2> HIDE DEF Of
  <2>7. SumFunctionOnSet(r, T \cup {b}) = SumFunctionOnSet(f, Of(T \cup {b}))
    <3> DEFINE v == SumFunctionOnSet(f, Of(T))
               w == SumFunctionOnSet(f, Part(S, key, b))
    <3>1. SumFunctionOnSet(r, T \cup {b}) = w + v  BY Zenon, <2>3, <2>4, <2>5
    <3>2. SumFunctionOnSet(f, Of(T \cup {b})) = v + w  BY Zenon, <2>1, <2>2
    <3>3. v \in Int /\ w \in Int  BY <2>6
    <3> HIDE DEF v, w
    <3>4. w + v = v + w  BY <3>3
    <3> QED BY Zenon, <3>1, <3>2, <3>4
  <2> QED BY <2>7
<1>6. B \in D
  <2> HIDE DEF D
  <2> QED BY <1>4, <1>5, OnSubsets
<1>7. Of(B) = S  OBVIOUS
<1>8. SumFunction(f) = SumFunctionOnSet(f, S)  BY Sums
<1> QED BY <1>3, <1>6, <1>7, <1>8 DEF r

(* The number of elements is a sum of ones.                                  *)
LEMMA CardinalityIsSum ==
  ASSUME NEW S, IsFiniteSet(S)
  PROVE  SumFunction([x \in S |-> 1]) = Cardinality(S)
<1> DEFINE ones == [x \in S |-> 1]
<1>1. ones \in [S -> Int] /\ \A x \in S : ones[x] = 1  OBVIOUS
<1> HIDE DEF ones
<1>2. /\ SumFunction(ones) = SumFunctionOnSet(ones, S)
      /\ SumFunctionOnSet(ones, {}) = 0
      /\ \A T \in SUBSET S : \A x \in S \ T :
           SumFunctionOnSet(ones, T \cup {x}) = ones[x] + SumFunctionOnSet(ones, T)
  BY <1>1, Sums
<1> DEFINE D == {T \in SUBSET S : SumFunctionOnSet(ones, T) = Cardinality(T)}
<1>3. {} \in D  BY <1>2, FS_EmptySet
<1>4. ASSUME NEW T \in SUBSET S, T \in D, NEW x \in S \ T PROVE T \cup {x} \in D
  <2>1. IsFiniteSet(T)  BY FS_Subset
  <2>2. Cardinality(T \cup {x}) = Cardinality(T) + 1  BY <2>1, FS_AddElement
  <2>3. SumFunctionOnSet(ones, T \cup {x}) = 1 + SumFunctionOnSet(ones, T)  BY <1>1, <1>2
  <2>4. SumFunctionOnSet(ones, T) = Cardinality(T)  BY <1>4
  <2>5. Cardinality(T) \in Nat  BY <2>1, FS_CardinalityType
  <2> QED BY <2>2, <2>3, <2>4, <2>5
<1>5. S \in D
  <2> HIDE DEF D
  <2> QED BY <1>3, <1>4, OnSubsets
<1> QED BY <1>2, <1>5 DEF ones

----------------------------------------------------------------------------
(* Sequences, and the recursion of FlattenSeq. *)

IsSeq(w) == w \in Seq(ToSet(w))

(* A function on 1..n is a sequence of its values.                           *)
LEMMA Listed ==
  ASSUME NEW w, NEW n \in Nat, w = [i \in 1..n |-> w[i]]
  PROVE  IsSeq(w) /\ Len(w) = n /\ DOMAIN w = 1..n
<1>1. \A i \in 1..n : w[i] \in ToSet(w)  BY DEF ToSet
<1> QED BY <1>1 DEF IsSeq

(* A sequence as a function on 1..Len.                                       *)
LEMMA Elements ==
  ASSUME NEW w, IsSeq(w)
  PROVE  /\ Len(w) \in Nat /\ DOMAIN w = 1..Len(w)
         /\ w = [i \in 1..Len(w) |-> w[i]]
BY DEF IsSeq

(* A sequence over a set is one over its own elements.                       *)
LEMMA TypedSeq ==
  ASSUME NEW A, NEW w \in Seq(A)
  PROVE  IsSeq(w)
<1>1. w = [i \in 1..Len(w) |-> w[i]] /\ Len(w) \in Nat  OBVIOUS
<1> QED BY <1>1, Listed

(* The elements of two sequences that are joined.                            *)
LEMMA Joins ==
  ASSUME NEW u, NEW w, IsSeq(u), IsSeq(w)
  PROVE  /\ IsSeq(u \o w)
         /\ Len(u \o w) = Len(u) + Len(w)
         /\ \A i \in 1..Len(u) : (u \o w)[i] = u[i]
         /\ \A i \in 1..Len(w) : (u \o w)[Len(u) + i] = w[i]
<1> DEFINE A == ToSet(u) \cup ToSet(w)
<1>1. u \in Seq(A) /\ w \in Seq(A)
  <2>1. u = [i \in 1..Len(u) |-> u[i]] /\ Len(u) \in Nat /\ \A i \in 1..Len(u) : u[i] \in A
    BY Elements DEF ToSet
  <2>2. w = [i \in 1..Len(w) |-> w[i]] /\ Len(w) \in Nat /\ \A i \in 1..Len(w) : w[i] \in A
    BY Elements DEF ToSet
  <2> HIDE DEF A
  <2> QED BY <2>1, <2>2
<1> HIDE DEF A
<1>2. /\ u \o w \in Seq(A)
      /\ Len(u \o w) = Len(u) + Len(w)
      /\ \A i \in 1..Len(u) : (u \o w)[i] = u[i]
      /\ \A i \in 1..Len(w) : (u \o w)[Len(u) + i] = w[i]
  BY <1>1
<1>3. IsSeq(u \o w)  BY <1>2, TypedSeq
<1> QED BY <1>2, <1>3

(* The function of FlattenSeq. *)
FlatTo(g, ws, n) ==
  g = [i \in 1..n |-> IF i = 1 THEN ws[i] ELSE g[i - 1] \o ws[i]]

(* The function that FlattenSeq recurses on exists for every length.         *)
LEMMA FlatExists == ASSUME NEW ws PROVE \A n \in Nat : \E g : FlatTo(g, ws, n)
<1> DEFINE T == {n \in Nat : \E g : FlatTo(g, ws, n)}
<1>1. 0 \in T
  <2>1. FlatTo(<<>>, ws, 0)  BY DEF FlatTo
  <2> QED BY <2>1
<1>2. ASSUME NEW n \in Nat, n \in T PROVE n + 1 \in T
  <2>1. PICK g : FlatTo(g, ws, n)  BY <1>2
  <2> DEFINE h == [i \in 1..(n + 1) |->
                     IF i = 1 THEN ws[i] ELSE g[i - 1] \o ws[i]]
  <2>2. \A i \in 1..n : h[i] = g[i]
    <3>1. \A i \in 1..n : g[i] = IF i = 1 THEN ws[i] ELSE g[i - 1] \o ws[i]
      BY <2>1 DEF FlatTo
    <3> QED BY <3>1
  <2>3. \A i \in 1..(n + 1) : i # 1 => g[i - 1] = h[i - 1]
    <3>1. \A i \in 1..(n + 1) : i # 1 => i - 1 \in 1..n  OBVIOUS
    <3> HIDE DEF h
    <3> QED BY <2>2, <3>1
  <2>4. h = [i \in 1..(n + 1) |-> IF i = 1 THEN ws[i] ELSE h[i - 1] \o ws[i]]
    <3>1. h = [i \in 1..(n + 1) |-> IF i = 1 THEN ws[i] ELSE g[i - 1] \o ws[i]]
      OBVIOUS
    <3> HIDE DEF h
    <3> QED BY <2>3, <3>1
  <2>5. FlatTo(h, ws, n + 1)
    <3> HIDE DEF h
    <3> QED BY <2>4 DEF FlatTo
  <2> HIDE DEF h
  <2> QED BY <2>5
<1> HIDE DEF T
<1>3. Nat \subseteq T  BY <1>1, <1>2, Induction
<1> QED BY <1>3 DEF T

(* The function for a longer list is the one for a shorter, as far as that   *)
(* goes.                                                                     *)
LEMMA FlatSame ==
  ASSUME NEW ws, NEW n \in Nat, NEW g, FlatTo(g, ws, n), NEW h, FlatTo(h, ws, n + 1)
  PROVE  \A i \in 1..n : g[i] = h[i]
<1> DEFINE T == {i \in Nat : i \in 1..n => g[i] = h[i]}
<1>1. 0 \in T  OBVIOUS
<1>2. ASSUME NEW i \in Nat, i \in T PROVE i + 1 \in T
  <2> SUFFICES ASSUME i + 1 \in 1..n PROVE g[i + 1] = h[i + 1]  OBVIOUS
  <2>1. g[i + 1] = IF i + 1 = 1 THEN ws[i + 1] ELSE g[(i + 1) - 1] \o ws[i + 1]
    BY DEF FlatTo
  <2>2. h[i + 1] = IF i + 1 = 1 THEN ws[i + 1] ELSE h[(i + 1) - 1] \o ws[i + 1]
    <3>1. i + 1 \in 1..(n + 1)  OBVIOUS
    <3>2. \A j \in 1..(n + 1) : h[j] = IF j = 1 THEN ws[j] ELSE h[j - 1] \o ws[j]
      BY DEF FlatTo
    <3> QED BY <3>1, <3>2
  <2>3. i # 0 => g[i] = h[i]  BY <1>2
  <2> QED BY <2>1, <2>2, <2>3
<1> HIDE DEF T
<1>3. Nat \subseteq T  BY <1>1, <1>2, Induction
<1> QED BY <1>3 DEF T

(* So FlattenSeq is what its definition says.                                *)
LEMMA FlatUnfolds ==
  ASSUME NEW ws, IsSeq(ws), Len(ws) # 0
  PROVE  \E g : FlatTo(g, ws, Len(ws)) /\ FlattenSeq(ws) = g[Len(ws)]
<1>1. PICK g : FlatTo(g, ws, Len(ws))  BY FlatExists, Elements
<1> QED BY <1>1 DEF FlatTo, FlattenSeq

(* One more sequence at the end of the list comes after the others.          *)
LEMMA FlattenStep ==
  ASSUME NEW ws, NEW n \in Nat, NEW us, IsSeq(ws), Len(ws) = n + 1,
         us = [i \in 1..n |-> ws[i]], IsSeq(ws[1])
  PROVE  FlattenSeq(ws) = FlattenSeq(us) \o ws[n + 1]
<1>1. IsSeq(us) /\ Len(us) = n  BY Listed
<1>2. PICK g : FlatTo(g, ws, n + 1) /\ FlattenSeq(ws) = g[n + 1]  BY FlatUnfolds
<1>3. g[n + 1] = IF n = 0 THEN ws[n + 1] ELSE g[n] \o ws[n + 1]
  <2>1. n + 1 \in 1..(n + 1) /\ (n + 1) - 1 = n /\ (n = 0 <=> n + 1 = 1)  OBVIOUS
  <2>2. \A j \in 1..(n + 1) : g[j] = IF j = 1 THEN ws[j] ELSE g[j - 1] \o ws[j]
    BY <1>2 DEF FlatTo
  <2> QED BY <2>1, <2>2
<1>4. CASE n = 0
  <2>1. FlattenSeq(us) = <<>>  BY <1>1, <1>4 DEF FlattenSeq
  <2>2. n + 1 = 1  BY <1>4
  <2>3. <<>> \o ws[n + 1] = ws[n + 1]  BY <2>2 DEF IsSeq
  <2> QED BY <1>2, <1>3, <1>4, <2>1, <2>3
<1>5. CASE n # 0
  <2>1. PICK h : FlatTo(h, us, n) /\ FlattenSeq(us) = h[n]  BY <1>1, <1>5, FlatUnfolds
  <2>2. FlatTo(h, ws, n)
    <3>1. \A i \in 1..n : us[i] = ws[i]  OBVIOUS
    <3> QED BY <2>1, <3>1 DEF FlatTo
  <2>3. h[n] = g[n]  BY <2>2, <1>2, <1>5, FlatSame
  <2> QED BY <1>2, <1>3, <1>5, <2>1, <2>3
<1> QED BY <1>4, <1>5

(* The sequences of us, over A, joined: they are all there is, and what      *)
(* comes first is the head of the first that is not empty.                   *)
FlatHead(A, us) ==
  /\ FlattenSeq(us) \in Seq(A)
  /\ (FlattenSeq(us) = <<>>) <=> (\A i \in 1..Len(us) : us[i] = <<>>)
  /\ \A i \in 1..Len(us) :
       us[i] # <<>> /\ (\A j \in 1..(i - 1) : us[j] = <<>>)
         => Head(FlattenSeq(us)) = Head(us[i])

(* One more sequence at the end of the list.                                 *)
LEMMA FlatHeadStep ==
  ASSUME NEW A, NEW n \in Nat, NEW vs, IsSeq(vs), Len(vs) = n + 1,
         NEW us, us = [i \in 1..n |-> vs[i]], FlatHead(A, us),
         vs[1] \in Seq(A), vs[n + 1] \in Seq(A)
  PROVE  FlatHead(A, vs)
<1> DEFINE x == vs[n + 1]
<1>1. \A i \in 1..n : us[i] = vs[i]  OBVIOUS
<1>2. Len(us) = n  BY Listed
<1>3. IsSeq(vs[1])  BY TypedSeq
<1>4. FlattenSeq(vs) = FlattenSeq(us) \o x  BY <1>3, FlattenStep
<1>5. x \in Seq(A)  OBVIOUS
<1> HIDE DEF x
<1>6. FlattenSeq(us) \in Seq(A)  BY DEF FlatHead
<1>7. FlattenSeq(vs) \in Seq(A)  BY <1>4, <1>5, <1>6
<1>8. (FlattenSeq(vs) = <<>>) <=> (FlattenSeq(us) = <<>> /\ x = <<>>)
  BY <1>4, <1>5, <1>6
<1>9. (\A i \in 1..Len(vs) : vs[i] = <<>>) <=>
        (\A i \in 1..Len(us) : us[i] = <<>>) /\ x = <<>>
  <2>1. \A i : i \in 1..(n + 1) <=> i \in 1..n \/ i = n + 1  OBVIOUS
  <2> QED BY <2>1, <1>1, <1>2 DEF x
<1>10. ASSUME NEW i \in 1..Len(vs), vs[i] # <<>>, \A j \in 1..(i - 1) : vs[j] = <<>>
       PROVE  Head(FlattenSeq(vs)) = Head(vs[i])
  <2>1. CASE i \in 1..n
    <3>1. us[i] = vs[i] /\ \A j \in 1..(i - 1) : us[j] = <<>>
      <4>1. \A j \in 1..(i - 1) : j \in 1..n  BY <2>1
      <4> QED BY <4>1, <2>1, <1>1, <1>10
    <3>2. Head(FlattenSeq(us)) = Head(us[i])  BY <3>1, <2>1, <1>2, <1>10 DEF FlatHead
    <3>3. FlattenSeq(us) # <<>>  BY <3>1, <2>1, <1>2, <1>10 DEF FlatHead
    <3>4. Head(FlattenSeq(us) \o x) = Head(FlattenSeq(us))  BY <3>3, <1>5, <1>6
    <3> QED BY <3>1, <3>2, <3>4, <1>4
  <2>2. CASE i = n + 1
    <3>1. \A j \in 1..n : us[j] = <<>>
      <4>1. \A j \in 1..n : j \in 1..(i - 1)  BY <2>2
      <4> QED BY <4>1, <1>1, <1>10
    <3>2. FlattenSeq(us) = <<>>  BY <3>1, <1>2 DEF FlatHead
    <3>3. FlattenSeq(vs) = x  BY <3>2, <1>4, <1>5
    <3> QED BY <3>3, <2>2 DEF x
  <2> QED BY <2>1, <2>2
<1>11. (FlattenSeq(vs) = <<>>) <=> (\A i \in 1..Len(vs) : vs[i] = <<>>)
  BY <1>8, <1>9 DEF FlatHead
<1> QED BY <1>7, <1>10, <1>11 DEF FlatHead

(* What comes first in sequences that are joined.                            *)
LEMMA FlatFirst ==
  ASSUME NEW A, NEW ws, IsSeq(ws), \A i \in 1..Len(ws) : ws[i] \in Seq(A)
  PROVE  FlatHead(A, ws)
<1> DEFINE first(n) == [i \in 1..n |-> ws[i]]
           T == {n \in Nat : n <= Len(ws) => FlatHead(A, first(n))}
<1>0. Len(ws) \in Nat /\ ws = first(Len(ws))  BY Elements
<1>1. 0 \in T
  <2>1. Len(first(0)) = 0 /\ first(0) = <<>>  OBVIOUS
  <2>2. FlattenSeq(first(0)) = <<>>  BY <2>1 DEF FlattenSeq
  <2> HIDE DEF first
  <2>3. 1..Len(first(0)) = {}  BY <2>1
  <2>4. FlattenSeq(first(0)) \in Seq(A)
    <3>1. <<>> \in Seq(A)  OBVIOUS
    <3> QED BY Zenon, <2>2, <3>1
  <2>5. FlatHead(A, first(0))  BY Zenon, <2>2, <2>3, <2>4 DEF FlatHead
  <2> QED BY <2>5
<1>2. ASSUME NEW n \in Nat, n \in T PROVE n + 1 \in T
  <2> SUFFICES ASSUME n + 1 <= Len(ws) PROVE FlatHead(A, first(n + 1))
    <3> HIDE DEF first
    <3> QED OBVIOUS
  <2>1. FlatHead(A, first(n))
    <3>1. n <= Len(ws)  BY <1>0
    <3> HIDE DEF first
    <3> QED BY <1>2, <3>1
  <2> DEFINE vs == first(n + 1)
  <2>2. first(n) = [i \in 1..n |-> vs[i]]  OBVIOUS
  <2>3. vs[1] \in Seq(A) /\ vs[n + 1] \in Seq(A)
    <3>1. n + 1 \in 1..Len(ws) /\ 1 \in 1..Len(ws) /\ 1 \in 1..(n + 1)  BY <1>0
    <3> QED BY <3>1
  <2>4. IsSeq(vs) /\ Len(vs) = n + 1
    <3>1. vs = [i \in 1..(n + 1) |-> vs[i]] /\ n + 1 \in Nat  OBVIOUS
    <3> HIDE DEF vs
    <3> QED BY <3>1, Listed
  <2> HIDE DEF first
  <2>5. FlatHead(A, vs)
    <3> HIDE DEF vs
    <3> QED BY <2>1, <2>2, <2>3, <2>4, FlatHeadStep
  <2> QED BY <2>5
<1>3. Nat \subseteq T
  <2> HIDE DEF T
  <2> QED BY <1>1, <1>2, Induction
<1>4. FlatHead(A, first(Len(ws)))
  <2> HIDE DEF first
  <2> QED BY <1>0, <1>3
<1> QED BY <1>0, <1>4

(* The recursion of FoldLeft.                                                *)
FoldsTo(g, s) ==
  g = [d \in SUBSET DOMAIN s |->
         IF d = {} THEN 0
         ELSE IF g[d \ {Max(d)}] = 0 THEN s[Max(d)] ELSE g[d \ {Max(d)}]]

(* The greatest number up to n + 1. *)
LEMMA Greatest == ASSUME NEW n \in Nat PROVE Max(1..(n + 1)) = n + 1
<1>1. n + 1 \in 1..(n + 1) /\ \A y \in 1..(n + 1) : n + 1 >= y  OBVIOUS
<1>2. \A x \in 1..(n + 1) : (\A y \in 1..(n + 1) : x >= y) => x = n + 1  BY <1>1
<1>3. \E x \in 1..(n + 1) : \A y \in 1..(n + 1) : x >= y  BY <1>1
<1> DEFINE m == CHOOSE x \in 1..(n + 1) : \A y \in 1..(n + 1) : x >= y
<1>4. m \in 1..(n + 1) /\ \A y \in 1..(n + 1) : m >= y  BY <1>3
<1> HIDE DEF m
<1>5. m = n + 1  BY <1>2, <1>4
<1> QED BY <1>5 DEF Max, m

(* The recursion has a solution: the value at the least index.               *)
LEMMA FoldsExist == ASSUME NEW s \in Seq(Nat \ {0}) PROVE \E g : FoldsTo(g, s)
<1> DEFINE D == DOMAIN s
           least(d) == CHOOSE x \in d : \A y \in d : x <= y
           g == [d \in SUBSET D |-> IF d = {} THEN 0 ELSE s[least(d)]]
<1>1. D = 1..Len(s) /\ Len(s) \in Nat /\ \A i \in D : s[i] \in Nat \ {0}  OBVIOUS
<1>2. ASSUME NEW d \in SUBSET D, d # {}
      PROVE  /\ least(d) \in d /\ \A y \in d : least(d) <= y
             /\ Max(d) \in d /\ \A y \in d : Max(d) >= y
  <2>1. d \subseteq Nat  BY <1>1
  <2>2. \E x \in d : \A y \in d : x <= y  BY <2>1, <1>2, Least
  <2>3. \E x \in d : \A y \in d : x >= y
    <3> DEFINE U == {n \in Nat : \A y \in d : y <= n}
    <3>1. Len(s) \in U  BY <1>1
    <3>2. PICK m \in U : \A k \in U : m <= k
      <4> HIDE DEF U
      <4>1. U \subseteq Nat  BY DEF U
      <4> QED BY <3>1, <4>1, Least
    <3>3. m \in d
      <4> SUFFICES ASSUME m \notin d PROVE FALSE  OBVIOUS
      <4>1. \A y \in d : y <= m - 1 /\ y >= 1  BY <2>1, <1>1
      <4>2. m - 1 \in Nat  BY <4>1, <1>2, <1>1
      <4>3. m - 1 \in U  BY <4>1, <4>2
      <4> QED BY <3>2, <4>3, <4>2
    <3> QED BY <3>3, <2>1
  <2>4. Max(d) \in d /\ \A y \in d : Max(d) >= y  BY <2>3 DEF Max
  <2> QED BY <2>2, <2>4
<1>3. ASSUME NEW d \in SUBSET D, d # {}
      PROVE  g[d] = IF g[d \ {Max(d)}] = 0 THEN s[Max(d)] ELSE g[d \ {Max(d)}]
  <2> DEFINE e == d \ {Max(d)}
  <2>1. e \in SUBSET D /\ g[d] = s[least(d)]  BY <1>3
  <2>2. CASE e = {}
    <3>1. g[e] = 0  BY <2>2
    <3>2. least(d) = Max(d)  BY <2>2, <1>2, <1>3
    <3> HIDE DEF g, least
    <3> QED BY <2>1, <3>1, <3>2
  <2>3. CASE e # {}
    <3>1. g[e] = s[least(e)]  BY <2>1, <2>3
    <3>2. least(e) \in D  BY <2>1, <2>3, <1>2
    <3>3. least(e) = least(d)
      <4> HIDE DEF least, e
      <4>1. least(e) \in e /\ \A y \in e : least(e) <= y  BY <2>1, <2>3, <1>2
      <4>2. least(d) \in d /\ \A y \in d : least(d) <= y  BY <1>2, <1>3
      <4>3. Max(d) \in d /\ \A y \in d : Max(d) >= y  BY <1>2, <1>3
      <4>4. d \subseteq Nat  BY <1>1
      <4>5. e \subseteq d  BY DEF e
      <4>6. least(d) # Max(d)
        <5> SUFFICES ASSUME least(d) = Max(d) PROVE FALSE  OBVIOUS
        <5>1. least(e) \in d /\ least(e) # Max(d)  BY <4>1 DEF e
        <5> QED BY <5>1, <4>2, <4>3, <4>4
      <4>7. least(d) \in e  BY <4>2, <4>6 DEF e
      <4>8. least(e) <= least(d) /\ least(d) <= least(e)  BY <4>1, <4>2, <4>5, <4>7
      <4>9. least(e) \in Nat /\ least(d) \in Nat  BY <4>1, <4>2, <4>4, <4>5
      <4> QED BY <4>8, <4>9
    <3>4. g[e] # 0  BY <3>1, <3>2, <1>1
    <3>5. g[e] = s[least(d)]  BY <3>1, <3>3
    <3>6. g[d] = s[least(d)]  BY <2>1
    <3> HIDE DEF g, least
    <3> QED BY <3>4, <3>5, <3>6 DEF e
  <2> HIDE DEF g
  <2> QED BY <2>2, <2>3
<1>4. g = [d \in SUBSET D |->
             IF d = {} THEN 0
             ELSE IF g[d \ {Max(d)}] = 0 THEN s[Max(d)] ELSE g[d \ {Max(d)}]]
  <2>1. g = [d \in SUBSET D |-> g[d]] /\ g[{}] = 0  OBVIOUS
  <2> HIDE DEF g
  <2> QED BY <1>3, <2>1
<1>5. FoldsTo(g, s)
  <2> HIDE DEF g
  <2> QED BY <1>4 DEF FoldsTo
<1> HIDE DEF g
<1> QED BY <1>5

(* So FoldLeft is what its definition says.                                  *)
LEMMA FoldUnfolds ==
  ASSUME NEW s, NEW h, FoldsTo(h, s)
  PROVE  \E g : /\ FoldsTo(g, s)
                /\ FoldLeft(LAMBDA old, r : IF old = 0 THEN r ELSE old, 0, s) = g[DOMAIN s]
BY DEF FoldsTo, FoldLeft, MapThenFoldSet

(* The fold of print_csv_wide() keeps the first number.                      *)
LEMMA FoldFirst ==
  ASSUME NEW s \in Seq(Nat \ {0})
  PROVE  FoldLeft(LAMBDA old, r : IF old = 0 THEN r ELSE old, 0, s)
           = IF s = <<>> THEN 0 ELSE Head(s)
<1>1. DOMAIN s = 1..Len(s) /\ Len(s) \in Nat /\ \A i \in 1..Len(s) : s[i] \in Nat \ {0}
  OBVIOUS
<1>2. PICK g : /\ FoldsTo(g, s)
               /\ FoldLeft(LAMBDA old, r : IF old = 0 THEN r ELSE old, 0, s) = g[DOMAIN s]
  <2>1. PICK h : FoldsTo(h, s)  BY FoldsExist
  <2> QED BY <2>1, FoldUnfolds
<1>3. /\ g[{}] = 0
      /\ \A d \in SUBSET DOMAIN s : d # {} =>
           g[d] = IF g[d \ {Max(d)}] = 0 THEN s[Max(d)] ELSE g[d \ {Max(d)}]
  BY <1>2 DEF FoldsTo
<1> DEFINE T == {n \in Nat : n + 1 <= Len(s) => g[1..(n + 1)] = s[1]}
<1>4. 0 \in T
  <2> SUFFICES ASSUME 1 <= Len(s) PROVE g[1..1] = s[1]  OBVIOUS
  <2>1. 1..1 \in SUBSET DOMAIN s /\ 1..1 # {} /\ (1..1) \ {1} = {}  BY <1>1
  <2>2. Max(1..1) = 1
    <3>1. Max(1..(0 + 1)) = 0 + 1  BY Greatest
    <3> QED BY <3>1
  <2>3. g[(1..1) \ {1}] = 0  BY <1>3, <2>1
  <2> QED BY <1>3, <2>1, <2>2, <2>3
<1>5. ASSUME NEW n \in Nat, n \in T PROVE n + 1 \in T
  <2> SUFFICES ASSUME (n + 1) + 1 <= Len(s) PROVE g[1..((n + 1) + 1)] = s[1]  OBVIOUS
  <2> DEFINE d == 1..((n + 1) + 1)
  <2>1. d \in SUBSET DOMAIN s /\ d # {}
    <3>1. (n + 1) + 1 \in Nat /\ 1 \in d  OBVIOUS
    <3>2. \A i \in d : i \in 1..Len(s)  BY <1>1
    <3> HIDE DEF d
    <3> QED BY <3>1, <3>2, <1>1
  <2>2. Max(d) = (n + 1) + 1
    <3>1. n + 1 \in Nat  OBVIOUS
    <3> QED BY Zenon, <3>1, Greatest
  <2>3. d \ {Max(d)} = 1..(n + 1)  BY <2>2
  <2>4. g[1..(n + 1)] = s[1]  BY <1>1, <1>5
  <2>5. s[1] # 0  BY <1>1
  <2> HIDE DEF d
  <2>6. g[d] = s[1]  BY <1>3, <2>1, <2>3, <2>4, <2>5
  <2> QED BY <2>6 DEF d
<1>6. Nat \subseteq T
  <2> HIDE DEF T
  <2> QED BY <1>4, <1>5, Induction
<1>7. CASE s = <<>>
  <2>1. DOMAIN s = {}  BY <1>7
  <2> QED BY <1>2, <1>3, <1>7, <2>1
<1>8. CASE s # <<>>
  <2>1. Len(s) - 1 \in Nat /\ (Len(s) - 1) + 1 = Len(s)  BY <1>1, <1>8
  <2>2. Len(s) - 1 \in T  BY <1>6, <2>1
  <2>3. g[1..Len(s)] = s[1]
    <3>1. g[1..((Len(s) - 1) + 1)] = s[1]  BY <2>1, <2>2
    <3> QED BY <3>1, <2>1
  <2>4. DOMAIN s = 1..Len(s)  BY <1>1
  <2>5. Head(s) = s[1]  BY <1>8
  <2> QED BY Zenon, <1>2, <1>8, <2>3, <2>4, <2>5
<1> QED BY <1>7, <1>8

----------------------------------------------------------------------------
(* The inductive invariant.                                                  *)

(* What the aggregate is made of. *)
Aggregate ==
  /\ series \in [Host -> Host] /\ \A h \in Host : \E i \in Host : series[i] = h
  /\ selection \in Selections
  /\ sampled \subseteq Bucket \X Host
  /\ lines \in [Host -> Seq([bucket : Bucket, us : Micros])]
  /\ \A h \in Host : Len(lines[h]) <= MaxLines

(* A sequence, its length and its elements. *)
LEMMA OfSeq ==
  ASSUME NEW R, NEW w \in Seq(R)
  PROVE  Len(w) \in Nat /\ DOMAIN w = 1..Len(w) /\ \A i \in 1..Len(w) : w[i] \in R
OBVIOUS

(* It holds of an aggregate without samples and lines.                       *)
LEMMA InitAggregate == Init => Aggregate
<1> SUFFICES ASSUME Init PROVE Aggregate  OBVIOUS
<1> USE DEF Init
<1>1. series \in [Host -> Host] /\ \A h \in Host : \E i \in Host : series[i] = h  OBVIOUS
<1>3. lines \in [Host -> Seq([bucket : Bucket, us : Micros])]
  <2>1. <<>> \in Seq([bucket : Bucket, us : Micros])  OBVIOUS
  <2> QED BY Zenon, <2>1
<1>4. \A h \in Host : lines[h] = <<>>  OBVIOUS
<1>5. \A h \in Host : Len(lines[h]) = 0 /\ 1..Len(lines[h]) = {}  BY <1>4
<1>6. selection \in Selections /\ sampled \subseteq Bucket \X Host  OBVIOUS
<1>7. \A h \in Host : Len(lines[h]) <= MaxLines  BY <1>5, CsvAssumption
<1> QED BY <1>1, <1>3, <1>6, <1>7 DEF Aggregate

(* A sample is in a bucket. *)
LEMMA SampleAggregate ==
  ASSUME Aggregate, NEW h \in Host, NEW b \in Bucket, Sample(h, b)
  PROVE  Aggregate'
<1>1. sampled' = sampled \cup {<<b, h>>} /\ UNCHANGED <<series, selection, lines>>
  BY DEF Sample
<1>2. sampled' \subseteq Bucket \X Host
  <2>1. sampled \subseteq Bucket \X Host  BY DEF Aggregate
  <2> QED BY <1>1, <2>1
<1> QED BY <1>1, <1>2 DEF Aggregate

(* So is a line, whatever time it shows.                                     *)
LEMMA LineAggregate ==
  ASSUME Aggregate, NEW h \in Host, NEW b \in Bucket, NEW us \in Micros, Line(h, b, us)
  PROVE  Aggregate'
<1> DEFINE R == [bucket : Bucket, us : Micros]
           r == [bucket |-> b, us |-> us]
           w == lines[h]
<1>1. w \in Seq(R) /\ r \in R  BY DEF Aggregate
<1>2. lines' = [lines EXCEPT ![h] = Append(w, r)]  BY DEF Line
<1>3. Len(w) < MaxLines /\ UNCHANGED <<series, selection, sampled>>  BY DEF Line
<1> HIDE DEF R, r
<1>4. Append(w, r) \in Seq(R) /\ Len(Append(w, r)) = Len(w) + 1 /\ Len(w) \in Nat
  BY <1>1
<1>5. lines' \in [Host -> Seq(R)]  BY <1>2, <1>4 DEF Aggregate, R
<1>6. ASSUME NEW g \in Host PROVE Len(lines'[g]) <= MaxLines
  <2>1. CASE g = h
    <3>1. lines'[g] = Append(w, r)  BY <1>2, <2>1 DEF Aggregate
    <3>2. Len(w) + 1 <= MaxLines  BY <1>3, <1>4, CsvAssumption
    <3> HIDE DEF w
    <3> QED BY <3>1, <3>2, <1>4
  <2>2. CASE g # h
    <3>1. lines'[g] = lines[g]  BY <1>2, <2>2 DEF Aggregate
    <3> QED BY <3>1 DEF Aggregate
  <2> QED BY <2>1, <2>2
<1> QED BY <1>3, <1>5, <1>6 DEF Aggregate, R

(* Every step keeps it. *)
LEMMA NextAggregate == Aggregate /\ [Next]_vars => Aggregate'
<1> SUFFICES ASSUME Aggregate, [Next]_vars PROVE Aggregate'  OBVIOUS
<1>1. CASE UNCHANGED vars  BY <1>1 DEF vars, Aggregate
<1>2. CASE Next
  BY <1>2, SampleAggregate, LineAggregate DEF Next
<1> QED BY <1>1, <1>2

(* So it always holds. *)
LEMMA AggregateAlways == Spec => []Aggregate
BY InitAggregate, NextAggregate, PTL DEF Spec

----------------------------------------------------------------------------

(* Latencies, their buckets and their numbers.                               *)

(* A node's lines, as facts.                                                 *)
LEMMA LineTypes ==
  ASSUME Aggregate, NEW h \in Host
  PROVE  /\ Len(lines[h]) \in Nat /\ Len(lines[h]) <= MaxLines
         /\ DOMAIN lines[h] = 1..Len(lines[h])
         /\ \A i \in 1..Len(lines[h]) :
              /\ lines[h][i].bucket \in Bucket /\ lines[h][i].us \in Micros
              /\ lines[h][i].us \in Int
<1>1. lines[h] \in Seq([bucket : Bucket, us : Micros]) /\ Len(lines[h]) <= MaxLines
  BY DEF Aggregate
<1>2. Micros \subseteq Int  BY CsvAssumption
<1>3. /\ Len(lines[h]) \in Nat /\ DOMAIN lines[h] = 1..Len(lines[h])
      /\ \A i \in 1..Len(lines[h]) : lines[h][i] \in [bucket : Bucket, us : Micros]
  BY <1>1, OfSeq
<1> QED BY <1>1, <1>2, <1>3

(* The numbers of a node's lines in a bucket: there are some if it has lines *)
(* in it, and the first is that of the first line.                           *)
LEMMA NumbersAre ==
  ASSUME Aggregate, NEW h \in Host, NEW b
  PROVE  /\ Numbers(h, b) \in Seq(Nat \ {0})
         /\ (Numbers(h, b) = <<>>) <=> \A i \in 1..Len(lines[h]) : lines[h][i].bucket # b
         /\ \A i \in 1..Len(lines[h]) :
              lines[h][i].bucket = b /\ (\A j \in 1..(i - 1) : lines[h][j].bucket # b)
                => Head(Numbers(h, b)) = i
<1> DEFINE n == Len(lines[h])
           ws == [i \in 1..n |-> IF lines[h][i].bucket = b THEN <<i>> ELSE <<>>]
<1>1. n \in Nat /\ DOMAIN lines[h] = 1..n  BY LineTypes
<1>2. Numbers(h, b) = FlattenSeq(ws)  BY <1>1 DEF Numbers
<1>3. \A i \in 1..n : ws[i] = IF lines[h][i].bucket = b THEN <<i>> ELSE <<>>  OBVIOUS
<1>4. ws = [i \in 1..n |-> ws[i]]  OBVIOUS
<1>5. \A i \in 1..n : ws[i] \in Seq(Nat \ {0}) /\ (ws[i] = <<>> <=> lines[h][i].bucket # b)
  <2> TAKE i \in 1..n
  <2>1. <<i>> \in Seq(Nat \ {0}) /\ <<>> \in Seq(Nat \ {0}) /\ <<i>> # <<>>  BY <1>1
  <2> HIDE DEF ws
  <2> QED BY <1>3, <2>1
<1> HIDE DEF ws, n
<1>6. IsSeq(ws) /\ Len(ws) = n  BY <1>1, <1>4, Listed
<1>7. FlatHead(Nat \ {0}, ws)  BY <1>5, <1>6, FlatFirst
<1>8. ASSUME NEW i \in 1..n, lines[h][i].bucket = b,
             \A j \in 1..(i - 1) : lines[h][j].bucket # b
      PROVE  Head(FlattenSeq(ws)) = i
  <2>1. \A j \in 1..(i - 1) : j \in 1..n  BY <1>1
  <2>2. ws[i] # <<>> /\ \A j \in 1..(i - 1) : ws[j] = <<>>  BY <1>5, <1>8, <2>1
  <2>3. Head(FlattenSeq(ws)) = Head(ws[i])  BY <1>6, <1>7, <2>2 DEF FlatHead
  <2>4. ws[i] = <<i>>  BY <1>3, <1>8
  <2> QED BY <2>3, <2>4
<1> QED BY <1>2, <1>5, <1>6, <1>7, <1>8 DEF FlatHead, n

(* The repeat numbers of a bucket: if one node has any, its come first.      *)
LEMMA RepeatsAre ==
  ASSUME Aggregate, NEW b
  PROVE  /\ Repeats(b) \in Seq(Nat \ {0})
         /\ (Repeats(b) = <<>>) <=> \A h \in Host : Numbers(h, b) = <<>>
         /\ \A h \in Host :
              Numbers(h, b) # <<>> /\ (\A g \in Host : g # h => Numbers(g, b) = <<>>)
                => Head(Repeats(b)) = Head(Numbers(h, b))
<1> DEFINE ws == [i \in Host |-> Numbers(series[i], b)]
<1>1. Repeats(b) = FlattenSeq(ws)  BY DEF Repeats
<1>2. ws = [i \in 1..Hosts |-> ws[i]] /\ Hosts \in Nat  BY CsvAssumption DEF Host
<1>3. \A i \in Host : ws[i] = Numbers(series[i], b)  OBVIOUS
<1>4. \A i \in Host : series[i] \in Host /\ \A h \in Host : \E k \in Host : series[k] = h
  BY DEF Aggregate
<1> HIDE DEF ws
<1>5. IsSeq(ws) /\ Len(ws) = Hosts /\ 1..Len(ws) = Host  BY <1>2, Listed DEF Host
<1>6. \A i \in Host : ws[i] \in Seq(Nat \ {0})  BY <1>3, <1>4, NumbersAre
<1>7. FlatHead(Nat \ {0}, ws)  BY <1>5, <1>6, FlatFirst
<1>8. (FlattenSeq(ws) = <<>>) <=> \A h \in Host : Numbers(h, b) = <<>>
  <2>1. (FlattenSeq(ws) = <<>>) <=> \A i \in Host : ws[i] = <<>>  BY <1>5, <1>7 DEF FlatHead
  <2>2. (\A i \in Host : ws[i] = <<>>) <=> \A h \in Host : Numbers(h, b) = <<>>
    BY <1>3, <1>4
  <2> QED BY <2>1, <2>2
<1>9. ASSUME NEW h \in Host, Numbers(h, b) # <<>>,
             \A g \in Host : g # h => Numbers(g, b) = <<>>
      PROVE  Head(FlattenSeq(ws)) = Head(Numbers(h, b))
  <2> DEFINE I == {i \in Host : series[i] = h}
  <2>1. I \subseteq Nat /\ I # {}
    <3>1. Host \subseteq Nat  BY DEF Host
    <3> QED BY <3>1, <1>4
  <2>2. PICK i \in I : \A k \in I : i <= k
    <3> HIDE DEF I
    <3> QED BY <2>1, Least
  <2>3. ws[i] = Numbers(h, b) /\ i \in Host  BY <1>3
  <2>4. ASSUME NEW k \in 1..(i - 1) PROVE ws[k] = <<>>
    <3>1. k \in Host /\ ~(i <= k)  BY <1>2, <2>3 DEF Host
    <3>2. series[k] # h  BY <3>1, <2>2
    <3>3. series[k] \in Host  BY <3>1, <1>4
    <3> QED BY <3>1, <3>2, <3>3, <1>3, <1>9
  <2>5. \A m \in Host :
          ws[m] # <<>> /\ (\A j \in 1..(m - 1) : ws[j] = <<>>)
            => Head(FlattenSeq(ws)) = Head(ws[m])
    BY <1>5, <1>7 DEF FlatHead
  <2> HIDE DEF I
  <2>6. ws[i] # <<>> /\ \A j \in 1..(i - 1) : ws[j] = <<>>  BY Zenon, <2>3, <2>4, <1>9
  <2>7. Head(FlattenSeq(ws)) = Head(ws[i])  BY <2>3, <2>5, <2>6
  <2> QED BY <2>3, <2>7
<1>10. FlattenSeq(ws) \in Seq(Nat \ {0})  BY <1>7 DEF FlatHead
<1> QED BY <1>1, <1>8, <1>9, <1>10

(* Both printers show the first of them, or 0 if there is none.              *)
LEMMA SameRepeat == ASSUME Aggregate, NEW b PROVE TallRepeat(b) = WideRepeat(b)
<1>1. Repeats(b) \in Seq(Nat \ {0})  BY RepeatsAre
<1> QED BY <1>1, FoldFirst DEF TallRepeat, WideRepeat

(* A bucket has latencies if one of the nodes has a line in it.              *)
LEMMA BucketHasLine ==
  ASSUME Aggregate, NEW b \in LatencyBuckets
  PROVE  \E h \in Host : \E i \in 1..Len(lines[h]) : lines[h][i].bucket = b
<1>1. PICK l : l \in LinesIn(Host, b)  BY DEF LatencyBuckets
<1>2. l[1] \in Host /\ l[2] \in DOMAIN lines[l[1]] /\ lines[l[1]][l[2]].bucket = b
  BY <1>1 DEF LinesIn
<1> QED BY <1>2, LineTypes

(* If one node reports, the others have no lines. *)
LEMMA OnlyReporter ==
  ASSUME Aggregate, OneReporter, NEW h \in Host, NEW i \in 1..Len(lines[h])
  PROVE  \A g \in Host : g # h => lines[g] = <<>>
<1>1. lines[h] # <<>>
  <2>1. Len(lines[h]) # 0  BY LineTypes
  <2> QED BY <2>1
<1> QED BY <1>1 DEF OneReporter

(* The number that a bucket has if one node reports: that of the first line. *)
LEMMA FirstOfBucket ==
  ASSUME Aggregate, OneReporter, NEW h \in Host, NEW k \in 1..Len(lines[h])
  PROVE  \E i \in 1..k :
           /\ lines[h][i].bucket = lines[h][k].bucket
           /\ \A j \in 1..(i - 1) : lines[h][j].bucket # lines[h][k].bucket
           /\ WideRepeat(lines[h][k].bucket) = i
<1> DEFINE b == lines[h][k].bucket
           I == {i \in 1..k : lines[h][i].bucket = b}
<1>0. Len(lines[h]) \in Nat  BY LineTypes
<1>1. k \in I /\ I \subseteq Nat /\ \A i \in I : i \in 1..k /\ lines[h][i].bucket = b
  BY <1>0
<1>2. \A i \in 1..k : lines[h][i].bucket = b => i \in I  OBVIOUS
<1> HIDE DEF b, I
<1>3. PICK i \in I : \A j \in I : i <= j  BY <1>1, Least
<1>4. i \in 1..k /\ i \in 1..Len(lines[h]) /\ lines[h][i].bucket = b  BY <1>0, <1>1
<1>5. \A j \in 1..(i - 1) : lines[h][j].bucket # b
  <2> TAKE j \in 1..(i - 1)
  <2>1. j \in 1..k /\ ~(i <= j)  BY <1>4
  <2> QED BY <2>1, <1>2, <1>3
<1>6. Numbers(h, b) # <<>> /\ Head(Numbers(h, b)) = i  BY <1>4, <1>5, NumbersAre
<1>7. \A g \in Host : g # h => Numbers(g, b) = <<>>
  <2> TAKE g \in Host
  <2> HAVE g # h
  <2>1. lines[g] = <<>>  BY OnlyReporter
  <2>2. 1..Len(lines[g]) = {}  BY <2>1
  <2> QED BY <2>2, NumbersAre
<1>8. /\ Repeats(b) \in Seq(Nat \ {0}) /\ Repeats(b) # <<>>
      /\ Head(Repeats(b)) = i
  BY <1>6, <1>7, RepeatsAre
<1>9. WideRepeat(b) = i  BY <1>8, FoldFirst DEF WideRepeat
<1> QED BY <1>4, <1>5, <1>9 DEF b

(* If one node reports, the repeat number of a bucket is the number of its   *)
(* first line there (counter_aggregation.cpp:1423-1446): it is not 0, two    *)
(* buckets do not share it, and if the times do not go back a later bucket   *)
(* has a later one.                                                          *)
THEOREM Rising == Spec => []RepeatsRise
<1>1. Aggregate => RepeatsRise
  <2> SUFFICES ASSUME Aggregate, OneReporter,
                      NEW b \in LatencyBuckets, NEW c \in LatencyBuckets
               PROVE  /\ WideRepeat(b) > 0
                      /\ b # c => WideRepeat(b) # WideRepeat(c)
                      /\ InOrder /\ b < c => WideRepeat(b) < WideRepeat(c)
    BY DEF RepeatsRise
  <2>1. PICK h \in Host : \E k \in 1..Len(lines[h]) : lines[h][k].bucket = b
    BY BucketHasLine
  <2>2. PICK k \in 1..Len(lines[h]) : lines[h][k].bucket = b  BY <2>1
  <2>3. PICK i \in 1..k : lines[h][i].bucket = b /\ WideRepeat(b) = i
    BY <2>2, FirstOfBucket
  <2>4. Len(lines[h]) \in Nat /\ DOMAIN lines[h] = 1..Len(lines[h])
        /\ i \in 1..Len(lines[h])
    BY LineTypes
  <2>5. PICK g \in Host : \E m \in 1..Len(lines[g]) : lines[g][m].bucket = c
    BY BucketHasLine
  <2>6. PICK m \in 1..Len(lines[g]) : lines[g][m].bucket = c  BY <2>5
  <2>7. g = h
    <3> SUFFICES ASSUME g # h PROVE FALSE  OBVIOUS
    <3>1. lines[g] = <<>>  BY <2>2, OnlyReporter
    <3>2. 1..Len(lines[g]) = {}  BY <3>1
    <3> QED BY <3>2
  <2>8. PICK j \in 1..m : lines[g][j].bucket = c /\ WideRepeat(c) = j
    BY <2>6, FirstOfBucket
  <2>9. j \in 1..Len(lines[h])  BY <2>7, <2>4
  <2>10. b # c => WideRepeat(b) # WideRepeat(c)  BY <2>3, <2>7, <2>8
  <2>11. ASSUME InOrder, b < c PROVE WideRepeat(b) < WideRepeat(c)
    <3>1. b \in Int /\ c \in Int  BY CsvAssumption DEF LatencyBuckets, Bucket
    <3>2. ~(j <= i)
      <4> SUFFICES ASSUME j <= i PROVE FALSE  OBVIOUS
      <4>1. j \in 1..i  BY <2>9, <2>4
      <4>2. lines[h][j].bucket <= lines[h][i].bucket  BY <4>1, <2>4, <2>11 DEF InOrder
      <4>3. c <= b  BY <4>2, <2>7, <2>8, <2>3
      <4> QED BY <4>3, <3>1, <2>11
    <3> QED BY <3>2, <2>3, <2>8, <2>9, <2>4
  <2> QED BY <2>3, <2>4, <2>10, <2>11
<1> QED BY <1>1, AggregateAlways, PTL

----------------------------------------------------------------------------

(* The rows of the tall printer in a bucket that has a row of the wide one.  *)
LEMMA RowsOfBucket ==
  ASSUME Aggregate, NEW b \in WideRows
  PROVE  /\ b \in LatencyBuckets \/ WideCells(b) # {}
         /\ {row \in TallRows : row[1] = b} =
              IF WideCells(b) = {} /\ Filtered # {} THEN {}
              ELSE IF WideCells(b) = {} THEN {<<b, None, None>>}
              ELSE {<<b, column[1], column[2]>> : column \in WideCells(b)}
<1> DEFINE Cells == {<<b, column[1], column[2]>> : column \in WideCells(b)}
<1>1. b \in Bucket /\ (LatencyBuckets = {} \/ b \in LatencyBuckets)
  BY DEF WideRows, LatencyBuckets
<1>2. \A h, n : <<h, n>> \in WideCells(b) <=> h \in Host /\ n \in Nic /\ <<b, h>> \in sampled
  BY <1>1 DEF WideCells, WideColumns
<1>3. b \in LatencyBuckets \/ WideCells(b) # {}
  <2> SUFFICES ASSUME b \notin LatencyBuckets PROVE WideCells(b) # {}  OBVIOUS
  <2>1. PICK h \in Host : <<b, h>> \in sampled  BY <1>1 DEF WideRows
  <2>2. PICK n : n \in Nic  BY CsvAssumption
  <2> QED BY <1>2, <2>1, <2>2
<1>4. {row \in Filtered : row[1] = b} = Cells
  <2>1. \A row : row \in Filtered /\ row[1] = b <=> row \in SampleRows /\ row[1] = b
    BY <1>1 DEF Filtered
  <2>2. ASSUME NEW row \in SampleRows, row[1] = b PROVE row \in Cells
    <3>1. /\ row[2] \in Host /\ row[3] \in Nic /\ <<b, row[2]>> \in sampled
          /\ row = <<row[1], row[2], row[3]>>
      BY <2>2 DEF SampleRows
    <3>2. <<row[2], row[3]>> \in WideCells(b)  BY <1>2, <3>1
    <3>3. row = <<b, <<row[2], row[3]>>[1], <<row[2], row[3]>>[2]>>  BY <2>2, <3>1
    <3> QED BY <3>2, <3>3
  <2>3. ASSUME NEW row \in Cells PROVE row \in SampleRows /\ row[1] = b
    <3>1. PICK column \in WideCells(b) : row = <<b, column[1], column[2]>>  OBVIOUS
    <3>2. column = <<column[1], column[2]>>  BY DEF WideCells, WideColumns
    <3>3. column[1] \in Host /\ column[2] \in Nic /\ <<b, column[1]>> \in sampled
      BY <1>2, <3>2
    <3> QED BY <1>1, <3>1, <3>3 DEF SampleRows
  <2> HIDE DEF Cells
  <2> QED BY <2>1, <2>2, <2>3
<1>5. WideCells(b) = {} <=> Cells = {}  OBVIOUS
<1> HIDE DEF Cells
<1>6. CASE Filtered # {}
  <2>1. TallRows = Filtered  BY <1>6 DEF TallRows
  <2> QED BY <1>3, <1>4, <1>5, <1>6, <2>1 DEF Cells
<1>7. CASE Filtered = {}
  <2>1. Cells = {} /\ WideCells(b) = {}  BY <1>4, <1>5, <1>7
  <2>2. TallRows = {<<c, None, None>> : c \in LatencyBuckets} /\ b \in LatencyBuckets
    BY <1>3, <1>7, <2>1 DEF TallRows
  <2>3. {row \in TallRows : row[1] = b} = {<<b, None, None>>}  BY <2>2
  <2> QED BY <1>3, <1>7, <2>1, <2>3
<1> QED BY <1>6, <1>7

(* Every row of the tall printer has a row of the wide one.                  *)
LEMMA TallHasWide == ASSUME NEW row \in TallRows PROVE row[1] \in WideRows
<1>1. CASE Filtered = {}
  <2>1. PICK c \in LatencyBuckets : row = <<c, None, None>>  BY <1>1 DEF TallRows
  <2> QED BY <2>1 DEF WideRows
<1>2. CASE Filtered # {}
  <2>1. row \in Filtered  BY <1>2 DEF TallRows
  <2>2. /\ row[1] \in Bucket /\ row[2] \in Host /\ <<row[1], row[2]>> \in sampled
        /\ LatencyBuckets = {} \/ row[1] \in LatencyBuckets
    BY <2>1 DEF Filtered, SampleRows
  <2> QED BY <2>2 DEF WideRows
<1> QED BY <1>1, <1>2

(* If one node reports, the latencies of the node that the wide printer      *)
(* picks are those of all.                                                   *)
LEMMA SameLatencies ==
  ASSUME Aggregate, OneReporter, NEW b
  PROVE  TallLatency(b) = WideLatency(b) /\ TallMax(b) = WideMax(b)
<1>1. CASE b \notin LatencyBuckets
  BY <1>1 DEF TallLatency, WideLatency, TallMax, WideMax
<1>2. CASE b \in LatencyBuckets
  <2>1. PICK h \in Host : \E i \in 1..Len(lines[h]) : lines[h][i].bucket = b
    BY <1>2, BucketHasLine
  <2>2. PICK i \in 1..Len(lines[h]) : lines[h][i].bucket = b  BY <2>1
  <2>3. \A g \in Host : g # h => lines[g] = <<>>  BY OnlyReporter
  <2>4. <<h, i>> \in LinesIn({h}, b)
    <3>1. i \in 1..MaxLines /\ i \in DOMAIN lines[h]  BY LineTypes, CsvAssumption
    <3> QED BY <2>2, <3>1 DEF LinesIn
  <2>5. \A g \in Host : g # h => LinesIn({g}, b) = {}
    <3> TAKE g \in Host
    <3> HAVE g # h
    <3>1. DOMAIN lines[g] = {}  BY <2>3
    <3> QED BY <3>1 DEF LinesIn
  <2>6. LinesIn(Host, b) = LinesIn({h}, b)
    <3>1. \A l \in LinesIn(Host, b) : l[1] \in Host /\ l \in LinesIn({l[1]}, b)
      BY DEF LinesIn
    <3>2. \A l \in LinesIn(Host, b) : l[1] = h  BY <2>5, <3>1
    <3>3. LinesIn({h}, b) \subseteq LinesIn(Host, b)  BY DEF LinesIn
    <3> QED BY <3>1, <3>2, <3>3
  <2>7. {g \in Host : HasLatency(g, b)} = {h}  BY <2>4, <2>5 DEF HasLatency
  <2>8. WideHost(b) = h
    <3>1. h \in Int  BY DEF Host
    <3>2. \A x \in {h} : (\A y \in {h} : x <= y) <=> x = h  BY <3>1
    <3>3. (CHOOSE x \in {h} : \A y \in {h} : x =< y) = h  BY <3>2
    <3> QED BY <2>7, <3>3 DEF WideHost, Min
  <2>9. GlobalLatencies(b) = NodeLatencies(WideHost(b), b)
    BY <2>6, <2>8 DEF GlobalLatencies, NodeLatencies, LatenciesOf
  <2> QED BY <2>9 DEF TallLatency, WideLatency, TallMax, WideMax
<1> QED BY <1>1, <1>2

(* The ratios that print_csv_wide() shows for a row of print_csv_tall().     *)
LEMMA RatiosOfRow ==
  ASSUME Aggregate, NEW row \in TallRows, NEW zero \in SUBSET {6, 9}, NEW k \in {1, 2}
  PROVE  WideRatios(row[1], <<row[2], row[3]>>, zero)[k] \in
           WideRatiosFor(k, TallRatios(row, zero)[k])
<1> DEFINE column == <<row[2], row[3]>>
           n == Len(selection)
           wide == WideRatios(row[1], column, zero)
           tall == TallRatios(row, zero)
           shown == column \in WideCells(row[1])
           enough == row[2] # None /\ n >= 10
<1>1. n \in Nat
  <2>1. selection \in Seq(STRING)  BY CsvAssumption DEF Aggregate
  <2> QED BY <2>1
<1>2. n >= 10 => n >= 7  BY <1>1
<1>3. n >= 7 => n >= 10 \/ n \in 7..9
  <2>1. \A i \in Nat : i >= 7 => i >= 10 \/ i \in 7..9  OBVIOUS
  <2> HIDE DEF n
  <2> QED BY <1>1, <2>1
<1>4. row[2] # None => shown
  <2> SUFFICES ASSUME row[2] # None PROVE shown  OBVIOUS
  <2>1. row \in Filtered
    <3>1. Filtered = {} => \E c \in LatencyBuckets : row = <<c, None, None>>
      BY DEF TallRows
    <3>2. Filtered # {} => row \in Filtered  BY DEF TallRows
    <3> QED BY <3>1, <3>2
  <2>2. row[1] \in Bucket /\ row[2] \in Host /\ row[3] \in Nic
        /\ <<row[1], row[2]>> \in sampled
    BY <2>1 DEF Filtered, SampleRows
  <2>3. column \in Host \X Nic /\ column[1] = row[2]  BY <2>2
  <2> HIDE DEF column
  <2>4. column \in WideColumns  BY <2>2, <2>3 DEF WideColumns
  <2> QED BY <2>2, <2>3, <2>4 DEF WideCells
<1>n. shown => row[2] # None
  <2> SUFFICES ASSUME shown PROVE row[2] # None  OBVIOUS
  <2>1. column[1] \in Host /\ column[1] = row[2]  BY DEF WideCells, WideColumns
  <2> QED BY <2>1, CsvAssumption
<1>5. /\ wide[1] = IF shown /\ n >= 7 /\ 6 \notin zero THEN Quotient(7, 6) ELSE Zero
      /\ wide[2] = IF shown /\ n >= 10 /\ 9 \notin zero THEN Quotient(8, 9) ELSE Zero
  BY DEF WideRatios
<1>6. /\ tall[1] = IF enough /\ 6 \notin zero THEN Quotient(7, 6) ELSE None
      /\ tall[2] = IF enough /\ 9 \notin zero THEN Quotient(8, 9) ELSE None
  BY DEF TallRatios
<1> HIDE DEF column, n, wide, tall, shown
<1>7. \A i, j \in 0..9 : n >= 10 => Quotient(i, j) # None
  <2> SUFFICES ASSUME NEW i \in 0..9, NEW j \in 0..9, n >= 10 PROVE Quotient(i, j) # None
    OBVIOUS
  <2>1. selection \in Selections /\ selection \in Seq(STRING)
    BY CsvAssumption DEF Aggregate
  <2>2. i + 1 \in DOMAIN selection /\ j + 1 \in DOMAIN selection /\ i < n /\ j < n
    BY <1>1, <2>1 DEF n
  <2>3. Quotient(i, j) = <<selection[i + 1], selection[j + 1]>>
    BY <2>2 DEF Quotient, At, n
  <2> QED BY <2>1, <2>2, <2>3, CsvAssumption
<1>8. n >= 10 => Quotient(7, 6) # None /\ Quotient(8, 9) # None  BY <1>7
<1>9. wide[1] \in WideRatiosFor(1, tall[1])
  <2>1. CASE enough /\ 6 \notin zero
    <3>1. tall[1] = Quotient(7, 6) /\ wide[1] = Quotient(7, 6)
      BY <2>1, <1>2, <1>4, <1>5, <1>6
    <3> QED BY <2>1, <3>1, <1>8 DEF WideRatiosFor
  <2>2. CASE ~(enough /\ 6 \notin zero)
    <3>1. tall[1] = None  BY <2>2, <1>6
    <3>2. wide[1] = Zero \/ (wide[1] = Quotient(7, 6) /\ n \in 7..9)
      BY <2>2, <1>3, <1>n, <1>5
    <3> QED BY <3>1, <3>2 DEF WideRatiosFor, n
  <2> QED BY <2>1, <2>2
<1>10. wide[2] \in WideRatiosFor(2, tall[2])
  <2>1. CASE enough /\ 9 \notin zero
    <3>1. tall[2] = Quotient(8, 9) /\ wide[2] = Quotient(8, 9)
      BY <2>1, <1>4, <1>5, <1>6
    <3> QED BY <2>1, <3>1, <1>8 DEF WideRatiosFor
  <2>2. CASE ~(enough /\ 9 \notin zero)
    <3>1. tall[2] = None /\ wide[2] = Zero  BY <2>2, <1>n, <1>5, <1>6
    <3> QED BY <3>1 DEF WideRatiosFor
  <2> QED BY <2>1, <2>2
<1> QED BY <1>9, <1>10 DEF column, wide, tall

(* Every row of print_csv_tall() has its row of print_csv_wide(), with the   *)
(* same repeat number, hosts, NICs and quotients and, if one node reports,   *)
(* the same latencies, in whatever order the nodes come; its empty ratios    *)
(* are 0.0 there or, of seven to nine counters, a quotient                   *)
(* (counter_aggregation.cpp:788-1299, 1379-1973).                            *)
THEOREM Agreement == Spec => []PrintersAgree
<1>1. Aggregate => PrintersAgree
  <2> SUFFICES ASSUME Aggregate PROVE PrintersAgree  OBVIOUS
  <2>1. ASSUME NEW row \in TallRows
        PROVE  /\ row[1] \in WideRows
               /\ TallRepeat(row[1]) = WideRepeat(row[1])
               /\ OneReporter => TallLatency(row[1]) = WideLatency(row[1])
                                 /\ TallMax(row[1]) = WideMax(row[1])
               /\ \A zero \in SUBSET {6, 9}, k \in {1, 2} :
                    WideRatios(row[1], <<row[2], row[3]>>, zero)[k] \in
                      WideRatiosFor(k, TallRatios(row, zero)[k])
    BY TallHasWide, SameRepeat, SameLatencies, RatiosOfRow
  <2> QED BY <2>1, RowsOfBucket DEF PrintersAgree
<1> QED BY <1>1, AggregateAlways, PTL

----------------------------------------------------------------------------
(* Every latency that was measured, by its node and number.                  *)
Measured == UNION {{<<h, i>> : i \in DOMAIN lines[h]} : h \in Host}

(* By node and number, as in LinesIn.                                        *)
LEMMA MeasuredAre ==
  ASSUME Aggregate, NEW l
  PROVE  l \in Measured <=>
           l \in Host \X (1..MaxLines) /\ l[2] \in DOMAIN lines[l[1]]
<1>1. ASSUME l \in Measured
      PROVE  l \in Host \X (1..MaxLines) /\ l[2] \in DOMAIN lines[l[1]]
  <2>1. PICK h \in Host : l \in {<<h, i>> : i \in DOMAIN lines[h]}  BY <1>1 DEF Measured
  <2>2. PICK i \in DOMAIN lines[h] : l = <<h, i>>  BY <2>1
  <2>3. i \in 1..MaxLines  BY LineTypes, CsvAssumption
  <2> QED BY <2>2, <2>3
<1>2. ASSUME l \in Host \X (1..MaxLines), l[2] \in DOMAIN lines[l[1]] PROVE l \in Measured
  <2>1. l[1] \in Host /\ l = <<l[1], l[2]>>  BY <1>2
  <2>2. l \in {<<l[1], i>> : i \in DOMAIN lines[l[1]]}  BY <1>2, <2>1
  <2> QED BY <2>1, <2>2 DEF Measured
<1> QED BY <1>1, <1>2

(* What each is in: one bucket that has latencies.                           *)
LEMMA MeasuredTypes ==
  ASSUME Aggregate
  PROVE  /\ IsFiniteSet(Measured) /\ IsFiniteSet(LatencyBuckets)
         /\ \A l \in Measured :
              /\ lines[l[1]][l[2]].us \in Int
              /\ lines[l[1]][l[2]].bucket \in LatencyBuckets
<1>1. IsFiniteSet(Measured)
  <2>1. IsFiniteSet(Host) /\ IsFiniteSet(1..MaxLines)
    BY CsvAssumption, FS_Interval DEF Host
  <2>2. IsFiniteSet(Host \X (1..MaxLines))  BY <2>1, FS_Product
  <2>3. Measured \subseteq Host \X (1..MaxLines)  BY MeasuredAre
  <2> QED BY <2>2, <2>3, FS_Subset
<1>2. IsFiniteSet(LatencyBuckets)
  <2>1. IsFiniteSet(Bucket) /\ LatencyBuckets \subseteq Bucket
    BY CsvAssumption, FS_Interval DEF Bucket, LatencyBuckets
  <2> QED BY <2>1, FS_Subset
<1>3. ASSUME NEW l \in Measured
      PROVE  lines[l[1]][l[2]].us \in Int /\ lines[l[1]][l[2]].bucket \in LatencyBuckets
  <2>1. l \in Host \X (1..MaxLines) /\ l[1] \in Host /\ l[2] \in DOMAIN lines[l[1]]
    BY MeasuredAre
  <2>2. lines[l[1]][l[2]].us \in Int /\ lines[l[1]][l[2]].bucket \in Bucket
    BY <2>1, LineTypes
  <2>3. l \in LinesIn(Host, lines[l[1]][l[2]].bucket)  BY <2>1 DEF LinesIn
  <2> QED BY <2>2, <2>3 DEF LatencyBuckets
<1> QED BY <1>1, <1>2, <1>3

(* No latency is dropped from the averages of the buckets or enters them     *)
(* twice, whichever nodes report: every line is in one bucket, and the sums  *)
(* of the parts are the sum (counter_aggregation.cpp:806-835).               *)
THEOREM Conservation == Spec => []LatenciesConserved
<1>1. Aggregate => LatenciesConserved
  <2> SUFFICES ASSUME Aggregate PROVE LatenciesConserved  OBVIOUS
  <2> DEFINE us == [l \in Measured |-> lines[l[1]][l[2]].us]
             ones == [l \in Measured |-> 1]
             key == [l \in Measured |-> lines[l[1]][l[2]].bucket]
  <2>1. us \in [Measured -> Int] /\ key \in [Measured -> LatencyBuckets]
    BY MeasuredTypes
  <2>2. ones \in [Measured -> Int]  OBVIOUS
  <2>3. ASSUME NEW b \in LatencyBuckets PROVE LinesIn(Host, b) = Part(Measured, key, b)
    <3>1. \A l : l \in LinesIn(Host, b) <=> l \in Part(Measured, key, b)
      BY MeasuredAre DEF LinesIn, Part
    <3> QED BY <3>1
  <2>4. ASSUME NEW b \in LatencyBuckets
        PROVE  /\ TallLatency(b)[1] = SumFunction([l \in Part(Measured, key, b) |-> us[l]])
               /\ TallLatency(b)[2] = SumFunction([l \in Part(Measured, key, b) |-> ones[l]])
    <3> DEFINE P == Part(Measured, key, b)
    <3>1. P \subseteq Measured  BY DEF Part
    <3>2. GlobalLatencies(b) = [l \in P |-> us[l]]
      <4>1. GlobalLatencies(b) = [l \in P |-> lines[l[1]][l[2]].us]
        BY <2>3 DEF GlobalLatencies, LatenciesOf
      <4>2. \A l \in P : us[l] = lines[l[1]][l[2]].us  BY <3>1
      <4> HIDE DEF P, us
      <4> QED BY <4>1, <4>2
    <3>3. [l \in P |-> ones[l]] = [l \in P |-> 1]  BY <3>1
    <3>4. IsFiniteSet(P)  BY <3>1, MeasuredTypes, FS_Subset
    <3>5. TallLatency(b) =
            <<SumFunction(GlobalLatencies(b)), Cardinality(DOMAIN GlobalLatencies(b))>>
      BY DEF TallLatency, Average
    <3> HIDE DEF P, us, ones
    <3>6. DOMAIN GlobalLatencies(b) = P  BY <3>2
    <3>7. SumFunction([l \in P |-> 1]) = Cardinality(P)  BY <3>4, CardinalityIsSum
    <3> QED BY <3>2, <3>3, <3>5, <3>6, <3>7 DEF P
  <2>5. [b \in LatencyBuckets |-> TallLatency(b)[1]] =
          Parts(Measured, us, LatencyBuckets, key)
    <3> HIDE DEF us, ones, key
    <3> QED BY <2>4 DEF Parts
  <2>6. [b \in LatencyBuckets |-> TallLatency(b)[2]] =
          Parts(Measured, ones, LatencyBuckets, key)
    <3> HIDE DEF us, ones, key
    <3> QED BY <2>4 DEF Parts
  <2>7. /\ SumFunction(Parts(Measured, us, LatencyBuckets, key)) = SumFunction(us)
        /\ SumFunction(Parts(Measured, ones, LatencyBuckets, key)) = SumFunction(ones)
    <3> HIDE DEF us, ones, key
    <3> QED BY <2>1, <2>2, MeasuredTypes, SumPartition
  <2>8. SumFunction(ones) = Cardinality(Measured)  BY MeasuredTypes, CardinalityIsSum
  <2> QED BY <2>5, <2>6, <2>7, <2>8 DEF LatenciesConserved, Measured
<1> QED BY <1>1, AggregateAlways, PTL
=============================================================================
