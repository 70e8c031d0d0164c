---------------------------- MODULE ReportProofs ----------------------------
(***************************************************************************)
(* Proofs about Report, for any number of nodes, NICs, counters, events and  *)
(* samples: what the nodes append arrives, the summary, the timeout tables   *)
(* and the series have what the NICs counted.                                *)
(*                                                                           *)
(* The first half is about data: sums over finite sets, the message, which   *)
(* is read as it was written, and differences of counters that wrap around.  *)
(* The second half has three invariants: Shape, then Counted, which needs    *)
(* it, then Recorded, which needs both.                                      *)
(***************************************************************************)
EXTENDS Report, FiniteSetTheorems, SequenceTheorems, WellFoundedInduction, TLAPS

----------------------------------------------------------------------------
(* Induction, and sums over finite sets.                                     *)
(*                                                                           *)
(* The induction theorems of the library take an operator as a parameter,    *)
(* which the provers cannot instantiate.  Here a set takes its place:        *)
(* Induction and OnSubsets are about the set of those numbers, or subsets, for*)
(* which something holds, and a proof by induction defines that set and hides*)
(* what it is.                                                               *)

(* A set of numbers that is not empty has a least one.                       *)
LEMMA Least ==
  ASSUME NEW T, T \subseteq Nat, T # {}
  PROVE  \E x \in T : \A y \in T : x <= y
<1> DEFINE R == OpToRel(<, Nat)
<1>1. IsWellFoundedOn(R, Nat)  BY NatLessThanWellFounded
<1>2. \A x, y \in Nat : x < y => <<x, y>> \in R  BY DEF OpToRel
<1> HIDE DEF R
<1>3. PICK x \in T : \A y \in T : ~(<<y, x>> \in R)  BY <1>1, WFMin
<1>4. \A y \in T : x <= y
  <2> TAKE y \in T
  <2>1. x \in Nat /\ y \in Nat  OBVIOUS
  <2>2. ~(y < x)  BY <1>2, <1>3, <2>1
  <2> QED BY <2>1, <2>2
<1> QED BY <1>4

(* Induction on a set of numbers: what a proof by induction is about is the  *)
(* set of the numbers for which it holds.                                    *)
LEMMA Induction ==
  ASSUME NEW T, 0 \in T, \A n \in Nat : n \in T => n + 1 \in T
  PROVE  Nat \subseteq T
<1> SUFFICES ASSUME Nat \ T # {} PROVE FALSE  OBVIOUS
<1>1. PICK x \in Nat \ T : \A y \in Nat \ T : x <= y  BY Least
<1>2. x # 0 OBVIOUS
<1>3. x - 1 \in Nat /\ x - 1 \in T  BY <1>1, <1>2
<1> QED BY <1>3, <1>1

(* Induction on the subsets of a finite set. *)
LEMMA OnSubsets ==
  ASSUME NEW S, IsFiniteSet(S), NEW D, {} \in D,
         \A T \in SUBSET S : T \in D => \A x \in S \ T : T \cup {x} \in D
  PROVE  \A T \in SUBSET S : T \in D
<1> DEFINE N == {n \in Nat : \A T \in SUBSET S : Cardinality(T) = n => T \in D}
<1>1. 0 \in N  BY FS_EmptySet, FS_Subset
<1>2. ASSUME NEW n \in Nat, n \in N PROVE n + 1 \in N
  <2> SUFFICES ASSUME NEW T \in SUBSET S, Cardinality(T) = n + 1 PROVE T \in D
    OBVIOUS
  <2>1. IsFiniteSet(T)  BY FS_Subset
  <2>2. T # {}  BY FS_EmptySet
  <2>3. PICK x \in T : TRUE  BY <2>2
  <2>4. Cardinality(T \ {x}) = Cardinality(T) - 1  BY <2>1, <2>3, FS_RemoveElement
  <2>5. T \ {x} \in D  BY <1>2, <2>4
  <2>6. T = (T \ {x}) \cup {x} /\ x \in S \ (T \ {x})  BY <2>3
  <2> QED BY <2>5, <2>6
<1>3. Nat \subseteq N
  <2> HIDE DEF N
  <2> QED BY <1>1, <1>2, Induction
<1> SUFFICES ASSUME NEW T \in SUBSET S PROVE T \in D  OBVIOUS
<1>4. IsFiniteSet(T) /\ Cardinality(T) \in Nat  BY FS_Subset, FS_CardinalityType
<1> QED BY <1>3, <1>4
(* g gives the sums of f over the subsets of S. *)
IsSum(g, f, S) ==
  /\ g \in [SUBSET S -> Int]
  /\ g[{}] = 0
  /\ \A T \in SUBSET S : \A x \in T : g[T] = f[x] + g[T \ {x}]

(* There is such a function, by induction on the subsets.                    *)
LEMMA SumExists ==
  ASSUME NEW S, IsFiniteSet(S), NEW f \in [S -> Int]
  PROVE  \E g : IsSum(g, f, S)
<1> DEFINE D == {T \in SUBSET S : \E g : IsSum(g, f, T)}
<1>1. {} \in D
  <2>1. IsSum([T \in {{}} |-> 0], f, {})  BY DEF IsSum
  <2> QED BY <2>1
<1>2. ASSUME NEW T \in SUBSET S, T \in D, NEW x \in S \ T PROVE T \cup {x} \in D
  <2>1. PICK g : IsSum(g, f, T)  BY <1>2
  <2> DEFINE h == [U \in SUBSET (T \cup {x}) |->
                     IF x \in U THEN f[x] + g[U \ {x}] ELSE g[U]]
  <2>2. \A U \in SUBSET (T \cup {x}) : U \ {x} \in SUBSET T /\ (x \notin U => U \in SUBSET T)
    OBVIOUS
  <2>3. h \in [SUBSET (T \cup {x}) -> Int]  BY <2>1, <2>2 DEF IsSum
  <2>4. h[{}] = 0  BY <2>1 DEF IsSum
  <2>5. ASSUME NEW U \in SUBSET (T \cup {x}), NEW y \in U PROVE h[U] = f[y] + h[U \ {y}]
    <3>1. CASE y = x
      <4>1. U \ {y} \in SUBSET (T \cup {x}) /\ x \notin U \ {y}  BY <3>1
      <4>2. h[U \ {y}] = g[U \ {x}]  BY <4>1, <3>1
      <4> QED BY <4>2, <3>1
    <3>2. CASE y # x /\ x \in U
      <4>1. h[U] = f[x] + g[U \ {x}]  BY <3>2
      <4>2. U \ {x} \in SUBSET T /\ y \in U \ {x}  BY <3>2
      <4> DEFINE W == (U \ {x}) \ {y}
      <4>3. g[U \ {x}] = f[y] + g[W]  BY <4>2, <2>1 DEF IsSum
      <4>4. U \ {y} \in SUBSET (T \cup {x}) /\ x \in U \ {y}  BY <3>2
      <4>5. (U \ {y}) \ {x} = W /\ W \in SUBSET T  OBVIOUS
      <4>6. h[U \ {y}] = f[x] + g[W]  BY <4>4, <4>5
      <4>7. f[x] \in Int /\ f[y] \in Int  BY <4>2
      <4>8. g[W] \in Int  BY <4>5, <2>1 DEF IsSum
      <4> HIDE DEF h, W
      <4> QED BY <4>1, <4>3, <4>6, <4>7, <4>8
    <3>3. CASE x \notin U
      <4>1. h[U] = g[U] /\ U \in SUBSET T  BY <3>3
      <4>2. U \ {y} \in SUBSET (T \cup {x}) /\ x \notin U \ {y}  BY <3>3
      <4>3. h[U \ {y}] = g[U \ {y}]  BY <4>2
      <4> QED BY <4>1, <4>3, <2>1 DEF IsSum
    <3> QED BY <3>1, <3>2, <3>3
  <2>6. IsSum(h, f, T \cup {x})
    <3> HIDE DEF h
    <3> QED BY <2>3, <2>4, <2>5 DEF IsSum
  <2> HIDE DEF h
  <2> QED BY <2>6
<1>3. S \in D
  <2> HIDE DEF D
  <2> QED BY <1>1, <1>2, OnSubsets
<1> QED BY <1>3

(* The fold of SumFunctionOnSet has such a function as its solution.         *)
LEMMA FoldOf ==
  ASSUME NEW S, NEW f, NEW g, IsSum(g, f, S)
  PROVE  \E i : /\ i = [s \in SUBSET S |->
                          IF s = {} THEN 0
                          ELSE f[CHOOSE x \in s : TRUE] + i[s \ {CHOOSE x \in s : TRUE}]]
                /\ SumFunctionOnSet(f, S) = i[S]
<1>1. g = [s \in SUBSET S |->
             IF s = {} THEN 0
             ELSE f[CHOOSE x \in s : TRUE] + g[s \ {CHOOSE x \in s : TRUE}]]
  <2>1. \A s \in SUBSET S : s # {} => (CHOOSE x \in s : TRUE) \in s  OBVIOUS
  <2> QED BY <2>1 DEF IsSum
<1> QED BY <1>1 DEF SumFunctionOnSet, FoldFunctionOnSet, MapThenFoldSet

(* Any such function has the value of SumFunctionOnSet.                      *)
LEMMA SumIs ==
  ASSUME NEW S, IsFiniteSet(S), NEW f, NEW g, IsSum(g, f, S)
  PROVE  SumFunctionOnSet(f, S) = g[S]
<1>1. PICK i : /\ i = [s \in SUBSET S |->
                          IF s = {} THEN 0
                          ELSE f[CHOOSE x \in s : TRUE] + i[s \ {CHOOSE x \in s : TRUE}]]
               /\ SumFunctionOnSet(f, S) = i[S]
  BY FoldOf
<1> DEFINE N == {n \in Nat : \A T \in SUBSET S : Cardinality(T) = n => i[T] = g[T]}
<1>2. 0 \in N
  <2>1. i[{}] = 0  BY <1>1
  <2> QED BY <2>1, FS_EmptySet, FS_Subset DEF IsSum
<1>3. ASSUME NEW n \in Nat, n \in N PROVE n + 1 \in N
  <2> SUFFICES ASSUME NEW T \in SUBSET S, Cardinality(T) = n + 1 PROVE i[T] = g[T]
    OBVIOUS
  <2> DEFINE x == CHOOSE x \in T : TRUE
  <2>1. IsFiniteSet(T)  BY FS_Subset
  <2>2. T # {} /\ x \in T  BY FS_EmptySet
  <2>3. i[T] = f[x] + i[T \ {x}]  BY <1>1, <2>2
  <2> HIDE DEF x
  <2>4. Cardinality(T \ {x}) = n
    <3>1. Cardinality(T \ {x}) = Cardinality(T) - 1  BY <2>1, <2>2, FS_RemoveElement
    <3> QED BY <3>1
  <2>5. i[T \ {x}] = g[T \ {x}]  BY <1>3, <2>4
  <2>6. g[T] = f[x] + g[T \ {x}]  BY <2>2 DEF IsSum
  <2> QED BY <2>3, <2>5, <2>6
<1>4. Nat \subseteq N
  <2> HIDE DEF N
  <2> QED BY <1>2, <1>3, Induction
<1>5. Cardinality(S) \in Nat  BY FS_CardinalityType
<1> QED BY <1>1, <1>4, <1>5

(* What the sums of f over the subsets of its domain are. *)
LEMMA Sums ==
  ASSUME NEW S, IsFiniteSet(S), NEW f \in [S -> Int]
  PROVE  /\ SumFunction(f) = SumFunctionOnSet(f, S)
         /\ SumFunctionOnSet(f, {}) = 0
         /\ \A T \in SUBSET S : SumFunctionOnSet(f, T) \in Int
         /\ \A T \in SUBSET S : \A x \in S \ T :
              SumFunctionOnSet(f, T \cup {x}) = f[x] + SumFunctionOnSet(f, T)
<1>1. PICK g : IsSum(g, f, S)  BY SumExists
<1>2. ASSUME NEW T \in SUBSET S PROVE SumFunctionOnSet(f, T) = g[T]
  <2> DEFINE h == [U \in SUBSET T |-> g[U]]
  <2>1. \A U \in SUBSET T : U \in SUBSET S /\ \A x \in U : U \ {x} \in SUBSET T  OBVIOUS
  <2>2. IsSum(h, f, T)  BY <1>1, <2>1 DEF IsSum
  <2>3. IsFiniteSet(T)  BY FS_Subset
  <2>4. h[T] = g[T]  OBVIOUS
  <2> HIDE DEF h
  <2> QED BY <2>2, <2>3, <2>4, SumIs
<1>3. SumFunction(f) = SumFunctionOnSet(f, S)  BY DEF SumFunction
<1>4. ASSUME NEW T \in SUBSET S, NEW x \in S \ T
      PROVE  SumFunctionOnSet(f, T \cup {x}) = f[x] + SumFunctionOnSet(f, T)
  <2>1. (T \cup {x}) \ {x} = T /\ T \cup {x} \in SUBSET S /\ x \in T \cup {x}  OBVIOUS
  <2>2. g[T \cup {x}] = f[x] + g[(T \cup {x}) \ {x}]  BY <1>1, <2>1 DEF IsSum
  <2> QED BY <1>2, <2>1, <2>2
<1>5. g[{}] = 0 /\ \A T \in SUBSET S : g[T] \in Int  BY <1>1 DEF IsSum
<1> QED BY <1>2, <1>3, <1>4, <1>5

----------------------------------------------------------------------------
(* Sequences, and the recursions of the message: FlattenSeq, with which values*)
(* are written one after the other, and Times, with which they are read.     *)

IsSeq(w) == w \in Seq(ToSet(w))

(* A function on 1..n is a sequence of its values.                           *)
LEMMA Listed ==
  ASSUME NEW w, NEW n \in Nat, w = [i \in 1..n |-> w[i]]
  PROVE  IsSeq(w) /\ Len(w) = n /\ DOMAIN w = 1..n
<1>1. \A i \in 1..n : w[i] \in ToSet(w)  BY DEF ToSet
<1> QED BY <1>1 DEF IsSeq

(* A sequence as a function on 1..Len.                                       *)
LEMMA Elements ==
  ASSUME NEW w, IsSeq(w)
  PROVE  /\ Len(w) \in Nat /\ DOMAIN w = 1..Len(w)
         /\ w = [i \in 1..Len(w) |-> w[i]]
BY DEF IsSeq

(* A sequence over a set is one over its own elements.                       *)
LEMMA TypedSeq ==
  ASSUME NEW A, NEW w \in Seq(A)
  PROVE  IsSeq(w)
<1>1. w = [i \in 1..Len(w) |-> w[i]] /\ Len(w) \in Nat  OBVIOUS
<1> QED BY <1>1, Listed

(* The elements of two sequences that are joined.                            *)
LEMMA Joins ==
  ASSUME NEW u, NEW w, IsSeq(u), IsSeq(w)
  PROVE  /\ IsSeq(u \o w)
         /\ Len(u \o w) = Len(u) + Len(w)
         /\ \A i \in 1..Len(u) : (u \o w)[i] = u[i]
         /\ \A i \in 1..Len(w) : (u \o w)[Len(u) + i] = w[i]
<1> DEFINE A == ToSet(u) \cup ToSet(w)
<1>1. u \in Seq(A) /\ w \in Seq(A)
  <2>1. u = [i \in 1..Len(u) |-> u[i]] /\ Len(u) \in Nat /\ \A i \in 1..Len(u) : u[i] \in A
    BY Elements DEF ToSet
  <2>2. w = [i \in 1..Len(w) |-> w[i]] /\ Len(w) \in Nat /\ \A i \in 1..Len(w) : w[i] \in A
    BY Elements DEF ToSet
  <2> HIDE DEF A
  <2> QED BY <2>1, <2>2
<1> HIDE DEF A
<1>2. /\ u \o w \in Seq(A)
      /\ Len(u \o w) = Len(u) + Len(w)
      /\ \A i \in 1..Len(u) : (u \o w)[i] = u[i]
      /\ \A i \in 1..Len(w) : (u \o w)[Len(u) + i] = w[i]
  BY <1>1
<1>3. IsSeq(u \o w)  BY <1>2, TypedSeq
<1> QED BY <1>2, <1>3

(* Recursions: the functions of FlattenSeq and Times are what they say.      *)
FlatTo(g, ws, n) ==
  g = [i \in 1..n |-> IF i = 1 THEN ws[i] ELSE g[i - 1] \o ws[i]]

(* The function that FlattenSeq recurses on exists for every length.         *)
LEMMA FlatExists == ASSUME NEW ws PROVE \A n \in Nat : \E g : FlatTo(g, ws, n)
<1> DEFINE T == {n \in Nat : \E g : FlatTo(g, ws, n)}
<1>1. 0 \in T
  <2>1. FlatTo(<<>>, ws, 0)  BY DEF FlatTo
  <2> QED BY <2>1
<1>2. ASSUME NEW n \in Nat, n \in T PROVE n + 1 \in T
  <2>1. PICK g : FlatTo(g, ws, n)  BY <1>2
  <2> DEFINE h == [i \in 1..(n + 1) |->
                     IF i = 1 THEN ws[i] ELSE g[i - 1] \o ws[i]]
  <2>2. \A i \in 1..n : h[i] = g[i]
    <3>1. \A i \in 1..n : g[i] = IF i = 1 THEN ws[i] ELSE g[i - 1] \o ws[i]
      BY <2>1 DEF FlatTo
    <3> QED BY <3>1
  <2>3. \A i \in 1..(n + 1) : i # 1 => g[i - 1] = h[i - 1]
    <3>1. \A i \in 1..(n + 1) : i # 1 => i - 1 \in 1..n  OBVIOUS
    <3> HIDE DEF h
    <3> QED BY <2>2, <3>1
  <2>4. h = [i \in 1..(n + 1) |-> IF i = 1 THEN ws[i] ELSE h[i - 1] \o ws[i]]
    <3>1. h = [i \in 1..(n + 1) |-> IF i = 1 THEN ws[i] ELSE g[i - 1] \o ws[i]]
      OBVIOUS
    <3> HIDE DEF h
    <3> QED BY <2>3, <3>1
  <2>5. FlatTo(h, ws, n + 1)
    <3> HIDE DEF h
    <3> QED BY <2>4 DEF FlatTo
  <2> HIDE DEF h
  <2> QED BY <2>5
<1> HIDE DEF T
<1>3. Nat \subseteq T  BY <1>1, <1>2, Induction
<1> QED BY <1>3 DEF T

(* The function for a longer list is the one for a shorter, as far as that   *)
(* goes.                                                                     *)
LEMMA FlatSame ==
  ASSUME NEW ws, NEW n \in Nat, NEW g, FlatTo(g, ws, n), NEW h, FlatTo(h, ws, n + 1)
  PROVE  \A i \in 1..n : g[i] = h[i]
<1> DEFINE T == {i \in Nat : i \in 1..n => g[i] = h[i]}
<1>1. 0 \in T  OBVIOUS
<1>2. ASSUME NEW i \in Nat, i \in T PROVE i + 1 \in T
  <2> SUFFICES ASSUME i + 1 \in 1..n PROVE g[i + 1] = h[i + 1]  OBVIOUS
  <2>1. g[i + 1] = IF i + 1 = 1 THEN ws[i + 1] ELSE g[(i + 1) - 1] \o ws[i + 1]
    BY DEF FlatTo
  <2>2. h[i + 1] = IF i + 1 = 1 THEN ws[i + 1] ELSE h[(i + 1) - 1] \o ws[i + 1]
    <3>1. i + 1 \in 1..(n + 1)  OBVIOUS
    <3>2. \A j \in 1..(n + 1) : h[j] = IF j = 1 THEN ws[j] ELSE h[j - 1] \o ws[j]
      BY DEF FlatTo
    <3> QED BY <3>1, <3>2
  <2>3. i # 0 => g[i] = h[i]  BY <1>2
  <2> QED BY <2>1, <2>2, <2>3
<1> HIDE DEF T
<1>3. Nat \subseteq T  BY <1>1, <1>2, Induction
<1> QED BY <1>3 DEF T

(* So FlattenSeq is what its definition says.                                *)
LEMMA FlatUnfolds ==
  ASSUME NEW ws, IsSeq(ws), Len(ws) # 0
  PROVE  \E g : FlatTo(g, ws, Len(ws)) /\ FlattenSeq(ws) = g[Len(ws)]
<1>1. PICK g : FlatTo(g, ws, Len(ws))  BY FlatExists, Elements
<1> QED BY <1>1 DEF FlatTo, FlattenSeq

(* One more sequence at the end of the list comes after the others.          *)
LEMMA FlattenStep ==
  ASSUME NEW ws, NEW n \in Nat, NEW us, IsSeq(ws), Len(ws) = n + 1,
         us = [i \in 1..n |-> ws[i]], IsSeq(ws[1])
  PROVE  FlattenSeq(ws) = FlattenSeq(us) \o ws[n + 1]
<1>1. IsSeq(us) /\ Len(us) = n  BY Listed
<1>2. PICK g : FlatTo(g, ws, n + 1) /\ FlattenSeq(ws) = g[n + 1]  BY FlatUnfolds
<1>3. g[n + 1] = IF n = 0 THEN ws[n + 1] ELSE g[n] \o ws[n + 1]
  <2>1. n + 1 \in 1..(n + 1) /\ (n + 1) - 1 = n /\ (n = 0 <=> n + 1 = 1)  OBVIOUS
  <2>2. \A j \in 1..(n + 1) : g[j] = IF j = 1 THEN ws[j] ELSE g[j - 1] \o ws[j]
    BY <1>2 DEF FlatTo
  <2> QED BY <2>1, <2>2
<1>4. CASE n = 0
  <2>1. FlattenSeq(us) = <<>>  BY <1>1, <1>4 DEF FlattenSeq
  <2>2. n + 1 = 1  BY <1>4
  <2>3. <<>> \o ws[n + 1] = ws[n + 1]  BY <2>2 DEF IsSeq
  <2> QED BY <1>2, <1>3, <1>4, <2>1, <2>3
<1>5. CASE n # 0
  <2>1. PICK h : FlatTo(h, us, n) /\ FlattenSeq(us) = h[n]  BY <1>1, <1>5, FlatUnfolds
  <2>2. FlatTo(h, ws, n)
    <3>1. \A i \in 1..n : us[i] = ws[i]  OBVIOUS
    <3> QED BY <2>1, <3>1 DEF FlatTo
  <2>3. h[n] = g[n]  BY <2>2, <1>2, <1>5, FlatSame
  <2> QED BY <1>2, <1>3, <1>5, <2>1, <2>3
<1> QED BY <1>4, <1>5

Got(g, read, n, pos) ==
  g = [i \in 0..n |-> IF i = 0 THEN At(<<>>, pos) ELSE Then(g[i - 1], read)]

(* The function that Times recurses on exists for every number of values.    *)
LEMMA GotExists == ASSUME NEW read, NEW pos PROVE \A n \in Nat : \E g : Got(g, read, n, pos)
<1> DEFINE T == {n \in Nat : \E g : Got(g, read, n, pos)}
<1>1. 0 \in T
  <2>1. Got([i \in 0..0 |-> At(<<>>, pos)], read, 0, pos)  BY DEF Got
  <2> QED BY <2>1
<1>2. ASSUME NEW n \in Nat, n \in T PROVE n + 1 \in T
  <2>1. PICK g : Got(g, read, n, pos)  BY <1>2
  <2> DEFINE h == [i \in 0..(n + 1) |->
                     IF i = 0 THEN At(<<>>, pos) ELSE Then(g[i - 1], read)]
  <2>2. \A i \in 0..n : h[i] = g[i]
    <3>1. \A i \in 0..n : g[i] = IF i = 0 THEN At(<<>>, pos) ELSE Then(g[i - 1], read)
      BY <2>1 DEF Got
    <3> QED BY <3>1
  <2>3. \A i \in 0..(n + 1) : i # 0 => g[i - 1] = h[i - 1]
    <3>1. \A i \in 0..(n + 1) : i # 0 => i - 1 \in 0..n  OBVIOUS
    <3> HIDE DEF h
    <3> QED BY <2>2, <3>1
  <2>4. h = [i \in 0..(n + 1) |-> IF i = 0 THEN At(<<>>, pos) ELSE Then(h[i - 1], read)]
    <3>1. h = [i \in 0..(n + 1) |->
                 IF i = 0 THEN At(<<>>, pos) ELSE Then(g[i - 1], read)]
      OBVIOUS
    <3> HIDE DEF h
    <3> QED BY <2>3, <3>1
  <2> HIDE DEF h
  <2> QED BY <2>4 DEF Got
<1> HIDE DEF T
<1>3. Nat \subseteq T  BY <1>1, <1>2, Induction
<1> QED BY <1>3 DEF T

(* The function for more values is the one for fewer, as far as that goes.   *)
LEMMA GotSame ==
  ASSUME NEW read, NEW pos, NEW n \in Nat,
         NEW g, Got(g, read, n, pos), NEW h, Got(h, read, n + 1, pos)
  PROVE  \A i \in 0..n : g[i] = h[i]
<1> DEFINE T == {i \in Nat : i \in 0..n => g[i] = h[i]}
<1>1. 0 \in T
  <2>1. g[0] = At(<<>>, pos) /\ h[0] = At(<<>>, pos)  BY DEF Got
  <2> QED BY <2>1
<1>2. ASSUME NEW i \in Nat, i \in T PROVE i + 1 \in T
  <2> SUFFICES ASSUME i + 1 \in 0..n PROVE g[i + 1] = h[i + 1]  OBVIOUS
  <2>1. g[i + 1] = Then(g[i], read)
    <3>1. g[i + 1] = IF i + 1 = 0 THEN At(<<>>, pos) ELSE Then(g[(i + 1) - 1], read)
      BY DEF Got
    <3>2. i + 1 # 0 /\ (i + 1) - 1 = i  OBVIOUS
    <3> QED BY <3>1, <3>2
  <2>2. h[i + 1] = Then(h[i], read)
    <3>1. h[i + 1] = IF i + 1 = 0 THEN At(<<>>, pos) ELSE Then(h[(i + 1) - 1], read)
      BY DEF Got
    <3>2. i + 1 # 0 /\ (i + 1) - 1 = i  OBVIOUS
    <3> QED BY <3>1, <3>2
  <2>3. g[i] = h[i]  BY <1>2
  <2> QED BY <2>1, <2>2, <2>3
<1> HIDE DEF T
<1>3. Nat \subseteq T  BY <1>1, <1>2, Induction
<1> QED BY <1>3 DEF T

(* So Times is what its definition says.                                     *)
LEMMA TimesUnfolds ==
  ASSUME NEW read, NEW pos, NEW n \in Nat
  PROVE  \E g : Got(g, read, n, pos) /\ Times(read, n, pos) = g[n]
<1>1. PICK g : Got(g, read, n, pos)  BY GotExists
<1> QED BY <1>1 DEF Got, Times

(* Reading one value more is reading it after the others.                    *)
LEMMA TimesStep ==
  ASSUME NEW read, NEW pos
  PROVE  /\ Times(read, 0, pos) = At(<<>>, pos)
         /\ \A n \in Nat : Times(read, n + 1, pos) = Then(Times(read, n, pos), read)
<1>1. Times(read, 0, pos) = At(<<>>, pos)
  <2>1. PICK g : Got(g, read, 0, pos) /\ Times(read, 0, pos) = g[0]  BY TimesUnfolds
  <2> QED BY <2>1 DEF Got
<1>2. ASSUME NEW n \in Nat
      PROVE  Times(read, n + 1, pos) = Then(Times(read, n, pos), read)
  <2>1. PICK g : Got(g, read, n, pos) /\ Times(read, n, pos) = g[n]  BY TimesUnfolds
  <2>2. n + 1 \in Nat  OBVIOUS
  <2>3. PICK h : Got(h, read, n + 1, pos) /\ Times(read, n + 1, pos) = h[n + 1]
    BY <2>2, TimesUnfolds
  <2>4. g[n] = h[n]  BY <2>1, <2>3, GotSame
  <2>5. h[n + 1] = Then(h[n], read)
    <3>1. h[n + 1] = IF n + 1 = 0 THEN At(<<>>, pos) ELSE Then(h[(n + 1) - 1], read)
      BY <2>3 DEF Got
    <3>2. n + 1 # 0 /\ (n + 1) - 1 = n  OBVIOUS
    <3> QED BY <3>1, <3>2
  <2> QED BY <2>1, <2>3, <2>4, <2>5
<1> QED BY <1>1, <1>2

----------------------------------------------------------------------------
(* Readers: what is written of a value is read as that value, wherever in the*)
(* message it is.                                                            *)

(* The fields from pos on are those of w; and read reads v where w is.       *)
Holds(fields, pos, w) == \A i \in 1..Len(w) : fields[pos + i - 1] = w[i]
Reads(fields, read, w, v) ==
  IsSeq(w) /\ \A pos \in Nat : Holds(fields, pos, w) => read[pos] = At(v, pos + Len(w))

(* Where two sequences are joined there is each of them.                     *)
LEMMA HoldsBoth ==
  ASSUME NEW fields, NEW pos \in Nat, NEW u, NEW w, IsSeq(u), IsSeq(w),
         Holds(fields, pos, u \o w)
  PROVE  Holds(fields, pos, u) /\ Holds(fields, pos + Len(u), w) /\ pos + Len(u) \in Nat
<1>1. Len(u) \in Nat /\ Len(w) \in Nat /\ Len(u \o w) = Len(u) + Len(w)
  BY Elements, Joins
<1>2. ASSUME NEW i \in 1..Len(u) PROVE fields[pos + i - 1] = u[i]
  <2>1. i \in 1..Len(u \o w)  BY <1>1
  <2>2. (u \o w)[i] = u[i]  BY Joins
  <2> QED BY <2>1, <2>2 DEF Holds
<1>3. ASSUME NEW i \in 1..Len(w) PROVE fields[pos + Len(u) + i - 1] = w[i]
  <2>1. Len(u) + i \in 1..Len(u \o w)  BY <1>1
  <2>2. (u \o w)[Len(u) + i] = w[i]  BY Joins
  <2>3. pos + (Len(u) + i) - 1 = pos + Len(u) + i - 1  BY <1>1
  <2>4. fields[pos + (Len(u) + i) - 1] = (u \o w)[Len(u) + i]  BY <2>1 DEF Holds
  <2> QED BY <2>2, <2>3, <2>4
<1> QED BY <1>1, <1>2, <1>3 DEF Holds

(* A field is read as it was written.                                        *)
LEMMA OneField == ASSUME NEW fields, NEW v PROVE Reads(fields, Field(fields), <<v>>, v)
<1>1. IsSeq(<<v>>) /\ Len(<<v>>) = 1  BY DEF IsSeq, ToSet
<1>2. ASSUME NEW pos \in Nat, Holds(fields, pos, <<v>>)
      PROVE  Field(fields)[pos] = At(v, pos + 1)
  <2>1. fields[pos + 1 - 1] = v  BY <1>2 DEF Holds
  <2>2. pos + 1 - 1 = pos  OBVIOUS
  <2> QED BY <2>1, <2>2 DEF Field
<1> QED BY <1>1, <1>2 DEF Reads

(* One value after the others. *)
LEMMA ThenReads ==
  ASSUME NEW fields, NEW read, NEW w, NEW v, Reads(fields, read, w, v),
         NEW pos \in Nat, Holds(fields, pos, w), NEW done
  PROVE  Then(At(done, pos), read) = At(Append(done, v), pos + Len(w))
<1>1. read[pos] = At(v, pos + Len(w))  BY DEF Reads
<1>2. /\ At(done, pos).pos = pos /\ At(done, pos).value = done
      /\ At(v, pos + Len(w)).value = v /\ At(v, pos + Len(w)).pos = pos + Len(w)
  BY DEF At
<1> QED BY <1>1, <1>2 DEF Then

(* Many values written one after the other, read by one reader. *)
Written(fields, read, n, ws, vs) ==
  /\ ws = [i \in 1..n |-> ws[i]] /\ vs = [i \in 1..n |-> vs[i]]
  /\ \A i \in 1..n : Reads(fields, read, ws[i], vs[i])

(* They are read in their order, all of them.                                *)
LEMMA TimesReads ==
  ASSUME NEW fields, NEW read, NEW n \in Nat, NEW ws, NEW vs,
         Written(fields, read, n, ws, vs)
  PROVE  /\ IsSeq(FlattenSeq(ws))
         /\ \A pos \in Nat : Holds(fields, pos, FlattenSeq(ws)) =>
              Times(read, n, pos) = At(vs, pos + Len(FlattenSeq(ws)))
<1> DEFINE W(m) == [i \in 1..m |-> ws[i]]
           V(m) == [i \in 1..m |-> vs[i]]
           Done(m) ==
             /\ IsSeq(FlattenSeq(W(m)))
             /\ \A pos \in Nat : Holds(fields, pos, FlattenSeq(W(m))) =>
                  Times(read, m, pos) = At(V(m), pos + Len(FlattenSeq(W(m))))
           T == {m \in Nat : m <= n => Done(m)}
<1> HIDE DEF Done
<1>1. Done(0)
  <2>1. W(0) = <<>> /\ V(0) = <<>> /\ Len(<<>>) = 0 /\ IsSeq(<<>>)  BY DEF IsSeq
  <2>2. FlattenSeq(W(0)) = <<>>  BY <2>1 DEF FlattenSeq
  <2> HIDE DEF W, V
  <2>3. \A pos \in Nat : Times(read, 0, pos) = At(V(0), pos + Len(FlattenSeq(W(0))))
    <3>1. \A pos \in Nat : pos + Len(FlattenSeq(W(0))) = pos  BY <2>1, <2>2
    <3>2. \A pos \in Nat : Times(read, 0, pos) = At(V(0), pos)  BY <2>1, TimesStep
    <3> QED BY <3>1, <3>2
  <2> QED BY <2>1, <2>2, <2>3 DEF Done
<1>2. ASSUME NEW m \in Nat, Done(m), m + 1 <= n PROVE Done(m + 1)
  <2> DEFINE f == FlattenSeq(W(m))
  <2>1. m + 1 \in 1..n /\ 1 \in 1..n  BY <1>2
  <2>2. Reads(fields, read, ws[m + 1], vs[m + 1])  BY <2>1 DEF Written
  <2>3. FlattenSeq(W(m + 1)) = f \o ws[m + 1]
    <3>1. W(m + 1) = [i \in 1..(m + 1) |-> W(m + 1)[i]] /\ m + 1 \in Nat  OBVIOUS
    <3>2. IsSeq(W(m + 1)) /\ Len(W(m + 1)) = m + 1
      <4> HIDE DEF W
      <4> QED BY <3>1, Listed
    <3>3. W(m) = [i \in 1..m |-> W(m + 1)[i]]  OBVIOUS
    <3>4. W(m + 1)[m + 1] = ws[m + 1] /\ W(m + 1)[1] = ws[1]  OBVIOUS
    <3>5. IsSeq(ws[1])  BY <2>1 DEF Reads, Written
    <3> DEFINE a == W(m + 1)
               b == W(m)
    <3>6. /\ IsSeq(a) /\ Len(a) = m + 1 /\ b = [i \in 1..m |-> a[i]]
          /\ IsSeq(a[1]) /\ a[m + 1] = ws[m + 1]
      BY <3>2, <3>3, <3>4, <3>5
    <3> HIDE DEF a, b
    <3>7. FlattenSeq(a) = FlattenSeq(b) \o a[m + 1]  BY <3>6, FlattenStep
    <3> QED BY <3>6, <3>7 DEF a, b
  <2>4. V(m + 1) = Append(V(m), vs[m + 1])
    <3>1. V(m) = [i \in 1..m |-> V(m)[i]]  OBVIOUS
    <3>2. IsSeq(V(m)) /\ Len(V(m)) = m  BY <3>1, Listed
    <3>3. Append(V(m), vs[m + 1]) =
            [i \in 1..(m + 1) |-> IF i = m + 1 THEN vs[m + 1] ELSE V(m)[i]]
      <4> HIDE DEF V
      <4> QED BY <3>2 DEF IsSeq
    <3> QED BY <3>3
  <2>5. /\ IsSeq(f)
        /\ \A pos \in Nat : Holds(fields, pos, f) =>
             Times(read, m, pos) = At(V(m), pos + Len(f))
    BY <1>2 DEF Done
  <2> HIDE DEF W, V, f
  <2>6. IsSeq(f) /\ IsSeq(ws[m + 1])  BY <2>2, <2>5 DEF Reads
  <2>7. IsSeq(f \o ws[m + 1]) /\ Len(f \o ws[m + 1]) = Len(f) + Len(ws[m + 1])
    BY <2>6, Joins
  <2>8. ASSUME NEW pos \in Nat, Holds(fields, pos, f \o ws[m + 1])
        PROVE  Times(read, m + 1, pos) = At(V(m + 1), pos + Len(f \o ws[m + 1]))
    <3> DEFINE e == pos + Len(f)
    <3>1. Holds(fields, pos, f) /\ Holds(fields, e, ws[m + 1]) /\ e \in Nat
      BY <2>6, <2>8, HoldsBoth
    <3>2. Times(read, m, pos) = At(V(m), e)  BY <2>5, <3>1
    <3>3. Times(read, m + 1, pos) = Then(At(V(m), e), read)
      BY <3>2, TimesStep
    <3>4. Then(At(V(m), e), read) = At(Append(V(m), vs[m + 1]), e + Len(ws[m + 1]))
      <4> HIDE DEF e
      <4> QED BY <2>2, <3>1, ThenReads
    <3>5. e + Len(ws[m + 1]) = pos + Len(f \o ws[m + 1])
      <4>1. Len(f) \in Nat /\ Len(ws[m + 1]) \in Nat  BY <2>6, Elements
      <4>2. \A a, b \in Nat : (pos + a) + b = pos + (a + b)  OBVIOUS
      <4>3. (pos + Len(f)) + Len(ws[m + 1]) = pos + (Len(f) + Len(ws[m + 1]))
        BY <4>1, <4>2
      <4> QED BY <4>3, <2>7, Zenon
    <3> QED BY <2>4, <3>3, <3>4, <3>5
  <2>9. f \o ws[m + 1] = FlattenSeq(W(m + 1))  BY <2>3
  <2> QED BY <2>7, <2>8, <2>9 DEF Done
<1>3. Done(n)
  <2>1. 0 \in T /\ \A m \in Nat : m \in T => m + 1 \in T
    <3>1. ASSUME NEW m \in Nat, m \in T, m + 1 <= n PROVE m <= n /\ Done(m)
      <4>1. m <= n  BY <3>1
      <4> QED BY <4>1, <3>1
    <3> QED BY <1>1, <1>2, <3>1
  <2>2. n \in T
    <3> HIDE DEF T
    <3> QED BY <2>1, Induction
  <2> QED BY <2>2
<1>4. W(n) = ws /\ V(n) = vs  BY DEF Written
<1> HIDE DEF W, V
<1> QED BY <1>3, <1>4 DEF Done

(* The same for ReadAll, whose number of values the reader knows.            *)
LEMMA AllReads ==
  ASSUME NEW fields, NEW read, NEW n \in Nat, NEW ws, NEW vs,
         Written(fields, read, n, ws, vs)
  PROVE  Reads(fields, ReadAll(read, n), FlattenSeq(ws), vs)
<1> DEFINE f == FlattenSeq(ws)
<1>1. IsSeq(f) /\ \A pos \in Nat : Holds(fields, pos, f) =>
                    Times(read, n, pos) = At(vs, pos + Len(f))
  BY TimesReads
<1> HIDE DEF f
<1>2. Reads(fields, ReadAll(read, n), f, vs)  BY <1>1 DEF Reads, ReadAll
<1> QED BY <1>2 DEF f

(* The same for a list, which says how many values it has.                   *)
LEMMA ListReads ==
  ASSUME NEW fields, NEW read, NEW n \in Nat, NEW ws, NEW vs,
         Written(fields, read, n, ws, vs)
  PROVE  Reads(fields, ReadList(fields, read), WriteList(ws), vs)
<1> DEFINE f == FlattenSeq(ws)
<1>1. IsSeq(f) /\ \A pos \in Nat : Holds(fields, pos, f) =>
                    Times(read, n, pos) = At(vs, pos + Len(f))
  BY TimesReads
<1>2. Len(ws) = n  BY Listed DEF Written
<1> HIDE DEF f
<1>3. IsSeq(<<n>>) /\ Len(<<n>>) = 1  BY DEF IsSeq, ToSet
<1>4. IsSeq(<<n>> \o f) /\ Len(<<n>> \o f) = 1 + Len(f)  BY <1>1, <1>3, Joins
<1>5. ASSUME NEW pos \in Nat, Holds(fields, pos, <<n>> \o f)
      PROVE  ReadList(fields, read)[pos] = At(vs, pos + Len(<<n>> \o f))
  <2>1. Holds(fields, pos, <<n>>) /\ Holds(fields, pos + 1, f)
    BY <1>1, <1>3, <1>5, HoldsBoth
  <2>2. fields[pos] = n
    <3>1. fields[pos + 1 - 1] = n /\ pos + 1 - 1 = pos  BY <2>1 DEF Holds
    <3> QED BY <3>1
  <2>3. Times(read, n, pos + 1) = At(vs, pos + 1 + Len(f))
    <3>1. pos + 1 \in Nat  OBVIOUS
    <3> QED BY <1>1, <2>1, <3>1
  <2>4. pos + 1 + Len(f) = pos + (1 + Len(f))  BY <1>1, Elements
  <2> QED BY <1>4, <2>2, <2>3, <2>4 DEF ReadList
<1>6. WriteList(ws) = <<n>> \o f  BY <1>2 DEF WriteList, f
<1> QED BY <1>4, <1>5, <1>6 DEF Reads

----------------------------------------------------------------------------
(* Maps.                                                                     *)

(* Two parts of what is written, and a reader of both. *)
LEMMA Splits ==
  ASSUME NEW fields, NEW pos \in Nat, NEW u, NEW w, IsSeq(u), IsSeq(w),
         Holds(fields, pos, u \o w)
  PROVE  /\ Holds(fields, pos, u) /\ Holds(fields, pos + Len(u), w)
         /\ pos + Len(u) \in Nat
         /\ pos + Len(u) + Len(w) = pos + Len(u \o w)
<1>1. Len(u) \in Nat /\ Len(w) \in Nat  BY Elements
<1>2. \A a, b \in Nat : (pos + a) + b = pos + (a + b)  OBVIOUS
<1>3. (pos + Len(u)) + Len(w) = pos + (Len(u) + Len(w))  BY <1>1, <1>2
<1>4. Len(u \o w) = Len(u) + Len(w)  BY Joins
<1>5. (pos + Len(u)) + Len(w) = pos + Len(u \o w)  BY <1>3, <1>4, Zenon
<1> QED BY <1>5, HoldsBoth

(* Appending to a short sequence.                                            *)
LEMMA Append1 == ASSUME NEW a PROVE Append(<<>>, a) = <<a>>
OBVIOUS

(* A second element.                                                         *)
LEMMA Append2 == ASSUME NEW a, NEW b PROVE Append(<<a>>, b) = <<a, b>>
<1> DEFINE t == Append(<<a>>, b)
<1>1. t \in Seq({a, b}) /\ <<a, b>> \in Seq({a, b})  BY AppendProperties
<1>2. Len(t) = 2 /\ t[1] = a /\ t[2] = b  OBVIOUS
<1>3. \A i \in 1..2 : t[i] = <<a, b>>[i]  BY <1>2
<1> HIDE DEF t
<1>4. t = <<a, b>>  BY <1>1, <1>2, <1>3, SeqEqual
<1> QED BY <1>4 DEF t

(* A third.                                                                  *)
LEMMA Append3 ==
  ASSUME NEW a, NEW b, NEW c
  PROVE  Append(Append(<<a>>, b), c) = <<a, b, c>>
<1> DEFINE t == Append(<<a, b>>, c)
<1>1. t \in Seq({a, b, c}) /\ <<a, b, c>> \in Seq({a, b, c})  OBVIOUS
<1>2. Len(t) = 3 /\ t[1] = a /\ t[2] = b /\ t[3] = c  OBVIOUS
<1>3. \A i \in 1..3 : t[i] = <<a, b, c>>[i]  BY <1>2
<1> HIDE DEF t
<1>4. t = <<a, b, c>>  BY <1>1, <1>2, <1>3, SeqEqual
<1>5. Append(<<a>>, b) = <<a, b>>  BY Append2, Zenon
<1> QED BY <1>4, <1>5, Zenon DEF t

(* A fourth.                                                                 *)
LEMMA Append4 ==
  ASSUME NEW a, NEW b, NEW c, NEW d
  PROVE  Append(Append(Append(<<a>>, b), c), d) = <<a, b, c, d>>
<1> DEFINE t == Append(<<a, b, c>>, d)
<1>1. t \in Seq({a, b, c, d}) /\ <<a, b, c, d>> \in Seq({a, b, c, d})  OBVIOUS
<1>2. Len(t) = 4 /\ t[1] = a /\ t[2] = b /\ t[3] = c /\ t[4] = d  OBVIOUS
<1>3. \A i \in 1..4 : t[i] = <<a, b, c, d>>[i]  BY <1>2
<1> HIDE DEF t
<1>4. t = <<a, b, c, d>>  BY <1>1, <1>2, <1>3, SeqEqual
<1>5. Append(Append(<<a>>, b), c) = <<a, b, c>>  BY Append3, Zenon
<1> QED BY <1>4, <1>5, Zenon DEF t

(* An entry of a map, and the map. *)
LEMMA EntryReads ==
  ASSUME NEW fields, NEW read, NEW key, NEW w, NEW v, Reads(fields, read, w, v)
  PROVE  Reads(fields, Entry(fields, read), <<key>> \o w, <<key, v>>)
<1> DEFINE k == <<key>>
<1>1. IsSeq(k) /\ IsSeq(w)  BY DEF IsSeq, ToSet, Reads
<1>2. Reads(fields, Field(fields), k, key)  BY OneField
<1>3. Append(Append(<<>>, key), v) = <<key, v>>
  <2>1. Append(<<>>, key) = <<key>>  BY Append1, Zenon
  <2>2. Append(<<key>>, v) = <<key, v>>  BY Append2, Zenon
  <2> QED BY <2>1, <2>2, Zenon
<1> HIDE DEF k
<1>4. IsSeq(k \o w)  BY <1>1, Joins
<1>5. ASSUME NEW pos \in Nat, Holds(fields, pos, k \o w)
      PROVE  Entry(fields, read)[pos] = At(<<key, v>>, pos + Len(k \o w))
  <2> DEFINE e == pos + Len(k)
  <2>1. Holds(fields, pos, k) /\ Holds(fields, e, w) /\ e \in Nat
    BY <1>1, <1>5, Splits
  <2>2. e + Len(w) = pos + Len(k \o w)
    BY <1>1, <1>5, Splits
  <2>3. \A done : Then(At(done, pos), Field(fields)) = At(Append(done, key), e)
    BY <2>1, <1>2, ThenReads
  <2> HIDE DEF e
  <2>4. \A done : Then(At(done, e), read) = At(Append(done, v), e + Len(w))
    BY <2>1, ThenReads
  <2>5. Then(Then(At(<<>>, pos), Field(fields)), read)
          = At(Append(Append(<<>>, key), v), e + Len(w))
    BY <2>3, <2>4, Zenon
  <2>6. Entry(fields, read)[pos] = Then(Then(At(<<>>, pos), Field(fields)), read)
    BY DEF Entry
  <2> QED BY <2>2, <2>5, <2>6, <1>3, Zenon
<1>6. Reads(fields, Entry(fields, read), k \o w, <<key, v>>)  BY <1>4, <1>5 DEF Reads
<1> QED BY <1>6 DEF k

(* The order in which a map is written has each key once.                    *)
LEMMA Keys ==
  ASSUME NEW S, IsFiniteSet(S)
  PROVE  LET keys == SetToSeq(S)
         IN  /\ IsSeq(keys) /\ ToSet(keys) = S
             /\ \A i, j \in DOMAIN keys : keys[i] = keys[j] => i = j
<1> DEFINE n == Cardinality(S)
           keys == SetToSeq(S)
<1>1. n \in Nat /\ IsFiniteSet(1..n) /\ Cardinality(1..n) = n
  BY FS_CardinalityType, FS_Interval
<1>2. \E f \in [1..n -> S] : IsInjective(f)
  <2>1. PICK f \in Bijection(1..n, S) : TRUE
    BY FS_CardinalityType DEF ExistsBijection
  <2> QED BY <2>1 DEF Bijection, Injection
<1>3. keys \in [1..n -> S] /\ IsInjective(keys)  BY <1>2 DEF SetToSeq
<1> HIDE DEF keys
<1>4. keys \in Injection(1..n, S)  BY <1>3 DEF Injection
<1>5. keys \in Surjection(1..n, S)  BY <1>1, <1>4, FS_Injection
<1>6. IsSeq(keys)
  <2>1. keys = [i \in 1..n |-> keys[i]]  BY <1>3
  <2> QED BY <1>1, <2>1, Listed
<1>7. ToSet(keys) = S  BY <1>3, <1>5 DEF Surjection, ToSet
<1>8. \A i, j \in DOMAIN keys : keys[i] = keys[j] => i = j
  BY <1>3 DEF IsInjective
<1> QED BY <1>6, <1>7, <1>8 DEF keys

(* A map is read as it was written, in whatever order that was.              *)
LEMMA MapReads ==
  ASSUME NEW fields, NEW read, NEW S, IsFiniteSet(S), NEW W, NEW M,
         W = [k \in S |-> W[k]], M = [k \in S |-> M[k]],
         \A k \in S : Reads(fields, read, W[k], M[k])
  PROVE  Reads(fields, ReadMap(fields, read), WriteMap(W), M)
<1> DEFINE keys == SetToSeq(S)
           n == Len(keys)
           ws == [i \in DOMAIN keys |-> <<keys[i]>> \o W[keys[i]]]
           vs == [i \in DOMAIN keys |-> <<keys[i], M[keys[i]]>>]
<1>1. IsSeq(keys) /\ ToSet(keys) = S /\ \A i, j \in DOMAIN keys : keys[i] = keys[j] => i = j
  BY Keys
<1> HIDE DEF keys
<1>2. n \in Nat /\ DOMAIN keys = 1..n  BY <1>1, Elements
<1> HIDE DEF n
<1>3. \A i \in 1..n : keys[i] \in S  BY <1>1, <1>2 DEF ToSet
<1>4. Written(fields, Entry(fields, read), n, ws, vs)
  <2>1. \A i \in 1..n : Reads(fields, Entry(fields, read), ws[i], vs[i])
    BY <1>2, <1>3, EntryReads
  <2>2. ws = [i \in 1..n |-> ws[i]] /\ vs = [i \in 1..n |-> vs[i]]  BY <1>2
  <2> HIDE DEF ws, vs
  <2> QED BY <2>1, <2>2 DEF Written
<1>5. Reads(fields, ReadList(fields, Entry(fields, read)), WriteList(ws), vs)
  <2> HIDE DEF ws, vs
  <2> QED BY <1>2, <1>4, ListReads
<1>6. WriteMap(W) = WriteList(ws)
  <2>1. DOMAIN W = S  OBVIOUS
  <2> QED BY <2>1 DEF WriteMap, keys
<1>7. MapOf(vs) = M
  <2>1. ToSet(vs) = {<<k, M[k]>> : k \in S}
    <3>1. ToSet(vs) = {<<keys[i], M[keys[i]]>> : i \in DOMAIN keys}  BY DEF ToSet
    <3>2. S = {keys[i] : i \in DOMAIN keys}  BY <1>1 DEF ToSet
    <3>3. \A k \in S : \E i \in DOMAIN keys : k = keys[i]  BY <3>2
    <3>4. \A i \in DOMAIN keys : keys[i] \in S  BY <3>2
    <3> HIDE DEF vs
    <3> QED BY <3>1, <3>3, <3>4
  <2> DEFINE E == {<<k, M[k]>> : k \in S}
  <2>2. {e[1] : e \in E} = S
    <3>1. \A k \in S : <<k, M[k]>> \in E /\ <<k, M[k]>>[1] = k  OBVIOUS
    <3>2. \A e \in E : e[1] \in S  OBVIOUS
    <3> HIDE DEF E
    <3> QED BY <3>1, <3>2
  <2>3. ASSUME NEW k \in S PROVE (CHOOSE e \in E : e[1] = k)[2] = M[k]
    <3>1. <<k, M[k]>> \in E /\ \A e \in E : e[1] = k => e = <<k, M[k]>>  OBVIOUS
    <3>2. (CHOOSE e \in E : e[1] = k) = <<k, M[k]>>
      <4> HIDE DEF E
      <4>1. <<k, M[k]>>[1] = k  OBVIOUS
      <4> QED BY <3>1, <4>1
    <3> QED BY <3>2
  <2>4. MapOf(vs) = [k \in S |-> (CHOOSE e \in E : e[1] = k)[2]]
    <3> HIDE DEF vs
    <3> QED BY <2>1, <2>2 DEF MapOf
  <2> QED BY <2>3, <2>4
<1> HIDE DEF ws, vs
<1>8. ASSUME NEW pos \in Nat, Holds(fields, pos, WriteList(ws))
      PROVE  ReadMap(fields, read)[pos] = At(M, pos + Len(WriteList(ws)))
  <2>1. ReadList(fields, Entry(fields, read))[pos] = At(vs, pos + Len(WriteList(ws)))
    BY <1>5, <1>8 DEF Reads
  <2> QED BY <1>7, <2>1 DEF ReadMap, At
<1> QED BY <1>5, <1>6, <1>8 DEF Reads

----------------------------------------------------------------------------
(* Vectors of counters, and lists.                                           *)

Vector(w, n) == w = [i \in 1..n |-> w[i]]
Singles(w, n) == [i \in 1..n |-> <<w[i]>>]

(* The fields of a vector are its elements. *)
LEMMA FlattenSingles ==
  ASSUME NEW w, NEW n \in Nat, Vector(w, n)
  PROVE  FlattenSeq(Singles(w, n)) = w
<1> DEFINE V(m) == [i \in 1..m |-> w[i]]
           T == {m \in Nat : m <= n => FlattenSeq(Singles(w, m)) = V(m)}
<1>1. FlattenSeq(Singles(w, 0)) = V(0)
  <2>1. Singles(w, 0) = <<>> /\ V(0) = <<>> /\ Len(<<>>) = 0  BY DEF Singles
  <2> HIDE DEF V
  <2> QED BY <2>1 DEF FlattenSeq
<1>2. ASSUME NEW m \in Nat, m + 1 <= n, FlattenSeq(Singles(w, m)) = V(m)
      PROVE  FlattenSeq(Singles(w, m + 1)) = V(m + 1)
  <2> DEFINE a == Singles(w, m + 1)
             b == Singles(w, m)
  <2>1. /\ a = [i \in 1..(m + 1) |-> a[i]] /\ b = [i \in 1..m |-> a[i]]
        /\ a[m + 1] = <<w[m + 1]>> /\ a[1] = <<w[1]>>
    BY DEF Singles
  <2>2. IsSeq(<<w[1]>>)  BY DEF IsSeq, ToSet
  <2> HIDE DEF a, b
  <2>3. IsSeq(a) /\ Len(a) = m + 1  BY <2>1, Listed
  <2>4. FlattenSeq(a) = FlattenSeq(b) \o a[m + 1]
    BY <2>1, <2>2, <2>3, FlattenStep
  <2>5. FlattenSeq(a) = V(m) \o <<w[m + 1]>>
    <3> HIDE DEF V
    <3> QED BY <1>2, <2>1, <2>4 DEF b
  <2>6. V(m) \o <<w[m + 1]>> = V(m + 1)
    <3>1. V(m) = [i \in 1..m |-> V(m)[i]]  OBVIOUS
    <3> DEFINE s == V(m)
    <3>2. s = [i \in 1..m |-> w[i]]  OBVIOUS
    <3> HIDE DEF s
    <3>3. IsSeq(s) /\ Len(s) = m /\ DOMAIN s = 1..m
      <4>1. s = [i \in 1..m |-> s[i]]  BY <3>2
      <4> QED BY <4>1, Listed
    <3>4. IsSeq(<<w[m + 1]>>) /\ Len(<<w[m + 1]>>) = 1 /\ <<w[m + 1]>>[1] = w[m + 1]
      BY DEF IsSeq, ToSet
    <3> DEFINE u == <<w[m + 1]>>
    <3> HIDE DEF u
    <3>5. /\ IsSeq(s \o u) /\ Len(s \o u) = m + 1
          /\ \A i \in 1..m : (s \o u)[i] = s[i]
          /\ (s \o u)[m + 1] = u[1]
      <4>1. IsSeq(u) /\ Len(u) = 1  BY <3>4 DEF u
      <4>2. 1 \in 1..Len(u)  BY <4>1
      <4>3. /\ IsSeq(s \o u) /\ Len(s \o u) = Len(s) + Len(u)
            /\ \A i \in 1..Len(s) : (s \o u)[i] = s[i]
        BY <3>3, <4>1, Joins
      <4>4. (s \o u)[Len(s) + 1] = u[1]  BY <3>3, <4>1, <4>2, Joins
      <4> QED BY <3>3, <4>1, <4>3, <4>4
    <3>6. u[1] = w[m + 1]  BY <3>4 DEF u
    <3>7. s \o u = [i \in 1..(m + 1) |-> w[i]]
      <4>1. s \o u = [i \in 1..(m + 1) |-> (s \o u)[i]]  BY <3>5, Elements
      <4>2. \A i \in 1..m : (s \o u)[i] = w[i]  BY <3>2, <3>5
      <4>3. \A i \in 1..(m + 1) : i \in 1..m \/ i = m + 1  OBVIOUS
      <4>4. \A i \in 1..(m + 1) : (s \o u)[i] = w[i]  BY <4>2, <4>3, <3>5, <3>6
      <4> QED BY <4>1, <4>4
    <3> QED BY <3>7 DEF s, u
  <2> HIDE DEF V
  <2> QED BY <2>5, <2>6 DEF a
<1>3. n \in T
  <2> HIDE DEF V
  <2>1. 0 \in T  BY <1>1
  <2>2. \A m \in Nat : m \in T => m + 1 \in T  BY <1>2
  <2> HIDE DEF T
  <2> QED BY <2>1, <2>2, Induction
<1>4. V(n) = w  BY DEF Vector
<1> HIDE DEF V
<1> QED BY <1>3, <1>4

(* A vector is written element by element.                                   *)
LEMMA SinglesWritten ==
  ASSUME NEW fields, NEW w, NEW n \in Nat, Vector(w, n)
  PROVE  Written(fields, Field(fields), n, Singles(w, n), w)
<1>1. \A i \in 1..n : Reads(fields, Field(fields), Singles(w, n)[i], w[i])
  BY OneField DEF Singles
<1> QED BY <1>1 DEF Written, Vector, Singles

(* A vector whose length the reader knows.                                   *)
LEMMA VectorReads ==
  ASSUME NEW fields, NEW w, NEW n \in Nat, Vector(w, n)
  PROVE  Reads(fields, ReadAll(Field(fields), n), w, w)
BY SinglesWritten, FlattenSingles, AllReads

(* A vector that says how long it is.                                        *)
LEMMA CountedVectorReads ==
  ASSUME NEW fields, NEW w, IsSeq(w)
  PROVE  Reads(fields, ReadList(fields, Field(fields)), <<Len(w)>> \o w, w)
<1> DEFINE n == Len(w)
           a == Singles(w, n)
<1>1. n \in Nat /\ Vector(w, n)  BY Elements DEF Vector
<1> HIDE DEF n
<1>2. Reads(fields, ReadList(fields, Field(fields)), WriteList(a), w)
  BY <1>1, SinglesWritten, ListReads
<1>3. FlattenSeq(a) = w  BY <1>1, FlattenSingles
<1>4. Len(a) = n
  <2>1. a = [i \in 1..n |-> a[i]]  BY DEF Singles
  <2> HIDE DEF a
  <2> QED BY <1>1, <2>1, Listed
<1>5. WriteList(a) = <<n>> \o w  BY <1>3, <1>4 DEF WriteList
<1> QED BY <1>2, <1>5 DEF n

(* A list of values written each by itself. *)
LEMMA ListOfReads ==
  ASSUME NEW fields, NEW read, NEW vs, IsSeq(vs), NEW ws,
         ws = [i \in DOMAIN vs |-> ws[i]],
         \A i \in DOMAIN vs : Reads(fields, read, ws[i], vs[i])
  PROVE  Reads(fields, ReadList(fields, read), WriteList(ws), vs)
<1> DEFINE n == Len(vs)
<1>1. n \in Nat /\ DOMAIN vs = 1..n /\ vs = [i \in 1..n |-> vs[i]]  BY Elements
<1> HIDE DEF n
<1>2. Written(fields, read, n, ws, vs)  BY <1>1 DEF Written
<1> QED BY <1>1, <1>2, ListReads

----------------------------------------------------------------------------
(* What the message carries.                                                 *)

FiniteMap(m) == IsFiniteSet(DOMAIN m) /\ m = [k \in DOMAIN m |-> m[k]]

IsRow(r, n) ==
  /\ r = [hostname |-> r.hostname, procid |-> r.procid, initial |-> r.initial,
          final |-> r.final, time |-> r.time]
  /\ Vector(r.initial, n) /\ Vector(r.final, n)
IsSources(m) ==
  /\ FiniteMap(m)
  /\ \A s \in DOMAIN m :
       /\ FiniteMap(m[s]) /\ DOMAIN m[s] # {}
       /\ \A e \in DOMAIN m[s] : FiniteMap(m[s][e]) /\ DOMAIN m[s][e] # {}
IsSample(s, n) ==
  /\ s = [timestamp |-> s.timestamp, nics |-> s.nics, sources |-> s.sources]
  /\ FiniteMap(s.nics) /\ \A nic \in DOMAIN s.nics : Vector(s.nics[nic], n)
  /\ IsSources(s.sources)
IsSeries(t, n) ==
  /\ t = [hostname |-> t.hostname, procid |-> t.procid, time |-> t.time,
          samples |-> t.samples, latencies |-> t.latencies, repeats |-> t.repeats]
  /\ IsSeq(t.samples) /\ \A i \in DOMAIN t.samples : IsSample(t.samples[i], n)
  /\ IsSeq(t.latencies) /\ \A i \in DOMAIN t.latencies : Vector(t.latencies[i], 2)
  /\ IsSeq(t.repeats)
IsAggregate(a, n) ==
  /\ a = [rows |-> a.rows, series |-> a.series]
  /\ IsSeq(a.rows) /\ \A i \in DOMAIN a.rows : IsRow(a.rows[i], n)
  /\ IsSeq(a.series) /\ \A i \in DOMAIN a.series : IsSeries(a.series[i], n)

(* What is read of a row: all but its time. *)
Untimed(r) ==
  [hostname |-> r.hostname, procid |-> r.procid, initial |-> r.initial, final |-> r.final]

(* Values read one after the other: t, with w at pos, which ends as r says.  *)
Progress(fields, pos, w, t, r) ==
  IsSeq(w) /\ (Holds(fields, pos, w) => r = At(t, pos + Len(w)))

(* The first of the values.                                                  *)
LEMMA Begin ==
  ASSUME NEW fields, NEW pos \in Nat, NEW read, NEW w, NEW v, Reads(fields, read, w, v)
  PROVE  Progress(fields, pos, w, <<v>>, Then(At(<<>>, pos), read))
<1>1. IsSeq(w)  BY DEF Reads
<1>2. ASSUME Holds(fields, pos, w)
      PROVE  Then(At(<<>>, pos), read) = At(<<v>>, pos + Len(w))
  <2>1. \A done : Then(At(done, pos), read) = At(Append(done, v), pos + Len(w))
    BY <1>2, ThenReads
  <2>2. Append(<<>>, v) = <<v>>  BY Append1, Zenon
  <2> QED BY <2>1, <2>2, Zenon
<1> QED BY <1>1, <1>2 DEF Progress

(* One more of them.                                                         *)
LEMMA Extend ==
  ASSUME NEW fields, NEW pos \in Nat, NEW u, NEW t, NEW r, Progress(fields, pos, u, t, r),
         NEW read, NEW w, NEW v, Reads(fields, read, w, v)
  PROVE  Progress(fields, pos, u \o w, Append(t, v), Then(r, read))
<1>1. IsSeq(u) /\ IsSeq(w)  BY DEF Progress, Reads
<1>2. IsSeq(u \o w)  BY <1>1, Joins
<1>3. ASSUME Holds(fields, pos, u \o w)
      PROVE  Then(r, read) = At(Append(t, v), pos + Len(u \o w))
  <2> DEFINE e == pos + Len(u)
  <2>1. Holds(fields, pos, u) /\ Holds(fields, e, w) /\ e \in Nat
    BY <1>1, <1>3, Splits
  <2>2. e + Len(w) = pos + Len(u \o w)  BY <1>1, <1>3, Splits
  <2>3. r = At(t, e)  BY <2>1 DEF Progress
  <2> HIDE DEF e
  <2>4. Then(At(t, e), read) = At(Append(t, v), e + Len(w))  BY <2>1, ThenReads
  <2> QED BY <2>2, <2>3, <2>4
<1> QED BY <1>2, <1>3 DEF Progress

(* Two fields.                                                               *)
LEMMA Pair == ASSUME NEW a, NEW b PROVE <<a>> \o <<b>> = <<a, b>>
<1>1. <<a>> \in Seq({a, b}) /\ <<b>> \in Seq({a, b}) /\ <<a, b>> \in Seq({a, b})
  OBVIOUS
<1> DEFINE t == <<a>> \o <<b>>
<1>2. t \in Seq({a, b}) /\ Len(t) = 2 /\ t[1] = a /\ t[2] = b  BY <1>1
<1>3. \A i \in 1..2 : t[i] = <<a, b>>[i]  BY <1>2
<1> HIDE DEF t
<1>4. t = <<a, b>>  BY <1>1, <1>2, <1>3, SeqEqual
<1> QED BY <1>4 DEF t

(* The row of a node, which says how long neither of its vectors is.         *)
LEMMA RowReads ==
  ASSUME NEW fields, NEW n \in Nat, NEW r, IsRow(r, n)
  PROVE  Reads(fields, ReadRow(fields, n), WriteRow(r), Untimed(r))
<1> DEFINE field == Field(fields)
           counters == ReadCounters(fields, n)
           h == <<r.hostname>>
           p == <<r.procid>>
           a == r.initial
           b == r.final
           w == ((h \o p) \o a) \o b
           t == Append(Append(Append(<<r.hostname>>, r.procid), a), b)
           R(pos) == Then(Then(Then(Then(At(<<>>, pos), field), field), counters), counters)
<1>1. Reads(fields, field, h, r.hostname) /\ Reads(fields, field, p, r.procid)
  BY OneField
<1>2. Reads(fields, counters, a, a) /\ Reads(fields, counters, b, b)
  BY VectorReads DEF ReadCounters, IsRow
<1>3. WriteRow(r) = w  BY Pair, Zenon DEF WriteRow
<1>4. t = <<r.hostname, r.procid, a, b>>  BY Append4, Zenon
<1> HIDE DEF field, counters, h, p, a, b
<1>5. ASSUME NEW pos \in Nat PROVE Progress(fields, pos, w, t, R(pos))
  <2>1. Progress(fields, pos, h, <<r.hostname>>, Then(At(<<>>, pos), field))
    BY <1>1, Begin
  <2>2. Progress(fields, pos, h \o p, Append(<<r.hostname>>, r.procid),
                 Then(Then(At(<<>>, pos), field), field))
    BY <1>1, <2>1, Extend, Zenon
  <2>3. Progress(fields, pos, (h \o p) \o a, Append(Append(<<r.hostname>>, r.procid), a),
                 Then(Then(Then(At(<<>>, pos), field), field), counters))
    BY <1>2, <2>2, Extend, Zenon
  <2> QED BY <1>2, <2>3, Extend, Zenon
<1>6. \A pos \in Nat : ReadRow(fields, n)[pos] = At(RowOf(R(pos).value), R(pos).pos)
  BY DEF ReadRow, field, counters
<1>7. RowOf(t) = Untimed(r)
  <2>1. RowOf(<<r.hostname, r.procid, a, b>>) = Untimed(r)  BY DEF RowOf, Untimed, a, b
  <2> QED BY <1>4, <2>1
<1> HIDE DEF w, t, R
<1>8. Reads(fields, ReadRow(fields, n), w, Untimed(r))
  <2>1. IsSeq(w)
    <3>1. 0 \in Nat  OBVIOUS
    <3> QED BY <3>1, <1>5 DEF Progress
  <2>2. ASSUME NEW pos \in Nat, Holds(fields, pos, w)
        PROVE  ReadRow(fields, n)[pos] = At(Untimed(r), pos + Len(w))
    <3>1. R(pos) = At(t, pos + Len(w))  BY <1>5, <2>2 DEF Progress
    <3> QED BY <1>6, <1>7, <3>1 DEF At
  <2> QED BY <2>1, <2>2 DEF Reads
<1> QED BY <1>3, <1>8

----------------------------------------------------------------------------
(* The aggregate, from the inside to the outside.                            *)

(* A reader that drops what is empty loses nothing where nothing is.         *)
LEMMA WithoutEmptyReads ==
  ASSUME NEW fields, NEW read, NEW w, NEW m, Reads(fields, read, w, m), NonEmpty(m) = m
  PROVE  Reads(fields, WithoutEmpty(read), w, m)
<1>1. ASSUME NEW pos \in Nat, Holds(fields, pos, w)
      PROVE  WithoutEmpty(read)[pos] = At(m, pos + Len(w))
  <2>1. read[pos] = At(m, pos + Len(w))  BY <1>1 DEF Reads
  <2> QED BY <2>1 DEF WithoutEmpty, At
<1> QED BY <1>1 DEF Reads

(* The metrics of an entity.                                                 *)
LEMMA MetricsRead ==
  ASSUME NEW fields, NEW m, FiniteMap(m)
  PROVE  Reads(fields, ReadMetrics(fields), WriteMetrics(m), m)
<1> DEFINE W == [k \in DOMAIN m |-> <<m[k]>>]
<1>1. \A k \in DOMAIN m : Reads(fields, Field(fields), W[k], m[k])  BY OneField
<1>2. W = [k \in DOMAIN m |-> W[k]] /\ WriteMetrics(m) = WriteMap(W)  BY DEF WriteMetrics
<1> HIDE DEF W
<1>3. Reads(fields, ReadMap(fields, Field(fields)), WriteMap(W), m)
  BY <1>1, <1>2, MapReads DEF FiniteMap
<1> QED BY <1>2, <1>3 DEF ReadMetrics

(* The entities of a source.                                                 *)
LEMMA EntitiesRead ==
  ASSUME NEW fields, NEW m, FiniteMap(m),
         \A e \in DOMAIN m : FiniteMap(m[e]) /\ DOMAIN m[e] # {}
  PROVE  Reads(fields, ReadEntities(fields), WriteEntities(m), m)
<1> DEFINE W == [e \in DOMAIN m |-> WriteMetrics(m[e])]
<1>1. \A e \in DOMAIN m : Reads(fields, ReadMetrics(fields), W[e], m[e])  BY MetricsRead
<1>2. W = [e \in DOMAIN m |-> W[e]] /\ WriteEntities(m) = WriteMap(W)  BY DEF WriteEntities
<1> HIDE DEF W
<1>3. Reads(fields, ReadMap(fields, ReadMetrics(fields)), WriteMap(W), m)
  BY <1>1, <1>2, MapReads DEF FiniteMap
<1>4. NonEmpty(m) = m  BY DEF NonEmpty, FiniteMap
<1> QED BY <1>2, <1>3, <1>4, WithoutEmptyReads DEF ReadEntities

(* The sources of a sample.                                                  *)
LEMMA SourcesRead ==
  ASSUME NEW fields, NEW m, IsSources(m)
  PROVE  Reads(fields, ReadSources(fields), WriteSources(m), m)
<1> DEFINE W == [s \in DOMAIN m |-> WriteEntities(m[s])]
<1>1. \A s \in DOMAIN m : Reads(fields, ReadEntities(fields), W[s], m[s])
  BY EntitiesRead DEF IsSources
<1>2. W = [s \in DOMAIN m |-> W[s]] /\ WriteSources(m) = WriteMap(W)  BY DEF WriteSources
<1> HIDE DEF W
<1>3. Reads(fields, ReadMap(fields, ReadEntities(fields)), WriteMap(W), m)
  BY <1>1, <1>2, MapReads DEF FiniteMap, IsSources
<1>4. NonEmpty(m) = m  BY DEF NonEmpty, FiniteMap, IsSources
<1> QED BY <1>2, <1>3, <1>4, WithoutEmptyReads DEF ReadSources

(* The counters of a sample, by NIC.                                         *)
LEMMA NicsRead ==
  ASSUME NEW fields, NEW n \in Nat, NEW m, FiniteMap(m),
         \A nic \in DOMAIN m : Vector(m[nic], n)
  PROVE  Reads(fields, ReadNics(fields, n), WriteMap(m), m)
<1>1. \A nic \in DOMAIN m : Reads(fields, ReadCounters(fields, n), m[nic], m[nic])
  BY VectorReads DEF ReadCounters
<1>2. Reads(fields, ReadMap(fields, ReadCounters(fields, n)), WriteMap(m), m)
  BY <1>1, MapReads DEF FiniteMap
<1> QED BY <1>2 DEF ReadNics

(* A sample with all it has.                                                 *)
LEMMA SampleReads ==
  ASSUME NEW fields, NEW n \in Nat, NEW s, IsSample(s, n)
  PROVE  Reads(fields, ReadSample(fields, n), WriteSample(s), s)
<1> DEFINE field == Field(fields)
           nics == ReadNics(fields, n)
           sources == ReadSources(fields)
           h == <<s.timestamp>>
           a == WriteMap(s.nics)
           b == WriteSources(s.sources)
           w == (h \o a) \o b
           t == Append(Append(<<s.timestamp>>, s.nics), s.sources)
           R(pos) == Then(Then(Then(At(<<>>, pos), field), nics), sources)
<1>1. Reads(fields, field, h, s.timestamp)  BY OneField
<1>2. Reads(fields, nics, a, s.nics)  BY NicsRead DEF IsSample
<1>3. Reads(fields, sources, b, s.sources)  BY SourcesRead DEF IsSample
<1>4. WriteSample(s) = w  BY Zenon DEF WriteSample
<1>5. t = <<s.timestamp, s.nics, s.sources>>  BY Append3, Zenon
<1> HIDE DEF field, nics, sources, h, a, b
<1>6. ASSUME NEW pos \in Nat PROVE Progress(fields, pos, w, t, R(pos))
  <2>1. Progress(fields, pos, h, <<s.timestamp>>, Then(At(<<>>, pos), field))
    BY <1>1, Begin
  <2>2. Progress(fields, pos, h \o a, Append(<<s.timestamp>>, s.nics),
                 Then(Then(At(<<>>, pos), field), nics))
    BY <1>2, <2>1, Extend, Zenon
  <2> QED BY <1>3, <2>2, Extend, Zenon
<1>7. \A pos \in Nat : ReadSample(fields, n)[pos] = At(SampleOf(R(pos).value), R(pos).pos)
  BY DEF ReadSample, field, nics, sources
<1>8. SampleOf(t) = s
  <2>1. SampleOf(<<s.timestamp, s.nics, s.sources>>) = s  BY DEF SampleOf, IsSample
  <2> QED BY <1>5, <2>1
<1> HIDE DEF w, t, R
<1>9. Reads(fields, ReadSample(fields, n), w, s)
  <2>1. IsSeq(w)
    <3>1. 0 \in Nat  OBVIOUS
    <3> QED BY <3>1, <1>6 DEF Progress
  <2>2. ASSUME NEW pos \in Nat, Holds(fields, pos, w)
        PROVE  ReadSample(fields, n)[pos] = At(s, pos + Len(w))
    <3>1. R(pos) = At(t, pos + Len(w))  BY <1>6, <2>2 DEF Progress
    <3> QED BY <1>7, <1>8, <3>1 DEF At
  <2> QED BY <2>1, <2>2 DEF Reads
<1> QED BY <1>4, <1>9

(* Three fields are a vector.                                                *)
LEMMA Triple == ASSUME NEW a, NEW b, NEW c PROVE Vector(<<a, b, c>>, 3)
BY DEF Vector

(* The series of a node: its head, its samples, latencies and repeats.       *)
LEMMA SeriesReads ==
  ASSUME NEW fields, NEW n \in Nat, NEW s, IsSeries(s, n)
  PROVE  Reads(fields, ReadSeries(fields, n), WriteSeries(s), s)
<1> DEFINE head == ReadHead(fields)
           samples == ReadSamples(fields, n)
           latencies == ReadLatencies(fields)
           repeats == ReadRepeats(fields)
           h == <<s.hostname, s.procid, s.time>>
           a == WriteSamples(s)
           b == WriteList(s.latencies)
           c == WriteFields(s.repeats)
           w == ((h \o a) \o b) \o c
           t == Append(Append(Append(<<h>>, s.samples), s.latencies), s.repeats)
           R(pos) == Then(Then(Then(Then(At(<<>>, pos), head), samples), latencies), repeats)
<1>1. Reads(fields, head, h, h)
  <2>1. Vector(h, 3) /\ 3 \in Nat  BY Triple
  <2> HIDE DEF h
  <2> QED BY <2>1, VectorReads DEF ReadHead
<1>2. Reads(fields, samples, a, s.samples)
  <2> DEFINE ws == [i \in DOMAIN s.samples |-> WriteSample(s.samples[i])]
  <2>1. \A i \in DOMAIN s.samples :
          Reads(fields, ReadSample(fields, n), ws[i], s.samples[i])
    BY SampleReads DEF IsSeries
  <2>2. ws = [i \in DOMAIN s.samples |-> ws[i]] /\ a = WriteList(ws)  BY DEF WriteSamples
  <2>3. IsSeq(s.samples)  BY DEF IsSeries
  <2> HIDE DEF ws, a
  <2> QED BY <2>1, <2>2, <2>3, ListOfReads DEF ReadSamples
<1>3. Reads(fields, latencies, b, s.latencies)
  <2>1. \A i \in DOMAIN s.latencies :
          Reads(fields, ReadLatency(fields), s.latencies[i], s.latencies[i])
    BY VectorReads DEF ReadLatency, IsSeries
  <2>2. IsSeq(s.latencies) /\ s.latencies = [i \in DOMAIN s.latencies |-> s.latencies[i]]
    BY Elements DEF IsSeries
  <2> QED BY <2>1, <2>2, ListOfReads DEF ReadLatencies
<1>4. Reads(fields, repeats, c, s.repeats)
  BY CountedVectorReads DEF ReadRepeats, IsSeries, WriteFields
<1>5. WriteSeries(s) = w  BY Zenon DEF WriteSeries
<1>6. t = <<h, s.samples, s.latencies, s.repeats>>  BY Append4, Zenon
<1>7. SeriesOf(<<h, s.samples, s.latencies, s.repeats>>) = s
  BY DEF SeriesOf, IsSeries
<1> HIDE DEF head, samples, latencies, repeats, h, a, b, c
<1>8. ASSUME NEW pos \in Nat PROVE Progress(fields, pos, w, t, R(pos))
  <2>1. Progress(fields, pos, h, <<h>>, Then(At(<<>>, pos), head))
    BY <1>1, Begin
  <2>2. Progress(fields, pos, h \o a, Append(<<h>>, s.samples),
                 Then(Then(At(<<>>, pos), head), samples))
    BY <1>2, <2>1, Extend, Zenon
  <2>3. Progress(fields, pos, (h \o a) \o b, Append(Append(<<h>>, s.samples), s.latencies),
                 Then(Then(Then(At(<<>>, pos), head), samples), latencies))
    BY <1>3, <2>2, Extend, Zenon
  <2> QED BY <1>4, <2>3, Extend, Zenon
<1>9. \A pos \in Nat : ReadSeries(fields, n)[pos] = At(SeriesOf(R(pos).value), R(pos).pos)
  BY DEF ReadSeries, head, samples, latencies, repeats
<1>10. SeriesOf(t) = s  BY <1>6, <1>7
<1> HIDE DEF w, t, R
<1>11. Reads(fields, ReadSeries(fields, n), w, s)
  <2>1. IsSeq(w)
    <3>1. 0 \in Nat  OBVIOUS
    <3> QED BY <3>1, <1>8 DEF Progress
  <2>2. ASSUME NEW pos \in Nat, Holds(fields, pos, w)
        PROVE  ReadSeries(fields, n)[pos] = At(s, pos + Len(w))
    <3>1. R(pos) = At(t, pos + Len(w))  BY <1>8, <2>2 DEF Progress
    <3> QED BY <1>9, <1>10, <3>1 DEF At
  <2> QED BY <2>1, <2>2 DEF Reads
<1> QED BY <1>5, <1>11

(* A message is read as it was written. *)
LEMMA RoundTrip ==
  ASSUME NEW n \in Nat, NEW a, IsAggregate(a, n)
  PROVE  Deserialize(Serialize(a), n) = a
<1> DEFINE fields == Serialize(a)
           us == [i \in DOMAIN a.rows |-> Untimed(a.rows[i])]
           times == [i \in DOMAIN a.rows |-> a.rows[i].time]
           x == WriteList([i \in DOMAIN a.rows |-> WriteRow(a.rows[i])])
           z == WriteList([i \in DOMAIN a.series |-> WriteSeries(a.series[i])])
           m == Len(a.rows)
<1>1. m \in Nat /\ DOMAIN a.rows = 1..m  BY Elements DEF IsAggregate
<1> HIDE DEF m
<1>2. IsSeq(us) /\ Len(us) = m /\ IsSeq(times) /\ Vector(times, m)
  <2>1. us = [i \in 1..m |-> us[i]] /\ times = [i \in 1..m |-> times[i]]  BY <1>1
  <2> HIDE DEF us, times
  <2> QED BY <1>1, <2>1, Listed DEF Vector
<1>3. \A f : Reads(f, ReadRows(f, n), x, us)
  <2> TAKE f
  <2> DEFINE ws == [i \in DOMAIN a.rows |-> WriteRow(a.rows[i])]
  <2>1. DOMAIN us = DOMAIN a.rows /\ \A i \in DOMAIN us : Reads(f, ReadRow(f, n), ws[i], us[i])
    BY RowReads DEF IsAggregate
  <2>2. ws = [i \in DOMAIN us |-> ws[i]]  BY <2>1
  <2> HIDE DEF us, ws
  <2>3. Reads(f, ReadRows(f, n), WriteList(ws), us)
    BY <1>2, <2>1, <2>2, ListOfReads DEF ReadRows
  <2> QED BY <2>3 DEF ws
<1>4. \A f : Reads(f, ReadTimes(f, us), times, times)
  BY <1>1, <1>2, VectorReads DEF ReadTimes
<1>5. \A f : Reads(f, ReadAllSeries(f, n), z, a.series)
  <2> TAKE f
  <2> DEFINE ws == [i \in DOMAIN a.series |-> WriteSeries(a.series[i])]
  <2>1. \A i \in DOMAIN a.series : Reads(f, ReadSeries(f, n), ws[i], a.series[i])
    BY SeriesReads DEF IsAggregate
  <2>2. ws = [i \in DOMAIN a.series |-> ws[i]] /\ IsSeq(a.series)  BY DEF IsAggregate
  <2> HIDE DEF ws
  <2>3. Reads(f, ReadAllSeries(f, n), WriteList(ws), a.series)
    BY <2>1, <2>2, ListOfReads DEF ReadAllSeries
  <2> QED BY <2>3 DEF ws
<1>6. fields = (x \o times) \o z  BY Zenon DEF Serialize
<1>7. a.rows = [i \in DOMAIN us |-> Timed(us[i], times[i])]
  <2>1. DOMAIN us = DOMAIN a.rows /\ a.rows = [i \in DOMAIN a.rows |-> a.rows[i]]
    BY Elements DEF IsAggregate
  <2>2. \A i \in DOMAIN a.rows : a.rows[i] = Timed(us[i], times[i])
    BY DEF IsAggregate, IsRow, Timed, Untimed
  <2> HIDE DEF us, times
  <2> QED BY <2>1, <2>2
<1> HIDE DEF us, times, x, z, fields
<1>8. IsSeq(x) /\ IsSeq(times) /\ IsSeq(z)  BY <1>2, <1>3, <1>5 DEF Reads
<1>9. IsSeq(x \o times)  BY <1>8, Joins
<1>10. Holds(fields, 1, (x \o times) \o z)
  BY <1>6 DEF Holds
<1>11. /\ Holds(fields, 1, x \o times) /\ Holds(fields, 1 + Len(x \o times), z)
       /\ 1 + Len(x \o times) \in Nat
  <2>1. 1 \in Nat  OBVIOUS
  <2> QED BY <1>8, <1>9, <1>10, <2>1, Splits, Zenon
<1>12. /\ Holds(fields, 1, x) /\ Holds(fields, 1 + Len(x), times) /\ 1 + Len(x) \in Nat
       /\ 1 + Len(x) + Len(times) = 1 + Len(x \o times)
  <2>1. 1 \in Nat  OBVIOUS
  <2>2. Holds(fields, 1, x) /\ Holds(fields, 1 + Len(x), times) /\ 1 + Len(x) \in Nat
    BY <1>8, <1>11, <2>1, Splits
  <2>3. 1 + Len(x) + Len(times) = 1 + Len(x \o times)
    BY <1>8, <1>11, <2>1, Splits
  <2> QED BY <2>2, <2>3
<1>13. ReadRows(fields, n)[1] = At(us, 1 + Len(x))
  <2>1. 1 \in Nat  OBVIOUS
  <2> QED BY <1>3, <1>12, <2>1 DEF Reads
<1> DEFINE p == 1 + Len(x)
           q == 1 + Len(x \o times)
<1>14. ReadTimes(fields, us)[p] = At(times, q)
  <2>1. ReadTimes(fields, us)[p] = At(times, p + Len(times))
    <3>1. p \in Nat /\ Holds(fields, p, times)  BY <1>12
    <3> HIDE DEF p
    <3> QED BY <1>4, <3>1 DEF Reads
  <2> QED BY <2>1, <1>12, Zenon
<1>15. ReadAllSeries(fields, n)[q] = At(a.series, q + Len(z))
  <2>1. q \in Nat /\ Holds(fields, q, z)  BY <1>11
  <2> HIDE DEF q
  <2> QED BY <1>5, <2>1 DEF Reads
<1> HIDE DEF p, q
<1>16. Deserialize(fields, n) = [rows |-> a.rows, series |-> a.series]
  <2>1. ReadRows(fields, n)[1] = At(us, p)  BY <1>13 DEF p
  <2> QED BY <1>7, <1>14, <1>15, <2>1 DEF Deserialize, At
<1> QED BY <1>16 DEF fields, IsAggregate

----------------------------------------------------------------------------
(* Sums.                                                                     *)

(* A sum of integers is an integer.                                          *)
LEMMA SumType ==
  ASSUME NEW S, IsFiniteSet(S), NEW f \in [S -> Int]
  PROVE  SumFunction(f) \in Int
BY Sums

(* g sums what f sums, where f is not 0. *)
Agree(S, f, T, g) ==
  /\ IsFiniteSet(S) /\ f \in [S -> Int] /\ T \subseteq S /\ g \in [T -> Int]
  /\ \A x \in T : g[x] = f[x]
  /\ \A x \in S \ T : f[x] = 0

(* Then both have one sum.                                                   *)
LEMMA SumsAgree ==
  ASSUME NEW S, NEW f, NEW T, NEW g, Agree(S, f, T, g)
  PROVE  SumFunction(f) = SumFunction(g)
<1> USE DEF Agree
<1>0. IsFiniteSet(T)  BY FS_Subset
<1>g. \A U \in SUBSET T : \A x \in T \ U :
        SumFunctionOnSet(g, U \cup {x}) = g[x] + SumFunctionOnSet(g, U)
  <2> TAKE U \in SUBSET T
  <2> TAKE x \in T \ U
  <2> QED BY <1>0, Sums
<1> DEFINE D == {U \in SUBSET S : SumFunctionOnSet(f, U) = SumFunctionOnSet(g, U \cap T)}
<1>1. {} \in D
  <2>1. {} \cap T = {}  OBVIOUS
  <2>2. SumFunctionOnSet(f, {}) = 0  BY Sums
  <2>3. SumFunctionOnSet(g, {}) = 0  BY <1>0, Sums
  <2> QED BY <2>1, <2>2, <2>3
<1>2. ASSUME NEW U \in SUBSET S, U \in D, NEW x \in S \ U PROVE U \cup {x} \in D
  <2>1. SumFunctionOnSet(f, U \cup {x}) = f[x] + SumFunctionOnSet(f, U)  BY Sums
  <2>2. SumFunctionOnSet(f, U) = SumFunctionOnSet(g, U \cap T)  BY <1>2
  <2>3. SumFunctionOnSet(f, U) \in Int  BY Sums
  <2>4. CASE x \in T
    <3>1. (U \cup {x}) \cap T = (U \cap T) \cup {x} /\ U \cap T \in SUBSET T /\ x \in T \ (U \cap T)
      BY <2>4, <1>2
    <3>2. SumFunctionOnSet(g, (U \cap T) \cup {x}) = g[x] + SumFunctionOnSet(g, U \cap T)
      BY <3>1, <1>g
    <3>3. g[x] = f[x]  BY <2>4
    <3>4. SumFunctionOnSet(f, U \cup {x}) = SumFunctionOnSet(g, (U \cup {x}) \cap T)
      BY <2>1, <2>2, <3>1, <3>2, <3>3
    <3> QED BY <3>4
  <2>5. CASE x \notin T
    <3>1. (U \cup {x}) \cap T = U \cap T  BY <2>5
    <3>2. f[x] = 0  BY <2>5
    <3>3. SumFunctionOnSet(f, U \cup {x}) = SumFunctionOnSet(f, U)  BY <2>1, <2>3, <3>2
    <3> QED BY <2>2, <3>1, <3>3
  <2> QED BY <2>4, <2>5
<1>3. S \in D
  <2> HIDE DEF D
  <2> QED BY <1>1, <1>2, OnSubsets
<1>4. S \cap T = T  OBVIOUS
<1>5. SumFunctionOnSet(f, S) = SumFunctionOnSet(g, S \cap T)  BY <1>3
<1>6. SumFunction(f) = SumFunctionOnSet(f, S)  BY Sums
<1>7. SumFunction(g) = SumFunctionOnSet(g, T)  BY <1>0, Sums
<1> QED BY <1>4, <1>5, <1>6, <1>7, Zenon

(* The sum of sums.                                                          *)
LEMMA SumPlus ==
  ASSUME NEW S, IsFiniteSet(S), NEW f \in [S -> Int], NEW g \in [S -> Int],
         NEW h \in [S -> Int], \A x \in S : h[x] = f[x] + g[x]
  PROVE  SumFunction(h) = SumFunction(f) + SumFunction(g)
<1> DEFINE D == {U \in SUBSET S : SumFunctionOnSet(h, U) =
                                    SumFunctionOnSet(f, U) + SumFunctionOnSet(g, U)}
<1>1. {} \in D
  <2>1. SumFunctionOnSet(f, {}) = 0  BY Sums
  <2>2. SumFunctionOnSet(g, {}) = 0  BY Sums
  <2>3. SumFunctionOnSet(h, {}) = 0  BY Sums
  <2> QED BY <2>1, <2>2, <2>3
<1>2. ASSUME NEW U \in SUBSET S, U \in D, NEW x \in S \ U PROVE U \cup {x} \in D
  <2>1. SumFunctionOnSet(f, U \cup {x}) = f[x] + SumFunctionOnSet(f, U)  BY Sums
  <2>2. SumFunctionOnSet(g, U \cup {x}) = g[x] + SumFunctionOnSet(g, U)  BY Sums
  <2>3. SumFunctionOnSet(h, U \cup {x}) = h[x] + SumFunctionOnSet(h, U)  BY Sums
  <2>4. /\ SumFunctionOnSet(f, U) \in Int /\ SumFunctionOnSet(g, U) \in Int
        /\ f[x] \in Int /\ g[x] \in Int /\ h[x] = f[x] + g[x]
    BY Sums
  <2>5. SumFunctionOnSet(h, U) = SumFunctionOnSet(f, U) + SumFunctionOnSet(g, U)  BY <1>2
  <2> QED BY <2>1, <2>2, <2>3, <2>4, <2>5
<1>3. S \in D
  <2> HIDE DEF D
  <2> QED BY <1>1, <1>2, OnSubsets
<1>5. SumFunction(f) = SumFunctionOnSet(f, S)  BY Sums
<1>6. SumFunction(g) = SumFunctionOnSet(g, S)  BY Sums
<1>7. SumFunction(h) = SumFunctionOnSet(h, S)  BY Sums
<1> QED BY <1>3, <1>5, <1>6, <1>7

(* A sum of numbers that are not negative is none less than any of them.     *)
LEMMA SumNat ==
  ASSUME NEW S, IsFiniteSet(S), NEW f \in [S -> Nat]
  PROVE  SumFunction(f) \in Nat /\ \A x \in S : f[x] <= SumFunction(f)
<1>0. f \in [S -> Int]  OBVIOUS
<1> DEFINE D == {U \in SUBSET S : /\ SumFunctionOnSet(f, U) \in Nat
                                  /\ \A x \in U : f[x] <= SumFunctionOnSet(f, U)}
<1>1. {} \in D
  <2>1. SumFunctionOnSet(f, {}) = 0  BY <1>0, Sums
  <2> QED BY <2>1
<1>2. ASSUME NEW U \in SUBSET S, U \in D, NEW x \in S \ U PROVE U \cup {x} \in D
  <2>1. SumFunctionOnSet(f, U \cup {x}) = f[x] + SumFunctionOnSet(f, U)  BY <1>0, Sums
  <2>2. f[x] \in Nat /\ SumFunctionOnSet(f, U) \in Nat  BY <1>2
  <2>3. ASSUME NEW y \in U \cup {x} PROVE f[y] <= SumFunctionOnSet(f, U \cup {x})
    <3>1. CASE y = x  BY <3>1, <2>1, <2>2
    <3>2. CASE y \in U
      <4>1. f[y] <= SumFunctionOnSet(f, U) /\ f[y] \in Nat  BY <1>2, <3>2
      <4> QED BY <4>1, <2>1, <2>2
    <3> QED BY <3>1, <3>2
  <2>4. SumFunctionOnSet(f, U \cup {x}) \in Nat  BY <2>1, <2>2
  <2> QED BY <2>3, <2>4
<1>3. S \in D
  <2> HIDE DEF D
  <2> QED BY <1>1, <1>2, OnSubsets
<1>4. SumFunction(f) = SumFunctionOnSet(f, S)  BY <1>0, Sums
<1> QED BY <1>3, <1>4

(* A sum of nothing.                                                         *)
LEMMA SumZero ==
  ASSUME NEW S, IsFiniteSet(S), NEW f \in [S -> Int], \A x \in S : f[x] = 0
  PROVE  SumFunction(f) = 0
<1> DEFINE D == {U \in SUBSET S : SumFunctionOnSet(f, U) = 0}
<1>1. {} \in D  BY Sums
<1>2. ASSUME NEW U \in SUBSET S, U \in D, NEW x \in S \ U PROVE U \cup {x} \in D
  <2>1. SumFunctionOnSet(f, U \cup {x}) = f[x] + SumFunctionOnSet(f, U)  BY Sums
  <2> QED BY <2>1, <1>2
<1>3. S \in D
  <2> HIDE DEF D
  <2> QED BY <1>1, <1>2, OnSubsets
<1>4. SumFunction(f) = SumFunctionOnSet(f, S)  BY Sums
<1> QED BY <1>3, <1>4

(* Sums keep the order.                                                      *)
LEMMA SumAtMost ==
  ASSUME NEW S, IsFiniteSet(S), NEW f \in [S -> Int], NEW g \in [S -> Int],
         \A x \in S : f[x] <= g[x]
  PROVE  SumFunction(f) <= SumFunction(g)
<1> DEFINE d == [x \in S |-> g[x] - f[x]]
<1>1. d \in [S -> Nat] /\ d \in [S -> Int]
  <2>1. \A x \in S : g[x] \in Int /\ f[x] \in Int /\ g[x] - f[x] \in Nat  OBVIOUS
  <2> QED BY <2>1
<1>2. \A x \in S : g[x] = f[x] + d[x]  OBVIOUS
<1> HIDE DEF d
<1>3. SumFunction(g) = SumFunction(f) + SumFunction(d)  BY <1>1, <1>2, SumPlus
<1>4. SumFunction(d) \in Nat  BY <1>1, SumNat
<1>5. SumFunction(f) \in Int  BY SumType
<1> QED BY <1>3, <1>4, <1>5

(* g has one more element than f. *)
Extends(S, x, f, g) ==
  /\ IsFiniteSet(S) /\ x \notin S /\ f \in [S -> Int] /\ g \in [S \cup {x} -> Int]
  /\ \A y \in S : f[y] = g[y]

(* Then its sum is larger by that element.                                   *)
LEMMA SumExtend ==
  ASSUME NEW S, NEW x, NEW f, NEW g, Extends(S, x, f, g)
  PROVE  SumFunction(g) = SumFunction(f) + g[x]
<1>0. /\ IsFiniteSet(S) /\ x \notin S /\ f \in [S -> Int] /\ g \in [S \cup {x} -> Int]
      /\ \A y \in S : f[y] = g[y]
  BY DEF Extends
<1>1. IsFiniteSet(S \cup {x})  BY <1>0, FS_AddElement
<1> DEFINE e == [y \in S \cup {x} |-> IF y = x THEN 0 ELSE g[y]]
           o == [y \in S \cup {x} |-> IF y = x THEN g[x] ELSE 0]
           u == [y \in {x} |-> g[x]]
<1>2. /\ e \in [S \cup {x} -> Int] /\ o \in [S \cup {x} -> Int] /\ u \in [{x} -> Int]
      /\ \A y \in S \cup {x} : g[y] = e[y] + o[y]
      /\ \A y \in S : f[y] = e[y]
      /\ \A y \in (S \cup {x}) \ S : e[y] = 0
      /\ \A y \in {x} : u[y] = o[y]
      /\ \A y \in (S \cup {x}) \ {x} : o[y] = 0
      /\ u[x] = g[x]
  BY <1>0
<1> HIDE DEF e, o, u
<1>3. SumFunction(g) = SumFunction(e) + SumFunction(o)  BY <1>0, <1>1, <1>2, SumPlus
<1>4. SumFunction(e) = SumFunction(f)
  <2>1. Agree(S \cup {x}, e, S, f)  BY <1>0, <1>1, <1>2 DEF Agree
  <2> QED BY <2>1, SumsAgree
<1>5. SumFunction(o) = SumFunction(u)
  <2>1. Agree(S \cup {x}, o, {x}, u)  BY <1>0, <1>1, <1>2 DEF Agree
  <2> QED BY <2>1, SumsAgree
<1>6. SumFunction(u) = g[x]
  <2>1. IsFiniteSet({x})  BY FS_Singleton
  <2>2. {} \cup {x} = {x} /\ x \in {x} \ {} /\ {} \in SUBSET {x}  OBVIOUS
  <2>3. SumFunctionOnSet(u, {} \cup {x}) = u[x] + SumFunctionOnSet(u, {})
    <3>1. u \in [{x} -> Int]  BY <1>2
    <3>2. \A T \in SUBSET {x} : \A y \in {x} \ T :
            SumFunctionOnSet(u, T \cup {y}) = u[y] + SumFunctionOnSet(u, T)
      BY <2>1, <3>1, Sums
    <3> QED BY <2>2, <3>2, Zenon
  <2>4. SumFunctionOnSet(u, {}) = 0  BY <2>1, <1>2, Sums
  <2>5. SumFunction(u) = SumFunctionOnSet(u, {x})  BY <2>1, <1>2, Sums
  <2>6. g[x] \in Int  BY <1>0
  <2> QED BY <2>2, <2>3, <2>4, <2>5, <2>6, <1>2
<1> QED BY <1>3, <1>4, <1>5, <1>6

(* A sum is positive if, and only if, something in it is.                    *)
LEMMA SumPositive ==
  ASSUME NEW S, IsFiniteSet(S), NEW f \in [S -> Nat]
  PROVE  SumFunction(f) > 0 <=> \E x \in S : f[x] > 0
<1>1. SumFunction(f) \in Nat /\ \A x \in S : f[x] <= SumFunction(f)  BY SumNat
<1>2. ASSUME \A x \in S : ~(f[x] > 0) PROVE SumFunction(f) = 0
  <2>1. f \in [S -> Int] /\ \A x \in S : f[x] = 0  BY <1>2
  <2> QED BY <2>1, SumZero
<1>3. \A x \in S : f[x] \in Nat  OBVIOUS
<1> QED BY <1>1, <1>2, <1>3

(* A sum of remainders is what the sum is, but for whole multiples.          *)
LEMMA SumOfRemainders ==
  ASSUME NEW S, IsFiniteSet(S), NEW f \in [S -> Nat], NEW g \in [S -> Int],
         \A x \in S : g[x] = f[x] % Modulus
  PROVE  \E k \in Int : SumFunction(f) = SumFunction(g) + Modulus * k
<1>0. f \in [S -> Int] /\ Modulus \in Nat \ {0}  BY SummaryAssumption
<1> DEFINE D == {U \in SUBSET S : \E k \in Int :
                   SumFunctionOnSet(f, U) = SumFunctionOnSet(g, U) + Modulus * k}
<1>1. {} \in D
  <2>1. SumFunctionOnSet(f, {}) = 0 /\ SumFunctionOnSet(g, {}) = 0  BY <1>0, Sums
  <2>2. 0 = 0 + Modulus * 0  BY <1>0
  <2> QED BY <2>1, <2>2
<1>2. ASSUME NEW U \in SUBSET S, U \in D, NEW x \in S \ U PROVE U \cup {x} \in D
  <2>1. SumFunctionOnSet(f, U \cup {x}) = f[x] + SumFunctionOnSet(f, U)  BY <1>0, Sums
  <2>2. SumFunctionOnSet(g, U \cup {x}) = g[x] + SumFunctionOnSet(g, U)  BY <1>0, Sums
  <2>3. PICK k \in Int : SumFunctionOnSet(f, U) = SumFunctionOnSet(g, U) + Modulus * k
    BY <1>2
  <2>4. PICK q \in Int : f[x] = g[x] + Modulus * q
    <3>1. f[x] \in Nat /\ g[x] = f[x] % Modulus  OBVIOUS
    <3>2. \A n \in Nat : n \div Modulus \in Int /\ n = (n % Modulus) + Modulus * (n \div Modulus)
      BY <1>0, Z3
    <3>3. PICK q \in Int : f[x] = (f[x] % Modulus) + Modulus * q
      BY <3>1, <3>2
    <3> QED BY <3>1, <3>3
  <2>5. SumFunctionOnSet(g, U) \in Int /\ g[x] \in Int  BY Sums
  <2>6. Modulus * (k + q) = Modulus * k + Modulus * q  BY <1>0
  <2>7. Modulus * k \in Int /\ Modulus * q \in Int /\ k + q \in Int  BY <1>0
  <2>8. SumFunctionOnSet(f, U \cup {x}) = SumFunctionOnSet(g, U \cup {x}) + Modulus * (k + q)
    <3> DEFINE a == Modulus * k  b == Modulus * q  c == Modulus * (k + q)
    <3>1. c = a + b /\ a \in Int /\ b \in Int  BY <2>6, <2>7
    <3>2. SumFunctionOnSet(f, U) = SumFunctionOnSet(g, U) + a /\ f[x] = g[x] + b
      BY <2>3, <2>4
    <3> HIDE DEF a, b, c
    <3>3. SumFunctionOnSet(f, U \cup {x}) = SumFunctionOnSet(g, U \cup {x}) + c
      BY <2>1, <2>2, <2>5, <3>1, <3>2
    <3> QED BY <3>3 DEF c
  <2> QED BY <2>7, <2>8
<1>3. S \in D
  <2> HIDE DEF D
  <2> QED BY <1>1, <1>2, OnSubsets
<1>4. SumFunction(f) = SumFunctionOnSet(f, S)  BY <1>0, Sums
<1>5. SumFunction(g) = SumFunctionOnSet(g, S)  BY Sums
<1> QED BY <1>3, <1>4, <1>5

----------------------------------------------------------------------------
(* Arithmetic of counters that wrap around (subtract_56_bit_integers).       *)

(* There is only one remainder.                                              *)
LEMMA RemainderUnique ==
  ASSUME NEW n \in Nat, NEW q \in Int, NEW r \in 0..(Modulus - 1), n = Modulus * q + r
  PROVE  n % Modulus = r
  BY SummaryAssumption

(* It is less than the modulus.                                              *)
LEMMA RemainderType == \A n \in Nat : n % Modulus \in 0..(Modulus - 1)
  BY SummaryAssumption

(* The difference of two readings that are d apart, but for whole multiples. *)
LEMMA SubtractExact ==
  ASSUME NEW a \in Nat, NEW b \in Nat, NEW k \in Int, NEW d \in 0..(Modulus - 1),
         a = b + d + Modulus * k
  PROVE  Subtract(a, b) = d
<1> DEFINE q == b \div Modulus
           i == b % Modulus
<1>1. b = Modulus * q + i /\ q \in Int /\ i \in 0..(Modulus - 1) /\ Modulus \in Nat \ {0}
  BY SummaryAssumption
<1>2. Modulus * (q + k) = Modulus * q + Modulus * k
  BY <1>1
<1>3. Modulus * (q + k + 1) = Modulus * q + Modulus * k + Modulus
  BY <1>1
<1>. HIDE DEF q
<1>4. q + k \in Int /\ q + k + 1 \in Int
  BY <1>1
<1>5. CASE i + d < Modulus
  <2>1. a = Modulus * (q + k) + (i + d) /\ i + d \in 0..(Modulus - 1)
    <3> DEFINE x == Modulus * q  y == Modulus * k  z == Modulus * (q + k)
    <3>1. x \in Int /\ y \in Int /\ z = x + y  BY <1>1, <1>2
    <3>2. a = b + d + y /\ b = x + i  BY <1>1
    <3>3. i + d \in 0..(Modulus - 1)  BY <1>1, <1>5
    <3> HIDE DEF x, y, z, i
    <3>4. a = z + (i + d)  BY <3>1, <3>2, <1>1
    <3> QED BY <3>3, <3>4 DEF z
  <2> HIDE DEF i
  <2>2. a % Modulus = i + d
    BY <2>1, <1>4, RemainderUnique
  <2>. QED  BY <2>2, <1>1 DEF Subtract, i
<1>6. CASE i + d >= Modulus
  <2>1. a = Modulus * (q + k + 1) + (i + d - Modulus) /\ i + d - Modulus \in 0..(Modulus - 1)
    <3> DEFINE x == Modulus * q  y == Modulus * k  z == Modulus * (q + k + 1)
    <3>1. x \in Int /\ y \in Int /\ z = x + y + Modulus  BY <1>1, <1>3
    <3>2. a = b + d + y /\ b = x + i  BY <1>1
    <3>3. i + d - Modulus \in 0..(Modulus - 1)  BY <1>1, <1>6
    <3> HIDE DEF x, y, z, i
    <3>4. a = z + (i + d - Modulus)  BY <3>1, <3>2, <1>1
    <3> QED BY <3>3, <3>4 DEF z
  <2> HIDE DEF i
  <2>2. a % Modulus = i + d - Modulus
    BY <2>1, <1>4, RemainderUnique
  <2>3. ~(i + d - Modulus >= i) BY <1>1
  <2>. QED  BY <2>2, <2>3, <1>1 DEF Subtract, i
<1>. QED  BY <1>1, <1>5, <1>6

(* The difference of two readings of a counter that moved by d, whether it   *)
(* wrapped around or not.                                                    *)
LEMMA SubtractReadings ==
  ASSUME NEW n \in Nat, NEW d \in 0..(Modulus - 1)
  PROVE  Subtract((n + d) % Modulus, n % Modulus) = d
<1>1. /\ (n + d) % Modulus \in Nat /\ n % Modulus \in Nat
      /\ \A m \in Nat : m \div Modulus \in Int /\ m = (m % Modulus) + Modulus * (m \div Modulus)
      /\ n + d \in Nat /\ Modulus \in Nat \ {0}
  BY SummaryAssumption
<1> DEFINE q == n \div Modulus  p == (n + d) \div Modulus
           a == (n + d) % Modulus  b == n % Modulus
<1>2. q \in Int /\ p \in Int /\ a \in Nat /\ b \in Nat /\ n = b + Modulus * q /\ n + d = a + Modulus * p
  BY <1>1
<1> HIDE DEF a, b, q, p
<1>3. Modulus * (q - p) = Modulus * q - Modulus * p /\ q - p \in Int
  BY <1>1, <1>2
<1>4. a = b + d + Modulus * (q - p)
  <2> DEFINE x == Modulus * q  y == Modulus * p  z == Modulus * (q - p)
  <2>1. z = x - y /\ x \in Int /\ y \in Int /\ n = b + x /\ n + d = a + y
    BY <1>1, <1>2, <1>3
  <2> HIDE DEF x, y, z
  <2>2. a = b + d + z  BY <2>1, <1>2
  <2> QED BY <2>2 DEF z
<1>5. Subtract(a, b) = d  BY <1>2, <1>3, <1>4, SubtractExact
<1> QED BY <1>5 DEF a, b

(* a and b are two readings of each counter of S, the first d later: the     *)
(* difference of their sums is the sum of d, although each may have wrapped  *)
(* around.                                                                   *)
Apart(S, a, b, d) ==
  /\ IsFiniteSet(S) /\ a \in [S -> Nat] /\ b \in [S -> Nat] /\ d \in [S -> Nat]
  /\ \A x \in S : \E n \in Nat : a[x] = (n + d[x]) % Modulus /\ b[x] = n % Modulus
  /\ SumFunction(d) < Modulus

(* Readings are added up over the NICs without a modulus, and a sum may      *)
(* exceed it; subtract_56_bit_integers() takes remainders first, so what it  *)
(* returns is right.                                                         *)
LEMMA SubtractSums ==
  ASSUME NEW S, NEW a, NEW b, NEW d, Apart(S, a, b, d)
  PROVE  Subtract(SumFunction(a), SumFunction(b)) = SumFunction(d)
<1>d. /\ IsFiniteSet(S) /\ a \in [S -> Nat] /\ b \in [S -> Nat] /\ d \in [S -> Nat]
      /\ SumFunction(d) < Modulus
  BY DEF Apart
<1> DEFINE g == [x \in S |-> CHOOSE n \in Nat : a[x] = (n + d[x]) % Modulus /\ b[x] = n % Modulus]
           f == [x \in S |-> g[x] + d[x]]
<1>g. \A x \in S : g[x] \in Nat /\ a[x] = (g[x] + d[x]) % Modulus /\ b[x] = g[x] % Modulus
  BY DEF Apart
<1>f. /\ g \in [S -> Nat] /\ f \in [S -> Nat] /\ \A x \in S : f[x] = g[x] + d[x]
      /\ \A x \in S : a[x] = f[x] % Modulus
      /\ \A x \in S : b[x] = g[x] % Modulus
  <2>1. \A x \in S : d[x] \in Nat  BY <1>d
  <2>2. \A x \in S : g[x] + d[x] \in Nat BY <2>1, <1>g
  <2> QED BY <1>g, <2>2
<1> HIDE DEF f, g
<1>1. /\ f \in [S -> Int] /\ g \in [S -> Int] /\ d \in [S -> Int]
      /\ a \in [S -> Int] /\ b \in [S -> Int]
  BY <1>d, <1>f
<1>2. PICK k \in Int : SumFunction(f) = SumFunction(a) + Modulus * k
  BY <1>d, <1>f, <1>1, SumOfRemainders
<1>3. PICK j \in Int : SumFunction(g) = SumFunction(b) + Modulus * j
  BY <1>d, <1>f, <1>1, SumOfRemainders
<1>4. SumFunction(f) = SumFunction(g) + SumFunction(d)
  BY <1>d, <1>f, <1>1, SumPlus
<1>5. SumFunction(a) \in Nat /\ SumFunction(b) \in Nat
  BY <1>d, <1>f, SumNat
<1>6. SumFunction(f) \in Nat /\ SumFunction(g) \in Nat
  BY <1>d, <1>f, SumNat
<1>7. SumFunction(d) \in 0..(Modulus - 1) /\ Modulus \in Nat \ {0}
  BY <1>d, SumNat, SummaryAssumption
<1> DEFINE A == SumFunction(a)  B == SumFunction(b)  E == SumFunction(d)
           F == SumFunction(f)  G == SumFunction(g)
<1>8. /\ F = A + Modulus * k /\ G = B + Modulus * j /\ F = G + E
      /\ A \in Nat /\ B \in Nat /\ E \in 0..(Modulus - 1) /\ F \in Nat /\ G \in Nat
  BY <1>2, <1>3, <1>4, <1>5, <1>6, <1>7
<1> HIDE DEF A, B, E, F, G
<1>9. Modulus * (j - k) = Modulus * j - Modulus * k /\ j - k \in Int
  BY <1>7
<1>10. A = B + E + Modulus * (j - k)
  <2> DEFINE x == Modulus * k  y == Modulus * j  z == Modulus * (j - k)
  <2>1. z = y - x /\ x \in Int /\ y \in Int /\ F = A + x /\ G = B + y
    BY <1>7, <1>8, <1>9
  <2> HIDE DEF x, y, z
  <2>2. A = B + E + z  BY <2>1, <1>8
  <2> QED BY <2>2 DEF z
<1>11. Subtract(A, B) = E  BY <1>8, <1>9, <1>10, SubtractExact
<1> QED BY <1>11 DEF A, B, E
----------------------------------------------------------------------------
(* Readings of a node.                                                       *)

(* The selected counters, the counters of a node, as TypeOK has them, how    *)
(* far they moved, and those that only rise.                                 *)
IsNames(list) == IsSeq(list) /\ list # <<>> /\ ToSet(list) \subseteq Counter
Counts == [Nic -> [Counter -> Nat]]
Distances == [Nic -> [Counter -> Int]]
Steady == Counter \ Levels

(* The counters a node h can read, the files of a reading that fails at the  *)
(* places of failing when they are at cnt, and what it obtains.              *)
ReadableOf(h, n) == {c \in Counter : <<n, c>> \notin Missing[h]}
FilesOf(h, cnt, list, failing) ==
  [n \in Nic |->
     [i \in {j \in DOMAIN list : list[j] \in ReadableOf(h, n) /\ <<n, j>> \notin failing} |->
        cnt[n][list[i]] % Modulus]]
Obtained(h, cnt, list, failing, n, i) ==
  IF list[i] \in ReadableOf(h, n) /\ <<n, i>> \notin failing
  THEN cnt[n][list[i]] % Modulus
  ELSE 0

(* What a reading sees that does not fail, and how far a counter moves that  *)
(* can be read.                                                              *)
Seen(h, cnt, n, c) == IF c \in ReadableOf(h, n) THEN cnt[n][c] % Modulus ELSE 0
SeenSum(h, cnt, c) == SumFunction([n \in Nic |-> Seen(h, cnt, n, c)])
Moves(h, from, to) ==
  [n \in Nic |-> [c \in Counter |->
     IF c \in ReadableOf(h, n) THEN to[n][c] - from[n][c] ELSE 0]]
MovesSum(on, c) == SumFunction([n \in Nic |-> on[n][c]])

Risen(from, to, c) == SumFunction([n \in Nic |-> to[n][c] - from[n][c]])

(* nics, and total, are readings of the counters of list at cnt, that are    *)
(* right for all but those of wrong.                                         *)
Wrong(list, failing) == {<<f[1], list[f[2]]>> : f \in failing}
IsReading(nics, h, cnt, list, wrong) ==
  /\ nics \in [Nic -> [DOMAIN list -> Nat]]
  /\ \A n \in Nic, i \in DOMAIN list :
       <<n, list[i]>> \notin wrong => nics[n][i] = Seen(h, cnt, n, list[i])
IsTotal(total, h, cnt, list, wrong) ==
  /\ total \in [DOMAIN list -> Nat]
  /\ \A i \in DOMAIN list :
       (\A n \in Nic : <<n, list[i]>> \notin wrong) => total[i] = SeenSum(h, cnt, list[i])

(* The files of the node that is measured, and how far its counters moved.   *)
LEMMA FilesAre == \A failing : Files(failing) = FilesOf(host, count, names, failing)
BY DEF Files, FilesOf, Readable, ReadableOf

LEMMA SinceIs == \A from : Since(from) = Moves(host, from, count)
BY DEF Since, Moves, Readable, ReadableOf

(* The list of names as a function.                                          *)
LEMMA NamesAre ==
  ASSUME NEW list, IsNames(list)
  PROVE  /\ Len(list) \in Nat \ {0} /\ DOMAIN list = 1..Len(list)
         /\ \A i \in DOMAIN list : list[i] \in Counter /\ list[i] \in ToSet(list)
<1>1. Len(list) \in Nat /\ DOMAIN list = 1..Len(list) /\ list = [i \in 1..Len(list) |-> list[i]]
  BY Elements DEF IsNames
<1>2. \A i \in DOMAIN list : list[i] \in ToSet(list)  BY DEF ToSet
<1>3. ASSUME Len(list) = 0 PROVE FALSE
  <2>1. list = <<>>  BY <1>1, <1>3
  <2> QED BY <2>1 DEF IsNames
<1> QED BY <1>1, <1>2, <1>3 DEF IsNames

(* A reading is less than the modulus.                                       *)
LEMMA SeenType ==
  ASSUME NEW h \in Host, NEW cnt \in Counts, NEW n \in Nic, NEW c \in Counter
  PROVE  Seen(h, cnt, n, c) \in 0..(Modulus - 1) /\ Seen(h, cnt, n, c) \in Nat
<1>1. cnt[n][c] \in Nat  BY DEF Counts
<1>2. cnt[n][c] % Modulus \in 0..(Modulus - 1)  BY <1>1, RemainderType
<1> QED BY <1>2, SummaryAssumption DEF Seen

(* What read_counter_fd() returns: it is right unless the reading failed.    *)
LEMMA ReadCounterIs ==
  ASSUME NEW h \in Host, NEW cnt \in Counts, NEW list, IsNames(list), NEW failing,
         NEW n \in Nic, NEW i \in DOMAIN list
  PROVE  /\ ReadCounter(FilesOf(h, cnt, list, failing)[n], i) =
              Obtained(h, cnt, list, failing, n, i)
         /\ Obtained(h, cnt, list, failing, n, i) \in Nat
         /\ <<n, list[i]>> \notin Wrong(list, failing) =>
              Obtained(h, cnt, list, failing, n, i) = Seen(h, cnt, n, list[i])
<1>1. list[i] \in Counter  BY NamesAre
<1>2. cnt[n][list[i]] \in Nat  BY <1>1 DEF Counts
<1>3. cnt[n][list[i]] % Modulus \in Nat  BY <1>2, RemainderType, SummaryAssumption
<1>4. Obtained(h, cnt, list, failing, n, i) \in Nat  BY <1>3 DEF Obtained
<1>5. ReadCounter(FilesOf(h, cnt, list, failing)[n], i) = Obtained(h, cnt, list, failing, n, i)
  BY DEF ReadCounter, FilesOf, Obtained
<1>6. ASSUME <<n, i>> \in failing PROVE <<n, list[i]>> \in Wrong(list, failing)
  <2>1. <<n, i>>[1] = n /\ <<n, i>>[2] = i  OBVIOUS
  <2> QED BY <1>6, <2>1 DEF Wrong
<1>7. <<n, list[i]>> \notin Wrong(list, failing) =>
        Obtained(h, cnt, list, failing, n, i) = Seen(h, cnt, n, list[i])
  BY <1>6 DEF Obtained, Seen
<1> QED BY <1>4, <1>5, <1>7

(* What read_all_counters_per_nic() returns.                                 *)
LEMMA PerNicIs ==
  ASSUME NEW h \in Host, NEW cnt \in Counts, NEW list, IsNames(list), NEW failing
  PROVE  IsReading(PerNic(FilesOf(h, cnt, list, failing), list), h, cnt, list,
                   Wrong(list, failing))
<1> DEFINE p == PerNic(FilesOf(h, cnt, list, failing), list)
           o == [n \in Nic |-> [i \in DOMAIN list |-> Obtained(h, cnt, list, failing, n, i)]]
<1>1. DOMAIN FilesOf(h, cnt, list, failing) = Nic  BY DEF FilesOf
<1>r. \A n \in Nic, i \in DOMAIN list :
        /\ ReadCounter(FilesOf(h, cnt, list, failing)[n], i) =
             Obtained(h, cnt, list, failing, n, i)
        /\ Obtained(h, cnt, list, failing, n, i) \in Nat
        /\ <<n, list[i]>> \notin Wrong(list, failing) =>
             Obtained(h, cnt, list, failing, n, i) = Seen(h, cnt, n, list[i])
  BY ReadCounterIs
<1>2. p = o
  <2> DEFINE F == FilesOf(h, cnt, list, failing)
  <2>1. DOMAIN F = Nic  BY <1>1
  <2>2. \A n \in Nic, i \in DOMAIN list :
          ReadCounter(F[n], i) = Obtained(h, cnt, list, failing, n, i)
    BY <1>r
  <2>3. p = [n \in DOMAIN F |-> [i \in DOMAIN list |-> ReadCounter(F[n], i)]]
    BY DEF PerNic
  <2> HIDE DEF F, p
  <2> QED BY <2>1, <2>2, <2>3
<1>3. o \in [Nic -> [DOMAIN list -> Nat]]  BY <1>r
<1>4. \A n \in Nic, i \in DOMAIN list : o[n][i] = Obtained(h, cnt, list, failing, n, i)
  OBVIOUS
<1> HIDE DEF p, o
<1>5. \A n \in Nic, i \in DOMAIN list :
        <<n, list[i]>> \notin Wrong(list, failing) => o[n][i] = Seen(h, cnt, n, list[i])
  BY <1>r, <1>4
<1>6. IsReading(o, h, cnt, list, Wrong(list, failing))  BY <1>3, <1>5 DEF IsReading
<1> QED BY <1>2, <1>6 DEF p

(* What read_all_counters() returns.                                         *)
LEMMA TotalIs ==
  ASSUME NEW h \in Host, NEW cnt \in Counts, NEW list, IsNames(list), NEW failing
  PROVE  IsTotal(Total(FilesOf(h, cnt, list, failing), list), h, cnt, list,
                 Wrong(list, failing))
<1> DEFINE t == Total(FilesOf(h, cnt, list, failing), list)
           o(i) == [n \in Nic |-> Obtained(h, cnt, list, failing, n, i)]
           s(c) == [n \in Nic |-> Seen(h, cnt, n, c)]
<1>1. DOMAIN FilesOf(h, cnt, list, failing) = Nic  BY DEF FilesOf
<1>2. ASSUME NEW i \in DOMAIN list
      PROVE  [n \in Nic |-> ReadCounter(FilesOf(h, cnt, list, failing)[n], i)] = o(i)
  <2>1. \A n \in Nic : ReadCounter(FilesOf(h, cnt, list, failing)[n], i) =
                        Obtained(h, cnt, list, failing, n, i)
    <3> TAKE n \in Nic
    <3> QED BY ReadCounterIs
  <2> QED BY <2>1
<1>3. t = [i \in DOMAIN list |-> SumFunction(o(i))]  BY <1>1, <1>2 DEF Total
<1>4. \A i \in DOMAIN list : SumFunction(o(i)) \in Nat
  <2> TAKE i \in DOMAIN list
  <2>1. o(i) \in [Nic -> Nat]  BY ReadCounterIs
  <2>2. IsFiniteSet(Nic)  BY ReportAssumption
  <2> HIDE DEF o
  <2> QED BY <2>1, <2>2, SumNat
<1>5. ASSUME NEW i \in DOMAIN list, \A n \in Nic : <<n, list[i]>> \notin Wrong(list, failing)
      PROVE  o(i) = s(list[i])
  <2>1. \A n \in Nic : Obtained(h, cnt, list, failing, n, i) = Seen(h, cnt, n, list[i])
    <3> TAKE n \in Nic
    <3>1. <<n, list[i]>> \notin Wrong(list, failing)  BY <1>5
    <3> QED BY <3>1, ReadCounterIs
  <2> QED BY <2>1
<1>6. \A c : SeenSum(h, cnt, c) = SumFunction(s(c))  BY DEF SeenSum
<1> HIDE DEF t, o, s
<1>7. t \in [DOMAIN list -> Nat]  BY <1>3, <1>4
<1>8. \A i \in DOMAIN list : (\A n \in Nic : <<n, list[i]>> \notin Wrong(list, failing)) =>
        t[i] = SeenSum(h, cnt, list[i])
  BY <1>3, <1>5, <1>6
<1>9. IsTotal(t, h, cnt, list, Wrong(list, failing))  BY <1>7, <1>8 DEF IsTotal
<1> QED BY <1>9 DEF t

(* The largest element of a set of numbers that has a bound. *)
LEMMA MaxIs ==
  ASSUME NEW S, S \subseteq Nat, S # {}, NEW b \in Nat, \A x \in S : x <= b
  PROVE  Max(S) \in S /\ \A x \in S : Max(S) >= x
<1> DEFINE B == {y \in Nat : \A x \in S : x <= y}
<1>1. PICK m \in B : \A y \in B : m <= y
  <2>1. B \subseteq Nat /\ b \in B  OBVIOUS
  <2> HIDE DEF B
  <2> QED BY <2>1, Least
<1>2. m \in S
  <2> SUFFICES ASSUME m \notin S PROVE FALSE  OBVIOUS
  <2>1. \A x \in S : x <= m - 1  BY <1>1
  <2>2. m - 1 \in Nat
    <3>1. PICK x \in S : TRUE  OBVIOUS
    <3>2. x \in Nat /\ x <= m - 1 /\ m \in Nat  BY <2>1, <3>1
    <3> QED BY <3>2
  <2>3. m - 1 \in B  BY <2>1, <2>2
  <2>4. m <= m - 1  BY <2>3, <1>1
  <2> QED BY <2>4, <1>1
<1>3. \E x \in S : \A y \in S : x >= y  BY <1>1, <1>2
<1> QED BY <1>3 DEF Max

(* The last place of a name.                                                 *)
LEMMA PlaceIs ==
  ASSUME NEW list, IsNames(list), NEW i \in DOMAIN list
  PROVE  LET p == Max(Places(list[i], list)) IN p \in DOMAIN list /\ list[p] = list[i]
<1> DEFINE S == Places(list[i], list)
<1>1. Len(list) \in Nat /\ DOMAIN list = 1..Len(list)  BY NamesAre
<1>2. i \in S /\ \A j \in S : j \in DOMAIN list /\ list[j] = list[i]  BY DEF Places
<1> HIDE DEF S
<1>3. S \subseteq Nat /\ S # {} /\ \A j \in S : j <= Len(list)  BY <1>1, <1>2
<1>4. Max(S) \in S  BY <1>1, <1>3, MaxIs
<1>5. Max(S) \in DOMAIN list /\ list[Max(S)] = list[i]  BY <1>2, <1>4
<1> QED BY <1>5 DEF S

(* The sampling thread, which goes through the nic source, obtains what the  *)
(* main thread does, although a name may have several places.                *)
LEMMA SourceCounters ==
  ASSUME NEW h \in Host, NEW cnt \in Counts, NEW list, IsNames(list), NEW failing, NEW s,
         DOMAIN s = {"nic", "perf", "nccl"},
         s["nic"] = NicSource(FilesOf(h, cnt, list, failing), list)
  PROVE  IsReading(CountersByName(NicsOf(Present(s)), list), h, cnt, list,
                   Wrong(list, failing))
<1> DEFINE nics == NicSource(FilesOf(h, cnt, list, failing), list)
           wrong == Wrong(list, failing)
<1>1. DOMAIN nics = Nic  BY DEF NicSource, FilesOf
<1>p. /\ DOMAIN Present(s) = {r \in DOMAIN s : DOMAIN s[r] # {}}
      /\ \A r \in DOMAIN Present(s) : Present(s)[r] = s[r]
  BY DEF Present
<1>2. CASE Nic = {}
  <2>1. NicsOf(Present(s)) = <<>>
    <3> HIDE DEF nics
    <3>1. "nic" \notin DOMAIN Present(s)  BY <1>1, <1>2, <1>p DEF nics
    <3> QED BY <3>1 DEF NicsOf
  <2>2. DOMAIN <<>> = {}  OBVIOUS
  <2> HIDE DEF wrong
  <2>3. CountersByName(<<>>, list) \in [Nic -> [DOMAIN list -> Nat]]
    BY <2>2, <1>2 DEF CountersByName
  <2>4. IsReading(CountersByName(<<>>, list), h, cnt, list, wrong)
    BY <2>3, <1>2 DEF IsReading
  <2> QED BY <2>1, <2>4 DEF wrong
<1>3. CASE Nic # {}
  <2>1. NicsOf(Present(s)) = nics
    <3>1. "nic" \in DOMAIN s /\ s["nic"] = nics  OBVIOUS
    <3> HIDE DEF nics
    <3>2. "nic" \in DOMAIN Present(s) /\ Present(s)["nic"] = nics
      BY <3>1, <1>1, <1>3, <1>p
    <3> QED BY <3>2 DEF NicsOf
  <2>2. ASSUME NEW n \in Nic, NEW i \in DOMAIN list
        PROVE  /\ list[i] \in DOMAIN nics[n]
               /\ nics[n][list[i]] \in Nat
               /\ <<n, list[i]>> \notin wrong => nics[n][list[i]] = Seen(h, cnt, n, list[i])
    <3> DEFINE p == Max(Places(list[i], list))
    <3>1. list[i] \in Counter /\ list[i] \in ToSet(list)  BY NamesAre
    <3>2. list[i] \notin DOMAIN Copies  BY <3>1, ReportAssumption
    <3>3. n \in DOMAIN FilesOf(h, cnt, list, failing)  BY DEF FilesOf
    <3>4. /\ list[i] \in DOMAIN nics[n]
          /\ nics[n][list[i]] = ReadCounter(FilesOf(h, cnt, list, failing)[n], p)
      BY <3>1, <3>2, <3>3 DEF NicSource
    <3>5. p \in DOMAIN list /\ list[p] = list[i]  BY PlaceIs
    <3> HIDE DEF nics, p, wrong
    <3>6. /\ ReadCounter(FilesOf(h, cnt, list, failing)[n], p) \in Nat
          /\ <<n, list[p]>> \notin Wrong(list, failing) =>
               ReadCounter(FilesOf(h, cnt, list, failing)[n], p) = Seen(h, cnt, n, list[p])
      BY <3>5, ReadCounterIs
    <3> QED BY <3>4, <3>5, <3>6 DEF wrong
  <2> DEFINE u == CountersByName(nics, list)
  <2> HIDE DEF nics, wrong
  <2>3. u = [n \in Nic |-> [i \in DOMAIN list |-> nics[n][list[i]]]]
    BY <1>1, <2>2 DEF CountersByName
  <2> HIDE DEF u
  <2>4. u \in [Nic -> [DOMAIN list -> Nat]]  BY <2>2, <2>3
  <2>5. \A n \in Nic, i \in DOMAIN list : u[n][i] = nics[n][list[i]]  BY <2>3
  <2>6. IsReading(u, h, cnt, list, wrong)  BY <2>2, <2>4, <2>5 DEF IsReading
  <2> QED BY <2>1, <2>6 DEF u, wrong
<1> QED BY <1>2, <1>3

(* Between two total readings that are close enough to each other.           *)
LEMMA TotalsDiffer ==
  ASSUME NEW h \in Host, NEW from \in Counts, NEW to \in Counts, NEW c \in Counter,
         \A n \in Nic : from[n][c] <= to[n][c],
         Risen(from, to, c) < Modulus
  PROVE  Subtract(SeenSum(h, to, c), SeenSum(h, from, c)) = MovesSum(Moves(h, from, to), c)
<1> DEFINE all == [n \in Nic |-> to[n][c] - from[n][c]]
           z == [n \in Nic |-> IF c \in ReadableOf(h, n) THEN to[n][c] - from[n][c] ELSE 0]
           a == [n \in Nic |-> Seen(h, to, n, c)]
           b == [n \in Nic |-> Seen(h, from, n, c)]
<1>1. \A n \in Nic : to[n][c] \in Nat /\ from[n][c] \in Nat /\ to[n][c] - from[n][c] \in Nat
  BY DEF Counts
<1>2. IsFiniteSet(Nic)  BY ReportAssumption
<1>3. z \in [Nic -> Nat] /\ z \in [Nic -> Int] /\ all \in [Nic -> Int]  BY <1>1
<1>4. a \in [Nic -> Nat] /\ b \in [Nic -> Nat]  BY SeenType
<1>5. ASSUME NEW n \in Nic
      PROVE  \E m \in Nat : a[n] = (m + z[n]) % Modulus /\ b[n] = m % Modulus
  <2>1. CASE c \in ReadableOf(h, n)
    <3>1. a[n] = to[n][c] % Modulus /\ b[n] = from[n][c] % Modulus  BY <2>1 DEF Seen
    <3>2. to[n][c] = from[n][c] + z[n] /\ from[n][c] \in Nat  BY <2>1, <1>1
    <3> HIDE DEF a, b, z
    <3> QED BY <3>1, <3>2
  <2>2. CASE c \notin ReadableOf(h, n)
    <3>1. a[n] = 0 /\ b[n] = 0 /\ z[n] = 0  BY <2>2 DEF Seen
    <3>2. (0 + 0) % Modulus = 0 /\ 0 % Modulus = 0  BY SummaryAssumption
    <3> HIDE DEF a, b, z
    <3> QED BY <3>1, <3>2
  <2> QED BY <2>1, <2>2
<1>6. \A n \in Nic : z[n] <= all[n]  BY <1>1
<1>7. MovesSum(Moves(h, from, to), c) = SumFunction(z)
  <2>1. [n \in Nic |-> Moves(h, from, to)[n][c]] = z  BY DEF Moves
  <2> HIDE DEF z
  <2> QED BY <2>1 DEF MovesSum
<1>8. SumFunction(all) < Modulus  BY DEF Risen
<1>9. SeenSum(h, to, c) = SumFunction(a) /\ SeenSum(h, from, c) = SumFunction(b)
  BY DEF SeenSum
<1> HIDE DEF all, z, a, b
<1>10. SumFunction(z) <= SumFunction(all)  BY <1>2, <1>3, <1>6, SumAtMost
<1>11. SumFunction(z) \in Nat /\ SumFunction(all) \in Int  BY <1>2, <1>3, SumNat, SumType
<1>12. SumFunction(z) < Modulus  BY <1>8, <1>10, <1>11, SummaryAssumption
<1>13. Subtract(SumFunction(a), SumFunction(b)) = SumFunction(z)
  <2>1. Apart(Nic, a, b, z)  BY <1>2, <1>3, <1>4, <1>5, <1>12 DEF Apart
  <2> QED BY <2>1, SubtractSums
<1> QED BY <1>7, <1>9, <1>13

----------------------------------------------------------------------------
(* The selection of counters.                                                *)

(* What init_counter_filter() selects are counters, at least one.            *)
Knows(g, list, n) ==
  g = [i \in 0..n |-> IF i = 0 THEN <<>> ELSE Filtered(g[i - 1], list[i])]

(* The function that KnownNames recurses on exists for every length.         *)
LEMMA KnowsExists == ASSUME NEW list PROVE \A n \in Nat : \E g : Knows(g, list, n)
<1> DEFINE T == {n \in Nat : \E g : Knows(g, list, n)}
<1>1. 0 \in T
  <2>1. Knows([i \in 0..0 |-> <<>>], list, 0)  BY DEF Knows
  <2> QED BY <2>1
<1>2. ASSUME NEW n \in Nat, n \in T PROVE n + 1 \in T
  <2>1. PICK g : Knows(g, list, n)  BY <1>2
  <2> DEFINE h == [i \in 0..(n + 1) |->
                     IF i = 0 THEN <<>> ELSE Filtered(g[i - 1], list[i])]
  <2>2. \A i \in 0..n : h[i] = g[i]
    <3>1. \A i \in 0..n : g[i] = IF i = 0 THEN <<>> ELSE Filtered(g[i - 1], list[i])
      BY <2>1 DEF Knows
    <3> QED BY <3>1
  <2>3. \A i \in 0..(n + 1) : i # 0 => g[i - 1] = h[i - 1]
    <3>1. \A i \in 0..(n + 1) : i # 0 => i - 1 \in 0..n  OBVIOUS
    <3> HIDE DEF h
    <3> QED BY <2>2, <3>1
  <2>4. h = [i \in 0..(n + 1) |->
               IF i = 0 THEN <<>> ELSE Filtered(h[i - 1], list[i])]
    <3>1. h = [i \in 0..(n + 1) |->
                 IF i = 0 THEN <<>> ELSE Filtered(g[i - 1], list[i])]
      OBVIOUS
    <3> HIDE DEF h
    <3> QED BY <2>3, <3>1
  <2> HIDE DEF h
  <2> QED BY <2>4 DEF Knows
<1> HIDE DEF T
<1>3. Nat \subseteq T  BY <1>1, <1>2, Induction
<1> QED BY <1>3 DEF T

(* What is kept of a list are names of the full list.                        *)
LEMMA KnownNamesType ==
  ASSUME NEW list, list \in Seq(ToSet(list))
  PROVE  KnownNames(list) \in Seq(ToSet(AllNames))
<1> DEFINE n == Len(list)
<1>1. n \in Nat  OBVIOUS
<1>2. \E g : Knows(g, list, n) /\ KnownNames(list) = g[n]
  <2>1. PICK g : Knows(g, list, n)  BY <1>1, KnowsExists
  <2> QED BY <2>1 DEF Knows, KnownNames
<1>3. PICK g : Knows(g, list, n) /\ KnownNames(list) = g[n]  BY <1>2
<1> HIDE DEF n
<1> DEFINE T == {i \in Nat : i \in 0..n => g[i] \in Seq(ToSet(AllNames))}
<1>4. 0 \in T
  <2>1. 0 \in 0..n  BY <1>1
  <2>2. g[0] = <<>>  BY <2>1, <1>3 DEF Knows
  <2>3. <<>> \in Seq(ToSet(AllNames))  OBVIOUS
  <2> QED BY <2>2, <2>3, Zenon
<1>5. ASSUME NEW i \in Nat, i \in T PROVE i + 1 \in T
  <2> SUFFICES ASSUME i + 1 \in 0..n PROVE g[i + 1] \in Seq(ToSet(AllNames))  OBVIOUS
  <2>1. g[i + 1] = Filtered(g[i], list[i + 1])
    <3>1. g[i + 1] = IF i + 1 = 0 THEN <<>> ELSE Filtered(g[(i + 1) - 1], list[i + 1])
      BY <1>3 DEF Knows
    <3>2. i + 1 # 0 /\ (i + 1) - 1 = i  OBVIOUS
    <3> QED BY <3>1, <3>2
  <2>2. g[i] \in Seq(ToSet(AllNames))  BY <1>1, <1>5
  <2> QED BY <2>1, <2>2 DEF Filtered
<1> HIDE DEF T
<1>6. Nat \subseteq T  BY <1>4, <1>5, Induction
<1> QED BY <1>1, <1>3, <1>6 DEF T

(* Whatever the level and the list, counters are selected, and at least one. *)
LEMMA SelectedNames ==
  ASSUME NEW level, NEW list \in Lists
  PROVE  IsNames(CounterFilter(level, list))
<1>0. \A s \in Seq(Counter) : s # <<>> => IsNames(s)
  <2> TAKE s \in Seq(Counter)
  <2>1. \A i \in DOMAIN s : s[i] \in Counter  OBVIOUS
  <2>2. IsSeq(s)  BY TypedSeq
  <2> QED BY <2>1, <2>2 DEF IsNames, ToSet
<1>1. /\ AllNames \in Seq(Counter) /\ AllNames # <<>>
      /\ DefaultNames \in Seq(Counter) /\ DefaultNames # <<>>
      /\ TimeoutNames \in Seq(Counter) /\ TimeoutNames # <<>>
  BY ReportAssumption
<1>2. IsNames(AllNames) /\ IsNames(DefaultNames) /\ IsNames(TimeoutNames)
  BY <1>0, <1>1
<1>3. ASSUME list # Unset, KnownNames(list) # <<>> PROVE IsNames(KnownNames(list))
  <2>1. list \in Seq(ToSet(list))  BY <1>3, ReportAssumption
  <2>2. KnownNames(list) \in Seq(ToSet(AllNames))  BY <2>1, KnownNamesType
  <2>3. ToSet(AllNames) \subseteq Counter  BY DEF Counter
  <2>4. KnownNames(list) \in Seq(Counter)  BY <2>2, <2>3
  <2> QED BY <2>4, <1>0, <1>3
<1> QED BY <1>2, <1>3 DEF CounterFilter

----------------------------------------------------------------------------
(* Metric sources and samples.                                               *)

(* A function on a finite set has finitely many values.                      *)
LEMMA RangeFinite ==
  ASSUME NEW S, IsFiniteSet(S), NEW f, f = [x \in S |-> f[x]]
  PROVE  IsFiniteSet({f[x] : x \in S})
<1> DEFINE T == {f[x] : x \in S}
<1>1. f \in [S -> T]  BY Zenon
<1>2. f \in Surjection(S, T)  BY <1>1 DEF Surjection
<1> HIDE DEF T
<1>3. IsFiniteSet(T)  BY <1>2, FS_Surjection
<1> QED BY <1>3 DEF T

(* A sequence has finitely many elements.                                    *)
LEMMA ElementsFinite ==
  ASSUME NEW w, IsSeq(w)
  PROVE  IsFiniteSet(ToSet(w))
<1>1. Len(w) \in Nat /\ DOMAIN w = 1..Len(w) /\ w = [i \in 1..Len(w) |-> w[i]]  BY Elements
<1>2. IsFiniteSet(1..Len(w))  BY <1>1, FS_Interval
<1>3. IsFiniteSet({w[i] : i \in 1..Len(w)})  BY <1>1, <1>2, RangeFinite
<1> QED BY <1>1, <1>3 DEF ToSet

(* Three elements are finitely many.                                         *)
LEMMA ThreeFinite == ASSUME NEW a, NEW b, NEW c PROVE IsFiniteSet({a, b, c})
<1>1. IsFiniteSet({a})  BY FS_Singleton
<1>2. IsFiniteSet({a} \cup {b})  BY <1>1, FS_AddElement
<1>3. IsFiniteSet(({a} \cup {b}) \cup {c})  BY <1>2, FS_AddElement
<1>4. {a, b, c} = ({a} \cup {b}) \cup {c}  OBVIOUS
<1> QED BY <1>3, <1>4, Zenon

(* The metrics of a channel, as a map.                                       *)
LEMMA RecordOfThree ==
  ASSUME NEW a, NEW b, NEW c
  PROVE  LET m == [count |-> a, bytes |-> b, max |-> c] IN FiniteMap(m) /\ DOMAIN m # {}
<1> DEFINE m == [count |-> a, bytes |-> b, max |-> c]
<1>1. DOMAIN m = {"count", "bytes", "max"}  OBVIOUS
<1>2. IsFiniteSet({"count", "bytes", "max"})  BY ThreeFinite
<1>3. m = [k \in DOMAIN m |-> m[k]]  OBVIOUS
<1> QED BY <1>1, <1>2, <1>3 DEF FiniteMap

(* Entities as a source reads them: each has metrics.                        *)
IsEntities(m) ==
  FiniteMap(m) /\ \A e \in DOMAIN m : FiniteMap(m[e]) /\ DOMAIN m[e] # {}

(* NicMetricSource::read() returns such entities.                            *)
LEMMA NicSourceIs ==
  ASSUME NEW h \in Host, NEW cnt, NEW list, IsNames(list), NEW failing
  PROVE  IsEntities(NicSource(FilesOf(h, cnt, list, failing), list))
<1> DEFINE m == NicSource(FilesOf(h, cnt, list, failing), list)
           D == ToSet(list) \cup DOMAIN Copies
<1>1. IsFiniteSet(D) /\ D # {}
  <2>1. IsFiniteSet(ToSet(list))  BY ElementsFinite DEF IsNames
  <2>2. IsFiniteSet(DOMAIN Copies)  BY ReportAssumption
  <2>3. 1 \in DOMAIN list  BY NamesAre
  <2>4. list[1] \in ToSet(list)  BY <2>3, NamesAre
  <2>5. IsFiniteSet(D)  BY <2>1, <2>2, FS_Union
  <2> QED BY <2>4, <2>5
<1>2. DOMAIN m = Nic /\ IsFiniteSet(Nic)  BY ReportAssumption DEF NicSource, FilesOf
<1>3. m = [n \in Nic |-> m[n]]  BY DEF NicSource, FilesOf
<1>4. \A n \in Nic : DOMAIN m[n] = D /\ m[n] = [k \in D |-> m[n][k]]
  <2> TAKE n \in Nic
  <2>1. n \in DOMAIN FilesOf(h, cnt, list, failing)  BY DEF FilesOf
  <2> QED BY <2>1 DEF NicSource
<1> HIDE DEF m, D
<1> QED BY <1>1, <1>2, <1>3, <1>4 DEF IsEntities, FiniteMap, m

(* So does PerfMetricSource::read().                                         *)
LEMMA PerfSourceIs ==
  ASSUME NEW h, NEW counted
  PROVE  IsEntities(PerfSource(h, counted))
<1> DEFINE m == PerfSource(h, counted)
<1>1. DOMAIN m = {h} /\ m = [e \in {h} |-> m[e]] /\ IsFiniteSet({h})
  BY FS_Singleton DEF PerfSource
<1>2. DOMAIN m[h] = PerfEvents /\ m[h] = [k \in PerfEvents |-> m[h][k]]
  BY DEF PerfSource
<1>3. IsFiniteSet(PerfEvents) /\ PerfEvents # {}  BY ReportAssumption
<1> HIDE DEF m
<1> QED BY <1>1, <1>2, <1>3 DEF IsEntities, FiniteMap, m

(* So does NcclMetricSource::read().                                         *)
LEMMA NcclSourceIs ==
  ASSUME NEW channels, IsFiniteSet(DOMAIN channels), NEW nics
  PROVE  IsEntities(NcclSource(channels, nics))
<1> DEFINE used == {ch \in DOMAIN channels : channels[ch].count # 0}
           of(n) == {ch \in used : NicForChannel(ch, nics) = n}
           D == {NicForChannel(ch, nics) : ch \in used}
           m == NcclSource(channels, nics)
<1>1. IsFiniteSet(D)
  <2> DEFINE f == [ch \in used |-> NicForChannel(ch, nics)]
  <2>1. IsFiniteSet(used)  BY FS_Subset
  <2>2. f = [ch \in used |-> f[ch]]  OBVIOUS
  <2>3. D = {f[ch] : ch \in used}  OBVIOUS
  <2> HIDE DEF f, D, used
  <2> QED BY <2>1, <2>2, <2>3, RangeFinite
<1>2. DOMAIN m = D /\ m = [n \in D |-> m[n]]  BY DEF NcclSource
<1>3. ASSUME NEW n \in D PROVE FiniteMap(m[n]) /\ DOMAIN m[n] # {}
  <2>1. m[n] = [count |-> SumFunction([ch \in of(n) |-> channels[ch].count]),
                bytes |-> SumFunction([ch \in of(n) |-> channels[ch].bytes]),
                max |-> Max({channels[ch].max : ch \in of(n)})]
    BY DEF NcclSource
  <2> DEFINE a == SumFunction([ch \in of(n) |-> channels[ch].count])
             b == SumFunction([ch \in of(n) |-> channels[ch].bytes])
             c == Max({channels[ch].max : ch \in of(n)})
  <2>2. m[n] = [count |-> a, bytes |-> b, max |-> c]  BY <2>1
  <2> HIDE DEF m, a, b, c
  <2> QED BY <2>2, RecordOfThree
<1> HIDE DEF m, D
<1> QED BY <1>1, <1>2, <1>3 DEF IsEntities, FiniteMap, m

(* A sample keeps the sources that have entities.                            *)
LEMMA PresentIs ==
  ASSUME NEW s, IsFiniteSet(DOMAIN s), \A r \in DOMAIN s : IsEntities(s[r])
  PROVE  IsSources(Present(s))
<1> DEFINE p == Present(s)
           D == {r \in DOMAIN s : DOMAIN s[r] # {}}
<1>1. DOMAIN p = D /\ p = [r \in D |-> p[r]] /\ \A r \in D : p[r] = s[r]  BY DEF Present
<1>2. IsFiniteSet(D)  BY FS_Subset
<1>3. ASSUME NEW r \in D
      PROVE  /\ FiniteMap(p[r]) /\ DOMAIN p[r] # {}
             /\ \A e \in DOMAIN p[r] : FiniteMap(p[r][e]) /\ DOMAIN p[r][e] # {}
  <2>1. p[r] = s[r] /\ IsEntities(s[r]) /\ DOMAIN s[r] # {}  BY <1>1
  <2> HIDE DEF p
  <2> QED BY <2>1 DEF IsEntities
<1> HIDE DEF p, D
<1>4. FiniteMap(p)  BY <1>1, <1>2 DEF FiniteMap
<1> QED BY <1>1, <1>3, <1>4 DEF IsSources, p

(* So its sources are as the message needs them: nothing in them is empty;   *)
(* and the sampling thread finds the counters in them.                       *)
LEMMA SourcesAre ==
  ASSUME host \in Host, count \in Counts, IsNames(names), NEW failing
  PROVE  /\ IsSources(OfSources(failing))
         /\ IsReading(CountersByName(NicsOf(OfSources(failing)), names), host, count, names,
                      Wrong(names, failing))
<1> DEFINE s == [nic |-> NicSource(Files(failing), names), perf |-> PerfSource(host, Perf[host]),
                 nccl |-> NcclSource(Channels[host], NicOrder)]
<1>1. /\ DOMAIN s = {"nic", "perf", "nccl"}
      /\ s["nic"] = NicSource(FilesOf(host, count, names, failing), names)
      /\ s["perf"] = PerfSource(host, Perf[host])
      /\ s["nccl"] = NcclSource(Channels[host], NicOrder)
  BY FilesAre
<1>2. IsFiniteSet({"nic", "perf", "nccl"})  BY ThreeFinite
<1>3. IsFiniteSet(DOMAIN Channels[host])  BY ReportAssumption
<1>8. OfSources(failing) = Present(s)  BY DEF OfSources
<1> HIDE DEF s
<1>4. IsEntities(s["nic"])  BY <1>1, NicSourceIs
<1>5. IsEntities(s["perf"])  BY <1>1, PerfSourceIs
<1>6. IsEntities(s["nccl"])  BY <1>1, <1>3, NcclSourceIs
<1>7. IsSources(Present(s))  BY <1>1, <1>2, <1>4, <1>5, <1>6, PresentIs
<1>9. IsReading(CountersByName(NicsOf(Present(s)), names), host, count, names,
                Wrong(names, failing))
  BY <1>1, SourceCounters
<1> QED BY <1>7, <1>8, <1>9

(* A sample that the message can carry.                                      *)
NewSample(time, nics, sources) == [timestamp |-> time, nics |-> nics, sources |-> sources]
LEMMA SampleIs ==
  ASSUME NEW list, IsNames(list), NEW time, NEW nics \in [Nic -> [DOMAIN list -> Nat]],
         NEW sources, IsSources(sources)
  PROVE  IsSample(NewSample(time, nics, sources), Len(list))
<1>1. DOMAIN list = 1..Len(list)  BY NamesAre
<1>2. DOMAIN nics = Nic /\ nics = [n \in Nic |-> nics[n]] /\ IsFiniteSet(Nic)
  BY ReportAssumption
<1>3. \A n \in Nic : Vector(nics[n], Len(list))  BY <1>1 DEF Vector
<1>4. FiniteMap(nics)  BY <1>2 DEF FiniteMap
<1> QED BY <1>2, <1>3, <1>4 DEF IsSample, NewSample

----------------------------------------------------------------------------
(* Series and aggregates that grow.                                          *)

(* The elements of a sequence and one more.                                  *)
LEMMA AppendIs ==
  ASSUME NEW s, IsSeq(s), NEW x
  PROVE  /\ IsSeq(Append(s, x)) /\ Len(Append(s, x)) = Len(s) + 1
         /\ DOMAIN Append(s, x) = 1..(Len(s) + 1)
         /\ \A i \in 1..Len(s) : Append(s, x)[i] = s[i]
         /\ Append(s, x)[Len(s) + 1] = x
<1> DEFINE A == ToSet(s) \cup {x}
<1>1. \A i \in 1..Len(s) : s[i] \in A  BY Elements DEF ToSet
<1>2. s \in Seq(ToSet(s))  BY DEF IsSeq
<1> HIDE DEF A
<1>3. s \in Seq(A)  BY <1>1, <1>2
<1>4. x \in A  BY DEF A
<1>5. Append(s, x) \in Seq(A)  BY <1>3, <1>4
<1>6. IsSeq(Append(s, x))  BY <1>5, TypedSeq
<1>7. /\ Len(Append(s, x)) = Len(s) + 1
      /\ \A i \in 1..Len(s) : Append(s, x)[i] = s[i]
      /\ Append(s, x)[Len(s) + 1] = x
  BY <1>3, <1>4
<1>8. DOMAIN Append(s, x) = 1..(Len(s) + 1)  BY <1>5, <1>7
<1> QED BY <1>6, <1>7, <1>8

(* Something that holds of every element still does.                         *)
LEMMA AppendKeeps ==
  ASSUME NEW s, IsSeq(s), NEW x, NEW A, \A i \in DOMAIN s : s[i] \in A, x \in A
  PROVE  \A i \in DOMAIN Append(s, x) : Append(s, x)[i] \in A
<1>1. /\ DOMAIN s = 1..Len(s) /\ Len(s) \in Nat
      /\ DOMAIN Append(s, x) = 1..(Len(s) + 1)
      /\ \A i \in 1..Len(s) : Append(s, x)[i] = s[i]
      /\ Append(s, x)[Len(s) + 1] = x
  BY Elements, AppendIs
<1> DEFINE t == Append(s, x)
<1> HIDE DEF t
<1> SUFFICES ASSUME NEW i \in DOMAIN t PROVE t[i] \in A  BY DEF t
<1>2. CASE i = Len(s) + 1  BY <1>1, <1>2 DEF t
<1>3. CASE i # Len(s) + 1
  <2>1. i \in 1..Len(s)  BY <1>1, <1>3 DEF t
  <2>2. t[i] = s[i] /\ s[i] \in A  BY <1>1, <2>1 DEF t
  <2> QED BY <2>2
<1> QED BY <1>2, <1>3

(* The empty sequence.                                                       *)
LEMMA EmptyIs == IsSeq(<<>>) /\ DOMAIN <<>> = {}
<1>1. <<>> \in Seq({})  OBVIOUS
<1>2. IsSeq(<<>>)  BY <1>1, TypedSeq
<1> QED BY <1>2

(* The series a node starts with.                                            *)
LEMMA NewSeriesIs == ASSUME NEW h, NEW n PROVE IsSeries(NewSeries(h), n)
<1>1. IsSeq(<<>>) /\ DOMAIN <<>> = {}  BY EmptyIs
<1> QED BY <1>1 DEF IsSeries, NewSeries

(* With a sample more it is still a series.                                  *)
LEMMA WithSample ==
  ASSUME NEW n, NEW t, IsSeries(t, n), NEW s, IsSample(s, n)
  PROVE  IsSeries([t EXCEPT !.samples = Append(@, s)], n)
<1> DEFINE u == [t EXCEPT !.samples = Append(@, s)]
<1>1. t = [hostname |-> t.hostname, procid |-> t.procid, time |-> t.time,
           samples |-> t.samples, latencies |-> t.latencies, repeats |-> t.repeats]
  BY DEF IsSeries
<1>2. u = [hostname |-> t.hostname, procid |-> t.procid, time |-> t.time,
           samples |-> Append(t.samples, s), latencies |-> t.latencies, repeats |-> t.repeats]
  BY <1>1
<1>3. IsSeq(Append(t.samples, s))  BY AppendIs DEF IsSeries
<1>4. \A i \in DOMAIN Append(t.samples, s) : IsSample(Append(t.samples, s)[i], n)
  <2> DEFINE A == {x \in ToSet(t.samples) \cup {s} : IsSample(x, n)}
  <2>1. IsSeq(t.samples) /\ \A i \in DOMAIN t.samples : t.samples[i] \in A
    BY DEF IsSeries, ToSet
  <2>2. s \in A  OBVIOUS
  <2>3. \A x \in A : IsSample(x, n)  OBVIOUS
  <2> HIDE DEF A
  <2>4. \A i \in DOMAIN Append(t.samples, s) : Append(t.samples, s)[i] \in A
    BY <2>1, <2>2, AppendKeeps
  <2> QED BY <2>3, <2>4
<1> HIDE DEF u
<1> QED BY <1>2, <1>3, <1>4 DEF IsSeries, u
(* The numbers of the lines of a command.                                    *)
LEMMA LinesAre ==
  ASSUME NEW k \in Nat, NEW f, f = [i \in 1..k |-> f[i]]
  PROVE  IsSeq(f) /\ DOMAIN f = 1..k
<1> DEFINE A == {f[i] : i \in 1..k}
<1>1. f \in [1..k -> A]  BY Zenon
<1>2. f \in Seq(A)  BY <1>1
<1>3. IsSeq(f)  BY <1>2, TypedSeq
<1>4. DOMAIN f = 1..k  BY <1>1
<1> QED BY <1>3, <1>4

(* With the time, the latencies and the repeats of the command it is.        *)
WithCommand(t, x, l, r) == [t EXCEPT !.time = x, !.latencies = l, !.repeats = r]
Series(h, p, c, s, l, k) ==
  [hostname |-> h, procid |-> p, time |-> c, samples |-> s, latencies |-> l, repeats |-> k]
IsLatencies(l) == IsSeq(l) /\ \A i \in DOMAIN l : Vector(l[i], 2)
LEMMA WithCommandIs ==
  ASSUME NEW n, NEW t, IsSeries(t, n), NEW x, NEW l, IsLatencies(l), NEW r, IsSeq(r)
  PROVE  /\ IsSeries(WithCommand(t, x, l, r), n)
         /\ WithCommand(t, x, l, r).hostname = t.hostname
         /\ WithCommand(t, x, l, r).procid = t.procid
         /\ WithCommand(t, x, l, r).samples = t.samples
<1> DEFINE u == WithCommand(t, x, l, r)
<1>1. t = Series(t.hostname, t.procid, t.time, t.samples, t.latencies, t.repeats)
  BY DEF IsSeries, Series
<1>2. u = Series(t.hostname, t.procid, x, t.samples, l, r)
  <2>1. PICK h, p, c, s, e, k : t = Series(h, p, c, s, e, k)  BY <1>1
  <2>2. t.hostname = h /\ t.procid = p /\ t.samples = s  BY <2>1 DEF Series
  <2>3. [Series(h, p, c, s, e, k) EXCEPT !.time = x, !.latencies = l, !.repeats = r] =
          Series(h, p, x, s, l, r)
    <3> DEFINE A == Series(h, p, c, s, e, k)
               B == Series(h, p, x, s, e, k)
               C == Series(h, p, x, s, l, k)
    <3>1. [A EXCEPT !.time = x] = B  BY DEF Series
    <3>2. [B EXCEPT !.latencies = l] = C  BY DEF Series
    <3>3. [C EXCEPT !.repeats = r] = Series(h, p, x, s, l, r)  BY DEF Series
    <3> HIDE DEF A, B, C
    <3>4. [A EXCEPT !.time = x, !.latencies = l, !.repeats = r] =
            [[[A EXCEPT !.time = x] EXCEPT !.latencies = l] EXCEPT !.repeats = r]
      OBVIOUS
    <3>5. [A EXCEPT !.time = x, !.latencies = l, !.repeats = r] = Series(h, p, x, s, l, r)
      BY <3>1, <3>2, <3>3, <3>4
    <3> QED BY <3>5 DEF A
  <2>4. u = [t EXCEPT !.time = x, !.latencies = l, !.repeats = r]  BY DEF WithCommand
  <2> HIDE DEF u
  <2> QED BY <2>1, <2>2, <2>3, <2>4
<1> HIDE DEF u
<1>3. IsSeries(u, n)  BY <1>2 DEF IsSeries, Series, IsLatencies
<1>4. u.hostname = t.hostname /\ u.procid = t.procid /\ u.samples = t.samples
  BY <1>2 DEF Series
<1> QED BY <1>3, <1>4 DEF u

(* An aggregate that a node may hold.                                        *)
Held(a, n) ==
  /\ IsAggregate(a, n)
  /\ Len(a.rows) = Len(a.series)
  /\ \A i \in DOMAIN a.rows : {a.rows[i].initial, a.rows[i].final} \subseteq [1..n -> Nat]

(* The last node starts with nothing.                                        *)
LEMMA NothingHeld == ASSUME NEW n PROVE Held(Nothing, n)
<1>1. IsSeq(<<>>) /\ DOMAIN <<>> = {}  BY EmptyIs
<1> QED BY <1>1 DEF Held, IsAggregate, Nothing

(* With a row and a series more it is still one.                             *)
LEMMA PushHeld ==
  ASSUME NEW n \in Nat, NEW a, Held(a, n), NEW r, IsRow(r, n),
         r.initial \in [1..n -> Nat], r.final \in [1..n -> Nat],
         NEW t, IsSeries(t, n)
  PROVE  Held([rows |-> Append(a.rows, r), series |-> Append(a.series, t)], n)
<1> DEFINE R == Append(a.rows, r)  T == Append(a.series, t)
<1>0. /\ IsSeq(a.rows) /\ \A i \in DOMAIN a.rows : IsRow(a.rows[i], n)
      /\ IsSeq(a.series) /\ \A i \in DOMAIN a.series : IsSeries(a.series[i], n)
      /\ Len(a.rows) = Len(a.series)
      /\ \A i \in DOMAIN a.rows : /\ a.rows[i].initial \in [1..n -> Nat]
                                  /\ a.rows[i].final \in [1..n -> Nat]
  BY DEF Held, IsAggregate
<1>1. IsSeq(R) /\ Len(R) = Len(a.rows) + 1  BY <1>0, AppendIs
<1>2. IsSeq(T) /\ Len(T) = Len(a.series) + 1  BY <1>0, AppendIs
<1>3. \A i \in DOMAIN R : /\ IsRow(R[i], n) /\ R[i].initial \in [1..n -> Nat]
                          /\ R[i].final \in [1..n -> Nat]
  <2> DEFINE A == {x \in ToSet(a.rows) \cup {r} : /\ IsRow(x, n)
                                                  /\ x.initial \in [1..n -> Nat]
                                                  /\ x.final \in [1..n -> Nat]}
  <2>1. \A i \in DOMAIN a.rows : a.rows[i] \in A  BY <1>0 DEF ToSet
  <2>2. r \in A  OBVIOUS
  <2>3. \A x \in A : /\ IsRow(x, n) /\ x.initial \in [1..n -> Nat]
                     /\ x.final \in [1..n -> Nat]
    OBVIOUS
  <2> HIDE DEF A
  <2>4. \A i \in DOMAIN R : R[i] \in A  BY <1>0, <2>1, <2>2, AppendKeeps
  <2> QED BY <2>3, <2>4
<1>4. \A i \in DOMAIN T : IsSeries(T[i], n)
  <2> DEFINE A == {x \in ToSet(a.series) \cup {t} : IsSeries(x, n)}
  <2>1. \A i \in DOMAIN a.series : a.series[i] \in A  BY <1>0 DEF ToSet
  <2>2. t \in A  OBVIOUS
  <2>3. \A x \in A : IsSeries(x, n)  OBVIOUS
  <2> HIDE DEF A
  <2>4. \A i \in DOMAIN T : T[i] \in A  BY <1>0, <2>1, <2>2, AppendKeeps
  <2> QED BY <2>3, <2>4
<1> HIDE DEF R, T
<1>5. IsAggregate([rows |-> R, series |-> T], n)  BY <1>1, <1>2, <1>3, <1>4 DEF IsAggregate
<1>6. Len(R) = Len(T)  BY <1>0, <1>1, <1>2
<1>7. Held([rows |-> R, series |-> T], n)  BY <1>3, <1>5, <1>6 DEF Held
<1> QED BY <1>7 DEF R, T

----------------------------------------------------------------------------
(* The first invariant, Shape: types, and what a node holds is what the      *)
(* nodes appended.  It is inductive because the message is what RoundTrip is *)
(* about: an aggregate in which nothing is empty and every vector has one    *)
(* element for each selected counter.                                        *)

Measuring == {"first", "command", "last", "final"}
Shape ==
  /\ host \in Host
  /\ pc \in {"start", "refused", "initial", "first", "command", "last", "final",
             "send", "sent", "publish"}
  /\ detailed \in BOOLEAN
  /\ IsNames(names)
  /\ count \in Counts
  /\ events \in 0..MaxEvents
  /\ IsFiniteSet(failed)
  /\ pc \in Measuring => initial \in [DOMAIN names -> Nat]
  /\ IsSeries(series, Len(names))
  /\ Held(agg, Len(names))
  /\ pc = "start" => agg = Nothing /\ series = NewSeries(host)
  /\ pc \in {"send", "sent"} => host # 1
  /\ pc = "sent" => message = Serialize(agg)
  /\ agg = pushed

(* TypeOK is part of it.                                                     *)
LEMMA ShapeTypes == Shape => TypeOK
<1> SUFFICES ASSUME Shape PROVE TypeOK  OBVIOUS
<1>1. /\ Len(agg.rows) = Len(agg.series)
      /\ \A i \in DOMAIN agg.rows :
           {agg.rows[i].initial, agg.rows[i].final} \subseteq [DOMAIN names -> Nat]
  <2>1. DOMAIN names = 1..Len(names)  BY NamesAre DEF Shape
  <2> QED BY <2>1 DEF Shape, Held
<1> QED BY <1>1 DEF Shape, TypeOK, IsNames, Counts

(* It holds at the start.                                                    *)
LEMMA InitShape == Init => Shape
<1> SUFFICES ASSUME Init PROVE Shape  OBVIOUS
<1>1. Hosts \in Host  BY ReportAssumption DEF Host
<1>2. Counting(Hosts) \in Counts  BY <1>1, ReportAssumption DEF Counting, Counts
<1>3. IsNames(AllNames)
  <2>1. AllNames \in Seq(Counter) /\ AllNames # <<>>  BY ReportAssumption
  <2>2. \A i \in DOMAIN AllNames : AllNames[i] \in Counter  BY <2>1
  <2>3. IsSeq(AllNames)  BY <2>1, TypedSeq
  <2> QED BY <2>1, <2>2, <2>3 DEF IsNames, ToSet
<1>4. IsSeries(NewSeries(Hosts), Len(AllNames))  BY NewSeriesIs
<1>5. Held(Nothing, Len(AllNames))  BY NothingHeld
<1>6. 0 \in 0..MaxEvents  BY ReportAssumption
<1>7. /\ host = Hosts /\ pc = "start" /\ detailed \in BOOLEAN /\ names = AllNames
      /\ count = Counting(Hosts) /\ series = NewSeries(Hosts) /\ agg = Nothing
      /\ pushed = Nothing /\ events = 0 /\ failed = {}
  BY DEF Init
<1>8. IsFiniteSet(failed)  BY <1>7, FS_EmptySet
<1> QED BY <1>1, <1>2, <1>3, <1>4, <1>5, <1>6, <1>7, <1>8 DEF Shape, Measuring

(* main() selects counters; nothing was read before.                         *)
LEMMA StartShape == Shape /\ Start => Shape'
<1> SUFFICES ASSUME Shape, Start PROVE Shape'  OBVIOUS
<1>1. PICK text \in Texts, list \in Lists :
        IF MainLevel(text) <= 0
        THEN pc' = "refused" /\ UNCHANGED names
        ELSE pc' = "initial" /\ names' = CounterFilter(MainLevel(text), list)
  BY DEF Start
<1>2. IsNames(names')
  <2>1. IsNames(CounterFilter(MainLevel(text), list))  BY SelectedNames
  <2> QED BY <1>1, <2>1 DEF Shape
<1>3. pc = "start" /\ agg = Nothing /\ series = NewSeries(host)  BY DEF Start, Shape
<1>4. IsSeries(NewSeries(host), Len(names')) /\ Held(Nothing, Len(names'))
  BY NewSeriesIs, NothingHeld
<1>5. UNCHANGED <<host, detailed, count, start, initial, series, agg, message,
                  pushed, moved, sampled, failed, events>>
  BY DEF Start
<1>6. pc' \in {"refused", "initial"}  BY <1>1
<1> QED BY <1>2, <1>3, <1>4, <1>5, <1>6 DEF Shape, Measuring

(* The readings that fail in a step are finitely many, and each is recorded. *)
LEMMA FailedIs ==
  ASSUME Shape, NEW reading, NEW failing \in Failures
  PROVE  /\ IsFiniteSet(Failed(reading, failing))
         /\ \A p \in Wrong(names, failing) :
              <<reading, host, p[1], p[2]>> \in Failed(reading, failing)
<1> DEFINE f == [x \in failing |-> <<reading, host, x[1], names[x[2]]>>]
<1>1. IsFiniteSet(failing)
  <2>1. failing \subseteq Nic \X DOMAIN names  BY DEF Failures
  <2>2. IsFiniteSet(Nic)  BY ReportAssumption
  <2>3. IsFiniteSet(DOMAIN names)
    <3>1. Len(names) \in Nat /\ DOMAIN names = 1..Len(names)  BY NamesAre DEF Shape
    <3> QED BY <3>1, FS_Interval
  <2>4. IsFiniteSet(Nic \X DOMAIN names)  BY <2>2, <2>3, FS_Product
  <2> QED BY <2>1, <2>4, FS_Subset
<1>2. f = [x \in failing |-> f[x]]  OBVIOUS
<1>3. Failed(reading, failing) = {f[x] : x \in failing}  BY DEF Failed
<1> HIDE DEF f
<1>4. IsFiniteSet(Failed(reading, failing))  BY <1>1, <1>2, <1>3, RangeFinite
<1>5. ASSUME NEW p \in Wrong(names, failing)
      PROVE  <<reading, host, p[1], p[2]>> \in Failed(reading, failing)
  <2>1. PICK x \in failing : p = <<x[1], names[x[2]]>>  BY DEF Wrong
  <2>2. p[1] = x[1] /\ p[2] = names[x[2]]  BY <2>1
  <2> QED BY <2>2 DEF Failed
<1> QED BY <1>4, <1>5

(* What a total reading obtains.                                             *)
LEMMA TotalRead ==
  ASSUME Shape, NEW reading, NEW failing \in Failures,
         failed' = failed \cup Failed(reading, failing)
  PROVE  /\ failed \subseteq failed' /\ IsFiniteSet(failed')
         /\ Total(Files(failing), names) \in [DOMAIN names -> Nat]
         /\ \E wrong : /\ IsTotal(Total(Files(failing), names), host, count, names, wrong)
                       /\ \A p \in wrong : <<reading, host, p[1], p[2]>> \in failed'
<1>1. IsTotal(Total(Files(failing), names), host, count, names, Wrong(names, failing))
  BY FilesAre, TotalIs DEF Shape
<1>2. IsFiniteSet(failed')  BY FailedIs, FS_Union DEF Shape
<1>3. \A p \in Wrong(names, failing) : <<reading, host, p[1], p[2]>> \in failed'
  BY FailedIs
<1> QED BY <1>1, <1>2, <1>3 DEF IsTotal

(* The initial total reading has a value for each selected counter.          *)
LEMMA ReadInitialShape == Shape /\ ReadInitial => Shape'
<1> SUFFICES ASSUME Shape, ReadInitial PROVE Shape'  OBVIOUS
<1>1. PICK failing \in Failures : /\ initial' = Total(Files(failing), names)
                                  /\ failed' = failed \cup Failed("initial", failing)
  BY DEF ReadInitial
<1>2. initial' \in [DOMAIN names -> Nat] /\ IsFiniteSet(failed')  BY <1>1, TotalRead
<1>3. pc' \in {"first", "command"}  BY DEF ReadInitial, Goes
<1>4. UNCHANGED <<host, detailed, names, count, series, agg, message, pushed, events>>
  BY DEF ReadInitial
<1> QED BY <1>2, <1>3, <1>4 DEF Shape, Measuring

(* The three ways to take a sample are one.                                  *)
Reading == IF pc = "command" THEN "sample" ELSE pc
Taken(nics, wrong) ==
  /\ IsReading(nics, host, count, names, wrong)
  /\ \E sources : /\ IsSources(sources)
                  /\ series' = [series EXCEPT !.samples =
                       Append(@, NewSample(Len(@), nics, sources))]
  /\ \A p \in wrong : <<Reading, host, p[1], p[2]>> \in failed'
LEMMA SampleTaken ==
  ASSUME Shape, FirstSample \/ Sample \/ LastSample
  PROVE  /\ failed \subseteq failed' /\ IsFiniteSet(failed')
         /\ \E nics, wrong : Taken(nics, wrong)
<1>0. host \in Host /\ count \in Counts /\ IsNames(names) /\ IsFiniteSet(failed)
  BY DEF Shape
<1>1. \A nics, sources : Sampled(nics, sources) <=>
        series' = [series EXCEPT !.samples = Append(@, NewSample(Len(@), nics, sources))]
  BY DEF Sampled, NewSample
<1>2. ASSUME NEW reading, reading = Reading, NEW failing \in Failures, NEW missed \in Failures,
             Sampled(PerNic(Files(failing), names), OfSources(missed)),
             failed' = failed \cup Failed(reading, failing) \cup Failed("sources", missed)
      PROVE  /\ failed \subseteq failed' /\ IsFiniteSet(failed')
             /\ \E nics, wrong : Taken(nics, wrong)
  <2>1. IsFiniteSet(failed')
    <3>1. IsFiniteSet(Failed(reading, failing)) /\ IsFiniteSet(Failed("sources", missed))
      BY FailedIs
    <3>2. IsFiniteSet(failed \cup Failed(reading, failing))  BY <1>0, <3>1, FS_Union
    <3> QED BY <1>2, <3>1, <3>2, FS_Union
  <2>2. failed \subseteq failed'  BY <1>2
  <2>3. IsReading(PerNic(Files(failing), names), host, count, names, Wrong(names, failing))
    BY <1>0, FilesAre, PerNicIs
  <2>4. IsSources(OfSources(missed))  BY <1>0, SourcesAre
  <2>5. \A p \in Wrong(names, failing) : <<Reading, host, p[1], p[2]>> \in failed'
    <3>1. \A p \in Wrong(names, failing) :
            <<reading, host, p[1], p[2]>> \in Failed(reading, failing)
      BY FailedIs
    <3>2. Failed(reading, failing) \subseteq failed'  BY <1>2
    <3> QED BY <3>1, <3>2, <1>2
  <2>6. Taken(PerNic(Files(failing), names), Wrong(names, failing))
    BY <1>1, <1>2, <2>3, <2>4, <2>5 DEF Taken
  <2> QED BY <2>1, <2>2, <2>6
<1>3. CASE FirstSample
  <2>1. pc = "first"  BY <1>3 DEF FirstSample, Goes
  <2>2. Reading = "first"  BY <2>1 DEF Reading
  <2> QED BY <1>2, <1>3, <2>2 DEF FirstSample
<1>4. CASE LastSample
  <2>1. pc = "last"  BY <1>4 DEF LastSample, Goes
  <2>2. Reading = "last"  BY <2>1 DEF Reading
  <2> QED BY <1>2, <1>4, <2>2 DEF LastSample
<1>5. CASE Sample
  <2>0. Reading = "sample"  BY <1>5 DEF Sample, Reading
  <2>1. PICK failing \in Failures :
          /\ Sampled(CountersByName(NicsOf(OfSources(failing)), names), OfSources(failing))
          /\ failed' = failed \cup Failed("sample", failing)
    BY <1>5 DEF Sample
  <2>2. IsFiniteSet(failed') /\ failed \subseteq failed'  BY <1>0, <2>1, FailedIs, FS_Union
  <2>3. /\ IsReading(CountersByName(NicsOf(OfSources(failing)), names), host, count, names,
                     Wrong(names, failing))
        /\ IsSources(OfSources(failing))
    BY <1>0, SourcesAre
  <2>4. \A p \in Wrong(names, failing) : <<Reading, host, p[1], p[2]>> \in failed'
    BY <2>0, <2>1, FailedIs
  <2>5. Taken(CountersByName(NicsOf(OfSources(failing)), names), Wrong(names, failing))
    BY <1>1, <2>1, <2>3, <2>4 DEF Taken
  <2> QED BY <2>2, <2>5
<1> QED BY <1>3, <1>4, <1>5

(* A sample more.                                                            *)
LEMMA SampleShape == Shape /\ (FirstSample \/ Sample \/ LastSample) => Shape'
<1> SUFFICES ASSUME Shape, FirstSample \/ Sample \/ LastSample PROVE Shape'  OBVIOUS
<1>1. PICK nics, wrong : Taken(nics, wrong)  BY SampleTaken
<1>2. PICK sources :
        /\ IsSources(sources)
        /\ series' = [series EXCEPT !.samples = Append(@, NewSample(Len(@), nics, sources))]
  BY <1>1 DEF Taken
<1>3. IsSeries(series', Len(names))
  <2> DEFINE s == NewSample(Len(series.samples), nics, sources)
  <2>1. nics \in [Nic -> [DOMAIN names -> Nat]] /\ IsNames(names)
    BY <1>1 DEF Taken, IsReading, Shape
  <2>2. IsSample(s, Len(names))  BY <1>2, <2>1, SampleIs
  <2>3. series' = [series EXCEPT !.samples = Append(@, s)]  BY <1>2
  <2>4. IsSeries(series, Len(names))  BY DEF Shape
  <2> HIDE DEF s
  <2> QED BY <2>2, <2>3, <2>4, WithSample
<1>4. pc \in Measuring /\ pc' \in Measuring
  BY DEF FirstSample, Sample, LastSample, Goes, Measuring
<1>5. UNCHANGED <<host, detailed, names, count, initial, agg, message, pushed, events>>
  BY DEF FirstSample, Sample, LastSample
<1>6. IsFiniteSet(failed')  BY SampleTaken
<1> QED BY <1>3, <1>4, <1>5, <1>6 DEF Shape, Measuring

(* The end of the command leaves the samples alone.                          *)
LEMMA CommandSeries ==
  ASSUME Shape, CommandEnds
  PROVE  /\ IsSeries(series', Len(names)) /\ series'.samples = series.samples
         /\ series'.hostname = series.hostname /\ series'.procid = series.procid
<1> DEFINE k == Lines[host]
           l == [i \in 1..k |-> <<i, host>>]
           r == [i \in 1..k |-> i]
<1>1. k \in Nat  BY ReportAssumption DEF Shape
<1>2. l = [i \in 1..k |-> l[i]] /\ r = [i \in 1..k |-> r[i]]  OBVIOUS
<1>3. \A i \in 1..k : Vector(l[i], 2)  BY DEF Vector
<1>4. series' = WithCommand(series, host, l, r)  BY DEF CommandEnds, WithCommand
<1> HIDE DEF l, r, k
<1>5. IsSeq(l) /\ DOMAIN l = 1..k /\ IsSeq(r)  BY <1>1, <1>2, LinesAre
<1>6. IsSeries(series, Len(names))  BY DEF Shape
<1>7. IsLatencies(l)  BY <1>3, <1>5 DEF IsLatencies
<1> DEFINE u == WithCommand(series, host, l, r)
<1>8. /\ IsSeries(u, Len(names)) /\ u.hostname = series.hostname
      /\ u.procid = series.procid /\ u.samples = series.samples
  BY <1>5, <1>6, <1>7, WithCommandIs
<1> QED BY <1>4, <1>8

(* The time, the latencies and the repeats of the command.                   *)
LEMMA CommandEndsShape == Shape /\ CommandEnds => Shape'
<1> SUFFICES ASSUME Shape, CommandEnds PROVE Shape'  OBVIOUS
<1>1. IsSeries(series', Len(names))  BY CommandSeries
<1>2. UNCHANGED <<host, detailed, names, count, initial, agg, message, pushed, failed, events>>
  BY DEF CommandEnds
<1>3. pc \in Measuring /\ pc' \in Measuring  BY DEF CommandEnds, Goes, Measuring
<1> QED BY <1>1, <1>2, <1>3 DEF Shape, Measuring

(* The row and the series that are appended are ones the message can carry.  *)
LEMMA ReadFinalShape == Shape /\ ReadFinal => Shape'
<1> SUFFICES ASSUME Shape, ReadFinal PROVE Shape'  OBVIOUS
<1>p. PICK failing \in Failures :
        /\ agg' = Push(agg, Total(Files(failing), names))
        /\ pushed' = Push(pushed, Total(Files(failing), names))
        /\ failed' = failed \cup Failed("final", failing)
  BY DEF ReadFinal
<1> DEFINE n == Len(names)  f == Total(Files(failing), names)  r == Row(f)
<1>0. n \in Nat /\ DOMAIN names = 1..n  BY NamesAre DEF Shape
<1>1. f \in [1..n -> Nat] /\ IsFiniteSet(failed')  BY <1>0, <1>p, TotalRead
<1>2. initial \in [1..n -> Nat]  BY <1>0 DEF ReadFinal, Goes, Shape, Measuring
<1>3. r = [hostname |-> host, procid |-> host - 1, initial |-> initial, final |-> f,
           time |-> series.time]
  BY DEF Row
<1>4. /\ Push(agg, f) = [rows |-> Append(agg.rows, r), series |-> Append(agg.series, series)]
      /\ agg' = Push(agg, f) /\ pushed' = Push(pushed, f)
  BY <1>p DEF Push
<1> HIDE DEF f, n, r
<1>5. IsRow(r, n)
  <2>1. Vector(f, n) /\ Vector(initial, n)  BY <1>1, <1>2 DEF Vector
  <2> QED BY <1>3, <2>1 DEF IsRow
<1>6. r.initial \in [1..n -> Nat] /\ r.final \in [1..n -> Nat]  BY <1>1, <1>2, <1>3
<1>7. IsSeries(series, n) /\ Held(agg, n)  BY DEF Shape, n
<1>8. Held(Push(agg, f), n)  BY <1>0, <1>4, <1>5, <1>6, <1>7, PushHeld
<1>9. Held(agg', Len(names)) /\ agg' = pushed'  BY <1>4, <1>8 DEF Shape, n
<1>10. /\ pc' \in {"publish", "send"} /\ (pc' = "send" => host # 1)
       /\ UNCHANGED <<host, detailed, names, count, initial, series, message, events>>
  BY DEF ReadFinal, Goes
<1> QED BY <1>1, <1>9, <1>10 DEF Shape, Measuring

(* The message is what the node holds.                                       *)
LEMMA SendShape == Shape /\ Send => Shape'
BY DEF Shape, Send, Goes, Measuring

(* The next node reads what was sent (RoundTrip).                            *)
LEMMA ReceiveShape == Shape /\ Receive => Shape'
<1> SUFFICES ASSUME Shape, Receive PROVE Shape'  OBVIOUS
<1>1. host' \in Host /\ host' = host - 1
  BY ReportAssumption DEF Shape, Receive, Goes, Host
<1>2. count' \in Counts  BY <1>1, ReportAssumption DEF Receive, Counting, Counts
<1>3. IsSeries(series', Len(names))  BY NewSeriesIs DEF Receive
<1>4. agg' = agg
  <2>1. message = Serialize(agg) /\ IsAggregate(agg, Len(names)) /\ Len(names) \in Nat
    BY NamesAre DEF Shape, Receive, Goes, Held
  <2>2. agg' = Deserialize(message, Len(names))  BY DEF Receive
  <2> QED BY <2>1, <2>2, RoundTrip
<1>5. pc' = "initial" /\ UNCHANGED <<detailed, names, pushed, failed, events>>
  BY DEF Receive, Goes
<1> QED BY <1>1, <1>2, <1>3, <1>4, <1>5 DEF Shape, Measuring

(* A counter moves: a level may fall.                                        *)
Move(n, c) == Event(n, c) \/ (c \in Levels /\ Fall(n, c))
LEMMA MoveIs ==
  ASSUME Shape, NEW n \in Nic, NEW c \in Counter, Move(n, c)
  PROVE  /\ UNCHANGED <<host, pc, detailed, names, start, initial, series, agg,
                        message, pushed, moved, sampled, failed>>
         /\ pc \in Measuring
         /\ events' = events + 1 /\ events' \in 0..MaxEvents
         /\ count' \in Counts
         /\ \A m \in Nic, d \in Steady : count'[m][d] = count[m][d] \/ 
              (m = n /\ d = c /\ count'[m][d] = count[m][d] + 1)
<1>1. /\ UNCHANGED <<host, pc, detailed, names, start, initial, series, agg,
                     message, pushed, moved, sampled, failed>>
      /\ Running /\ events' = events + 1
  BY DEF Move, Event, Fall
<1>2. pc \in Measuring  BY <1>1 DEF Running, Measuring
<1>3. events' \in 0..MaxEvents
  <2>1. Cardinality(failed) \in Nat  BY FS_CardinalityType DEF Shape
  <2>2. events + Cardinality(failed) < MaxEvents  BY <1>1 DEF Running
  <2>3. events \in 0..MaxEvents /\ MaxEvents \in Nat  BY ReportAssumption DEF Shape
  <2> QED BY <1>1, <2>1, <2>2, <2>3
<1>4. count \in Counts  BY DEF Shape
<1>5. CASE Event(n, c)
  <2>1. count' = [count EXCEPT ![n][c] = @ + 1]  BY <1>5 DEF Event
  <2>2. count' \in Counts  BY <1>4, <2>1 DEF Counts
  <2>3. \A m \in Nic, d \in Counter : count'[m][d] = count[m][d] \/ 
              (m = n /\ d = c /\ count'[m][d] = count[m][d] + 1)
    BY <1>4, <2>1 DEF Counts
  <2> QED BY <1>1, <1>2, <1>3, <2>2, <2>3 DEF Steady
<1>6. CASE c \in Levels /\ Fall(n, c)
  <2>1. count' = [count EXCEPT ![n][c] = @ - 1] /\ count[n][c] > 0  BY <1>6 DEF Fall
  <2>2. count' \in Counts  BY <1>4, <2>1 DEF Counts
  <2>3. \A m \in Nic, d \in Steady : count'[m][d] = count[m][d]
    BY <1>4, <1>6, <2>1 DEF Counts, Steady
  <2> QED BY <1>1, <1>2, <1>3, <2>2, <2>3
<1> QED BY <1>5, <1>6 DEF Move

LEMMA MoveShape == ASSUME NEW n \in Nic, NEW c \in Counter PROVE Shape /\ Move(n, c) => Shape'
<1> SUFFICES ASSUME Shape, Move(n, c) PROVE Shape'  OBVIOUS
<1> QED BY MoveIs DEF Shape

(* What a step may be.                                                       *)
LEMMA StepIs ==
  [Next]_vars =>
    \/ UNCHANGED vars \/ Start \/ ReadInitial \/ FirstSample \/ Sample \/ CommandEnds
    \/ LastSample \/ ReadFinal \/ Send \/ Receive
    \/ \E n \in Nic, c \in Counter : Move(n, c)
<1>1. Levels \subseteq Counter  BY ReportAssumption
<1> QED BY <1>1 DEF Next, Move

(* So every step keeps it.                                                   *)
LEMMA NextShape == Shape /\ [Next]_vars => Shape'
<1>1. Shape /\ UNCHANGED vars => Shape'  BY DEF Shape, vars
<1> QED BY <1>1, StepIs, StartShape, ReadInitialShape, SampleShape, CommandEndsShape,
           ReadFinalShape, SendShape, ReceiveShape, MoveShape

(* And it always holds.                                                      *)
LEMMA ShapeAlways == Spec => []Shape
BY InitShape, NextShape, PTL DEF Spec

(* In every behaviour the variables have their types, and every row has one  *)
(* initial and one final value for each selected counter.                    *)
THEOREM TypeCorrectness == Spec => []TypeOK
BY ShapeAlways, ShapeTypes, PTL

(* For any number of nodes, any NICs, files, sources, lists and readings     *)
(* that fail: what a node holds is what the nodes appended.  serialize() and *)
(* deserialize() (zmq_transfer.cpp:13-279) lose nothing on any hop.          *)
THEOREM RowsArrive == Spec => []RowsArriveIntact
<1>1. Shape => RowsArriveIntact  BY DEF Shape, RowsArriveIntact
<1> QED BY <1>1, ShapeAlways, PTL


----------------------------------------------------------------------------
(* The second invariant, Counted: while a node is measured, what its NICs    *)
(* counted since the initial reading, which together is at most the number   *)
(* of events; and the rows, in the order of the chain, have the difference   *)
(* of each node.  Both are said of the counters that rise only and of which  *)
(* no reading failed; the others of a node are lost.                         *)

Lost(readings, h) == {p \in Nic \X Counter : ~Sound(readings, h, p[1], p[2])}
Keeps(lost, c) == \A n \in Nic : <<n, c>> \notin lost

(* What is not lost.                                                         *)
LEMMA NotLost ==
  ASSUME NEW readings, NEW h, NEW n \in Nic, NEW c \in Counter
  PROVE  /\ <<n, c>> \notin Lost(readings, h) <=> Sound(readings, h, n, c)
         /\ <<n, c>> \notin Lost(readings, h) =>
              c \in Steady /\ \A r \in readings : <<r, h, n, c>> \notin failed
<1> DEFINE p == <<n, c>>
<1>1. p \in Nic \X Counter /\ p[1] = n /\ p[2] = c  OBVIOUS
<1> HIDE DEF p
<1>2. p \notin Lost(readings, h) <=> Sound(readings, h, n, c)  BY <1>1 DEF Lost
<1>3. Sound(readings, h, n, c) => c \in Steady /\ \A r \in readings : <<r, h, n, c>> \notin failed
  BY DEF Sound, Steady
<1> QED BY <1>2, <1>3 DEF p

(* Nothing that is lost comes back.                                          *)
LEMMA LostGrows ==
  ASSUME NEW readings, NEW h, failed \subseteq failed'
  PROVE  Lost(readings, h) \subseteq Lost(readings, h)'
<1> SUFFICES ASSUME NEW p \in Lost(readings, h) PROVE p \in Lost(readings, h)'  OBVIOUS
<1>1. p \in Nic \X Counter /\ ~Sound(readings, h, p[1], p[2])  BY DEF Lost
<1>2. ~Sound(readings, h, p[1], p[2])'  BY <1>1 DEF Sound
<1> QED BY <1>1, <1>2 DEF Lost

(* More readings lose more.                                                  *)
LEMMA LostMore ==
  ASSUME NEW few, NEW many, few \subseteq many, NEW h
  PROVE  Lost(few, h) \subseteq Lost(many, h)
<1> SUFFICES ASSUME NEW p \in Lost(few, h) PROVE p \in Lost(many, h)  OBVIOUS
<1>1. p \in Nic \X Counter /\ ~Sound(few, h, p[1], p[2])  BY DEF Lost
<1>2. ~Sound(many, h, p[1], p[2])  BY <1>1 DEF Sound
<1> QED BY <1>1, <1>2 DEF Lost

(* The procid of a node is one less than its number. *)
LEMMA SumByProcid ==
  ASSUME NEW n \in Nat, NEW f \in [1..n -> Int]
  PROVE  SumFunction([p \in 0..(n - 1) |-> f[p + 1]]) = SumFunction(f)
<1> DEFINE a(k) == [x \in 1..k |-> f[x]]
           b(k) == [p \in 0..(k - 1) |-> f[p + 1]]
           T == {k \in Nat : k <= n => SumFunction(a(k)) = SumFunction(b(k))}
<1>a. \A k \in Nat : k <= n => a(k) \in [1..k -> Int] /\ b(k) \in [0..(k - 1) -> Int]
  OBVIOUS
<1>1. 0 \in T
  <2>1. a(0) \in [1..0 -> Int] /\ \A x \in 1..0 : a(0)[x] = 0  OBVIOUS
  <2>2. b(0) \in [{} -> Int] /\ \A x \in {} : b(0)[x] = 0
    <3>1. 0..(0 - 1) = {}  OBVIOUS
    <3> QED BY <3>1
  <2>3. IsFiniteSet(1..0) /\ IsFiniteSet({})  BY FS_Interval, FS_EmptySet
  <2> HIDE DEF a, b
  <2>4. SumFunction(a(0)) = 0  BY <2>1, <2>3, SumZero
  <2>5. SumFunction(b(0)) = 0  BY <2>2, <2>3, SumZero
  <2> QED BY <2>4, <2>5
<1>2. ASSUME NEW k \in Nat, k \in T PROVE k + 1 \in T
  <2> SUFFICES ASSUME k + 1 <= n PROVE SumFunction(a(k + 1)) = SumFunction(b(k + 1))
    OBVIOUS
  <2>1. IsFiniteSet(1..k) /\ IsFiniteSet(0..(k - 1))  BY FS_Interval
  <2>2. 1..(k + 1) = (1..k) \cup {k + 1} /\ k + 1 \notin 1..k  OBVIOUS
  <2>3. 0..((k + 1) - 1) = (0..(k - 1)) \cup {k} /\ k \notin 0..(k - 1)  OBVIOUS
  <2>4. /\ a(k) \in [1..k -> Int] /\ a(k + 1) \in [(1..k) \cup {k + 1} -> Int]
        /\ \A x \in 1..k : a(k)[x] = a(k + 1)[x]
        /\ a(k + 1)[k + 1] = f[k + 1]
    BY <2>2
  <2>5. /\ b(k) \in [0..(k - 1) -> Int] /\ b(k + 1) \in [(0..(k - 1)) \cup {k} -> Int]
        /\ \A x \in 0..(k - 1) : b(k)[x] = b(k + 1)[x]
        /\ b(k + 1)[k] = f[k + 1]
    BY <2>3
  <2>6. SumFunction(a(k)) = SumFunction(b(k))  BY <1>2
  <2> DEFINE a0 == a(k)  a1 == a(k + 1)  b0 == b(k)  b1 == b(k + 1)
             A == 1..k  B == 0..(k - 1)
  <2>10. /\ IsFiniteSet(A) /\ k + 1 \notin A /\ a0 \in [A -> Int] /\ a1 \in [A \cup {k + 1} -> Int]
         /\ \A x \in A : a0[x] = a1[x]
    BY <2>1, <2>2, <2>4
  <2>11. /\ IsFiniteSet(B) /\ k \notin B /\ b0 \in [B -> Int] /\ b1 \in [B \cup {k} -> Int]
         /\ \A x \in B : b0[x] = b1[x]
    BY <2>1, <2>3, <2>5
  <2>13. SumFunction(a0) = SumFunction(b0)  BY <2>6
  <2>14. a1[k + 1] = b1[k]  BY <2>4, <2>5
  <2>12. SumFunction(a0) \in Int  BY <2>10, SumType
  <2> HIDE DEF a, b, a0, a1, b0, b1, A, B
  <2>7. SumFunction(a1) = SumFunction(a0) + a1[k + 1]  
    <3>1. Extends(A, k + 1, a0, a1)  BY <2>10 DEF Extends
    <3> QED BY <3>1, SumExtend
  <2>8. SumFunction(b1) = SumFunction(b0) + b1[k]  
    <3>1. Extends(B, k, b0, b1)  BY <2>11 DEF Extends
    <3> QED BY <3>1, SumExtend
  <2>9. SumFunction(a1) = SumFunction(b1)  BY <2>7, <2>8, <2>13, <2>14
  <2> QED BY <2>9 DEF a1, b1
<1>3. n \in T
  <2> HIDE DEF T
  <2> QED BY <1>1, <1>2, Induction
<1>4. a(n) = f  OBVIOUS
<1> QED BY <1>3, <1>4

(* What has been counted since the initial reading, and that the rows have   *)
(* what the nodes moved.                                                     *)
SinceInitial ==
  /\ start \in Counts
  /\ IsTotal(initial, host, start, names, Lost({"initial"}, host))
  /\ \A n \in Nic, c \in Steady : start[n][c] <= count[n][c]
  /\ \A c \in Steady : Risen(start, count, c) <= events

RowMoved(r, i, list, lost, on) ==
  /\ r.procid = Hosts - i /\ r.hostname = Hosts - i + 1
  /\ \A c \in DOMAIN list : Keeps(lost, list[c]) =>
       Subtract(r.final[c], r.initial[c]) = MovesSum(on, list[c])
Both == {"initial", "final"}
RowIs(i) == RowMoved(agg.rows[i], i, names, Lost(Both, Hosts - i + 1), moved[Hosts - i + 1])
Appended == IF pc \in {"send", "sent", "publish"} THEN Hosts - host + 1 ELSE Hosts - host
RowsMoved ==
  /\ moved \in [Host -> Distances]
  /\ Len(agg.rows) = Appended
  /\ \A i \in DOMAIN agg.rows : RowIs(i)
  /\ pc = "publish" => host = 1

Counted == /\ pc \in Measuring => SinceInitial
           /\ RowsMoved

(* They still have it when something is lost.                                *)
LEMMA RowStill ==
  ASSUME NEW r, NEW i, NEW list, NEW lost, NEW more, lost \subseteq more, NEW on,
         RowMoved(r, i, list, lost, on)
  PROVE  RowMoved(r, i, list, more, on)
BY DEF RowMoved, Keeps
LEMMA RowsStill ==
  ASSUME failed \subseteq failed', UNCHANGED <<names, agg, moved>>, NEW i, RowIs(i)
  PROVE  RowIs(i)'
<1> DEFINE h == Hosts - i + 1
<1>1. Lost(Both, h) \subseteq Lost(Both, h)'  BY LostGrows
<1>2. RowMoved(agg.rows[i], i, names, Lost(Both, h), moved[h])  BY DEF RowIs
<1>3. RowMoved(agg.rows[i], i, names, Lost(Both, h)', moved[h])  BY <1>1, <1>2, RowStill
<1> QED BY <1>3 DEF RowIs

(* So does a total reading.                                                  *)
LEMMA TotalStill ==
  ASSUME NEW total, NEW h, NEW cnt, NEW list, IsNames(list), NEW lost, NEW more,
         \A n \in Nic, c \in Counter : <<n, c>> \in lost => <<n, c>> \in more,
         IsTotal(total, h, cnt, list, lost)
  PROVE  IsTotal(total, h, cnt, list, more)
<1>1. \A i \in DOMAIN list : list[i] \in Counter  BY NamesAre
<1> QED BY <1>1 DEF IsTotal

(* It holds at the start.                                                    *)
LEMMA InitCounted == Init => Counted
<1> SUFFICES ASSUME Init PROVE Counted  OBVIOUS
<1>1. pc = "start" /\ host = Hosts /\ agg = Nothing /\ moved = [h \in Host |-> Untouched]
  BY DEF Init
<1>2. Len(agg.rows) = 0 /\ DOMAIN agg.rows = {}  BY <1>1, EmptyIs DEF Nothing
<1>3. Appended = 0  BY <1>1, ReportAssumption DEF Appended
<1>4. moved \in [Host -> Distances]  BY <1>1 DEF Untouched, Distances
<1> QED BY <1>1, <1>2, <1>3, <1>4 DEF Counted, Measuring, RowsMoved

(* No node has a row before counters are selected.                           *)
LEMMA StartCounted == Shape /\ Counted /\ Start => Counted'
<1> SUFFICES ASSUME Shape, Counted, Start PROVE Counted'  OBVIOUS
<1>1. pc = "start" /\ agg = Nothing  BY DEF Start, Shape
<1>2. pc' \in {"refused", "initial"}  BY DEF Start
<1>3. UNCHANGED <<host, agg, moved>>  BY DEF Start
<1>4. DOMAIN agg.rows = {}  BY <1>1, EmptyIs DEF Nothing
<1>5. Appended' = Appended  BY <1>1, <1>2, <1>3 DEF Appended
<1> QED BY <1>2, <1>3, <1>4, <1>5 DEF Counted, Measuring, RowsMoved

(* At a reading nothing was counted since.                                   *)
LEMMA NothingRisen ==
  ASSUME NEW cnt \in Counts, NEW c \in Counter
  PROVE  Risen(cnt, cnt, c) = 0
<1> DEFINE z == [n \in Nic |-> cnt[n][c] - cnt[n][c]]
<1>1. z \in [Nic -> Int] /\ \A n \in Nic : z[n] = 0  BY DEF Counts
<1>2. IsFiniteSet(Nic)  BY ReportAssumption
<1>3. Risen(cnt, cnt, c) = SumFunction(z)  BY DEF Risen
<1> HIDE DEF z
<1> QED BY <1>1, <1>2, <1>3, SumZero

(* The initial reading is of the counters as they are.                       *)
LEMMA ReadInitialCounted == Shape /\ Counted /\ ReadInitial => Counted'
<1> SUFFICES ASSUME Shape, Counted, ReadInitial PROVE Counted'  OBVIOUS
<1>1. pc = "initial" /\ pc' \in {"first", "command"}  BY DEF ReadInitial, Goes
<1>2. UNCHANGED <<host, names, count, agg, moved, events>> /\ start' = count
  BY DEF ReadInitial
<1>3. PICK failing \in Failures : /\ initial' = Total(Files(failing), names)
                                  /\ failed' = failed \cup Failed("initial", failing)
  BY DEF ReadInitial
<1>4. count \in Counts /\ events \in Nat /\ IsNames(names)  BY ReportAssumption DEF Shape
<1>5. IsTotal(initial', host, count, names, Lost({"initial"}, host)') /\ failed \subseteq failed'
  <2>1. PICK wrong : /\ IsTotal(initial', host, count, names, wrong)
                     /\ \A p \in wrong : <<"initial", host, p[1], p[2]>> \in failed'
    BY <1>3, TotalRead
  <2>2. ASSUME NEW n \in Nic, NEW c \in Counter, <<n, c>> \in wrong
        PROVE  <<n, c>> \in Lost({"initial"}, host)'
    <3>1. <<"initial", host, n, c>> \in failed'
      <4> DEFINE p == <<n, c>>
      <4>1. p \in wrong /\ p[1] = n /\ p[2] = c  BY <2>2
      <4> HIDE DEF p
      <4> QED BY <4>1, <2>1
    <3>2. "initial" \in {"initial"}  OBVIOUS
    <3> QED BY <3>1, <3>2, <1>2 DEF Lost, Sound
  <2> QED BY <1>3, <1>4, <2>1, <2>2, TotalStill
<1>6. SinceInitial'
  <2>1. \A n \in Nic, c \in Steady : count[n][c] <= count[n][c]  BY <1>4 DEF Counts, Steady
  <2>2. \A c \in Steady : Risen(count, count, c) <= events  BY <1>4, NothingRisen DEF Steady
  <2>3. IsTotal(initial, host, start, names, Lost({"initial"}, host))'  BY <1>2, <1>5
  <2> QED BY <1>2, <1>4, <2>1, <2>2, <2>3 DEF SinceInitial
<1>7. RowsMoved'
  <2>1. Appended' = Appended  BY <1>1, <1>2 DEF Appended
  <2>2. \A i \in DOMAIN agg.rows : RowIs(i)'  BY <1>2, <1>5, RowsStill DEF Counted, RowsMoved
  <2> QED BY <1>1, <1>2, <2>1, <2>2 DEF Counted, RowsMoved
<1> QED BY <1>6, <1>7 DEF Counted

(* The steps that count nothing and append nothing.                          *)
LEMMA QuietCounted ==
  ASSUME Shape, Counted, UNCHANGED <<host, names, count, start, initial, agg, moved, events>>,
         failed \subseteq failed',
         \/ UNCHANGED pc
         \/ pc \in Measuring /\ pc' \in Measuring
         \/ pc = "send" /\ pc' = "sent"
  PROVE  Counted'
<1>1. Appended' = Appended /\ (pc' = "publish" => pc = "publish")
  BY DEF Appended, Measuring
<1>2. pc' \in Measuring => pc \in Measuring  BY DEF Measuring
<1>3. \A i \in DOMAIN agg.rows : RowIs(i)'  BY RowsStill DEF Counted, RowsMoved
<1>4. ASSUME SinceInitial PROVE SinceInitial'
  <2>1. Lost({"initial"}, host) \subseteq Lost({"initial"}, host)'  BY LostGrows
  <2>2. IsTotal(initial, host, start, names, Lost({"initial"}, host)) /\ IsNames(names)
    BY <1>4 DEF SinceInitial, Shape
  <2>3. IsTotal(initial, host, start, names, Lost({"initial"}, host)')
    BY <2>1, <2>2, TotalStill
  <2>4. IsTotal(initial, host, start, names, Lost({"initial"}, host))'  BY <2>3
  <2> QED BY <1>4, <2>4 DEF SinceInitial
<1> QED BY <1>1, <1>2, <1>3, <1>4 DEF Counted, RowsMoved

(* Samples do not count,                                                     *)
LEMMA SampleCounted == Shape /\ Counted /\ (FirstSample \/ Sample \/ LastSample) => Counted'
<1> SUFFICES ASSUME Shape, Counted, FirstSample \/ Sample \/ LastSample PROVE Counted'
  OBVIOUS
<1>1. UNCHANGED <<host, names, count, start, initial, agg, moved, events>>
  BY DEF FirstSample, Sample, LastSample
<1>2. pc \in Measuring /\ pc' \in Measuring
  BY DEF FirstSample, Sample, LastSample, Goes, Measuring
<1>3. failed \subseteq failed'  BY SampleTaken
<1> QED BY <1>1, <1>2, <1>3, QuietCounted

(* nor does the end of the command,                                          *)
LEMMA CommandEndsCounted == Shape /\ Counted /\ CommandEnds => Counted'
<1> SUFFICES ASSUME Shape, Counted, CommandEnds PROVE Counted'  OBVIOUS
<1>1. pc \in Measuring /\ pc' \in Measuring  BY DEF CommandEnds, Goes, Measuring
<1> QED BY <1>1, QuietCounted DEF CommandEnds

(* or a message.                                                             *)
LEMMA SendCounted == Shape /\ Counted /\ Send => Counted'
BY QuietCounted DEF Send, Goes

(* A node without NICs moves nothing.                                        *)
LEMMA NoNics ==
  ASSUME Nic = {}, NEW from, NEW to, NEW c
  PROVE  Risen(from, to, c) = 0
<1> DEFINE z == [n \in Nic |-> to[n][c] - from[n][c]]
<1>1. z \in [Nic -> Int] /\ \A n \in Nic : z[n] = 0  OBVIOUS
<1>2. IsFiniteSet(Nic)  BY ReportAssumption
<1>3. Risen(from, to, c) = SumFunction(z)  BY DEF Risen
<1> HIDE DEF z
<1> QED BY <1>1, <1>2, <1>3, SumZero

(* The difference of a counter of which neither total reading failed.        *)
LEMMA DifferenceIs ==
  ASSUME Shape, SinceInitial, NEW lost, NEW final, IsTotal(final, host, count, names, lost),
         Lost({"initial"}, host) \subseteq lost, NEW c \in DOMAIN names, Keeps(lost, names[c]),
         names[c] \in Steady \/ Nic = {}
  PROVE  Subtract(final[c], initial[c]) = MovesSum(Moves(host, start, count), names[c])
<1> DEFINE d == names[c]
<1>1. host \in Host /\ count \in Counts /\ start \in Counts /\ d \in Counter
  BY NamesAre DEF Shape, SinceInitial
<1>2. /\ final[c] = SeenSum(host, count, d)
      /\ initial[c] = SeenSum(host, start, d)
  BY DEF SinceInitial, IsTotal, Keeps
<1>3. (\A n \in Nic : start[n][d] <= count[n][d]) /\ Risen(start, count, d) < Modulus
  <2>1. events \in 0..MaxEvents /\ MaxEvents < Modulus /\ MaxEvents \in Nat /\ Modulus \in Nat \ {0}
    BY ReportAssumption, SummaryAssumption DEF Shape
  <2>2. CASE d \in Steady
    <3>1. (\A n \in Nic : start[n][d] <= count[n][d]) /\ Risen(start, count, d) <= events
      BY <2>2 DEF SinceInitial
    <3>2. Risen(start, count, d) \in Int
      <4> DEFINE z == [n \in Nic |-> count[n][d] - start[n][d]]
      <4>1. z \in [Nic -> Int]  BY <1>1 DEF Counts
      <4>2. Risen(start, count, d) = SumFunction(z)  BY DEF Risen
      <4> HIDE DEF z
      <4> QED BY <4>1, <4>2, SumType, ReportAssumption
    <3> QED BY <2>1, <3>1, <3>2
  <2>3. CASE Nic = {}
    <3>1. Risen(start, count, d) = 0  BY <2>3, NoNics
    <3> QED BY <2>1, <2>3, <3>1
  <2> QED BY <2>2, <2>3
<1> HIDE DEF d
<1>4. Subtract(SeenSum(host, count, d), SeenSum(host, start, d)) =
        MovesSum(Moves(host, start, count), d)
  BY <1>1, <1>3, TotalsDiffer
<1> QED BY <1>2, <1>4 DEF d

(* A level is lost.                                                          *)
LEMMA LostLevels ==
  ASSUME NEW readings, NEW h, NEW n \in Nic, NEW c \in Counter,
         <<n, c>> \notin Lost(readings, h)'
  PROVE  c \in Steady
<1> DEFINE p == <<n, c>>
<1>1. p \in Nic \X Counter /\ p[1] = n /\ p[2] = c  OBVIOUS
<1> HIDE DEF p
<1>2. p \notin Lost(readings, h)'  BY DEF p
<1>3. p[2] \notin Levels  BY <1>1, <1>2 DEF Lost, Sound
<1> QED BY <1>1, <1>3 DEF Steady

(* The final reading: the row has what moved, although NICs wrap around and  *)
(* files are missing.                                                        *)
LEMMA ReadFinalCounted == Shape /\ Counted /\ ReadFinal => Counted'
<1> SUFFICES ASSUME Shape, Counted, ReadFinal PROVE Counted'  OBVIOUS
<1>p. PICK failing \in Failures :
        /\ agg' = Push(agg, Total(Files(failing), names))
        /\ failed' = failed \cup Failed("final", failing)
  BY DEF ReadFinal
<1> DEFINE f == Total(Files(failing), names)
           r == Row(f)
           R == agg.rows
           lost == Lost(Both, host)'
           on == Moves(host, start, count)
<1>1. /\ pc = "final" /\ pc' = IF host = 1 THEN "publish" ELSE "send"
      /\ UNCHANGED <<host, names>>
  BY DEF ReadFinal, Goes
<1>2. /\ host \in Host /\ count \in Counts /\ IsNames(names) /\ IsSeq(R)
      /\ DOMAIN R = 1..Len(R) /\ Len(R) = Hosts - host /\ Hosts \in Nat
      /\ \A i \in DOMAIN R : RowIs(i)
      /\ moved \in [Host -> Distances]
  BY <1>1, Elements, ReportAssumption
     DEF Shape, Held, IsAggregate, Counted, RowsMoved, Appended
<1>3. agg'.rows = Append(R, r)  BY <1>p DEF Push
<1>4. r.procid = host - 1 /\ r.hostname = host /\ r.initial = initial /\ r.final = f
  BY DEF Row
<1>5. SinceInitial  BY <1>1 DEF Counted, Measuring
<1>6. moved' = [moved EXCEPT ![host] = on]  BY SinceIs DEF ReadFinal
<1>7. failed \subseteq failed'  BY <1>p
<1>8. IsTotal(f, host, count, names, lost)
  <2>1. PICK wrong : /\ IsTotal(f, host, count, names, wrong)
                     /\ \A p \in wrong : <<"final", host, p[1], p[2]>> \in failed'
    BY <1>p, TotalRead
  <2> HIDE DEF f
  <2>2. ASSUME NEW n \in Nic, NEW c \in Counter, <<n, c>> \in wrong
        PROVE  <<n, c>> \in lost
    <3>1. <<"final", host, n, c>> \in failed'
      <4> DEFINE p == <<n, c>>
      <4>1. p \in wrong /\ p[1] = n /\ p[2] = c  BY <2>2
      <4> HIDE DEF p
      <4> QED BY <4>1, <2>1
    <3>2. "final" \in Both  BY DEF Both
    <3> QED BY <3>1, <3>2, <1>1 DEF Lost, Sound
  <2> HIDE DEF lost
  <2> QED BY <1>2, <2>1, <2>2, TotalStill
<1>9. Lost({"initial"}, host) \subseteq lost
  <2>1. Lost({"initial"}, host) \subseteq Lost(Both, host)  BY LostMore DEF Both
  <2>2. Lost(Both, host) \subseteq Lost(Both, host)'  BY <1>1, <1>7, LostGrows
  <2> QED BY <2>1, <2>2
<1>10. ASSUME NEW c \in DOMAIN names, Keeps(lost, names[c])
       PROVE  Subtract(r.final[c], r.initial[c]) = MovesSum(on, names[c])
  <2>1. names[c] \in Steady \/ Nic = {}
    <3> SUFFICES ASSUME NEW n \in Nic PROVE names[c] \in Steady  OBVIOUS
    <3>1. <<n, names[c]>> \notin lost /\ names[c] \in Counter  BY <1>2, <1>10, NamesAre DEF Keeps
    <3> QED BY <3>1, <1>1, LostLevels
  <2> HIDE DEF f, lost, on
  <2>2. Subtract(f[c], initial[c]) = MovesSum(Moves(host, start, count), names[c])
    BY <1>5, <1>8, <1>9, <1>10, <2>1, DifferenceIs
  <2> QED BY <2>2, <1>4 DEF on
<1>11. on \in Distances
  <2>1. \A n \in Nic, c \in Counter : count[n][c] \in Nat /\ start[n][c] \in Nat
    BY <1>2, <1>5 DEF Counts, SinceInitial
  <2> QED BY <2>1 DEF Moves, Distances
<1> HIDE DEF on, r, f
<1>12. /\ moved' \in [Host -> Distances] /\ moved'[host] = on
       /\ \A h \in Host \ {host} : moved'[h] = moved[h]
  BY <1>2, <1>6, <1>11
<1>13. /\ Len(agg'.rows) = Len(R) + 1 /\ DOMAIN agg'.rows = 1..(Len(R) + 1)
       /\ \A i \in 1..Len(R) : agg'.rows[i] = R[i]
       /\ agg'.rows[Len(R) + 1] = r
  BY <1>2, <1>3, AppendIs DEF R
<1>14. Appended' = Hosts - host + 1 /\ (pc' = "publish" => host' = 1)
  BY <1>1 DEF Appended
<1>15. ASSUME NEW i \in DOMAIN agg'.rows PROVE RowIs(i)'
  <2> DEFINE h == Hosts - i + 1
  <2>1. CASE i \in 1..Len(R)
    <3>1. agg'.rows[i] = R[i]  BY <2>1, <1>13
    <3>2. RowMoved(R[i], i, names, Lost(Both, h), moved[h])  BY <2>1, <1>2 DEF RowIs
    <3>3. h \in Host \ {host}  BY <2>1, <1>2 DEF Host
    <3>4. moved'[h] = moved[h]  BY <3>3, <1>12
    <3>5. Lost(Both, h) \subseteq Lost(Both, h)'  BY <1>7, LostGrows
    <3>6. RowMoved(R[i], i, names, Lost(Both, h)', moved[h])  BY <3>2, <3>5, RowStill
    <3> QED BY <3>1, <3>4, <3>6, <1>1 DEF RowIs
  <2>2. CASE i = Len(R) + 1
    <3>1. agg'.rows[i] = r  BY <2>2, <1>13
    <3>2. Hosts - i = host - 1 /\ h = host  BY <2>2, <1>2 DEF Host
    <3> HIDE DEF lost, R, h
    <3>3. RowMoved(r, i, names, lost, on)
      <4>1. r.procid = Hosts - i /\ r.hostname = Hosts - i + 1
        BY <3>2, <1>4 DEF h
      <4> QED BY <4>1, <1>10 DEF RowMoved
    <3>4. RowMoved(agg'.rows[i], i, names', lost, moved'[host])  BY <3>1, <3>3, <1>1, <1>12
    <3>5. RowMoved(agg.rows[i], i, names, Lost(Both, host), moved[host])'
      BY <3>4, <1>1 DEF lost
    <3>6. Hosts - i + 1 = host'  BY <3>2, <1>1 DEF h
    <3> QED BY <3>5, <3>6 DEF RowIs
  <2> QED BY <2>1, <2>2, <1>13, <1>2
<1>16. RowsMoved'
  <2>1. Len(agg'.rows) = Appended'  BY <1>2, <1>13, <1>14
  <2> QED BY <1>1, <1>12, <1>14, <1>15, <2>1 DEF RowsMoved
<1>17. pc' \notin Measuring  BY <1>1 DEF Measuring
<1> QED BY <1>16, <1>17 DEF Counted

(* The next node has the rows it was sent.                                   *)
LEMMA ReceiveCounted == Shape /\ Counted /\ Receive => Counted'
<1> SUFFICES ASSUME Shape, Counted, Receive PROVE Counted'  OBVIOUS
<1>1. /\ pc = "sent" /\ pc' = "initial" /\ host' = host - 1
      /\ UNCHANGED <<names, moved, failed>>
  BY DEF Receive, Goes
<1>2. agg' = agg
  <2>1. Shape'  BY ReceiveShape
  <2>2. agg = pushed /\ agg' = pushed' /\ pushed' = pushed  BY <2>1 DEF Shape, Receive
  <2> QED BY <2>2
<1>3. Appended' = Appended
  <2>1. host \in Int /\ Hosts \in Int  BY ReportAssumption DEF Shape, Host
  <2> QED BY <1>1, <2>1 DEF Appended
<1>4. \A i \in DOMAIN agg.rows : RowIs(i)'
  BY <1>1, <1>2, RowsStill DEF Counted, RowsMoved
<1>5. RowsMoved'
  BY <1>1, <1>2, <1>3, <1>4 DEF Counted, RowsMoved
<1> QED BY <1>1, <1>5 DEF Counted, Measuring

(* A counter that moves once moves the sum over the NICs by at most one.     *)
LEMMA OneRisen ==
  ASSUME NEW from \in Counts, NEW to \in Counts, NEW next \in Counts, NEW n \in Nic,
         NEW d \in Counter,
         \A m \in Nic : next[m][d] = to[m][d] \/ (m = n /\ next[m][d] = to[m][d] + 1)
  PROVE  Risen(from, next, d) <= Risen(from, to, d) + 1
<1> DEFINE o == [m \in Nic |-> IF m = n THEN 1 ELSE 0]
           u == [m \in {n} |-> 1]
           z == [m \in {} |-> 0]
           t == [m \in Nic |-> to[m][d] - from[m][d]]
           s == [m \in Nic |-> t[m] + o[m]]
           x == [m \in Nic |-> next[m][d] - from[m][d]]
<1>1. IsFiniteSet(Nic)  BY ReportAssumption
<1>2. \A m \in Nic : from[m][d] \in Nat /\ to[m][d] \in Nat  BY DEF Counts
<1>3. \A m \in Nic : next[m][d] \in Int /\ next[m][d] <= to[m][d] + o[m]
  BY <1>2
<1>4. /\ o \in [Nic -> Int] /\ u \in [{n} -> Int] /\ t \in [Nic -> Int] /\ s \in [Nic -> Int]
      /\ x \in [Nic -> Int] /\ z \in [{} -> Int] 
  BY <1>2, <1>3
<1>5. \A m \in Nic : x[m] <= s[m]  BY <1>2, <1>3
<1>6. \A m \in Nic : s[m] = t[m] + o[m]  OBVIOUS
<1>7. Risen(from, to, d) = SumFunction(t) /\ Risen(from, next, d) = SumFunction(x)
  BY DEF Risen
<1>8. /\ \A m \in {n} : u[m] = o[m]
      /\ \A m \in Nic \ {n} : o[m] = 0
      /\ u[n] = 1 /\ {} \cup {n} = {n} /\ n \notin {} /\ \A m \in {} : z[m] = u[m]
      /\ \A m \in {} : z[m] = 0
  OBVIOUS
<1> HIDE DEF o, u, z, t, s, x
<1>9. SumFunction(x) <= SumFunction(s)  BY <1>1, <1>4, <1>5, SumAtMost
<1>10. SumFunction(s) = SumFunction(t) + SumFunction(o)
  <2>1. t \in [Nic -> Int] /\ o \in [Nic -> Int] /\ s \in [Nic -> Int]  BY <1>4
  <2> QED BY <1>1, <1>6, <2>1, SumPlus, SMTT(30)
<1>11. SumFunction(o) = SumFunction(u)
  <2>1. Agree(Nic, o, {n}, u)  BY <1>1, <1>4, <1>8 DEF Agree
  <2> QED BY <2>1, SumsAgree
<1>12. SumFunction(u) = 1
  <2>1. IsFiniteSet({})  BY FS_EmptySet
  <2>2. SumFunction(u) = SumFunction(z) + u[n]
    <3>1. Extends({}, n, z, u)  BY <2>1, <1>4, <1>8 DEF Extends
    <3> QED BY <3>1, SumExtend
  <2>3. SumFunction(z) = 0  BY <2>1, <1>4, <1>8, SumZero
  <2> QED BY <2>2, <2>3, <1>8
<1>13. SumFunction(x) \in Int /\ SumFunction(s) \in Int /\ SumFunction(t) \in Int
  BY <1>1, <1>4, SumType
<1> QED BY <1>7, <1>9, <1>10, <1>11, <1>12, <1>13

(* A counter moves: none that only rises counts backwards, and all together  *)
(* have not counted more than there were events.                             *)
LEMMA MoveCounted ==
  ASSUME NEW n \in Nic, NEW c \in Counter, Shape, Counted, Move(n, c)
  PROVE  Counted'
<1>1. /\ UNCHANGED <<host, pc, detailed, names, start, initial, series, agg,
                     message, pushed, moved, sampled, failed>>
      /\ pc \in Measuring /\ events' = events + 1 /\ count' \in Counts
      /\ \A m \in Nic, d \in Steady : count'[m][d] = count[m][d] \/ 
           (m = n /\ d = c /\ count'[m][d] = count[m][d] + 1)
  BY MoveIs
<1>2. /\ SinceInitial /\ count \in Counts /\ start \in Counts /\ events \in Nat
  BY <1>1, ReportAssumption DEF Counted, SinceInitial, Shape
<1>3. \A m \in Nic, d \in Steady : start[m][d] <= count'[m][d]
  <2> SUFFICES ASSUME NEW m \in Nic, NEW d \in Steady PROVE start[m][d] <= count'[m][d]
    OBVIOUS
  <2>1. start[m][d] <= count[m][d] /\ start[m][d] \in Nat /\ count[m][d] \in Nat
    BY <1>2 DEF SinceInitial, Counts, Steady
  <2>2. count'[m][d] = count[m][d] \/ count'[m][d] = count[m][d] + 1  BY <1>1
  <2> QED BY <2>1, <2>2
<1>4. \A d \in Steady : Risen(start, count', d) <= events'
  <2> SUFFICES ASSUME NEW d \in Steady PROVE Risen(start, count', d) <= events'  OBVIOUS
  <2>0. d \in Counter  BY DEF Steady
  <2>1. Risen(start, count', d) <= Risen(start, count, d) + 1
    <3>1. \A m \in Nic : count'[m][d] = count[m][d] \/ (m = n /\ count'[m][d] = count[m][d] + 1)
      BY <1>1
    <3> QED BY <1>1, <1>2, <2>0, <3>1, OneRisen
  <2>2. Risen(start, count, d) <= events  BY <1>2 DEF SinceInitial
  <2>3. Risen(start, count, d) \in Int /\ Risen(start, count', d) \in Int
    <3>3. /\ [m \in Nic |-> count[m][d] - start[m][d]] \in [Nic -> Int]
          /\ [m \in Nic |-> count'[m][d] - start[m][d]] \in [Nic -> Int]
      BY <1>1, <1>2, <2>0 DEF Counts
    <3> QED BY <3>3, SumType, ReportAssumption DEF Risen
  <2> QED BY <2>1, <2>2, <2>3, <1>1, <1>2
<1>5. SinceInitial'
  <2>1. IsTotal(initial, host, start, names, Lost({"initial"}, host))  BY <1>2 DEF SinceInitial
  <2>2. Lost({"initial"}, host)' = Lost({"initial"}, host)  BY <1>1 DEF Lost, Sound
  <2>3. IsTotal(initial, host, start, names, Lost({"initial"}, host))'  BY <2>1, <2>2, <1>1
  <2> QED BY <1>1, <1>2, <1>3, <1>4, <2>3 DEF SinceInitial
<1>6. RowsMoved'
  <2>1. \A i \in DOMAIN agg.rows : RowIs(i)'  BY <1>1, RowsStill DEF Counted, RowsMoved
  <2>2. Appended' = Appended  BY <1>1 DEF Appended
  <2> QED BY <1>1, <2>1, <2>2 DEF Counted, RowsMoved
<1> QED BY <1>5, <1>6 DEF Counted

(* So every step keeps it.                                                   *)
LEMMA NextCounted == Shape /\ Counted /\ [Next]_vars => Counted'
<1>1. ASSUME Shape, Counted, UNCHANGED vars PROVE Counted'
  <2>1. /\ UNCHANGED <<host, names, count, start, initial, agg, moved, events>>
        /\ UNCHANGED pc /\ failed \subseteq failed'
    BY <1>1 DEF vars
  <2> QED BY <1>1, <2>1, QuietCounted
<1> QED BY <1>1, StepIs, StartCounted, ReadInitialCounted, SampleCounted,
           CommandEndsCounted, ReadFinalCounted, SendCounted, ReceiveCounted, MoveCounted

(* And it always holds.                                                      *)
LEMMA CountedAlways == Spec => []Counted
BY InitCounted, NextCounted, ShapeAlways, PTL DEF Spec

----------------------------------------------------------------------------
(* The summary.                                                              *)

(* A difference is not negative.                                             *)
LEMMA SubtractType == \A a, b \in Nat : Subtract(a, b) \in Nat
<1> SUFFICES ASSUME NEW a \in Nat, NEW b \in Nat PROVE Subtract(a, b) \in Nat  OBVIOUS
<1>1. /\ a % Modulus \in 0..(Modulus - 1) /\ b % Modulus \in 0..(Modulus - 1)
      /\ Modulus \in Nat
  BY RemainderType, SummaryAssumption
<1> QED BY <1>1 DEF Subtract

(* What is sound of every NIC of a node is not lost.                         *)
LEMMA SoundKeeps ==
  ASSUME NEW readings, NEW h, NEW c \in Counter, \A n \in Nic : Sound(readings, h, n, c)
  PROVE  Keeps(Lost(readings, h), c)
<1>1. \A n \in Nic : <<n, c>> \notin Lost(readings, h)  BY NotLost
<1> QED BY <1>1 DEF Keeps

(* At the end there is one row of each node, by its procid.                  *)
LEMMA RowsAtTheEnd ==
  ASSUME Shape, Counted, pc = "publish"
  PROVE  /\ Hosts \in Nat \ {0} /\ Host = 1..Hosts /\ IsNames(names)
         /\ moved \in [Host -> Distances]
         /\ Len(agg.rows) = Hosts /\ DOMAIN agg.rows = 1..Hosts
         /\ \A i \in 1..Hosts :
              /\ RowIs(i)
              /\ agg.rows[i].procid = Hosts - i
              /\ \A c \in DOMAIN names : agg.rows[i].final[c] \in Nat /\ agg.rows[i].initial[c] \in Nat
<1> DEFINE R == agg.rows
<1>1. /\ IsSeq(R) /\ host = 1 /\ Len(R) = Appended /\ Hosts \in Nat \ {0} /\ Host = 1..Hosts
      /\ IsNames(names) /\ moved \in [Host -> Distances]
      /\ \A i \in DOMAIN R :
           /\ RowIs(i) /\ R[i].initial \in [1..Len(names) -> Nat]
           /\ R[i].final \in [1..Len(names) -> Nat]
  BY ReportAssumption DEF Shape, Held, IsAggregate, Counted, RowsMoved, Host
<1>2. Appended = Hosts  BY <1>1 DEF Appended
<1>3. \A i : RowIs(i) => R[i].procid = Hosts - i  BY DEF RowIs, RowMoved
<1>4. DOMAIN names = 1..Len(names)  BY <1>1, NamesAre
<1> HIDE DEF R
<1>5. DOMAIN R = 1..Hosts  BY <1>1, <1>2, Elements
<1>6. \A i \in 1..Hosts : \A c \in DOMAIN names : R[i].final[c] \in Nat /\ R[i].initial[c] \in Nat
  BY <1>1, <1>4, <1>5
<1> QED BY <1>1, <1>2, <1>3, <1>5, <1>6 DEF R

(* So get_counter_stats() has one difference of each node,                   *)
LEMMA DifferencesAre ==
  ASSUME Shape, Counted, pc = "publish", NEW c \in DOMAIN names
  PROVE  /\ DOMAIN Differences(agg.rows, c) = 0..(Hosts - 1)
         /\ Differences(agg.rows, c) =
              [p \in 0..(Hosts - 1) |->
                 Subtract(agg.rows[Hosts - p].final[c], agg.rows[Hosts - p].initial[c])]
<1> DEFINE R == agg.rows
           S == ToSet(R)
           row(p) == CHOOSE r \in S : r.procid = p
<1>1. /\ Hosts \in Nat \ {0} /\ DOMAIN R = 1..Hosts
      /\ \A i \in 1..Hosts : R[i].procid = Hosts - i
  BY RowsAtTheEnd
<1>2. S = {R[i] : i \in 1..Hosts}  BY <1>1 DEF ToSet
<1>3. Differences(R, c) =
        [p \in {r.procid : r \in S} |-> Subtract(row(p).final[c], row(p).initial[c])]
  BY DEF Differences
<1> HIDE DEF R, S
<1>4. {r.procid : r \in S} = 0..(Hosts - 1)
  <2>1. \A r \in S : r.procid \in 0..(Hosts - 1)  BY <1>1, <1>2
  <2>2. ASSUME NEW p \in 0..(Hosts - 1) PROVE \E r \in S : r.procid = p
    <3>1. Hosts - p \in 1..Hosts /\ Hosts - (Hosts - p) = p  BY <1>1
    <3> QED BY <3>1, <1>1, <1>2
  <2> QED BY <2>1, <2>2
<1>5. ASSUME NEW p \in 0..(Hosts - 1) PROVE row(p) = R[Hosts - p]
  <2>1. Hosts - p \in 1..Hosts /\ Hosts - (Hosts - p) = p  BY <1>1
  <2>2. R[Hosts - p] \in S /\ R[Hosts - p].procid = p  BY <2>1, <1>1, <1>2
  <2>3. \A r \in S : r.procid = p => r = R[Hosts - p]
    <3> SUFFICES ASSUME NEW i \in 1..Hosts, R[i].procid = p PROVE R[i] = R[Hosts - p]
      BY <1>2
    <3>1. Hosts \in Nat /\ i \in Nat /\ p \in Nat  BY <1>1
    <3>2. p = Hosts - i  BY <1>1
    <3>3. i = Hosts - p  BY <3>1, <3>2
    <3> QED BY <3>3
  <2> QED BY <2>2, <2>3
<1> HIDE DEF row
<1>6. Differences(R, c) = [p \in 0..(Hosts - 1) |-> Subtract(row(p).final[c], row(p).initial[c])]
  BY <1>3, <1>4
<1>7. Differences(R, c) =
        [p \in 0..(Hosts - 1) |-> Subtract(R[Hosts - p].final[c], R[Hosts - p].initial[c])]
  BY <1>5, <1>6
<1>8. DOMAIN Differences(R, c) = 0..(Hosts - 1)  BY <1>7
<1> QED BY <1>7, <1>8 DEF R

(* which is what the node moved if no reading of it failed.                  *)
LEMMA DifferenceOf ==
  ASSUME Shape, Counted, pc = "publish", NEW c \in DOMAIN names, NEW h \in Host
  PROVE  /\ Differences(agg.rows, c)[h - 1] \in Nat
         /\ (\A n \in Nic : Sound(Both, h, n, names[c])) =>
              Differences(agg.rows, c)[h - 1] = MovesSum(moved[h], names[c])
<1> DEFINE R == agg.rows
           i == Hosts - h + 1
           d == Differences(R, c)
<1>1. /\ Hosts \in Nat /\ Host = 1..Hosts /\ names[c] \in Counter
      /\ \A j \in 1..Hosts : RowIs(j) /\ R[j].final[c] \in Nat /\ R[j].initial[c] \in Nat
  BY RowsAtTheEnd, NamesAre
<1>2. h - 1 \in 0..(Hosts - 1) /\ Hosts - (h - 1) = i /\ i \in 1..Hosts /\ Hosts - i + 1 = h
  BY <1>1
<1>3. d = [p \in 0..(Hosts - 1) |-> Subtract(R[Hosts - p].final[c], R[Hosts - p].initial[c])]
  BY DifferencesAre
<1>4. RowMoved(R[i], i, names, Lost(Both, Hosts - i + 1), moved[Hosts - i + 1])
  BY <1>1, <1>2 DEF RowIs
<1> HIDE DEF R, d, i
<1>5. d[h - 1] = Subtract(R[i].final[c], R[i].initial[c])  BY <1>2, <1>3
<1>6. d[h - 1] \in Nat  BY <1>1, <1>2, <1>5, SubtractType
<1>7. ASSUME \A n \in Nic : Sound(Both, h, n, names[c])
      PROVE  d[h - 1] = MovesSum(moved[h], names[c])
  <2>1. Keeps(Lost(Both, h), names[c])  BY <1>1, <1>7, SoundKeeps
  <2>2. RowMoved(R[i], i, names, Lost(Both, h), moved[h])  BY <1>2, <1>4
  <2> QED BY <1>5, <2>1, <2>2 DEF RowMoved
<1> QED BY <1>6, <1>7 DEF d, R

(* The counters of which no total reading failed, and the statistics of what *)
(* the nodes moved, as SummaryExact has them.                                *)
SoundNames == {c \in ToSet(names) : \A h \in Host, n \in Nic : Sound(Both, h, n, c)}
Node(c) == [h \in Host |-> MovesSum(moved[h], c)]
StatsOf(c) ==
  [min |-> Min(Values(Node(c))), max |-> Max(Values(Node(c))),
   sum |-> SumFunction(Node(c)), count |-> Hosts]
Expected == {<<c, StatsOf(c)>> : c \in {d \in SoundNames : Max(Values(Node(d))) > 0}}

(* get_counter_stats() returns these statistics.                             *)
LEMMA StatsAre ==
  ASSUME Shape, Counted, pc = "publish", NEW c \in DOMAIN names, names[c] \in SoundNames
  PROVE  Node(names[c]) \in [Host -> Nat] /\ Stats(agg.rows, c) = StatsOf(names[c])
<1> DEFINE f == Node(names[c])
           d == Differences(agg.rows, c)
<1>0. Hosts \in Nat \ {0} /\ Host = 1..Hosts  BY RowsAtTheEnd
<1>1. \A h \in Host : d[h - 1] \in Nat /\ d[h - 1] = f[h]
  BY DifferenceOf DEF SoundNames, Node
<1>2. DOMAIN d = 0..(Hosts - 1)  BY DifferencesAre
<1>3. d = [p \in 0..(Hosts - 1) |-> d[p]]  BY DifferencesAre
<1>4. f = [h \in Host |-> f[h]]  BY DEF Node
<1>s. /\ Stats(agg.rows, c) = [min |-> Min(Values(d)), max |-> Max(Values(d)),
                               sum |-> SumFunction(d), count |-> Cardinality(DOMAIN d)]
      /\ StatsOf(names[c]) = [min |-> Min(Values(f)), max |-> Max(Values(f)),
                              sum |-> SumFunction(f), count |-> Hosts]
  BY DEF Stats, StatsOf
<1> HIDE DEF f, d
<1>5. f \in [Host -> Nat]
  <2>1. \A h \in Host : f[h] \in Nat  BY <1>1
  <2> QED BY <1>4, <2>1
<1>6. \A p \in 0..(Hosts - 1) : p + 1 \in Host /\ d[p] = f[p + 1]
  <2> TAKE p \in 0..(Hosts - 1)
  <2>1. p + 1 \in Host /\ (p + 1) - 1 = p  BY <1>0
  <2>2. d[(p + 1) - 1] = f[p + 1]  BY <1>1, <2>1
  <2> QED BY <2>1, <2>2
<1>7. d = [p \in 0..(Hosts - 1) |-> f[p + 1]]  BY <1>3, <1>6
<1>8. Values(d) = Values(f)
  <2>1. \A h \in Host : h - 1 \in 0..(Hosts - 1) /\ d[h - 1] = f[h]  BY <1>0, <1>1
  <2>2. Values(d) = {d[p] : p \in 0..(Hosts - 1)}  BY <1>2 DEF Values
  <2>3. Values(f) = {f[h] : h \in Host}  BY <1>5 DEF Values
  <2> QED BY <2>1, <2>2, <2>3, <1>6
<1>9. SumFunction(d) = SumFunction(f)
  <2>1. f \in [1..Hosts -> Int]  BY <1>0, <1>5
  <2>2. SumFunction([p \in 0..(Hosts - 1) |-> f[p + 1]]) = SumFunction(f)
    BY <1>0, <2>1, SumByProcid
  <2> QED BY <2>2, <1>7
<1>10. Cardinality(DOMAIN d) = Hosts
  <2>1. Hosts - 1 >= 0 /\ Hosts - 1 \in Int  BY <1>0
  <2>2. Cardinality(0..(Hosts - 1)) = (Hosts - 1) - 0 + 1  BY <2>1, FS_Interval
  <2> QED BY <2>2, <1>0, <1>2
<1>11. Stats(agg.rows, c) = StatsOf(names[c])  BY <1>s, <1>8, <1>9, <1>10
<1> QED BY <1>5, <1>11 DEF f

(* A counter moved on some node if, and only if, its sum over the nodes is   *)
(* positive.                                                                 *)
LEMMA MovedMax ==
  ASSUME NEW f \in [Host -> Nat]
  PROVE  Max(Values(f)) > 0 <=> SumFunction(f) > 0
<1>1. IsFiniteSet(Host) /\ 1 \in Host
  <2>1. Hosts \in Nat \ {0} /\ Host = 1..Hosts  BY ReportAssumption DEF Host
  <2>2. IsFiniteSet(1..Hosts)  BY <2>1, FS_Interval
  <2> QED BY <2>1, <2>2
<1>2. Values(f) = {f[h] : h \in Host}  BY DEF Values
<1>3. SumFunction(f) \in Nat /\ \A h \in Host : f[h] <= SumFunction(f)  BY <1>1, SumNat
<1>4. /\ Values(f) \subseteq Nat /\ Values(f) # {}
      /\ \A x \in Values(f) : x <= SumFunction(f)
  BY <1>1, <1>2, <1>3
<1>5. /\ Max(Values(f)) \in Values(f)
      /\ \A x \in Values(f) : Max(Values(f)) >= x
  BY <1>3, <1>4, MaxIs
<1>6. Max(Values(f)) > 0 <=> \E h \in Host : f[h] > 0
  <2>1. ASSUME Max(Values(f)) > 0 PROVE \E h \in Host : f[h] > 0  BY <2>1, <1>2, <1>5
  <2>2. ASSUME NEW h \in Host, f[h] > 0 PROVE Max(Values(f)) > 0
    <3>1. f[h] \in Nat /\ Max(Values(f)) \in Nat /\ Max(Values(f)) >= f[h]
      BY <1>1, <1>2, <1>4, <1>5
    <3> QED BY <2>2, <3>1
  <2> QED BY <2>1, <2>2
<1>7. SumFunction(f) > 0 <=> \E h \in Host : f[h] > 0  BY <1>1, SumPositive
<1> QED BY <1>6, <1>7

(* Of these counters the text table and the JSON object show those that      *)
(* moved, each once or as often with the same value.                         *)
OfSound(lines) == {line \in lines : line[1] \in SoundNames}
LEMMA ShownAre ==
  ASSUME Shape, Counted, pc = "publish"
  PROVE  /\ OfSound(TableRows(names, agg.rows)) = Expected
         /\ LET object == JsonCounters(names, agg.rows)
            IN  OfSound({<<name, object[name]>> : name \in DOMAIN object}) = Expected
<1> DEFINE shown == Shown(names, agg.rows)
           big == {d \in SoundNames : Max(Values(Node(d))) > 0}
           last(name) == Max({c \in shown : names[c] = name})
           object == JsonCounters(names, agg.rows)
           good == {c \in shown : names[c] \in SoundNames}
<1>0. /\ IsNames(names) /\ ToSet(names) = {names[c] : c \in DOMAIN names}
      /\ SoundNames \subseteq ToSet(names)
  BY DEF Shape, ToSet, SoundNames
<1>1. shown = {c \in DOMAIN names : Stats(agg.rows, c).sum > 0}  BY DEF Shown
<1>2. ASSUME NEW c \in DOMAIN names, names[c] \in SoundNames
      PROVE  /\ Stats(agg.rows, c) = StatsOf(names[c])
             /\ Stats(agg.rows, c).sum > 0 <=> names[c] \in big
  <2>1. Node(names[c]) \in [Host -> Nat] /\ Stats(agg.rows, c) = StatsOf(names[c])
    BY <1>2, StatsAre
  <2>2. StatsOf(names[c]).sum = SumFunction(Node(names[c]))  BY DEF StatsOf
  <2>3. Max(Values(Node(names[c]))) > 0 <=> SumFunction(Node(names[c])) > 0
    BY <2>1, MovedMax
  <2> QED BY <1>2, <2>1, <2>2, <2>3
<1>3. big \subseteq SoundNames /\ Expected = {<<d, StatsOf(d)>> : d \in big}  BY DEF Expected
<1>5. TableRows(names, agg.rows) = {<<names[c], Stats(agg.rows, c)>> : c \in shown}
  BY DEF TableRows
<1>7. object = [name \in {names[c] : c \in shown} |-> Stats(agg.rows, last(name))]
  BY DEF JsonCounters
<1> HIDE DEF shown, big, object
<1>4. good = {c \in DOMAIN names : names[c] \in big}  BY <1>1, <1>2, <1>3
<1>6. big = {names[c] : c \in good}
  <2>1. \A d \in big : \E c \in DOMAIN names : names[c] = d  BY <1>0, <1>3
  <2> HIDE DEF good
  <2> QED BY <1>4, <2>1
<1>8. ASSUME NEW name \in big PROVE last(name) \in good /\ names[last(name)] = name
  <2> DEFINE S == {c \in shown : names[c] = name}
  <2>1. Len(names) \in Nat /\ DOMAIN names = 1..Len(names)  BY <1>0, NamesAre
  <2>2. S # {}  BY <1>6
  <2>3. S \subseteq Nat /\ \A c \in S : c <= Len(names)  BY <1>1, <2>1
  <2>4. \A c \in S : c \in good /\ names[c] = name  BY <1>3
  <2> HIDE DEF S, good
  <2>5. Max(S) \in S  BY <2>1, <2>2, <2>3, MaxIs
  <2> QED BY <2>4, <2>5 DEF S
<1>9. \A c \in good : Stats(agg.rows, c) = StatsOf(names[c]) /\ names[c] \in big
  BY <1>1, <1>2, <1>4
<1>10. OfSound(TableRows(names, agg.rows)) = Expected
  <2> DEFINE T == {<<names[c], Stats(agg.rows, c)>> : c \in shown}
  <2>1. OfSound(T) = {<<names[c], Stats(agg.rows, c)>> : c \in good}  BY DEF OfSound
  <2> HIDE DEF T, good
  <2>2. {<<names[c], Stats(agg.rows, c)>> : c \in good} = {<<names[c], StatsOf(names[c])>> : c \in good}
    BY <1>9
  <2>3. {<<names[c], StatsOf(names[c])>> : c \in good} = {<<d, StatsOf(d)>> : d \in big}
    BY <1>6
  <2> QED BY <1>3, <1>5, <2>1, <2>2, <2>3 DEF T
<1>11. OfSound({<<name, object[name]>> : name \in DOMAIN object}) = Expected
  <2> DEFINE T == {<<name, object[name]>> : name \in DOMAIN object}
  <2>1. DOMAIN object = {names[c] : c \in shown}  BY <1>7
  <2>2. OfSound(T) = {<<name, object[name]>> : name \in {x \in DOMAIN object : x \in SoundNames}}
    BY DEF OfSound
  <2>3. {x \in DOMAIN object : x \in SoundNames} = big  BY <2>1, <1>3, <1>6
  <2> HIDE DEF T, last, good
  <2>4. \A name \in big : name \in DOMAIN object  BY <2>3
  <2>5. \A name \in big : object[name] = Stats(agg.rows, last(name))  BY <1>7, <2>1, <2>4
  <2>6. \A name \in big : object[name] = StatsOf(name)  BY <2>5, <1>8, <1>9
  <2>7. OfSound(T) = {<<name, StatsOf(name)>> : name \in big}  BY <2>2, <2>3, <2>6
  <2> QED BY <2>7, <1>3 DEF T
<1> QED BY <1>10, <1>11 DEF object

(* For any number of nodes and NICs, wherever the counters start and         *)
(* whichever wrap around, whatever files are missing and readings fail, at   *)
(* any level, with any list, in any format: of the counters of which no      *)
(* total reading failed the summary has exactly those that moved, with the   *)
(* statistics of what the NICs counted (counter_aggregation.cpp:27-135,      *)
(* counter_collection.cpp:996-1092).                                         *)
THEOREM SummaryCorrect == Spec => []SummaryExact
<1>1. Shape /\ Counted => SummaryExact
  <2> SUFFICES ASSUME Shape, Counted, pc = "publish", NEW format \in Formats, NEW json \in BOOLEAN
      PROVE  OfSound(Printed(format, json, names, agg.rows)) = Expected
    BY DEF SummaryExact, Expected, OfSound, StatsOf, Node, MovesSum, SoundNames, Both
  <2> QED BY ShownAre DEF Printed
<1> QED BY <1>1, ShapeAlways, CountedAlways, PTL

----------------------------------------------------------------------------
(* The samples of a node.                                                    *)

(* Of the samples s: a NIC's intervals of the i-th counter added up, and the *)
(* difference between the first and the last.                                *)
StepsOf(s, n, i) ==
  [j \in 1..(Len(s) - 1) |-> Subtract(s[j + 1].nics[n][i], s[j].nics[n][i])]
Added(s, n, i) == SumFunction(StepsOf(s, n, i))
Across(s, n, i) == Subtract(Last(s).nics[n][i], s[1].nics[n][i])

(* Every sample has all NICs and counters.                                   *)
Complete(s, list) == \A j \in DOMAIN s : s[j].nics \in [Nic -> [DOMAIN list -> Nat]]

(* The samples s of a node whose counters were at first when the first was   *)
(* taken, and are at cnt now: the first sample has them, unless its reading  *)
(* failed; and a NIC is at what the intervals add up to, unless a reading    *)
(* failed.                                                                   *)
FollowsAt(s, h, list, first, cnt, n, i) ==
  LET c == list[i]
      d == Added(s, n, i)
  IN  /\ d \in Nat
      /\ IF c \in ReadableOf(h, n)
         THEN first[n][c] + d <= cnt[n][c] /\ Last(s).nics[n][i] = (first[n][c] + d) % Modulus
         ELSE d = 0 /\ Last(s).nics[n][i] = 0
Follows(s, h, list, first, cnt, lost, any) ==
  /\ Len(s) >= 1 /\ Complete(s, list)
  /\ \A n \in Nic, i \in DOMAIN list :
       /\ <<n, list[i]>> \notin lost => s[1].nics[n][i] = Seen(h, first, n, list[i])
       /\ <<n, list[i]>> \notin any => FollowsAt(s, h, list, first, cnt, n, i)

(* from and to are counters of a node, to not long after from.               *)
Near(from, to) ==
  /\ from \in Counts /\ to \in Counts
  /\ \A n \in Nic, c \in Steady : from[n][c] <= to[n][c] /\ to[n][c] - from[n][c] < Modulus

(* Levels are lost.                                                          *)
Spares(lost) == \A n \in Nic, c \in Counter : <<n, c>> \notin lost => c \in Steady

(* With a first sample.                                                      *)
LEMMA FirstFollows ==
  ASSUME NEW h \in Host, NEW list, IsNames(list), NEW cnt \in Counts, NEW x, NEW lost,
         IsReading(x.nics, h, cnt, list, lost)
  PROVE  Follows(Append(<<>>, x), h, list, cnt, cnt, lost, lost)
<1> DEFINE s == Append(<<>>, x)
<1>1. Len(s) = 1 /\ DOMAIN s = {1} /\ s[1] = x
  <2>1. IsSeq(<<>>) /\ Len(<<>>) = 0  BY EmptyIs
  <2>2. Len(s) = 0 + 1 /\ DOMAIN s = 1..(0 + 1) /\ s[0 + 1] = x
    BY <2>1, AppendIs
  <2> QED BY <2>2
<1> HIDE DEF s
<1>2. Last(s) = x  BY <1>1 DEF Last
<1>3. Complete(s, list)  BY <1>1 DEF Complete, IsReading
<1>4. ASSUME NEW n \in Nic, NEW i \in DOMAIN list, <<n, list[i]>> \notin lost
      PROVE  x.nics[n][i] = Seen(h, cnt, n, list[i]) /\ FollowsAt(s, h, list, cnt, cnt, n, i)
  <2>1. Added(s, n, i) = 0
    <3>1. 1..(Len(s) - 1) = {}  BY <1>1
    <3>2. StepsOf(s, n, i) \in [{} -> Int] /\ \A y \in {} : StepsOf(s, n, i)[y] = 0
      BY <3>1 DEF StepsOf
    <3>3. IsFiniteSet({})  BY FS_EmptySet
    <3> QED BY <3>2, <3>3, SumZero DEF Added
  <2>2. list[i] \in Counter  BY NamesAre
  <2>3. cnt[n][list[i]] \in Nat  BY <2>2 DEF Counts
  <2>4. x.nics[n][i] = Seen(h, cnt, n, list[i])  BY <1>4 DEF IsReading
  <2>5. cnt[n][list[i]] + 0 = cnt[n][list[i]] /\ cnt[n][list[i]] <= cnt[n][list[i]]  BY <2>3
  <2>6. Last(s).nics[n][i] = Seen(h, cnt, n, list[i])  BY <1>2, <2>4
  <2>7. FollowsAt(s, h, list, cnt, cnt, n, i)  BY <2>1, <2>5, <2>6 DEF FollowsAt, Seen
  <2> QED BY <2>4, <2>7
<1>5. Follows(s, h, list, cnt, cnt, lost, lost)  BY <1>1, <1>3, <1>4 DEF Follows
<1> QED BY <1>5 DEF s

(* With a sample more the intervals of a counter add up to one more.         *)
LEMMA AddedIs ==
  ASSUME NEW list, NEW s, IsSeq(s), Len(s) >= 1, Complete(s, list), NEW x,
         x.nics \in [Nic -> [DOMAIN list -> Nat]], NEW n \in Nic, NEW i \in DOMAIN list
  PROVE  /\ Added(Append(s, x), n, i) = Added(s, n, i) + Subtract(x.nics[n][i], Last(s).nics[n][i])
         /\ Added(s, n, i) \in Nat
<1> DEFINE t == Append(s, x)
           k == Len(s)
           a == StepsOf(s, n, i)
           b == StepsOf(t, n, i)
           A == 1..(k - 1)
<1>1. /\ k \in Nat \ {0} /\ DOMAIN s = 1..k
      /\ Len(t) = k + 1 /\ DOMAIN t = 1..(k + 1)
      /\ \A j \in 1..k : t[j] = s[j]
      /\ t[k + 1] = x
  BY Elements, AppendIs
<1>2. Last(s) = s[k]  BY DEF Last
<1>3. Added(s, n, i) = SumFunction(a) /\ Added(t, n, i) = SumFunction(b)  BY DEF Added
<1>4. a = [j \in 1..(Len(s) - 1) |-> Subtract(s[j + 1].nics[n][i], s[j].nics[n][i])]
  BY DEF StepsOf
<1>5. b = [j \in 1..(Len(t) - 1) |-> Subtract(t[j + 1].nics[n][i], t[j].nics[n][i])]
  BY DEF StepsOf
<1>6. \A j \in 1..k : s[j].nics[n][i] \in Nat  BY <1>1 DEF Complete
<1> HIDE DEF t, a, b
<1>7. b = [j \in 1..k |-> Subtract(t[j + 1].nics[n][i], t[j].nics[n][i])]
  <2>1. Len(t) - 1 = k  BY <1>1
  <2> QED BY <1>5, <2>1
<1>8. a = [j \in A |-> Subtract(s[j + 1].nics[n][i], s[j].nics[n][i])]  BY <1>4
<1> HIDE DEF k
<1>9. A \subseteq 1..k /\ 1..k = A \cup {k} /\ k \notin A /\ IsFiniteSet(A)
  <2>1. 1 \in Int /\ k - 1 \in Int  BY <1>1
  <2>2. A \subseteq 1..k /\ 1..k = A \cup {k} /\ k \notin A  BY <1>1
  <2> QED BY <2>1, <2>2, FS_Interval
<1>10. \A j \in A : a[j] = b[j] /\ a[j] \in Nat
  <2> TAKE j \in A
  <2>1. j \in 1..k /\ j + 1 \in 1..k  BY <1>1
  <2>2. a[j] = b[j]  BY <2>1, <1>1, <1>7, <1>8
  <2>3. s[j].nics[n][i] \in Nat /\ s[j + 1].nics[n][i] \in Nat  BY <2>1, <1>6
  <2> DEFINE u == s[j].nics[n][i]  v == s[j + 1].nics[n][i]
  <2>4. a[j] = Subtract(v, u)  BY <1>8
  <2> HIDE DEF u, v
  <2>5. Subtract(v, u) \in Nat  BY <2>3, SubtractType DEF u, v
  <2> QED BY <2>2, <2>4, <2>5
<1>11. b[k] = Subtract(x.nics[n][i], s[k].nics[n][i]) /\ b[k] \in Nat
  <2>1. k \in 1..k  BY <1>1
  <2>2. b[k] = Subtract(x.nics[n][i], s[k].nics[n][i])  BY <2>1, <1>1, <1>7
  <2> DEFINE u == s[k].nics[n][i]  v == x.nics[n][i]
  <2>3. u \in Nat /\ v \in Nat  BY <2>1, <1>6
  <2> HIDE DEF u, v
  <2>4. Subtract(v, u) \in Nat  BY <2>3, SubtractType
  <2> QED BY <2>2, <2>4 DEF u, v
<1>12. a \in [A -> Nat] /\ a \in [A -> Int]
  <2>1. a = [j \in A |-> a[j]]  BY <1>8
  <2> HIDE DEF A
  <2> QED BY <2>1, <1>10
<1>13. b \in [A \cup {k} -> Int]
  <2>1. DOMAIN b = A \cup {k} /\ b = [j \in A \cup {k} |-> b[j]]  BY <1>7, <1>9
  <2> HIDE DEF A
  <2>2. \A j \in A \cup {k} : b[j] \in Int  BY <1>10, <1>11
  <2> QED BY <2>1, <2>2
<1> HIDE DEF A
<1>14. Extends(A, k, a, b)  BY <1>9, <1>10, <1>12, <1>13 DEF Extends
<1>15. SumFunction(b) = SumFunction(a) + b[k]  BY <1>14, SumExtend
<1>16. SumFunction(a) \in Nat  BY <1>9, <1>12, SumNat
<1> QED BY <1>2, <1>3, <1>11, <1>15, <1>16 DEF t

(* What two readings differ by.                                              *)
LEMMA SeenDiffer ==
  ASSUME NEW h \in Host, NEW from, NEW to, Near(from, to), NEW n \in Nic, NEW c \in Steady
  PROVE  Subtract(Seen(h, to, n, c), Seen(h, from, n, c)) = Moves(h, from, to)[n][c]
<1> DEFINE f == from[n][c]  e == to[n][c]
<1>1. f \in Nat /\ e \in Nat /\ f <= e /\ e - f < Modulus /\ Modulus \in Nat \ {0} /\ c \in Counter
  BY SummaryAssumption DEF Near, Counts, Steady
<1>2. CASE c \in ReadableOf(h, n)
  <2>1. Seen(h, to, n, c) = e % Modulus /\ Seen(h, from, n, c) = f % Modulus
        /\ Moves(h, from, to)[n][c] = e - f
    BY <1>1, <1>2 DEF Seen, Moves
  <2>2. e - f \in 0..(Modulus - 1) /\ f + (e - f) = e  BY <1>1
  <2> HIDE DEF e, f
  <2>3. Subtract((f + (e - f)) % Modulus, f % Modulus) = e - f
    BY <1>1, <2>2, SubtractReadings
  <2> QED BY <2>1, <2>2, <2>3
<1>3. CASE c \notin ReadableOf(h, n)
  <2>1. Seen(h, to, n, c) = 0 /\ Seen(h, from, n, c) = 0 /\ Moves(h, from, to)[n][c] = 0
    BY <1>1, <1>3 DEF Seen, Moves
  <2>2. 0 % Modulus = 0  BY SummaryAssumption
  <2>3. Subtract(0, 0) = 0  BY <2>2 DEF Subtract
  <2> QED BY <2>1, <2>3
<1> QED BY <1>2, <1>3

(* The next sample, of counters that did not wrap around twice: the          *)
(* difference, and what the intervals add up to, is what was counted since   *)
(* the first, as far as readings did not fail.                               *)
LEMMA MoreFollows ==
  ASSUME NEW h \in Host, NEW list, IsNames(list), NEW first, NEW cnt, Near(first, cnt),
         NEW s, IsSeq(s), NEW lost, NEW any, Follows(s, h, list, first, cnt, lost, any),
         NEW x, NEW bad, IsReading(x.nics, h, cnt, list, bad), Spares(lost), Spares(any)
  PROVE  /\ Len(Append(s, x)) >= 2 /\ Complete(Append(s, x), list)
         /\ \A n \in Nic, i \in DOMAIN list :
              /\ <<n, list[i]>> \notin lost =>
                   Append(s, x)[1].nics[n][i] = Seen(h, first, n, list[i])
              /\ <<n, list[i]>> \notin lost /\ <<n, list[i]>> \notin bad =>
                   Across(Append(s, x), n, i) = Moves(h, first, cnt)[n][list[i]]
              /\ <<n, list[i]>> \notin any /\ <<n, list[i]>> \notin bad =>
                   /\ Added(Append(s, x), n, i) = Moves(h, first, cnt)[n][list[i]]
                   /\ FollowsAt(Append(s, x), h, list, first, cnt, n, i)
<1> DEFINE t == Append(s, x)
           k == Len(s)
<1>1. /\ k \in Nat \ {0} /\ DOMAIN s = 1..k
      /\ Len(t) = k + 1 /\ DOMAIN t = 1..(k + 1)
      /\ \A j \in 1..k : t[j] = s[j]
      /\ t[k + 1] = x
  BY Elements, AppendIs DEF Follows
<1>2. /\ Complete(s, list) /\ x.nics \in [Nic -> [DOMAIN list -> Nat]]
      /\ \A n \in Nic, i \in DOMAIN list :
           /\ <<n, list[i]>> \notin lost => s[1].nics[n][i] = Seen(h, first, n, list[i])
           /\ <<n, list[i]>> \notin any => FollowsAt(s, h, list, first, cnt, n, i)
           /\ <<n, list[i]>> \notin bad => x.nics[n][i] = Seen(h, cnt, n, list[i])
  BY DEF Follows, IsReading
<1>a. \A n \in Nic, i \in DOMAIN list :
        Added(t, n, i) = Added(s, n, i) + Subtract(x.nics[n][i], Last(s).nics[n][i])
  BY <1>1, <1>2, AddedIs
<1> HIDE DEF t
<1>3. Last(t) = x /\ Last(s) = s[k] /\ t[1] = s[1]  BY <1>1 DEF Last
<1> HIDE DEF k
<1>4. Complete(t, list)
  <2>1. \A j \in DOMAIN t : j \in 1..k \/ j = k + 1  BY <1>1
  <2> QED BY <2>1, <1>1, <1>2 DEF Complete
<1>5. ASSUME NEW n \in Nic, NEW i \in DOMAIN list, <<n, list[i]>> \notin lost
      PROVE  t[1].nics[n][i] = Seen(h, first, n, list[i])
  BY <1>2, <1>3, <1>5
<1>6. ASSUME NEW n \in Nic, NEW i \in DOMAIN list, <<n, list[i]>> \notin lost,
             <<n, list[i]>> \notin bad
      PROVE  Across(t, n, i) = Moves(h, first, cnt)[n][list[i]]
  <2>1. list[i] \in Steady  BY <1>6, NamesAre DEF Spares
  <2>2. Across(t, n, i) = Subtract(Seen(h, cnt, n, list[i]), Seen(h, first, n, list[i]))
    BY <1>2, <1>3, <1>5, <1>6 DEF Across
  <2> QED BY <2>1, <2>2, SeenDiffer
<1>7. ASSUME NEW n \in Nic, NEW i \in DOMAIN list, <<n, list[i]>> \notin any,
             <<n, list[i]>> \notin bad
      PROVE  /\ Added(t, n, i) = Moves(h, first, cnt)[n][list[i]]
             /\ FollowsAt(t, h, list, first, cnt, n, i)
  <2> DEFINE c == list[i]  d == Added(s, n, i)  last == Last(s).nics[n][i]
             f == first[n][c]  e == cnt[n][c]  now == x.nics[n][i]  D == Added(t, n, i)
  <2>0. c \in Steady /\ c \in Counter  BY <1>7, NamesAre DEF Spares
  <2>1. f \in Nat /\ e \in Nat /\ f <= e /\ e - f < Modulus /\ Modulus \in Nat \ {0}
    BY <2>0, SummaryAssumption DEF Near, Counts
  <2>2. FollowsAt(s, h, list, first, cnt, n, i) /\ now = Seen(h, cnt, n, c)  BY <1>2, <1>7
  <2>3. D = d + Subtract(now, last)  BY <1>a
  <2>4. CASE c \in ReadableOf(h, n)
    <3>1. /\ d \in Nat /\ f + d <= e /\ last = (f + d) % Modulus /\ now = e % Modulus
          /\ Moves(h, first, cnt)[n][c] = e - f
      BY <2>0, <2>2, <2>4 DEF FollowsAt, Seen, Moves
    <3> HIDE DEF f, e, d, last, now, D, c
    <3>2. f + d \in Nat /\ e - f - d \in 0..(Modulus - 1) /\ (f + d) + (e - f - d) = e
      BY <2>1, <3>1
    <3>3. Subtract(((f + d) + (e - f - d)) % Modulus, (f + d) % Modulus) = e - f - d
      BY <3>2, SubtractReadings
    <3>4. D = e - f  BY <2>1, <2>3, <3>1, <3>2, <3>3
    <3>5. D \in Nat /\ f + D <= e /\ f + D = e  BY <2>1, <3>4
    <3>6. Last(t).nics[n][i] = (f + D) % Modulus  BY <1>3, <3>1, <3>5 DEF now
    <3>7. FollowsAt(t, h, list, first, cnt, n, i)
      BY <2>4, <3>5, <3>6 DEF FollowsAt, c, D, f, e
    <3> QED BY <3>1, <3>4, <3>7 DEF c, D
  <2>5. CASE c \notin ReadableOf(h, n)
    <3>1. d = 0 /\ last = 0 /\ now = 0 /\ Moves(h, first, cnt)[n][c] = 0
      BY <2>0, <2>2, <2>5 DEF FollowsAt, Seen, Moves
    <3>2. 0 % Modulus = 0  BY SummaryAssumption
    <3>3. Subtract(0, 0) = 0  BY <3>2 DEF Subtract
    <3> HIDE DEF f, e, d, last, now, D, c
    <3>4. D = 0  BY <2>3, <3>1, <3>3
    <3>5. Last(t).nics[n][i] = 0  BY <1>3, <3>1 DEF now
    <3>6. FollowsAt(t, h, list, first, cnt, n, i)
      BY <2>5, <3>4, <3>5 DEF FollowsAt, c, D
    <3> QED BY <3>1, <3>4, <3>6 DEF c, D
  <2> QED BY <2>4, <2>5
<1>8. Len(t) >= 2  BY <1>1
<1> QED BY <1>4, <1>5, <1>6, <1>7, <1>8 DEF t

(* While the NICs count, and when more is lost.                              *)
LEMMA StillFollows ==
  ASSUME NEW s, NEW h, NEW list, IsNames(list), NEW first \in Counts,
         NEW cnt \in Counts, NEW next \in Counts, NEW lost, NEW any, Spares(any),
         Follows(s, h, list, first, cnt, lost, any),
         \A n \in Nic, c \in Steady : cnt[n][c] <= next[n][c]
  PROVE  Follows(s, h, list, first, next, lost, any)
<1>1. ASSUME NEW n \in Nic, NEW i \in DOMAIN list, <<n, list[i]>> \notin any
      PROVE  FollowsAt(s, h, list, first, next, n, i)
  <2>1. list[i] \in Counter /\ list[i] \in Steady  BY <1>1, NamesAre DEF Spares
  <2>2. /\ cnt[n][list[i]] \in Nat /\ next[n][list[i]] \in Nat /\ first[n][list[i]] \in Nat
        /\ cnt[n][list[i]] <= next[n][list[i]]
    BY <2>1 DEF Counts
  <2>3. FollowsAt(s, h, list, first, cnt, n, i)  BY <1>1 DEF Follows
  <2> QED BY <2>2, <2>3 DEF FollowsAt
<1> QED BY <1>1 DEF Follows

----------------------------------------------------------------------------
(* The third invariant, Recorded: what the samples tell, of the node that is *)
(* measured and of those in the aggregate.                                   *)

First == {"first"}
Ends == {"first", "last"}
Each == {"first", "sample", "last"}

(* What the samples of a node tell when it is done, and its series in the    *)
(* aggregate, in full or without samples: on is what moved between its first *)
(* and its last sample, by what moved between its total readings.            *)
Told(full, s, list, ends, any, on) ==
  IF full
  THEN /\ Len(s) >= 2 /\ Complete(s, list)
       /\ \A n \in Nic, i \in DOMAIN list :
            /\ <<n, list[i]>> \notin ends => Across(s, n, i) = on[n][list[i]]
            /\ <<n, list[i]>> \notin any => Added(s, n, i) = on[n][list[i]]
  ELSE s = <<>>
SeriesTold(full, t, i, list, ends, any, on, by) ==
  /\ t.hostname = Hosts - i + 1 /\ t.procid = Hosts - i
  /\ Told(full, t.samples, list, ends, any, on)
  /\ full => \A n \in Nic, c \in Steady : on[n][c] <= by[n][c]
SeriesIs(i) ==
  SeriesTold(detailed, agg.series[i], i, names, Lost(Ends, Hosts - i + 1),
             Lost(Each, Hosts - i + 1), sampled[Hosts - i + 1], moved[Hosts - i + 1])

Between(from, mid, to) ==
  \A n \in Nic, c \in Steady : from[n][c] <= mid[n][c] /\ mid[n][c] <= to[n][c]
Covers(h, from, on, to) ==
  \A n \in Nic, c \in Steady : /\ from[n][c] + on[n][c] <= to[n][c]
                               /\ c \notin ReadableOf(h, n) => on[n][c] = 0
FollowsNow ==
  /\ sampled[host] \in Counts
  /\ Follows(series.samples, host, names, sampled[host], count, Lost(First, host), Lost(Each, host))
  /\ Between(start, sampled[host], count)
ToldNow ==
  /\ Told(TRUE, series.samples, names, Lost(Ends, host), Lost(Each, host), sampled[host])
  /\ Covers(host, start, sampled[host], count)
SampledSoFar ==
  /\ series.hostname = host /\ series.procid = host - 1
  /\ pc \in {"first", "last"} => detailed
  /\ pc \in {"start", "refused", "initial", "first"} \/ ~detailed => series.samples = <<>>
  /\ detailed /\ pc \in {"command", "last"} => FollowsNow
  /\ detailed /\ pc = "final" => ToldNow
AllTold ==
  /\ sampled \in [Host -> Distances]
  /\ \A i \in DOMAIN agg.series : SeriesIs(i)

(* Levels are lost to every reading.                                         *)
LEMMA LostSpares == \A readings, h : Spares(Lost(readings, h))
BY NotLost DEF Spares

(* What is told is still told when more is lost.                             *)
LEMMA ToldStill ==
  ASSUME NEW full, NEW s, NEW list, NEW on, NEW ends, NEW any, NEW ends1, NEW any1,
         ends \subseteq ends1, any \subseteq any1, Told(full, s, list, ends, any, on)
  PROVE  Told(full, s, list, ends1, any1, on)
BY DEF Told
LEMMA SeriesStill ==
  ASSUME NEW i, SeriesIs(i), failed \subseteq failed',
         UNCHANGED <<detailed, names, agg, moved>>, sampled'[Hosts - i + 1] = sampled[Hosts - i + 1]
  PROVE  SeriesIs(i)'
<1> DEFINE h == Hosts - i + 1
           t == agg.series[i]
<1>1. Lost(Ends, h) \subseteq Lost(Ends, h)' /\ Lost(Each, h) \subseteq Lost(Each, h)'
  BY LostGrows
<1>2. /\ t.hostname = Hosts - i + 1 /\ t.procid = Hosts - i
      /\ Told(detailed, t.samples, names, Lost(Ends, h), Lost(Each, h), sampled[h])
      /\ detailed => \A n \in Nic, c \in Steady : sampled[h][n][c] <= moved[h][n][c]
  BY DEF SeriesIs, SeriesTold
<1>3. Told(detailed, t.samples, names, Lost(Ends, h)', Lost(Each, h)', sampled[h])
  BY <1>1, <1>2, ToldStill
<1>4. SeriesTold(detailed, t, i, names, Lost(Ends, h)', Lost(Each, h)', sampled[h], moved[h])
  BY <1>2, <1>3 DEF SeriesTold
<1>5. SeriesTold(detailed', agg'.series[i], i, names', Lost(Ends, h)', Lost(Each, h)',
                 sampled'[h], moved'[h])
  BY <1>4
<1> QED BY <1>5 DEF SeriesIs
LEMMA FollowsStill ==
  ASSUME NEW s, NEW h, NEW list, NEW first, NEW cnt, NEW lost, NEW any, NEW lost1, NEW any1,
         lost \subseteq lost1, any \subseteq any1, Follows(s, h, list, first, cnt, lost, any)
  PROVE  Follows(s, h, list, first, cnt, lost1, any1)
BY DEF Follows

(* The facts about a node that is measured that the steps need.              *)
LEMMA WhileMeasuring ==
  ASSUME Shape, Counted, pc \in Measuring
  PROVE  /\ host \in Host /\ count \in Counts /\ start \in Counts /\ IsNames(names)
         /\ Hosts \in Nat \ {0} /\ Host = 1..Hosts
         /\ Near(start, count)
         /\ IsSeq(agg.series) /\ DOMAIN agg.series = 1..(Hosts - host)
         /\ Len(agg.series) = Hosts - host
<1>1. /\ host \in Host /\ count \in Counts /\ start \in Counts /\ IsNames(names)
      /\ Hosts \in Nat \ {0} /\ Host = 1..Hosts
      /\ \A n \in Nic, c \in Steady : start[n][c] <= count[n][c]
      /\ \A c \in Steady : Risen(start, count, c) <= events
      /\ events \in Nat /\ events < Modulus /\ Modulus \in Nat
  BY ReportAssumption, SummaryAssumption DEF Shape, Counted, SinceInitial, Host
<1>2. ASSUME NEW n \in Nic, NEW c \in Steady PROVE count[n][c] - start[n][c] < Modulus
  <2> DEFINE f == [m \in Nic |-> count[m][c] - start[m][c]]
  <2>1. f \in [Nic -> Nat]
    <3>1. \A m \in Nic : count[m][c] - start[m][c] \in Nat  BY <1>1 DEF Counts, Steady
    <3> QED BY <3>1
  <2>2. f[n] = count[n][c] - start[n][c] /\ SumFunction(f) <= events
    BY <1>1 DEF Risen
  <2> HIDE DEF f
  <2>3. f[n] \in Nat /\ SumFunction(f) \in Nat /\ f[n] <= SumFunction(f)
    BY <2>1, SumNat, ReportAssumption
  <2>4. f[n] < Modulus  BY <1>1, <2>2, <2>3
  <2> QED BY <2>2, <2>4
<1>3. Near(start, count)  BY <1>1, <1>2 DEF Near
<1>4. IsSeq(agg.series) /\ Len(agg.series) = Len(agg.rows) /\ Len(agg.rows) = Appended
  BY DEF Shape, Held, IsAggregate, Counted, RowsMoved
<1>5. Appended = Hosts - host  BY DEF Appended, Measuring
<1>6. DOMAIN agg.series = 1..(Hosts - host)
  <2> DEFINE S == agg.series
  <2>1. IsSeq(S) /\ Len(S) = Hosts - host  BY <1>4, <1>5
  <2> HIDE DEF S
  <2>2. DOMAIN S = 1..(Hosts - host)  BY <2>1, Elements
  <2> QED BY <2>2 DEF S
<1> QED BY <1>1, <1>3, <1>4, <1>5, <1>6

(* A node's own entries are of no one before it.                             *)
LEMMA OthersTold ==
  ASSUME Shape, Counted, pc \in Measuring, AllTold, NEW on \in Distances,
         sampled' = [sampled EXCEPT ![host] = on], failed \subseteq failed',
         UNCHANGED <<detailed, names, agg, moved>>
  PROVE  AllTold' /\ sampled'[host] = on
<1>1. /\ host \in Host /\ Host = 1..Hosts /\ Hosts \in Nat \ {0}
      /\ DOMAIN agg.series = 1..(Hosts - host)
  BY WhileMeasuring
<1>2. /\ sampled' \in [Host -> Distances] /\ sampled'[host] = on
      /\ \A h \in Host \ {host} : sampled'[h] = sampled[h]
  BY <1>1 DEF AllTold
<1>3. ASSUME NEW i \in DOMAIN agg.series PROVE SeriesIs(i)'
  <2>1. Hosts - i + 1 \in Host \ {host}  BY <1>1
  <2>2. sampled'[Hosts - i + 1] = sampled[Hosts - i + 1]  BY <1>2, <2>1
  <2>3. SeriesIs(i)  BY DEF AllTold
  <2> QED BY <2>2, <2>3, SeriesStill
<1> QED BY <1>2, <1>3 DEF AllTold

(* A sample leaves the names alone; its reading may fail.                    *)
LEMMA SampledSeries ==
  ASSUME Shape, FirstSample \/ Sample \/ LastSample
  PROVE  /\ series'.hostname = series.hostname /\ series'.procid = series.procid
         /\ failed \subseteq failed'
         /\ \E x, bad : /\ series'.samples = Append(series.samples, x)
                        /\ IsReading(x.nics, host, count, names, bad)
                        /\ \A n, c : <<n, c>> \in bad => <<Reading, host, n, c>> \in failed'
<1>1. PICK nics, wrong : Taken(nics, wrong)  BY SampleTaken
<1>2. PICK sources :
        series' = [series EXCEPT !.samples = Append(@, NewSample(Len(@), nics, sources))]
  BY <1>1 DEF Taken
<1> DEFINE x == NewSample(Len(series.samples), nics, sources)
<1>3. x.nics = nics  BY DEF NewSample
<1>4. series' = [series EXCEPT !.samples = Append(@, x)]  BY <1>2
<1>5. IsSeries(series, Len(names))  BY DEF Shape
<1> HIDE DEF x
<1>6. /\ series'.hostname = series.hostname /\ series'.procid = series.procid
      /\ series'.samples = Append(series.samples, x)
  BY <1>4, <1>5 DEF IsSeries
<1>7. IsReading(x.nics, host, count, names, wrong)  BY <1>1, <1>3 DEF Taken
<1>8. ASSUME NEW n, NEW c, <<n, c>> \in wrong PROVE <<Reading, host, n, c>> \in failed'
  <2> DEFINE p == <<n, c>>
  <2>1. p \in wrong /\ p[1] = n /\ p[2] = c  BY <1>8
  <2> HIDE DEF p
  <2>2. <<Reading, host, p[1], p[2]>> \in failed'  BY <2>1, <1>1 DEF Taken
  <2> QED BY <2>1, <2>2
<1>9. failed \subseteq failed'  BY SampleTaken
<1> QED BY <1>6, <1>7, <1>8, <1>9

(* What it fails to read is lost.                                            *)
LEMMA BadLost ==
  ASSUME NEW bad, NEW reading, NEW readings, reading \in readings, UNCHANGED host,
         \A n, c : <<n, c>> \in bad => <<reading, host, n, c>> \in failed',
         NEW n \in Nic, NEW c \in Counter, <<n, c>> \in bad
  PROVE  <<n, c>> \in Lost(readings, host)'
<1> DEFINE p == <<n, c>>
<1>1. p \in Nic \X Counter /\ p[1] = n /\ p[2] = c  OBVIOUS
<1>2. <<reading, host, n, c>> \in failed'  OBVIOUS
<1> HIDE DEF p
<1>3. ~Sound(readings, host, p[1], p[2])'  BY <1>1, <1>2 DEF Sound
<1>4. p \in Lost(readings, host)'  BY <1>1, <1>3 DEF Lost
<1> QED BY <1>4 DEF p

Recorded == SampledSoFar /\ AllTold

(* It holds at the start.                                                    *)
LEMMA InitTold == Init => Recorded
<1> SUFFICES ASSUME Init PROVE Recorded  OBVIOUS
<1>1. /\ pc = "start" /\ host = Hosts /\ agg = Nothing /\ series = NewSeries(host)
      /\ sampled = [h \in Host |-> Untouched]
  BY DEF Init
<1>2. DOMAIN agg.series = {}  BY <1>1, EmptyIs DEF Nothing
<1>3. Untouched \in Distances  BY DEF Untouched, Distances
<1>4. series.hostname = host /\ series.procid = host - 1 /\ series.samples = <<>>
  BY <1>1 DEF NewSeries
<1> QED BY <1>1, <1>2, <1>3, <1>4 DEF Recorded, SampledSoFar, AllTold

(* No node has samples before counters are selected.                         *)
LEMMA StartTold == Shape /\ Recorded /\ Start => Recorded'
<1> SUFFICES ASSUME Shape, Recorded, Start PROVE Recorded'  OBVIOUS
<1>1. pc = "start" /\ agg = Nothing  BY DEF Start, Shape
<1>2. pc' \in {"refused", "initial"}  BY DEF Start
<1>3. UNCHANGED <<host, detailed, series, agg, sampled>>  BY DEF Start
<1>4. DOMAIN agg.series = {}  BY <1>1, EmptyIs DEF Nothing
<1>5. AllTold'  BY <1>3, <1>4 DEF Recorded, AllTold
<1>6. SampledSoFar'  BY <1>1, <1>2, <1>3 DEF Recorded, SampledSoFar
<1> QED BY <1>5, <1>6 DEF Recorded

(* The steps that neither sample nor append.                                 *)
LEMMA QuietTold ==
  ASSUME UNCHANGED <<detailed, names, agg, moved, sampled>>, failed \subseteq failed', AllTold
  PROVE  AllTold'
BY SeriesStill DEF AllTold

(* Nor at its initial total reading.                                         *)
LEMMA ReadInitialTold == Shape /\ Recorded /\ ReadInitial => Recorded'
<1> SUFFICES ASSUME Shape, Recorded, ReadInitial PROVE Recorded'  OBVIOUS
<1>1. pc = "initial" /\ pc' = IF detailed THEN "first" ELSE "command"
  BY DEF ReadInitial, Goes
<1>2. UNCHANGED <<host, detailed, names, series, agg, moved, sampled>>  BY DEF ReadInitial
<1>3. SampledSoFar'
  <2>1. series.samples = <<>> /\ series.hostname = host /\ series.procid = host - 1
        /\ detailed \in BOOLEAN
    BY <1>1 DEF Recorded, SampledSoFar, Shape
  <2>2. CASE detailed
    <3>1. pc' = "first"  BY <1>1, <2>2
    <3> QED BY <1>2, <2>1, <2>2, <3>1 DEF SampledSoFar
  <2>3. CASE ~detailed
    <3>1. pc' = "command"  BY <1>1, <2>3
    <3> QED BY <1>2, <2>1, <2>3, <3>1 DEF SampledSoFar
  <2> QED BY <2>2, <2>3
<1>4. failed \subseteq failed'  BY DEF ReadInitial
<1> QED BY <1>2, <1>3, <1>4, QuietTold DEF Recorded

(* The first sample, after the initial total reading.                        *)
LEMMA FirstSampleTold == Shape /\ Counted /\ Recorded /\ FirstSample => Recorded'
<1> SUFFICES ASSUME Shape, Counted, Recorded, FirstSample PROVE Recorded'  OBVIOUS
<1>1. /\ pc = "first" /\ pc' = "command" /\ sampled' = [sampled EXCEPT ![host] = count]
      /\ UNCHANGED <<host, detailed, names, count, start, agg, moved>>
  BY DEF FirstSample, Goes
<1>2. pc \in Measuring  BY <1>1 DEF Measuring
<1>3. host \in Host /\ count \in Counts /\ IsNames(names) /\ Near(start, count)
  BY <1>2, WhileMeasuring
<1>4. count \in Distances  BY <1>3 DEF Counts, Distances
<1>5. series.samples = <<>> /\ detailed /\ series.hostname = host /\ series.procid = host - 1
  BY <1>1 DEF Recorded, SampledSoFar
<1>6. PICK x, bad : /\ series'.samples = Append(series.samples, x)
                    /\ IsReading(x.nics, host, count, names, bad)
                    /\ \A n, c : <<n, c>> \in bad => <<Reading, host, n, c>> \in failed'
  BY SampledSeries
<1>7. series'.hostname = host /\ series'.procid = host - 1 /\ failed \subseteq failed'
  BY <1>5, SampledSeries
<1>8. AllTold' /\ sampled'[host] = count  BY <1>1, <1>2, <1>4, <1>7, OthersTold DEF Recorded
<1>9. IsReading(x.nics, host, count, names, Lost(First, host)')
  <2>1. Reading = "first" /\ "first" \in First  BY <1>1 DEF Reading, First
  <2>2. \A n \in Nic, c \in Counter : <<n, c>> \in bad => <<n, c>> \in Lost(First, host)'
    BY <1>1, <1>6, <2>1, BadLost
  <2>3. \A i \in DOMAIN names : names[i] \in Counter  BY <1>3, NamesAre
  <2> QED BY <1>6, <2>2, <2>3 DEF IsReading
<1>10. Follows(series'.samples, host, names, count, count, Lost(First, host)', Lost(First, host)')
  BY <1>3, <1>5, <1>6, <1>9, FirstFollows
<1>11. Lost(First, host)' \subseteq Lost(Each, host)'
  <2>1. First \subseteq Each  BY DEF First, Each
  <2>2. \A p : Sound(Each, host, p[1], p[2])' => Sound(First, host, p[1], p[2])'
    BY <2>1 DEF Sound
  <2> QED BY <2>2 DEF Lost
<1>12. Follows(series'.samples, host, names, count, count, Lost(First, host)', Lost(Each, host)')
  BY <1>10, <1>11, FollowsStill
<1>13. Between(start, count, count)  BY <1>3 DEF Between, Near, Counts, Steady
<1>14. FollowsNow'  BY <1>1, <1>3, <1>8, <1>12, <1>13 DEF FollowsNow
<1>15. SampledSoFar'  BY <1>1, <1>5, <1>7, <1>14 DEF SampledSoFar
<1> QED BY <1>8, <1>15 DEF Recorded

(* The counters since the first sample.                                      *)
LEMMA NearFirst ==
  ASSUME NEW from, NEW mid \in Counts, NEW to, Near(from, to), Between(from, mid, to)
  PROVE  Near(mid, to)
<1>1. from \in Counts /\ to \in Counts  BY DEF Near
<1>2. ASSUME NEW n \in Nic, NEW c \in Steady
      PROVE  mid[n][c] <= to[n][c] /\ to[n][c] - mid[n][c] < Modulus
  <2>1. from[n][c] \in Nat /\ mid[n][c] \in Nat /\ to[n][c] \in Nat /\ Modulus \in Nat
    BY <1>1, SummaryAssumption DEF Counts, Steady
  <2>2. from[n][c] <= mid[n][c] /\ mid[n][c] <= to[n][c] /\ to[n][c] - from[n][c] < Modulus
    BY DEF Near, Between
  <2> QED BY <2>1, <2>2
<1> QED BY <1>1, <1>2 DEF Near


(* The samples of the sampling thread.                                       *)
LEMMA SampleTold == Shape /\ Counted /\ Recorded /\ Sample => Recorded'
<1> SUFFICES ASSUME Shape, Counted, Recorded, Sample PROVE Recorded'  OBVIOUS
<1> DEFINE s == series.samples
           first == sampled[host]
           lost == Lost(First, host)  lost1 == Lost(First, host)'
           any == Lost(Each, host)  any1 == Lost(Each, host)'
<1>1. /\ pc = "command" /\ detailed
      /\ UNCHANGED <<pc, detailed, names, count, start, agg, moved, sampled>> /\ UNCHANGED host
  BY DEF Sample
<1>2. pc \in Measuring  BY <1>1 DEF Measuring
<1>3. /\ host \in Host /\ count \in Counts /\ IsNames(names) /\ Near(start, count)
      /\ IsSeq(s)
  BY <1>2, WhileMeasuring DEF Shape, IsSeries
<1>4. /\ first \in Counts /\ Follows(s, host, names, first, count, lost, any)
      /\ Between(start, first, count)
      /\ series.hostname = host /\ series.procid = host - 1
  BY <1>1 DEF Recorded, SampledSoFar, FollowsNow
<1>5. PICK x, bad : /\ series'.samples = Append(s, x)
                    /\ IsReading(x.nics, host, count, names, bad)
                    /\ \A n, c : <<n, c>> \in bad => <<Reading, host, n, c>> \in failed'
  BY SampledSeries
<1>6. series'.hostname = host /\ series'.procid = host - 1 /\ failed \subseteq failed'
  BY <1>4, SampledSeries
<1>7. \A n \in Nic, c \in Counter : <<n, c>> \in bad => <<n, c>> \in any1
  <2>1. Reading = "sample" /\ "sample" \in Each  BY <1>1 DEF Reading, Each
  <2> QED BY <1>1, <1>5, <2>1, BadLost
<1>8. lost \subseteq lost1 /\ any \subseteq any1  BY <1>1, <1>6, LostGrows
<1>9. Spares(lost) /\ Spares(any)  BY LostSpares
<1>10. Near(first, count)  BY <1>3, <1>4, NearFirst
<1> HIDE DEF s, first, lost, lost1, any, any1
<1> DEFINE t == Append(s, x)
<1>11. /\ Len(t) >= 2 /\ Complete(t, names)
       /\ \A n \in Nic, i \in DOMAIN names :
            /\ <<n, names[i]>> \notin lost => t[1].nics[n][i] = Seen(host, first, n, names[i])
            /\ <<n, names[i]>> \notin lost /\ <<n, names[i]>> \notin bad =>
                 Across(t, n, i) = Moves(host, first, count)[n][names[i]]
            /\ <<n, names[i]>> \notin any /\ <<n, names[i]>> \notin bad =>
                 /\ Added(t, n, i) = Moves(host, first, count)[n][names[i]]
                 /\ FollowsAt(t, host, names, first, count, n, i)
  <2>1. /\ host \in Host /\ IsNames(names) /\ Near(first, count) /\ IsSeq(s)
        /\ Follows(s, host, names, first, count, lost, any)
        /\ IsReading(x.nics, host, count, names, bad) /\ Spares(lost) /\ Spares(any)
    BY <1>3, <1>4, <1>5, <1>9, <1>10
  <2> QED BY <2>1, MoreFollows
<1> HIDE DEF t
<1>12. Follows(t, host, names, first, count, lost1, any1)
  <2>1. \A i \in DOMAIN names : names[i] \in Counter  BY <1>3, NamesAre
  <2>2. ASSUME NEW n \in Nic, NEW i \in DOMAIN names, <<n, names[i]>> \notin any1
        PROVE  FollowsAt(t, host, names, first, count, n, i)
    <3>1. <<n, names[i]>> \notin any /\ <<n, names[i]>> \notin bad
      BY <1>7, <1>8, <2>1, <2>2
    <3> QED BY <1>11, <3>1
  <2>3. Len(t) >= 1
    <3>1. Len(t) \in Nat  BY <1>3, AppendIs, Elements DEF t
    <3> QED BY <1>11, <3>1
  <2> QED BY <1>8, <1>11, <2>2, <2>3 DEF Follows
<1>13. t = series'.samples  BY <1>5 DEF t
<1>14. FollowsNow'
  <2>1. Follows(series'.samples, host', names', first, count', lost1, any1)
    BY <1>1, <1>12, <1>13
  <2>2. Lost(First, host') = Lost(First, host) /\ sampled'[host'] = first
    BY <1>1 DEF first
  <2>3. Follows(series.samples, host, names, sampled[host], count, Lost(First, host),
                Lost(Each, host))'
    BY <1>1, <2>1, <2>2 DEF lost1, any1
  <2>4. Between(start, sampled[host], count)'  BY <1>1, <1>4 DEF first, Between
  <2>5. (sampled[host] \in Counts)'  BY <1>1, <1>4 DEF first, Counts
  <2> QED BY <2>3, <2>4, <2>5 DEF FollowsNow
<1>15. SampledSoFar'  BY <1>1, <1>6, <1>14 DEF SampledSoFar
<1>16. AllTold'  BY <1>1, <1>6, QuietTold DEF Recorded
<1> QED BY <1>15, <1>16 DEF Recorded

(* The last sample: what was counted since the first is known.               *)
LEMMA LastSampleTold == Shape /\ Counted /\ Recorded /\ LastSample => Recorded'
<1> SUFFICES ASSUME Shape, Counted, Recorded, LastSample PROVE Recorded'  OBVIOUS
<1> DEFINE s == series.samples
           first == sampled[host]
           on == Moves(host, first, count)
           lost == Lost(First, host)  ends1 == Lost(Ends, host)'
           any == Lost(Each, host)  any1 == Lost(Each, host)'
<1>1. /\ pc = "last" /\ pc' = "final" /\ sampled' = [sampled EXCEPT ![host] = on]
      /\ UNCHANGED <<detailed, names, count, start, agg, moved>> /\ UNCHANGED host
  BY SinceIs DEF LastSample, Goes
<1>2. pc \in Measuring  BY <1>1 DEF Measuring
<1>3. /\ host \in Host /\ count \in Counts /\ start \in Counts /\ IsNames(names)
      /\ Near(start, count) /\ IsSeq(s)
  BY <1>2, WhileMeasuring DEF Shape, IsSeries
<1>4. /\ detailed
      /\ first \in Counts /\ Follows(s, host, names, first, count, lost, any)
      /\ Between(start, first, count)
      /\ series.hostname = host /\ series.procid = host - 1
  BY <1>1 DEF Recorded, SampledSoFar, FollowsNow
<1>5. PICK x, bad : /\ series'.samples = Append(s, x)
                    /\ IsReading(x.nics, host, count, names, bad)
                    /\ \A n, c : <<n, c>> \in bad => <<Reading, host, n, c>> \in failed'
  BY SampledSeries
<1>6. series'.hostname = host /\ series'.procid = host - 1 /\ failed \subseteq failed'
  BY <1>4, SampledSeries
<1>7. \A n \in Nic, c \in Counter : <<n, c>> \in bad => <<n, c>> \in any1 /\ <<n, c>> \in ends1
  <2>1. Reading = "last" /\ "last" \in Each /\ "last" \in Ends  BY <1>1 DEF Reading, Each, Ends
  <2>2. \A n \in Nic, c \in Counter : <<n, c>> \in bad => <<n, c>> \in any1
    BY <1>1, <1>5, <2>1, BadLost
  <2>3. \A n \in Nic, c \in Counter : <<n, c>> \in bad => <<n, c>> \in ends1
    BY <1>1, <1>5, <2>1, BadLost
  <2> QED BY <2>2, <2>3
<1>8. lost \subseteq ends1 /\ any \subseteq any1
  <2>1. First \subseteq Ends  BY DEF First, Ends
  <2>2. lost \subseteq Lost(Ends, host)  BY <2>1, LostMore
  <2>3. Lost(Ends, host) \subseteq ends1 /\ any \subseteq any1  BY <1>1, <1>6, LostGrows
  <2> QED BY <2>2, <2>3
<1>9. Spares(lost) /\ Spares(any)  BY LostSpares
<1>10. Near(first, count)  BY <1>3, <1>4, NearFirst
<1>11. on \in Distances
  <2>1. \A n \in Nic, c \in Counter : count[n][c] \in Nat /\ first[n][c] \in Nat
    BY <1>3, <1>4 DEF Counts
  <2> HIDE DEF first
  <2> QED BY <2>1 DEF Moves, Distances
<1>12. Covers(host, start, on, count)
  <2> SUFFICES ASSUME NEW n \in Nic, NEW c \in Steady
      PROVE  /\ start[n][c] + on[n][c] <= count[n][c]
             /\ c \notin ReadableOf(host, n) => on[n][c] = 0
    BY DEF Covers
  <2>1. c \in Counter  BY DEF Steady
  <2>2. on[n][c] = IF c \in ReadableOf(host, n) THEN count[n][c] - first[n][c] ELSE 0
    BY <2>1 DEF Moves
  <2>3. start[n][c] \in Nat /\ first[n][c] \in Nat /\ count[n][c] \in Nat
    BY <1>3, <1>4, <2>1 DEF Counts
  <2>4. start[n][c] <= first[n][c] /\ first[n][c] <= count[n][c]  BY <1>4 DEF Between
  <2> HIDE DEF on, first
  <2> QED BY <2>2, <2>3, <2>4
<1>13. AllTold' /\ sampled'[host] = on
  <2> HIDE DEF on
  <2> QED BY <1>1, <1>2, <1>6, <1>11, OthersTold DEF Recorded
<1> HIDE DEF s, first, on, lost, ends1, any, any1
<1> DEFINE t == Append(s, x)
<1>14. /\ Len(t) >= 2 /\ Complete(t, names)
       /\ \A n \in Nic, i \in DOMAIN names :
            /\ <<n, names[i]>> \notin lost /\ <<n, names[i]>> \notin bad =>
                 Across(t, n, i) = on[n][names[i]]
            /\ <<n, names[i]>> \notin any /\ <<n, names[i]>> \notin bad =>
                 Added(t, n, i) = on[n][names[i]]
  BY <1>3, <1>4, <1>5, <1>9, <1>10, MoreFollows DEF on
<1> HIDE DEF t
<1>15. Told(TRUE, t, names, ends1, any1, on)
  <2>1. \A i \in DOMAIN names : names[i] \in Counter  BY <1>3, NamesAre
  <2>2. \A n \in Nic, i \in DOMAIN names :
          /\ <<n, names[i]>> \notin ends1 => <<n, names[i]>> \notin lost /\ <<n, names[i]>> \notin bad
          /\ <<n, names[i]>> \notin any1 => <<n, names[i]>> \notin any /\ <<n, names[i]>> \notin bad
    BY <1>7, <1>8, <2>1
  <2> QED BY <1>14, <2>2 DEF Told
<1>16. t = series'.samples  BY <1>5 DEF t
<1>17. ToldNow'
  <2>1. Told(TRUE, series'.samples, names', Lost(Ends, host)', Lost(Each, host)', sampled'[host'])
    BY <1>1, <1>13, <1>15, <1>16 DEF ends1, any1
  <2>2. Covers(host, start, sampled[host], count)'  BY <1>1, <1>12, <1>13
  <2> QED BY <1>1, <2>1, <2>2 DEF ToldNow
<1>18. SampledSoFar'  BY <1>1, <1>4, <1>6, <1>17 DEF SampledSoFar
<1> QED BY <1>13, <1>18 DEF Recorded

(* The steps that leave the samples, and what was lost, alone.               *)
LEMMA NowStill ==
  ASSUME UNCHANGED <<host, names, count, start, sampled, failed>>, series'.samples = series.samples
  PROVE  (FollowsNow => FollowsNow') /\ (ToldNow => ToldNow')
<1>1. UNCHANGED host /\ UNCHANGED failed  OBVIOUS
<1>2. \A readings : Lost(readings, host)' = Lost(readings, host)  BY <1>1 DEF Lost, Sound
<1>3. /\ Lost(First, host)' = Lost(First, host) /\ Lost(Ends, host)' = Lost(Ends, host)
      /\ Lost(Each, host)' = Lost(Each, host)
  BY <1>2
<1>4. ASSUME FollowsNow PROVE FollowsNow'
  <2>1. Follows(series'.samples, host', names', sampled'[host'], count', Lost(First, host)',
                Lost(Each, host)')
    BY <1>3, <1>4 DEF FollowsNow
  <2> QED BY <1>4, <2>1 DEF FollowsNow, Counts, Between
<1>5. ASSUME ToldNow PROVE ToldNow'
  <2>1. Told(TRUE, series'.samples, names', Lost(Ends, host)', Lost(Each, host)', sampled'[host'])
    BY <1>3, <1>5 DEF ToldNow
  <2>2. Covers(host', start', sampled'[host'], count')  BY <1>5 DEF ToldNow
  <2> QED BY <2>1, <2>2 DEF ToldNow
<1> QED BY <1>4, <1>5

(* The end of the command,                                                   *)
LEMMA CommandEndsTold == Shape /\ Recorded /\ CommandEnds => Recorded'
<1> SUFFICES ASSUME Shape, Recorded, CommandEnds PROVE Recorded'  OBVIOUS
<1>1. /\ UNCHANGED <<host, detailed, names, count, start, agg, moved, sampled, failed>>
      /\ pc = "command" /\ pc' = IF detailed THEN "last" ELSE "final"
  BY DEF CommandEnds, Goes
<1>2. /\ series'.hostname = series.hostname /\ series'.procid = series.procid
      /\ series'.samples = series.samples
  BY CommandSeries
<1>3. FollowsNow => FollowsNow'  BY <1>1, <1>2, NowStill
<1>4. SampledSoFar'
  <2>1. CASE detailed
    <3>1. pc' = "last"  BY <1>1, <2>1
    <3> QED BY <1>1, <1>2, <1>3, <2>1, <3>1 DEF Recorded, SampledSoFar
  <2>2. CASE ~detailed
    <3>1. pc' = "final"  BY <1>1, <2>2
    <3> QED BY <1>1, <1>2, <2>2, <3>1 DEF Recorded, SampledSoFar
  <2> QED BY <2>1, <2>2
<1>5. AllTold'  BY <1>1, QuietTold DEF Recorded
<1> QED BY <1>4, <1>5 DEF Recorded

(* and a message.                                                            *)
LEMMA SendTold == Recorded /\ Send => Recorded'
<1> SUFFICES ASSUME Recorded, Send PROVE Recorded'  OBVIOUS
<1>1. UNCHANGED <<host, detailed, names, count, start, series, agg, moved, sampled, failed>>
      /\ pc = "send" /\ pc' = "sent"
  BY DEF Send, Goes
<1>2. SampledSoFar'  BY <1>1 DEF Recorded, SampledSoFar
<1>3. AllTold'  BY <1>1, QuietTold DEF Recorded
<1> QED BY <1>2, <1>3 DEF Recorded

(* The next node starts with a series of its own.                            *)
LEMMA ReceiveTold == Shape /\ Recorded /\ Receive => Recorded'
<1> SUFFICES ASSUME Shape, Recorded, Receive PROVE Recorded'  OBVIOUS
<1>1. UNCHANGED <<detailed, names, moved, sampled, failed>> /\ pc' = "initial"
      /\ series' = NewSeries(host - 1) /\ host' = host - 1
  BY DEF Receive, Goes
<1>2. agg' = agg
  <2>1. Shape'  BY ReceiveShape
  <2>2. agg = pushed /\ agg' = pushed' /\ pushed' = pushed  BY <2>1 DEF Shape, Receive
  <2> QED BY <2>2
<1>3. series'.hostname = host' /\ series'.procid = host' - 1 /\ series'.samples = <<>>
  BY <1>1 DEF NewSeries
<1>4. SampledSoFar'  BY <1>1, <1>3 DEF SampledSoFar
<1>5. AllTold'  BY <1>1, <1>2, QuietTold DEF Recorded
<1> QED BY <1>4, <1>5 DEF Recorded

(* A counter moves: what the samples tell is still no more than it counted.  *)
LEMMA MoveTold ==
  ASSUME NEW n \in Nic, NEW c \in Counter, Shape, Counted, Recorded, Move(n, c)
  PROVE  Recorded'
<1>1. /\ UNCHANGED <<pc, detailed, names, start, series, agg, moved, sampled>>
      /\ UNCHANGED host /\ UNCHANGED failed
      /\ pc \in Measuring /\ count' \in Counts
      /\ \A m \in Nic, d \in Steady : count'[m][d] = count[m][d] \/ 
           (m = n /\ d = c /\ count'[m][d] = count[m][d] + 1)
  BY MoveIs
<1>2. host \in Host /\ count \in Counts /\ start \in Counts /\ IsNames(names)
  BY <1>1, WhileMeasuring
<1>3. \A m \in Nic, d \in Steady :
        /\ count[m][d] \in Nat /\ count'[m][d] \in Nat /\ count[m][d] <= count'[m][d]
  <2> SUFFICES ASSUME NEW m \in Nic, NEW d \in Steady
      PROVE  count[m][d] \in Nat /\ count'[m][d] \in Nat /\ count[m][d] <= count'[m][d]
    OBVIOUS
  <2>1. count[m][d] \in Nat  BY <1>2 DEF Counts, Steady
  <2> QED BY <1>1, <2>1
<1>4. \A readings : Lost(readings, host)' = Lost(readings, host)  BY <1>1 DEF Lost, Sound
<1>5. /\ Lost(First, host)' = Lost(First, host) /\ Lost(Ends, host)' = Lost(Ends, host)
      /\ Lost(Each, host)' = Lost(Each, host)
  BY <1>4
<1>6. ASSUME FollowsNow PROVE FollowsNow'
  <2> DEFINE first == sampled[host]  lost == Lost(First, host)  any == Lost(Each, host)
  <2>1. /\ first \in Counts /\ Follows(series.samples, host, names, first, count, lost, any)
        /\ Between(start, first, count)
    BY <1>6 DEF FollowsNow
  <2>2. Spares(any)  BY LostSpares
  <2> HIDE DEF first, lost, any
  <2>3. Follows(series.samples, host, names, first, count', lost, any)
    BY <1>1, <1>2, <1>3, <2>1, <2>2, StillFollows
  <2>4. Between(start, first, count')
    <3> SUFFICES ASSUME NEW m \in Nic, NEW d \in Steady
        PROVE  start[m][d] <= first[m][d] /\ first[m][d] <= count'[m][d]
      BY DEF Between
    <3>1. start[m][d] <= first[m][d] /\ first[m][d] <= count[m][d] /\ first[m][d] \in Nat
      BY <2>1 DEF Between, Counts, Steady
    <3> QED BY <1>3, <3>1
  <2>5. /\ first' = first /\ lost' = lost /\ any' = any
    BY <1>1, <1>5 DEF first, lost, any
  <2>6. Follows(series'.samples, host', names', first', count', lost', any')
    BY <1>1, <2>3, <2>5
  <2>7. Between(start', first', count') /\ first' \in Counts
    BY <1>1, <2>1, <2>4, <2>5
  <2> QED BY <2>6, <2>7 DEF FollowsNow, first, lost, any, Counts
<1>7. ASSUME ToldNow PROVE ToldNow'
  <2> DEFINE on == sampled[host]  ends == Lost(Ends, host)  any == Lost(Each, host)
  <2>1. /\ Told(TRUE, series.samples, names, ends, any, on) /\ Covers(host, start, on, count)
    BY <1>7 DEF ToldNow
  <2>2. on \in Distances  BY <1>2 DEF Recorded, AllTold
  <2> HIDE DEF on, ends, any
  <2>3. Covers(host, start, on, count')
    <3> SUFFICES ASSUME NEW m \in Nic, NEW d \in Steady
        PROVE  /\ start[m][d] + on[m][d] <= count'[m][d]
               /\ d \notin ReadableOf(host, m) => on[m][d] = 0
      BY DEF Covers
    <3>1. start[m][d] \in Nat /\ on[m][d] \in Int
      BY <1>2, <2>2 DEF Counts, Distances, Steady
    <3>2. /\ start[m][d] + on[m][d] <= count[m][d]
          /\ d \notin ReadableOf(host, m) => on[m][d] = 0
      BY <2>1 DEF Covers
    <3> QED BY <1>3, <3>1, <3>2
  <2>4. on' = on /\ ends' = ends /\ any' = any  BY <1>1, <1>5 DEF on, ends, any
  <2>5. Told(TRUE, series'.samples, names', ends', any', on')  BY <1>1, <2>1, <2>4
  <2>6. Covers(host', start', on', count')  BY <1>1, <2>3, <2>4
  <2> QED BY <2>5, <2>6 DEF ToldNow, on, ends, any
<1>8. SampledSoFar'  BY <1>1, <1>6, <1>7 DEF Recorded, SampledSoFar
<1>9. AllTold'  BY <1>1, QuietTold DEF Recorded
<1> QED BY <1>8, <1>9 DEF Recorded

(* What the samples of a NIC tell is within what it moved between the total  *)
(* readings.                                                                 *)
LEMMA CoveredOn ==
  ASSUME NEW h, NEW from \in Counts, NEW on \in Distances, NEW to \in Counts,
         Covers(h, from, on, to), NEW n \in Nic, NEW c \in Steady
  PROVE  on[n][c] <= Moves(h, from, to)[n][c]
<1>1. /\ from[n][c] \in Nat /\ to[n][c] \in Nat /\ on[n][c] \in Int /\ c \in Counter
  BY DEF Counts, Distances, Steady
<1>2. /\ from[n][c] + on[n][c] <= to[n][c]
      /\ c \notin ReadableOf(h, n) => on[n][c] = 0
  BY DEF Covers
<1>3. Moves(h, from, to)[n][c] = IF c \in ReadableOf(h, n) THEN to[n][c] - from[n][c] ELSE 0
  BY <1>1 DEF Moves
<1> QED BY <1>1, <1>2, <1>3

(* The series is appended as it is, and the node moved at least what its     *)
(* samples tell.                                                             *)
LEMMA ReadFinalTold == Shape /\ Counted /\ Recorded /\ ReadFinal => Recorded'
<1> SUFFICES ASSUME Shape, Counted, Recorded, ReadFinal PROVE Recorded'  OBVIOUS
<1> DEFINE S == agg.series
           on == Moves(host, start, count)
<1>1. /\ pc = "final" /\ pc' = IF host = 1 THEN "publish" ELSE "send"
      /\ UNCHANGED <<detailed, names, count, start, series, sampled>> /\ UNCHANGED host
      /\ failed \subseteq failed' /\ moved' = [moved EXCEPT ![host] = on]
      /\ agg'.series = Append(S, series)
  <2>1. moved' = [moved EXCEPT ![host] = on]  BY SinceIs DEF ReadFinal
  <2>2. PICK failing \in Failures : /\ agg' = Push(agg, Total(Files(failing), names))
                                   /\ failed' = failed \cup Failed("final", failing)
    BY DEF ReadFinal
  <2>3. agg'.series = Append(S, series)  BY <2>2 DEF Push
  <2>4. /\ pc = "final" /\ pc' = IF host = 1 THEN "publish" ELSE "send"
        /\ UNCHANGED <<detailed, names, count, start, series, sampled>> /\ UNCHANGED host
    BY DEF ReadFinal, Goes
  <2> QED BY <2>1, <2>2, <2>3, <2>4
<1>2. /\ host \in Host /\ count \in Counts /\ start \in Counts /\ IsNames(names)
      /\ Hosts \in Nat \ {0} /\ Host = 1..Hosts /\ IsSeq(S)
      /\ DOMAIN S = 1..(Hosts - host) /\ Len(S) = Hosts - host
      /\ detailed \in BOOLEAN
  BY <1>1, WhileMeasuring DEF Measuring, Shape
<1>3. /\ sampled \in [Host -> Distances] /\ sampled[host] \in Distances
      /\ moved \in [Host -> Distances]
      /\ \A i \in DOMAIN S : SeriesIs(i)
  BY <1>2 DEF Recorded, AllTold, Counted, RowsMoved
<1>5. moved'[host] = on /\ \A h \in Host \ {host} : moved'[h] = moved[h]  BY <1>1, <1>2, <1>3
<1>6. /\ series.hostname = host /\ series.procid = host - 1
      /\ detailed => ToldNow
      /\ ~detailed => series.samples = <<>>
  BY <1>1 DEF Recorded, SampledSoFar
<1>7. SeriesTold(detailed, series, Hosts - host + 1, names, Lost(Ends, host)', Lost(Each, host)',
                 sampled[host], on)
  <2>1. Hosts - (Hosts - host + 1) + 1 = host /\ Hosts - (Hosts - host + 1) = host - 1
    BY <1>2
  <2>2. ASSUME detailed, NEW n \in Nic, NEW c \in Steady PROVE sampled[host][n][c] <= on[n][c]
    <3>1. Covers(host, start, sampled[host], count)  BY <1>6, <2>2 DEF ToldNow
    <3> QED BY <3>1, <1>2, <1>3, CoveredOn
  <2>3. Lost(Ends, host) \subseteq Lost(Ends, host)' /\ Lost(Each, host) \subseteq Lost(Each, host)'
    BY <1>1, LostGrows
  <2>4. Told(detailed, series.samples, names, Lost(Ends, host), Lost(Each, host), sampled[host])
    <3>1. CASE detailed
      <4>1. Told(TRUE, series.samples, names, Lost(Ends, host), Lost(Each, host), sampled[host])
        BY <1>6, <3>1 DEF ToldNow
      <4>2. detailed = TRUE  BY <1>2, <3>1
      <4> QED BY <4>1, <4>2
    <3>2. CASE ~detailed  BY <1>6, <3>2 DEF Told
    <3> QED BY <3>1, <3>2
  <2>5. Told(detailed, series.samples, names, Lost(Ends, host)', Lost(Each, host)', sampled[host])
    BY <2>3, <2>4, ToldStill
  <2> HIDE DEF on
  <2> QED BY <2>1, <2>2, <2>5, <1>6 DEF SeriesTold
<1> HIDE DEF S, on
<1>8. /\ DOMAIN agg'.series = 1..(Hosts - host + 1)
      /\ \A i \in 1..(Hosts - host) : agg'.series[i] = S[i]
      /\ agg'.series[Hosts - host + 1] = series
  BY <1>1, <1>2, AppendIs
<1>9. ASSUME NEW i \in DOMAIN agg'.series PROVE SeriesIs(i)'
  <2> DEFINE h == Hosts - i + 1
  <2>1. CASE i \in 1..(Hosts - host)
    <3>1. h \in Host \ {host}  BY <1>2, <2>1
    <3>2. moved'[h] = moved[h] /\ sampled'[h] = sampled[h]  BY <1>1, <1>5, <3>1
    <3>3. agg'.series[i] = S[i] /\ i \in DOMAIN S  BY <1>2, <1>8, <2>1
    <3>4. SeriesTold(detailed, S[i], i, names, Lost(Ends, h), Lost(Each, h), sampled[h], moved[h])
      BY <1>3, <3>3 DEF SeriesIs, S
    <3>5. Lost(Ends, h) \subseteq Lost(Ends, h)' /\ Lost(Each, h) \subseteq Lost(Each, h)'
      BY <1>1, LostGrows
    <3>6. Told(detailed, S[i].samples, names, Lost(Ends, h), Lost(Each, h), sampled[h])
      BY <3>4 DEF SeriesTold
    <3>7. Told(detailed, S[i].samples, names, Lost(Ends, h)', Lost(Each, h)', sampled[h])
      BY <3>5, <3>6, ToldStill
    <3>8. SeriesTold(detailed, S[i], i, names, Lost(Ends, h)', Lost(Each, h)', sampled[h], moved[h])
      BY <3>4, <3>7 DEF SeriesTold
    <3>9. SeriesTold(detailed', agg'.series[i], i, names', Lost(Ends, h)', Lost(Each, h)',
                     sampled'[h], moved'[h])
      BY <1>1, <3>2, <3>3, <3>8
    <3> QED BY <3>9 DEF SeriesIs
  <2>2. CASE i = Hosts - host + 1
    <3>1. h = host  BY <1>2, <2>2
    <3>2. agg'.series[i] = series  BY <1>8, <2>2
    <3>3. SeriesTold(detailed', agg'.series[i], i, names', Lost(Ends, host)', Lost(Each, host)',
                     sampled'[host], moved'[host])
      BY <1>1, <1>5, <1>7, <2>2, <3>2
    <3>4. SeriesTold(detailed, agg.series[i], i, names, Lost(Ends, host), Lost(Each, host),
                     sampled[host], moved[host])'
      BY <1>1, <3>3
    <3>5. Hosts - i + 1 = host'  BY <1>1, <3>1
    <3> QED BY <3>4, <3>5 DEF SeriesIs
  <2>3. i \in 1..(Hosts - host) \/ i = Hosts - host + 1  BY <1>2, <1>8
  <2> QED BY <2>1, <2>2, <2>3
<1>10. AllTold'  BY <1>1, <1>3, <1>9 DEF AllTold, Distances
<1>11. SampledSoFar'
  <2>1. pc' \in {"publish", "send"}  BY <1>1
  <2> QED BY <1>1, <1>6, <2>1 DEF SampledSoFar
<1> QED BY <1>10, <1>11 DEF Recorded

(* So every step keeps it.                                                   *)
LEMMA NextTold == Shape /\ Counted /\ Recorded /\ [Next]_vars => Recorded'
<1>1. ASSUME Recorded, UNCHANGED vars PROVE Recorded'
  <2>1. /\ UNCHANGED <<host, names, count, start, sampled, failed>>
        /\ UNCHANGED <<pc, detailed, series, agg, moved>>
    BY <1>1 DEF vars
  <2>2. (FollowsNow => FollowsNow') /\ (ToldNow => ToldNow')  BY <2>1, NowStill
  <2>3. SampledSoFar'  BY <1>1, <2>1, <2>2 DEF Recorded, SampledSoFar
  <2>4. AllTold'  BY <1>1, <2>1, QuietTold DEF Recorded
  <2> QED BY <2>3, <2>4 DEF Recorded
<1> QED BY <1>1, StepIs, StartTold, ReadInitialTold, FirstSampleTold, SampleTold,
           CommandEndsTold, LastSampleTold, ReadFinalTold, SendTold, ReceiveTold, MoveTold

(* And it always holds.                                                      *)
LEMMA RecordedAlways == Spec => []Recorded
BY InitTold, NextTold, ShapeAlways, CountedAlways, PTL DEF Spec

----------------------------------------------------------------------------
(* What the first node makes of the series.                                  *)

(* What the series of a node h tells at the end, t.                          *)
IsToldOf(h, t) ==
  /\ t.hostname = h /\ t.procid = h - 1 /\ IsSeq(t.samples)
  /\ Told(detailed, t.samples, names, Lost(Ends, h), Lost(Each, h), sampled[h])
  /\ detailed => \A n \in Nic, c \in Steady : sampled[h][n][c] <= moved[h][n][c]

(* An entry of the aggregate at the end.                                     *)
LEMMA AtTheEnd ==
  ASSUME Shape, Counted, Recorded, pc = "publish"
  PROVE  /\ Hosts \in Nat \ {0} /\ Host = 1..Hosts /\ IsNames(names)
         /\ detailed \in BOOLEAN
         /\ sampled \in [Host -> Distances] /\ moved \in [Host -> Distances]
         /\ DOMAIN agg.series = 1..Hosts
         /\ \A i \in 1..Hosts : IsToldOf(Hosts - i + 1, agg.series[i])
<1> DEFINE S == agg.series
<1>1. /\ Hosts \in Nat \ {0} /\ Host = 1..Hosts /\ IsNames(names) /\ detailed \in BOOLEAN
      /\ sampled \in [Host -> Distances] /\ moved \in [Host -> Distances]
      /\ host = 1 /\ IsSeq(S) /\ Len(S) = Appended
      /\ \A i \in DOMAIN S : IsSeq(S[i].samples)
      /\ \A i \in DOMAIN S : SeriesIs(i)
  BY ReportAssumption
     DEF Shape, Held, IsAggregate, IsSeries, Counted, RowsMoved, Recorded, AllTold, Host
<1>2. Appended = Hosts  BY <1>1 DEF Appended
<1>3. ASSUME NEW i \in DOMAIN S, i \in Nat PROVE IsToldOf(Hosts - i + 1, S[i])
  <2>1. SeriesTold(detailed, S[i], i, names, Lost(Ends, Hosts - i + 1),
                   Lost(Each, Hosts - i + 1), sampled[Hosts - i + 1], moved[Hosts - i + 1])
    BY <1>1 DEF SeriesIs
  <2>2. Hosts - i + 1 - 1 = Hosts - i  BY <1>1, <1>3
  <2> HIDE DEF S
  <2> QED BY <1>1, <2>1, <2>2 DEF SeriesTold, IsToldOf
<1> HIDE DEF S
<1>4. DOMAIN S = 1..Hosts  BY <1>1, <1>2, Elements
<1> QED BY <1>1, <1>3, <1>4 DEF S

(* The NICs of a series with samples are all NICs.                           *)
LEMMA NicsAre ==
  ASSUME NEW full \in BOOLEAN, NEW t, IsSeq(t.samples), NEW list, NEW ends, NEW any, NEW on,
         Told(full, t.samples, list, ends, any, on)
  PROVE  /\ Nics(t) = IF full THEN Nic ELSE {}
         /\ full => \A n \in Nic, i \in DOMAIN list :
              /\ Difference(t, n, i) \in Nat
              /\ Difference(t, n, i) = Across(t.samples, n, i)
<1>1. CASE full
  <2> DEFINE s == t.samples
  <2>1. Len(s) >= 2 /\ \A j \in DOMAIN s : s[j].nics \in [Nic -> [DOMAIN list -> Nat]]
    BY <1>1 DEF Told, Complete
  <2>2. Len(s) \in Nat /\ DOMAIN s = 1..Len(s)  BY Elements
  <2>a. \A n, i : Difference(t, n, i) = Across(s, n, i)  BY DEF Difference, Across
  <2> HIDE DEF s
  <2>3. 1 \in DOMAIN s /\ Len(s) \in DOMAIN s /\ ~(Len(s) < 2)  BY <2>1, <2>2
  <2>4. /\ s[1].nics \in [Nic -> [DOMAIN list -> Nat]]
        /\ Last(s).nics \in [Nic -> [DOMAIN list -> Nat]]
    BY <2>1, <2>3 DEF Last
  <2>5. Nics(t) = Nic
    <3>1. Nics(t) = DOMAIN s[1].nics \cap DOMAIN Last(s).nics  BY <2>3 DEF Nics, s
    <3> QED BY <3>1, <2>4
  <2>6. ASSUME NEW n \in Nic, NEW i \in DOMAIN list PROVE Across(s, n, i) \in Nat
    <3> DEFINE a == Last(s).nics[n][i]  b == s[1].nics[n][i]
    <3>1. a \in Nat /\ b \in Nat  BY <2>4
    <3>2. Across(s, n, i) = Subtract(a, b)  BY DEF Across
    <3> HIDE DEF a, b
    <3> QED BY <3>1, <3>2, SubtractType
  <2> QED BY <1>1, <2>a, <2>5, <2>6 DEF s
<1>2. CASE ~full
  <2>1. t.samples = <<>>  BY <1>2 DEF Told
  <2>2. Len(<<>>) < 2  BY EmptyIs
  <2> QED BY <1>2, <2>1, <2>2 DEF Nics
<1> QED BY <1>1, <1>2

(* The selected timeout counters, those that moved, and those that are not   *)
(* known.                                                                    *)
Timeouts == ToSet(names) \cap ToSet(TimeoutNames)
RoseOn(h, n) == \E c \in Timeouts : Sound(Ends, h, n, c) /\ sampled[h][n][c] > 0
DoubtOn(h, n) == \E c \in Timeouts : ~Sound(Ends, h, n, c)

(* So the NICs are told apart.                                               *)
LEMMA ChangedOn ==
  ASSUME NEW h \in Host, NEW t, NEW n \in Nic, IsToldOf(h, t), detailed, detailed \in BOOLEAN,
         IsNames(names), sampled \in [Host -> Distances]
  PROVE  /\ RoseOn(h, n) => TimeoutChanged(names, t, n)
         /\ TimeoutChanged(names, t, n) => RoseOn(h, n) \/ DoubtOn(h, n)
<1>1. Told(TRUE, t.samples, names, Lost(Ends, h), Lost(Each, h), sampled[h]) /\ IsSeq(t.samples)
  <2>1. detailed = TRUE  OBVIOUS
  <2> QED BY <2>1 DEF IsToldOf
<1>2. \A j \in DOMAIN names : /\ Difference(t, n, j) \in Nat
                              /\ Difference(t, n, j) = Across(t.samples, n, j)
  BY <1>1, NicsAre
<1>3. \A j \in DOMAIN names : names[j] \in Counter /\ names[j] \in ToSet(names)  BY NamesAre
<1>4. \A j \in DOMAIN names : Sound(Ends, h, n, names[j]) =>
        Across(t.samples, n, j) = sampled[h][n][names[j]]
  BY <1>1, <1>3, NotLost DEF Told
<1>5. TimeoutChanged(names, t, n) <=>
        \E j \in DOMAIN names : names[j] \in ToSet(TimeoutNames) /\ Difference(t, n, j) # 0
  BY DEF TimeoutChanged, TimeoutIndices
<1>6. ToSet(names) = {names[j] : j \in DOMAIN names}  BY DEF ToSet
<1>7. ASSUME RoseOn(h, n) PROVE TimeoutChanged(names, t, n)
  <2>1. PICK c \in Timeouts : Sound(Ends, h, n, c) /\ sampled[h][n][c] > 0
    BY <1>7 DEF RoseOn
  <2>2. PICK j \in DOMAIN names : names[j] = c  BY <1>6 DEF Timeouts
  <2>3. Difference(t, n, j) = sampled[h][n][c] /\ Difference(t, n, j) \in Nat
    BY <1>2, <1>4, <2>1, <2>2
  <2>4. Difference(t, n, j) # 0  BY <2>1, <2>3
  <2> QED BY <1>5, <2>2, <2>4 DEF Timeouts
<1>8. ASSUME TimeoutChanged(names, t, n), ~DoubtOn(h, n) PROVE RoseOn(h, n)
  <2>1. PICK j \in DOMAIN names : names[j] \in ToSet(TimeoutNames) /\ Difference(t, n, j) # 0
    BY <1>5, <1>8
  <2>2. names[j] \in Timeouts  BY <1>3, <2>1 DEF Timeouts
  <2>3. Sound(Ends, h, n, names[j])  BY <1>8, <2>2 DEF DoubtOn
  <2>4. Difference(t, n, j) = sampled[h][n][names[j]] /\ Difference(t, n, j) \in Nat
    BY <1>2, <1>4, <2>3
  <2>5. sampled[h][n][names[j]] > 0  BY <2>1, <2>4
  <2> QED BY <2>2, <2>3, <2>5 DEF RoseOn
<1> QED BY <1>7, <1>8

(* The nodes in the aggregate are all nodes.                                 *)
AllNics == IF detailed THEN Host \X Nic ELSE {}
LEMMA AllTablesAre ==
  ASSUME Shape, Counted, Recorded, pc = "publish"
  PROVE  /\ AllTables(agg.series) = AllNics
         /\ {nic \in AllNics : RoseOn(nic[1], nic[2])} \subseteq TimeoutTables(names, agg.series)
         /\ TimeoutTables(names, agg.series) \subseteq
              {nic \in AllNics : RoseOn(nic[1], nic[2]) \/ DoubtOn(nic[1], nic[2])}
<1> DEFINE S == agg.series
<1>1. /\ Hosts \in Nat \ {0} /\ Host = 1..Hosts /\ IsNames(names) /\ detailed \in BOOLEAN
      /\ sampled \in [Host -> Distances] /\ DOMAIN S = 1..Hosts
      /\ \A i \in 1..Hosts : IsToldOf(Hosts - i + 1, S[i])
  BY AtTheEnd
<1>2. ToSet(S) = {S[i] : i \in 1..Hosts}  BY <1>1 DEF ToSet
<1> HIDE DEF S
<1>3. ASSUME NEW i \in 1..Hosts
      PROVE  /\ S[i].hostname = Hosts - i + 1
             /\ Nics(S[i]) = IF detailed THEN Nic ELSE {}
  <2> DEFINE h == Hosts - i + 1
  <2>1. IsToldOf(h, S[i])  BY <1>1
  <2> HIDE DEF h
  <2>2. /\ S[i].hostname = h /\ IsSeq(S[i].samples)
        /\ Told(detailed, S[i].samples, names, Lost(Ends, h), Lost(Each, h), sampled[h])
    BY <2>1 DEF IsToldOf
  <2>3. Nics(S[i]) = IF detailed THEN Nic ELSE {}  BY <1>1, <2>2, NicsAre
  <2> QED BY <2>2, <2>3 DEF h
<1>4. ASSUME detailed, NEW i \in 1..Hosts, NEW n \in Nic
      PROVE  /\ RoseOn(Hosts - i + 1, n) => TimeoutChanged(names, S[i], n)
             /\ TimeoutChanged(names, S[i], n) =>
                  RoseOn(Hosts - i + 1, n) \/ DoubtOn(Hosts - i + 1, n)
  <2>1. Hosts - i + 1 \in Host  BY <1>1
  <2> QED BY <1>1, <1>4, <2>1, ChangedOn
<1>5. \A h \in Host : Hosts - h + 1 \in 1..Hosts /\ Hosts - (Hosts - h + 1) + 1 = h
  BY <1>1
<1>6. AllTables(S) = UNION {{<<S[i].hostname, n>> : n \in Nics(S[i])} : i \in 1..Hosts}
  BY <1>2 DEF AllTables
<1>7. TimeoutTables(names, S) =
        UNION {{<<S[i].hostname, n>> : n \in {m \in Nics(S[i]) : TimeoutChanged(names, S[i], m)}} :
                 i \in 1..Hosts}
  BY <1>2 DEF TimeoutTables
<1>8. CASE ~detailed
  <2>1. \A i \in 1..Hosts : Nics(S[i]) = {}  BY <1>3, <1>8
  <2>2. AllTables(S) = {} /\ TimeoutTables(names, S) = {}  BY <2>1, <1>6, <1>7
  <2> QED BY <1>8, <2>2 DEF S, AllNics
<1>9. CASE detailed
  <2>0. \A i \in 1..Hosts : Nics(S[i]) = Nic /\ S[i].hostname = Hosts - i + 1
                            /\ Hosts - i + 1 \in Host
    BY <1>1, <1>3, <1>9
  <2>1. AllTables(S) = Host \X Nic
    <3>1. ASSUME NEW z \in AllTables(S) PROVE z \in Host \X Nic  BY <2>0, <1>6
    <3>2. ASSUME NEW h \in Host, NEW n \in Nic PROVE <<h, n>> \in AllTables(S)
      <4>1. PICK i \in 1..Hosts : Hosts - i + 1 = h  BY <1>5
      <4>2. <<h, n>> \in {<<S[i].hostname, m>> : m \in Nics(S[i])}  BY <4>1, <2>0
      <4> QED BY <4>2, <1>6
    <3> QED BY <3>1, <3>2
  <2>2. ASSUME NEW z \in TimeoutTables(names, S)
        PROVE  z \in Host \X Nic /\ (RoseOn(z[1], z[2]) \/ DoubtOn(z[1], z[2]))
    <3>1. PICK i \in 1..Hosts :
            z \in {<<S[i].hostname, n>> : n \in {m \in Nics(S[i]) : TimeoutChanged(names, S[i], m)}}
      BY <1>7
    <3>2. PICK n \in Nic : TimeoutChanged(names, S[i], n) /\ z = <<Hosts - i + 1, n>>
      BY <3>1, <2>0
    <3>3. RoseOn(Hosts - i + 1, n) \/ DoubtOn(Hosts - i + 1, n)  BY <3>2, <1>4, <1>9
    <3> QED BY <3>2, <3>3, <2>0
  <2>3. ASSUME NEW h \in Host, NEW n \in Nic, RoseOn(h, n)
        PROVE  <<h, n>> \in TimeoutTables(names, S)
    <3>1. PICK i \in 1..Hosts : Hosts - i + 1 = h  BY <1>5
    <3>2. TimeoutChanged(names, S[i], n)  BY <3>1, <2>3, <1>4, <1>9
    <3>3. <<h, n>> \in {<<S[i].hostname, m>> : m \in {k \in Nics(S[i]) : TimeoutChanged(names, S[i], k)}}
      BY <3>1, <3>2, <2>0
    <3> QED BY <3>3, <1>7
  <2>4. AllNics = Host \X Nic  BY <1>9 DEF AllNics
  <2> QED BY <2>1, <2>2, <2>3, <2>4 DEF S
<1> QED BY <1>1, <1>8, <1>9

(* For any number of nodes and NICs: the levels on_error, all_on_error and   *)
(* all print tables of exactly the NICs they should                          *)
(* (counter_aggregation.cpp:146-285), by the selected timeout counters that  *)
(* moved, wrapped around or not, as far as the first and the last reading of *)
(* them did not fail.                                                        *)
THEOREM TimeoutsAreNamed == Spec => []TimeoutsNamed
<1>1. Shape /\ Counted /\ Recorded => TimeoutsNamed
  <2> SUFFICES ASSUME Shape, Counted, Recorded, pc = "publish", NEW level \in LevelsOf(names)
      PROVE  LET all == IF detailed THEN Host \X Nic ELSE {}
                 timeouts == ToSet(names) \cap ToSet(TimeoutNames)
                 sound(nic, c) == Sound({"first", "last"}, nic[1], nic[2], c)
                 timedOut == {nic \in all : \E c \in timeouts :
                                sound(nic, c) /\ sampled[nic[1]][nic[2]][c] > 0}
                 doubtful == {nic \in all : \E c \in timeouts : ~sound(nic, c)}
                 tables == Tables(level, names, agg.series)
             IN  CASE level = "all" -> tables = all
                   [] level = "on_error" ->
                        timedOut \subseteq tables /\ tables \subseteq timedOut \cup doubtful
                   [] level = "all_on_error" ->
                        /\ tables \in {{}, all}
                        /\ timedOut # {} => tables = all
                        /\ timedOut \cup doubtful = {} => tables = {}
                   [] OTHER -> tables = {}
    BY DEF TimeoutsNamed
  <2> DEFINE timedOut == {nic \in AllNics : RoseOn(nic[1], nic[2])}
             doubtful == {nic \in AllNics : DoubtOn(nic[1], nic[2])}
             T == TimeoutTables(names, agg.series)
             tables == Tables(level, names, agg.series)
  <2>1. AllTables(agg.series) = AllNics  BY AllTablesAre
  <2>2. timedOut \subseteq T /\ T \subseteq timedOut \cup doubtful
    <3>1. T \subseteq {nic \in AllNics : RoseOn(nic[1], nic[2]) \/ DoubtOn(nic[1], nic[2])}
      BY AllTablesAre
    <3> QED BY <3>1, AllTablesAre
  <2>3. tables = CASE level = "on_error" -> T
                   [] level = "all_on_error" -> IF T = {} THEN {} ELSE AllNics
                   [] level = "all" -> AllNics
                   [] OTHER -> {}
    BY <2>1 DEF Tables, TablesOnTimeout
  <2> HIDE DEF timedOut, doubtful, T, tables
  <2>4. (CASE level = "all" -> tables = AllNics
          [] level = "on_error" ->
               timedOut \subseteq tables /\ tables \subseteq timedOut \cup doubtful
          [] level = "all_on_error" ->
               /\ tables \in {{}, AllNics}
               /\ timedOut # {} => tables = AllNics
               /\ timedOut \cup doubtful = {} => tables = {}
          [] OTHER -> tables = {})
    <3>1. CASE level = "all"  BY <2>3, <3>1
    <3>2. CASE level = "on_error"  BY <2>2, <2>3, <3>2
    <3>3. CASE level = "all_on_error"
      <4>1. tables = IF T = {} THEN {} ELSE AllNics  BY <2>3, <3>3
      <4> QED BY <2>2, <3>3, <4>1
    <3>4. CASE level \notin {"all", "on_error", "all_on_error"}  BY <2>3, <3>4
    <3> QED BY <3>1, <3>2, <3>3, <3>4
  <2>5. timedOut = {nic \in AllNics : \E c \in Timeouts :
                      Sound(Ends, nic[1], nic[2], c) /\ sampled[nic[1]][nic[2]][c] > 0}
    BY DEF timedOut, RoseOn
  <2>6. doubtful = {nic \in AllNics : \E c \in Timeouts : ~Sound(Ends, nic[1], nic[2], c)}
    BY DEF doubtful, DoubtOn
  <2> QED BY <2>4, <2>5, <2>6 DEF AllNics, Timeouts, Ends, tables
<1> QED BY <1>1, ShapeAlways, CountedAlways, RecordedAlways, PTL

----------------------------------------------------------------------------
(* The JSON document.                                                        *)

(* The ends of 1..k.                                                         *)
LEMMA EndsOf ==
  ASSUME NEW k \in Nat \ {0}
  PROVE  Min(1..k) = 1 /\ Max(1..k) = k /\ IsFiniteSet(1..k) /\ Cardinality(1..k) = k
<1>1. 1 \in 1..k /\ k \in 1..k /\ \A y \in 1..k : 1 <= y /\ k >= y  OBVIOUS
<1>2. \A x \in 1..k : (\A y \in 1..k : x <= y) => x = 1  OBVIOUS
<1>3. \A x \in 1..k : (\A y \in 1..k : x >= y) => x = k  OBVIOUS
<1>4. Min(1..k) = 1
  <2> DEFINE S == 1..k
  <2>1. 1 \in S /\ (\A y \in S : 1 <= y) /\ \A x \in S : (\A y \in S : x <= y) => x = 1
    BY <1>1, <1>2
  <2> HIDE DEF S
  <2>2. Min(S) = 1  BY <2>1 DEF Min
  <2> QED BY <2>2 DEF S
<1>5. Max(1..k) = k
  <2> DEFINE S == 1..k
  <2>1. k \in S /\ (\A y \in S : k >= y) /\ \A x \in S : (\A y \in S : x >= y) => x = k
    BY <1>1, <1>3
  <2> HIDE DEF S
  <2>2. Max(S) = k  BY <2>1 DEF Max
  <2> QED BY <2>2 DEF S
<1>6. IsFiniteSet(1..k) /\ Cardinality(1..k) = k
  <2>1. 1 \in Int /\ k \in Int /\ 1 <= k  OBVIOUS
  <2>2. IsFiniteSet(1..k) /\ Cardinality(1..k) = k - 1 + 1  BY <2>1, FS_Interval
  <2> QED BY <2>2
<1> QED BY <1>4, <1>5, <1>6

(* The counters of a NIC of which neither end failed, the members of its     *)
(* JSON object with their names, and those there should be.                  *)
ToldOf(list, ends, n) == {c \in ToSet(list) : <<n, c>> \notin ends}
Pairs(object, told) == {<<c, object[c]>> : c \in DOMAIN object \cap told}
Positive(told, on) == {<<c, on[c]>> : c \in {d \in told : on[d] > 0}}
JsonTells(t, list, ends, on, n) ==
  Pairs(JsonDeltas(list, t, n), ToldOf(list, ends, n)) = Positive(ToldOf(list, ends, n), on[n])

(* The JSON document of a node. *)
LEMMA JsonOf ==
  ASSUME NEW t, IsSeq(t.samples), NEW list, IsNames(list), NEW ends, NEW any, NEW on,
         Told(TRUE, t.samples, list, ends, any, on)
  PROVE  /\ JsonNics(t) = Nic
         /\ \A n \in Nic : JsonTells(t, list, ends, on, n)
<1> DEFINE s == t.samples
           k == Len(s)
<1>1. /\ k \in Nat \ {0} /\ k >= 2 /\ DOMAIN s = 1..k
      /\ \A j \in 1..k : DOMAIN s[j].nics = Nic
  BY Elements DEF Told, Complete
<1>2. ToSet(s) = {s[j] : j \in 1..k}  BY <1>1 DEF ToSet
<1>3. JsonNics(t) = UNION {DOMAIN x.nics : x \in ToSet(s)}  BY DEF JsonNics
<1>a. \A n \in Nic, i \in DOMAIN list :
        <<n, list[i]>> \notin ends => Across(s, n, i) = on[n][list[i]]
  BY DEF Told
<1> HIDE DEF s
<1>4. JsonNics(t) = Nic
  <2>1. 1 \in 1..k  BY <1>1
  <2> HIDE DEF k
  <2>2. {DOMAIN x.nics : x \in ToSet(s)} = {Nic}  BY <1>1, <1>2, <2>1
  <2> QED BY <1>3, <2>2
<1>5. ASSUME NEW n \in Nic
      PROVE  JsonTells(t, list, ends, on, n)
  <2> DEFINE told == ToldOf(list, ends, n)
             deltas == JsonDeltas(list, t, n)
             has == {i \in DOMAIN s : n \in DOMAIN s[i].nics}
             delta(c) == Subtract(s[Max(has)].nics[n][c], s[Min(has)].nics[n][c])
             moving == IF Cardinality(has) < 2 THEN {} ELSE {c \in DOMAIN list : delta(c) > 0}
             latest(name) == Max({c \in moving : list[c] = name})
             big == {d \in told : on[n][d] > 0}
             names_ == {list[c] : c \in moving}
  <2>1. deltas = [name \in names_ |-> delta(latest(name))]
    BY DEF JsonDeltas, s
  <2>2. has = 1..k
    <3> HIDE DEF k
    <3> QED BY <1>1
  <2>3. Min(has) = 1 /\ Max(has) = k /\ Cardinality(has) = k
    <3> HIDE DEF k, has
    <3> QED BY <1>1, <2>2, EndsOf
  <2>4. \A c \in DOMAIN list : <<n, list[c]>> \notin ends => delta(c) = on[n][list[c]]
    <3>1. \A c \in DOMAIN list : delta(c) = Across(s, n, c)
      <4> HIDE DEF has
      <4> QED BY <2>3 DEF Across, Last
    <3> HIDE DEF delta
    <3> QED BY <3>1, <1>a
  <2>5. moving = {c \in DOMAIN list : delta(c) > 0}
    <3> HIDE DEF delta, has, k
    <3>1. ~(Cardinality(has) < 2)  BY <1>1, <2>3
    <3> QED BY <3>1
  <2>6. ToSet(list) = {list[c] : c \in DOMAIN list}  BY DEF ToSet
  <2>7. names_ \cap told = big
    <3> HIDE DEF moving, delta
    <3>1. told = {list[c] : c \in {j \in DOMAIN list : <<n, list[j]>> \notin ends}}
      BY <2>6 DEF ToldOf
    <3>2. \A c \in DOMAIN list : <<n, list[c]>> \notin ends =>
            (c \in moving <=> on[n][list[c]] > 0)
      BY <2>4, <2>5
    <3> HIDE DEF told
    <3>3. ASSUME NEW d \in names_, d \in told PROVE on[n][d] > 0
      <4>1. PICK c \in moving : list[c] = d  BY <3>3
      <4>2. c \in DOMAIN list  BY <2>5
      <4>3. <<n, list[c]>> \notin ends  BY <4>1, <3>1, <3>3
      <4> QED BY <3>2, <4>1, <4>2, <4>3
    <3>4. ASSUME NEW d \in told, on[n][d] > 0 PROVE d \in names_
      <4>1. PICK c \in DOMAIN list : <<n, list[c]>> \notin ends /\ list[c] = d  BY <3>1
      <4> QED BY <3>2, <3>4, <4>1
    <3> HIDE DEF names_
    <3> QED BY <3>3, <3>4
  <2>8. ASSUME NEW name \in names_ PROVE latest(name) \in moving /\ list[latest(name)] = name
    <3> DEFINE S == {c \in moving : list[c] = name}
    <3>1. Len(list) \in Nat /\ DOMAIN list = 1..Len(list)  BY NamesAre
    <3> HIDE DEF moving, delta
    <3>2. S # {}  BY <2>8
    <3>3. S \subseteq Nat /\ \A c \in S : c <= Len(list)  BY <2>5, <3>1
    <3>4. \A c \in S : c \in moving /\ list[c] = name  OBVIOUS
    <3> HIDE DEF S
    <3>5. Max(S) \in S  BY <3>1, <3>2, <3>3, MaxIs
    <3> QED BY <3>4, <3>5 DEF S
  <2>a. \A name \in told : <<n, name>> \notin ends  BY DEF ToldOf
  <2> HIDE DEF deltas, delta, moving, latest, names_, told
  <2>9. DOMAIN deltas = names_ /\ \A name \in names_ \cap told : deltas[name] = on[n][name]
    <3>1. \A name \in names_ : deltas[name] = delta(latest(name))  BY <2>1
    <3>2. \A c \in moving : c \in DOMAIN list  BY <2>5
    <3>3. ASSUME NEW name \in names_, name \in told PROVE deltas[name] = on[n][name]
      <4>1. latest(name) \in DOMAIN list /\ list[latest(name)] = name  BY <2>8, <3>2
      <4>2. delta(latest(name)) = on[n][name]  BY <2>4, <2>a, <3>3, <4>1
      <4> QED BY <3>1, <4>2
    <3> QED BY <2>1, <3>3
  <2>10. DOMAIN deltas \cap told = big  BY <2>7, <2>9
  <2>11. {<<c, deltas[c]>> : c \in DOMAIN deltas \cap told} = {<<c, on[n][c]>> : c \in big}
    <3> HIDE DEF big
    <3> QED BY <2>7, <2>9, <2>10
  <2> QED BY <2>11 DEF deltas, told, Pairs, Positive, JsonTells
<1> QED BY <1>4, <1>5

(* For any number of nodes, NICs and samples: the JSON document has what     *)
(* each NIC counted from its first to its last sample, the intervals add up  *)
(* to that, and the NICs of a node together never moved more than the node   *)
(* did (counter_aggregation.cpp:330-372), as far as readings did not fail.   *)
THEOREM SeriesCorrect == Spec => []SeriesExact
<1>1. Shape /\ Counted /\ Recorded => SeriesExact
  <2> SUFFICES ASSUME Shape, Counted, Recorded, pc = "publish", NEW i \in DOMAIN agg.series
      PROVE  LET t == agg.series[i]
                 sound(readings, n, c) == Sound(readings, t.hostname, n, c)
                 told(n) == {c \in ToSet(names) : sound({"first", "last"}, n, c)}
             IN  /\ JsonNics(t) = IF detailed THEN Nic ELSE {}
                 /\ \A n \in JsonNics(t) :
                      Pairs(JsonDeltas(names, t, n), told(n)) =
                        Positive(told(n), sampled[t.hostname][n])
                 /\ \A c \in DOMAIN names :
                      /\ \A n \in Nics(t) : sound({"first", "sample", "last"}, n, names[c]) =>
                           Difference(t, n, c) =
                             SumFunction([j \in 1..(Len(t.samples) - 1) |-> Interval(t, n, c, j)])
                      /\ (\A n \in Nic : sound({"initial", "first", "last", "final"}, n, names[c])) =>
                           SumFunction([n \in Nics(t) |-> Difference(t, n, c)])
                             <= Differences(agg.rows, c)[t.procid]
    BY DEF SeriesExact, Pairs, Positive
  <2> DEFINE t == agg.series[i]
             h == Hosts - i + 1
  <2>1. /\ Hosts \in Nat \ {0} /\ i \in 1..Hosts /\ IsNames(names) /\ detailed \in BOOLEAN
        /\ h \in Host /\ sampled[h] \in Distances /\ moved[h] \in Distances
        /\ IsToldOf(h, t)
    <3>1. h \in Host  BY AtTheEnd
    <3> QED BY <3>1, AtTheEnd
  <2> HIDE DEF t, h
  <2>3. /\ t.hostname = h /\ t.procid = h - 1 /\ IsSeq(t.samples)
        /\ Told(detailed, t.samples, names, Lost(Ends, h), Lost(Each, h), sampled[h])
        /\ detailed => \A n \in Nic, c \in Steady : sampled[h][n][c] <= moved[h][n][c]
    BY <2>1 DEF IsToldOf
  <2>4. /\ Nics(t) = IF detailed THEN Nic ELSE {}
        /\ detailed => \A n \in Nic, c \in DOMAIN names :
             /\ Difference(t, n, c) \in Nat
             /\ Difference(t, n, c) = Across(t.samples, n, c)
    BY <2>1, <2>3, NicsAre
  <2>5. JsonNics(t) = IF detailed THEN Nic ELSE {}
    <3>1. CASE detailed
      <4>1. Told(TRUE, t.samples, names, Lost(Ends, h), Lost(Each, h), sampled[h])
        <5>1. detailed = TRUE  BY <3>1, <2>1
        <5> QED BY <5>1, <2>3
      <4>2. JsonNics(t) = Nic  BY <4>1, <2>1, <2>3, JsonOf
      <4> QED BY <3>1, <4>2
    <3>2. CASE ~detailed
      <4>1. t.samples = <<>>  BY <3>2, <2>3 DEF Told
      <4>2. ToSet(<<>>) = {}  BY EmptyIs DEF ToSet
      <4> QED BY <3>2, <4>1, <4>2 DEF JsonNics
    <3> QED BY <3>1, <3>2
  <2>6. ASSUME NEW n \in JsonNics(t)
        PROVE  LET told == {c \in ToSet(names) : Sound({"first", "last"}, t.hostname, n, c)}
               IN  Pairs(JsonDeltas(names, t, n), told) = Positive(told, sampled[t.hostname][n])
    <3>1. detailed = TRUE /\ n \in Nic  BY <2>1, <2>5
    <3>2. Told(TRUE, t.samples, names, Lost(Ends, h), Lost(Each, h), sampled[h])
      BY <3>1, <2>3
    <3> DEFINE told == ToldOf(names, Lost(Ends, h), n)
    <3>3. Pairs(JsonDeltas(names, t, n), told) = Positive(told, sampled[h][n])
      <4>1. IsSeq(t.samples) /\ IsNames(names) /\ n \in Nic  BY <3>1, <2>1, <2>3
      <4> DEFINE ends == Lost(Ends, h)  any == Lost(Each, h)  on == sampled[h]
      <4>2. Told(TRUE, t.samples, names, ends, any, on)  BY <3>2
      <4> HIDE DEF told, ends, any, on
      <4>3. JsonTells(t, names, ends, on, n)  BY <4>1, <4>2, JsonOf
      <4> QED BY <4>3 DEF told, ends, on, JsonTells
    <3>4. told = {c \in ToSet(names) : Sound({"first", "last"}, h, n, c)}
      <4>1. ToSet(names) \subseteq Counter  BY <2>1 DEF IsNames
      <4> QED BY <3>1, <4>1, NotLost DEF ToldOf, Ends
    <3> HIDE DEF told
    <3> QED BY <3>3, <3>4, <2>3
  <2>7. ASSUME NEW c \in DOMAIN names, NEW n \in Nics(t),
               Sound({"first", "sample", "last"}, t.hostname, n, names[c])
        PROVE  Difference(t, n, c) =
                 SumFunction([j \in 1..(Len(t.samples) - 1) |-> Interval(t, n, c, j)])
    <3>1. names[c] \in Counter /\ detailed /\ n \in Nic  BY <2>1, <2>4, NamesAre
    <3>2. <<n, names[c]>> \notin Lost(Each, h)
      <4>1. Sound(Each, h, n, names[c])  BY <2>3, <2>7 DEF Each
      <4> QED BY <3>1, <4>1, NotLost
    <3>3. <<n, names[c]>> \notin Lost(Ends, h)
      <4>1. Ends \subseteq Each  BY DEF Ends, Each
      <4> QED BY <3>2, <4>1, LostMore
    <3>4. /\ Added(t.samples, n, c) = sampled[h][n][names[c]]
          /\ Across(t.samples, n, c) = sampled[h][n][names[c]]
      BY <3>1, <3>2, <3>3, <2>3 DEF Told
    <3>5. Difference(t, n, c) = Across(t.samples, n, c)  BY <3>1, <2>4
    <3>6. SumFunction([j \in 1..(Len(t.samples) - 1) |-> Interval(t, n, c, j)]) =
            Added(t.samples, n, c)
      BY DEF Interval, Added, StepsOf
    <3> QED BY <3>4, <3>5, <3>6
  <2>8. ASSUME NEW c \in DOMAIN names,
               \A n \in Nic : Sound({"initial", "first", "last", "final"}, t.hostname, n, names[c])
        PROVE  SumFunction([n \in Nics(t) |-> Difference(t, n, c)])
                 <= Differences(agg.rows, c)[t.procid]
    <3> DEFINE d == Differences(agg.rows, c)[t.procid]
               f == [n \in Nics(t) |-> Difference(t, n, c)]
               g == [n \in Nic |-> moved[h][n][names[c]]]
    <3>1. names[c] \in Counter  BY <2>1, NamesAre
    <3>2. ASSUME NEW n \in Nic
          PROVE  /\ Sound(Both, h, n, names[c]) /\ <<n, names[c]>> \notin Lost(Ends, h)
                 /\ names[c] \in Steady
      <4>1. Sound({"initial", "first", "last", "final"}, h, n, names[c])  BY <2>3, <2>8
      <4>2. Sound(Both, h, n, names[c]) /\ Sound(Ends, h, n, names[c])
        BY <4>1 DEF Sound, Both, Ends
      <4> QED BY <3>1, <4>2, NotLost
    <3>3. d \in Nat /\ d = MovesSum(moved[h], names[c])
      <4>1. /\ Differences(agg.rows, c)[h - 1] \in Nat
            /\ (\A n \in Nic : Sound(Both, h, n, names[c])) =>
                 Differences(agg.rows, c)[h - 1] = MovesSum(moved[h], names[c])
        BY <2>1, DifferenceOf
      <4> QED BY <2>3, <3>2, <4>1
    <3>4. CASE detailed
      <4>1. Nics(t) = Nic /\ IsFiniteSet(Nic)  BY <3>4, <2>4, ReportAssumption
      <4>2. ASSUME NEW n \in Nic
            PROVE  f[n] \in Int /\ g[n] \in Int /\ f[n] <= g[n]
        <5>1. f[n] = Difference(t, n, c)  BY <4>1
        <5>2. g[n] = moved[h][n][names[c]] /\ g[n] \in Int  BY <2>1, <3>1 DEF Distances
        <5>3. /\ Difference(t, n, c) \in Nat
              /\ Difference(t, n, c) = Across(t.samples, n, c)
          BY <3>4, <2>4
        <5>4. Across(t.samples, n, c) = sampled[h][n][names[c]]
          BY <3>2, <3>4, <2>3 DEF Told
        <5>5. sampled[h][n][names[c]] <= moved[h][n][names[c]]  BY <3>2, <3>4, <2>3
        <5> QED BY <5>1, <5>2, <5>3, <5>4, <5>5
      <4>3. f = [n \in Nic |-> f[n]] /\ g = [n \in Nic |-> g[n]]  BY <4>1
      <4>4. MovesSum(moved[h], names[c]) = SumFunction(g)  BY DEF MovesSum
      <4> HIDE DEF f, g, d
      <4>5. f \in [Nic -> Int] /\ g \in [Nic -> Int]  BY <4>2, <4>3
      <4>6. SumFunction(f) <= SumFunction(g)  BY <4>1, <4>2, <4>5, SumAtMost
      <4>7. SumFunction(f) <= d  BY <3>3, <4>4, <4>6
      <4> QED BY <4>7 DEF f, d
    <3>5. CASE ~detailed
      <4>1. f \in [{} -> Int] /\ \A x \in {} : f[x] = 0  BY <3>5, <2>4
      <4>2. IsFiniteSet({})  BY FS_EmptySet
      <4> HIDE DEF f, d
      <4>3. SumFunction(f) = 0  BY <4>1, <4>2, SumZero
      <4>4. SumFunction(f) <= d  BY <4>3, <3>3
      <4> QED BY <4>4 DEF f, d
    <3> QED BY <3>4, <3>5
  <2> QED BY <2>5, <2>6, <2>7, <2>8 DEF t
<1> QED BY <1>1, ShapeAlways, CountedAlways, RecordedAlways, PTL
=============================================================================
