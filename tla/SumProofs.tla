------------------------------ MODULE SumProofs ------------------------------
(***************************************************************************)
(* What the proofs need of sums over finite sets: a sum obeys its          *)
(* recursion, it is a number, and its terms may be added in any order; and *)
(* of a sequence of numbers that loses one of its elements.                *)
(* The provers cannot instantiate an induction theorem that takes an       *)
(* operator, so induction is stated with a set of good numbers or sets and *)
(* rests on well-founded orders.  The table of a recursive function is     *)
(* built up by the size of the sets it is defined for.                     *)
(***************************************************************************)
EXTENDS Naturals, Sequences, Functions, FiniteSetTheorems, WellFoundedInduction, TLAPS

-----------------------------------------------------------------------------
(* Induction *)

\* Induction over the numbers, for a set of good ones.
LEMMA NumberInduction ==
  ASSUME NEW Good, 0 \in Good, \A n \in Nat : n \in Good => n + 1 \in Good
  PROVE  \A n \in Nat : n \in Good
<1> DEFINE Bad == {n \in Nat : n \notin Good}
<1>1. SUFFICES ASSUME Bad # {} PROVE FALSE
  OBVIOUS
<1>2. PICK n \in Bad : \A m \in Bad : <<m, n>> \notin OpToRel(<, Nat)
  <2>1. Bad \subseteq Nat
    OBVIOUS
  <2> HIDE DEF Bad
  <2> QED BY <1>1, <2>1, NatLessThanWellFounded, WFMin
<1>3. \A m \in Nat : m < n => m \in Good
  BY <1>2 DEF OpToRel
<1>4. n # 0 /\ n - 1 \in Nat /\ n - 1 < n
  OBVIOUS
<1> QED BY <1>3, <1>4

\* Induction over the subsets of a finite set.
LEMMA SetInduction ==
  ASSUME NEW S, IsFiniteSet(S), NEW Good,
         \A T \in SUBSET S : (\A U \in SUBSET T : U # T => U \in Good) => T \in Good
  PROVE  S \in Good
<1> DEFINE Bad == {T \in SUBSET S : T \notin Good}
<1>1. SUFFICES ASSUME Bad # {} PROVE FALSE
  OBVIOUS
<1>2. Bad \subseteq FiniteSubsetsOf(S)
  BY FS_FiniteSubsetsOfFinite
<1>3. PICK T \in Bad : \A U \in Bad : <<U, T>> \notin StrictSubsetOrdering(S)
  <2> HIDE DEF Bad
  <2> QED BY <1>1, <1>2, FS_StrictSubsetOrderingWellFounded, WFMin
<1>4. ASSUME NEW U \in SUBSET T, U # T PROVE U \in Good
  <2>1. <<U, T>> \in StrictSubsetOrdering(S)
    BY <1>4 DEF StrictSubsetOrdering
  <2> QED BY <1>3, <2>1
<1>5. T \in SUBSET S /\ T \notin Good
  OBVIOUS
<1> QED BY <1>4, <1>5

-----------------------------------------------------------------------------
(* The recursion *)

\* The element that a fold takes next.
Chosen(T) == CHOOSE x \in T : TRUE

\* What the table g of the sums of f should hold for T, and that it does.
Term(f, g, T) == IF T = {} THEN 0 ELSE f[Chosen(T)] + g[T \ {Chosen(T)}]
IsTable(f, g, S) == g = [T \in SUBSET S |-> Term(f, g, T)]
Obeys(f, g, S) == \A T \in SUBSET S : g[T] = Term(f, g, T)

\* It is in the set.
LEMMA ChosenIn == ASSUME NEW T, T # {} PROVE Chosen(T) \in T
BY DEF Chosen

\* A sum is read from a table for the subsets of its set.
LEMMA SumFromTable == 
  ASSUME NEW f, NEW S
  PROVE  SumFunctionOnSet(f, S) = (CHOOSE g : IsTable(f, g, S))[S]
BY DEF SumFunctionOnSet, FoldFunctionOnSet, MapThenFoldSet, IsTable, Chosen, Term

\* There is such a table: it can be extended from the sets of n elements to those of
\* one more.
LEMMA TableExists ==
  ASSUME NEW f, NEW S, IsFiniteSet(S) PROVE \E g : IsTable(f, g, S)
<1> DEFINE UpTo(n) == {T \in SUBSET S : Cardinality(T) <= n}
           Good == {n \in Nat : \E g : \A T \in UpTo(n) : g[T] = Term(f, g, T)}
<1>1. 0 \in Good
  <2>1. UpTo(0) = {{}}
    BY FS_EmptySet, FS_Subset, FS_CardinalityType
  <2> DEFINE h == [T \in UpTo(0) |-> 0]
  <2>2. \A T \in UpTo(0) : h[T] = Term(f, h, T)
    BY <2>1 DEF Term
  <2> QED BY <2>2
<1>2. ASSUME NEW n \in Nat, n \in Good PROVE n + 1 \in Good
  <2>1. PICK g : \A T \in UpTo(n) : g[T] = Term(f, g, T)
    BY <1>2
  <2> DEFINE h == [T \in SUBSET S |-> IF T \in UpTo(n) THEN g[T] ELSE Term(f, g, T)]
  <2>2. ASSUME NEW T \in UpTo(n + 1) PROVE h[T] = Term(f, h, T)
    <3>1. CASE T = {}
      BY <3>1, <2>1 DEF Term
    <3>2. CASE T # {}
      <4> DEFINE R == T \ {Chosen(T)}
      <4>1. R \in UpTo(n)
        <5>1. IsFiniteSet(T)
          BY FS_Subset
        <5>2. Cardinality(R) = Cardinality(T) - 1
          BY <5>1, <3>2, ChosenIn, FS_RemoveElement
        <5> QED BY <5>1, <5>2, FS_CardinalityType
      <4>2. h[R] = g[R]
        BY <4>1
      <4>3. h[T] = Term(f, g, T)
        BY <2>1
      <4> QED BY <4>2, <4>3, <3>2 DEF Term
    <3> QED BY <3>1, <3>2
  <2>3. \E k : \A T \in UpTo(n + 1) : k[T] = Term(f, k, T)
    <3> HIDE DEF h, UpTo
    <3> QED BY <2>2
  <2> QED BY <2>3
<1>3. Cardinality(S) \in Good
  <2> HIDE DEF Good
  <2> QED BY <1>1, <1>2, NumberInduction, FS_CardinalityType
<1>4. PICK g : \A T \in UpTo(Cardinality(S)) : g[T] = Term(f, g, T)
  BY <1>3
<1>5. \A T \in SUBSET S : T \in UpTo(Cardinality(S))
  BY FS_Subset
<1> DEFINE h == [T \in SUBSET S |-> g[T]]
<1>6. ASSUME NEW T \in SUBSET S PROVE h[T] = Term(f, h, T)
  BY <1>4, <1>5, ChosenIn DEF Term
<1>7. IsTable(f, h, S)
  BY <1>6 DEF IsTable
<1> QED BY <1>7

\* Two tables agree.
LEMMA TableUnique ==
  ASSUME NEW f, NEW S, IsFiniteSet(S), NEW g, NEW h,
         Obeys(f, g, S), Obeys(f, h, S)
  PROVE  g[S] = h[S]
<1> DEFINE Good == {T \in SUBSET S : g[T] = h[T]}
<1>1. ASSUME NEW T \in SUBSET S, \A U \in SUBSET T : U # T => U \in Good
      PROVE  T \in Good
  <2>1. CASE T = {}
    BY <2>1 DEF Term, Obeys
  <2>2. CASE T # {}
    <3>1. T \ {Chosen(T)} \in Good
      BY <1>1, <2>2, ChosenIn
    <3> QED BY <2>2, <3>1 DEF Term, Obeys
  <2> QED BY <2>1, <2>2
<1>2. S \in Good
  <2> HIDE DEF Good
  <2> QED BY <1>1, SetInduction
<1> QED BY <1>2

\* The sum of a finite set is defined by its recursion.
LEMMA SumStep ==
  ASSUME NEW f, NEW S, IsFiniteSet(S)
  PROVE  SumFunctionOnSet(f, S) =
           IF S = {} THEN 0
           ELSE f[Chosen(S)] + SumFunctionOnSet(f, S \ {Chosen(S)})
<1> DEFINE R == S \ {Chosen(S)}
           g == CHOOSE g : IsTable(f, g, S)
           h == CHOOSE h : IsTable(f, h, R)
<1>1. IsFiniteSet(R)
  BY FS_Subset
<1>2. IsTable(f, g, S) /\ IsTable(f, h, R)
  BY <1>1, TableExists
<1>3. SumFunctionOnSet(f, S) = g[S] /\ SumFunctionOnSet(f, R) = h[R]
  BY SumFromTable
<1> HIDE DEF g, h
<1>4. Obeys(f, g, S) /\ Obeys(f, h, R)
  BY <1>2, Zenon DEF IsTable, Obeys
<1>5. Obeys(f, g, R)
  BY <1>4 DEF Obeys
<1>6. g[R] = h[R]
  <2> HIDE DEF R
  <2> QED BY <1>1, <1>4, <1>5, TableUnique
<1>7. g[S] = Term(f, g, S)
  BY <1>4 DEF Obeys
<1> QED BY <1>3, <1>6, <1>7 DEF Term

-----------------------------------------------------------------------------
(* Sums of numbers *)

\* The empty sum.
LEMMA SumEmpty == ASSUME NEW f PROVE SumFunctionOnSet(f, {}) = 0
BY SumStep, FS_EmptySet

\* A sum of numbers is a number.
LEMMA SumType ==
  ASSUME NEW f, NEW S, IsFiniteSet(S), \A x \in S : f[x] \in Nat
  PROVE  SumFunctionOnSet(f, S) \in Nat
<1> DEFINE Good == {T \in SUBSET S : SumFunctionOnSet(f, T) \in Nat}
<1>1. ASSUME NEW T \in SUBSET S, \A U \in SUBSET T : U # T => U \in Good
      PROVE  T \in Good
  <2>1. IsFiniteSet(T)
    BY FS_Subset
  <2>2. CASE T # {}
    <3>1. Chosen(T) \in T /\ T \ {Chosen(T)} \in Good
      BY <1>1, <2>2, ChosenIn
    <3> QED BY <2>1, <2>2, <3>1, SumStep
  <2> QED BY <2>1, <2>2, SumEmpty
<1>2. S \in Good
  <2> HIDE DEF Good
  <2> QED BY <1>1, SetInduction
<1> QED BY <1>2

\* The order in which elements are added does not matter.
LEMMA SumRemove ==
  ASSUME NEW f, NEW S, IsFiniteSet(S), \A x \in S : f[x] \in Nat, NEW e \in S
  PROVE  SumFunctionOnSet(f, S) = f[e] + SumFunctionOnSet(f, S \ {e})
<1> DEFINE Good ==
      {T \in SUBSET S : \A x \in T :
         SumFunctionOnSet(f, T) = f[x] + SumFunctionOnSet(f, T \ {x})}
<1>1. ASSUME NEW T \in SUBSET S, \A U \in SUBSET T : U # T => U \in Good
      PROVE  T \in Good
  <2> SUFFICES ASSUME NEW x \in T
               PROVE  SumFunctionOnSet(f, T) = f[x] + SumFunctionOnSet(f, T \ {x})
    OBVIOUS
  <2> DEFINE c == Chosen(T)
  <2>1. IsFiniteSet(T) /\ IsFiniteSet(T \ {x}) /\ IsFiniteSet(T \ {c})
        /\ IsFiniteSet((T \ {x}) \ {c})
    BY FS_Subset
  <2>2. c \in T
    BY ChosenIn
  <2>3. SumFunctionOnSet(f, T) = f[c] + SumFunctionOnSet(f, T \ {c})
    BY <2>1, <2>2, SumStep
  <2>4. CASE x = c
    BY <2>3, <2>4
  <2>5. CASE x # c
    <3> HIDE DEF c
    <3>1. T \ {c} \in Good /\ T \ {x} \in Good
      BY <1>1, <2>2
    <3>2. SumFunctionOnSet(f, T \ {c}) = f[x] + SumFunctionOnSet(f, (T \ {c}) \ {x})
      BY <3>1, <2>5
    <3>3. SumFunctionOnSet(f, T \ {x}) = f[c] + SumFunctionOnSet(f, (T \ {x}) \ {c})
      BY <3>1, <2>2, <2>5
    <3>4. (T \ {c}) \ {x} = (T \ {x}) \ {c}
      OBVIOUS
    <3>5. SumFunctionOnSet(f, (T \ {x}) \ {c}) \in Nat
      BY <2>1, SumType
    <3>6. f[x] \in Nat /\ f[c] \in Nat
      BY <2>2
    <3> HIDE DEF Good
    <3> QED BY <2>3, <3>2, <3>3, <3>4, <3>5, <3>6
  <2> QED BY <2>4, <2>5
<1>2. S \in Good
  <2> HIDE DEF Good
  <2> QED BY <1>1, SetInduction
<1> QED BY <1>2

\* A term more.
LEMMA SumAdd ==
  ASSUME NEW f, NEW S, IsFiniteSet(S), NEW e, e \notin S,
         \A x \in S \cup {e} : f[x] \in Nat
  PROVE  SumFunctionOnSet(f, S \cup {e}) = f[e] + SumFunctionOnSet(f, S)
<1>1. IsFiniteSet(S \cup {e})
  BY FS_AddElement
<1>2. (S \cup {e}) \ {e} = S
  OBVIOUS
<1> QED BY <1>1, <1>2, SumRemove

\* Sums depend on the values of their terms only.
LEMMA SumSame ==
  ASSUME NEW f, NEW g, NEW S, IsFiniteSet(S), \A x \in S : f[x] = g[x]
  PROVE  SumFunctionOnSet(f, S) = SumFunctionOnSet(g, S)
<1> DEFINE Good == {T \in SUBSET S : SumFunctionOnSet(f, T) = SumFunctionOnSet(g, T)}
<1>1. ASSUME NEW T \in SUBSET S, \A U \in SUBSET T : U # T => U \in Good
      PROVE  T \in Good
  <2>1. IsFiniteSet(T)
    BY FS_Subset
  <2>2. CASE T # {}
    <3>1. Chosen(T) \in T /\ T \ {Chosen(T)} \in Good
      BY <1>1, <2>2, ChosenIn
    <3> QED BY <2>1, <2>2, <3>1, SumStep
  <2> QED BY <2>1, <2>2, SumEmpty
<1>2. S \in Good
  <2> HIDE DEF Good
  <2> QED BY <1>1, SetInduction
<1> QED BY <1>2

\* The terms of a part of the set, and the others.
LEMMA SumSplit ==
  ASSUME NEW f, NEW S, IsFiniteSet(S), \A x \in S : f[x] \in Nat, NEW P \in SUBSET S
  PROVE  SumFunctionOnSet(f, S) = SumFunctionOnSet(f, P) + SumFunctionOnSet(f, S \ P)
<1> DEFINE Rest == S \ P
           Good == {T \in SUBSET P :
             SumFunctionOnSet(f, Rest \cup T)
               = SumFunctionOnSet(f, T) + SumFunctionOnSet(f, Rest)}
<1>0. IsFiniteSet(P) /\ IsFiniteSet(Rest)
  BY FS_Subset
<1>1. ASSUME NEW T \in SUBSET P, \A U \in SUBSET T : U # T => U \in Good
      PROVE  T \in Good
  <2>1. IsFiniteSet(T)
    BY <1>0, FS_Subset
  <2>2. CASE T # {}
    <3> DEFINE c == Chosen(T)
               U == T \ {c}
    <3>1. c \in T /\ U \in Good
      BY <1>1, <2>2, ChosenIn
    <3> HIDE DEF c
    <3>2. Rest \cup T = (Rest \cup U) \cup {c} /\ c \notin Rest \cup U
      BY <3>1
    <3>3. IsFiniteSet(Rest \cup U) /\ IsFiniteSet(U)
      BY FS_Subset
    <3>4. SumFunctionOnSet(f, Rest \cup T) = f[c] + SumFunctionOnSet(f, Rest \cup U)
      BY <3>1, <3>2, <3>3, SumAdd
    <3>5. SumFunctionOnSet(f, T) = f[c] + SumFunctionOnSet(f, U)
      BY <2>1, <3>1, SumRemove
    <3>6. /\ SumFunctionOnSet(f, U) \in Nat
          /\ SumFunctionOnSet(f, Rest) \in Nat
          /\ f[c] \in Nat
      BY <1>0, <3>1, <3>3, SumType
    <3>7. SumFunctionOnSet(f, Rest \cup U)
            = SumFunctionOnSet(f, U) + SumFunctionOnSet(f, Rest)
      BY <3>1
    <3>8. SumFunctionOnSet(f, Rest \cup T)
            = SumFunctionOnSet(f, T) + SumFunctionOnSet(f, Rest)
      <4> HIDE DEF U, Rest, Good
      <4> QED BY <3>4, <3>5, <3>6, <3>7
    <3> QED BY <3>8
  <2>3. CASE T = {}
    <3>1. SumFunctionOnSet(f, Rest) \in Nat /\ Rest \cup {} = Rest
      BY <1>0, SumType
    <3> QED BY <2>3, <3>1, SumEmpty
  <2> QED BY <2>2, <2>3
<1>2. P \in Good
  <2> HIDE DEF Good
  <2> QED BY <1>0, <1>1, SetInduction
<1>3. Rest \cup P = S
  OBVIOUS
<1> QED BY <1>2, <1>3

\* A part sums up to no more than the whole.
LEMMA SumPart ==
  ASSUME NEW f, NEW S, IsFiniteSet(S), \A x \in S : f[x] \in Nat, NEW P \in SUBSET S
  PROVE  SumFunctionOnSet(f, P) <= SumFunctionOnSet(f, S)
<1>1. IsFiniteSet(P) /\ IsFiniteSet(S \ P)
  BY FS_Subset
<1>2. SumFunctionOnSet(f, P) \in Nat /\ SumFunctionOnSet(f, S \ P) \in Nat
  BY <1>1, SumType
<1> QED BY <1>2, SumSplit

-----------------------------------------------------------------------------
(* Sequences of numbers *)

\* A sequence after another.
LEMMA AppendAt ==
  ASSUME NEW a \in Seq(Nat), NEW b \in Seq(Nat)
  PROVE  /\ a \o b \in Seq(Nat) /\ Len(a \o b) = Len(a) + Len(b)
         /\ \A i \in 1..(Len(a) + Len(b)) :
              (a \o b)[i] = IF i <= Len(a) THEN a[i] ELSE b[i - Len(a)]
OBVIOUS

\* A sequence is the function of its elements.
LEMMA ListedByPlace ==
  ASSUME NEW a \in Seq(Nat)
  PROVE  a = [m \in 1..Len(a) |-> a[m]]
OBVIOUS

\* A sequence without its element at a place.
LEMMA WithoutOne ==
  ASSUME NEW rows \in Seq(Nat), NEW at \in 1..Len(rows)
  PROVE  SubSeq(rows, 1, at - 1) \o SubSeq(rows, at + 1, Len(rows)) =
           [m \in 1..(Len(rows) - 1) |-> IF m < at THEN rows[m] ELSE rows[m + 1]]
<1> DEFINE a == SubSeq(rows, 1, at - 1)
           b == SubSeq(rows, at + 1, Len(rows))
           c == a \o b
<1>0. Len(rows) \in Nat
  OBVIOUS
<1>1. /\ a \in Seq(Nat) /\ Len(a) = at - 1
      /\ \A i \in 1..(at - 1) : a[i] = rows[i]
  OBVIOUS
<1>2. /\ b \in Seq(Nat) /\ Len(b) = Len(rows) - at
      /\ \A i \in 1..(Len(rows) - at) : b[i] = rows[at + i]
  <2>1. at + 1 \in 1..(Len(rows) + 1)
    BY <1>0
  <2>2. b \in Seq(Nat) /\ Len(b) = Len(rows) - at
    BY <1>0, <2>1
  <2>3. \A i \in 1..(Len(rows) - at) : b[i] = rows[at + i]
    BY <1>0, <2>1, <2>2
  <2> QED BY <2>2, <2>3
<1> HIDE DEF a, b
<1>3. c \in Seq(Nat) /\ Len(c) = Len(a) + Len(b)
  BY <1>1, <1>2, AppendAt
<1>4. Len(a) + Len(b) = Len(rows) - 1
  BY <1>0, <1>1, <1>2
<1>5. ASSUME NEW m \in 1..(Len(rows) - 1)
      PROVE  c[m] = IF m <= Len(a) THEN a[m] ELSE b[m - Len(a)]
  <2>1. \A i \in 1..(Len(a) + Len(b)) : c[i] = IF i <= Len(a) THEN a[i] ELSE b[i - Len(a)]
    BY <1>1, <1>2, AppendAt
  <2>2. m \in 1..(Len(a) + Len(b))
    BY <1>4
  <2> HIDE DEF c
  <2> QED BY <2>1, <2>2
<1>6. ASSUME NEW m \in 1..(Len(rows) - 1)
      PROVE  c[m] = IF m < at THEN rows[m] ELSE rows[m + 1]
  <2>2. CASE m < at
    BY <1>0, <1>1, <1>5, <2>2
  <2>3. CASE ~(m < at)
    <3>1. m - (at - 1) \in 1..(Len(rows) - at) /\ at + (m - (at - 1)) = m + 1
      BY <1>0, <2>3
    <3>2. ~(m <= Len(a)) /\ m - Len(a) = m - (at - 1)
      BY <1>0, <1>1, <2>3
    <3>3. c[m] = b[m - (at - 1)]
      BY <1>5, <3>2
    <3> QED BY <1>2, <2>3, <3>1, <3>3
  <2> QED BY <2>2, <2>3
<1> HIDE DEF c
<1>7. c = [m \in 1..(Len(rows) - 1) |-> c[m]]
  BY <1>3, <1>4, ListedByPlace
<1> QED BY <1>6, <1>7 DEF a, b, c
=============================================================================
