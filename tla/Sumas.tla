------------------------------- MODULE Sumas -------------------------------
(***************************************************************************)
(* Sums of a function over a finite set, as the fold of the community      *)
(* modules computes them, and what the proofs need of them: the order in   *)
(* which the fold takes the elements does not matter, and a change of one  *)
(* value changes the sum by the difference.                                *)
(*                                                                         *)
(* An induction is written as a look at a least counterexample: the        *)
(* numbers that are one form a set, and a set of naturals has a least.     *)
(***************************************************************************)
EXTENDS Functions, FiniteSets, FiniteSetTheorems, WellFoundedInduction, TLAPS

\* A set of naturals that is not empty has a least element.
LEMMA Minimo ==
  ASSUME NEW T \in SUBSET Nat, T # {}
  PROVE  \E n \in T : \A m \in T : n <= m
<1>1. PICK n \in T : \A m \in T : <<m, n>> \notin OpToRel(<, Nat)
  BY NatLessThanWellFounded, WFMin
<1>2. \A m \in T : ~(m < n)
  BY <1>1 DEF OpToRel
<1>3. QED
  BY <1>2

-----------------------------------------------------------------------------
(* The recursive function of the fold.                                     *)

Elegido(s) == CHOOSE x \in s : TRUE

\* g is the function of the sums of w over the subsets of S with at most n
\* elements.
EsSuma(g, w, S, n) ==
  g = [s \in {t \in SUBSET S : Cardinality(t) <= n} |->
         IF s = {} THEN 0 ELSE w[Elegido(s)] + g[s \ {Elegido(s)}]]

LEMMA Quita ==
  ASSUME NEW S, IsFiniteSet(S), NEW s \in SUBSET S, s # {}
  PROVE  /\ Elegido(s) \in s /\ s \ {Elegido(s)} \in SUBSET S
         /\ Cardinality(s) \in Nat /\ Cardinality(s) # 0
         /\ \A x \in s : /\ s \ {x} \in SUBSET S
                         /\ Cardinality(s \ {x}) = Cardinality(s) - 1
<1>1. IsFiniteSet(s)
  BY FS_Subset
<1>2. Elegido(s) \in s
  BY DEF Elegido
<1>3. Cardinality(s) \in Nat /\ Cardinality(s) # 0
  BY <1>1, FS_CardinalityType, FS_EmptySet
<1>4. ASSUME NEW x \in s  PROVE Cardinality(s \ {x}) = Cardinality(s) - 1
  BY <1>1, <1>4, FS_RemoveElement
<1>5. QED
  BY <1>2, <1>3, <1>4

\* There is one, by induction on n.
LEMMA HaySuma ==
  ASSUME NEW S, IsFiniteSet(S), NEW w
  PROVE  \A n \in Nat : \E g : EsSuma(g, w, S, n)
<1> DEFINE Malos == {n \in Nat : ~\E g : EsSuma(g, w, S, n)}
<1> SUFFICES ASSUME Malos # {}  PROVE FALSE
  OBVIOUS
<1>1. PICK n \in Malos : \A m \in Malos : n <= m
  BY Minimo
<1>2. CASE n = 0
  <2> DEFINE g == [s \in {t \in SUBSET S : Cardinality(t) <= 0} |-> 0]
  <2>1. \A s \in {t \in SUBSET S : Cardinality(t) <= 0} : s = {}
    BY FS_Subset, FS_CardinalityType, FS_EmptySet
  <2>2. EsSuma(g, w, S, 0)
    BY <2>1 DEF EsSuma
  <2>3. QED
    BY <1>1, <1>2, <2>2
<1>3. CASE n # 0
  <2>1. n - 1 \in Nat /\ n - 1 \notin Malos
    BY <1>1, <1>3
  <2>2. PICK h : EsSuma(h, w, S, n - 1)
    BY <2>1
  <2> DEFINE D(m) == {t \in SUBSET S : Cardinality(t) <= m}
             g == [s \in D(n) |-> IF s = {} THEN 0 ELSE w[Elegido(s)] + h[s \ {Elegido(s)}]]
  <2>3. ASSUME NEW s \in D(n - 1)  PROVE s \in D(n) /\ g[s] = h[s]
    <3>1. s \in D(n)
      BY <1>1, <2>3, FS_Subset, FS_CardinalityType
    <3>2. h[s] = IF s = {} THEN 0 ELSE w[Elegido(s)] + h[s \ {Elegido(s)}]
      BY <2>2, <2>3 DEF EsSuma
    <3>3. QED
      BY <3>1, <3>2
  <2>4. ASSUME NEW s \in D(n), s # {}  PROVE s \ {Elegido(s)} \in D(n - 1)
    BY <1>1, <2>4, Quita
  <2>5. ASSUME NEW s \in D(n)
        PROVE  g[s] = IF s = {} THEN 0 ELSE w[Elegido(s)] + g[s \ {Elegido(s)}]
    BY <2>3, <2>4, <2>5
  <2>6. EsSuma(g, w, S, n)
    BY <2>5 DEF EsSuma
  <2>7. QED
    BY <1>1, <2>6
<1>4. QED
  BY <1>2, <1>3

-----------------------------------------------------------------------------
(* The sum over a set, and its equation for any element.                   *)

\* f is the function of the sums of w over all the subsets of S.
Sumas(f, w, S) ==
  f = [s \in SUBSET S |-> IF s = {} THEN 0 ELSE w[Elegido(s)] + f[s \ {Elegido(s)}]]

LEMMA HaySumas ==
  ASSUME NEW S, IsFiniteSet(S), NEW w
  PROVE  \E f : Sumas(f, w, S)
<1>1. Cardinality(S) \in Nat /\ {t \in SUBSET S : Cardinality(t) <= Cardinality(S)} = SUBSET S
  BY FS_CardinalityType, FS_Subset
<1>2. PICK g : EsSuma(g, w, S, Cardinality(S))
  BY <1>1, HaySuma
<1>3. Sumas(g, w, S)
  BY <1>1, <1>2 DEF EsSuma, Sumas
<1>4. QED
  BY <1>3

SumaDe(w) == FoldFunction(+, 0, w)

\* The fold of the community modules is one of them.
LEMMA EsLaSuma ==
  ASSUME NEW S, IsFiniteSet(S), NEW w, DOMAIN w = S
  PROVE  \E f : Sumas(f, w, S) /\ SumaDe(w) = f[S]
<1> DEFINE f == CHOOSE g : Sumas(g, w, S)
<1>1. Sumas(f, w, S)
  BY HaySumas
<1>2. SumaDe(w) = f[S]
  BY DEF SumaDe, FoldFunction, FoldFunctionOnSet, MapThenFoldSet, Sumas, Elegido
<1>3. QED
  BY <1>1, <1>2

\* Induction over the subsets of a finite set: if P (a set of subsets) has
\* every subset whose smaller ones it has, it has them all.
LEMMA PorTamano ==
  ASSUME NEW S, IsFiniteSet(S), NEW P,
         \A s \in SUBSET S :
           (\A t \in SUBSET S : Cardinality(t) < Cardinality(s) => t \in P) => s \in P
  PROVE  \A s \in SUBSET S : s \in P
<1> DEFINE T == {n \in Nat : \E s \in SUBSET S : s \notin P /\ Cardinality(s) = n}
<1> SUFFICES ASSUME NEW u \in SUBSET S, u \notin P  PROVE FALSE
  OBVIOUS
<1>1. \A s \in SUBSET S : Cardinality(s) \in Nat
  BY FS_Subset, FS_CardinalityType
<1>2. Cardinality(u) \in T
  BY <1>1
<1>3. PICK n \in T : \A m \in T : n <= m
  BY <1>2, Minimo
<1>4. PICK s \in SUBSET S : s \notin P /\ Cardinality(s) = n
  BY <1>3
<1>5. \A t \in SUBSET S : Cardinality(t) < n => t \in P
  BY <1>1, <1>3
<1>6. QED
  BY <1>4, <1>5

LEMMA TipoSuma ==
  ASSUME NEW S, IsFiniteSet(S), NEW w \in [S -> Int], NEW f, Sumas(f, w, S)
  PROVE  \A s \in SUBSET S : f[s] \in Int
<1> DEFINE P == {s \in SUBSET S : f[s] \in Int}
<1>1. ASSUME NEW s \in SUBSET S,
             \A t \in SUBSET S : Cardinality(t) < Cardinality(s) => t \in P
      PROVE  s \in P
  <2>1. CASE s = {}
    BY <2>1 DEF Sumas
  <2>2. CASE s # {}
    <3>1. f[s] = w[Elegido(s)] + f[s \ {Elegido(s)}]
      BY <2>2 DEF Sumas
    <3>2. Elegido(s) \in s /\ s \ {Elegido(s)} \in P
      BY <1>1, <2>2, Quita
    <3>3. f[s \ {Elegido(s)}] \in Int /\ w[Elegido(s)] \in Int
      BY <3>2
    <3>4. QED
      BY <3>1, <3>3
  <2>3. QED
    BY <2>1, <2>2
<1> HIDE DEF P
<1>2. \A s \in SUBSET S : s \in P
  BY <1>1, PorTamano
<1>3. QED
  BY <1>2 DEF P

LEMMA TipoSumaNat ==
  ASSUME NEW S, IsFiniteSet(S), NEW w \in [S -> Nat], NEW f, Sumas(f, w, S)
  PROVE  \A s \in SUBSET S : f[s] \in Nat
<1> DEFINE P == {s \in SUBSET S : f[s] \in Nat}
<1>1. ASSUME NEW s \in SUBSET S,
             \A t \in SUBSET S : Cardinality(t) < Cardinality(s) => t \in P
      PROVE  s \in P
  <2>1. CASE s = {}
    BY <2>1 DEF Sumas
  <2>2. CASE s # {}
    <3>1. f[s] = w[Elegido(s)] + f[s \ {Elegido(s)}]
      BY <2>2 DEF Sumas
    <3>2. Elegido(s) \in s /\ s \ {Elegido(s)} \in P
      BY <1>1, <2>2, Quita
    <3>3. f[s \ {Elegido(s)}] \in Nat /\ w[Elegido(s)] \in Nat
      BY <3>2
    <3>4. QED
      BY <3>1, <3>3
  <2>3. QED
    BY <2>1, <2>2
<1> HIDE DEF P
<1>2. \A s \in SUBSET S : s \in P
  BY <1>1, PorTamano
<1>3. QED
  BY <1>2 DEF P

\* Any element may be the one that is taken out.
DeCualquiera(f, w, s) == \A x \in s : f[s] = w[x] + f[s \ {x}]

LEMMA Saca ==
  ASSUME NEW S, IsFiniteSet(S), NEW w \in [S -> Int], NEW f, Sumas(f, w, S)
  PROVE  \A s \in SUBSET S : DeCualquiera(f, w, s)
<1> DEFINE P == {s \in SUBSET S : DeCualquiera(f, w, s)}
<1>1. ASSUME NEW s \in SUBSET S,
             \A t \in SUBSET S : Cardinality(t) < Cardinality(s) => t \in P
      PROVE  s \in P
  <2> SUFFICES ASSUME NEW x \in s  PROVE f[s] = w[x] + f[s \ {x}]
    BY DEF DeCualquiera
  <2> DEFINE e == Elegido(s)
  <2>0. f[s] = w[e] + f[s \ {e}]
    BY DEF Sumas
  <2>1. e \in s /\ f[s] = w[e] + f[s \ {e}]
    BY <2>0, Quita
  <2>2. CASE x = e
    BY <2>1, <2>2
  <2>3. CASE x # e
    <3>1. s \ {e} \in P /\ s \ {x} \in P
      BY <1>1, <2>1, Quita
    <3>2. f[s \ {e}] = w[x] + f[(s \ {e}) \ {x}] /\ f[s \ {x}] = w[e] + f[(s \ {x}) \ {e}]
      BY <2>1, <2>3, <3>1 DEF DeCualquiera
    <3>3. (s \ {e}) \ {x} = (s \ {x}) \ {e} /\ (s \ {e}) \ {x} \in SUBSET S
      OBVIOUS
    <3>4. f[(s \ {e}) \ {x}] \in Int /\ w[x] \in Int /\ w[e] \in Int
      BY <2>1, <3>3, TipoSuma
    <3> DEFINE a == f[(s \ {e}) \ {x}]
    <3>5. f[s] = w[e] + (w[x] + a) /\ f[s \ {x}] = w[e] + a
      BY <2>1, <3>2, <3>3, Zenon
    <3> HIDE DEF a
    <3>6. QED
      BY <3>4, <3>5 DEF a
  <2>4. QED
    BY <2>2, <2>3
<1> HIDE DEF P
<1>2. \A s \in SUBSET S : s \in P
  BY <1>1, PorTamano
<1>3. QED
  BY <1>2 DEF P

\* The sum depends on the values over the set only.
LEMMA MismaSuma ==
  ASSUME NEW S, IsFiniteSet(S), NEW w, NEW v, NEW f, NEW g, Sumas(f, w, S), Sumas(g, v, S)
  PROVE  \A s \in SUBSET S : (\A x \in s : w[x] = v[x]) => f[s] = g[s]
<1> DEFINE P == {s \in SUBSET S : (\A x \in s : w[x] = v[x]) => f[s] = g[s]}
<1>1. ASSUME NEW s \in SUBSET S,
             \A t \in SUBSET S : Cardinality(t) < Cardinality(s) => t \in P
      PROVE  s \in P
  <2>1. CASE s = {}
    <3>1. f[s] = 0 /\ g[s] = 0
      BY <2>1 DEF Sumas
    <3>2. QED
      BY <3>1
  <2>2. CASE s # {}
    <3> DEFINE e == Elegido(s)
    <3>1. e \in s /\ s \ {e} \in P
      BY <1>1, <2>2, Quita
    <3>2. f[s] = w[e] + f[s \ {e}] /\ g[s] = v[e] + g[s \ {e}]
      BY <2>2 DEF Sumas
    <3>3. QED
      BY <3>1, <3>2, Zenon
  <2>3. QED
    BY <2>1, <2>2
<1> HIDE DEF P
<1>2. \A s \in SUBSET S : s \in P
  BY <1>1, PorTamano
<1>3. QED
  BY <1>2 DEF P

-----------------------------------------------------------------------------
(* What the other modules use.                                             *)

LEMMA SumaT ==
  ASSUME NEW S, IsFiniteSet(S), NEW w \in [S -> Int]
  PROVE  /\ SumaDe(w) \in Int
         /\ w \in [S -> Nat] => SumaDe(w) \in Nat
<1>1. DOMAIN w = S
  OBVIOUS
<1>2. PICK f : Sumas(f, w, S) /\ SumaDe(w) = f[S]
  BY <1>1, EsLaSuma
<1>3. QED
  BY <1>2, TipoSuma, TipoSumaNat

LEMMA SumaNat ==
  ASSUME NEW S, IsFiniteSet(S), NEW w \in [S -> Nat]
  PROVE  SumaDe(w) \in Nat
BY SumaT

\* The empty sum, and that of zeros.
LEMMA SumaCero ==
  ASSUME NEW S, IsFiniteSet(S), NEW w \in [S -> Int], \A x \in S : w[x] = 0
  PROVE  SumaDe(w) = 0
<1>1. PICK f : Sumas(f, w, S) /\ SumaDe(w) = f[S]
  BY EsLaSuma
<1> DEFINE P == {s \in SUBSET S : f[s] = 0}
<1>2. ASSUME NEW s \in SUBSET S,
             \A t \in SUBSET S : Cardinality(t) < Cardinality(s) => t \in P
      PROVE  s \in P
  <2>1. s # {} => s \ {Elegido(s)} \in P /\ w[Elegido(s)] = 0
    BY <1>2, Quita
  <2>2. s # {} => f[s] = w[Elegido(s)] + f[s \ {Elegido(s)}]
    BY <1>1 DEF Sumas
  <2>3. s = {} => f[s] = 0
    BY <1>1 DEF Sumas
  <2>4. QED
    BY <2>1, <2>2, <2>3
<1> HIDE DEF P
<1>3. \A s \in SUBSET S : s \in P
  BY <1>2, PorTamano
<1>4. QED
  BY <1>1, <1>3 DEF P

\* A value that changes changes the sum by the difference.
LEMMA SumaCambia ==
  ASSUME NEW S, IsFiniteSet(S), NEW w \in [S -> Int], NEW v \in [S -> Int], NEW x \in S,
         \A y \in S \ {x} : w[y] = v[y]
  PROVE  SumaDe(v) - v[x] = SumaDe(w) - w[x]
<1>1. PICK f : Sumas(f, w, S) /\ SumaDe(w) = f[S]
  BY EsLaSuma
<1>2. PICK g : Sumas(g, v, S) /\ SumaDe(v) = g[S]
  BY EsLaSuma
<1>3. f[S] = w[x] + f[S \ {x}] /\ g[S] = v[x] + g[S \ {x}]
  <2>1. x \in S /\ S \in SUBSET S
    OBVIOUS
  <2>2. DeCualquiera(f, w, S)
    BY <1>1, <2>1, Saca
  <2>3. DeCualquiera(g, v, S)
    BY <1>2, <2>1, Saca
  <2>4. QED
    BY <2>1, <2>2, <2>3 DEF DeCualquiera
<1>4. f[S \ {x}] = g[S \ {x}]
  BY <1>1, <1>2, MismaSuma
<1>5. f[S \ {x}] \in Int /\ v[x] \in Int /\ w[x] \in Int
  BY <1>1, TipoSuma
<1>6. QED
  BY <1>1, <1>2, <1>3, <1>4, <1>5

LEMMA SumaMas ==
  ASSUME NEW S, IsFiniteSet(S), NEW w \in [S -> Int], NEW v \in [S -> Int], NEW x \in S,
         \A y \in S \ {x} : w[y] = v[y]
  PROVE  SumaDe(v) = SumaDe(w) + (v[x] - w[x])
<1>1. SumaDe(v) - v[x] = SumaDe(w) - w[x]
  BY SumaCambia
<1>2. SumaDe(v) \in Int /\ SumaDe(w) \in Int /\ v[x] \in Int /\ w[x] \in Int
  BY SumaT
<1>3. QED
  BY <1>1, <1>2

\* One value, and zeros.
LEMMA SumaUno ==
  ASSUME NEW S, IsFiniteSet(S), NEW w \in [S -> Int], NEW x \in S, \A y \in S \ {x} : w[y] = 0
  PROVE  SumaDe(w) = w[x]
<1> DEFINE z == [y \in S |-> 0]
<1>1. z \in [S -> Int] /\ (\A y \in S : z[y] = 0) /\ (\A y \in S \ {x} : z[y] = w[y])
      /\ z[x] = 0
  OBVIOUS
<1> HIDE DEF z
<1>2. SumaDe(z) = 0
  BY <1>1, SumaCero
<1>3. SumaDe(w) - w[x] = SumaDe(z) - z[x]
  BY <1>1, SumaCambia
<1>4. SumaDe(w) \in Int /\ w[x] \in Int
  BY SumaT
<1>5. QED
  BY <1>1, <1>2, <1>3, <1>4

\* Two values that change.
LEMMA SumaCambiaDos ==
  ASSUME NEW S, IsFiniteSet(S), NEW w \in [S -> Int], NEW v \in [S -> Int],
         NEW x \in S, NEW z \in S, x # z, \A y \in S \ {x, z} : w[y] = v[y]
  PROVE  SumaDe(v) - v[x] - v[z] = SumaDe(w) - w[x] - w[z]
<1> DEFINE u == [w EXCEPT ![x] = v[x]]
<1>1. u \in [S -> Int] /\ u[x] = v[x] /\ u[z] = w[z]
  OBVIOUS
<1>2. SumaDe(u) - u[x] = SumaDe(w) - w[x]
  <2>1. \A y \in S \ {x} : w[y] = u[y]
    OBVIOUS
  <2> HIDE DEF u
  <2>2. QED
    BY <1>1, <2>1, SumaCambia
<1>3. SumaDe(v) - v[z] = SumaDe(u) - u[z]
  <2>1. \A y \in S \ {z} : u[y] = v[y]
    OBVIOUS
  <2> HIDE DEF u
  <2>2. QED
    BY <1>1, <2>1, SumaCambia
<1>4. /\ SumaDe(v) \in Int /\ SumaDe(w) \in Int
      /\ SumaDe(u) \in Int /\ v[x] \in Int /\ w[x] \in Int
      /\ v[z] \in Int /\ w[z] \in Int
  <2> HIDE DEF u
  <2>1. QED
    BY <1>1, SumaT
<1> HIDE DEF u
<1>5. QED
  BY <1>1, <1>2, <1>3, <1>4
=============================================================================
