---------------------------- MODULE TotalsProofs ----------------------------
(***************************************************************************)
(* What the proofs need to know of Total: that adding, removing or         *)
(* changing one summand changes the sum by that summand.                   *)
(*                                                                         *)
(* Total is a fold over a set, the value of a function chosen to satisfy   *)
(* its recursion.  That such a function exists, and every fact about it,   *)
(* is shown by a smallest counterexample: the finite subsets of a set are  *)
(* well founded, so a family of them that is not empty has a member no     *)
(* proper subset of which belongs to it.                                   *)
(***************************************************************************)
EXTENDS Totals, Integers, FiniteSetTheorems, TLAPS

(* The element the fold takes first.                                       *)
First(s) == CHOOSE x \in s : TRUE

(* g satisfies the recursion of the fold of f over the subsets of T.       *)
Recurs(g, f, T) ==
    g = [s \in SUBSET T |-> IF s = {} THEN 0 ELSE f[First(s)] + g[s \ {First(s)}]]

(* Total is the value at T of a function chosen to satisfy the recursion.  *)
LEMMA TotalIsChosen ==
    ASSUME NEW f, NEW T
    PROVE  Total(f, T) = (CHOOSE g : Recurs(g, f, T))[T]
BY Zenon DEF Total, MapThenSumSet, MapThenFoldSet, Recurs, First

(* A family of subsets of a finite set that is not empty has a smallest    *)
(* member.                                                                 *)
LEMMA SmallestSet ==
    ASSUME NEW S, IsFiniteSet(S), NEW B, B \subseteq SUBSET S, B # {}
    PROVE  \E m \in B : \A t \in SUBSET m : t # m => t \notin B
<1> DEFINE R == StrictSubsetOrdering(S)
<1>1. IsWellFoundedOn(R, SUBSET S)
  BY FS_StrictSubsetOrderingWellFounded, FS_FiniteSubsetsOfFinite
<1> HIDE DEF R
<1>2. PICK m \in B : \A y \in B : ~ (<<y, m>> \in R)
  BY <1>1, WFMin
<1>3. ASSUME NEW t \in SUBSET m, t # m, t \in B PROVE FALSE
  BY <1>2, <1>3 DEF R, StrictSubsetOrdering
<1> QED
  BY <1>2, <1>3

(* A finite set of integers that is not empty has a least element.         *)
LEMMA LeastExists ==
    ASSUME NEW S, IsFiniteSet(S), S # {}, S \subseteq Int
    PROVE  \E x \in S : \A y \in S : x <= y
<1> DEFINE HasLeast(t) == \E x \in t : \A y \in t : x <= y
           B == {t \in SUBSET S : t # {} /\ ~HasLeast(t)}
<1>1. B = {}
  <2> SUFFICES ASSUME B # {} PROVE FALSE
    OBVIOUS
  <2>1. B \subseteq SUBSET S
    OBVIOUS
  <2> HIDE DEF B
  <2>2. PICK m \in B : \A t \in SUBSET m : t # m => t \notin B
    BY <2>1, SmallestSet
  <2> USE DEF B
  <2>3. PICK x \in m : TRUE
    OBVIOUS
  <2>4. CASE m = {x}
    BY <2>4
  <2>5. CASE m # {x}
    <3>1. m \ {x} # {} /\ m \ {x} \in SUBSET m /\ m \ {x} # m /\ m \ {x} \in SUBSET S
      BY <2>3, <2>5
    <3>2. HasLeast(m \ {x})
      BY <2>2, <3>1
    <3>3. PICK z \in m \ {x} : \A y \in m \ {x} : z <= y
      BY <3>2
    <3>4. x \in Int /\ z \in Int /\ \A y \in m : y \in Int
      OBVIOUS
    <3>5. HasLeast(m)
      <4>1. CASE x <= z
        <5>1. \A y \in m : x <= y
          BY <3>3, <3>4, <4>1
        <5> QED
          BY <5>1
      <4>2. CASE ~(x <= z)
        <5>1. \A y \in m : z <= y
          BY <3>3, <3>4, <4>2
        <5> QED
          BY <5>1
      <4> QED
        BY <4>1, <4>2
    <3> QED
      BY <3>5
  <2> QED
    BY <2>4, <2>5
<1>2. HasLeast(S)
  BY <1>1
<1> QED
  BY <1>2

(* Two functions that recur on a finite set and on one of its subsets      *)
(* agree on the smaller one.                                               *)
LEMMA RecursAgree ==
    ASSUME NEW f, NEW T, IsFiniteSet(T), NEW U \in SUBSET T,
           NEW g, Recurs(g, f, T), NEW h, Recurs(h, f, U)
    PROVE  \A s \in SUBSET U : g[s] = h[s]
<1> DEFINE B == {s \in SUBSET U : g[s] # h[s]}
<1>1. SUFFICES ASSUME B # {} PROVE FALSE
  OBVIOUS
<1>0. B \subseteq SUBSET U /\ IsFiniteSet(U)
  BY FS_Subset
<1> HIDE DEF B
<1>2. PICK m \in B : \A t \in SUBSET m : t # m => t \notin B
  BY <1>0, <1>1, SmallestSet
<1> USE DEF B
<1> DEFINE rest == m \ {First(m)}
<1>3. g[{}] = 0 /\ h[{}] = 0
  BY DEF Recurs
<1>4. m # {}
  BY <1>3
<1>5. First(m) \in m
  BY <1>4 DEF First
<1>6. g[rest] = h[rest]
  BY <1>2, <1>5
<1>7. g[m] = f[First(m)] + g[rest] /\ h[m] = f[First(m)] + h[rest]
  BY <1>4 DEF Recurs
<1> QED
  BY <1>6, <1>7

(* Where the recursion has a solution, Total takes the first element off.  *)
LEMMA RecursTotal ==
    ASSUME NEW f, NEW T, IsFiniteSet(T), T # {},
           \E g : Recurs(g, f, T), \E g : Recurs(g, f, T \ {First(T)})
    PROVE  Total(f, T) = f[First(T)] + Total(f, T \ {First(T)})
<1> DEFINE rest == T \ {First(T)}
           g == CHOOSE k : Recurs(k, f, T)
           h == CHOOSE k : Recurs(k, f, rest)
<1>1. Recurs(g, f, T) /\ Recurs(h, f, rest)
  BY Zenon
<1>2. Total(f, T) = g[T] /\ Total(f, rest) = h[rest]
  BY TotalIsChosen
<1> HIDE DEF g, h
<1>3. g[T] = f[First(T)] + g[rest]
  BY <1>1 DEF Recurs
<1>4. g[rest] = h[rest]
  BY <1>1, RecursAgree
<1> QED
  BY <1>2, <1>3, <1>4

(* On the empty set it has one, and the sum is zero.                       *)
LEMMA RecursEmpty ==
    ASSUME NEW f
    PROVE  (\E g : Recurs(g, f, {})) /\ Total(f, {}) = 0
<1> DEFINE z == [s \in SUBSET {} |-> 0]
           g == CHOOSE k : Recurs(k, f, {})
<1>1. Recurs(z, f, {})
  BY DEF Recurs
<1>2. Recurs(g, f, {})
  BY <1>1, Zenon
<1>3. g[{}] = 0
  BY <1>2 DEF Recurs
<1> QED
  BY <1>1, <1>3, TotalIsChosen

(* On every finite set it has one.                                         *)
LEMMA RecursExists ==
    ASSUME NEW f, NEW T, IsFiniteSet(T)
    PROVE  \E g : Recurs(g, f, T)
<1> DEFINE B == {s \in SUBSET T : ~ \E g : Recurs(g, f, s)}
<1>1. SUFFICES ASSUME B # {} PROVE FALSE
  OBVIOUS
<1>0. B \subseteq SUBSET T
  OBVIOUS
<1> HIDE DEF B
<1>2. PICK m \in B : \A t \in SUBSET m : t # m => t \notin B
  BY <1>0, <1>1, SmallestSet
<1> USE DEF B
<1>3. \A t \in SUBSET m : t # m => \E g : Recurs(g, f, t)
  BY <1>2
<1> DEFINE g == [s \in SUBSET m |->
                    IF s = {} THEN 0 ELSE f[First(s)] + Total(f, s \ {First(s)})]
<1>4. ASSUME NEW t \in SUBSET m, t # m PROVE g[t] = Total(f, t)
  <2>1. CASE t = {}
    BY <2>1, RecursEmpty
  <2>2. CASE t # {}
    <3>1. First(t) \in t
      BY <2>2 DEF First
    <3>2. \E k : Recurs(k, f, t)
      BY <1>3, <1>4
    <3>3. t \ {First(t)} \in SUBSET m /\ t \ {First(t)} # m
      BY <3>1, <1>4
    <3>4. \E k : Recurs(k, f, t \ {First(t)})
      BY <1>3, <3>3
    <3>5. IsFiniteSet(t)
      BY FS_Subset
    <3> QED
      BY <2>2, <3>2, <3>4, <3>5, RecursTotal
  <2> QED
    BY <2>1, <2>2
<1>5. \A s \in SUBSET m : s # {} => g[s \ {First(s)}] = Total(f, s \ {First(s)})
  <2> TAKE s \in SUBSET m
  <2> HAVE s # {}
  <2>1. First(s) \in s
    BY DEF First
  <2>2. s \ {First(s)} \in SUBSET m /\ s \ {First(s)} # m
    BY <2>1
  <2> HIDE DEF g
  <2> QED
    BY <2>2, <1>4
<1>6. g = [s \in SUBSET m |-> IF s = {} THEN 0 ELSE f[First(s)] + g[s \ {First(s)}]]
  BY <1>5
<1>7. Recurs(g, f, m)
  BY <1>6 DEF Recurs
<1> QED
  BY <1>7

(* The sum over a set is one element and the sum over the rest.            *)
LEMMA TotalFirst ==
    ASSUME NEW f, NEW T, IsFiniteSet(T), T # {}
    PROVE  Total(f, T) = f[First(T)] + Total(f, T \ {First(T)})
BY RecursExists, RecursTotal, FS_Subset

(* A sum of integers is an integer.                                        *)
LEMMA TotalType ==
    ASSUME NEW T, IsFiniteSet(T), NEW f, \A x \in T : f[x] \in Int
    PROVE  Total(f, T) \in Int
<1> DEFINE B == {s \in SUBSET T : Total(f, s) \notin Int}
<1>1. SUFFICES ASSUME B # {} PROVE FALSE
  OBVIOUS
<1>0. B \subseteq SUBSET T
  OBVIOUS
<1> HIDE DEF B
<1>2. PICK m \in B : \A t \in SUBSET m : t # m => t \notin B
  BY <1>0, <1>1, SmallestSet
<1> USE DEF B
<1>3. m # {}
  BY RecursEmpty
<1>4. First(m) \in m
  BY <1>3 DEF First
<1>5. Total(f, m \ {First(m)}) \in Int
  BY <1>2, <1>4
<1>6. Total(f, m) = f[First(m)] + Total(f, m \ {First(m)})
  BY <1>3, TotalFirst, FS_Subset
<1> QED
  BY <1>4, <1>5, <1>6

(* ... and whichever element is taken out, it is that one and the rest.    *)
LEMMA TotalAny ==
    ASSUME NEW T, IsFiniteSet(T), NEW f, \A x \in T : f[x] \in Int
    PROVE  \A x \in T : Total(f, T) = f[x] + Total(f, T \ {x})
<1> DEFINE Splits(s) == \A x \in s : Total(f, s) = f[x] + Total(f, s \ {x})
           B == {s \in SUBSET T : ~ Splits(s)}
<1>1. SUFFICES ASSUME B # {} PROVE FALSE
  OBVIOUS
<1>0. B \subseteq SUBSET T
  OBVIOUS
<1> HIDE DEF B
<1>2. PICK m \in B : \A t \in SUBSET m : t # m => t \notin B
  BY <1>0, <1>1, SmallestSet
<1> USE DEF B
<1>3. \A t \in SUBSET m : t # m => Splits(t)
  BY <1>2
<1>4. PICK x \in m : Total(f, m) # f[x] + Total(f, m \ {x})
  OBVIOUS
<1> DEFINE c == First(m)
<1>5. c \in m /\ IsFiniteSet(m)
  BY FS_Subset DEF First
<1>6. Total(f, m) = f[c] + Total(f, m \ {c})
  BY <1>5, TotalFirst
<1> HIDE DEF c
<1>7. c # x
  BY <1>4, <1>6
<1>8. Total(f, m \ {c}) = f[x] + Total(f, (m \ {c}) \ {x})
  <2>1. m \ {c} \in SUBSET m /\ m \ {c} # m /\ x \in m \ {c}
    BY <1>5, <1>7
  <2> QED
    BY <2>1, <1>3
<1>9. Total(f, m \ {x}) = f[c] + Total(f, (m \ {x}) \ {c})
  <2>1. m \ {x} \in SUBSET m /\ m \ {x} # m /\ c \in m \ {x}
    BY <1>5, <1>7
  <2> QED
    BY <2>1, <1>3
<1>10. (m \ {c}) \ {x} = (m \ {x}) \ {c}
  OBVIOUS
<1> DEFINE z == Total(f, (m \ {x}) \ {c})
<1>11. z \in Int /\ f[x] \in Int /\ f[c] \in Int
  BY <1>5, TotalType, FS_Subset
<1>12. Total(f, m) = f[c] + (f[x] + z) /\ Total(f, m \ {x}) = f[c] + z
  BY <1>6, <1>8, <1>9, <1>10
<1> HIDE DEF z
<1> QED
  BY <1>4, <1>11, <1>12

(* Two functions that agree on a set have the same sum over it.            *)
LEMMA TotalSame ==
    ASSUME NEW T, IsFiniteSet(T), NEW f, NEW g, \A x \in T : f[x] = g[x]
    PROVE  Total(f, T) = Total(g, T)
<1> DEFINE B == {s \in SUBSET T : Total(f, s) # Total(g, s)}
<1>1. SUFFICES ASSUME B # {} PROVE FALSE
  OBVIOUS
<1>0. B \subseteq SUBSET T
  OBVIOUS
<1> HIDE DEF B
<1>2. PICK m \in B : \A t \in SUBSET m : t # m => t \notin B
  BY <1>0, <1>1, SmallestSet
<1> USE DEF B
<1>3. m # {}
  BY RecursEmpty
<1>4. First(m) \in m
  BY <1>3 DEF First
<1>5. Total(f, m \ {First(m)}) = Total(g, m \ {First(m)})
  BY <1>2, <1>4
<1>6. /\ Total(f, m) = f[First(m)] + Total(f, m \ {First(m)})
      /\ Total(g, m) = g[First(m)] + Total(g, m \ {First(m)})
  BY <1>3, TotalFirst, FS_Subset
<1> QED
  BY <1>4, <1>5, <1>6

(* The sum over a set that gains an element grows by its value.            *)
LEMMA TotalAdd ==
    ASSUME NEW T, IsFiniteSet(T), NEW f, NEW x, x \notin T,
           \A y \in T \cup {x} : f[y] \in Int
    PROVE  Total(f, T \cup {x}) = Total(f, T) + f[x]
<1>1. IsFiniteSet(T \cup {x})
  BY FS_AddElement
<1>2. Total(f, T \cup {x}) = f[x] + Total(f, (T \cup {x}) \ {x})
  BY <1>1, TotalAny
<1>3. (T \cup {x}) \ {x} = T
  OBVIOUS
<1>4. Total(f, T \cup {x}) = f[x] + Total(f, T)
  BY <1>2, <1>3
<1>5. Total(f, T) \in Int /\ f[x] \in Int
  BY TotalType
<1> QED
  BY <1>4, <1>5

(* Changing the value of one element changes the sum by the difference.    *)
LEMMA TotalChange ==
    ASSUME NEW T, IsFiniteSet(T), NEW f, NEW g, NEW x \in T,
           \A y \in T : f[y] \in Int /\ g[y] \in Int,
           \A y \in T \ {x} : f[y] = g[y]
    PROVE  Total(g, T) = Total(f, T) + (g[x] - f[x])
<1>1. IsFiniteSet(T \ {x})
  BY FS_RemoveElement
<1>2. Total(f, T \ {x}) = Total(g, T \ {x})
  BY <1>1, TotalSame
<1>3. Total(f, T) = f[x] + Total(f, T \ {x}) /\ Total(g, T) = g[x] + Total(g, T \ {x})
  BY TotalAny
<1>4. Total(f, T \ {x}) \in Int /\ f[x] \in Int /\ g[x] \in Int
  BY <1>1, TotalType
<1> QED
  BY <1>2, <1>3, <1>4

(* A sum of zeros is zero.                                                 *)
LEMMA TotalZero ==
    ASSUME NEW T, IsFiniteSet(T), NEW f, \A x \in T : f[x] = 0
    PROVE  Total(f, T) = 0
<1> DEFINE B == {s \in SUBSET T : Total(f, s) # 0}
<1>1. SUFFICES ASSUME B # {} PROVE FALSE
  OBVIOUS
<1>0. B \subseteq SUBSET T
  OBVIOUS
<1> HIDE DEF B
<1>2. PICK m \in B : \A t \in SUBSET m : t # m => t \notin B
  BY <1>0, <1>1, SmallestSet
<1> USE DEF B
<1>3. m # {}
  BY RecursEmpty
<1>4. First(m) \in m
  BY <1>3 DEF First
<1>5. Total(f, m \ {First(m)}) = 0
  BY <1>2, <1>4
<1>6. Total(f, m) = f[First(m)] + Total(f, m \ {First(m)})
  BY <1>3, TotalFirst, FS_Subset
<1> QED
  BY <1>4, <1>5, <1>6

(* A sum of naturals is a natural, and no smaller than any of them.        *)
LEMMA TotalNat ==
    ASSUME NEW T, IsFiniteSet(T), NEW f, \A x \in T : f[x] \in Nat
    PROVE  Total(f, T) \in Nat /\ \A x \in T : f[x] <= Total(f, T)
<1> DEFINE B == {s \in SUBSET T : Total(f, s) \notin Nat}
<1>1. B = {}
  <2> SUFFICES ASSUME B # {} PROVE FALSE
    OBVIOUS
  <2>1. B \subseteq SUBSET T
    OBVIOUS
  <2> HIDE DEF B
  <2>2. PICK m \in B : \A t \in SUBSET m : t # m => t \notin B
    BY <2>1, SmallestSet
  <2> USE DEF B
  <2>3. m # {}
    BY RecursEmpty
  <2>4. First(m) \in m
    BY <2>3 DEF First
  <2>5. Total(f, m \ {First(m)}) \in Nat
    BY <2>2, <2>4
  <2>6. Total(f, m) = f[First(m)] + Total(f, m \ {First(m)})
    BY <2>3, TotalFirst, FS_Subset
  <2> QED
    BY <2>4, <2>5, <2>6
<1>2. ASSUME NEW x \in T PROVE f[x] <= Total(f, T)
  <2>1. Total(f, T) = f[x] + Total(f, T \ {x})
    BY TotalAny
  <2>2. Total(f, T \ {x}) \in Nat
    BY <1>1
  <2> QED
    BY <2>1, <2>2
<1> QED
  BY <1>1, <1>2
=============================================================================
