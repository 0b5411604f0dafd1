----------------------------- MODULE Induction ------------------------------
(***************************************************************************)
(* Induction over the natural numbers, stated about sets and functions     *)
(* instead of predicates, so that a proof can cite it: the least element   *)
(* of a set of numbers, a set that contains every number, and a function   *)
(* that is defined by recursion.                                           *)
(***************************************************************************)
EXTENDS Integers, FiniteSetTheorems, WellFoundedInduction, TLAPS

(* Every set of numbers has a least element: of the intervals below its    *)
(* members, one has no other as a proper subset.                           *)
LEMMA LeastElement ==
  ASSUME NEW T \in SUBSET Nat, T # {}
  PROVE  \E x \in T : \A y \in T : x <= y
<1> DEFINE R == StrictSubsetOrdering(Nat)
           D == FiniteSubsetsOf(Nat)
           Below == {0 .. x : x \in T}
<1>1. IsWellFoundedOn(R, D)
  BY FS_StrictSubsetOrderingWellFounded
<1>2. Below \subseteq D /\ Below # {}
  <2>1. \A x \in T : 0 .. x \in SUBSET Nat /\ IsFiniteSet(0 .. x)
    BY FS_Interval
  <2> QED
    BY <2>1 DEF FiniteSubsetsOf
<1>3. PICK b \in Below : \A c \in Below : ~ (<<c, b>> \in R)
  <2> HIDE DEF R, D, Below
  <2> QED
    BY <1>1, <1>2, WFMin, Zenon
<1>4. PICK x \in T : b = 0 .. x
  OBVIOUS
<1>5. ASSUME NEW y \in T, y < x PROVE FALSE
  <2>1. 0 .. y \in Below /\ 0 .. y \in D /\ 0 .. x \in D
    BY <1>2
  <2>2. 0 .. y \subseteq 0 .. x /\ 0 .. y # 0 .. x
    BY <1>5
  <2>3. <<0 .. y, 0 .. x>> \in R
    BY <2>1, <2>2 DEF StrictSubsetOrdering, FiniteSubsetsOf
  <2> QED
    BY <1>3, <1>4, <2>1, <2>3
<1> QED
  BY <1>5

(* A set that holds zero and with every number the next one holds all.     *)
LEMMA SetInduction ==
  ASSUME NEW S, 0 \in S, \A n \in Nat : n \in S => n + 1 \in S
  PROVE  \A n \in Nat : n \in S
<1> SUFFICES ASSUME Nat \ S # {} PROVE FALSE
  OBVIOUS
<1>1. PICK x \in Nat \ S : \A y \in Nat \ S : x <= y
  BY LeastElement
<1>2. x - 1 \in Nat /\ x - 1 \in S
  BY <1>1
<1> QED
  BY <1>1, <1>2

(* The functions on the numbers up to n that follow a recursion.           *)
Unrolled(V, v0, Step, n) ==
  {g \in [0 .. n -> V] :
     g[0] = v0 /\ \A i \in 0 .. n - 1 : g[i + 1] = Step[<<i, g[i]>>]}

(* There is one for every n ...                                            *)
LEMMA UnrolledExists ==
  ASSUME NEW V, NEW v0 \in V, NEW Step \in [Nat \X V -> V]
  PROVE  \A n \in Nat : Unrolled(V, v0, Step, n) # {}
<1> DEFINE S == {n \in Nat : Unrolled(V, v0, Step, n) # {}}
<1>1. 0 \in S
  <2>1. [i \in 0 .. 0 |-> v0] \in Unrolled(V, v0, Step, 0)
    BY DEF Unrolled
  <2> QED
    BY <2>1
<1>2. ASSUME NEW n \in Nat, n \in S PROVE n + 1 \in S
  <2>1. PICK g : g \in Unrolled(V, v0, Step, n)
    BY <1>2
  <2> DEFINE h == [i \in 0 .. n + 1 |-> IF i = n + 1 THEN Step[<<n, g[n]>>] ELSE g[i]]
  <2>2. g \in [0 .. n -> V] /\ g[0] = v0
        /\ \A i \in 0 .. n - 1 : g[i + 1] = Step[<<i, g[i]>>]
    BY <2>1 DEF Unrolled
  <2>3. Step[<<n, g[n]>>] \in V
    BY <2>2
  <2>4. h \in [0 .. n + 1 -> V] /\ h[0] = v0
    BY <2>2, <2>3
  <2>5. ASSUME NEW i \in 0 .. (n + 1) - 1
        PROVE  h[i + 1] = Step[<<i, h[i]>>]
    <3>1. i \in Nat /\ i <= n /\ i + 1 \in 0 .. n + 1 /\ i \in 0 .. n + 1 /\ i # n + 1
      OBVIOUS
    <3>2. h[i] = g[i]
      BY <3>1
    <3>3. CASE i = n
      BY <3>1, <3>2, <3>3
    <3>4. CASE i # n
      <4>1. h[i + 1] = g[i + 1]
        BY <3>1, <3>4
      <4> QED
        BY <2>2, <3>1, <3>2, <3>4, <4>1
    <3> QED
      BY <3>3, <3>4
  <2>6. h \in Unrolled(V, v0, Step, n + 1)
    BY <2>4, <2>5 DEF Unrolled
  <2> QED
    BY <2>6
<1> HIDE DEF S
<1>3. \A n \in Nat : n \in S
  BY <1>1, <1>2, SetInduction
<1> QED
  BY <1>3 DEF S

(* ... and any two agree as far as both go.                                *)
LEMMA UnrolledAgree ==
  ASSUME NEW V, NEW v0 \in V, NEW Step \in [Nat \X V -> V],
         NEW m \in Nat, NEW n \in Nat,
         NEW g \in Unrolled(V, v0, Step, m), NEW h \in Unrolled(V, v0, Step, n)
  PROVE  \A i \in Nat : i <= m /\ i <= n => g[i] = h[i]
<1> DEFINE S == {i \in Nat : i <= m /\ i <= n => g[i] = h[i]}
<1>1. 0 \in S
  BY DEF Unrolled
<1>2. ASSUME NEW i \in Nat, i \in S PROVE i + 1 \in S
  <2> SUFFICES ASSUME i + 1 <= m, i + 1 <= n PROVE g[i + 1] = h[i + 1]
    OBVIOUS
  <2>1. i \in 0 .. m - 1 /\ i \in 0 .. n - 1 /\ g[i] = h[i]
    BY <1>2
  <2> QED
    BY <2>1 DEF Unrolled
<1> HIDE DEF S
<1>3. \A i \in Nat : i \in S
  BY <1>1, <1>2, SetInduction
<1> QED
  BY <1>3 DEF S

(* The functions on all numbers that follow a recursion.                   *)
Recursive(V, v0, Step) ==
  {f \in [Nat -> V] :
     f[0] = v0 /\ \A n \in Nat : f[n + 1] = Step[<<n, f[n]>>]}

(* There is one: at n it is what a function that goes as far as n has.     *)
THEOREM RecursiveFunction ==
  ASSUME NEW V, NEW v0 \in V, NEW Step \in [Nat \X V -> V]
  PROVE  Recursive(V, v0, Step) # {}
<1> DEFINE U(n) == CHOOSE g : g \in Unrolled(V, v0, Step, n)
           f == [n \in Nat |-> U(n)[n]]
<1>1. \A n \in Nat : U(n) \in Unrolled(V, v0, Step, n)
  BY UnrolledExists
<1> HIDE DEF U
<1>2. f \in [Nat -> V] /\ f[0] = v0
  BY <1>1 DEF Unrolled
<1>3. ASSUME NEW n \in Nat PROVE f[n + 1] = Step[<<n, f[n]>>]
  <2>1. U(n + 1)[n + 1] = Step[<<n, U(n + 1)[n]>>]
    BY <1>1 DEF Unrolled
  <2>2. U(n + 1)[n] = U(n)[n]
    BY <1>1, UnrolledAgree
  <2> QED
    BY <2>1, <2>2
<1> QED
  BY <1>2, <1>3 DEF Recursive

=============================================================================
