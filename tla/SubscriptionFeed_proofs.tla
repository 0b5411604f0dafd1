----------------------- MODULE SubscriptionFeed_proofs ----------------------
(***************************************************************************)
(* Proofs about the subscription behind the reader of lines, for any       *)
(* lines, chunks and difficulties, and for hashes and targets of any width *)
(* to any base.                                                            *)
(***************************************************************************)
EXTENDS SubscriptionFeed, Induction

-----------------------------------------------------------------------------
(* Powers and quotients.                                                   *)

(* A product with a positive number is no smaller. *)
LEMMA ProductNotSmaller ==
  ASSUME NEW a \in Nat \ {0}, NEW b \in Nat
  PROVE  a * b \in Nat /\ b <= a * b
<1> DEFINE d == a - 1
<1>1. d \in Nat /\ a = 1 + d
  OBVIOUS
<1>2. d * b \in Nat
  BY <1>1
<1> HIDE DEF d
<1>3. a * b = b + d * b
  BY <1>1
<1> QED
  BY <1>2, <1>3

(* The recursion that defines Power is satisfied. *)
LEMMA PowerStep ==
  /\ Power \in [Nat -> Nat]
  /\ Power[0] = 1
  /\ \A n \in Nat : Power[n + 1] = Base * Power[n]
<1> DEFINE Step == [p \in Nat \X Nat |-> Base * p[2]]
           IsPower(f) == f = [n \in Nat |-> IF n = 0 THEN 1 ELSE Base * f[n - 1]]
<1>b. Base \in Nat
  BY SubscriptionAssumption
<1>0. Step \in [Nat \X Nat -> Nat]
  <2>1. \A v \in Nat : Base * v \in Nat
    BY <1>b
  <2> QED
    BY <2>1
<1>1. \A n, v \in Nat : Step[<<n, v>>] = Base * v
  OBVIOUS
<1> HIDE DEF Step
<1>2. PICK f \in [Nat -> Nat] :
        f[0] = 1 /\ \A n \in Nat : f[n + 1] = Step[<<n, f[n]>>]
  <2>1. Recursive(Nat, 1, Step) # {}
    BY <1>0, RecursiveFunction
  <2> QED
    BY <2>1 DEF Recursive
<1>3. \A n \in Nat : f[n] = IF n = 0 THEN 1 ELSE Base * f[n - 1]
  <2> SUFFICES ASSUME NEW n \in Nat, n # 0 PROVE f[n] = Base * f[n - 1]
    BY <1>2
  <2>1. n - 1 \in Nat /\ (n - 1) + 1 = n
    OBVIOUS
  <2> QED
    BY <1>1, <1>2, <2>1
<1>4. IsPower(f)
  <2>1. f = [n \in Nat |-> f[n]]
    BY <1>2
  <2>2. [n \in Nat |-> f[n]] = [n \in Nat |-> IF n = 0 THEN 1 ELSE Base * f[n - 1]]
    BY <1>3
  <2> QED
    BY <2>1, <2>2
<1>5. Power = CHOOSE g : IsPower(g)
  BY DEF Power
<1>6. IsPower(Power)
  BY <1>4, <1>5
<1>7. Power[0] = 1 /\ \A n \in Nat : Power[n + 1] = Base * Power[n]
  <2>1. \A n \in Nat : Power[n] = IF n = 0 THEN 1 ELSE Base * Power[n - 1]
    BY <1>6
  <2>2. ASSUME NEW n \in Nat PROVE Power[n + 1] = Base * Power[n]
    <3>1. n + 1 \in Nat /\ n + 1 # 0 /\ (n + 1) - 1 = n
      OBVIOUS
    <3> QED
      BY <2>1, <3>1
  <2> QED
    BY <2>1, <2>2
<1>8. \A n \in Nat : Power[n] \in Nat
  <2> DEFINE S == {n \in Nat : Power[n] \in Nat}
  <2>1. 0 \in S
    BY <1>7
  <2>2. \A n \in Nat : n \in S => n + 1 \in S
    BY <1>b, <1>7
  <2> HIDE DEF S
  <2>3. \A n \in Nat : n \in S
    BY <2>1, <2>2, SetInduction
  <2> QED
    BY <2>3 DEF S
<1>9. Power = [n \in Nat |-> Power[n]]
  BY <1>6
<1> QED
  BY <1>7, <1>8, <1>9

(* Powers are positive and grow. *)
LEMMA PowerGrows ==
  \A n, k \in Nat : Power[n] \in Nat \ {0} /\ Power[n] <= Power[n + k]
<1>b. Base \in Nat \ {0}
  BY SubscriptionAssumption
<1>1. ASSUME NEW n \in Nat
      PROVE  Power[n + 1] \in Nat /\ Power[n] \in Nat /\ Power[n] <= Power[n + 1]
  <2>1. Power[n + 1] = Base * Power[n] /\ Power[n] \in Nat
    BY PowerStep
  <2> QED
    BY <1>b, <2>1, ProductNotSmaller
<1>2. ASSUME NEW n \in Nat
      PROVE  \A k \in Nat : Power[n] <= Power[n + k]
  <2> DEFINE S == {k \in Nat : Power[n] <= Power[n + k]}
  <2>1. 0 \in S
    BY <1>1
  <2>2. ASSUME NEW k \in Nat, k \in S PROVE k + 1 \in S
    <3>1. n + k \in Nat /\ (n + k) + 1 = n + (k + 1)
      OBVIOUS
    <3>2. Power[n + k] <= Power[n + (k + 1)] /\ Power[n] <= Power[n + k]
      BY <1>1, <2>2, <3>1
    <3>3. Power[n] \in Nat /\ Power[n + k] \in Nat /\ Power[n + (k + 1)] \in Nat
      BY <1>1, <3>1
    <3> QED
      BY <3>2, <3>3
  <2> HIDE DEF S
  <2>3. \A k \in Nat : k \in S
    BY <2>1, <2>2, SetInduction
  <2> QED
    BY <2>3 DEF S
<1>3. ASSUME NEW n \in Nat PROVE Power[n] \in Nat \ {0}
  <2>1. Power[0] <= Power[0 + n] /\ 0 + n = n
    BY <1>2
  <2> QED
    BY <2>1, PowerStep
<1> QED
  BY <1>2, <1>3

(* A quotient and its remainder are found again. *)
LEMMA Quotients ==
  ASSUME NEW a \in Nat \ {0}, NEW q \in Nat, NEW r \in Nat, r < a
  PROVE  (q * a + r) \div a = q
BY SMT

(* Dividing twice is dividing once by the product. *)
LEMMA DivideTwice ==
  ASSUME NEW n \in Nat, NEW a \in Nat \ {0}, NEW b \in Nat \ {0}
  PROVE  (n \div a) \div b = n \div (b * a)
<1> DEFINE q == n \div a
           r == n % a
           u == q \div b
           v == q % b
<1>1. q \in Nat /\ r \in Nat /\ r < a /\ n = q * a + r
  BY SMT
<1>2. u \in Nat /\ v \in Nat /\ v < b /\ q = u * b + v
  BY <1>1, SMT
<1> HIDE DEF q, r, u, v
<1>3. n = u * (b * a) + (v * a + r)
  BY <1>1, <1>2
<1>4. v * a + r \in Nat /\ v * a + r < b * a
  <2>1. v * a \in Nat /\ (v + 1) * a <= b * a
    BY <1>1, <1>2
  <2>2. (v + 1) * a = v * a + a
    BY <1>2
  <2> QED
    BY <1>1, <2>1, <2>2
<1>5. b * a \in Nat \ {0}
  OBVIOUS
<1>6. n \div (b * a) = u
  <2> DEFINE m == b * a
             w == v * a + r
  <2> HIDE DEF m, w
  <2>1. (u * m + w) \div m = u
    BY <1>2, <1>4, <1>5, Quotients DEF m, w
  <2> QED
    BY <1>3, <2>1 DEF m, w
<1> QED
  BY <1>6 DEF u, q

-----------------------------------------------------------------------------
(* Numbers and their digits.                                               *)

(* a[i] and b[i] are the numbers that the first i digits of s and t make.  *)
MadeOf(W, a, s) ==
  /\ a \in [0 .. W -> Nat]
  /\ \A i \in 1 .. W : s[i] \in 0 .. Base - 1 /\ a[i] = Base * a[i - 1] + s[i]

(* What begins with equal digits is equal so far. *)
LEMMA EqualSoFar ==
  ASSUME NEW W \in Nat, NEW a, NEW b, NEW s, NEW t,
         MadeOf(W, a, s), MadeOf(W, b, t), a[0] = b[0]
  PROVE  \A k \in 0 .. W : (\A i \in 1 .. k : s[i] = t[i]) => a[k] = b[k]
<1> DEFINE S == {k \in Nat : k <= W /\ (\A i \in 1 .. k : s[i] = t[i]) => a[k] = b[k]}
<1>1. 0 \in S
  OBVIOUS
<1>2. ASSUME NEW k \in Nat, k \in S PROVE k + 1 \in S
  <2> SUFFICES ASSUME k + 1 <= W, \A i \in 1 .. k + 1 : s[i] = t[i]
               PROVE  a[k + 1] = b[k + 1]
    OBVIOUS
  <2>1. a[k] = b[k]
    BY <1>2
  <2>2. k + 1 \in 1 .. W /\ k + 1 \in 1 .. k + 1 /\ (k + 1) - 1 = k
    OBVIOUS
  <2>3. a[k + 1] = Base * a[k] + s[k + 1] /\ b[k + 1] = Base * b[k] + t[k + 1]
    BY <2>2 DEF MadeOf
  <2> QED
    BY <2>1, <2>2, <2>3
<1> HIDE DEF S
<1>3. \A k \in Nat : k \in S
  BY <1>1, <1>2, SetInduction
<1> QED
  BY <1>3 DEF S

(* What is smaller so far stays smaller, whatever digits follow. *)
LEMMA SmallerSoFar ==
  ASSUME NEW W \in Nat, NEW a, NEW b, NEW s, NEW t,
         MadeOf(W, a, s), MadeOf(W, b, t),
         NEW k \in 0 .. W, a[k] < b[k]
  PROVE  a[W] < b[W]
<1>b. Base \in Nat \ {0}
  BY SubscriptionAssumption
<1> DEFINE S == {m \in Nat : k + m <= W => a[k + m] < b[k + m]}
<1>1. 0 \in S
  OBVIOUS
<1>2. ASSUME NEW m \in Nat, m \in S PROVE m + 1 \in S
  <2> SUFFICES ASSUME k + (m + 1) <= W PROVE a[k + (m + 1)] < b[k + (m + 1)]
    OBVIOUS
  <2> DEFINE i == k + (m + 1)
  <2>1. i \in 1 .. W /\ i - 1 = k + m /\ k + m \in 0 .. W
    OBVIOUS
  <2>2. a[i - 1] < b[i - 1] /\ a[i - 1] \in Nat /\ b[i - 1] \in Nat
    BY <1>2, <2>1 DEF MadeOf
  <2>3. /\ a[i] = Base * a[i - 1] + s[i] /\ b[i] = Base * b[i - 1] + t[i]
        /\ s[i] \in 0 .. Base - 1 /\ t[i] \in 0 .. Base - 1
    BY <2>1 DEF MadeOf
  <2> HIDE DEF i
  <2> DEFINE d == b[i - 1] - a[i - 1]
  <2>4. d \in Nat \ {0} /\ b[i - 1] = a[i - 1] + d
    BY <2>2
  <2>5. d * Base \in Nat /\ Base <= d * Base /\ d * Base = Base * d
    BY <1>b, <2>4, ProductNotSmaller
  <2> HIDE DEF d
  <2>6. Base * b[i - 1] = Base * a[i - 1] + Base * d /\ Base * a[i - 1] \in Nat
    BY <1>b, <2>2, <2>4
  <2>7. a[i] < b[i]
    BY <1>b, <2>3, <2>5, <2>6
  <2> QED
    BY <2>7 DEF i
<1> HIDE DEF S
<1>3. \A m \in Nat : m \in S
  BY <1>1, <1>2, SetInduction
<1>4. W - k \in Nat /\ k + (W - k) = W
  OBVIOUS
<1> QED
  BY <1>3, <1>4 DEF S

(* Numbers of equally many digits compare as their digits do, the first    *)
(* difference first.                                                       *)
LEMMA CompareDigits ==
  ASSUME NEW W \in Nat, NEW a, NEW b, NEW s, NEW t,
         MadeOf(W, a, s), MadeOf(W, b, t), a[0] = b[0]
  PROVE  a[W] <= b[W] <=>
           \/ \A i \in 1 .. W : s[i] = t[i]
           \/ \E k \in 1 .. W : s[k] < t[k] /\ \A i \in 1 .. k - 1 : s[i] = t[i]
<1>b. Base \in Nat \ {0}
  BY SubscriptionAssumption
<1>0. a[W] \in Nat /\ b[W] \in Nat
  BY DEF MadeOf
<1>1. ASSUME \A i \in 1 .. W : s[i] = t[i] PROVE a[W] = b[W]
  BY <1>1, EqualSoFar
<1>2. ASSUME NEW k \in 1 .. W, \A i \in 1 .. k - 1 : s[i] = t[i]
      PROVE  /\ s[k] < t[k] => a[W] < b[W]
             /\ t[k] < s[k] => b[W] < a[W]
  <2>1. k - 1 \in 0 .. W /\ k \in 0 .. W
    OBVIOUS
  <2>2. a[k - 1] = b[k - 1]
    BY <1>2, <2>1, EqualSoFar
  <2>3. /\ a[k] = Base * a[k - 1] + s[k] /\ b[k] = Base * a[k - 1] + t[k]
        /\ s[k] \in Int /\ t[k] \in Int /\ a[k - 1] \in Nat
    BY <1>b, <2>1, <2>2 DEF MadeOf
  <2>4. Base * a[k - 1] \in Nat
    BY <1>b, <2>3
  <2>5. (s[k] < t[k] => a[k] < b[k]) /\ (t[k] < s[k] => b[k] < a[k])
    BY <2>3, <2>4
  <2>6. ASSUME s[k] < t[k] PROVE a[W] < b[W]
    BY <2>1, <2>5, <2>6, SmallerSoFar
  <2>7. ASSUME t[k] < s[k] PROVE b[W] < a[W]
    BY <2>1, <2>5, <2>7, SmallerSoFar
  <2> QED
    BY <2>6, <2>7
<1>3. ASSUME a[W] <= b[W], NEW j \in 1 .. W, s[j] # t[j]
      PROVE  \E k \in 1 .. W : s[k] < t[k] /\ \A i \in 1 .. k - 1 : s[i] = t[i]
  <2> DEFINE T == {i \in 1 .. W : s[i] # t[i]}
  <2>1. PICK k \in T : \A i \in T : k <= i
    <3>1. T \in SUBSET Nat /\ T # {}
      BY <1>3
    <3> HIDE DEF T
    <3> QED
      BY <3>1, LeastElement
  <2>2. k \in 1 .. W /\ s[k] # t[k] /\ \A i \in 1 .. k - 1 : s[i] = t[i]
    BY <2>1
  <2>3. s[k] \in Int /\ t[k] \in Int
    <3>1. s[k] \in 0 .. Base - 1 /\ t[k] \in 0 .. Base - 1
      BY <2>2 DEF MadeOf
    <3> QED
      BY <3>1
  <2>4. ~ (t[k] < s[k])
    BY <1>0, <1>2, <1>3, <2>2
  <2> QED
    BY <2>2, <2>3, <2>4
<1> QED
  BY <1>0, <1>1, <1>2, <1>3

(* '%064x' pads a number to Width digits and has room for every target. *)
LEMMA LengthOf ==
  ASSUME NEW n \in Nat, n < Power[Width + Growth]
  PROVE  /\ Length(n) \in Width .. Width + Growth
         /\ n < Power[Length(n)]
         /\ n < Power[Width] => Length(n) = Width
<1>w. Width \in Nat \ {0} /\ Growth = 8
  BY SubscriptionAssumption DEF Growth
<1> DEFINE Fits(w) == n < Power[w] /\ (w = Width \/ n >= Power[w - 1])
           T == {w \in Width .. Width + Growth : n < Power[w]}
<1>1. PICK w \in T : \A v \in T : w <= v
  <2>1. Width + Growth \in T /\ T \in SUBSET Nat
    BY <1>w
  <2> HIDE DEF T
  <2> QED
    BY <2>1, LeastElement
<1>2. w \in Width .. Width + Growth /\ Fits(w)
  <2>1. w \in Width .. Width + Growth /\ n < Power[w]
    BY <1>1
  <2>2. CASE w # Width
    <3>1. w - 1 \in Width .. Width + Growth /\ w - 1 \in Nat
      BY <1>w, <2>1, <2>2
    <3>2. ~ (n < Power[w - 1])
      BY <1>1, <1>w, <3>1
    <3>3. Power[w - 1] \in Nat
      BY <3>1, PowerGrows
    <3> QED
      BY <2>1, <3>2, <3>3
  <2> QED
    BY <2>1, <2>2
<1>3. Length(n) \in Width .. Width + Growth /\ Fits(Length(n))
  <2>1. Length(n) = CHOOSE v \in Width .. Width + Growth : Fits(v)
    BY DEF Length
  <2> HIDE DEF Fits
  <2> QED
    BY <1>2, <2>1
<1>4. ASSUME n < Power[Width] PROVE Length(n) = Width
  <2> SUFFICES ASSUME Length(n) # Width PROVE FALSE
    OBVIOUS
  <2> DEFINE k == (Length(n) - 1) - Width
  <2>1. k \in Nat /\ Length(n) - 1 = Width + k
    BY <1>3, <1>w
  <2>2. Power[Width] <= Power[Length(n) - 1] /\ Power[Width] \in Nat
        /\ Power[Length(n) - 1] \in Nat
    BY <1>w, <2>1, PowerGrows
  <2> QED
    BY <1>3, <1>4, <2>2
<1> QED
  BY <1>3, <1>4

(* The leading digits of a number make up its quotient. *)
Leading(n) == [i \in 0 .. Length(n) |-> n \div Power[Length(n) - i]]

(* The digits of a number make it, however many they are. *)
LEMMA DigitsMakeNumber ==
  ASSUME NEW n \in Nat, n < Power[Width + Growth]
  PROVE  /\ Digits(n) \in Seq(Nat) /\ Len(Digits(n)) = Length(n)
         /\ MadeOf(Length(n), Leading(n), Digits(n))
         /\ Leading(n)[0] = 0
         /\ Leading(n)[Length(n)] = n
<1> DEFINE L == Length(n)
<1>b. Base \in Nat \ {0}
  BY SubscriptionAssumption
<1>1. L \in Nat /\ n < Power[L]
  BY LengthOf, SubscriptionAssumption DEF Growth
<1>2. \A i \in 0 .. L : L - i \in Nat /\ Power[L - i] \in Nat \ {0}
  BY <1>1, PowerGrows
<1>3. \A i \in 0 .. L : Leading(n)[i] = n \div Power[L - i]
  BY DEF Leading
<1>4. \A i \in 0 .. L : Leading(n)[i] \in Nat
  BY <1>2, <1>3, SMT
<1>5. Leading(n) \in [0 .. L -> Nat]
  BY <1>4 DEF Leading
<1>6. \A i \in 1 .. L : Digits(n)[i] = Leading(n)[i] % Base
  BY <1>3 DEF Digits
<1>7. ASSUME NEW i \in 1 .. L
      PROVE  Leading(n)[i - 1] = Leading(n)[i] \div Base
  <2>1. i \in 0 .. L /\ i - 1 \in 0 .. L /\ L - i \in Nat /\ L - (i - 1) = (L - i) + 1
    BY <1>1
  <2>2. Power[L - (i - 1)] = Base * Power[L - i]
    BY <2>1, PowerStep
  <2>3. (n \div Power[L - i]) \div Base = n \div (Base * Power[L - i])
    BY <1>b, <1>2, <2>1, DivideTwice
  <2> QED
    BY <1>3, <2>1, <2>2, <2>3
<1>8. ASSUME NEW i \in 1 .. L
      PROVE  /\ Digits(n)[i] \in 0 .. Base - 1
             /\ Leading(n)[i] = Base * Leading(n)[i - 1] + Digits(n)[i]
  <2> DEFINE x == Leading(n)[i]
  <2>1. x \in Nat
    BY <1>4
  <2> HIDE DEF x
  <2>2. x % Base \in 0 .. Base - 1 /\ x = Base * (x \div Base) + (x % Base)
    BY <1>b, <2>1, SMT
  <2> QED
    BY <1>6, <1>7, <2>2 DEF x
<1>9. MadeOf(L, Leading(n), Digits(n))
  BY <1>5, <1>8 DEF MadeOf
<1>10. Digits(n) \in Seq(Nat) /\ Len(Digits(n)) = L
  <2>1. \A i \in 1 .. L : Digits(n)[i] \in Nat
    BY <1>8, <1>b
  <2>2. Digits(n) = [i \in 1 .. L |-> Digits(n)[i]]
    BY DEF Digits
  <2> QED
    BY <1>1, <2>1, <2>2
<1>11. Leading(n)[0] = 0
  <2>1. Leading(n)[0] = n \div Power[L] /\ Power[L] \in Nat \ {0}
    BY <1>1, <1>2, <1>3
  <2>2. \A m \in Nat \ {0} : n < m => n \div m = 0
    BY SMT
  <2> QED
    BY <1>1, <2>1, <2>2
<1>12. Leading(n)[L] = n
  <2>1. L \in 0 .. L /\ L - L = 0
    BY <1>1
  <2>2. Leading(n)[L] = n \div 1
    BY <1>3, <2>1, PowerStep
  <2> QED
    BY <2>2
<1> QED
  BY <1>9, <1>10, <1>11, <1>12

(* Comparing a hash with a target as strings is comparing it with the      *)
(* number that the leading digits of the target make.                      *)
THEOREM StringComparison ==
  ASSUME NEW pow \in Hashes, NEW n \in Nat, n < Power[Width + Growth]
  PROVE  /\ StringLeq(Digits(pow), Digits(n)) <=> pow <= n \div Power[Length(n) - Width]
         /\ n \div Power[Length(n) - Width] \in 0 .. n
<1> DEFINE L == Length(n)
           a == Leading(pow)
           b == Leading(n)
           s == Digits(pow)
           t == Digits(n)
<1>w. Width \in Nat \ {0} /\ Growth = 8
  BY SubscriptionAssumption DEF Growth
<1>1. pow \in Nat /\ pow < Power[Width] /\ pow < Power[Width + Growth]
  <2>1. Power[Width] \in Nat /\ Power[Width] <= Power[Width + Growth]
        /\ Power[Width + Growth] \in Nat
    BY <1>w, PowerGrows
  <2> QED
    BY <2>1 DEF Hashes, MaxHash
<1>2. L \in Nat /\ Width <= L
  BY <1>w, LengthOf
<1>3. Length(pow) = Width
  BY <1>1, LengthOf
<1>4. /\ Len(s) = Width /\ MadeOf(Width, a, s) /\ a[0] = 0 /\ a[Width] = pow
  BY <1>1, <1>3, DigitsMakeNumber
<1>5. Len(t) = L /\ MadeOf(L, b, t) /\ b[0] = 0
  BY DigitsMakeNumber
<1>6. b[Width] = n \div Power[L - Width] /\ b[Width] \in Nat
  <2>1. Width \in 0 .. L
    BY <1>w, <1>2
  <2> QED
    BY <1>5, <2>1 DEF MadeOf, Leading
<1> HIDE DEF a, b, s, t, L
<1> DEFINE c == [i \in 0 .. Width |-> b[i]]
<1>7. MadeOf(Width, c, t) /\ c[0] = 0 /\ c[Width] = b[Width]
  <2>1. \A i \in 0 .. Width : i \in 0 .. L /\ b[i] \in Nat
    BY <1>w, <1>2, <1>5 DEF MadeOf
  <2>2. \A i \in 1 .. Width : /\ t[i] \in 0 .. Base - 1
                              /\ b[i] = Base * b[i - 1] + t[i]
    BY <1>w, <1>2, <1>5 DEF MadeOf
  <2>3. \A i \in 1 .. Width : i - 1 \in 0 .. Width /\ i \in 0 .. Width
    BY <1>w
  <2>4. 0 \in 0 .. Width /\ Width \in 0 .. Width
    BY <1>w
  <2>5. c \in [0 .. Width -> Nat] /\ \A i \in 0 .. Width : c[i] = b[i]
    BY <2>1
  <2> HIDE DEF c
  <2>6. \A i \in 1 .. Width : c[i] = Base * c[i - 1] + t[i]
    BY <2>2, <2>3, <2>5
  <2>7. c[0] = 0 /\ c[Width] = b[Width]
    BY <1>5, <2>4, <2>5
  <2> QED
    BY <2>2, <2>5, <2>6, <2>7 DEF MadeOf
<1> HIDE DEF c
<1>8. pow <= b[Width] <=>
        \/ \A i \in 1 .. Width : s[i] = t[i]
        \/ \E k \in 1 .. Width : s[k] < t[k] /\ \A i \in 1 .. k - 1 : s[i] = t[i]
  <2>1. Width \in Nat /\ a[0] = c[0]
    BY <1>w, <1>4, <1>7
  <2>2. MadeOf(Width, a, s) /\ MadeOf(Width, c, t)
    BY <1>4, <1>7
  <2>3. a[Width] <= c[Width] <=>
          \/ \A i \in 1 .. Width : s[i] = t[i]
          \/ \E k \in 1 .. Width : s[k] < t[k] /\ \A i \in 1 .. k - 1 : s[i] = t[i]
    BY <2>1, <2>2, CompareDigits
  <2> QED
    BY <1>4, <1>7, <2>3
<1>9. StringLeq(s, t) <=>
        \/ \A i \in 1 .. Width : s[i] = t[i]
        \/ \E k \in 1 .. Width : s[k] < t[k] /\ \A i \in 1 .. k - 1 : s[i] = t[i]
  <2>1. 1 .. Len(s) \intersect 1 .. Len(t) = 1 .. Width /\ Len(s) <= Len(t)
    BY <1>w, <1>2, <1>4, <1>5
  <2> QED
    BY <1>4, <2>1 DEF StringLeq
<1>10. b[Width] <= n
  <2>1. Power[L - Width] \in Nat \ {0}
    BY <1>w, <1>2, PowerGrows
  <2>2. \A m \in Nat \ {0} : n \div m <= n
    BY SMT
  <2> QED
    BY <1>6, <2>1, <2>2
<1> QED
  BY <1>6, <1>8, <1>9, <1>10 DEF s, t, L

-----------------------------------------------------------------------------
(* Targets.                                                                *)

(* A quotient bounds what it was taken of from both sides. *)
LEMMA QuotientOf ==
  ASSUME NEW a \in Nat, NEW m \in Nat \ {0}
  PROVE  /\ a \div m \in Nat
         /\ (a \div m) * m <= a
         /\ a < ((a \div m) + 1) * m
<1> DEFINE q == a \div m
           r == a % m
<1>1. q \in Nat /\ r \in Nat /\ r < m /\ a = q * m + r
  BY SMT
<1> HIDE DEF q, r
<1>2. q * m \in Nat /\ (q + 1) * m = q * m + m
  BY <1>1
<1> QED
  BY <1>1, <1>2 DEF q

(* The greatest hash is a number. *)
LEMMA MaxHashIsNumber == MaxHash \in Nat
<1>1. Width \in Nat
  BY SubscriptionAssumption
<1>2. Power[Width] \in Nat \ {0}
  BY <1>1, PowerGrows
<1> QED
  BY <1>2 DEF MaxHash

(* However the quotient is rounded, it is less than two below the exact    *)
(* one and never above it.                                                 *)
LEMMA QuotientBounds ==
  ASSUME NEW x \in Nat, NEW d \in Nat \X (Nat \ {0}), d[1] # 0
  PROVE  /\ Quotient(x, d) \in Nat
         /\ Quotient(x, d) * d[1] <= x * d[2]
         /\ x * d[2] < (Quotient(x, d) + 2) * d[1]
<1> DEFINE n == d[1]
           e == d[2]
           q == Quotient(x, d)
<1>1. n \in Nat \ {0} /\ e \in Nat \ {0} /\ x * e \in Nat
  OBVIOUS
<1>2. CASE e = 1
  <2> DEFINE c == x \div n
  <2>1. c \in Nat /\ c * n <= x /\ x < (c + 1) * n
    BY <1>1, QuotientOf
  <2>2. q = IF c = 0 THEN 0 ELSE c - 1
    BY <1>2 DEF Quotient
  <2> HIDE DEF c, q, n, e
  <2>3. x * e = x
    BY <1>2
  <2>4. CASE c = 0
    <3>1. 1 * n = n /\ (0 + 2) * n = n + n /\ 0 * n = 0
      BY <1>1
    <3> QED
      BY <1>1, <2>1, <2>2, <2>3, <2>4, <3>1 DEF q, n, e
  <2>5. CASE c # 0
    <3>1. q \in Nat /\ c = q + 1
      BY <2>1, <2>2, <2>5
    <3>2. (q + 1) * n = q * n + n /\ (q + 2) * n = (c + 1) * n /\ q * n \in Nat
      BY <1>1, <3>1
    <3> QED
      BY <1>1, <2>1, <2>3, <3>1, <3>2 DEF q, n, e
  <2> QED
    BY <2>4, <2>5
<1>3. CASE e # 1
  <2> DEFINE y == 2 * x * e
             w == y - n
             m == 2 * n
  <2>1. y \in Nat /\ m \in Nat \ {0} /\ y = 2 * (x * e) /\ m = n + n
    BY <1>1
  <2>2. q = IF y < n THEN 0 ELSE w \div m
    BY <1>3 DEF Quotient
  <2> HIDE DEF y, q
  <2>3. CASE y < n
    <3>1. (0 + 2) * n = n + n /\ 0 * n = 0
      BY <1>1
    <3> HIDE DEF n, e
    <3>2. q = 0 /\ x * e < n + n
      BY <1>1, <2>1, <2>2, <2>3
    <3> QED
      BY <1>1, <3>1, <3>2 DEF q, n, e
  <2>4. CASE ~ (y < n)
    <3>1. w \in Nat
      BY <1>1, <2>1, <2>4
    <3> HIDE DEF w, m
    <3>2. q \in Nat /\ q * m <= w /\ w < (q + 1) * m
      BY <2>1, <2>2, <2>4, <3>1, QuotientOf
    <3> HIDE DEF n, e
    <3>3. /\ q * n \in Nat /\ q * m = 2 * (q * n)
          /\ (q + 1) * m = 2 * (q * n) + 2 * n /\ (q + 2) * n = q * n + 2 * n
      BY <1>1, <2>1, <3>2
    <3>4. q * n <= x * e /\ x * e < (q + 2) * n
      BY <1>1, <2>1, <3>1, <3>2, <3>3 DEF w
    <3> QED
      BY <3>2, <3>4 DEF q, n, e
  <2> QED
    BY <2>3, <2>4
<1> QED
  BY <1>2, <1>3

(* The target of a difficulty is a number that its string has room for.    *)
LEMMA WantedFits ==
  ASSUME NEW d \in Difficulties
  PROVE  /\ NumericTarget(d) * Shift \in Nat
         /\ NumericTarget(d) * Shift < Power[Width + Growth]
<1>1. /\ d[1] \in Nat /\ d[2] \in Nat \ {0} /\ Diff1 \in Nat /\ Shift \in Nat
      /\ Width \in Nat /\ Growth \in Nat
  BY SubscriptionAssumption DEF Growth
<1>2. MaxHash \in Nat
  BY MaxHashIsNumber
<1>3. d[1] # 0 => Quotient(Diff1, d) \in Nat
  BY <1>1, QuotientBounds, SubscriptionAssumption
<1>4. NumericTarget(d) \in 0 .. MaxHash
  BY <1>2, <1>3 DEF NumericTarget, Least
<1> DEFINE m == NumericTarget(d)
           k == MaxHash - m
<1> HIDE DEF m
<1>5. m \in Nat /\ k \in Nat /\ MaxHash = m + k
  BY <1>2, <1>4 DEF m
<1> HIDE DEF k
<1>6. m * Shift \in Nat /\ k * Shift \in Nat /\ MaxHash * Shift = m * Shift + k * Shift
  BY <1>1, <1>5
<1>7. Power[Width + Growth] \in Nat
  BY <1>1, PowerGrows
<1> QED
  BY <1>6, <1>7, GrowthAssumption DEF m

(* A target, of the subscription or of a job, is that of its difficulty.   *)
TargetOf(j) ==
  \/ j.difficulty = None /\ j.target = None
  \/ j.difficulty \in Difficulties /\ j.target = Digits(Wanted(j))

TargetInv ==
  /\ TargetOf([target |-> target, difficulty |-> difficulty])
  /\ \A j \in jobs : TargetOf(j)

(* At first there are no jobs. *)
LEMMA TargetInvInit == SubscriptionInit => TargetInv
BY DEF SubscriptionInit, TargetInv, TargetOf

(* A new difficulty comes with its target; a job takes both as they are.   *)
LEMMA TargetInvNext == TargetInv /\ [SubscriptionNext]_subVars => TargetInv'
<1> SUFFICES ASSUME TargetInv, [SubscriptionNext]_subVars PROVE TargetInv'
  OBVIOUS
<1>1. ASSUME NEW d \in Difficulties, SetDifficulty(d) PROVE TargetInv'
  BY <1>1 DEF SetDifficulty, SetTarget, TargetInv, TargetOf, Wanted
<1>2. ASSUME NEW i \in Ids, SetSubscription(i) PROVE TargetInv'
  BY <1>2 DEF SetSubscription, TargetInv, TargetOf, Wanted
<1>3. ASSUME NEW w, CreateJob(w) PROVE TargetInv'
  BY <1>3 DEF CreateJob, TargetInv, TargetOf, Wanted
<1>4. CASE UNCHANGED subVars
  BY <1>4 DEF subVars, TargetInv, TargetOf, Wanted
<1> QED
  BY <1>1, <1>2, <1>3, <1>4 DEF SubscriptionNext

(* What a job with such a target yields. *)
LEMMA SharesOfTarget ==
  ASSUME NEW j, TargetOf(j), NEW pow \in Hashes
  PROVE  /\ Untargeted(j) => ~ IsShare(pow, j)
         /\ ~ Untargeted(j) => /\ IsShare(pow, j) <=> pow <= Threshold(j)
                               /\ Threshold(j) \in Nat /\ Threshold(j) <= Wanted(j)
                               /\ Wanted(j) \in Nat
<1>1. CASE j.difficulty = None
  BY <1>1, SubscriptionAssumption DEF TargetOf, Untargeted, IsShare
<1>2. CASE j.difficulty # None
  <2>1. j.difficulty \in Difficulties /\ j.target = Digits(Wanted(j))
    BY <1>2 DEF TargetOf
  <2>2. Wanted(j) \in Nat /\ Wanted(j) < Power[Width + Growth]
    BY <2>1, WantedFits DEF Wanted
  <2>3. j.target # None
    BY <2>1, <2>2, DigitsMakeNumber, SubscriptionAssumption
  <2>4. /\ StringLeq(Digits(pow), j.target) <=> pow <= Threshold(j)
        /\ Threshold(j) \in 0 .. Wanted(j)
    BY <2>1, <2>2, StringComparison DEF Threshold
  <2> QED
    BY <1>2, <2>2, <2>3, <2>4 DEF IsShare, Untargeted
<1> QED
  BY <1>1, <1>2

(* A hash up to the target meets the difficulty. *)
LEMMA WantedMeets ==
  ASSUME NEW d \in Difficulties, NEW pow \in Nat, pow <= NumericTarget(d) * Shift
  PROVE  Meets(pow, d)
<1> DEFINE n == d[1]
           x == Diff1 * d[2]
           t == NumericTarget(d)
<1>1. n \in Nat /\ x \in Nat /\ Shift \in Nat \ {0} /\ Diff1 \in Nat
      /\ d \in Nat \X (Nat \ {0})
  BY SubscriptionAssumption
<1>2. CASE n = 0
  <2>1. pow * n = 0 /\ x * Shift \in Nat
    BY <1>1, <1>2
  <2> QED
    BY <2>1 DEF Meets
<1>3. CASE n # 0
  <2> DEFINE q == Quotient(Diff1, d)
  <2>1. q \in Nat /\ q * n <= x
    BY <1>1, <1>3, QuotientBounds
  <2>2. MaxHash \in Nat
    BY MaxHashIsNumber
  <2>3. t \in Nat /\ t <= q
    BY <1>3, <2>1, <2>2 DEF NumericTarget, Least
  <2> HIDE DEF q, t, x, n
  <2> DEFINE a == q - t
             b == t * Shift - pow
             c == x - q * n
  <2>4. a \in Nat /\ q = t + a /\ q * n \in Nat /\ t * n \in Nat /\ a * n \in Nat
        /\ c \in Nat /\ x = q * n + c
    BY <1>1, <2>1, <2>3
  <2>5. q * n = t * n + a * n
    BY <1>1, <2>3, <2>4
  <2>6. b \in Nat /\ t * Shift = pow + b /\ pow * n \in Nat /\ b * n \in Nat
    BY <1>1, <2>3 DEF t
  <2> HIDE DEF a, b, c
  <2>7. (t * Shift) * n = pow * n + b * n
    BY <1>1, <2>6
  <2>8. (t * Shift) * n = (t * n) * Shift
    BY <1>1, <2>3
  <2>9. x * Shift = (t * n) * Shift + (a * n + c) * Shift
    <3>1. x = t * n + (a * n + c)
      BY <2>4, <2>5
    <3> QED
      BY <1>1, <2>4, <3>1
  <2>10. (a * n + c) * Shift \in Nat
    BY <1>1, <2>4
  <2>11. pow * n <= x * Shift
    <3>1. (t * n) * Shift \in Nat
      BY <1>1, <2>4
    <3> QED
      BY <2>6, <2>7, <2>8, <2>9, <2>10, <3>1
  <2> QED
    BY <2>11 DEF Meets, x, n
<1> QED
  BY <1>2, <1>3

(* A hash that meets the difficulty by two steps of the shifted target is  *)
(* up to the target.                                                       *)
LEMMA MeetsWanted ==
  ASSUME NEW d \in Difficulties, NEW pow \in Hashes, Meets(pow + 2 * Shift, d)
  PROVE  pow <= NumericTarget(d) * Shift
<1> DEFINE n == d[1]
           x == Diff1 * d[2]
           q == Quotient(Diff1, d)
<1>1. n \in Nat /\ x \in Nat /\ Shift \in Nat \ {0} /\ Diff1 \in Nat
      /\ d \in Nat \X (Nat \ {0})
  BY SubscriptionAssumption
<1>2. MaxHash \in Nat /\ pow \in Nat /\ pow <= MaxHash
  BY MaxHashIsNumber DEF Hashes
<1>3. CASE NumericTarget(d) = MaxHash
  <2>1. Shift * MaxHash = MaxHash * Shift /\ MaxHash <= Shift * MaxHash
        /\ Shift * MaxHash \in Nat
    BY <1>1, <1>2, ProductNotSmaller
  <2> QED
    BY <1>2, <1>3, <2>1
<1>4. CASE NumericTarget(d) # MaxHash
  <2>1. n # 0 /\ NumericTarget(d) = q
    BY <1>4 DEF NumericTarget, Least
  <2>2. q \in Nat /\ x < (q + 2) * n
    BY <1>1, <2>1, QuotientBounds
  <2>3. (pow + 2 * Shift) * n <= x * Shift
    BY DEF Meets
  <2> HIDE DEF q, x, n
  <2> SUFFICES ASSUME pow > q * Shift PROVE FALSE
    <3>1. q * Shift \in Nat
      BY <1>1, <2>2
    <3> QED
      BY <1>2, <2>1, <3>1 DEF q
  <2> DEFINE c == (q + 2) * n - x
             b == pow - q * Shift
  <2>4. c \in Nat \ {0} /\ (q + 2) * n = x + c
    <3>1. (q + 2) * n \in Nat
      BY <1>1, <2>2
    <3> QED
      BY <1>1, <2>2, <3>1
  <2>5. b \in Nat /\ pow = q * Shift + b
    <3>1. q * Shift \in Nat
      BY <1>1, <2>2
    <3> QED
      BY <1>2, <3>1
  <2> HIDE DEF c, b
  <2>6. pow + 2 * Shift = (q + 2) * Shift + b
    BY <1>1, <2>2, <2>5
  <2>7. (pow + 2 * Shift) * n = ((q + 2) * Shift) * n + b * n
    BY <1>1, <2>2, <2>5, <2>6
  <2>8. ((q + 2) * Shift) * n = ((q + 2) * n) * Shift
    BY <1>1, <2>2
  <2>9. ((q + 2) * n) * Shift = x * Shift + c * Shift
    BY <1>1, <2>4
  <2>10. c * Shift \in Nat \ {0} /\ b * n \in Nat /\ x * Shift \in Nat
    <3>1. Shift <= c * Shift /\ c * Shift \in Nat
      BY <1>1, <2>4, ProductNotSmaller
    <3> QED
      BY <1>1, <2>5, <3>1
  <2> QED
    BY <2>3, <2>7, <2>8, <2>9, <2>10
<1> QED
  BY <1>3, <1>4

(* The inductive invariant of the subscription. *)
THEOREM SubscriptionInvariant == SubscriptionSpec => []TargetInv
<1>1. TargetInv /\ [][SubscriptionNext]_subVars => []TargetInv
  BY TargetInvNext, PTL
<1> QED
  BY <1>1, TargetInvInit, PTL DEF SubscriptionSpec

(* No job yields a share that does not meet its own difficulty.            *)
THEOREM SubscriptionNoBadShare == SubscriptionSpec => []NoBadShare
<1>1. TargetInv => NoBadShare
  <2> SUFFICES ASSUME TargetInv, NEW j \in jobs, NEW pow \in Hashes, IsShare(pow, j)
               PROVE  ~ Untargeted(j) /\ Meets(pow, j.difficulty)
    BY DEF NoBadShare
  <2>1. TargetOf(j)
    BY DEF TargetInv
  <2>2. pow \in Nat
    BY MaxHashIsNumber DEF Hashes
  <2>3. ~ Untargeted(j) /\ pow <= Wanted(j)
    BY <2>1, <2>2, SharesOfTarget
  <2>4. j.difficulty \in Difficulties
    BY <2>1, <2>3 DEF TargetOf, Untargeted
  <2> QED
    BY <2>2, <2>3, <2>4, WantedMeets DEF Wanted
<1> QED
  BY <1>1, SubscriptionInvariant, PTL

(* A job yields exactly the hashes up to its threshold, and while the      *)
(* target fits it misses none that meets the difficulty by two steps.      *)
THEOREM SubscriptionShareThreshold == SubscriptionSpec => []ShareThreshold
<1>1. TargetInv => ShareThreshold
  <2> SUFFICES ASSUME TargetInv, NEW j \in jobs, NEW pow \in Hashes, ~ Untargeted(j)
               PROVE  /\ IsShare(pow, j) <=> pow <= Threshold(j)
                      /\ Wanted(j) <= MaxHash /\ Meets(pow + 2 * Shift, j.difficulty)
                           => IsShare(pow, j)
    BY DEF ShareThreshold
  <2>1. TargetOf(j) /\ j.difficulty \in Difficulties
    BY DEF TargetInv, TargetOf, Untargeted
  <2>2. IsShare(pow, j) <=> pow <= Threshold(j)
    BY <2>1, SharesOfTarget
  <2>3. ASSUME Wanted(j) <= MaxHash, Meets(pow + 2 * Shift, j.difficulty)
        PROVE  IsShare(pow, j)
    <3>1. Wanted(j) \in Nat /\ pow <= Wanted(j)
      BY <2>1, <2>3, MeetsWanted, SharesOfTarget DEF Wanted
    <3>2. Power[Width] \in Nat /\ Width \in Nat /\ Power[0] = 1
      BY PowerStep, SubscriptionAssumption
    <3>3. Wanted(j) < Power[Width] /\ Wanted(j) < Power[Width + Growth]
      BY <2>1, <2>3, <3>1, <3>2, WantedFits DEF Wanted, MaxHash
    <3>4. Length(Wanted(j)) = Width
      BY <3>1, <3>3, LengthOf
    <3>5. Threshold(j) = Wanted(j) \div 1
      BY <3>2, <3>4 DEF Threshold
    <3>6. Threshold(j) = Wanted(j)
      BY <3>1, <3>5
    <3> QED
      BY <2>2, <3>1, <3>6
  <2> QED
    BY <2>2, <2>3
<1> QED
  BY <1>1, SubscriptionInvariant, PTL

-----------------------------------------------------------------------------
(* The stream of a session.                                                *)

Texts(lines) == [k \in DOMAIN lines |-> Append(Text(lines[k]), NL)]

(* parts[k] is the stream of the first k texts. *)
Joined(seqs, parts) ==
  /\ parts[0] = <<>>
  /\ \A k \in 1 .. Len(seqs) : parts[k] = parts[k - 1] \o seqs[k]
  /\ FlattenSeq(seqs) = parts[Len(seqs)]

(* The recursion inside FlattenSeq is satisfied. *)
LEMMA FlattenJoins ==
  ASSUME NEW U, NEW seqs \in Seq(Seq(U))
  PROVE  \E parts \in [0 .. Len(seqs) -> Seq(U)] : Joined(seqs, parts)
<1> DEFINE n == Len(seqs)
           V == Seq(U)
           Step == [p \in Nat \X V |->
                      IF p[1] + 1 \in 1 .. n THEN p[2] \o seqs[p[1] + 1] ELSE p[2]]
           IsFlatten(g) ==
             g = [i \in 1 .. n |-> IF i = 1 THEN seqs[i] ELSE g[i - 1] \o seqs[i]]
<1>n. n \in Nat /\ \A k \in 1 .. n : seqs[k] \in V
  OBVIOUS
<1>1. Step \in [Nat \X V -> V]
  <2>1. \A v, w \in V : v \o w \in V
    OBVIOUS
  <2> HIDE DEF V, n
  <2>2. ASSUME NEW p \in Nat \X V
        PROVE  IF p[1] + 1 \in 1 .. n THEN p[2] \o seqs[p[1] + 1] \in V ELSE p[2] \in V
    BY <1>n, <2>1
  <2> QED
    BY <2>2
<1>2. \A k \in Nat, v \in V :
        Step[<<k, v>>] = IF k + 1 \in 1 .. n THEN v \o seqs[k + 1] ELSE v
  OBVIOUS
<1>3. <<>> \in V
  OBVIOUS
<1> HIDE DEF Step, V
<1>4. PICK f \in [Nat -> V] :
        f[0] = <<>> /\ \A k \in Nat : f[k + 1] = Step[<<k, f[k]>>]
  <2>1. Recursive(V, <<>>, Step) # {}
    BY <1>1, <1>3, RecursiveFunction
  <2> QED
    BY <2>1 DEF Recursive
<1>5. ASSUME NEW k \in 1 .. n PROVE f[k] = f[k - 1] \o seqs[k]
  <2>1. k - 1 \in Nat /\ (k - 1) + 1 = k /\ f[k - 1] \in V
    BY <1>n, <1>4
  <2> QED
    BY <1>2, <1>4, <2>1
<1> DEFINE parts == [k \in 0 .. n |-> f[k]]
<1>6. /\ parts \in [0 .. n -> V] /\ parts[0] = <<>>
      /\ \A k \in 1 .. n : parts[k] = parts[k - 1] \o seqs[k]
  <2>1. \A k \in 1 .. n : k - 1 \in 0 .. n /\ k \in 0 .. n
    BY <1>n
  <2>2. \A k \in 0 .. n : k \in Nat
    BY <1>n
  <2>3. 0 \in 0 .. n
    BY <1>n
  <2> QED
    BY <1>4, <1>5, <2>1, <2>2, <2>3
<1>7. FlattenSeq(seqs) = parts[n]
  <2>1. CASE n = 0
    <3>1. seqs = <<>> /\ parts[n] = <<>>
      BY <1>6, <2>1
    <3> QED
      BY <2>1, <3>1 DEF FlattenSeq
  <2>2. CASE n # 0
    <3> DEFINE h == [i \in 1 .. n |-> f[i]]
    <3>1. \A i \in 1 .. n : i \in Nat /\ i - 1 \in Nat /\ (i # 1 => i - 1 \in 1 .. n)
      BY <1>n
    <3>2. f[1] = seqs[1]
      <4>1. 1 \in 1 .. n /\ 1 - 1 = 0
        BY <1>n, <2>2
      <4>2. f[1] = <<>> \o seqs[1] /\ seqs[1] \in Seq(U)
        BY <1>n, <1>4, <1>5, <4>1 DEF V
      <4> QED
        BY <4>2
    <3>3. \A i \in 1 .. n : h[i] = IF i = 1 THEN seqs[i] ELSE h[i - 1] \o seqs[i]
      BY <1>5, <3>1, <3>2
    <3>4. IsFlatten(h)
      BY <3>3
    <3>5. FlattenSeq(seqs) = (CHOOSE g : IsFlatten(g))[n]
      BY <2>2 DEF FlattenSeq
    <3>6. IsFlatten(CHOOSE g : IsFlatten(g))
      BY <3>4
    <3> DEFINE F == CHOOSE g : IsFlatten(g)
               Q == {i \in Nat : i \in 1 .. n => F[i] = f[i]}
    <3>7. \A i \in 1 .. n : F[i] = IF i = 1 THEN seqs[i] ELSE F[i - 1] \o seqs[i]
      BY <3>6
    <3> HIDE DEF F
    <3>8. 0 \in Q
      OBVIOUS
    <3>9. ASSUME NEW i \in Nat, i \in Q PROVE i + 1 \in Q
      <4> SUFFICES ASSUME i + 1 \in 1 .. n PROVE F[i + 1] = f[i + 1]
        OBVIOUS
      <4>1. CASE i = 0
        BY <3>2, <3>7, <4>1
      <4>2. CASE i # 0
        <5>1. i \in 1 .. n /\ (i + 1) - 1 = i /\ i + 1 # 1
          BY <1>n, <4>2
        <5>2. F[i] = f[i]
          BY <3>9, <5>1
        <5>3. F[i + 1] = F[i] \o seqs[i + 1]
          BY <3>7, <5>1
        <5>4. f[i + 1] = f[i] \o seqs[i + 1]
          BY <1>5, <5>1
        <5> QED
          BY <5>2, <5>3, <5>4
      <4> QED
        BY <4>1, <4>2
    <3> HIDE DEF Q
    <3>10. \A i \in Nat : i \in Q
      BY <3>8, <3>9, SetInduction
    <3>11. F[n] = f[n]
      BY <1>n, <2>2, <3>10 DEF Q
    <3>12. n \in 0 .. n
      BY <1>n
    <3> QED
      BY <3>5, <3>11, <3>12 DEF F
  <2> QED
    BY <2>1, <2>2
<1> HIDE DEF parts
<1>8. parts \in [0 .. Len(seqs) -> Seq(U)] /\ Joined(seqs, parts)
  BY <1>6, <1>7 DEF Joined, V
<1> QED
  BY <1>8

(* What was joined stays where it is when more is joined to it. *)
LEMMA JoinedExtends ==
  ASSUME NEW U, NEW seqs \in Seq(Seq(U)), NEW parts \in [0 .. Len(seqs) -> Seq(U)],
         Joined(seqs, parts), NEW k \in 0 .. Len(seqs)
  PROVE  /\ Len(parts[k]) <= Len(FlattenSeq(seqs))
         /\ \A i \in 1 .. Len(parts[k]) : FlattenSeq(seqs)[i] = parts[k][i]
<1> DEFINE n == Len(seqs)
           Extends(p, q) == Len(p) <= Len(q) /\ \A i \in 1 .. Len(p) : q[i] = p[i]
           S == {m \in Nat : k + m <= n => Extends(parts[k], parts[k + m])}
<1>n. n \in Nat /\ \A i \in 1 .. n : seqs[i] \in Seq(U)
  OBVIOUS
<1>1. 0 \in S
  BY <1>n
<1>2. ASSUME NEW m \in Nat, m \in S PROVE m + 1 \in S
  <2> SUFFICES ASSUME k + (m + 1) <= n PROVE Extends(parts[k], parts[k + (m + 1)])
    OBVIOUS
  <2> DEFINE p == parts[k]
             q == parts[k + m]
             s == seqs[k + (m + 1)]
  <2>1. k + m \in 0 .. n /\ k + (m + 1) \in 1 .. n /\ (k + (m + 1)) - 1 = k + m
    BY <1>n
  <2>2. p \in Seq(U) /\ q \in Seq(U) /\ s \in Seq(U)
    BY <1>n, <2>1
  <2>3. parts[k + (m + 1)] = q \o s
    BY <2>1 DEF Joined
  <2>4. Extends(p, q)
    BY <1>2, <2>1
  <2> HIDE DEF p, q, s
  <2>5. Extends(p, q \o s)
    BY <2>2, <2>4
  <2> QED
    BY <2>3, <2>5 DEF p
<1> HIDE DEF S
<1>3. \A m \in Nat : m \in S
  BY <1>1, <1>2, SetInduction
<1>4. n - k \in Nat /\ k + (n - k) = n
  BY <1>n
<1>5. Extends(parts[k], parts[n])
  <2>1. k + (n - k) <= n => Extends(parts[k], parts[k + (n - k)])
    BY <1>3, <1>4 DEF S
  <2> HIDE DEF Extends
  <2> QED
    BY <1>n, <1>4, <2>1
<1> QED
  BY <1>5 DEF Joined

Lines == Calls \union Noise \union {Blank}

(* What a line is made of, and the unit that ends it. *)
Unit == (Calls \union Noise) \X {1, 2} \union {NL}

(* A text is one of units, none of which ends a line. *)
LEMMA TextOfLine ==
  ASSUME NEW l \in Lines
  PROVE  /\ Text(l) \in Seq(Unit)
         /\ Len(Text(l)) = IF l = Blank THEN 0 ELSE 2
         /\ \A i \in 1 .. Len(Text(l)) : Text(l)[i] # NL
<1>1. CASE l = Blank
  BY <1>1 DEF Text
<1>2. CASE l # Blank
  <2>1. l \in Calls \union Noise
    BY <1>2 DEF Lines
  <2>2. <<l, 1>> \in Unit \ {NL} /\ <<l, 2>> \in Unit \ {NL}
    BY <2>1, LineReaderAssumption DEF Unit
  <2>3. Text(l) = << <<l, 1>>, <<l, 2>> >>
    BY <1>2 DEF Text
  <2> QED
    BY <1>2, <2>2, <2>3
<1> QED
  BY <1>1, <1>2

(* End[k] is where line k of the stream ends. *)
Ends(lines, End) ==
  /\ End \in [0 .. Len(lines) -> Nat]
  /\ End[0] = 0
  /\ End[Len(lines)] = Len(Units(lines))
  /\ \A k \in 0 .. Len(lines) : End[k] <= Len(Units(lines))
  /\ \A k \in 1 .. Len(lines) :
       /\ End[k] = End[k - 1] + Len(Text(lines[k])) + 1
       /\ \A i \in 1 .. Len(Text(lines[k])) :
            Units(lines)[End[k - 1] + i] = Text(lines[k])[i]
       /\ Units(lines)[End[k]] = NL

(* The stream of a session is its lines, each with its end. *)
LEMMA StreamOfLines ==
  ASSUME NEW lines \in Seq(Lines)
  PROVE  Units(lines) \in Seq(Unit) /\ \E End : Ends(lines, End)
<1> DEFINE n == Len(lines)
           seqs == Texts(lines)
<1>1. n \in Nat /\ \A k \in 1 .. n : lines[k] \in Lines
  OBVIOUS
<1>2. /\ seqs \in Seq(Seq(Unit)) /\ Len(seqs) = n
      /\ \A k \in 1 .. n : seqs[k] = Append(Text(lines[k]), NL)
  <2>1. NL \in Unit
    BY DEF Unit
  <2>2. \A k \in 1 .. n : Append(Text(lines[k]), NL) \in Seq(Unit)
    BY <1>1, <2>1, TextOfLine
  <2>3. seqs = [k \in 1 .. n |-> Append(Text(lines[k]), NL)]
    BY DEF Texts
  <2> QED
    BY <1>1, <2>2, <2>3
<1>3. Units(lines) = FlattenSeq(seqs)
  BY DEF Units, Texts
<1> HIDE DEF seqs
<1>4. PICK parts \in [0 .. n -> Seq(Unit)] : Joined(seqs, parts)
  BY <1>2, FlattenJoins
<1> DEFINE End == [k \in 0 .. n |-> Len(parts[k])]
<1>5. \A k \in 0 .. n : End[k] = Len(parts[k]) /\ End[k] \in Nat /\ parts[k] \in Seq(Unit)
  OBVIOUS
<1>6. \A k \in 0 .. n :
        /\ End[k] <= Len(Units(lines))
        /\ \A i \in 1 .. End[k] : Units(lines)[i] = parts[k][i]
  <2>1. parts \in [0 .. Len(seqs) -> Seq(Unit)] /\ Joined(seqs, parts)
    BY <1>2, <1>4
  <2>2. ASSUME NEW k \in 0 .. Len(seqs)
        PROVE  /\ Len(parts[k]) <= Len(FlattenSeq(seqs))
               /\ \A i \in 1 .. Len(parts[k]) : FlattenSeq(seqs)[i] = parts[k][i]
    <3>1. seqs \in Seq(Seq(Unit))
      BY <1>2
    <3> QED
      BY <2>1, <3>1, JoinedExtends
  <2> HIDE DEF n, End
  <2>3. \A k \in 0 .. n :
          /\ Len(parts[k]) <= Len(Units(lines))
          /\ \A i \in 1 .. Len(parts[k]) : Units(lines)[i] = parts[k][i]
    BY <1>2, <1>3, <2>2
  <2> QED
    BY <1>5, <2>3
<1>7. 0 \in 0 .. n /\ n \in 0 .. n
  BY <1>1
<1>8. End[0] = 0 /\ End[n] = Len(Units(lines)) /\ Units(lines) \in Seq(Unit)
  <2>1. parts[0] = <<>> /\ parts[n] = Units(lines)
    BY <1>2, <1>3, <1>4 DEF Joined
  <2> QED
    BY <1>5, <1>7, <2>1
<1>9. ASSUME NEW k \in 1 .. n
      PROVE  /\ End[k] = End[k - 1] + Len(Text(lines[k])) + 1
             /\ \A i \in 1 .. Len(Text(lines[k])) :
                  Units(lines)[End[k - 1] + i] = Text(lines[k])[i]
             /\ Units(lines)[End[k]] = NL
  <2> DEFINE p == parts[k - 1]
             x == Text(lines[k])
  <2>1. k \in 0 .. n /\ k - 1 \in 0 .. n
    BY <1>1
  <2>2. p \in Seq(Unit) /\ x \in Seq(Unit) /\ NL \in Unit
    BY <1>1, <2>1, TextOfLine DEF Unit
  <2>3. parts[k] = p \o Append(x, NL)
    BY <1>2, <1>4 DEF Joined
  <2> HIDE DEF p, x
  <2>4. /\ Len(parts[k]) = Len(p) + Len(x) + 1
        /\ \A i \in 1 .. Len(x) : parts[k][Len(p) + i] = x[i]
        /\ parts[k][Len(p) + Len(x) + 1] = NL
    BY <2>2, <2>3
  <2>5. End[k] = Len(parts[k]) /\ End[k - 1] = Len(p) /\ Len(p) \in Nat /\ Len(x) \in Nat
    BY <1>5, <2>1, <2>2 DEF p
  <2> HIDE DEF End
  <2>6. /\ \A i \in 1 .. Len(x) : Len(p) + i \in 1 .. End[k]
        /\ Len(p) + Len(x) + 1 \in 1 .. End[k]
    BY <2>4, <2>5
  <2>7. \A i \in 1 .. End[k] : Units(lines)[i] = parts[k][i]
    BY <1>6, <2>1
  <2>8. End[k] = End[k - 1] + Len(x) + 1
    BY <2>4, <2>5
  <2>9. \A i \in 1 .. Len(x) : Units(lines)[End[k - 1] + i] = x[i]
    BY <2>4, <2>5, <2>6, <2>7
  <2>10. Units(lines)[End[k]] = NL
    BY <2>4, <2>5, <2>6, <2>7
  <2> QED
    BY <2>8, <2>9, <2>10 DEF x
<1>10. Ends(lines, End)
  <2>1. End \in [0 .. n -> Nat]
    BY <1>5
  <2> HIDE DEF End
  <2> QED
    BY <1>6, <1>8, <1>9, <2>1 DEF Ends
<1> QED
  BY <1>8, <1>10

-----------------------------------------------------------------------------
(* The loop that cuts the stream into lines.                               *)

(* The lines that were taken from data, the one being handled among them.  *)
Taken == Len(handled) + (IF loop \in {"handle", "ended"} THEN 1 ELSE 0)

EndOf == CHOOSE End : Ends(session, End)

Stream == Units(session)

(* What was read and belongs to no line yet, and what was not read, are    *)
(* the stream from the end of the last line that was taken; less of it     *)
(* once the connection is cut.                                             *)
ReaderInv ==
  /\ session \in Seq(Lines)
  /\ loop \in {"look", "recv", "handle", "ended"}
  /\ handled \in Seq(Seq(Unit)) /\ line \in Seq(Unit)
  /\ data \in Seq(Unit) /\ flight \in Seq(Unit)
  /\ Taken <= Len(session)
  /\ \A k \in 1 .. Len(handled) : handled[k] = Text(session[k])
  /\ loop \in {"handle", "ended"} => line = Text(session[Taken])
  /\ EndOf[Taken] + Len(data) + Len(flight) <= Len(Stream)
  /\ \A i \in 1 .. Len(data) : data[i] = Stream[EndOf[Taken] + i]
  /\ \A i \in 1 .. Len(flight) : flight[i] = Stream[EndOf[Taken] + Len(data) + i]

(* So is the stream of the session that the server sends. *)
LEMMA StreamEnds ==
  ASSUME session \in Seq(Lines)
  PROVE  Ends(session, EndOf) /\ Stream \in Seq(Unit)
BY StreamOfLines DEF EndOf, Stream

(* At first nothing is read. *)
LEMMA ReaderInvInit == ReaderInit => ReaderInv
<1> SUFFICES ASSUME ReaderInit PROVE ReaderInv
  OBVIOUS
<1>1. session \in Seq(Lines)
  BY LineReaderAssumption DEF ReaderInit, Lines
<1>2. Ends(session, EndOf) /\ Stream \in Seq(Unit) /\ flight = Stream
  BY <1>1, StreamEnds DEF ReaderInit, Stream
<1>3. EndOf[0] = 0 /\ Taken = 0 /\ Len(session) \in Nat
  BY <1>1, <1>2 DEF Ends, Taken, ReaderInit
<1> QED
  BY <1>1, <1>2, <1>3 DEF ReaderInit, ReaderInv

(* While data holds the end of a line, its first one ends the next line of *)
(* the session, whose text comes before it.                                *)
LEMMA NextLine ==
  ASSUME ReaderInv, loop = "look", HasLine(data)
  PROVE  LET n == Len(handled)
             m == Len(Text(session[n + 1]))
         IN  /\ n + 1 <= Len(session)
             /\ m \in Nat /\ m + 1 <= Len(data)
             /\ FirstEnd(data) = m + 1
             /\ \A i \in 1 .. m : data[i] = Text(session[n + 1])[i]
             /\ EndOf[n + 1] = EndOf[n] + m + 1
<1> DEFINE n == Len(handled)
           x == Text(session[n + 1])
           m == Len(x)
           e == EndOf[n]
<1>1. /\ session \in Seq(Lines) /\ data \in Seq(Unit) /\ flight \in Seq(Unit)
      /\ n \in Nat /\ Taken = n /\ n <= Len(session)
      /\ Ends(session, EndOf) /\ Stream \in Seq(Unit)
  BY StreamEnds DEF ReaderInv, Taken
<1>2. PICK k \in 1 .. Len(data) : data[k] = NL
  BY <1>1 DEF HasLine
<1>3. /\ e \in Nat /\ e + Len(data) <= Len(Stream)
      /\ \A i \in 1 .. Len(data) : data[i] = Stream[e + i]
  BY <1>1 DEF ReaderInv, Ends
<1>4. n + 1 <= Len(session)
  <2> SUFFICES ASSUME n = Len(session) PROVE FALSE
    BY <1>1
  <2>1. e = Len(Stream)
    BY <1>1 DEF Ends, Stream
  <2>2. Len(data) \in Nat /\ Len(Stream) \in Nat
    BY <1>1
  <2> QED
    BY <1>2, <1>3, <2>1, <2>2
<1>5. /\ session[n + 1] \in Lines /\ x \in Seq(Unit) /\ m \in Nat
      /\ \A i \in 1 .. m : x[i] # NL
  BY <1>1, <1>4, TextOfLine
<1>6. /\ EndOf[n + 1] = e + m + 1
      /\ \A i \in 1 .. m : Stream[e + i] = x[i]
      /\ Stream[e + (m + 1)] = NL
  <2>1. n + 1 \in 1 .. Len(session) /\ (n + 1) - 1 = n
    BY <1>1, <1>4
  <2>2. /\ EndOf[n + 1] = e + m + 1
        /\ \A i \in 1 .. m : Stream[e + i] = x[i]
        /\ Stream[EndOf[n + 1]] = NL
    BY <1>1, <2>1 DEF Ends, Stream
  <2> HIDE DEF e, m
  <2>3. e + m + 1 = e + (m + 1)
    BY <1>3, <1>5
  <2> QED
    BY <2>2, <2>3
<1> HIDE DEF n, x, m, e
<1>7. m + 1 <= k
  <2> SUFFICES ASSUME k \in 1 .. m PROVE FALSE
    BY <1>2, <1>5
  <2>1. data[k] = Stream[e + k] /\ Stream[e + k] = x[k] /\ x[k] # NL
    BY <1>2, <1>3, <1>5, <1>6
  <2> QED
    BY <1>2, <2>1
<1>8. m + 1 \in 1 .. Len(data) /\ data[m + 1] = NL
  <2>1. m + 1 \in 1 .. Len(data)
    BY <1>1, <1>2, <1>5, <1>7
  <2> QED
    BY <1>3, <1>6, <2>1
<1>9. \A i \in 1 .. m : data[i] = x[i] /\ data[i] # NL
  <2>1. \A i \in 1 .. m : i \in 1 .. Len(data)
    BY <1>1, <1>5, <1>8
  <2> QED
    BY <1>3, <1>5, <1>6, <2>1
<1>10. FirstEnd(data) = m + 1
  <2> DEFINE IsFirst(j) == data[j] = NL /\ \A i \in 1 .. j - 1 : data[i] # NL
  <2>1. m + 1 \in DOMAIN data /\ IsFirst(m + 1)
    BY <1>1, <1>5, <1>8, <1>9
  <2>2. ASSUME NEW j \in DOMAIN data, IsFirst(j) PROVE j = m + 1
    <3>1. j \in 1 .. Len(data)
      BY <1>1
    <3>2. ~ (j \in 1 .. m)
      BY <1>9, <2>2
    <3>3. ~ (m + 1 \in 1 .. j - 1)
      BY <1>8, <2>2
    <3> QED
      BY <1>5, <3>1, <3>2, <3>3
  <2>3. FirstEnd(data) = CHOOSE j \in DOMAIN data : IsFirst(j)
    BY DEF FirstEnd
  <2> HIDE DEF IsFirst
  <2> QED
    BY <2>1, <2>2, <2>3
<1>11. m + 1 <= Len(data)
  BY <1>8
<1> QED
  BY <1>4, <1>5, <1>6, <1>9, <1>10, <1>11 DEF n, x, m, e

(* Taking a line moves the start of data from the end of one line of the   *)
(* session to the end of the next.                                         *)
LEMMA TakeLineKeeps ==
  ASSUME ReaderInv, TakeLine
  PROVE  ReaderInv'
<1> DEFINE n == Len(handled)
           x == Text(session[n + 1])
           m == Len(x)
<1>1. /\ session \in Seq(Lines) /\ data \in Seq(Unit) /\ flight \in Seq(Unit)
      /\ handled \in Seq(Seq(Unit)) /\ n \in Nat /\ Taken = n
      /\ Ends(session, EndOf) /\ Stream \in Seq(Unit)
  BY StreamEnds DEF ReaderInv, Taken, TakeLine
<1>2. /\ n + 1 <= Len(session)
      /\ m \in Nat /\ m + 1 <= Len(data) /\ FirstEnd(data) = m + 1
      /\ \A i \in 1 .. m : data[i] = x[i]
      /\ EndOf[n + 1] = EndOf[n] + m + 1
  BY NextLine DEF TakeLine
<1>3. EndOf[n] \in Nat /\ x \in Seq(Unit)
  <2>1. n \in 0 .. Len(session) /\ session[n + 1] \in Lines
    BY <1>1, <1>2
  <2> QED
    BY <1>1, <2>1, TextOfLine DEF Ends
<1>4. /\ Taken' = n + 1 /\ EndOf' = EndOf /\ Stream' = Stream
      /\ loop' = "handle" /\ UNCHANGED <<session, flight, handled>>
  BY <1>1 DEF TakeLine, Taken, EndOf, Stream
<1>0. Len(data) \in Nat /\ Len(flight) \in Nat /\ Len(Stream) \in Nat
  BY <1>1
<1> HIDE DEF n, x, m
<1>5. line' = x
  <2>1. line' = SubSeq(data, 1, m)
    BY <1>2 DEF TakeLine
  <2>2. /\ SubSeq(data, 1, m) \in Seq(Unit) /\ Len(SubSeq(data, 1, m)) = m
        /\ \A i \in 1 .. m : SubSeq(data, 1, m)[i] = data[i]
    BY <1>1, <1>2
  <2>3. x = SubSeq(data, 1, m)
    BY <1>2, <1>3, <2>2 DEF m
  <2> QED
    BY <2>1, <2>3
<1>6. /\ data' \in Seq(Unit) /\ Len(data') = Len(data) - (m + 1)
      /\ \A i \in 1 .. Len(data') : data'[i] = data[m + 1 + i]
  <2>1. data' = SubSeq(data, m + 2, Len(data))
    BY <1>2 DEF TakeLine
  <2>2. Len(data) \in Nat /\ m + 2 \in 1 .. Len(data) + 1
    BY <1>1, <1>2
  <2>3. data' \in Seq(Unit) /\ Len(data') = Len(data) - (m + 1)
    BY <1>1, <1>2, <2>1, <2>2
  <2>4. \A i \in 1 .. Len(data) - (m + 1) : data'[i] = data[m + 1 + i]
    BY <1>1, <1>2, <2>1, <2>2
  <2> QED
    BY <2>3, <2>4
<1>6a. EndOf[n + 1] + Len(data') = EndOf[n] + Len(data)
  <2>1. Len(data') = Len(data) - (m + 1)
    BY <1>6
  <2>2. EndOf[n + 1] = EndOf[n] + m + 1 /\ m \in Nat /\ EndOf[n] \in Nat
    BY <1>2, <1>3
  <2> QED
    BY <1>0, <2>1, <2>2
<1>7. Taken' <= Len(session')
  BY <1>2, <1>4
<1>8. line' = Text(session'[Taken']) /\ line' \in Seq(Unit)
  BY <1>3, <1>4, <1>5 DEF x
<1>9. EndOf'[Taken'] + Len(data') + Len(flight') <= Len(Stream')
  <2>1. EndOf[n] + Len(data) + Len(flight) <= Len(Stream)
    BY <1>1 DEF ReaderInv
  <2> QED
    BY <1>4, <1>6a, <2>1
<1>10. \A i \in 1 .. Len(data') : data'[i] = Stream'[EndOf'[Taken'] + i]
  <2> SUFFICES ASSUME NEW i \in 1 .. Len(data')
               PROVE  data'[i] = Stream[EndOf[n + 1] + i]
    BY <1>4
  <2>1. data'[i] = data[m + 1 + i] /\ m + 1 + i \in 1 .. Len(data)
    BY <1>1, <1>2, <1>6
  <2>2. data[m + 1 + i] = Stream[EndOf[n] + (m + 1 + i)]
    BY <1>1, <2>1 DEF ReaderInv
  <2>3. EndOf[n] + (m + 1 + i) = EndOf[n + 1] + i
    BY <1>2, <1>3
  <2> QED
    BY <2>1, <2>2, <2>3
<1>11. \A i \in 1 .. Len(flight') :
         flight'[i] = Stream'[EndOf'[Taken'] + Len(data') + i]
  <2> SUFFICES ASSUME NEW i \in 1 .. Len(flight)
               PROVE  flight[i] = Stream[EndOf[n + 1] + Len(data') + i]
    BY <1>4
  <2>1. flight[i] = Stream[EndOf[n] + Len(data) + i]
    BY <1>1 DEF ReaderInv
  <2> QED
    BY <1>6a, <2>1
<1> QED
  BY <1>1, <1>4, <1>6, <1>7, <1>8, <1>9, <1>10, <1>11 DEF ReaderInv

(* A chunk is moved from the front of what was not read to the end of data. *)
LEMMA RecvKeeps ==
  ASSUME ReaderInv, NEW c \in 1 .. ChunkSize, Recv(c)
  PROVE  ReaderInv'
<1> DEFINE e == EndOf[Taken]
<1>1. /\ session \in Seq(Lines) /\ data \in Seq(Unit) /\ flight \in Seq(Unit)
      /\ handled \in Seq(Seq(Unit)) /\ Taken = Len(handled) /\ c \in 1 .. Len(flight)
      /\ Ends(session, EndOf) /\ Stream \in Seq(Unit)
  BY StreamEnds DEF ReaderInv, Taken, Recv
<1>2. e \in Nat
  <2>1. Taken \in 0 .. Len(session)
    BY <1>1 DEF ReaderInv
  <2> QED
    BY <1>1, <2>1 DEF Ends
<1>3. /\ Taken' = Taken /\ EndOf' = EndOf /\ Stream' = Stream
      /\ loop' = "look" /\ UNCHANGED <<session, line, handled>>
  BY <1>1 DEF Recv, Taken, EndOf, Stream
<1> HIDE DEF e
<1>4. /\ data' \in Seq(Unit) /\ Len(data') = Len(data) + c
      /\ \A i \in 1 .. Len(data) : data'[i] = data[i]
      /\ \A i \in 1 .. c : data'[Len(data) + i] = flight[i]
  <2> DEFINE s == SubSeq(flight, 1, c)
  <2>1. s \in Seq(Unit) /\ Len(s) = c /\ \A i \in 1 .. c : s[i] = flight[i]
    BY <1>1
  <2> HIDE DEF s
  <2>2. data' = data \o s
    BY DEF Recv, s
  <2>3. data \o s \in Seq(Unit) /\ Len(data \o s) = Len(data) + c
    <3>1. data \o s \in Seq(Unit)
      BY <1>1, <2>1
    <3>2. data \in Seq(Unit) /\ s \in Seq(Unit)
      BY <1>1, <2>1
    <3>3. Len(data \o s) = Len(data) + Len(s)
      BY <3>2
    <3> QED
      BY <2>1, <3>1, <3>3
  <2>4. \A i \in 1 .. Len(data) : (data \o s)[i] = data[i]
    BY <1>1, <2>1
  <2>5. \A i \in 1 .. c : (data \o s)[Len(data) + i] = s[i]
    BY <1>1, <2>1
  <2> QED
    BY <2>1, <2>2, <2>3, <2>4, <2>5
<1>5. /\ flight' \in Seq(Unit) /\ Len(flight') = Len(flight) - c
      /\ \A i \in 1 .. Len(flight') : flight'[i] = flight[c + i]
  <2>1. flight' = SubSeq(flight, c + 1, Len(flight))
    BY DEF Recv
  <2>2. Len(flight) \in Nat /\ c + 1 \in 1 .. Len(flight) + 1
    BY <1>1
  <2>3. flight' \in Seq(Unit) /\ Len(flight') = Len(flight) - c
    BY <1>1, <2>1, <2>2
  <2>4. \A i \in 1 .. Len(flight) - c : flight'[i] = flight[c + i]
    BY <1>1, <2>1, <2>2
  <2> QED
    BY <2>3, <2>4
<1>6. /\ e + Len(data) + Len(flight) <= Len(Stream)
      /\ \A i \in 1 .. Len(data) : data[i] = Stream[e + i]
      /\ \A i \in 1 .. Len(flight) : flight[i] = Stream[e + Len(data) + i]
  BY <1>1 DEF ReaderInv, e
<1>7. e + Len(data') + Len(flight') <= Len(Stream)
  <2>1. Len(data) \in Nat /\ Len(flight) \in Nat /\ Len(Stream) \in Nat /\ c \in Nat
    BY <1>1
  <2> QED
    BY <1>2, <1>4, <1>5, <1>6, <2>1
<1>8. ASSUME NEW i \in 1 .. Len(data') PROVE data'[i] = Stream[e + i]
  <2>1. CASE i \in 1 .. Len(data)
    BY <1>4, <1>6, <2>1
  <2>2. CASE ~ (i \in 1 .. Len(data))
    <3> DEFINE k == i - Len(data)
    <3>1. k \in 1 .. c /\ i = Len(data) + k /\ k \in 1 .. Len(flight)
      BY <1>1, <1>4, <2>2
    <3> HIDE DEF k
    <3>2. data'[i] = flight[k] /\ flight[k] = Stream[e + Len(data) + k]
      BY <1>4, <1>6, <3>1
    <3>3. e + Len(data) + k = e + i
      BY <1>1, <1>2, <3>1
    <3> QED
      BY <3>2, <3>3
  <2> QED
    BY <2>1, <2>2
<1>9. ASSUME NEW i \in 1 .. Len(flight')
      PROVE  flight'[i] = Stream[e + Len(data') + i]
  <2>1. flight'[i] = flight[c + i] /\ c + i \in 1 .. Len(flight)
    BY <1>1, <1>5
  <2>2. flight[c + i] = Stream[e + Len(data) + (c + i)]
    BY <1>6, <2>1
  <2>3. e + Len(data) + (c + i) = e + Len(data') + i
    BY <1>1, <1>2, <1>4
  <2> QED
    BY <2>1, <2>2, <2>3
<1> QED
  BY <1>1, <1>3, <1>4, <1>5, <1>7, <1>8, <1>9 DEF ReaderInv, e

(* A line is done with, or handle_reply raised. *)
LEMMA HandledKeeps ==
  ASSUME ReaderInv, loop = "handle",
         \/ Again
         \/ loop' = "ended" /\ UNCHANGED handled,
         UNCHANGED <<session, flight, data, line>>
  PROVE  ReaderInv'
<1>1. handled \in Seq(Seq(Unit)) /\ line \in Seq(Unit) /\ Taken = Len(handled) + 1
  BY DEF ReaderInv, Taken
<1>2. EndOf' = EndOf /\ Stream' = Stream
  BY DEF EndOf, Stream
<1>3. CASE Again
  <2>1. /\ handled' \in Seq(Seq(Unit)) /\ Len(handled') = Len(handled) + 1
        /\ \A k \in 1 .. Len(handled) : handled'[k] = handled[k]
        /\ handled'[Len(handled) + 1] = line /\ loop' = "look"
    BY <1>1, <1>3 DEF Again
  <2>2. Taken' = Taken
    BY <1>1, <2>1 DEF Taken
  <2>3. \A k \in 1 .. Len(handled') : handled'[k] = Text(session[k])
    <3>1. line = Text(session[Len(handled) + 1])
      BY <1>1 DEF ReaderInv
    <3>2. \A k \in 1 .. Len(handled) : handled[k] = Text(session[k])
      BY DEF ReaderInv
    <3>3. \A k \in 1 .. Len(handled') : k \in 1 .. Len(handled) \/ k = Len(handled) + 1
      BY <1>1, <2>1
    <3> QED
      BY <2>1, <3>1, <3>2, <3>3
  <2> QED
    BY <1>2, <2>1, <2>2, <2>3 DEF ReaderInv
<1>4. CASE loop' = "ended" /\ UNCHANGED handled
  <2>1. Taken' = Taken
    BY <1>1, <1>4 DEF Taken
  <2> QED
    BY <1>2, <1>4, <2>1 DEF ReaderInv
<1> QED
  BY <1>3, <1>4

(* Every step of the loop and of the network keeps the invariant. *)
LEMMA ReaderInvNext ==
  ASSUME ReaderInv,
         \/ ReaderThread
         \/ \E l : HandleLine(l) \/ ReaderEnds(l)
         \/ \E c \in 1 .. ChunkSize : Recv(c)
         \/ Cut
         \/ UNCHANGED readerVars
  PROVE  ReaderInv'
<1>1. CASE TakeLine
  BY <1>1, TakeLineKeeps
<1>2. CASE NoLine
  BY <1>2 DEF NoLine, ReaderInv, Taken, EndOf, Stream
<1>3. CASE Skip
  BY <1>3, HandledKeeps DEF Skip
<1>4. ASSUME NEW l, HandleLine(l) \/ ReaderEnds(l) PROVE ReaderInv'
  BY <1>4, HandledKeeps DEF HandleLine, ReaderEnds
<1>5. ASSUME NEW c \in 1 .. ChunkSize, Recv(c) PROVE ReaderInv'
  BY <1>5, RecvKeeps
<1>6. CASE Cut
  <2>1. flight' = <<>> /\ UNCHANGED <<session, data, line, loop, handled>>
    BY <1>6 DEF Cut
  <2>2. Taken' = Taken /\ EndOf' = EndOf /\ Stream' = Stream
    BY <2>1 DEF Taken, EndOf, Stream
  <2>3. EndOf[Taken] + Len(data) + 0 <= Len(Stream)
    <3>1. Taken \in 0 .. Len(session) /\ Ends(session, EndOf) /\ Stream \in Seq(Unit)
      BY StreamEnds DEF ReaderInv, Taken
    <3>2. EndOf[Taken] \in Nat
      BY <3>1 DEF Ends
    <3>3. EndOf[Taken] + Len(data) + Len(flight) <= Len(Stream)
          /\ data \in Seq(Unit) /\ flight \in Seq(Unit)
      BY DEF ReaderInv
    <3> QED
      BY <3>1, <3>2, <3>3
  <2>4. flight' \in Seq(Unit) /\ Len(flight') = 0 /\ 1 .. Len(flight') = {}
    BY <2>1
  <2> QED
    BY <2>1, <2>2, <2>3, <2>4 DEF ReaderInv
<1>7. CASE UNCHANGED readerVars
  BY <1>7 DEF readerVars, ReaderInv, Taken, EndOf, Stream
<1> QED
  BY <1>1, <1>2, <1>3, <1>4, <1>5, <1>6, <1>7 DEF ReaderThread

-----------------------------------------------------------------------------
(* The lines that were handled and the subscription.                       *)

(* A text is the text of one line only. *)
LEMMA TextInjective ==
  ASSUME NEW a, NEW b, Text(a) = Text(b)
  PROVE  a = b
<1>1. ASSUME NEW l, l # Blank
      PROVE  Text(l) = << <<l, 1>>, <<l, 2>> >> /\ Text(l)[1] = <<l, 1>> /\ Text(l) # <<>>
  BY <1>1 DEF Text
<1>2. Text(Blank) = <<>>
  BY DEF Text
<1>3. CASE a # Blank /\ b # Blank
  <2>1. <<a, 1>> = <<b, 1>>
    BY <1>1, <1>3
  <2> QED
    BY <2>1
<1> QED
  BY <1>1, <1>2, <1>3

(* handle_reply is called with the next line of the session, and a line is *)
(* skipped only when it is not a message.                                  *)
LEMMA LineOfSession ==
  ASSUME ReaderInv, loop = "handle"
  PROVE  LET n == Len(handled)
         IN  /\ n \in Nat /\ n + 1 <= Len(session)
             /\ Parses(line) => Parsed(line) = session[n + 1]
             /\ ~ Parses(line) => session[n + 1] \in Noise \union {Blank}
<1> DEFINE n == Len(handled)
<1>1. /\ n \in Nat /\ n + 1 <= Len(session) /\ line = Text(session[n + 1])
      /\ session[n + 1] \in Calls \union Noise \union {Blank}
  <2>1. n \in Nat /\ Taken = n + 1
    BY DEF ReaderInv, Taken
  <2>2. n + 1 <= Len(session) /\ line = Text(session[n + 1]) /\ session \in Seq(Lines)
    BY <2>1 DEF ReaderInv
  <2> QED
    BY <2>1, <2>2 DEF Lines
<1> HIDE DEF n
<1>2. ASSUME Parses(line) PROVE Parsed(line) = session[n + 1]
  <2>1. PICK l \in Calls : line = Text(l)
    BY <1>2 DEF Parses
  <2>2. Parsed(line) \in Calls /\ line = Text(Parsed(line))
    BY <2>1 DEF Parsed
  <2> QED
    BY <1>1, <2>2, TextInjective
<1>3. ASSUME ~ Parses(line) PROVE session[n + 1] \in Noise \union {Blank}
  BY <1>1, <1>3 DEF Parses
<1> QED
  BY <1>1, <1>2, <1>3 DEF n

(* Only a difficulty changes the difficulty that is in force. *)
LEMMA InForceNext ==
  ASSUME NEW k \in Nat \ {0}
  PROVE  /\ \A d \in Difficulties : session[k] = Difficulty(d) => InForce(k + 1) = d
         /\ (\A d \in Difficulties : session[k] # Difficulty(d)) => InForce(k + 1) = InForce(k)
<1> DEFINE IsDifficulty(i) == \E d \in Difficulties : session[i] = Difficulty(d)
           Before(j) == {i \in 1 .. j - 1 : IsDifficulty(i)}
           Latest(E) == CHOOSE i \in E : \A h \in E : h <= i
<1>1. \A j : InForce(j) = IF Before(j) = {} THEN None ELSE session[Latest(Before(j))][2]
  BY DEF InForce
<1>2. 1 .. (k + 1) - 1 = 1 .. k /\ k \in 1 .. k
  OBVIOUS
<1>3. ASSUME NEW d \in Difficulties, session[k] = Difficulty(d)
      PROVE  InForce(k + 1) = d
  <2> DEFINE E == Before(k + 1)
  <2>1. k \in E /\ \A h \in E : h \in 1 .. k
    BY <1>2, <1>3
  <2> HIDE DEF E
  <2>2. \A i \in E : (\A h \in E : h <= i) => i = k
    BY <2>1
  <2>3. k \in E /\ \A h \in E : h <= k
    BY <2>1
  <2>4. Latest(E) = k
    BY <2>2, <2>3
  <2>5. InForce(k + 1) = session[k][2]
    <3>1. E # {}
      BY <2>1
    <3> QED
      BY <1>1, <2>4, <3>1 DEF E
  <2> QED
    BY <1>3, <2>5 DEF Difficulty
<1>4. ASSUME \A d \in Difficulties : session[k] # Difficulty(d)
      PROVE  InForce(k + 1) = InForce(k)
  <2>1. \A i : i \in 1 .. k /\ IsDifficulty(i) <=> i \in 1 .. k - 1 /\ IsDifficulty(i)
    <3>1. \A i \in 1 .. k : i = k \/ i \in 1 .. k - 1
      OBVIOUS
    <3>2. \A i \in 1 .. k - 1 : i \in 1 .. k
      OBVIOUS
    <3>3. ~ IsDifficulty(k)
      BY <1>4
    <3> HIDE DEF IsDifficulty
    <3> QED
      BY <3>1, <3>2, <3>3
  <2>2. Before(k + 1) = Before(k)
    BY <1>2, <2>1
  <2> HIDE DEF Before, Latest
  <2> QED
    BY <1>1, <2>2
<1> QED
  BY <1>3, <1>4

(* The subscription is what the lines handled so far made it. *)
FeedInv ==
  /\ ReaderInv
  /\ difficulty = InForce(Len(handled) + 1)
  /\ JobsFollowLines

(* The lines of the session that are units of work, among the first n. *)
Works(n) == {k \in 1 .. n : session[k] = Notify}

(* Going one line further adds it when it is a unit of work. *)
LEMMA WorksNext ==
  ASSUME NEW n \in Nat
  PROVE  Works(n + 1) = IF session[n + 1] = Notify THEN Works(n) \union {n + 1}
                                                  ELSE Works(n)
<1>1. \A k : k \in 1 .. n + 1 <=> k \in 1 .. n \/ k = n + 1
  OBVIOUS
<1>2. n + 1 \in Nat /\ ~ (n + 1 \in 1 .. n)
  OBVIOUS
<1> QED
  BY <1>1, <1>2, Zenon DEF Works

(* The jobs in terms of Works. *)
LEMMA JobsOfWorks ==
  ASSUME ReaderInv
  PROVE  JobsFollowLines <=>
           {<<j.work, j.difficulty>> : j \in jobs}
             = {<<k, InForce(k)>> : k \in Works(Len(handled))}
<1>1. DOMAIN handled = 1 .. Len(handled)
  BY DEF ReaderInv
<1> QED
  BY <1>1 DEF JobsFollowLines, Works

(* A line that is done with: the difficulty in force and the jobs follow.  *)
LEMMA FollowOneLine ==
  ASSUME ReaderInv, ReaderInv', difficulty = InForce(Len(handled) + 1), JobsFollowLines,
         session' = session, NEW n \in Nat, n = Len(handled), Len(handled') = n + 1,
         \/ /\ \A d \in Difficulties : session[n + 1] # Difficulty(d)
            /\ difficulty' = difficulty
         \/ \E d \in Difficulties : session[n + 1] = Difficulty(d) /\ difficulty' = d,
         \/ session[n + 1] # Notify /\ jobs' = jobs
         \/ /\ session[n + 1] = Notify
            /\ \E j : /\ j.work = n + 1 /\ j.difficulty = difficulty
                     /\ jobs' = jobs \union {j}
  PROVE  FeedInv'
<1>1. \A k : InForce(k)' = InForce(k)
  BY DEF InForce
<1>2. n + 1 \in Nat \ {0} /\ difficulty = InForce(n + 1)
  OBVIOUS
<1>3. difficulty' = InForce((n + 1) + 1)
  BY <1>2, InForceNext
<1>4. (difficulty = InForce(Len(handled) + 1))'
  BY <1>1, <1>3
<1>5. {<<j.work, j.difficulty>> : j \in jobs} = {<<k, InForce(k)>> : k \in Works(n)}
  BY JobsOfWorks
<1>6. {<<j.work, j.difficulty>> : j \in jobs'}
        = {<<k, InForce(k)>> : k \in Works(n + 1)}
  <2>1. CASE session[n + 1] # Notify /\ jobs' = jobs
    BY <1>5, <2>1, WorksNext
  <2>2. CASE /\ session[n + 1] = Notify
             /\ \E j : /\ j.work = n + 1 /\ j.difficulty = difficulty
                      /\ jobs' = jobs \union {j}
    <3>1. PICK j : /\ j.work = n + 1 /\ j.difficulty = difficulty
                   /\ jobs' = jobs \union {j}
      BY <2>2
    <3>2. Works(n + 1) = Works(n) \union {n + 1}
      BY <2>2, WorksNext
    <3>3. {<<i.work, i.difficulty>> : i \in jobs'}
            = {<<i.work, i.difficulty>> : i \in jobs} \union {<<n + 1, difficulty>>}
      BY <3>1
    <3>4. {<<k, InForce(k)>> : k \in Works(n + 1)}
            = {<<k, InForce(k)>> : k \in Works(n)} \union {<<n + 1, InForce(n + 1)>>}
      BY <3>2
    <3> QED
      BY <1>2, <1>5, <3>3, <3>4
  <2> QED
    BY <2>1, <2>2
<1>7. JobsFollowLines'
  <2>1. JobsFollowLines' <=>
          {<<j.work, j.difficulty>> : j \in jobs'}
            = {<<k, InForce(k)'>> : k \in Works(Len(handled))'}
    <3>1. (DOMAIN handled)' = 1 .. Len(handled')
      BY DEF ReaderInv
    <3> QED
      BY <3>1 DEF JobsFollowLines, Works
  <2>2. Works(Len(handled))' = Works(n + 1)
    BY DEF Works
  <2> QED
    BY <1>1, <1>6, <2>1, <2>2
<1> QED
  BY <1>4, <1>7 DEF FeedInv

(* At first no line is handled and there are no jobs. *)
LEMMA FeedInvInit == FeedInit => FeedInv
<1> SUFFICES ASSUME FeedInit PROVE FeedInv
  OBVIOUS
<1>1. ReaderInv /\ handled = <<>> /\ difficulty = None /\ jobs = {}
  BY ReaderInvInit DEF FeedInit, ReaderInit, SubscriptionInit
<1>2. Len(handled) = 0 /\ 1 .. (0 + 1) - 1 = {} /\ DOMAIN handled = {}
  BY <1>1
<1>3. InForce(0 + 1) = None
  BY <1>2 DEF InForce
<1>4. JobsFollowLines
  BY <1>1, <1>2 DEF JobsFollowLines
<1> QED
  BY <1>1, <1>2, <1>3, <1>4 DEF FeedInv

(* What changes neither the subscription nor the lines handled. *)
LEMMA FollowNoLine ==
  ASSUME FeedInv, ReaderInv', UNCHANGED <<session, handled, difficulty, jobs>>
  PROVE  FeedInv'
<1>1. \A k : InForce(k)' = InForce(k)
  BY DEF InForce
<1>2. difficulty' = InForce(Len(handled) + 1)' /\ JobsFollowLines'
  BY <1>1 DEF FeedInv, JobsFollowLines
<1> QED
  BY <1>2 DEF FeedInv

(* Every step keeps the invariant. *)
LEMMA FeedInvNext == FeedInv /\ [FeedNext]_feedVars => FeedInv'
<1> SUFFICES ASSUME FeedInv, [FeedNext]_feedVars PROVE FeedInv'
  OBVIOUS
<1> DEFINE n == Len(handled)
<1>0. ReaderInv /\ difficulty = InForce(n + 1) /\ JobsFollowLines
  BY DEF FeedInv
<1>1. \A d, e : /\ Difficulty(d) # Subscribed(e)
                /\ Difficulty(d) # Notify /\ Subscribed(e) # Notify
  BY DEF Difficulty, Subscribed, Notify
<1>2. ASSUME NEW l, HandleLine(l) \/ ReaderEnds(l)
      PROVE  l = session[n + 1] /\ n \in Nat /\ session' = session
  BY <1>0, <1>2, LineOfSession DEF HandleLine, ReaderEnds
<1>3. ASSUME NEW l, HandleLine(l) PROVE Len(handled') = n + 1
  BY <1>0, <1>3 DEF HandleLine, Again, ReaderInv
<1>4. ASSUME NEW d \in Difficulties, HandleDifficulty(d) PROVE FeedInv'
  <2>1. HandleLine(Difficulty(d)) /\ difficulty' = d /\ jobs' = jobs
    BY <1>4 DEF HandleDifficulty, SetDifficulty
  <2>2. ReaderInv'
    BY <1>0, <2>1, ReaderInvNext
  <2>3. /\ session[n + 1] = Difficulty(d) /\ n \in Nat /\ session' = session
        /\ Len(handled') = n + 1
    BY <1>2, <1>3, <2>1
  <2> HIDE DEF n
  <2> QED
    BY <1>0, <1>1, <2>1, <2>2, <2>3, FollowOneLine DEF n
<1>5. ASSUME NEW i \in Ids, HandleSubscribed(i) PROVE FeedInv'
  <2>1. HandleLine(Subscribed(i)) /\ difficulty' = difficulty /\ jobs' = jobs
    BY <1>5 DEF HandleSubscribed, SetSubscription
  <2>2. ReaderInv'
    BY <1>0, <2>1, ReaderInvNext
  <2>3. /\ session[n + 1] = Subscribed(i) /\ n \in Nat /\ session' = session
        /\ Len(handled') = n + 1
    BY <1>2, <1>3, <2>1
  <2> QED
    BY <1>0, <1>1, <2>1, <2>2, <2>3, FollowOneLine
<1>6. CASE HandleNotify
  <2>1. /\ HandleLine(Notify) /\ difficulty' = difficulty
        /\ jobs' = jobs \union
                     {[work |-> n + 1, target |-> target, difficulty |-> difficulty]}
    BY <1>6 DEF HandleNotify, CreateJob
  <2>2. ReaderInv'
    BY <1>0, <2>1, ReaderInvNext
  <2>3. /\ session[n + 1] = Notify /\ n \in Nat /\ session' = session
        /\ Len(handled') = n + 1
    BY <1>2, <1>3, <2>1
  <2>4. \E j : /\ j.work = n + 1 /\ j.difficulty = difficulty
               /\ jobs' = jobs \union {j}
    BY <2>1
  <2> QED
    BY <1>0, <1>1, <2>1, <2>2, <2>3, <2>4, FollowOneLine
<1>7. CASE HandlerRaises
  <2>1. UNCHANGED subVars /\ \E l : ReaderEnds(l)
    BY <1>7 DEF HandlerRaises
  <2>2. ReaderInv' /\ UNCHANGED <<session, handled>>
    BY <1>0, <2>1, ReaderInvNext DEF ReaderEnds
  <2> QED
    BY <2>1, <2>2, FollowNoLine DEF subVars
<1>8. ASSUME NEW i \in Ids, AuthorizeRaises(i) PROVE FeedInv'
  <2>1. ReaderEnds(Subscribed(i)) /\ UNCHANGED <<difficulty, jobs>>
    BY <1>8 DEF AuthorizeRaises, SetSubscription
  <2>2. ReaderInv' /\ UNCHANGED <<session, handled>>
    BY <1>0, <2>1, ReaderInvNext DEF ReaderEnds
  <2> QED
    BY <2>1, <2>2, FollowNoLine
<1>9. CASE Skip /\ UNCHANGED subVars
  <2>1. ReaderInv'
    BY <1>0, <1>9, ReaderInvNext DEF ReaderThread
  <2>2. /\ n \in Nat /\ session' = session /\ Len(handled') = n + 1
        /\ session[n + 1] \in Noise \union {Blank}
    <3>1. /\ loop = "handle" /\ ~ Parses(line) /\ session' = session
          /\ handled' = Append(handled, line)
      BY <1>9 DEF Skip, Again
    <3>2. handled \in Seq(Seq(Unit)) /\ line \in Seq(Unit)
      BY <1>0 DEF ReaderInv
    <3> QED
      BY <1>0, <3>1, <3>2, LineOfSession
  <2>3. session[n + 1] # Notify /\ \A d \in Difficulties : session[n + 1] # Difficulty(d)
    BY <2>2, FeedAssumption
  <2>4. difficulty' = difficulty /\ jobs' = jobs
    BY <1>9 DEF subVars
  <2> QED
    BY <1>0, <2>1, <2>2, <2>3, <2>4, FollowOneLine
<1>10. ASSUME \/ TakeLine \/ NoLine \/ Cut
             \/ \E c \in 1 .. ChunkSize : Recv(c),
             UNCHANGED subVars
      PROVE  FeedInv'
  <2>1. ReaderInv'
    BY <1>0, <1>10, ReaderInvNext DEF ReaderThread
  <2>2. UNCHANGED <<session, handled, difficulty, jobs>>
    BY <1>10 DEF TakeLine, NoLine, Cut, Recv, subVars
  <2> QED
    BY <2>1, <2>2, FollowNoLine
<1>11. CASE FeedThread
  <2>1. CASE Handler
    BY <1>4, <1>5, <1>6, <1>7, <1>8, <2>1 DEF Handler
  <2>2. CASE ReaderThread /\ UNCHANGED subVars
    BY <1>9, <1>10, <2>2 DEF ReaderThread
  <2> QED
    BY <1>11, <2>1, <2>2 DEF FeedThread
<1>12. CASE UNCHANGED feedVars
  <2>1. UNCHANGED readerVars /\ UNCHANGED <<session, handled, difficulty, jobs>>
    BY <1>12 DEF feedVars, subVars, readerVars
  <2>2. ReaderInv'
    BY <1>0, <2>1, ReaderInvNext
  <2> QED
    BY <2>1, <2>2, FollowNoLine
<1>13. CASE (\E c \in 1 .. ChunkSize : Recv(c)) /\ UNCHANGED subVars
  BY <1>10, <1>13
<1>14. CASE Cut /\ UNCHANGED subVars
  BY <1>10, <1>14
<1> QED
  BY <1>11, <1>12, <1>13, <1>14 DEF FeedNext

-----------------------------------------------------------------------------

(* The invariant of the subscription and its reader holds in every state.  *)
THEOREM FeedInvariant == FeedSpec => []FeedInv
BY FeedInvInit, FeedInvNext, PTL DEF FeedSpec

(* The lines handled are the first ones of the session, whatever the       *)
(* chunks: none is lost, repeated, reordered, split or joined.             *)
THEOREM FeedLinesInOrder == FeedSpec => []LinesInOrder
<1>1. FeedInv => LinesInOrder
  <2> SUFFICES ASSUME FeedInv PROVE LinesInOrder
    OBVIOUS
  <2>1. /\ Len(handled) \in Nat /\ Len(session) \in Nat
        /\ DOMAIN handled = 1 .. Len(handled)
        /\ Taken <= Len(session)
        /\ \A k \in 1 .. Len(handled) : handled[k] = Text(session[k])
    BY DEF FeedInv, ReaderInv
  <2>2. Len(handled) <= Len(session)
    BY <2>1 DEF Taken
  <2> QED
    BY <2>1, <2>2 DEF LinesInOrder
<1> QED
  BY <1>1, FeedInvariant, PTL

(* Every unit of work that was handled became a job of the difficulty last *)
(* sent before it, and there are no other jobs.                            *)
THEOREM FeedJobsFollowLines == FeedSpec => []JobsFollowLines
<1>1. FeedInv => JobsFollowLines
  BY DEF FeedInv
<1> QED
  BY <1>1, FeedInvariant, PTL

(* Behind the reader the subscription is still a Subscription: whatever    *)
(* the lines are, they make steps of it or none.                           *)
THEOREM FeedImplementsSubscription == FeedSpec => SubscriptionSpec
<1>1. FeedInit => SubscriptionInit
  BY DEF FeedInit
<1>2. FeedInv /\ [FeedNext]_feedVars => [SubscriptionNext]_subVars
  <2>1. FeedInv => Len(handled) + 1 \in Nat \ {0}
    BY DEF FeedInv, ReaderInv
  <2> QED
    BY <2>1 DEF FeedNext, FeedThread, Handler, HandleDifficulty, HandleSubscribed,
                HandleNotify, AuthorizeRaises, HandlerRaises, SubscriptionNext, feedVars
<1> QED
  BY <1>1, <1>2, FeedInvariant, PTL DEF FeedSpec, SubscriptionSpec

(* What is proved of the targets holds behind the reader too. *)
THEOREM FeedTargets == FeedSpec => [](NoBadShare /\ ShareThreshold)
BY FeedImplementsSubscription, SubscriptionNoBadShare, SubscriptionShareThreshold, PTL

=============================================================================
