---------------------------- MODULE Subscription ----------------------------
(***************************************************************************)
(* The Subscription of pyminer.py and its subclasses: what the server told *)
(* the miner, the target computed from the difficulty, and the comparison  *)
(* of hashes with it.  Targets and hashes are compared as the strings of   *)
(* digits that '%064x' makes of them, which grow beyond their width rather *)
(* than wrap.  Base, Width, Diff1 and Shift scale the numbers down; a      *)
(* difficulty is a fraction, whose denominator is 1 when the server sends  *)
(* an integer, and the rounding of floats is left out.                     *)
(***************************************************************************)
EXTENDS Integers, Sequences, FiniteSets

CONSTANTS
  Base,          \* 16 in the code
  Width,         \* digits of a hash, 64
  Diff1,         \* 0xffff0000 * 2 ** (256 - 64) + 1
  Shift,         \* 2 ** 16 for scrypt and yescrypt, 1 for sha256d
  Difficulties,  \* fractions <<numerator, denominator>> the server may send
  Ids,           \* subscription ids
  None

ASSUME SubscriptionAssumption ==
  /\ Base \in Nat \ {0, 1}
  /\ Width \in Nat \ {0}
  /\ Diff1 \in Nat \ {0}
  /\ Shift \in Nat \ {0}
  /\ Difficulties \subseteq Nat \X (Nat \ {0})
  /\ None \notin Ids \union Difficulties \union Seq(Nat)

VARIABLES
  id,          \* self._id
  difficulty,  \* self._difficulty
  target,      \* self._target
  jobs         \* the jobs created: their unit of work, target, and its difficulty

subVars == <<id, difficulty, target, jobs>>

(* The weight of a digit.                                                  *)
Power[n \in Nat] == IF n = 0 THEN 1 ELSE Base * Power[n - 1]

MaxHash == Power[Width] - 1

(* The shift adds at most so many digits to a target.                      *)
Growth == 8

ASSUME GrowthAssumption == MaxHash * Shift < Power[Width + Growth]

-----------------------------------------------------------------------------
(* Strings of digits. *)

(* Mutant of Length: '%x', without padding. *)
LengthUnpadded(n) == CHOOSE w \in 1 .. Width + Growth :
                       n < Power[w] /\ (w = 1 \/ n >= Power[w - 1])

(* The number of digits of '%064x' % n. *)
Length(n) == CHOOSE w \in Width .. Width + Growth :
               /\ n < Power[w]
               /\ w = Width \/ n >= Power[w - 1]

(* '%064x' % n, the most significant digit first. *)
Digits(n) == [i \in 1 .. Length(n) |-> (n \div Power[Length(n) - i]) % Base]

(* Mutant of StringLeq: the comparison is strict. *)
StringLess(s, t) ==
  \E k \in 1 .. Len(s) \intersect 1 .. Len(t) :
    s[k] < t[k] /\ \A i \in 1 .. k - 1 : s[i] = t[i]

(* Mutant of StringLeq: the longer string is the greater one, as numbers   *)
(* compare.                                                                *)
NumberLeq(s, t) ==
  \/ Len(s) < Len(t)
  \/ Len(s) = Len(t) /\ \A i \in 1 .. Len(s) : s[i] = t[i]
  \/ \E k \in 1 .. Len(s) \intersect 1 .. Len(t) :
       s[k] < t[k] /\ \A i \in 1 .. k - 1 : s[i] = t[i]

(* s <= t for strings. *)
StringLeq(s, t) ==
  \/ Len(s) <= Len(t) /\ \A i \in 1 .. Len(s) : s[i] = t[i]
  \/ \E k \in 1 .. Len(s) \intersect 1 .. Len(t) :
       s[k] < t[k] /\ \A i \in 1 .. k - 1 : s[i] = t[i]

-----------------------------------------------------------------------------
(* set_difficulty. *)

Least(a, b) == IF a <= b THEN a ELSE b

(* Mutant of Quotient: x / d is rounded to the nearest and one too many.   *)
QuotientRounded(x, d) ==
  LET num == d[1]
      den == d[2]
  IN  IF den = 1 THEN x \div num ELSE (2 * x * den + num) \div (2 * num)

(* int(x / d - 1 + 0.5): x / d is rounded down when both are integers. *)
Quotient(x, d) ==
  LET num == d[1]
      den == d[2]
  IN  IF den = 1
      THEN LET q == x \div num IN IF q = 0 THEN 0 ELSE q - 1
      ELSE IF 2 * x * den < num THEN 0 ELSE (2 * x * den - num) \div (2 * num)

NumericTarget(d) ==
  IF d[1] = 0 THEN MaxHash ELSE Least(Quotient(Diff1, d), MaxHash)

(* _set_target of the subclass shifts the number, and makes it a string. *)
SetTarget(d) == target' = Digits(NumericTarget(d) * Shift)

SubscriptionInit ==
  /\ id = None
  /\ difficulty = None
  /\ target = None
  /\ jobs = {}

(* Mutant of SetDifficulty: a job reads the target of its subscription.    *)
SetDifficultyNow(d) ==
  /\ difficulty' = d
  /\ SetTarget(d)
  /\ jobs' = {[j EXCEPT !.target = target', !.difficulty = d] : j \in jobs}
  /\ UNCHANGED id

SetDifficulty(d) ==
  /\ difficulty' = d
  /\ SetTarget(d)
  /\ UNCHANGED <<id, jobs>>

SetSubscription(i) ==
  /\ id = None
  /\ id' = i
  /\ UNCHANGED <<difficulty, target, jobs>>

(* The job of unit of work w. *)
CreateJob(w) ==
  /\ id # None
  /\ jobs' = jobs \union {[work |-> w, target |-> target, difficulty |-> difficulty]}
  /\ UNCHANGED <<id, difficulty, target>>

SubscriptionNext ==
  \/ \E d \in Difficulties : SetDifficulty(d)
  \/ \E i \in Ids : SetSubscription(i)
  \/ \E w \in Nat \ {0} : CreateJob(w)

SubscriptionSpec == SubscriptionInit /\ [][SubscriptionNext]_subVars

-----------------------------------------------------------------------------

(* A hash pow is yielded as a share of a job, pow <= self.target.  Nothing *)
(* is <= None in Python 2 but None.                                        *)
IsShare(pow, j) == j.target # None /\ StringLeq(Digits(pow), j.target)

Hashes == 0 .. MaxHash

Wanted(j) == NumericTarget(j.difficulty) * Shift

Untargeted(j) == j.difficulty = None

(* What a share of difficulty d is to a pool, with no quotient, no cap and *)
(* no string: at most the shifted Diff1 over d.                            *)
Meets(pow, d) == pow * d[1] <= Diff1 * d[2] * Shift

(* No share the pool would refuse: what a job yields meets its own         *)
(* difficulty, whatever difficulty came later, however the quotient was    *)
(* rounded and however long the target's string grew; a job without a      *)
(* difficulty yields none.                                                 *)
NoBadShare ==
  \A j \in jobs : \A pow \in Hashes :
    IsShare(pow, j) => ~Untargeted(j) /\ Meets(pow, j.difficulty)

(* What a job yields, whatever its target: every hash up to the target,    *)
(* and once the target's string outgrows a hash, every hash up to its      *)
(* leading digits.  While the target fits, no hash is missed that meets    *)
(* the difficulty by two steps of the shifted target, the one that is      *)
(* taken off the quotient and the one that rounding may cost; beyond the   *)
(* width an easier target yields less.                                     *)
Threshold(j) == Wanted(j) \div Power[Length(Wanted(j)) - Width]

ShareThreshold ==
  \A j \in jobs : \A pow \in Hashes :
    ~Untargeted(j) =>
      /\ IsShare(pow, j) <=> pow <= Threshold(j)
      /\ Wanted(j) <= MaxHash /\ Meets(pow + 2 * Shift, j.difficulty) => IsShare(pow, j)

=============================================================================
