------------------------- MODULE ProofOfWork_proofs -------------------------
(***************************************************************************)
(* Proofs about the scratchpad of scrypt and of the two builds of          *)
(* yescrypt, for blocks, tables and S-boxes of any size, any core and any  *)
(* exclusive or of words: every step stays inside the scratchpad and reads *)
(* nothing but what this hash has written, and all three compute what      *)
(* ROMix defines.                                                          *)
(***************************************************************************)
EXTENDS ProofOfWork, Induction

(* n cells of the scratchpad, from `at` on, hold words.                    *)
Own(m, at, n) ==
  /\ at \in Nat /\ n \in Nat /\ at + n <= Need
  /\ \A a \in at .. at + n - 1 : m[a] \in Word

IsPower(p) == \E k \in Nat : p = Power2[k]

(* How many rows of the table, or of the S-box, are written.               *)
RowsOwn ==
  IF stage \in {"mixrw", "mix"} THEN job.N
  ELSE IF job.simd /\ pc \notin {"load", "store"} THEN Done + 1
  ELSE IF pc \in {"first", "second"} THEN 1
  ELSE Done

(* What is written: B, the S-box once it is filled, the rows, the block.   *)
OwnInv ==
  /\ Own(mem, BAt, 2 * R)
  /\ job.yescrypt /\ stage # "sbox" => Own(mem, SAt, SSize)
  /\ \A k \in 0 .. RowsOwn - 1 : Own(mem, VRow(k), 2 * StageR)
  /\ pc # "load" => Own(mem, ActiveAt, 2 * StageR)

(* Where each of the three programs is, and its counters there.            *)
ScryptInv ==
  /\ stage \in {"fill", "mix"}
  /\ stage = "mix" => pc = "loop"
  /\ pc \in {"load", "loop"}
  /\ pc = "load" => half = 0 /\ i = 0
  /\ pc = "loop" => i % 2 = 0 /\ i \in 0 .. job.N /\ (half = 1 => i < job.N)

OptInv ==
  /\ pc = "load" => half = 0 /\ i = 0
  /\ pc = "first" => half = 0 /\ i = 0
  /\ pc = "second" => half = 1 /\ i = 0
  /\ pc = "loop" =>
       /\ i % 2 = 0 /\ i \in 2 .. StageRows /\ (half = 1 => i < StageRows)
       /\ IsPower(nn) /\ nn <= i - 1 + 2 * half /\ i - 1 + 2 * half < 2 * nn

SimdInv ==
  /\ pc = "load" => half = 0 /\ i = 0
  /\ pc \in {"first", "second"} => half = 0 /\ i = 0
  /\ pc = "loop" =>
       /\ IsPower(nn) /\ nn % 2 = 0 /\ nn <= StageRows - 2
       /\ i % 2 = 1
       /\ IF half = 1 THEN i < RowsOfRound
          ELSE IF 2 * nn < StageRows THEN i <= nn + 1 ELSE i <= StageRows - 1 - nn
  /\ pc = "tail" => IsPower(nn) /\ nn <= StageRows - 2 /\ nn + i = StageRows - 1
  /\ pc = "store" => half = 0 /\ i < StageRows

Smix1Inv ==
  /\ i \in Nat /\ nn \in Nat \ {0}
  /\ IF job.simd THEN pc \in {"load", "first", "second", "loop", "tail", "store"} /\ SimdInv
                 ELSE pc \in {"load", "first", "second", "loop"} /\ OptInv

Smix2Inv ==
  /\ pc \in {"load", "loop"}
  /\ pc = "load" => half = 0 /\ i = 0
  /\ pc = "loop" => i \in 0 .. Nloop \div 2 /\ (half = 1 => i > 0)

CounterInv ==
  /\ job \in Jobs
  /\ half \in {0, 1} /\ j \in Word
  /\ stage = "done" => pc = "load" /\ half = 0 /\ i = 0
  /\ stage # "done" /\ ~ job.yescrypt => ScryptInv
  /\ stage \in {"sbox", "fill"} /\ job.yescrypt => Smix1Inv
  /\ stage \in {"mixrw", "mix"} /\ job.yescrypt => Smix2Inv

PowInv ==
  /\ mem \in [0 .. Need - 1 -> Cell]
  /\ stage \in {"sbox", "fill", "mixrw", "mix", "done"}
  /\ CounterInv
  /\ OwnInv

-----------------------------------------------------------------------------
(* The powers of two.                                                      *)

(* Power2 follows its recursion, and no number is above its own power.     *)
LEMMA Powers ==
  /\ Power2[0] = 1
  /\ \A k \in Nat : /\ Power2[k] \in Nat \ {0}
                    /\ Power2[k + 1] = 2 * Power2[k]
                    /\ k < Power2[k]
<1> DEFINE Eq(f) == f = [k \in Nat |-> IF k = 0 THEN 1 ELSE 2 * f[k - 1]]
           Step == [ks \in Nat \X Nat |-> 2 * ks[2]]
           S == {k \in Nat : Power2[k] \in Nat /\ k < Power2[k]}
<1>1. \E f : Eq(f)
  <2>1. Step \in [Nat \X Nat -> Nat] /\ 1 \in Nat
    OBVIOUS
  <2>2. PICK f : f \in Recursive(Nat, 1, Step)
    <3> HIDE DEF Step
    <3> QED
      BY <2>1, RecursiveFunction
  <2>3. f \in [Nat -> Nat] /\ f[0] = 1 /\ \A k \in Nat : f[k + 1] = Step[<<k, f[k]>>]
    BY <2>2 DEF Recursive
  <2>4. ASSUME NEW k \in Nat PROVE f[k] = IF k = 0 THEN 1 ELSE 2 * f[k - 1]
    <3>1. CASE k = 0
      BY <2>3, <3>1
    <3>2. CASE k # 0
      <4>1. k - 1 \in Nat /\ (k - 1) + 1 = k
        BY <3>2
      <4>2. f[k - 1] \in Nat /\ f[(k - 1) + 1] = Step[<<k - 1, f[k - 1]>>]
        BY <2>3, <4>1
      <4> QED
        BY <3>2, <4>1, <4>2
    <3> QED
      BY <3>1, <3>2
  <2> HIDE DEF Step
  <2>5. f = [k \in Nat |-> f[k]]
    BY <2>3
  <2>6. Eq(f)
    BY <2>4, <2>5
  <2> QED
    BY <2>6
<1>2. Power2 = CHOOSE f : Eq(f)
  BY DEF Power2
<1>3. Eq(Power2)
  BY <1>1, <1>2
<1>4. Power2[0] = 1 /\ \A k \in Nat : Power2[k + 1] = 2 * Power2[k]
  <2>1. \A k \in Nat : k + 1 \in Nat /\ k + 1 # 0 /\ (k + 1) - 1 = k
    OBVIOUS
  <2> QED
    BY <1>3, <2>1
<1>5. 0 \in S
  BY <1>4
<1>6. ASSUME NEW k \in Nat, k \in S PROVE k + 1 \in S
  BY <1>4, <1>6
<1>7. \A k \in Nat : k \in S
  <2> HIDE DEF S
  <2> QED
    BY <1>5, <1>6, SetInduction
<1> QED
  BY <1>4, <1>7

(* A greater power is at least twice a smaller one.                        *)
LEMMA PowersApart ==
  \A d \in Nat : \A k \in Nat : 2 * Power2[k] <= Power2[k + d + 1]
<1> DEFINE S == {d \in Nat : \A k \in Nat : 2 * Power2[k] <= Power2[k + d + 1]}
<1>1. 0 \in S
  BY Powers
<1>2. ASSUME NEW d \in Nat, d \in S PROVE d + 1 \in S
  <2> SUFFICES ASSUME NEW k \in Nat PROVE 2 * Power2[k] <= Power2[k + (d + 1) + 1]
    OBVIOUS
  <2>1. k + (d + 1) + 1 = (k + d + 1) + 1 /\ k + d + 1 \in Nat
    OBVIOUS
  <2>2. Power2[(k + d + 1) + 1] = 2 * Power2[k + d + 1] /\ Power2[k + d + 1] \in Nat
    BY <2>1, Powers
  <2>3. 2 * Power2[k] <= Power2[k + d + 1] /\ Power2[k] \in Nat
    BY <1>2, Powers
  <2> QED
    BY <2>1, <2>2, <2>3
<1> HIDE DEF S
<1>3. \A d \in Nat : d \in S
  BY <1>1, <1>2, SetInduction
<1> QED
  BY <1>3 DEF S

(* P2floor of a number is the power of two that it lies in the octave of.  *)
LEMMA P2floorIs ==
  ASSUME NEW p, IsPower(p), NEW n \in Nat, p <= n, n < 2 * p
  PROVE  P2floor(n) = p
<1>1. PICK k \in Nat : p = Power2[k]
  BY DEF IsPower
<1>2. p \in Nat /\ k <= n
  BY <1>1, Powers
<1>3. ASSUME NEW q \in {Power2[d] : d \in 0 .. n}, q <= n, n < 2 * q
      PROVE  q = p
  <2>1. PICK d \in 0 .. n : q = Power2[d]
    OBVIOUS
  <2>2. d \in Nat /\ q \in Nat
    BY <2>1, Powers
  <2>3. CASE d < k
    <3>1. (k - d) - 1 \in Nat /\ d + ((k - d) - 1) + 1 = k
      BY <2>2, <2>3
    <3>2. 2 * Power2[d] <= Power2[k]
      BY <2>2, <3>1, PowersApart
    <3> QED
      BY <1>1, <1>2, <1>3, <2>1, <2>2, <3>2
  <2>4. CASE k < d
    <3>1. (d - k) - 1 \in Nat /\ k + ((d - k) - 1) + 1 = d
      BY <2>2, <2>4
    <3>2. 2 * Power2[k] <= Power2[d]
      BY <3>1, PowersApart
    <3> QED
      BY <1>1, <1>2, <1>3, <2>1, <2>2, <3>2
  <2> QED
    BY <1>1, <2>1, <2>2, <2>3, <2>4
<1>4. p \in {Power2[d] : d \in 0 .. n}
  BY <1>1, <1>2
<1> QED
  BY <1>3, <1>4 DEF P2floor

(* One is a power of two, and so is twice another.                         *)
LEMMA PowersOfTwo ==
  /\ IsPower(1)
  /\ \A p : IsPower(p) => p \in Nat \ {0} /\ IsPower(2 * p)
<1>1. IsPower(1)
  BY Powers DEF IsPower
<1>2. ASSUME NEW p, IsPower(p) PROVE p \in Nat \ {0} /\ IsPower(2 * p)
  <2>1. PICK k \in Nat : p = Power2[k]
    BY <1>2 DEF IsPower
  <2>2. 2 * p = Power2[k + 1] /\ k + 1 \in Nat /\ p \in Nat \ {0}
    BY <2>1, Powers
  <2> QED
    BY <2>2 DEF IsPower
<1> QED
  BY <1>1, <1>2

-----------------------------------------------------------------------------
(* Words and cells.                                                        *)

(* Junk is no word, and the exclusive or of two cells is a cell.           *)
LEMMA Cells ==
  /\ Junk \notin Word /\ Word \subseteq Nat /\ 0 \in Word
  /\ Cell = Word \union {Junk}
  /\ \A a, b \in Word : XorCell(a, b) \in Word
  /\ \A a, b \in Cell : XorCell(a, b) \in Cell
<1>1. Power2[Bits] \in Nat \ {0}
  BY BlockMixSizes, Powers
<1>2. Junk \notin Word /\ Word \subseteq Nat /\ 0 \in Word /\ Cell = Word \union {Junk}
  BY <1>1 DEF Junk, Word, Cell
<1>3. \A a, b \in Word : XorCell(a, b) \in Word
  BY <1>2, XorOfWords DEF XorCell
<1> QED
  BY <1>2, <1>3, XorOfWords DEF XorCell

(* What is left of a division.                                             *)
LEMMA Remainder ==
  ASSUME NEW a \in Nat, NEW d \in Nat \ {0}
  PROVE  a % d \in Nat /\ a % d < d
OBVIOUS

(* The permutations of a sub-block give words.                             *)
LEMMA ShuffleIsWord == Shuffle \in [Word -> Word]
<1> SUFFICES ASSUME NEW a \in Word
             PROVE  ((2 * a) % Power2[Bits]) + ((2 * a) \div Power2[Bits]) \in Word
  BY DEF Shuffle
<1> DEFINE w == Power2[Bits]
<1>1. w \in Nat \ {0} /\ a \in Nat /\ a < w
  BY BlockMixSizes, Powers DEF Word
<1> HIDE DEF w
<1>2. CASE 2 * a < w
  <2>1. (2 * a) % w = 2 * a /\ (2 * a) \div w = 0
    BY <1>1, <1>2
  <2> QED
    BY <1>1, <1>2, <2>1 DEF w, Word
<1>3. CASE w <= 2 * a
  <2>1. (2 * a) \div w = 1 /\ (2 * a) % w = 2 * a - w
    BY <1>1, <1>3
  <2> QED
    BY <1>1, <1>3, <2>1 DEF w, Word
<1> QED
  BY <1>1, <1>2, <1>3

(* SIMD_UNSHUFFLE also keeps the number of words of a sub-block.           *)
LEMMA UnshuffleIsWord == Unshuffle \in [Word -> Word]
<1> SUFFICES ASSUME NEW a \in Word
             PROVE  (a \div 2) + (a % 2) * Power2[Bits - 1] \in Word
  BY DEF Unshuffle
<1>1. /\ Bits - 1 \in Nat
      /\ Power2[(Bits - 1) + 1] = 2 * Power2[Bits - 1] /\ Power2[Bits - 1] \in Nat
  BY BlockMixSizes, Powers
<1>2. Power2[Bits] = 2 * Power2[Bits - 1]
  BY <1>1, BlockMixSizes
<1>3. a \in Nat /\ a < Power2[Bits]
  BY <1>1, <1>2 DEF Word
<1> QED
  BY <1>1, <1>2, <1>3 DEF Word

(* So does Salsa20 between the two, as yescrypt has it.                    *)
LEMMA ShuffledCoreIsWord ==
  ASSUME job \in Jobs
  PROVE  job.core \in [Word -> Word] /\ ShuffledCore \in [Word -> Word]
BY JobsAssumption, ShuffleIsWord, UnshuffleIsWord DEF ShuffledCore

-----------------------------------------------------------------------------
(* The functions of a sub-block.                                           *)

(* A table of the S-box has as many words for S0 as for S1, at least one.  *)
IsTable(S) == S \in Seq(Word) /\ Len(S) % 2 = 0 /\ Len(S) >= 2

(* One round of pwxform on a word with any S-box of words ...              *)
LEMMA PwxRoundIsWord ==
  ASSUME NEW S, IsTable(S), NEW a \in Word
  PROVE  PwxRound(S, a) \in Word
<1> DEFINE h == Len(S) \div 2
<1>1. h \in Nat \ {0} /\ Len(S) = h + h /\ a \in Nat /\ a \div 2 \in Nat
  BY Cells DEF IsTable
<1> HIDE DEF h
<1>2. (a % h) + 1 \in 1 .. Len(S) /\ h + ((a \div 2) % h) + 1 \in 1 .. Len(S)
  BY <1>1, Remainder
<1> DEFINE p0 == S[(a % h) + 1]
           p1 == S[h + ((a \div 2) % h) + 1]
           product == (a \div 2) * (a % 2)
<1>3. p0 \in Word /\ p1 \in Word
  BY <1>2 DEF IsTable
<1> HIDE DEF p0, p1
<1>4. product + p0 \in Nat
  <2>1. a % 2 \in Nat /\ a \div 2 \in Nat /\ p0 \in Nat
    BY <1>1, <1>3, Cells
  <2> QED
    BY <2>1
<1> HIDE DEF product
<1>5. (product + p0) % Power2[Bits] \in Word
  <2>1. Power2[Bits] \in Nat \ {0}
    BY BlockMixSizes, Powers
  <2>2. /\ (product + p0) % Power2[Bits] \in Nat
        /\ (product + p0) % Power2[Bits] < Power2[Bits]
    BY <1>4, <2>1, Remainder
  <2> QED
    BY <2>1, <2>2 DEF Word
<1>6. PwxRound(S, a) = XorWord((product + p0) % Power2[Bits], p1)
  BY <1>3, Cells DEF PwxRound, h, p0, p1, product
<1> QED
  BY <1>3, <1>5, <1>6, XorOfWords

(* f is the function on 0 .. n that begins with v0 and follows Step.        *)
Follows(f, v0, Step, n) ==
  f = [k \in 0 .. n |-> IF k = 0 THEN v0 ELSE Step[<<k - 1, f[k - 1]>>]]

(* A recursion over 0 .. n that stays in a set has a solution ...          *)
LEMMA FoldExists ==
  ASSUME NEW V, NEW v0 \in V, NEW n \in Nat, NEW Step \in [(0 .. n - 1) \X V -> V]
  PROVE  \E f \in [0 .. n -> V] : Follows(f, v0, Step, n)
<1> DEFINE Wide == [kv \in Nat \X V |-> IF kv[1] \in 0 .. n - 1 THEN Step[kv] ELSE kv[2]]
<1>1. Wide \in [Nat \X V -> V]
  <2> SUFFICES ASSUME NEW kv \in Nat \X V
               PROVE  (IF kv[1] \in 0 .. n - 1 THEN Step[kv] ELSE kv[2]) \in V
    OBVIOUS
  <2>1. kv[2] \in V /\ (kv[1] \in 0 .. n - 1 => kv \in (0 .. n - 1) \X V)
    OBVIOUS
  <2> QED
    BY <2>1
<1>2. PICK g : g \in Unrolled(V, v0, Wide, n)
  <2> HIDE DEF Wide
  <2>1. Unrolled(V, v0, Wide, n) # {}
    BY ONLY <1>1, v0 \in V, n \in Nat, UnrolledExists
  <2> QED
    BY <2>1
<1>3. g \in [0 .. n -> V] /\ g[0] = v0 /\ \A k \in 0 .. n - 1 : g[k + 1] = Wide[<<k, g[k]>>]
  BY <1>2 DEF Unrolled
<1>4. ASSUME NEW k \in 0 .. n
      PROVE  g[k] = IF k = 0 THEN v0 ELSE Step[<<k - 1, g[k - 1]>>]
  <2>1. CASE k = 0
    BY <1>3, <2>1
  <2>2. CASE k # 0
    <3>1. k - 1 \in 0 .. n - 1 /\ (k - 1) + 1 = k /\ k - 1 \in Nat /\ k - 1 \in 0 .. n
      BY <2>2
    <3>2. g[k] = Wide[<<k - 1, g[k - 1]>>] /\ g[k - 1] \in V
      <4> HIDE DEF Wide
      <4> QED
        BY <1>3, <3>1
    <3>3. Wide[<<k - 1, g[k - 1]>>] = Step[<<k - 1, g[k - 1]>>]
      BY <3>1, <3>2
    <3> QED
      BY <2>2, <3>2, <3>3
  <2> QED
    BY <2>1, <2>2
<1>5. g = [k \in 0 .. n |-> g[k]]
  BY <1>3
<1> HIDE DEF Wide
<1>6. g = [k \in 0 .. n |-> IF k = 0 THEN v0 ELSE Step[<<k - 1, g[k - 1]>>]]
  BY <1>4, <1>5
<1> QED
  BY <1>3, <1>6 DEF Follows

(* ... and a set that holds 0 and grows as far as n holds n.               *)
LEMMA FoldInduction ==
  ASSUME NEW n \in Nat, NEW T, 0 \in T, \A k \in 0 .. n - 1 : k \in T => k + 1 \in T
  PROVE  n \in T
<1> DEFINE S == {k \in Nat : k <= n => k \in T}
<1>1. 0 \in S
  OBVIOUS
<1>2. ASSUME NEW k \in Nat, k \in S PROVE k + 1 \in S
  BY <1>2
<1> HIDE DEF S
<1>3. \A k \in Nat : k \in S
  BY <1>1, <1>2, SetInduction
<1> QED
  BY <1>3 DEF S

(* ... and all of them: the recursive function is PwxRound, Rounds times.  *)
LEMMA PwxformIsWord ==
  ASSUME NEW S, IsTable(S), NEW a \in Word
  PROVE  Pwxform(S, a) \in Word
<1> DEFINE Eq(f) == f = [k \in 0 .. Rounds |-> IF k = 0 THEN a ELSE PwxRound(S, f[k - 1])]
           Step == [kv \in (0 .. Rounds - 1) \X Word |-> PwxRound(S, kv[2])]
           after == CHOOSE f : Eq(f)
           T == {k \in 0 .. Rounds : after[k] \in Word}
<1>1. Rounds \in Nat
  BY BlockMixSizes
<1>2. Step \in [(0 .. Rounds - 1) \X Word -> Word]
  BY PwxRoundIsWord
<1>3. \E f : Eq(f)
  <2>1. PICK f \in [0 .. Rounds -> Word] : Follows(f, a, Step, Rounds)
    <3> HIDE DEF Step
    <3> QED
      BY <1>1, <1>2, FoldExists
  <2>2. ASSUME NEW k \in 0 .. Rounds, k # 0
        PROVE  Step[<<k - 1, f[k - 1]>>] = PwxRound(S, f[k - 1])
    <3>1. k - 1 \in 0 .. Rounds - 1 /\ k - 1 \in 0 .. Rounds
      BY <1>1, <2>2
    <3> QED
      BY <3>1
  <2> HIDE DEF Step
  <2>3. Eq(f)
    BY <2>1, <2>2 DEF Follows
  <2> QED
    BY <2>3
<1>4. Eq(after)
  <2> HIDE DEF Eq
  <2> QED
    BY <1>3
<1> HIDE DEF after
<1>5. 0 \in T
  BY <1>1, <1>4
<1>6. ASSUME NEW k \in 0 .. Rounds - 1, k \in T PROVE k + 1 \in T
  <2>1. k + 1 \in 0 .. Rounds /\ k + 1 # 0 /\ (k + 1) - 1 = k
    BY <1>1
  <2>2. after[k + 1] = PwxRound(S, after[k])
    BY <1>4, <2>1
  <2> QED
    BY <1>6, <2>1, <2>2, PwxRoundIsWord
<1>7. Rounds \in T
  <2> HIDE DEF T
  <2> QED
    BY <1>1, <1>5, <1>6, FoldInduction
<1>8. Pwxform(S, a) = after[Rounds]
  BY DEF Pwxform, after
<1> QED
  BY <1>7, <1>8

-----------------------------------------------------------------------------
(* The memory.  What is copied or computed from words is a word, so words  *)
(* in the memory stay words, whatever overlaps.                            *)

Memory(m) == Need \in Nat /\ m \in [0 .. Need - 1 -> Cell]

Inside(at, n) == at \in Nat /\ n \in Nat /\ at + n <= Need

Grown(m, after) ==
  /\ Memory(after)
  /\ \A a \in 0 .. Need - 1 : m[a] \in Word => after[a] \in Word

(* A function of words stays one when it is lifted to cells.               *)
LEMMA LiftIsWord ==
  ASSUME NEW f \in [Word -> Word], NEW a \in Word, NEW b \in Word
  PROVE  Lift(f, a) \in Word /\ Lift(f, XorCell(a, b)) \in Word
<1>1. a # Junk /\ XorCell(a, b) \in Word /\ XorCell(a, b) # Junk
  BY Cells
<1>2. Lift(f, a) = f[a] /\ Lift(f, XorCell(a, b)) = f[XorCell(a, b)]
  BY <1>1 DEF Lift
<1> QED
  BY <1>1, <1>2

(* Several writes of words are one.                                        *)
LEMMA GrownIsTransitive ==
  ASSUME NEW m, NEW m1, NEW m2, Grown(m, m1), Grown(m1, m2)
  PROVE  Grown(m, m2)
BY DEF Grown

(* Words that are written are not taken back.                              *)
LEMMA GrownOwns ==
  ASSUME NEW m, NEW after, Grown(m, after), NEW at, NEW n, Own(m, at, n)
  PROVE  Own(after, at, n)
<1>1. \A a \in at .. at + n - 1 : a \in 0 .. Need - 1
  BY DEF Grown, Memory, Own
<1> QED
  BY <1>1 DEF Grown, Own

(* A single cell that gets a word.                                         *)
LEMMA PutGrows ==
  ASSUME NEW m, Memory(m), NEW at \in 0 .. Need - 1, NEW w \in Word
  PROVE  LET after == [m EXCEPT ![at] = w] IN Grown(m, after) /\ after[at] = w
BY Cells DEF Memory, Grown

(* blkcpy: words from anywhere, to anywhere.                               *)
LEMMA CopyGrows ==
  ASSUME NEW m, Memory(m), NEW to, NEW from, NEW n, Inside(to, n), Own(m, from, n)
  PROVE  LET after == Copy(m, to, from, n) IN Grown(m, after) /\ Own(after, to, n)
<1> DEFINE after == Copy(m, to, from, n)
<1>1. DOMAIN m = 0 .. Need - 1 /\ \A a \in 0 .. Need - 1 : m[a] \in Cell
  BY DEF Memory
<1>2. \A a \in to .. to + n - 1 : a \in 0 .. Need - 1 /\ m[from + a - to] \in Word
  <2>1. \A a \in to .. to + n - 1 : from + a - to \in from .. from + n - 1
    BY DEF Inside, Own
  <2>2. \A a \in to .. to + n - 1 : a \in 0 .. Need - 1
    BY DEF Inside, Memory
  <2> QED
    BY <2>1, <2>2 DEF Own
<1>3. after = [a \in 0 .. Need - 1 |->
                 IF a \in to .. to + n - 1 THEN m[from + a - to] ELSE m[a]]
  BY <1>1 DEF Copy
<1> HIDE DEF after
<1>4. Memory(after)
  BY <1>1, <1>2, <1>3, Cells DEF Memory
<1>5. Own(after, to, n)
  BY <1>2, <1>3 DEF Own, Inside
<1> QED
  BY <1>2, <1>3, <1>4, <1>5 DEF Grown, after

(* blkxor of words into words.                                             *)
LEMMA XorIntoGrows ==
  ASSUME NEW m, Memory(m), NEW to, NEW from, NEW n, Own(m, to, n), Own(m, from, n)
  PROVE  Grown(m, XorInto(m, to, from, n))
<1> DEFINE after == XorInto(m, to, from, n)
<1>1. DOMAIN m = 0 .. Need - 1 /\ \A a \in 0 .. Need - 1 : m[a] \in Cell
  BY DEF Memory
<1>2. \A a \in to .. to + n - 1 : XorCell(m[a], m[from + a - to]) \in Word
  <2>1. \A a \in to .. to + n - 1 : from + a - to \in from .. from + n - 1
    BY DEF Own
  <2>2. \A a \in to .. to + n - 1 : m[a] \in Word /\ m[from + a - to] \in Word
    BY <2>1 DEF Own
  <2> QED
    BY <2>2, Cells
<1>3. after = [a \in 0 .. Need - 1 |->
                 IF a \in to .. to + n - 1 THEN XorCell(m[a], m[from + a - to])
                                           ELSE m[a]]
  BY <1>1 DEF XorInto
<1> HIDE DEF after
<1>4. Memory(after)
  <2>1. \A a \in 0 .. Need - 1 : after[a] \in Cell
    BY <1>1, <1>2, <1>3, Cells
  <2> QED
    BY <1>3, <2>1 DEF Memory
<1> QED
  BY <1>2, <1>3, <1>4 DEF Grown, after

(* The loops at the edges of smix that permute as they copy.               *)
LEMMA CopyThroughGrows ==
  ASSUME NEW f \in [Word -> Word], NEW m, Memory(m),
         NEW to, NEW from, NEW n, Inside(to, n), Own(m, from, n)
  PROVE  LET after == CopyThrough(f, m, to, from, n)
         IN  Grown(m, after) /\ Own(after, to, n)
<1> DEFINE after == CopyThrough(f, m, to, from, n)
<1>1. DOMAIN m = 0 .. Need - 1 /\ \A a \in 0 .. Need - 1 : m[a] \in Cell
  BY DEF Memory
<1>2. \A a \in to .. to + n - 1 : a \in 0 .. Need - 1 /\ Lift(f, m[from + a - to]) \in Word
  <2>1. \A a \in to .. to + n - 1 : from + a - to \in from .. from + n - 1
    BY DEF Inside, Own
  <2>2. \A a \in to .. to + n - 1 : a \in 0 .. Need - 1
    BY DEF Inside, Memory
  <2>3. \A a \in to .. to + n - 1 : m[from + a - to] \in Word
    BY <2>1 DEF Own
  <2> QED
    BY <2>2, <2>3, Cells DEF Lift
<1>3. after = [a \in 0 .. Need - 1 |->
                 IF a \in to .. to + n - 1 THEN Lift(f, m[from + a - to]) ELSE m[a]]
  BY <1>1 DEF CopyThrough
<1> HIDE DEF after
<1>4. Memory(after)
  BY <1>1, <1>2, <1>3, Cells DEF Memory
<1>5. Own(after, to, n)
  BY <1>2, <1>3 DEF Own, Inside
<1> QED
  BY <1>2, <1>3, <1>4, <1>5 DEF Grown, after

-----------------------------------------------------------------------------
(* The mixings read words and leave words in all of the output.            *)

(* blockmix_salsa8 of words writes words, and all of Bout, whatever it     *)
(* reads meanwhile.                                                        *)
LEMMA BlockmixSalsa8Grows ==
  ASSUME NEW core \in [Word -> Word], NEW m, Memory(m), NEW r \in Nat \ {0},
         NEW Bin, Own(m, Bin, 2 * r), NEW Bout, Inside(Bout, 2 * r),
         NEW X \in 0 .. Need - 1
  PROVE  LET after == BlockmixSalsa8(core, m, Bin, Bout, X, r)
         IN  Grown(m, after) /\ Own(after, Bout, 2 * r)
<1> DEFINE Absorb1(mm, k) == [mm EXCEPT ![X] = Lift(core, XorCell(mm[X], mm[Bin + k]))]
           Emit(mm, k) == [mm EXCEPT ![Bout + k] = mm[X]]
           Pair(mm, k) == Emit(Absorb1(Emit(Absorb1(mm, 2 * k), k), 2 * k + 1), k + r)
           first == [m EXCEPT ![X] = m[Bin + 2 * r - 1]]
           V == {mm \in [0 .. Need - 1 -> Cell] : Grown(m, mm) /\ mm[X] \in Word}
           Eq(f) == f = [k \in 0 .. r |-> IF k = 0 THEN first ELSE Pair(f[k - 1], k - 1)]
           Step == [kv \in (0 .. r - 1) \X V |-> Pair(kv[2], kv[1])]
           after == CHOOSE f : Eq(f)
           T == {k \in 0 .. r : /\ after[k] \in V
                                /\ \A a \in 0 .. k - 1 : /\ after[k][Bout + a] \in Word
                                                         /\ after[k][Bout + r + a] \in Word}
<1>1. ASSUME NEW mm \in V, NEW k \in 0 .. 2 * r - 1
      PROVE  Absorb1(mm, k) \in V /\ Grown(mm, Absorb1(mm, k))
  <2>1. m[Bin + k] \in Word /\ Bin + k \in 0 .. Need - 1
    BY DEF Own, Memory
  <2>2. mm[Bin + k] \in Word
    BY <2>1 DEF Grown
  <2> DEFINE w == Lift(core, XorCell(mm[X], mm[Bin + k]))
  <2>3. w \in Word
    <3>1. mm[X] \in Word
      OBVIOUS
    <3> QED
      BY <2>2, <3>1, LiftIsWord
  <2>4. Absorb1(mm, k) = [mm EXCEPT ![X] = w]
    OBVIOUS
  <2>5. Memory(mm)
    BY DEF Grown
  <2>6. Grown(m, mm)
    OBVIOUS
  <2> HIDE DEF w, Absorb1, V
  <2>7. Grown(mm, [mm EXCEPT ![X] = w]) /\ [mm EXCEPT ![X] = w][X] = w
    BY <2>3, <2>5, PutGrows
  <2>8. Grown(mm, Absorb1(mm, k)) /\ Absorb1(mm, k)[X] \in Word
    BY <2>3, <2>4, <2>7
  <2>9. Grown(m, Absorb1(mm, k))
    BY <2>6, <2>8, GrownIsTransitive
  <2> QED
    BY <2>8, <2>9 DEF V, Grown, Memory
<1>2. ASSUME NEW mm \in V, NEW k \in 0 .. 2 * r - 1
      PROVE  Emit(mm, k) \in V /\ Grown(mm, Emit(mm, k)) /\ Emit(mm, k)[Bout + k] \in Word
  <2>1. Bout + k \in 0 .. Need - 1
    BY DEF Inside, Memory
  <2>2. Memory(mm) /\ mm[X] \in Word
    BY DEF Grown
  <2>3. Grown(mm, Emit(mm, k)) /\ Emit(mm, k)[Bout + k] \in Word
    BY <2>1, <2>2, PutGrows
  <2> HIDE DEF Emit
  <2>4. Grown(m, Emit(mm, k))
    BY <2>3, GrownIsTransitive
  <2>5. Emit(mm, k)[X] \in Word
    BY <2>2, <2>3 DEF Grown
  <2> QED
    BY <2>3, <2>4, <2>5 DEF Grown, Memory
<1> HIDE DEF Absorb1, Emit
<1>3. ASSUME NEW mm \in V, NEW k \in 0 .. r - 1
      PROVE  /\ Pair(mm, k) \in V /\ Grown(mm, Pair(mm, k))
             /\ Pair(mm, k)[Bout + k] \in Word /\ Pair(mm, k)[Bout + r + k] \in Word
  <2> DEFINE m1 == Absorb1(mm, 2 * k)
             m2 == Emit(m1, k)
             m3 == Absorb1(m2, 2 * k + 1)
             m4 == Emit(m3, k + r)
  <2>1. /\ 2 * k \in 0 .. 2 * r - 1 /\ k \in 0 .. 2 * r - 1
        /\ 2 * k + 1 \in 0 .. 2 * r - 1 /\ k + r \in 0 .. 2 * r - 1
    OBVIOUS
  <2> HIDE DEF V
  <2>2. m1 \in V /\ Grown(mm, m1)
    BY <1>1, <2>1
  <2>3. m2 \in V /\ Grown(m1, m2) /\ m2[Bout + k] \in Word
    BY <1>2, <2>1, <2>2
  <2>4. m3 \in V /\ Grown(m2, m3)
    BY <1>1, <2>1, <2>3
  <2>5. m4 \in V /\ Grown(m3, m4) /\ m4[Bout + (k + r)] \in Word
    BY <1>2, <2>1, <2>4
  <2>6. Bout + (k + r) = Bout + r + k /\ Bout + k \in 0 .. Need - 1
    BY <2>1 DEF Inside, Memory
  <2>7. Pair(mm, k) = m4
    OBVIOUS
  <2> HIDE DEF m1, m2, m3, m4, Pair
  <2>8. Grown(mm, m4) /\ Grown(m2, m4)
    BY <2>2, <2>3, <2>4, <2>5, GrownIsTransitive
  <2>9. m4[Bout + k] \in Word
    BY <2>3, <2>6, <2>8 DEF Grown
  <2> QED
    BY <2>5, <2>6, <2>7, <2>8, <2>9
<1>4. first \in V
  <2>1. m[Bin + 2 * r - 1] \in Word
    BY DEF Own
  <2>2. Grown(m, first) /\ first[X] \in Word
    BY <2>1, PutGrows
  <2> QED
    BY <2>2 DEF Grown, Memory
<1> HIDE DEF V, Pair, first
<1>5. Step \in [(0 .. r - 1) \X V -> V]
  BY <1>3
<1>6. \E f : Eq(f)
  <2>1. PICK f \in [0 .. r -> V] : Follows(f, first, Step, r)
    <3> HIDE DEF Step
    <3> QED
      BY <1>4, <1>5, FoldExists
  <2>2. ASSUME NEW k \in 0 .. r, k # 0
        PROVE  Step[<<k - 1, f[k - 1]>>] = Pair(f[k - 1], k - 1)
    <3>1. k - 1 \in 0 .. r - 1 /\ k - 1 \in 0 .. r
      BY <2>2
    <3> QED
      BY <3>1
  <2> HIDE DEF Step
  <2>3. Eq(f)
    BY <2>1, <2>2 DEF Follows
  <2> QED
    BY <2>3
<1>7. Eq(after)
  <2> HIDE DEF Eq
  <2> QED
    BY <1>6
<1> HIDE DEF after
<1>8. 0 \in T
  BY <1>4, <1>7
<1>9. ASSUME NEW k \in 0 .. r - 1, k \in T PROVE k + 1 \in T
  <2>1. k + 1 \in 0 .. r /\ k + 1 # 0 /\ (k + 1) - 1 = k
    OBVIOUS
  <2>2. after[k + 1] = Pair(after[k], k)
    BY <1>7, <2>1
  <2>3. after[k] \in V
    BY <1>9
  <2>4. /\ after[k + 1] \in V /\ Grown(after[k], after[k + 1])
        /\ after[k + 1][Bout + k] \in Word /\ after[k + 1][Bout + r + k] \in Word
    BY <1>3, <2>2, <2>3
  <2>5. ASSUME NEW a \in 0 .. (k + 1) - 1
        PROVE  after[k + 1][Bout + a] \in Word /\ after[k + 1][Bout + r + a] \in Word
    <3>1. CASE a = k
      BY <2>4, <3>1
    <3>2. CASE a # k
      <4>1. a \in 0 .. k - 1 /\ Bout + a \in 0 .. Need - 1 /\ Bout + r + a \in 0 .. Need - 1
        BY <3>2 DEF Inside, Memory
      <4>2. after[k][Bout + a] \in Word /\ after[k][Bout + r + a] \in Word
        BY <1>9, <4>1
      <4> QED
        BY <2>4, <4>1, <4>2 DEF Grown
    <3> QED
      BY <3>1, <3>2
  <2> QED
    BY <2>1, <2>4, <2>5
<1>10. r \in T
  <2> HIDE DEF T
  <2> QED
    BY <1>8, <1>9, FoldInduction
<1>11. BlockmixSalsa8(core, m, Bin, Bout, X, r) = after[r]
  BY DEF BlockmixSalsa8, after, Pair, Emit, Absorb1, first
<1>12. Own(after[r], Bout, 2 * r)
  <2>1. ASSUME NEW a \in Bout .. Bout + 2 * r - 1 PROVE after[r][a] \in Word
    <3>1. CASE a < Bout + r
      <4>1. a - Bout \in 0 .. r - 1 /\ Bout + (a - Bout) = a
        BY <3>1 DEF Inside
      <4> QED
        BY <1>10, <4>1
    <3>2. CASE a >= Bout + r
      <4>1. a - Bout - r \in 0 .. r - 1 /\ Bout + r + (a - Bout - r) = a
        BY <3>2 DEF Inside
      <4> QED
        BY <1>10, <4>1
    <3> QED
      BY <3>1, <3>2 DEF Inside
  <2> QED
    BY <2>1 DEF Own, Inside
<1>13. Grown(m, after[r])
  BY <1>10 DEF V
<1> QED
  BY <1>11, <1>12, <1>13

(* The S-box in the memory is a table.                                     *)
LEMMA TableInMemory ==
  ASSUME NEW m, NEW at, NEW n, Own(m, at, n), n % 2 = 0, n >= 2
  PROVE  IsTable([k \in 1 .. n |-> m[at + k - 1]])
<1> DEFINE S == [k \in 1 .. n |-> m[at + k - 1]]
<1>1. \A k \in 1 .. n : at + k - 1 \in at .. at + n - 1
  BY DEF Own
<1>2. n \in Nat /\ S \in [1 .. n -> Word]
  BY <1>1 DEF Own
<1>3. S \in Seq(Word) /\ Len(S) = n
  <2> HIDE DEF S
  <2> QED
    BY <1>2
<1> QED
  BY <1>3 DEF IsTable

(* So does blockmix_pwxform, with an S-box of words.                       *)
LEMMA BlockmixPwxformGrows ==
  ASSUME NEW core \in [Word -> Word], NEW m, Memory(m), NEW r \in Nat \ {0},
         NEW Bin, Own(m, Bin, 2 * r), NEW Bout, Inside(Bout, 2 * r),
         NEW S, NEW Ssize, Own(m, S, Ssize), Ssize % 2 = 0, Ssize >= 2
  PROVE  LET after == BlockmixPwxform(core, m, Bin, Bout, S, Ssize, r)
         IN  Grown(m, after) /\ Own(after, Bout, 2 * r)
<1> DEFINE table == [k \in 1 .. Ssize |-> m[S + k - 1]]
           n == 2 * r - 1
           w0 == Pwxform(table, XorCell(m[Bin + 2 * r - 1], m[Bin]))
           first == [m EXCEPT ![Bout] = w0]
           Next1(mm, k) == [mm EXCEPT ![Bout + k] =
                              Pwxform(table, XorCell(mm[Bout + k - 1], mm[Bin + k]))]
           V == {mm \in [0 .. Need - 1 -> Cell] : Grown(m, mm)}
           W(k) == {mm \in V : \A a \in Bout .. Bout + k : mm[a] \in Word}
           Eq(f) == f = [k \in 0 .. n |-> IF k = 0 THEN first ELSE Next1(f[k - 1], k)]
           chain == CHOOSE f : Eq(f)
<1>1. IsTable(table)
  BY TableInMemory
<1>2. n \in Nat /\ Bout \in Nat /\ Bout + n <= Need - 1 /\ Need \in Nat
  BY DEF Inside, Memory
<1> HIDE DEF table
<1>3. first \in W(0)
  <2>1. m[Bin + 2 * r - 1] \in Word /\ m[Bin] \in Word
    BY DEF Own
  <2>2. w0 \in Word
    <3>1. XorCell(m[Bin + 2 * r - 1], m[Bin]) \in Word
      BY <2>1, Cells
    <3> QED
      BY <1>1, <3>1, PwxformIsWord
  <2> HIDE DEF w0
  <2>3. Bout \in 0 .. Need - 1 /\ \A a \in Bout .. Bout + 0 : a = Bout
    BY <1>2
  <2>4. Grown(m, first) /\ first[Bout] = w0
    BY <2>2, <2>3, PutGrows
  <2> QED
    BY <2>2, <2>3, <2>4 DEF Grown, Memory
<1>4. ASSUME NEW k \in 0 .. n - 1, NEW mm \in W(k)
      PROVE  Next1(mm, k + 1) \in W(k + 1)
  <2>1. /\ m[Bin + (k + 1)] \in Word /\ Bin + (k + 1) \in 0 .. Need - 1
        /\ Bout + (k + 1) \in 0 .. Need - 1
        /\ Bout + (k + 1) - 1 \in Bout .. Bout + k
    BY <1>2 DEF Own
  <2>2. mm[Bin + (k + 1)] \in Word /\ mm[Bout + (k + 1) - 1] \in Word
    BY <2>1 DEF Grown
  <2> DEFINE w == Pwxform(table, XorCell(mm[Bout + (k + 1) - 1], mm[Bin + (k + 1)]))
  <2>3. w \in Word
    <3>1. XorCell(mm[Bout + (k + 1) - 1], mm[Bin + (k + 1)]) \in Word
      BY <2>2, Cells
    <3> QED
      BY <1>1, <3>1, PwxformIsWord
  <2> DEFINE next == [mm EXCEPT ![Bout + (k + 1)] = w]
  <2>4. Next1(mm, k + 1) = next /\ Memory(mm) /\ Grown(m, mm)
    BY DEF Grown
  <2>5. Grown(mm, next) /\ next[Bout + (k + 1)] = w
    <3> HIDE DEF w
    <3> QED
      BY <2>1, <2>3, <2>4, PutGrows
  <2> HIDE DEF w, next, Next1
  <2>6. Grown(m, next)
    BY <2>4, <2>5, GrownIsTransitive
  <2>7. ASSUME NEW a \in Bout .. Bout + (k + 1) PROVE next[a] \in Word
    <3>1. CASE a = Bout + (k + 1)
      BY <2>3, <2>5, <3>1
    <3>2. CASE a # Bout + (k + 1)
      <4>1. a \in Bout .. Bout + k /\ a \in 0 .. Need - 1
        BY <1>2, <3>2
      <4> QED
        BY <2>5, <4>1 DEF Grown
    <3> QED
      BY <3>1, <3>2
  <2> QED
    BY <2>4, <2>6, <2>7 DEF Grown, Memory
<1>5. \A k \in Nat : W(k) \subseteq V
  OBVIOUS
<1> DEFINE Step == [kv \in (0 .. n - 1) \X V |->
                      IF kv[2] \in W(kv[1]) THEN Next1(kv[2], kv[1] + 1) ELSE kv[2]]
           T(f) == {k \in 0 .. n : f[k] \in W(k)}
<1> HIDE DEF V, W, Next1, first
<1>6. Step \in [(0 .. n - 1) \X V -> V]
  <2>1. \A k \in 0 .. n - 1 : k + 1 \in Nat
    OBVIOUS
  <2>2. ASSUME NEW kv \in (0 .. n - 1) \X V
        PROVE  (IF kv[2] \in W(kv[1]) THEN Next1(kv[2], kv[1] + 1) ELSE kv[2]) \in V
    <3>1. kv[1] \in 0 .. n - 1 /\ kv[2] \in V
      OBVIOUS
    <3> QED
      BY <1>4, <1>5, <2>1, <3>1
  <2> QED
    BY <2>2
<1>7. ASSUME NEW f, f[0] = first, \A k \in 0 .. n - 1 : k \in T(f) => f[k + 1] = Next1(f[k], k + 1)
      PROVE  \A k \in 0 .. n : f[k] \in W(k)
  <2> SUFFICES ASSUME NEW q \in 0 .. n PROVE f[q] \in W(q)
    OBVIOUS
  <2>1. 0 \in T(f)
    BY <1>2, <1>3, <1>7
  <2>2. ASSUME NEW k \in 0 .. q - 1, k \in T(f) PROVE k + 1 \in T(f)
    <3>1. k \in 0 .. n - 1 /\ k + 1 \in 0 .. n
      BY <1>2
    <3>2. f[k] \in W(k) /\ f[k + 1] = Next1(f[k], k + 1)
      BY <1>7, <2>2, <3>1
    <3> QED
      BY <1>4, <3>1, <3>2
  <2>3. q \in T(f)
    <3> HIDE DEF T
    <3> QED
      BY <2>1, <2>2, FoldInduction
  <2> QED
    BY <2>3
<1>8. \E f : Eq(f)
  <2>1. PICK f \in [0 .. n -> V] : Follows(f, first, Step, n)
    <3>1. first \in V
      BY <1>3, <1>5
    <3> HIDE DEF Step, n
    <3> QED
      BY <1>2, <1>6, <3>1, FoldExists
  <2>2. f[0] = first /\ \A k \in 0 .. n - 1 : f[k + 1] = Step[<<k, f[k]>>]
    <3>1. \A k \in 0 .. n - 1 : k + 1 \in 0 .. n /\ k + 1 # 0 /\ (k + 1) - 1 = k
      BY <1>2
    <3> HIDE DEF Step
    <3>2. f = [k \in 0 .. n |-> IF k = 0 THEN first ELSE Step[<<k - 1, f[k - 1]>>]]
      BY <2>1 DEF Follows
    <3>3. f[0] = first
      BY <1>2, <3>2
    <3>4. ASSUME NEW k \in 0 .. n - 1 PROVE f[k + 1] = Step[<<k, f[k]>>]
      <4>1. f[k + 1] = Step[<<(k + 1) - 1, f[(k + 1) - 1]>>]
        BY <3>1, <3>2
      <4> QED
        BY <3>1, <4>1
    <3> QED
      BY <3>3, <3>4
  <2>3. \A k \in 0 .. n - 1 : k \in T(f) => f[k + 1] = Next1(f[k], k + 1)
    <3>1. \A k \in 0 .. n - 1 : k \in 0 .. n /\ f[k] \in V
      BY <1>2
    <3> QED
      BY <2>2, <3>1
  <2>4. \A k \in 0 .. n : f[k] \in W(k)
    <3> HIDE DEF T
    <3> QED
      BY <1>7, <2>2, <2>3
  <2>5. ASSUME NEW k \in 0 .. n PROVE f[k] = IF k = 0 THEN first ELSE Next1(f[k - 1], k)
    <3>1. CASE k = 0
      BY <2>2, <3>1
    <3>2. CASE k # 0
      <4>1. k - 1 \in 0 .. n - 1 /\ k - 1 \in 0 .. n /\ (k - 1) + 1 = k
        BY <1>2, <3>2
      <4> QED
        BY <2>3, <2>4, <3>2, <4>1
    <3> QED
      BY <3>1, <3>2
  <2>6. f = [k \in 0 .. n |-> f[k]]
    OBVIOUS
  <2>7. Eq(f)
    BY <2>5, <2>6
  <2> QED
    BY <2>7
<1>9. Eq(chain)
  <2> HIDE DEF Eq
  <2> QED
    BY <1>8
<1> HIDE DEF chain
<1>10. chain[n] \in W(n)
  <2>1. 0 \in 0 .. n /\ n \in 0 .. n
        /\ \A k \in 0 .. n - 1 : k + 1 \in 0 .. n /\ k + 1 # 0 /\ (k + 1) - 1 = k
    BY <1>2
  <2>2. chain[0] = first /\ \A k \in 0 .. n - 1 : chain[k + 1] = Next1(chain[k], k + 1)
    BY <1>9, <2>1
  <2> HIDE DEF n, Eq, T
  <2>3. \A k \in 0 .. n : chain[k] \in W(k)
    BY <1>7, <2>2
  <2> QED
    BY <2>1, <2>3
<1> DEFINE last == Bout + n
           w == Lift(core, chain[n][last])
           after == [chain[n] EXCEPT ![last] = w]
<1>11. /\ Memory(chain[n]) /\ Grown(m, chain[n])
       /\ \A a \in Bout .. Bout + n : chain[n][a] \in Word
  BY <1>10 DEF W, V, Grown
<1>12. last \in 0 .. Need - 1 /\ last \in Bout .. Bout + n
  BY <1>2
<1>13. w \in Word
  <2>1. chain[n][last] \in Word
    BY <1>11, <1>12
  <2> QED
    BY <2>1, LiftIsWord
<1>14. Grown(chain[n], after)
  <2> HIDE DEF w, last, n
  <2> QED
    BY <1>11, <1>12, <1>13, PutGrows
<1>15. BlockmixPwxform(core, m, Bin, Bout, S, Ssize, r) = after
  <2>1. Bout + 2 * r - 1 = last
    BY <1>2
  <2> QED
    BY <2>1 DEF BlockmixPwxform, chain, Next1, first, table
<1> HIDE DEF after, w, last
<1>16. Grown(m, after)
  BY <1>11, <1>14, GrownIsTransitive
<1>17. Own(after, Bout, 2 * r)
  <2>1. \A a \in Bout .. Bout + 2 * r - 1 : a \in 0 .. Need - 1 /\ a \in Bout .. Bout + n
    BY <1>2
  <2> QED
    BY <1>11, <1>14, <2>1 DEF Own, Inside, Grown
<1> QED
  BY <1>15, <1>16, <1>17

-----------------------------------------------------------------------------
(* The mixings of the build with SSE2.                                     *)

(* What a mixing may use: the core or, past the first stage, the S-box.    *)
MayMix ==
  /\ job \in Jobs
  /\ StageR \in Nat \ {0} /\ (stage = "sbox" => StageR = 1)
  /\ stage # "sbox" => Own(mem, SAt, SSize) /\ SSize % 2 = 0 /\ SSize >= 2

(* A mixing under way: a memory grown from m, and a word in the registers. *)
Mixings(m) == {s \in [m : [0 .. Need - 1 -> Cell], x : Word] : Grown(m, s.m)}

(* What BLOCKMIX_PWXFORM does to X between two sub-blocks.                 *)
LEMMA HashIsWord ==
  ASSUME MayMix, NEW x \in Word, NEW k
  PROVE  Hash(x, k) \in Word
<1>1. Lift(ShuffledCore, x) \in Word
  BY ShuffledCoreIsWord, LiftIsWord DEF MayMix
<1>2. CASE stage = "sbox"
  BY <1>1, <1>2 DEF Hash
<1>3. CASE stage # "sbox"
  <2> DEFINE S == [a \in 1 .. SSize |-> mem[SAt + a - 1]]
             y == Pwxform(S, x)
  <2>1. IsTable(S)
    BY <1>3, TableInMemory DEF MayMix
  <2> HIDE DEF S
  <2>2. y \in Word
    BY <2>1, PwxformIsWord
  <2>3. Lift(ShuffledCore, y) \in Word
    BY <2>2, ShuffledCoreIsWord, LiftIsWord DEF MayMix
  <2>4. Hash(x, k) = IF k = 2 * R - 1 THEN Lift(ShuffledCore, y) ELSE y
    BY <1>3 DEF Hash, S
  <2> QED
    BY <2>2, <2>3, <2>4
<1> QED
  BY <1>2, <1>3

(* yescrypt stores a sub-block where it read it.                           *)
LEMMA SlotIs ==
  ASSUME MayMix, NEW k \in 0 .. 2 * StageR - 1
  PROVE  Slot(k) = k
<1>1. CASE stage = "sbox"
  <2>1. StageR = 1 /\ (k = 0 \/ k = 1)
    BY <1>1 DEF MayMix
  <2> QED
    BY <1>1, <2>1 DEF Slot
<1>2. CASE stage # "sbox"
  BY <1>2 DEF Slot
<1> QED
  BY <1>1, <1>2

(* One sub-block of a mixing in registers.                                 *)
LEMMA AbsorbGrows ==
  ASSUME MayMix, NEW m, NEW s \in Mixings(m), NEW y \in Word,
         NEW k \in 0 .. 2 * StageR - 1, NEW Bout, Inside(Bout, 2 * StageR)
  PROVE  LET after == Absorb(s, k, y, Bout)
         IN  /\ after \in Mixings(m) /\ Grown(s.m, after.m)
             /\ after.m[Bout + k] \in Word
<1> DEFINE w == Hash(XorCell(s.x, y), k)
           next == [s.m EXCEPT ![Bout + k] = w]
           after == Absorb(s, k, y, Bout)
<1>1. s.x \in Word /\ Memory(s.m) /\ Grown(m, s.m)
  BY DEF Mixings, Grown
<1>2. w \in Word
  <2>1. XorCell(s.x, y) \in Word
    BY <1>1, Cells
  <2> QED
    BY <2>1, HashIsWord
<1>3. after = [m |-> next, x |-> w]
  BY SlotIs DEF Absorb
<1>4. Bout + k \in 0 .. Need - 1
  BY <1>1 DEF Inside, Memory, MayMix
<1> HIDE DEF w, after
<1>5. Grown(s.m, next) /\ next[Bout + k] = w
  BY <1>1, <1>2, <1>4, PutGrows
<1>6. Grown(m, next) /\ next \in [0 .. Need - 1 -> Cell]
  <2> HIDE DEF next
  <2>1. Grown(m, next)
    BY <1>1, <1>5, GrownIsTransitive
  <2> QED
    BY <2>1 DEF Grown, Memory
<1> HIDE DEF next
<1>7. after.m = next /\ after.x = w
  BY <1>3
<1>8. after \in Mixings(m)
  BY <1>2, <1>3, <1>6, <1>7 DEF Mixings
<1> QED
  BY <1>2, <1>5, <1>7, <1>8 DEF after

(* Every step absorbs a word, maybe after a change of the memory.          *)
LEMMA MixingEnds ==
  ASSUME MayMix, NEW m, NEW Bout, Inside(Bout, 2 * StageR),
         NEW after, after[0] \in Mixings(m),
         \A k \in 0 .. 2 * StageR - 1 : after[k] \in Mixings(m) =>
            \E s \in Mixings(after[k].m), y \in Word : after[k + 1] = Absorb(s, k, y, Bout)
  PROVE  LET s == after[2 * StageR]
         IN  /\ s.x \in Word /\ Grown(m, s.m) /\ Own(s.m, Bout, 2 * StageR)
<1> DEFINE n == 2 * StageR
           T == {k \in 0 .. n : /\ after[k] \in Mixings(m)
                                /\ \A a \in 0 .. k - 1 : after[k].m[Bout + a] \in Word}
<1>1. n \in Nat /\ Bout \in Nat /\ Bout + n <= Need /\ Need \in Nat
  BY DEF MayMix, Inside, Mixings, Grown, Memory
<1>2. 0 \in T
  BY <1>1
<1>3. ASSUME NEW k \in 0 .. n - 1, k \in T PROVE k + 1 \in T
  <2>1. after[k] \in Mixings(m) /\ \A a \in 0 .. k - 1 : after[k].m[Bout + a] \in Word
    BY <1>3
  <2>2. PICK s \in Mixings(after[k].m), y \in Word : after[k + 1] = Absorb(s, k, y, Bout)
    BY <2>1
  <2>3. Grown(m, after[k].m) /\ Grown(after[k].m, s.m)
    BY <2>1 DEF Mixings
  <2>4. /\ after[k + 1] \in Mixings(after[k].m)
        /\ after[k + 1].m[Bout + k] \in Word
    BY <2>2, AbsorbGrows
  <2>5. Grown(after[k].m, after[k + 1].m)
    BY <2>4 DEF Mixings
  <2>6. Grown(m, after[k + 1].m)
    BY <2>3, <2>5, GrownIsTransitive
  <2>7. after[k + 1] \in Mixings(m)
    BY <2>4, <2>6 DEF Mixings
  <2>8. ASSUME NEW a \in 0 .. (k + 1) - 1 PROVE after[k + 1].m[Bout + a] \in Word
    <3>1. CASE a = k
      BY <2>4, <3>1
    <3>2. CASE a # k
      <4>1. a \in 0 .. k - 1 /\ Bout + a \in 0 .. Need - 1
        BY <1>1, <3>2
      <4> QED
        BY <2>1, <2>5, <4>1 DEF Grown
    <3> QED
      BY <3>1, <3>2
  <2>9. k + 1 \in 0 .. n
    BY <1>1
  <2> QED
    BY <2>7, <2>8, <2>9
<1>4. n \in T
  <2> HIDE DEF T, n
  <2> QED
    BY <1>1, <1>2, <1>3, FoldInduction
<1>5. Own(after[n].m, Bout, n)
  <2>1. ASSUME NEW a \in Bout .. Bout + n - 1 PROVE after[n].m[a] \in Word
    <3>1. a - Bout \in 0 .. n - 1 /\ Bout + (a - Bout) = a
      BY <1>1
    <3> HIDE DEF n
    <3> QED
      BY <1>4, <3>1
  <2> QED
    BY <1>1, <2>1 DEF Own
<1>6. after[n] \in Mixings(m)
  BY <1>4
<1> QED
  BY <1>5, <1>6 DEF Mixings

(* blockmix: the block at Bin goes to Bout.                                *)
LEMMA SimdBlockmixGrows ==
  ASSUME MayMix, NEW m, Memory(m), NEW Bout, Inside(Bout, 2 * StageR),
         NEW Bin, Own(m, Bin, 2 * StageR)
  PROVE  LET s == SimdBlockmix(m, Bin, Bout)
         IN  /\ s.x \in Word /\ Grown(m, s.m) /\ Own(s.m, Bout, 2 * StageR)
<1> DEFINE n == 2 * StageR
           first == [m |-> m, x |-> m[Bin + LastSub]]
           Next1(s, k) == Absorb(s, k - 1, s.m[Bin + k - 1], Bout)
           V == Mixings(m)
           Eq(f) == f = [k \in 0 .. n |-> IF k = 0 THEN first ELSE Next1(f[k - 1], k)]
           Step == [kv \in (0 .. n - 1) \X V |-> Next1(kv[2], kv[1] + 1)]
           after == CHOOSE f : Eq(f)
<1>1. n \in Nat /\ StageR \in Nat \ {0} /\ Need \in Nat
  BY DEF MayMix, Memory
<1>2. first \in V
  <2>1. m[Bin + LastSub] \in Word
    BY <1>1 DEF Own, LastSub
  <2> QED
    BY <2>1 DEF Mixings, Grown, Memory
<1>3. ASSUME NEW k \in 0 .. n - 1, NEW s \in V
      PROVE  /\ Next1(s, k + 1) \in V
             /\ \E t \in Mixings(s.m), y \in Word :
                   Next1(s, k + 1) = Absorb(t, k, y, Bout)
  <2>1. k \in 0 .. 2 * StageR - 1 /\ (k + 1) - 1 = k /\ Bin + (k + 1) - 1 = Bin + k
        /\ Bin + k \in Bin .. Bin + 2 * StageR - 1 /\ Bin + k \in 0 .. Need - 1
    BY <1>1 DEF Own
  <2>2. Grown(m, s.m) /\ Grown(s.m, s.m) /\ s \in Mixings(s.m)
    BY DEF Mixings, Grown
  <2> DEFINE y == s.m[Bin + k]
  <2>3. y \in Word
    <3>1. m[Bin + k] \in Word
      BY <2>1 DEF Own
    <3> QED
      BY <2>1, <2>2, <3>1 DEF Grown
  <2>4. Next1(s, k + 1) = Absorb(s, k, y, Bout)
    BY <2>1
  <2> HIDE DEF y, Next1
  <2>5. Absorb(s, k, y, Bout) \in Mixings(m)
    BY <2>1, <2>3, AbsorbGrows
  <2> QED
    BY <2>2, <2>3, <2>4, <2>5
<1> HIDE DEF V, Next1, first
<1>4. \E f : Eq(f)
  <2>1. Step \in [(0 .. n - 1) \X V -> V]
    BY <1>3
  <2>2. PICK f \in [0 .. n -> V] : Follows(f, first, Step, n)
    <3> HIDE DEF Step, n
    <3> QED
      BY <1>1, <1>2, <2>1, FoldExists
  <2>3. ASSUME NEW k \in 0 .. n, k # 0
        PROVE  Step[<<k - 1, f[k - 1]>>] = Next1(f[k - 1], k)
    <3>1. k - 1 \in 0 .. n - 1 /\ k - 1 \in 0 .. n /\ (k - 1) + 1 = k
      BY <1>1, <2>3
    <3> QED
      BY <3>1
  <2> HIDE DEF Step
  <2>4. Eq(f)
    BY <2>2, <2>3 DEF Follows
  <2> QED
    BY <2>4
<1>5. Eq(after)
  <2> HIDE DEF Eq
  <2> QED
    BY <1>4
<1> HIDE DEF after
<1>6. after[0] \in V
  BY <1>1, <1>2, <1>5
<1>7. ASSUME NEW k \in 0 .. n - 1, after[k] \in V
      PROVE  \E s \in Mixings(after[k].m), y \in Word : after[k + 1] = Absorb(s, k, y, Bout)
  <2>1. k + 1 \in 0 .. n /\ k + 1 # 0 /\ (k + 1) - 1 = k
    BY <1>1
  <2>2. after[k + 1] = Next1(after[k], k + 1)
    BY <1>5, <2>1
  <2> QED
    BY <1>3, <1>7, <2>2
<1>8. SimdBlockmix(m, Bin, Bout) = after[n]
  BY DEF SimdBlockmix, after, Next1, first
<1>9. LET s == after[n] IN s.x \in Word /\ Grown(m, s.m) /\ Own(s.m, Bout, n)
  <2>1. after[0] \in Mixings(m)
    BY <1>6 DEF V
  <2>2. \A k \in 0 .. 2 * StageR - 1 : after[k] \in Mixings(m) =>
           \E s \in Mixings(after[k].m), y \in Word : after[k + 1] = Absorb(s, k, y, Bout)
    BY <1>7 DEF V
  <2> HIDE DEF Eq
  <2> QED
    BY <2>1, <2>2, MixingEnds
<1> QED
  BY <1>8, <1>9

(* blockmix_xor: the exclusive or of two blocks goes to Bout.              *)
LEMMA BlockmixXorGrows ==
  ASSUME MayMix, NEW m, Memory(m), NEW Bout, Inside(Bout, 2 * StageR),
         NEW Bin1, Own(m, Bin1, 2 * StageR), NEW Bin2, Own(m, Bin2, 2 * StageR)
  PROVE  LET s == BlockmixXor(m, Bin1, Bin2, Bout)
         IN  /\ s.x \in Word /\ Grown(m, s.m) /\ Own(s.m, Bout, 2 * StageR)
<1> DEFINE n == 2 * StageR
           first == [m |-> m, x |-> XorCell(m[Bin1 + LastSub], m[Bin2 + LastSub])]
           Next1(s, k) == Absorb(s, k - 1, XorCell(s.m[Bin1 + k - 1], s.m[Bin2 + k - 1]), Bout)
           V == Mixings(m)
           Eq(f) == f = [k \in 0 .. n |-> IF k = 0 THEN first ELSE Next1(f[k - 1], k)]
           Step == [kv \in (0 .. n - 1) \X V |-> Next1(kv[2], kv[1] + 1)]
           after == CHOOSE f : Eq(f)
<1>1. n \in Nat /\ StageR \in Nat \ {0} /\ Need \in Nat
  BY DEF MayMix, Memory
<1>2. first \in V
  <2>1. m[Bin1 + LastSub] \in Word /\ m[Bin2 + LastSub] \in Word
    BY <1>1 DEF Own, LastSub
  <2>2. XorCell(m[Bin1 + LastSub], m[Bin2 + LastSub]) \in Word
    BY <2>1, Cells
  <2> QED
    BY <2>2 DEF Mixings, Grown, Memory
<1>3. ASSUME NEW k \in 0 .. n - 1, NEW s \in V
      PROVE  /\ Next1(s, k + 1) \in V
             /\ \E t \in Mixings(s.m), y \in Word :
                   Next1(s, k + 1) = Absorb(t, k, y, Bout)
  <2>1. /\ k \in 0 .. 2 * StageR - 1 /\ (k + 1) - 1 = k
        /\ Bin1 + (k + 1) - 1 = Bin1 + k /\ Bin1 + k \in Bin1 .. Bin1 + 2 * StageR - 1
        /\ Bin2 + (k + 1) - 1 = Bin2 + k /\ Bin2 + k \in Bin2 .. Bin2 + 2 * StageR - 1
        /\ Bin1 + k \in 0 .. Need - 1 /\ Bin2 + k \in 0 .. Need - 1
    BY <1>1 DEF Own
  <2>2. Grown(m, s.m) /\ Grown(s.m, s.m) /\ s \in Mixings(s.m)
    BY DEF Mixings, Grown
  <2> DEFINE y == XorCell(s.m[Bin1 + k], s.m[Bin2 + k])
  <2>3. y \in Word
    <3>1. m[Bin1 + k] \in Word /\ m[Bin2 + k] \in Word
      BY <2>1 DEF Own
    <3>2. s.m[Bin1 + k] \in Word /\ s.m[Bin2 + k] \in Word
      BY <2>1, <2>2, <3>1 DEF Grown
    <3> QED
      BY <3>2, Cells
  <2>4. Next1(s, k + 1) = Absorb(s, k, y, Bout)
    BY <2>1
  <2> HIDE DEF y, Next1
  <2>5. Absorb(s, k, y, Bout) \in Mixings(m)
    BY <2>1, <2>3, AbsorbGrows
  <2> QED
    BY <2>2, <2>3, <2>4, <2>5
<1> HIDE DEF V, Next1, first
<1>4. \E f : Eq(f)
  <2>1. Step \in [(0 .. n - 1) \X V -> V]
    BY <1>3
  <2>2. PICK f \in [0 .. n -> V] : Follows(f, first, Step, n)
    <3> HIDE DEF Step, n
    <3> QED
      BY <1>1, <1>2, <2>1, FoldExists
  <2>3. ASSUME NEW k \in 0 .. n, k # 0
        PROVE  Step[<<k - 1, f[k - 1]>>] = Next1(f[k - 1], k)
    <3>1. k - 1 \in 0 .. n - 1 /\ k - 1 \in 0 .. n /\ (k - 1) + 1 = k
      BY <1>1, <2>3
    <3> QED
      BY <3>1
  <2> HIDE DEF Step
  <2>4. Eq(f)
    BY <2>2, <2>3 DEF Follows
  <2> QED
    BY <2>4
<1>5. Eq(after)
  <2> HIDE DEF Eq
  <2> QED
    BY <1>4
<1> HIDE DEF after
<1>6. after[0] \in V
  BY <1>1, <1>2, <1>5
<1>7. ASSUME NEW k \in 0 .. n - 1, after[k] \in V
      PROVE  \E s \in Mixings(after[k].m), y \in Word : after[k + 1] = Absorb(s, k, y, Bout)
  <2>1. k + 1 \in 0 .. n /\ k + 1 # 0 /\ (k + 1) - 1 = k
    BY <1>1
  <2>2. after[k + 1] = Next1(after[k], k + 1)
    BY <1>5, <2>1
  <2> QED
    BY <1>3, <1>7, <2>2
<1>8. BlockmixXor(m, Bin1, Bin2, Bout) = after[n]
  BY DEF BlockmixXor, after, Next1, first
<1>9. LET s == after[n] IN s.x \in Word /\ Grown(m, s.m) /\ Own(s.m, Bout, n)
  <2>1. after[0] \in Mixings(m)
    BY <1>6 DEF V
  <2>2. \A k \in 0 .. 2 * StageR - 1 : after[k] \in Mixings(m) =>
           \E s \in Mixings(after[k].m), y \in Word : after[k + 1] = Absorb(s, k, y, Bout)
    BY <1>7 DEF V
  <2> HIDE DEF Eq
  <2> QED
    BY <2>1, <2>2, MixingEnds
<1> QED
  BY <1>8, <1>9

(* blockmix_xor_save: the same, and the block at Bin2 takes what is absorbed. *)
LEMMA BlockmixXorSaveGrows ==
  ASSUME MayMix, NEW m, Memory(m), NEW Bout, Inside(Bout, 2 * StageR),
         NEW Bin1, Own(m, Bin1, 2 * StageR), NEW Bin2, Own(m, Bin2, 2 * StageR)
  PROVE  LET s == BlockmixXorSave(m, Bin1, Bin2, Bout)
         IN  /\ s.x \in Word /\ Grown(m, s.m) /\ Own(s.m, Bout, 2 * StageR)
<1> DEFINE n == 2 * StageR
           first == [m |-> m, x |-> XorCell(m[Bin1 + LastSub], m[Bin2 + LastSub])]
           Next1(s, k) == LET y == XorCell(s.m[Bin1 + k - 1], s.m[Bin2 + k - 1])
                          IN  Absorb([s EXCEPT !.m[Bin2 + k - 1] = y], k - 1, y, Bout)
           V == Mixings(m)
           Eq(f) == f = [k \in 0 .. n |-> IF k = 0 THEN first ELSE Next1(f[k - 1], k)]
           Step == [kv \in (0 .. n - 1) \X V |-> Next1(kv[2], kv[1] + 1)]
           after == CHOOSE f : Eq(f)
<1>1. n \in Nat /\ StageR \in Nat \ {0} /\ Need \in Nat
  BY DEF MayMix, Memory
<1>2. first \in V
  <2>1. m[Bin1 + LastSub] \in Word /\ m[Bin2 + LastSub] \in Word
    BY <1>1 DEF Own, LastSub
  <2>2. XorCell(m[Bin1 + LastSub], m[Bin2 + LastSub]) \in Word
    BY <2>1, Cells
  <2> QED
    BY <2>2 DEF Mixings, Grown, Memory
<1>3. ASSUME NEW k \in 0 .. n - 1, NEW s \in V
      PROVE  /\ Next1(s, k + 1) \in V
             /\ \E t \in Mixings(s.m), y \in Word :
                   Next1(s, k + 1) = Absorb(t, k, y, Bout)
  <2>1. /\ k \in 0 .. 2 * StageR - 1 /\ (k + 1) - 1 = k
        /\ Bin1 + (k + 1) - 1 = Bin1 + k /\ Bin1 + k \in Bin1 .. Bin1 + 2 * StageR - 1
        /\ Bin2 + (k + 1) - 1 = Bin2 + k /\ Bin2 + k \in Bin2 .. Bin2 + 2 * StageR - 1
        /\ Bin1 + k \in 0 .. Need - 1 /\ Bin2 + k \in 0 .. Need - 1
    BY <1>1 DEF Own
  <2>2. Grown(m, s.m) /\ Grown(s.m, s.m) /\ s \in Mixings(s.m)
    BY DEF Mixings, Grown
  <2> DEFINE y == XorCell(s.m[Bin1 + k], s.m[Bin2 + k])
  <2>3. y \in Word
    <3>1. m[Bin1 + k] \in Word /\ m[Bin2 + k] \in Word
      BY <2>1 DEF Own
    <3>2. s.m[Bin1 + k] \in Word /\ s.m[Bin2 + k] \in Word
      BY <2>1, <2>2, <3>1 DEF Grown
    <3> QED
      BY <3>2, Cells
  <2> DEFINE next == [s.m EXCEPT ![Bin2 + k] = y]
             t == [s EXCEPT !.m[Bin2 + k] = y]
  <2>4. Next1(s, k + 1) = Absorb(t, k, y, Bout)
    BY <2>1
  <2>5. t = [m |-> next, x |-> s.x] /\ s.x \in Word
    BY DEF Mixings
  <2> HIDE DEF y, Next1, t
  <2>6. Grown(s.m, next)
    BY <2>1, <2>2, <2>3, PutGrows DEF Grown
  <2> HIDE DEF next
  <2>7. Grown(m, next) /\ next \in [0 .. Need - 1 -> Cell]
    <3>1. Grown(m, next)
      BY <2>2, <2>6, GrownIsTransitive
    <3> QED
      BY <3>1 DEF Grown, Memory
  <2>8. t \in Mixings(m) /\ t \in Mixings(s.m)
    BY <2>5, <2>6, <2>7 DEF Mixings
  <2>9. Absorb(t, k, y, Bout) \in Mixings(m)
    BY <2>1, <2>3, <2>8, AbsorbGrows
  <2> QED
    BY <2>3, <2>4, <2>8, <2>9
<1> HIDE DEF V, Next1, first
<1>4. \E f : Eq(f)
  <2>1. Step \in [(0 .. n - 1) \X V -> V]
    BY <1>3
  <2>2. PICK f \in [0 .. n -> V] : Follows(f, first, Step, n)
    <3> HIDE DEF Step, n
    <3> QED
      BY <1>1, <1>2, <2>1, FoldExists
  <2>3. ASSUME NEW k \in 0 .. n, k # 0
        PROVE  Step[<<k - 1, f[k - 1]>>] = Next1(f[k - 1], k)
    <3>1. k - 1 \in 0 .. n - 1 /\ k - 1 \in 0 .. n /\ (k - 1) + 1 = k
      BY <1>1, <2>3
    <3> QED
      BY <3>1
  <2> HIDE DEF Step
  <2>4. Eq(f)
    BY <2>2, <2>3 DEF Follows
  <2> QED
    BY <2>4
<1>5. Eq(after)
  <2> HIDE DEF Eq
  <2> QED
    BY <1>4
<1> HIDE DEF after
<1>6. after[0] \in V
  BY <1>1, <1>2, <1>5
<1>7. ASSUME NEW k \in 0 .. n - 1, after[k] \in V
      PROVE  \E s \in Mixings(after[k].m), y \in Word : after[k + 1] = Absorb(s, k, y, Bout)
  <2>1. k + 1 \in 0 .. n /\ k + 1 # 0 /\ (k + 1) - 1 = k
    BY <1>1
  <2>2. after[k + 1] = Next1(after[k], k + 1)
    BY <1>5, <2>1
  <2> QED
    BY <1>3, <1>7, <2>2
<1>8. BlockmixXorSave(m, Bin1, Bin2, Bout) = after[n]
  BY DEF BlockmixXorSave, after, Next1, first
<1>9. LET s == after[n] IN s.x \in Word /\ Grown(m, s.m) /\ Own(s.m, Bout, n)
  <2>1. after[0] \in Mixings(m)
    BY <1>6 DEF V
  <2>2. \A k \in 0 .. 2 * StageR - 1 : after[k] \in Mixings(m) =>
           \E s \in Mixings(after[k].m), y \in Word : after[k + 1] = Absorb(s, k, y, Bout)
    BY <1>7 DEF V
  <2> HIDE DEF Eq
  <2> QED
    BY <2>1, <2>2, MixingEnds
<1> QED
  BY <1>8, <1>9

-----------------------------------------------------------------------------
(* Where things are.                                                       *)

(* Of n rows of d cells, row k ends before the end.                        *)
LEMMA RowEnds ==
  ASSUME NEW d \in Nat, NEW n \in Nat, NEW k \in 0 .. n - 1
  PROVE  d * k \in Nat /\ d * k + d <= d * n
<1> DEFINE e == n - k - 1
<1>1. e \in Nat /\ n = k + 1 + e
  OBVIOUS
<1> HIDE DEF e
<1>2. d * e \in Nat /\ d * k \in Nat
  BY <1>1
<1>3. d * (k + 1 + e) = d * k + d + d * e
  BY <1>1
<1> QED
  BY <1>1, <1>2, <1>3

(* Every cell of n rows is in one of them.                                 *)
LEMMA RowOfCell ==
  ASSUME NEW n \in Nat, NEW a \in 0 .. 2 * n - 1
  PROVE  LET k == a \div 2 IN k \in 0 .. n - 1 /\ a \in 2 * k .. 2 * k + 1
OBVIOUS

(* The sizes of the regions, of any job.                                   *)
LEMMA Sizes ==
  ASSUME job \in Jobs
  PROVE  /\ R \in Nat \ {0} /\ job.N \in Nat /\ job.N >= 2 /\ job.N % 2 = 0
         /\ VSize \in Nat /\ VSize = (2 * R) * job.N
         /\ XYSize \in Nat /\ XYSize >= 4 * R /\ (~ job.simd => XYSize = 4 * R + 1)
         /\ SSize \in Nat /\ SSize % 2 = 0 /\ SSize = 2 * job.sboxRows
         /\ job.sboxRows \in Nat /\ job.sboxRows % 2 = 0
         /\ job.yescrypt => SSize >= 2 /\ job.sboxRows >= 2
         /\ job.simd => job.yescrypt /\ job.N >= 4 /\ job.sboxRows >= 4
         /\ job.yescrypt \in BOOLEAN /\ job.simd \in BOOLEAN
         /\ Need = 2 * R + VSize + XYSize + SSize /\ Need \in Nat
<1>1. /\ R \in Nat \ {0} /\ job.N \in Nat /\ job.N >= 2 /\ job.N % 2 = 0
      /\ job.sboxRows \in Nat /\ job.sboxRows % 2 = 0
      /\ job.yescrypt => job.sboxRows >= 2
      /\ job.simd => job.yescrypt /\ job.N >= 4 /\ job.sboxRows >= 4
      /\ job.yescrypt \in BOOLEAN /\ job.simd \in BOOLEAN
  BY JobsAssumption DEF R
<1>2. VSize = (2 * R) * job.N /\ VSize \in Nat
  BY <1>1 DEF VSize
<1>3. XYSize \in Nat /\ XYSize >= 4 * R /\ (~ job.simd => XYSize = 4 * R + 1)
  BY <1>1 DEF XYSize
<1>4. /\ SSize \in Nat /\ SSize % 2 = 0 /\ SSize = 2 * job.sboxRows
      /\ job.yescrypt => SSize >= 2
  BY <1>1 DEF SSize
<1>5. Need = 2 * R + VSize + XYSize + SSize
  BY DEF Need, BSize
<1>6. Need \in Nat
  BY <1>1, <1>2, <1>3, <1>4, <1>5
<1> QED
  BY <1>1, <1>2, <1>3, <1>4, <1>5, <1>6

(* The stages and the block they work on.                                  *)
LEMMA StageSizes ==
  ASSUME job \in Jobs, stage = "sbox" => job.yescrypt
  PROVE  /\ StageR \in Nat \ {0} /\ StageR <= R
         /\ stage = "sbox" => StageR = 1 /\ StageRows = job.sboxRows
         /\ stage # "sbox" => StageR = R /\ StageRows = job.N
         /\ StageRows \in Nat /\ StageRows >= 2 /\ StageRows % 2 = 0
         /\ job.simd => StageRows >= 4
BY Sizes DEF StageR, StageRows

(* Every region, every row and every buffer lies inside the scratchpad.    *)
LEMMA Regions ==
  ASSUME job \in Jobs, stage = "sbox" => job.yescrypt
  PROVE  /\ Inside(BAt, 2 * StageR) /\ Inside(BAt, 2 * R)
         /\ Inside(XAt, 2 * StageR) /\ Inside(YAt(StageR), 2 * StageR)
         /\ Inside(SAt, SSize)
         /\ ~ job.simd => ZAt(R) \in 0 .. Need - 1 /\ ZAt(1) \in 0 .. Need - 1
         /\ \A k \in 0 .. StageRows - 1 : Inside(VRow(k), 2 * StageR)
<1>1. /\ SAt = 2 * R + VSize + XYSize
      /\ XYAt \in Nat /\ XYAt + XYSize <= Need
      /\ VAt \in Nat /\ VAt + VSize <= Need
  BY Sizes DEF SAt, XYAt, VAt, BSize
<1>2. Inside(BAt, 2 * StageR) /\ Inside(BAt, 2 * R)
  <2>1. R \in Nat /\ 2 * R <= Need /\ Need \in Nat
    <3>1. R \in Nat /\ VSize \in Nat /\ XYSize \in Nat /\ SSize \in Nat
      BY Sizes
    <3>2. Need = 2 * R + VSize + XYSize + SSize
      BY Sizes
    <3> QED
      BY <3>1, <3>2
  <2>2. StageR \in Nat /\ StageR <= R
    BY StageSizes
  <2> QED
    BY <2>1, <2>2 DEF Inside, BAt
<1>3. Inside(XAt, 2 * StageR) /\ Inside(YAt(StageR), 2 * StageR)
  BY <1>1, Sizes, StageSizes DEF Inside, XAt, YAt
<1>4. Inside(SAt, SSize)
  BY <1>1, Sizes DEF Inside
<1>5. ~ job.simd => ZAt(R) \in 0 .. Need - 1 /\ ZAt(1) \in 0 .. Need - 1
  <2> SUFFICES ASSUME ~ job.simd PROVE ZAt(R) \in 0 .. Need - 1 /\ ZAt(1) \in 0 .. Need - 1
    OBVIOUS
  <2>1. XYSize = 4 * R + 1 /\ R \in Nat \ {0} /\ Need \in Nat
    BY Sizes
  <2>2. ZAt(R) = XYAt + 4 * R /\ ZAt(1) = XYAt + 4 * 1
    BY DEF ZAt
  <2> QED
    BY <1>1, <2>1, <2>2
<1>6. ASSUME NEW k \in 0 .. StageRows - 1 PROVE Inside(VRow(k), 2 * StageR)
  <2>1. CASE stage = "sbox"
    <3>1. VRow(k) = SAt + 2 * k /\ 2 * StageR = 2 /\ k \in 0 .. job.sboxRows - 1
      BY <2>1, StageSizes DEF VRow
    <3> QED
      BY <1>4, <3>1, Sizes DEF Inside
  <2>2. CASE stage # "sbox"
    <3>1. VRow(k) = VAt + (2 * R) * k /\ StageR = R /\ k \in 0 .. job.N - 1
      BY <2>2, StageSizes DEF VRow
    <3>2. (2 * R) * k \in Nat /\ (2 * R) * k + 2 * R <= (2 * R) * job.N
      <4>1. 2 * R \in Nat /\ job.N \in Nat
        BY Sizes
      <4> QED
        BY <3>1, <4>1, RowEnds
    <3>3. VSize = (2 * R) * job.N /\ VSize \in Nat /\ R \in Nat /\ Need \in Nat
      BY Sizes
    <3> DEFINE at == (2 * R) * k
               all == (2 * R) * job.N
    <3>4. /\ at \in Nat /\ at + 2 * R <= all /\ VSize = all
          /\ VRow(k) = VAt + at /\ 2 * StageR = 2 * R
      BY <3>1, <3>2, <3>3
    <3> HIDE DEF at, all
    <3> QED
      BY <1>1, <3>3, <3>4 DEF Inside
  <2> QED
    BY <2>1, <2>2
<1> QED
  BY <1>2, <1>3, <1>4, <1>5, <1>6

(* The rows of the first stage are the S-box.                              *)
LEMMA RowsAreSBox ==
  ASSUME job \in Jobs, job.yescrypt, stage = "sbox", NEW m,
         \A k \in 0 .. StageRows - 1 : Own(m, VRow(k), 2 * StageR)
  PROVE  Own(m, SAt, SSize)
<1>1. StageR = 1 /\ StageRows = job.sboxRows /\ job.sboxRows \in Nat
      /\ SSize = 2 * job.sboxRows
  BY Sizes, StageSizes
<1>2. Inside(SAt, SSize)
  BY Regions
<1>3. ASSUME NEW a \in SAt .. SAt + SSize - 1 PROVE m[a] \in Word
  <2> DEFINE c == a - SAt
             k == c \div 2
  <2>1. c \in 0 .. 2 * job.sboxRows - 1 /\ a = SAt + c /\ SAt \in Nat
    BY <1>1, <1>2 DEF Inside
  <2>2. k \in 0 .. job.sboxRows - 1 /\ c \in 2 * k .. 2 * k + 1
    BY <1>1, <2>1, RowOfCell
  <2> HIDE DEF c, k
  <2>3. VRow(k) = SAt + 2 * k
    BY <1>1 DEF VRow
  <2>4. a \in VRow(k) .. VRow(k) + 2 * StageR - 1
    BY <1>1, <2>1, <2>2, <2>3
  <2>5. Own(m, VRow(k), 2 * StageR)
    BY <1>1, <2>2
  <2> QED
    BY <2>4, <2>5 DEF Own
<1> QED
  BY <1>2, <1>3 DEF Own, Inside

-----------------------------------------------------------------------------
(* What a step keeps.                                                      *)

(* The regions depend on the job and the stage alone.                      *)
LEMMA RegionsStay ==
  ASSUME UNCHANGED job
  PROVE  /\ R' = R /\ Need' = Need /\ BAt' = BAt /\ SAt' = SAt /\ SSize' = SSize
         /\ XAt' = XAt
         /\ stage' = stage => /\ StageR' = StageR /\ StageRows' = StageRows
                              /\ YAt(StageR)' = YAt(StageR) /\ Nloop' = Nloop
                              /\ \A k : VRow(k)' = VRow(k)
<1>1. R' = R
  BY DEF R
<1>2. /\ BSize' = BSize /\ VSize' = VSize /\ XYSize' = XYSize /\ SSize' = SSize
      /\ BAt' = BAt
  BY <1>1 DEF BSize, VSize, XYSize, SSize, BAt
<1>3. /\ Need' = Need /\ SAt' = SAt /\ VAt' = VAt /\ XYAt' = XYAt
  BY <1>1, <1>2 DEF Need, SAt, VAt, XYAt
<1>4. XAt' = XAt
  BY <1>3 DEF XAt
<1>5. ASSUME stage' = stage
      PROVE  /\ StageR' = StageR /\ StageRows' = StageRows
             /\ YAt(StageR)' = YAt(StageR) /\ Nloop' = Nloop
             /\ \A k : VRow(k)' = VRow(k)
  <2>1. StageR' = StageR /\ StageRows' = StageRows
    BY <1>1, <1>5 DEF StageR, StageRows
  <2>2. YAt(StageR)' = YAt(StageR)
    BY <1>3, <2>1 DEF YAt
  <2>3. \A k : VRow(k)' = VRow(k)
    BY <1>3, <1>5, <2>1 DEF VRow
  <2>4. Nloop' = Nloop
    BY <1>5 DEF Nloop, NloopAll, NloopRw, Even
  <2> QED
    BY <2>1, <2>2, <2>3, <2>4
<1> QED
  BY <1>1, <1>2, <1>3, <1>4, <1>5

(* A step within a stage: words stay words, the new rows and the block in  *)
(* its new place hold words.                                               *)
LEMMA StayInStage ==
  ASSUME PowInv, UNCHANGED <<job, stage>>, Grown(mem, mem'), pc' # "load",
         Own(mem', ActiveAt', 2 * StageR),
         \A k \in 0 .. RowsOwn' - 1 : k \in 0 .. RowsOwn - 1 \/ Own(mem', VRow(k), 2 * StageR)
  PROVE  (mem \in [0 .. Need - 1 -> Cell])' /\ OwnInv'
<1>1. Own(mem', BAt, 2 * R)
  BY GrownOwns DEF PowInv, OwnInv
<1>2. job.yescrypt /\ stage # "sbox" => Own(mem', SAt, SSize)
  BY GrownOwns DEF PowInv, OwnInv
<1>3. \A k \in 0 .. RowsOwn' - 1 : Own(mem', VRow(k), 2 * StageR)
  BY GrownOwns DEF PowInv, OwnInv
<1>4. (mem \in [0 .. Need - 1 -> Cell])'
  BY RegionsStay DEF Grown, Memory
<1>5. Own(mem, BAt, 2 * R)'
  BY <1>1, RegionsStay DEF Own
<1>6. (job.yescrypt /\ stage # "sbox" => Own(mem, SAt, SSize))'
  BY <1>2, RegionsStay DEF Own
<1>7. (\A k \in 0 .. RowsOwn - 1 : Own(mem, VRow(k), 2 * StageR))'
  <2> SUFFICES ASSUME NEW k \in 0 .. RowsOwn' - 1
               PROVE  Own(mem, VRow(k), 2 * StageR)'
    OBVIOUS
  <2>1. Own(mem', VRow(k), 2 * StageR)
    BY <1>3
  <2>2. VRow(k)' = VRow(k) /\ StageR' = StageR /\ Need' = Need
    BY RegionsStay
  <2> QED
    BY <2>1, <2>2 DEF Own
<1>8. Own(mem, ActiveAt, 2 * StageR)'
  BY RegionsStay DEF Own
<1> QED
  BY <1>4, <1>5, <1>6, <1>7, <1>8 DEF OwnInv

(* The end of a stage: the block is in B, and the table is kept from the   *)
(* end of the stage that fills it.                                         *)
LEMMA LeaveStage ==
  ASSUME PowInv, UNCHANGED job, Grown(mem, mem'), pc' = "load", stage' # "sbox",
         job.yescrypt => Own(mem, SAt, SSize),
         stage' \in {"mixrw", "mix"} => stage # "sbox" /\ RowsOwn = job.N
  PROVE  (mem \in [0 .. Need - 1 -> Cell])' /\ OwnInv'
<1>1. Own(mem', BAt, 2 * R)
  BY GrownOwns DEF PowInv, OwnInv
<1>2. job.yescrypt => Own(mem', SAt, SSize)
  BY GrownOwns
<1>3. (mem \in [0 .. Need - 1 -> Cell])'
  BY RegionsStay DEF Grown, Memory
<1>4. Own(mem, BAt, 2 * R)'
  BY <1>1, RegionsStay DEF Own
<1>5. (job.yescrypt /\ stage # "sbox" => Own(mem, SAt, SSize))'
  BY <1>2, RegionsStay DEF Own
<1>6. (\A k \in 0 .. RowsOwn - 1 : Own(mem, VRow(k), 2 * StageR))'
  <2> SUFFICES ASSUME NEW k \in 0 .. RowsOwn' - 1
               PROVE  Own(mem, VRow(k), 2 * StageR)'
    OBVIOUS
  <2>1. RowsOwn' = IF stage' \in {"mixrw", "mix"} THEN job'.N ELSE 0
    BY DEF RowsOwn, Done
  <2>2. stage' \in {"mixrw", "mix"}
    BY <2>1
  <2>3. k \in 0 .. RowsOwn - 1
    BY <2>1, <2>2
  <2>4. Own(mem', VRow(k), 2 * StageR)
    BY <2>3, GrownOwns DEF PowInv, OwnInv
  <2>5. VRow(k)' = VRow(k) /\ StageR' = StageR /\ Need' = Need
    BY <2>2, RegionsStay DEF VRow, StageR, VAt, BSize, XYSize, R
  <2> QED
    BY <2>4, <2>5 DEF Own
<1> QED
  BY <1>3, <1>4, <1>5, <1>6 DEF OwnInv

(* From and To are the two working buffers; the next half swaps them.      *)
LEMMA Buffers ==
  ASSUME PowInv
  PROVE  /\ job \in Jobs /\ Memory(mem) /\ half \in {0, 1}
         /\ stage = "sbox" => job.yescrypt
         /\ Inside(From, 2 * StageR) /\ Inside(To, 2 * StageR)
         /\ UNCHANGED <<job, stage>> /\ half' = 1 - half => From' = To
<1>1. job \in Jobs /\ half \in {0, 1}
  BY DEF PowInv, CounterInv
<1>2. stage = "sbox" => job.yescrypt
  BY DEF PowInv, CounterInv, ScryptInv
<1>3. Memory(mem)
  BY <1>1, Sizes DEF PowInv, Memory
<1>4. Inside(From, 2 * StageR) /\ Inside(To, 2 * StageR)
  BY <1>1, <1>2, Regions DEF From, To
<1>5. UNCHANGED <<job, stage>> /\ half' = 1 - half => From' = To
  BY <1>1, RegionsStay DEF From, To
<1> QED
  BY <1>1, <1>2, <1>3, <1>4, <1>5

-----------------------------------------------------------------------------
(* scrypt.                                                                 *)

(* What the invariant says of scrypt in its two loops.                     *)
LEMMA ScryptFacts ==
  ASSUME PowInv, ~ job.yescrypt, stage # "done"
  PROVE  /\ ScryptInv /\ ~ job.simd /\ stage \in {"fill", "mix"}
         /\ StageR = R /\ R \in Nat \ {0} /\ StageRows = job.N
         /\ job.N \in Nat /\ job.N % 2 = 0
         /\ pc = "loop" => Own(mem, From, 2 * R)
         /\ pc = "loop" => RowsOwn = IF stage = "mix" THEN job.N ELSE i + half
<1>1. job \in Jobs /\ ScryptInv
  BY DEF PowInv, CounterInv
<1>2. stage \in {"fill", "mix"} /\ ~ job.simd
  BY <1>1, Sizes DEF ScryptInv
<1>3. StageR = R /\ StageRows = job.N /\ R \in Nat \ {0} /\ job.N \in Nat /\ job.N % 2 = 0
  BY <1>1, <1>2, Sizes, StageSizes
<1>4. pc = "loop" => Own(mem, From, 2 * R)
  BY <1>2, <1>3 DEF PowInv, OwnInv, ActiveAt, InSmix1
<1>5. pc = "loop" => RowsOwn = IF stage = "mix" THEN job.N ELSE i + half
  BY <1>2 DEF RowsOwn, Done, InSmix2
<1> QED
  BY <1>1, <1>2, <1>3, <1>4, <1>5

(* The mixing of scrypt writes words to Bout and Z.                        *)
LEMMA ScryptMixes ==
  ASSUME PowInv, ~ job.yescrypt, stage # "done", NEW m, Memory(m),
         NEW Bin, Own(m, Bin, 2 * R), NEW Bout, Inside(Bout, 2 * R)
  PROVE  LET after == Blockmix(m, Bin, Bout)
         IN  Grown(m, after) /\ Own(after, Bout, 2 * R)
<1>1. /\ job \in Jobs /\ job.core \in [Word -> Word] /\ R \in Nat \ {0}
      /\ ZAt(R) \in 0 .. Need - 1
  BY Buffers, ScryptFacts, ShuffledCoreIsWord, Regions
<1> QED
  BY <1>1, BlockmixSalsa8Grows DEF Blockmix

(* The words of a row that was chosen by a word.                           *)
LEMMA ChosenRow ==
  ASSUME NEW w \in Word, NEW n \in Nat \ {0}
  PROVE  w % n \in 0 .. n - 1
<1>1. w \in Nat
  BY Cells
<1> QED
  BY <1>1, Remainder

(* The actions of scrypt: the block is copied to X.                        *)
LEMMA ScryptLoadKeeps ==
  ASSUME PowInv, ~ job.yescrypt, ScryptLoad
  PROVE  PowInv'
<1> USE DEF ScryptLoad
<1>1. /\ ScryptInv /\ ~ job.simd /\ StageR = R /\ job \in Jobs /\ Memory(mem)
      /\ job.N \in Nat
  BY ScryptFacts, Buffers
<1>2. Grown(mem, mem') /\ Own(mem', XAt, 2 * R)
  <2>1. Own(mem, BAt, 2 * R) /\ Inside(XAt, 2 * R)
    BY <1>1, Regions DEF PowInv, OwnInv
  <2> QED
    BY <1>1, <2>1, CopyGrows
<1>3. half = 0 /\ i = 0
  BY <1>1 DEF ScryptInv
<1>4. ActiveAt' = XAt /\ RowsOwn' = 0
  BY <1>1, <1>3, RegionsStay DEF ActiveAt, From, InSmix1, RowsOwn, Done, InSmix2
<1>5. (mem \in [0 .. Need - 1 -> Cell])' /\ OwnInv'
  BY <1>1, <1>2, <1>4, StayInStage
<1>6. CounterInv'
  BY <1>1, <1>3 DEF PowInv, CounterInv, ScryptInv
<1> QED
  BY <1>5, <1>6 DEF PowInv

(* A row is saved and the block mixed.                                     *)
LEMMA ScryptFillKeeps ==
  ASSUME PowInv, ~ job.yescrypt, ScryptFill
  PROVE  PowInv'
<1> USE DEF ScryptFill, NextHalf
<1> DEFINE row == VRow(i + half)
           filled == Copy(mem, row, From, 2 * R)
<1>1. /\ ScryptInv /\ ~ job.simd /\ StageR = R /\ job \in Jobs /\ Memory(mem)
      /\ StageRows = job.N /\ job.N \in Nat /\ job.N % 2 = 0 /\ half \in {0, 1}
      /\ Own(mem, From, 2 * R) /\ RowsOwn = i + half
  BY ScryptFacts, Buffers
<1>2. i \in Nat /\ i % 2 = 0 /\ i < job.N /\ i + half < job.N
  BY <1>1 DEF ScryptInv
<1>3. Inside(row, 2 * R) /\ Inside(To, 2 * R)
  <2>1. i + half \in 0 .. StageRows - 1
    BY <1>1, <1>2
  <2> QED
    BY <1>1, <2>1, Regions, Buffers
<1> HIDE DEF row
<1>4. Grown(mem, filled) /\ Own(filled, row, 2 * R)
  BY <1>1, <1>3, CopyGrows
<1> HIDE DEF filled
<1>5. Own(filled, From, 2 * R) /\ Memory(filled)
  BY <1>1, <1>4, GrownOwns DEF Grown
<1>6. Grown(filled, mem') /\ Own(mem', To, 2 * R)
  <2>1. mem' = Blockmix(filled, From, To)
    BY DEF filled, row
  <2> QED
    BY <1>3, <1>5, <2>1, ScryptMixes
<1>7. Grown(mem, mem') /\ Own(mem', row, 2 * R)
  BY <1>4, <1>6, GrownIsTransitive, GrownOwns
<1>8. From' = To
  BY <1>1, Buffers
<1>9. ActiveAt' = To
  BY <1>1, <1>8 DEF ActiveAt, InSmix1
<1>10. RowsOwn' = i + half + 1
  <2>1. i' + half' = i + half + 1
    BY <1>1, <1>2
  <2> QED
    BY <1>1, <2>1 DEF RowsOwn, Done, InSmix2
<1>11. (mem \in [0 .. Need - 1 -> Cell])' /\ OwnInv'
  <2>1. ASSUME NEW k \in 0 .. RowsOwn' - 1
        PROVE  k \in 0 .. RowsOwn - 1 \/ Own(mem', VRow(k), 2 * StageR)
    <3>1. k \in 0 .. RowsOwn - 1 \/ k = i + half
      BY <1>1, <1>2, <1>10
    <3> QED
      BY <1>1, <1>7, <3>1 DEF row
  <2> QED
    BY <1>1, <1>6, <1>7, <1>9, <2>1, StayInStage
<1>12. CounterInv'
  <2>1. half' \in {0, 1} /\ i' % 2 = 0 /\ i' \in 0 .. job.N /\ (half' = 1 => i' < job.N)
    BY <1>1, <1>2
  <2> QED
    BY <1>1, <2>1 DEF PowInv, CounterInv, ScryptInv
<1> QED
  BY <1>11, <1>12 DEF PowInv

(* A row that the block names is absorbed.                                 *)
LEMMA ScryptMixKeeps ==
  ASSUME PowInv, ~ job.yescrypt, ScryptMix
  PROVE  PowInv'
<1> USE DEF ScryptMix, NextHalf
<1> DEFINE k0 == mem[From + 2 * R - 1] % job.N
           row == VRow(k0)
           added == XorInto(mem, From, row, 2 * R)
<1>1. /\ ScryptInv /\ ~ job.simd /\ StageR = R /\ job \in Jobs /\ Memory(mem)
      /\ job.N \in Nat \ {0} /\ job.N % 2 = 0 /\ half \in {0, 1} /\ R \in Nat \ {0}
      /\ Own(mem, From, 2 * R) /\ RowsOwn = job.N
  BY ScryptFacts, Buffers, Sizes
<1>2. i \in Nat /\ i % 2 = 0 /\ i < job.N /\ i + half < job.N
  BY <1>1 DEF ScryptInv
<1>3. k0 \in 0 .. job.N - 1
  <2>1. mem[From + 2 * R - 1] \in Word
    BY <1>1 DEF Own
  <2> QED
    BY <1>1, <2>1, ChosenRow
<1> HIDE DEF k0
<1>4. Own(mem, row, 2 * R)
  BY <1>1, <1>3 DEF PowInv, OwnInv
<1> HIDE DEF row
<1>5. Grown(mem, added)
  BY <1>1, <1>4, XorIntoGrows
<1> HIDE DEF added
<1>6. Own(added, From, 2 * R) /\ Memory(added) /\ Inside(To, 2 * R)
  BY <1>1, <1>5, GrownOwns, Buffers DEF Grown
<1>7. Grown(added, mem') /\ Own(mem', To, 2 * R)
  <2>1. mem' = Blockmix(added, From, To)
    BY DEF added, row, k0
  <2> QED
    BY <1>6, <2>1, ScryptMixes
<1>8. Grown(mem, mem')
  BY <1>5, <1>7, GrownIsTransitive
<1>9. ActiveAt' = To
  <2>1. From' = To
    BY <1>1, Buffers
  <2> QED
    BY <1>1, <2>1 DEF ActiveAt, InSmix1
<1>10. RowsOwn' = job.N
  BY <1>1 DEF RowsOwn
<1>11. (mem \in [0 .. Need - 1 -> Cell])' /\ OwnInv'
  BY <1>1, <1>7, <1>8, <1>9, <1>10, StayInStage
<1>12. CounterInv'
  <2>1. half' \in {0, 1} /\ i' % 2 = 0 /\ i' \in 0 .. job.N /\ (half' = 1 => i' < job.N)
    BY <1>1, <1>2
  <2> QED
    BY <1>1, <2>1 DEF PowInv, CounterInv, ScryptInv
<1> QED
  BY <1>11, <1>12 DEF PowInv

(* Every step of scrypt.                                                   *)
LEMMA ScryptKeeps ==
  ASSUME PowInv, ScryptNext
  PROVE  PowInv'
<1>1. CASE ScryptLoad
  BY <1>1, ScryptLoadKeeps DEF ScryptNext
<1>2. CASE ScryptFill
  BY <1>2, ScryptFillKeeps DEF ScryptNext
<1>3. CASE ScryptEndFill
  <2> USE <1>3 DEF ScryptEndFill
  <2>1. /\ ScryptInv /\ ~ job.simd /\ StageR = R /\ job \in Jobs /\ Memory(mem)
        /\ job.N \in Nat /\ job.N >= 2 /\ ~ job.yescrypt
        /\ Own(mem, From, 2 * R) /\ RowsOwn = i + half /\ i \in 0 .. job.N
    BY ScryptFacts, Buffers, Sizes DEF ScryptNext, ScryptInv
  <2>2. RowsOwn = job.N /\ RowsOwn' = job.N
    BY <2>1 DEF RowsOwn
  <2>3. ActiveAt' = From /\ ActiveAt = From /\ StageR' = R
    BY <2>1, RegionsStay DEF ActiveAt, InSmix1, From, StageR
  <2>4. \A k : VRow(k)' = VRow(k)
    BY <2>1, <2>3, RegionsStay DEF VRow, VAt, BSize, XYSize, R
  <2>5. (mem \in [0 .. Need - 1 -> Cell])'
    BY RegionsStay DEF PowInv
  <2>6. OwnInv'
    <3>1. Own(mem, BAt, 2 * R)'
      BY RegionsStay DEF PowInv, OwnInv, Own
    <3>2. (\A k \in 0 .. RowsOwn - 1 : Own(mem, VRow(k), 2 * StageR))'
      <4> SUFFICES ASSUME NEW k \in 0 .. RowsOwn' - 1
                   PROVE  Own(mem, VRow(k), 2 * StageR)'
        OBVIOUS
      <4>1. Own(mem, VRow(k), 2 * StageR)
        BY <2>2 DEF PowInv, OwnInv
      <4>2. VRow(k)' = VRow(k) /\ Need' = Need
        BY <2>4, RegionsStay
      <4> QED
        BY <2>1, <2>3, <4>1, <4>2 DEF Own
    <3>3. Own(mem, ActiveAt, 2 * StageR)'
      BY <2>1, <2>3, RegionsStay DEF Own
    <3> QED
      BY <2>1, <3>1, <3>2, <3>3 DEF OwnInv
  <2>7. CounterInv'
    BY <2>1 DEF PowInv, CounterInv, ScryptInv
  <2> QED
    BY <2>5, <2>6, <2>7 DEF PowInv
<1>4. CASE ScryptMix
  BY <1>4, ScryptMixKeeps DEF ScryptNext
<1>5. CASE ScryptStore
  <2> USE <1>5 DEF ScryptStore, GoTo
  <2>1. /\ StageR = R /\ job \in Jobs /\ Memory(mem) /\ ~ job.yescrypt
        /\ Own(mem, XAt, 2 * R) /\ Inside(BAt, 2 * R)
    BY ScryptFacts, Buffers, Regions DEF ScryptNext, From
  <2>2. Grown(mem, mem')
    BY <2>1, CopyGrows
  <2>3. (mem \in [0 .. Need - 1 -> Cell])' /\ OwnInv'
    BY <2>1, <2>2, LeaveStage
  <2>4. CounterInv'
    BY <2>1, Cells DEF PowInv, CounterInv
  <2> QED
    BY <2>3, <2>4 DEF PowInv
<1> QED
  BY <1>1, <1>2, <1>3, <1>4, <1>5 DEF ScryptNext

-----------------------------------------------------------------------------
(* yescrypt, what both builds share.                                       *)

(* What the invariant says of yescrypt in every stage.                     *)
LEMMA YescryptFacts ==
  ASSUME PowInv, job.yescrypt
  PROVE  /\ job \in Jobs /\ Memory(mem) /\ half \in {0, 1}
         /\ StageR \in Nat \ {0} /\ StageR <= R /\ R \in Nat \ {0}
         /\ stage = "sbox" => StageR = 1 /\ StageRows = job.sboxRows
         /\ stage # "sbox" => StageR = R /\ StageRows = job.N
         /\ StageRows \in Nat /\ StageRows >= 2 /\ StageRows % 2 = 0
         /\ SSize % 2 = 0 /\ SSize >= 2
         /\ stage # "sbox" => Own(mem, SAt, SSize)
         /\ Own(mem, BAt, 2 * R) /\ Own(mem, BAt, 2 * StageR)
         /\ pc # "load" => Own(mem, ActiveAt, 2 * StageR)
         /\ \A k \in 0 .. RowsOwn - 1 : Own(mem, VRow(k), 2 * StageR)
<1>1. job \in Jobs /\ Memory(mem) /\ half \in {0, 1}
  BY Buffers
<1>2. /\ StageR \in Nat \ {0} /\ StageR <= R /\ R \in Nat \ {0}
      /\ stage = "sbox" => StageR = 1 /\ StageRows = job.sboxRows
      /\ stage # "sbox" => StageR = R /\ StageRows = job.N
      /\ StageRows \in Nat /\ StageRows >= 2 /\ StageRows % 2 = 0
  BY <1>1, StageSizes, Sizes
<1>3. SSize % 2 = 0 /\ SSize >= 2
  BY <1>1, Sizes
<1>4. /\ stage # "sbox" => Own(mem, SAt, SSize)
      /\ Own(mem, BAt, 2 * R)
      /\ pc # "load" => Own(mem, ActiveAt, 2 * StageR)
      /\ \A k \in 0 .. RowsOwn - 1 : Own(mem, VRow(k), 2 * StageR)
  BY DEF PowInv, OwnInv
<1>5. Own(mem, BAt, 2 * StageR)
  <2>1. Inside(BAt, 2 * StageR)
    BY <1>1, Regions
  <2>2. BAt .. BAt + 2 * StageR - 1 \subseteq BAt .. BAt + 2 * R - 1
    BY <1>2, <2>1 DEF Inside
  <2> QED
    BY <1>4, <2>1, <2>2 DEF Own, Inside
<1> QED
  BY <1>1, <1>2, <1>3, <1>4, <1>5

(* The number of steps of smix2, of which its loop does two a trip.        *)
LEMMA NloopIs ==
  ASSUME job \in Jobs
  PROVE  Nloop \in Nat /\ Nloop \div 2 \in 0 .. job.N
<1>1. job.N \in Nat /\ job.N >= 2
  BY Sizes
<1> DEFINE k == (job.N + 2) \div 3
<1>2. k \in Nat /\ k <= job.N
  BY <1>1
<1> HIDE DEF k
<1>3. Even(k) \in 0 .. k /\ Even(k + 1) \in 0 .. k + 1 /\ Even(k) <= Even(k + 1)
  BY <1>2 DEF Even
<1>4. NloopRw = Even(k) /\ NloopAll = Even(k + 1)
  BY DEF NloopRw, NloopAll, k
<1>5. Nloop \in Nat /\ Nloop <= k + 1
  BY <1>2, <1>3, <1>4 DEF Nloop
<1> QED
  BY <1>1, <1>2, <1>5

(* Each stage begins with its counters at the start.                       *)
LEMMA StageBegins ==
  ASSUME PowInv, job.yescrypt, GoTo(stage'), stage' \in {"fill", "mixrw", "mix", "done"}
  PROVE  CounterInv'
<1>1. /\ job' = job /\ job \in Jobs /\ pc' = "load" /\ i' = 0 /\ half' = 0 /\ nn' = 1
      /\ j' = 0 /\ j' \in Word
  BY Cells DEF GoTo, PowInv, CounterInv
<1>2. (job.simd => SimdInv')
  BY <1>1 DEF SimdInv
<1>3. OptInv'
  BY <1>1 DEF OptInv
<1>4. Smix1Inv'
  BY <1>1, <1>2, <1>3 DEF Smix1Inv
<1>5. Smix2Inv'
  BY <1>1 DEF Smix2Inv
<1> QED
  BY <1>1, <1>4, <1>5 DEF CounterInv

(* B' <-- X at the end of a stage, once its rows are all written.          *)
LEMMA StoreKeeps ==
  ASSUME PowInv, job.yescrypt, Own(mem, XAt, 2 * StageR),
         stage \in {"sbox", "fill"} => RowsOwn = StageRows,
         mem' = CopyThrough(Unshuffle, mem, BAt, XAt, 2 * StageR),
         GoTo(stage'),
         stage' = CASE stage = "sbox" -> "fill" [] stage = "fill" -> "mixrw"
                    [] stage = "mixrw" -> "mix" [] stage = "mix" -> "done",
         stage # "done"
  PROVE  PowInv'
<1>1. job \in Jobs /\ Memory(mem) /\ Inside(BAt, 2 * StageR)
  BY YescryptFacts, Regions
<1>2. stage \in {"sbox", "fill", "mixrw", "mix"}
  BY DEF PowInv
<1>3. stage' \in {"fill", "mixrw", "mix", "done"}
      /\ (stage' \in {"mixrw", "mix"} => stage \in {"fill", "mixrw"})
  BY <1>2
<1>4. Grown(mem, mem')
  BY <1>1, CopyThroughGrows, UnshuffleIsWord
<1>5. Own(mem, SAt, SSize)
  <2>1. CASE stage = "sbox"
    BY <1>1, <2>1, YescryptFacts, RowsAreSBox
  <2>2. CASE stage # "sbox"
    BY <2>2, YescryptFacts
  <2> QED
    BY <2>1, <2>2
<1>6. stage' \in {"mixrw", "mix"} => stage # "sbox" /\ RowsOwn = job.N
  BY <1>3, YescryptFacts DEF RowsOwn
<1>7. UNCHANGED job /\ pc' = "load"
  BY DEF GoTo
<1>8. (mem \in [0 .. Need - 1 -> Cell])' /\ OwnInv'
  BY <1>3, <1>4, <1>5, <1>6, <1>7, LeaveStage
<1>9. CounterInv'
  BY <1>3, StageBegins
<1> QED
  BY <1>3, <1>8, <1>9 DEF PowInv

(* A call of smix2 that has nothing to do.                                 *)
LEMMA NothingKeeps ==
  ASSUME PowInv, InSmix2, GoTo(AfterSmix2), UNCHANGED mem
  PROVE  PowInv'
<1>1. Grown(mem, mem')
  BY Buffers DEF Grown
<1>2. stage' \in {"mix", "done"} /\ stage # "sbox" /\ job.yescrypt /\ RowsOwn = job.N
  BY DEF GoTo, AfterSmix2, InSmix2, RowsOwn
<1>3. UNCHANGED job /\ pc' = "load" /\ GoTo(stage')
  BY DEF GoTo
<1>4. (mem \in [0 .. Need - 1 -> Cell])' /\ OwnInv'
  BY <1>1, <1>2, <1>3, YescryptFacts, LeaveStage
<1>5. CounterInv'
  BY <1>2, <1>3, StageBegins
<1> QED
  BY <1>2, <1>4, <1>5 DEF PowInv

(* smix2 begins: X <-- B.                                                  *)
LEMMA LoadSmix2Keeps ==
  ASSUME PowInv, InSmix2, pc = "load", mem' = CopyThrough(Shuffle, mem, XAt, BAt, 2 * R),
         pc' = "loop", i' = Nloop \div 2, j' \in Word, UNCHANGED <<job, stage, half, nn>>
  PROVE  PowInv'
<1>1. /\ job.yescrypt /\ stage \in {"mixrw", "mix"} /\ stage # "sbox"
      /\ Smix2Inv /\ half = 0 /\ RowsOwn = job.N
  BY DEF InSmix2, PowInv, CounterInv, Smix2Inv, RowsOwn
<1>2. job \in Jobs /\ Memory(mem) /\ StageR = R /\ Own(mem, BAt, 2 * R) /\ Inside(XAt, 2 * R)
  BY <1>1, YescryptFacts, Regions
<1>3. Grown(mem, mem') /\ Own(mem', XAt, 2 * R)
  BY <1>2, CopyThroughGrows, ShuffleIsWord
<1>4. ActiveAt' = XAt /\ RowsOwn' = job.N
  BY <1>1, RegionsStay DEF ActiveAt, From, InSmix1, RowsOwn
<1>5. (mem \in [0 .. Need - 1 -> Cell])' /\ OwnInv'
  BY <1>1, <1>2, <1>3, <1>4, StayInStage
<1>6. CounterInv'
  <2>1. Nloop \div 2 \in Nat /\ Nloop' = Nloop
    BY <1>2, NloopIs, RegionsStay
  <2>2. Smix2Inv'
    BY <1>1, <2>1 DEF Smix2Inv
  <2> QED
    BY <1>1, <1>2, <2>2 DEF CounterInv
<1> QED
  BY <1>1, <1>5, <1>6 DEF PowInv

(* A half of the loop of smix2, which leaves the block in To.              *)
LEMMA LoopSmix2Keeps ==
  ASSUME PowInv, InSmix2, pc = "loop", half = 0 => i > 0,
         Grown(mem, mem'), Own(mem', To, 2 * R),
         i' = i - half, NextHalf, j' \in Word
  PROVE  PowInv'
<1>1. /\ job.yescrypt /\ stage \in {"mixrw", "mix"} /\ stage # "sbox"
      /\ Smix2Inv /\ RowsOwn = job.N
  BY DEF InSmix2, PowInv, CounterInv, RowsOwn
<1>2. /\ job \in Jobs /\ StageR = R /\ half \in {0, 1} /\ Nloop \div 2 \in Nat
      /\ Nloop' = Nloop /\ UNCHANGED <<job, stage, pc>> /\ half' = 1 - half
  BY <1>1, YescryptFacts, NloopIs, RegionsStay DEF NextHalf
<1>3. From' = To
  BY <1>2, Buffers
<1>4. ActiveAt' = To /\ RowsOwn' = job.N
  BY <1>1, <1>2, <1>3 DEF ActiveAt, InSmix1, RowsOwn
<1>5. (mem \in [0 .. Need - 1 -> Cell])' /\ OwnInv'
  BY <1>1, <1>2, <1>4, StayInStage
<1>6. CounterInv'
  <2>1. i' \in 0 .. Nloop \div 2 /\ (half' = 1 => i' > 0) /\ half' \in {0, 1}
    BY <1>1, <1>2 DEF Smix2Inv
  <2>2. Smix2Inv'
    BY <1>2, <2>1 DEF Smix2Inv
  <2> QED
    BY <1>1, <1>2, <2>1, <2>2 DEF CounterInv
<1> QED
  BY <1>1, <1>2, <1>5, <1>6 DEF PowInv

-----------------------------------------------------------------------------
(* yescrypt without SSE2.                                                  *)

(* The mixing of the portable build: with Salsa20 while the S-box is       *)
(* filled, then with pwxform.                                              *)
LEMMA OptMixes ==
  ASSUME PowInv, job.yescrypt, ~ job.simd, NEW m, Grown(mem, m),
         NEW Bin, Own(m, Bin, 2 * StageR), NEW Bout, Inside(Bout, 2 * StageR)
  PROVE  LET after == BlockmixOf(m, Bin, Bout)
         IN  Grown(mem, after) /\ Grown(m, after) /\ Own(after, Bout, 2 * StageR)
<1>1. /\ job \in Jobs /\ ShuffledCore \in [Word -> Word]
      /\ ZAt(1) \in 0 .. Need - 1 /\ Memory(m)
      /\ stage = "sbox" => StageR = 1
      /\ stage # "sbox" => StageR = R /\ R \in Nat \ {0}
  BY YescryptFacts, ShuffledCoreIsWord, Regions DEF Grown
<1> DEFINE after == BlockmixOf(m, Bin, Bout)
<1>2. CASE stage = "sbox"
  <2>1. after = BlockmixSalsa8(ShuffledCore, m, Bin, Bout, ZAt(1), 1)
    BY <1>2 DEF BlockmixOf
  <2>2. Own(m, Bin, 2 * 1) /\ Inside(Bout, 2 * 1)
    BY <1>1, <1>2
  <2> HIDE DEF after
  <2>3. Grown(m, after) /\ Own(after, Bout, 2 * 1)
    BY <1>1, <2>1, <2>2, BlockmixSalsa8Grows
  <2> QED
    BY <1>1, <1>2, <2>3, GrownIsTransitive DEF after
<1>3. CASE stage # "sbox"
  <2>1. after = BlockmixPwxform(ShuffledCore, m, Bin, Bout, SAt, SSize, R)
    BY <1>3 DEF BlockmixOf
  <2>2. Own(m, SAt, SSize) /\ SSize % 2 = 0 /\ SSize >= 2
    BY <1>3, YescryptFacts, GrownOwns
  <2>3. Own(m, Bin, 2 * R) /\ Inside(Bout, 2 * R) /\ R \in Nat \ {0}
    BY <1>1, <1>3
  <2> HIDE DEF after
  <2>4. Grown(m, after) /\ Own(after, Bout, 2 * R)
    BY <1>1, <2>1, <2>2, <2>3, BlockmixPwxformGrows
  <2> QED
    BY <1>1, <1>3, <2>4, GrownIsTransitive DEF after
<1> QED
  BY <1>2, <1>3

(* integerify of a block of words is a word.                               *)
LEMMA IntegerifyIs ==
  ASSUME NEW m, NEW at, Own(m, at, 2 * StageR), StageR \in Nat \ {0}
  PROVE  Integerify(m, at) \in Word
<1>1. at + 2 * StageR - 1 \in at .. at + 2 * StageR - 1
  BY DEF Own
<1> QED
  BY <1>1, UnshuffleIsWord DEF Own, Integerify

(* The loop of smix1 keeps in n the power of two below the row.            *)
LEMMA DoubledInTime ==
  ASSUME NEW row \in Nat, row % 2 = 0, row >= 2, NEW p, IsPower(p),
         p <= row - 1, row - 1 < 2 * p
  PROVE  LET q == IF row = P2floor(row) THEN 2 * p ELSE p
         IN  IsPower(q) /\ q <= row /\ row + 1 < 2 * q
<1>1. p \in Nat \ {0} /\ IsPower(2 * p)
  BY PowersOfTwo
<1>2. CASE row = 2 * p
  <2>1. P2floor(row) = 2 * p
    BY <1>1, <1>2, P2floorIs
  <2> QED
    BY <1>1, <1>2, <2>1
<1>3. CASE row # 2 * p
  <2>1. row < 2 * p /\ p <= row
    BY <1>1, <1>3
  <2>2. P2floor(row) = p
    BY <2>1, P2floorIs
  <2>3. row # p /\ row + 1 < 2 * p
    BY <1>1, <2>1
  <2> QED
    BY <2>1, <2>2, <2>3
<1> QED
  BY <1>2, <1>3

(* smix1 of the portable build: B is permuted into row 0.                  *)
LEMMA Smix1LoadKeeps ==
  ASSUME PowInv, job.yescrypt, ~ job.simd, Smix1Load
  PROVE  PowInv'
<1> USE DEF Smix1Load
<1>1. /\ stage \in {"sbox", "fill"} /\ half = 0 /\ i = 0 /\ Smix1Inv /\ OptInv
  BY DEF InSmix1, PowInv, CounterInv, Smix1Inv, OptInv
<1>2. job \in Jobs /\ Memory(mem) /\ Own(mem, BAt, 2 * StageR) /\ Inside(VRow(0), 2 * StageR)
  <2>1. 0 \in 0 .. StageRows - 1
    BY YescryptFacts
  <2> QED
    BY <2>1, YescryptFacts, Regions
<1>3. Grown(mem, mem') /\ Own(mem', VRow(0), 2 * StageR)
  BY <1>2, CopyThroughGrows, ShuffleIsWord
<1>4. ActiveAt' = VRow(0) /\ RowsOwn' = 1
  <2>1. Done' = 0
    BY DEF Done
  <2> QED
    BY <1>1, <2>1, RegionsStay DEF ActiveAt, RowsOwn
<1>5. (mem \in [0 .. Need - 1 -> Cell])' /\ OwnInv'
  <2>1. \A k \in 0 .. RowsOwn' - 1 : k = 0
    BY <1>4
  <2> QED
    BY <1>3, <1>4, <2>1, StayInStage
<1>6. CounterInv'
  <2>1. OptInv'
    BY <1>1 DEF OptInv
  <2>2. Smix1Inv'
    BY <1>1, <2>1 DEF Smix1Inv
  <2> QED
    BY <1>1, <2>2 DEF PowInv, CounterInv
<1> QED
  BY <1>1, <1>5, <1>6 DEF PowInv

(* The first row is saved and mixed ...                                    *)
LEMMA Smix1FirstKeeps ==
  ASSUME PowInv, job.yescrypt, ~ job.simd, Smix1First
  PROVE  PowInv'
<1> USE DEF Smix1First
<1>1. /\ stage \in {"sbox", "fill"} /\ half = 0 /\ i = 0 /\ Smix1Inv /\ OptInv
      /\ RowsOwn = 1 /\ ActiveAt = VRow(0)
  BY DEF InSmix1, PowInv, CounterInv, Smix1Inv, OptInv, RowsOwn, ActiveAt, Done
<1>2. /\ job \in Jobs /\ Memory(mem) /\ Own(mem, VRow(0), 2 * StageR)
      /\ Inside(YAt(StageR), 2 * StageR)
  BY <1>1, YescryptFacts, Regions
<1>3. Grown(mem, mem') /\ Own(mem', YAt(StageR), 2 * StageR)
  <2>1. Grown(mem, mem)
    BY <1>2 DEF Grown
  <2> QED
    BY <1>2, <2>1, OptMixes
<1>4. ActiveAt' = YAt(StageR) /\ RowsOwn' = 1
  BY <1>1, RegionsStay DEF ActiveAt, RowsOwn, From, Done
<1>5. (mem \in [0 .. Need - 1 -> Cell])' /\ OwnInv'
  BY <1>1, <1>3, <1>4, StayInStage
<1>6. CounterInv'
  <2>1. OptInv'
    BY <1>1 DEF OptInv
  <2>2. Smix1Inv'
    BY <1>1, <2>1 DEF Smix1Inv
  <2> QED
    BY <1>1, <2>2 DEF PowInv, CounterInv
<1> QED
  BY <1>1, <1>5, <1>6 DEF PowInv

(* ... and the second, which begins the loop.                              *)
LEMMA Smix1SecondKeeps ==
  ASSUME PowInv, job.yescrypt, ~ job.simd, Smix1Second
  PROVE  PowInv'
<1> USE DEF Smix1Second
<1> DEFINE filled == Copy(mem, VRow(1), YAt(StageR), 2 * StageR)
<1>1. /\ stage \in {"sbox", "fill"} /\ half = 1 /\ i = 0 /\ Smix1Inv /\ OptInv
      /\ RowsOwn = 1 /\ ActiveAt = YAt(StageR)
  BY DEF InSmix1, PowInv, CounterInv, Smix1Inv, OptInv, RowsOwn, ActiveAt, From, Done
<1>2. /\ job \in Jobs /\ Memory(mem) /\ Own(mem, YAt(StageR), 2 * StageR)
      /\ Inside(XAt, 2 * StageR) /\ Inside(VRow(1), 2 * StageR)
      /\ StageRows \in Nat /\ StageRows >= 2 /\ StageRows % 2 = 0
  <2>1. StageRows \in Nat /\ StageRows >= 2 /\ StageRows % 2 = 0 /\ 1 \in 0 .. StageRows - 1
    BY YescryptFacts
  <2> QED
    BY <1>1, <2>1, YescryptFacts, Regions
<1>3. Grown(mem, filled) /\ Own(filled, VRow(1), 2 * StageR)
  BY <1>2, CopyGrows
<1>4. Own(filled, YAt(StageR), 2 * StageR)
  <2> HIDE DEF filled
  <2> QED
    BY <1>2, <1>3, GrownOwns
<1>5. Grown(mem, mem') /\ Own(mem', XAt, 2 * StageR) /\ Own(mem', VRow(1), 2 * StageR)
  <2>1. mem' = BlockmixOf(filled, YAt(StageR), XAt)
    OBVIOUS
  <2> HIDE DEF filled, Smix1Second
  <2>2. Grown(mem, mem') /\ Grown(filled, mem') /\ Own(mem', XAt, 2 * StageR)
    BY <1>2, <1>3, <1>4, <2>1, OptMixes
  <2> QED
    BY <1>3, <2>2, GrownOwns
<1>6. ActiveAt' = XAt /\ RowsOwn' = 2
  BY <1>1, RegionsStay DEF ActiveAt, RowsOwn, From, Done, InSmix1, InSmix2
<1>7. (mem \in [0 .. Need - 1 -> Cell])' /\ OwnInv'
  <2>1. \A k \in 0 .. RowsOwn' - 1 : k \in 0 .. RowsOwn - 1 \/ k = 1
    BY <1>1, <1>6
  <2> QED
    BY <1>1, <1>5, <1>6, <2>1, StayInStage
<1>8. CounterInv'
  <2>1. OptInv'
    BY <1>1, <1>2, RegionsStay, PowersOfTwo DEF OptInv
  <2>2. Smix1Inv'
    BY <1>1, <2>1 DEF Smix1Inv
  <2> QED
    BY <1>1, <2>2 DEF PowInv, CounterInv
<1> QED
  BY <1>1, <1>7, <1>8 DEF PowInv

(* The loop: row j + i is below the number i of this row, and written.     *)
LEMMA Smix1LoopKeeps ==
  ASSUME PowInv, job.yescrypt, ~ job.simd, Smix1Loop
  PROVE  PowInv'
<1> USE DEF Smix1Loop, NextHalf
<1> DEFINE here == VRow(i + half)
           filled == Copy(mem, here, From, 2 * StageR)
           k0 == (Integerify(filled, From) % nn') + i + half - nn'
           row == VRow(k0)
           added == XorInto(filled, From, row, 2 * StageR)
<1>1. /\ stage \in {"sbox", "fill"} /\ Smix1Inv /\ OptInv /\ half \in {0, 1}
      /\ RowsOwn = i + half /\ ActiveAt = From
  BY Buffers DEF InSmix1, PowInv, CounterInv, Smix1Inv, RowsOwn, ActiveAt, Done, InSmix2
<1>2. /\ job \in Jobs /\ Memory(mem) /\ Own(mem, From, 2 * StageR)
      /\ StageRows \in Nat /\ StageRows % 2 = 0 /\ StageR \in Nat \ {0}
      /\ \A k \in 0 .. i + half - 1 : Own(mem, VRow(k), 2 * StageR)
  <2>1. pc # "load"
    OBVIOUS
  <2> HIDE DEF Smix1Loop, NextHalf
  <2>2. /\ job \in Jobs /\ Memory(mem) /\ Own(mem, From, 2 * StageR)
        /\ StageRows \in Nat /\ StageRows % 2 = 0 /\ StageR \in Nat \ {0}
    BY <1>1, <2>1, YescryptFacts
  <2>3. \A k \in 0 .. RowsOwn - 1 : Own(mem, VRow(k), 2 * StageR)
    BY YescryptFacts
  <2>4. \A k \in 0 .. i + half - 1 : Own(mem, VRow(k), 2 * StageR)
    <3> SUFFICES ASSUME NEW k \in 0 .. i + half - 1 PROVE Own(mem, VRow(k), 2 * StageR)
      OBVIOUS
    <3>1. k \in 0 .. RowsOwn - 1
      BY <1>1 DEF Smix1Inv
    <3> QED
      BY <2>3, <3>1
  <2> QED
    BY <2>2, <2>4
<1>3. /\ i \in Nat /\ i >= 2 /\ i % 2 = 0 /\ i < StageRows /\ i + half < StageRows
      /\ IsPower(nn) /\ nn \in Nat \ {0}
      /\ nn <= i - 1 + 2 * half /\ i - 1 + 2 * half < 2 * nn
  BY <1>1, <1>2, PowersOfTwo DEF OptInv
<1>4. IsPower(nn') /\ nn' \in Nat \ {0} /\ nn' <= i + half /\ i + 1 < 2 * nn'
  <2>1. CASE half = 0
    <3>1. nn' = IF i = P2floor(i) THEN 2 * nn ELSE nn
      BY <2>1
    <3>2. nn <= i - 1 /\ i - 1 < 2 * nn
      BY <1>3, <2>1
    <3>3. IsPower(nn') /\ nn' <= i /\ i + 1 < 2 * nn'
      BY <1>3, <3>1, <3>2, DoubledInTime
    <3> QED
      BY <1>3, <2>1, <3>3, PowersOfTwo
  <2>2. CASE half = 1
    BY <1>3, <2>2
  <2> QED
    BY <1>1, <2>1, <2>2
<1>5. Inside(here, 2 * StageR) /\ Inside(To, 2 * StageR)
  <2>1. i + half \in 0 .. StageRows - 1
    BY <1>1, <1>2, <1>3
  <2> QED
    BY <1>1, <1>2, <2>1, Regions, Buffers
<1> HIDE DEF here
<1>6. Grown(mem, filled) /\ Own(filled, here, 2 * StageR)
  BY <1>2, <1>5, CopyGrows
<1> HIDE DEF filled
<1>7. Own(filled, From, 2 * StageR) /\ Memory(filled)
  BY <1>2, <1>6, GrownOwns DEF Grown
<1>8. k0 \in 0 .. i + half - 1
  <2>1. Integerify(filled, From) \in Nat
    BY <1>2, <1>7, IntegerifyIs, Cells
  <2> DEFINE q == Integerify(filled, From) % nn'
  <2>2. q \in Nat /\ q < nn'
    BY <1>4, <2>1, Remainder
  <2> HIDE DEF q
  <2>3. k0 = q + i + half - nn'
    BY DEF q
  <2> QED
    BY <1>1, <1>3, <1>4, <2>2, <2>3
<1> HIDE DEF k0
<1>9. Own(filled, row, 2 * StageR)
  BY <1>2, <1>6, <1>8, GrownOwns
<1> HIDE DEF row
<1>10. Grown(filled, added)
  BY <1>7, <1>9, XorIntoGrows
<1> HIDE DEF added
<1>11. Grown(mem, added) /\ Own(added, From, 2 * StageR) /\ Own(added, here, 2 * StageR)
  BY <1>6, <1>7, <1>10, GrownIsTransitive, GrownOwns
<1>12. Grown(mem, mem') /\ Own(mem', To, 2 * StageR) /\ Own(mem', here, 2 * StageR)
  <2>1. mem' = BlockmixOf(added, From, To)
    BY DEF added, row, k0, filled, here
  <2>2. Grown(mem, mem') /\ Grown(added, mem') /\ Own(mem', To, 2 * StageR)
    BY <1>5, <1>11, <2>1, OptMixes
  <2> QED
    BY <1>11, <2>2, GrownOwns
<1>13. half' = 1 - half /\ i' = i + 2 * half /\ UNCHANGED <<job, stage, pc, j>>
  OBVIOUS
<1> USE DEF Smix1Loop
<1>14. ActiveAt' = To /\ RowsOwn' = i + half + 1
  <2>1. From' = To
    BY <1>13, Buffers
  <2>2. i' + half' = i + half + 1
    BY <1>1, <1>3, <1>13
  <2>3. pc' = "loop"
    BY <1>13
  <2> QED
    BY <1>1, <1>13, <2>1, <2>2, <2>3 DEF ActiveAt, InSmix1, InSmix2, RowsOwn, Done
<1>15. (mem \in [0 .. Need - 1 -> Cell])' /\ OwnInv'
  <2>1. ASSUME NEW k \in 0 .. RowsOwn' - 1
        PROVE  k \in 0 .. RowsOwn - 1 \/ Own(mem', VRow(k), 2 * StageR)
    <3>1. k \in 0 .. RowsOwn - 1 \/ k = i + half
      BY <1>1, <1>3, <1>14
    <3> QED
      BY <1>12, <3>1 DEF here
  <2>2. UNCHANGED <<job, stage>> /\ pc' # "load"
    BY <1>13
  <2> QED
    BY <1>12, <1>14, <2>1, <2>2, StayInStage
<1>16. CounterInv'
  <2>1. /\ i' \in Nat /\ i' % 2 = 0 /\ i' \in 2 .. StageRows /\ half' \in {0, 1}
        /\ half' = 1 => i' < StageRows
        /\ nn' <= i' - 1 + 2 * half' /\ i' - 1 + 2 * half' < 2 * nn'
    <3>1. CASE half = 0
      BY <1>2, <1>3, <1>4, <1>13, <3>1
    <3>2. CASE half = 1
      BY <1>2, <1>3, <1>4, <1>13, <3>2
    <3> QED
      BY <1>1, <3>1, <3>2
  <2>2. StageRows' = StageRows /\ pc' = "loop"
    BY <1>13, RegionsStay
  <2>3. OptInv'
    BY <1>4, <2>1, <2>2 DEF OptInv
  <2>4. Smix1Inv'
    BY <1>1, <1>4, <1>13, <2>1, <2>2, <2>3 DEF Smix1Inv
  <2> QED
    BY <1>1, <1>13, <2>1, <2>4 DEF PowInv, CounterInv
<1> QED
  BY <1>1, <1>13, <1>15, <1>16 DEF PowInv

(* smix2: every row is written, and rewritten with words.                  *)
LEMMA Smix2LoopKeeps ==
  ASSUME PowInv, job.yescrypt, ~ job.simd, Smix2Loop
  PROVE  PowInv'
<1> USE DEF Smix2Loop
<1> DEFINE k0 == Integerify(mem, From) % job.N
           row == VRow(k0)
           added == XorInto(mem, From, row, 2 * R)
           kept == IF RW THEN Copy(added, row, From, 2 * R) ELSE added
<1>1. /\ stage # "sbox" /\ ActiveAt = From /\ RowsOwn = job.N
  BY DEF InSmix1, InSmix2, RowsOwn, ActiveAt
<1>2. /\ job \in Jobs /\ Memory(mem) /\ StageR = R /\ R \in Nat \ {0}
      /\ Own(mem, From, 2 * R) /\ job.N \in Nat \ {0}
      /\ \A k \in 0 .. job.N - 1 : Own(mem, VRow(k), 2 * R)
  BY <1>1, YescryptFacts, Sizes
<1>3. Own(mem, row, 2 * R)
  <2>1. Integerify(mem, From) \in Word
    BY <1>2, IntegerifyIs
  <2>2. k0 \in 0 .. job.N - 1
    BY <1>2, <2>1, ChosenRow
  <2> QED
    BY <1>2, <2>2
<1> HIDE DEF k0, row
<1>4. Grown(mem, added)
  BY <1>2, <1>3, XorIntoGrows
<1> HIDE DEF added
<1>5. Memory(added) /\ Own(added, From, 2 * R) /\ Own(added, row, 2 * R)
  BY <1>2, <1>3, <1>4, GrownOwns DEF Grown
<1>6. Grown(added, kept)
  <2>1. Inside(row, 2 * R)
    BY <1>3 DEF Own, Inside
  <2>2. Grown(added, Copy(added, row, From, 2 * R))
    BY <1>5, <2>1, CopyGrows
  <2>3. Grown(added, added)
    BY <1>5 DEF Grown
  <2> QED
    BY <2>2, <2>3
<1> HIDE DEF kept
<1>7. Grown(mem, kept) /\ Own(kept, From, 2 * StageR)
  BY <1>2, <1>4, <1>5, <1>6, GrownIsTransitive, GrownOwns
<1>8. Grown(mem, mem') /\ Own(mem', To, 2 * R)
  <2>1. mem' = BlockmixOf(kept, From, To)
    BY DEF kept, added, row, k0
  <2>2. Inside(To, 2 * StageR)
    BY Buffers
  <2> QED
    BY <1>2, <1>7, <2>1, <2>2, OptMixes
<1>9. j' \in Word
  BY DEF PowInv, CounterInv
<1> QED
  BY <1>8, <1>9, LoopSmix2Keeps DEF NextHalf

(* Every step of the portable build.                                       *)
LEMMA YescryptKeeps ==
  ASSUME PowInv, YescryptNext
  PROVE  PowInv'
<1>1. job.yescrypt /\ ~ job.simd
  BY DEF YescryptNext
<1>2. CASE Smix1Load
  BY <1>1, <1>2, Smix1LoadKeeps
<1>3. CASE Smix1First
  BY <1>1, <1>3, Smix1FirstKeeps
<1>4. CASE Smix1Second
  BY <1>1, <1>4, Smix1SecondKeeps
<1>5. CASE Smix1Loop
  BY <1>1, <1>5, Smix1LoopKeeps
<1>6. CASE Smix1Store
  <2> USE <1>6 DEF Smix1Store
  <2>1. /\ stage \in {"sbox", "fill"} /\ OptInv /\ half = 0 /\ RowsOwn = i
        /\ ActiveAt = XAt
    BY <1>1 DEF InSmix1, PowInv, CounterInv, Smix1Inv, RowsOwn, ActiveAt, From, Done,
                InSmix2, OptInv
  <2>2. i = StageRows /\ Own(mem, XAt, 2 * StageR)
    BY <1>1, <2>1, YescryptFacts DEF OptInv
  <2>3. stage' = (IF stage = "sbox" THEN "fill" ELSE "mixrw") /\ GoTo(stage')
    BY DEF GoTo
  <2> QED
    BY <1>1, <2>1, <2>2, <2>3, StoreKeeps
<1>7. CASE Smix2Nothing
  BY <1>7, NothingKeeps DEF Smix2Nothing
<1>8. CASE Smix2Load
  <2>1. j' \in Word
    BY <1>8 DEF Smix2Load, PowInv, CounterInv
  <2> QED
    BY <1>8, <2>1, LoadSmix2Keeps DEF Smix2Load
<1>9. CASE Smix2Loop
  BY <1>1, <1>9, Smix2LoopKeeps
<1>10. CASE Smix2Store
  <2> USE <1>10 DEF Smix2Store
  <2>1. stage \in {"mixrw", "mix"} /\ ActiveAt = XAt
    BY DEF InSmix2, InSmix1, ActiveAt, From
  <2>2. Own(mem, XAt, 2 * StageR) /\ StageR = R
    BY <1>1, <2>1, YescryptFacts
  <2>3. stage' = (IF stage = "mixrw" THEN "mix" ELSE "done") /\ GoTo(stage')
    BY DEF GoTo, AfterSmix2
  <2> QED
    BY <1>1, <2>1, <2>2, <2>3, StoreKeeps
<1> QED
  BY <1>2, <1>3, <1>4, <1>5, <1>6, <1>7, <1>8, <1>9, <1>10 DEF YescryptNext

-----------------------------------------------------------------------------
(* yescrypt with SSE2.                                                     *)

(* The mixings in registers find words wherever they read.                 *)
LEMMA SimdMayMix ==
  ASSUME PowInv, job.yescrypt
  PROVE  MayMix
BY YescryptFacts DEF MayMix

(* A step of smix1 that leaves the block in the first row that was not     *)
(* written, or where it was.                                               *)
LEMMA RowKeeps ==
  ASSUME PowInv, job.simd, stage \in {"sbox", "fill"}, UNCHANGED <<job, stage>>,
         pc' \in {"first", "second", "loop", "tail"},
         NEW d \in Nat, Done' = d, d <= RowsOwn, RowsOwn \in Nat,
         Grown(mem, mem'), Own(mem', VRow(d), 2 * StageR)
  PROVE  (mem \in [0 .. Need - 1 -> Cell])' /\ OwnInv'
<1>1. job.yescrypt
  BY Buffers, Sizes
<1>2. ActiveAt' = VRow(d)
  <2>1. VRow(Done)' = VRow(d)
    BY RegionsStay DEF VRow, StageR, SAt, VAt, BSize, VSize, XYSize, R
  <2>2. ActiveAt' = VRow(Done)'
    BY <1>1 DEF ActiveAt, InSmix1
  <2> QED
    BY <2>1, <2>2
<1>3. RowsOwn' = d + 1
  BY DEF RowsOwn
<1>4. \A k \in 0 .. RowsOwn' - 1 : k \in 0 .. RowsOwn - 1 \/ k = d
  BY <1>3
<1>5. pc' # "load" /\ Own(mem', ActiveAt', 2 * StageR)
  BY <1>2
<1> QED
  BY <1>4, <1>5, StayInStage

(* The word that the SSE2 build returns as j.                              *)
LEMMA LowWordIs ==
  ASSUME NEW w \in Word
  PROVE  LowWord(w) \in Word
BY UnshuffleIsWord DEF LowWord

(* What the invariant says of the SSE2 build in smix1.                     *)
LEMMA SimdSmix1Facts ==
  ASSUME PowInv, job.simd, InSmix1
  PROVE  /\ job \in Jobs /\ job.yescrypt /\ MayMix /\ Memory(mem)
         /\ stage \in {"sbox", "fill"} /\ half \in {0, 1} /\ j \in Word
         /\ Smix1Inv /\ SimdInv /\ i \in Nat /\ nn \in Nat \ {0}
         /\ StageRows \in Nat /\ StageRows >= 4 /\ StageRows % 2 = 0
         /\ pc \notin {"load", "store"} => RowsOwn = Done + 1
         /\ \A k \in 0 .. RowsOwn - 1 : Own(mem, VRow(k), 2 * StageR)
<1>1. /\ job \in Jobs /\ job.yescrypt /\ MayMix /\ Memory(mem)
      /\ stage \in {"sbox", "fill"} /\ half \in {0, 1} /\ j \in Word
  BY SimdMayMix, Buffers DEF InSmix1, PowInv, CounterInv
<1>2. Smix1Inv
  BY <1>1 DEF PowInv, CounterInv
<1>3. SimdInv /\ i \in Nat /\ nn \in Nat \ {0}
  BY <1>2 DEF Smix1Inv
<1>4. StageRows \in Nat /\ StageRows >= 4 /\ StageRows % 2 = 0
  BY <1>1, StageSizes
<1>5. pc \notin {"load", "store"} => RowsOwn = Done + 1
  BY <1>1 DEF RowsOwn
<1>6. \A k \in 0 .. RowsOwn - 1 : Own(mem, VRow(k), 2 * StageR)
  BY <1>1, YescryptFacts
<1> QED
  BY <1>1, <1>2, <1>3, <1>4, <1>5, <1>6

(* smix1 with SSE2: B is permuted into row 0.                              *)
LEMMA SimdLoadKeeps ==
  ASSUME PowInv, job.simd, SimdLoad
  PROVE  PowInv'
<1> USE DEF SimdLoad
<1>1. /\ job \in Jobs /\ job.yescrypt /\ Memory(mem) /\ stage \in {"sbox", "fill"}
      /\ Smix1Inv /\ SimdInv /\ half = 0 /\ i = 0
      /\ Own(mem, BAt, 2 * StageR) /\ Inside(VRow(0), 2 * StageR)
  <2>1. StageRows \in Nat /\ StageRows >= 4 /\ job.yescrypt /\ job \in Jobs
    BY SimdSmix1Facts
  <2>2. 0 \in 0 .. StageRows - 1
    BY <2>1
  <2> QED
    BY <2>1, <2>2, SimdSmix1Facts, YescryptFacts, Regions DEF SimdInv
<1>2. Grown(mem, mem') /\ Own(mem', VRow(0), 2 * StageR)
  BY <1>1, CopyThroughGrows, ShuffleIsWord
<1>3. Done' = 0 /\ RowsOwn = 0
  BY <1>1 DEF Done, RowsOwn
<1>4. (mem \in [0 .. Need - 1 -> Cell])' /\ OwnInv'
  BY <1>1, <1>2, <1>3, RowKeeps
<1>5. CounterInv'
  <2>1. SimdInv'
    BY <1>1 DEF SimdInv
  <2>2. Smix1Inv'
    BY <1>1, <2>1 DEF Smix1Inv
  <2> QED
    BY <1>1, <2>2 DEF PowInv, CounterInv
<1> QED
  BY <1>1, <1>4, <1>5 DEF PowInv

(* Row 0 is mixed into row 1 ...                                           *)
LEMMA SimdFirstKeeps ==
  ASSUME PowInv, job.simd, SimdFirst
  PROVE  PowInv'
<1> USE DEF SimdFirst
<1>1. /\ job \in Jobs /\ job.yescrypt /\ Memory(mem) /\ stage \in {"sbox", "fill"}
      /\ Smix1Inv /\ SimdInv /\ half = 0 /\ i = 0 /\ MayMix
      /\ StageRows \in Nat /\ StageRows >= 4
  BY SimdSmix1Facts DEF SimdInv
<1>2. Done = 0 /\ Done' = 1 /\ RowsOwn = 1
  BY SimdSmix1Facts DEF Done
<1>3. Own(mem, VRow(0), 2 * StageR) /\ Inside(VRow(1), 2 * StageR)
  <2>1. 0 \in 0 .. RowsOwn - 1 /\ 1 \in 0 .. StageRows - 1
    BY <1>1, <1>2
  <2> QED
    BY <1>1, <2>1, SimdSmix1Facts, Regions
<1>4. Grown(mem, mem') /\ Own(mem', VRow(1), 2 * StageR)
  BY <1>1, <1>3, SimdBlockmixGrows
<1>5. (mem \in [0 .. Need - 1 -> Cell])' /\ OwnInv'
  BY <1>1, <1>2, <1>4, RowKeeps
<1>6. CounterInv'
  <2>1. SimdInv'
    BY <1>1 DEF SimdInv
  <2>2. Smix1Inv'
    BY <1>1, <2>1 DEF Smix1Inv
  <2> QED
    BY <1>1, <2>2 DEF PowInv, CounterInv
<1> QED
  BY <1>1, <1>5, <1>6 DEF PowInv

(* ... and row 1 into row 2: the loop begins with n = 2.                   *)
LEMMA SimdSecondKeeps ==
  ASSUME PowInv, job.simd, SimdSecond
  PROVE  PowInv'
<1> USE DEF SimdSecond
<1> DEFINE result == SimdBlockmix(mem, VRow(1), VRow(2))
<1>1. /\ job \in Jobs /\ job.yescrypt /\ Memory(mem) /\ stage \in {"sbox", "fill"}
      /\ Smix1Inv /\ SimdInv /\ half = 0 /\ MayMix
      /\ StageRows \in Nat /\ StageRows >= 4 /\ StageRows % 2 = 0
  BY SimdSmix1Facts DEF SimdInv
<1>2. Done = 1 /\ Done' = 2 /\ RowsOwn = 2
  BY <1>1, SimdSmix1Facts DEF Done, InSmix2
<1>3. Own(mem, VRow(1), 2 * StageR) /\ Inside(VRow(2), 2 * StageR)
  <2>1. 1 \in 0 .. RowsOwn - 1 /\ 2 \in 0 .. StageRows - 1
    BY <1>1, <1>2
  <2> QED
    BY <1>1, <2>1, SimdSmix1Facts, Regions
<1>4. result.x \in Word /\ Grown(mem, result.m) /\ Own(result.m, VRow(2), 2 * StageR)
  BY <1>1, <1>3, SimdBlockmixGrows
<1>5. mem' = result.m /\ j' = LowWord(result.x)
  BY DEF MixTo
<1> HIDE DEF result
<1>6. (mem \in [0 .. Need - 1 -> Cell])' /\ OwnInv'
  BY <1>1, <1>2, <1>4, <1>5, RowKeeps
<1>7. CounterInv'
  <2>1. IsPower(nn') /\ nn' = 2 /\ i' = 1 /\ half' = 0 /\ StageRows' = StageRows
    <3>1. 2 * 1 = 2
      OBVIOUS
    <3> QED
      BY <1>1, <3>1, PowersOfTwo, RegionsStay
  <2>2. SimdInv'
    BY <1>1, <2>1 DEF SimdInv
  <2>3. Smix1Inv'
    BY <1>1, <2>1, <2>2 DEF Smix1Inv
  <2>4. j' \in Word
    BY <1>4, <1>5, LowWordIs
  <2> QED
    BY <1>1, <2>1, <2>3, <2>4 DEF PowInv, CounterInv
<1> QED
  BY <1>1, <1>6, <1>7 DEF PowInv

(* The rows that a round of smix1 still writes are in the table.           *)
LEMMA RoundFits ==
  ASSUME StageRows \in Nat, StageRows % 2 = 0, nn \in Nat
  PROVE  /\ RowsOfRound \in Int /\ RowsOfRound <= StageRows - 1 - nn
         /\ 2 * nn < StageRows => RowsOfRound = nn
         /\ ~ (2 * nn < StageRows) => RowsOfRound = StageRows - 1 - nn
<1>1. nn < StageRows \div 2 <=> 2 * nn < StageRows
  OBVIOUS
<1>2. CASE 2 * nn < StageRows
  <2>1. RowsOfRound = nn
    BY <1>1, <1>2 DEF RowsOfRound
  <2> QED
    BY <1>2, <2>1
<1>3. CASE ~ (2 * nn < StageRows)
  <2>1. RowsOfRound = StageRows - 1 - nn
    BY <1>1, <1>3 DEF RowsOfRound
  <2> QED
    BY <1>3, <2>1
<1> QED
  BY <1>2, <1>3

(* Half of the inner loop: the row before and a chosen one give the next.  *)
LEMMA SimdLoopKeeps ==
  ASSUME PowInv, job.simd, SimdLoop
  PROVE  PowInv'
<1> USE DEF SimdLoop, NextHalf
<1> DEFINE row == nn + i + half
           wrapped == (j % nn) + i - 1 + half
           result == BlockmixXor(mem, VRow(row - 1), VRow(wrapped), VRow(row))
<1>1. /\ job \in Jobs /\ job.yescrypt /\ Memory(mem) /\ stage \in {"sbox", "fill"}
      /\ half \in {0, 1} /\ MayMix /\ i \in Nat /\ nn \in Nat \ {0}
      /\ StageRows \in Nat /\ StageRows % 2 = 0 /\ j \in Nat
      /\ Smix1Inv /\ SimdInv
  BY SimdSmix1Facts, Cells
<1>2. /\ IsPower(nn) /\ nn % 2 = 0 /\ nn <= StageRows - 2 /\ i % 2 = 1
      /\ IF half = 1 THEN i < RowsOfRound
         ELSE IF 2 * nn < StageRows THEN i <= nn + 1 ELSE i <= StageRows - 1 - nn
  BY <1>1 DEF SimdInv
<1>3. i < RowsOfRound
  BY <1>1, <1>2
<1>4. /\ RowsOfRound \in Int /\ RowsOfRound <= StageRows - 1 - nn
      /\ 2 * nn < StageRows => RowsOfRound = nn
      /\ ~ (2 * nn < StageRows) => RowsOfRound = StageRows - 1 - nn
  BY <1>1, RoundFits
<1>5. RowsOwn = row /\ Done = row - 1
  <2>1. Done = row - 1
    BY <1>1 DEF Done, InSmix2
  <2>2. RowsOwn = Done + 1
    BY SimdSmix1Facts
  <2> QED
    BY <1>1, <2>1, <2>2
<1>6. /\ row \in 0 .. StageRows - 1 /\ row - 1 \in 0 .. row - 1
      /\ wrapped \in 0 .. row - 1
  <2>1. j % nn \in Nat /\ j % nn < nn
    BY <1>1, Remainder
  <2>2. i >= 1
    BY <1>1, <1>2
  <2> QED
    BY <1>1, <1>3, <1>4, <2>1, <2>2
<1> HIDE DEF row, wrapped
<1>7. /\ Own(mem, VRow(row - 1), 2 * StageR) /\ Own(mem, VRow(wrapped), 2 * StageR)
      /\ Inside(VRow(row), 2 * StageR)
  <2>1. \A k \in 0 .. row - 1 : Own(mem, VRow(k), 2 * StageR)
    BY <1>5, SimdSmix1Facts
  <2> QED
    BY <1>1, <1>6, <2>1, Regions
<1>8. result.x \in Word /\ Grown(mem, result.m) /\ Own(result.m, VRow(row), 2 * StageR)
  BY <1>1, <1>7, BlockmixXorGrows
<1>9. mem' = result.m /\ j' = LowWord(result.x)
  BY DEF MixTo, row, wrapped
<1> HIDE DEF result
<1>10. /\ half' = 1 - half /\ i' = i + 2 * half /\ nn' = nn
       /\ UNCHANGED <<job, stage, pc>> /\ pc = "loop"
  OBVIOUS
<1> HIDE DEF SimdLoop, NextHalf
<1>11. Done' = row
  <2>1. nn' + i' + half' - 1 = row
    BY <1>1, <1>10 DEF row
  <2> QED
    BY <1>1, <1>10, <2>1 DEF Done, InSmix2
<1>12. (mem \in [0 .. Need - 1 -> Cell])' /\ OwnInv'
  <2>1. row \in Nat /\ row <= RowsOwn /\ RowsOwn \in Nat
    BY <1>5, <1>6
  <2>2. Grown(mem, mem') /\ Own(mem', VRow(row), 2 * StageR)
    BY <1>8, <1>9
  <2> QED
    BY <1>1, <1>10, <1>11, <2>1, <2>2, RowKeeps
<1>13. CounterInv'
  <2>1. RowsOfRound' = RowsOfRound /\ StageRows' = StageRows
    BY <1>10, RegionsStay DEF RowsOfRound
  <2>2. /\ i' \in Nat /\ i' % 2 = 1 /\ half' \in {0, 1}
        /\ IF half' = 1 THEN i' < RowsOfRound
           ELSE IF 2 * nn < StageRows THEN i' <= nn + 1 ELSE i' <= StageRows - 1 - nn
    <3>1. CASE half = 0
      BY <1>1, <1>2, <1>3, <1>10, <3>1
    <3>2. CASE half = 1
      <4>1. i' = i + 2 /\ half' = 0 /\ i' \in Nat /\ i' % 2 = 1
        BY <1>1, <1>2, <1>10, <3>2
      <4>2. CASE 2 * nn < StageRows
        BY <1>1, <1>3, <1>4, <4>1, <4>2
      <4>3. CASE ~ (2 * nn < StageRows)
        BY <1>1, <1>2, <1>3, <1>4, <4>1, <4>3
      <4> QED
        BY <4>1, <4>2, <4>3
    <3> QED
      BY <1>1, <3>1, <3>2
  <2>3. SimdInv'
    BY <1>2, <1>10, <2>1, <2>2 DEF SimdInv
  <2>4. Smix1Inv'
    BY <1>1, <1>10, <2>2, <2>3 DEF Smix1Inv
  <2>5. j' \in Word
    BY <1>8, <1>9, LowWordIs
  <2> QED
    BY <1>1, <1>10, <2>2, <2>4, <2>5 DEF PowInv, CounterInv
<1> QED
  BY <1>1, <1>10, <1>12, <1>13 DEF PowInv

(* The end of a round of the inner loop: n is doubled, or the tail is      *)
(* next.                                                                   *)
LEMMA SimdDoubleKeeps ==
  ASSUME PowInv, job.simd, SimdDouble
  PROVE  PowInv'
<1> USE DEF SimdDouble
<1>1. /\ job \in Jobs /\ job.yescrypt /\ Memory(mem) /\ stage \in {"sbox", "fill"}
      /\ half = 0 /\ i \in Nat /\ nn \in Nat \ {0}
      /\ StageRows \in Nat /\ StageRows % 2 = 0 /\ Smix1Inv /\ SimdInv /\ j \in Word
  BY SimdSmix1Facts
<1>2. /\ IsPower(nn) /\ nn % 2 = 0 /\ nn <= StageRows - 2 /\ i % 2 = 1
      /\ IF 2 * nn < StageRows THEN i <= nn + 1 ELSE i <= StageRows - 1 - nn
  BY <1>1 DEF SimdInv
<1>3. /\ i >= RowsOfRound
      /\ 2 * nn < StageRows => RowsOfRound = nn
      /\ ~ (2 * nn < StageRows) => RowsOfRound = StageRows - 1 - nn
  BY <1>1, RoundFits
<1>4. /\ 2 * nn < StageRows => i = nn + 1 /\ nn' = 2 * nn /\ i' = 1 /\ pc' = "loop"
      /\ ~ (2 * nn < StageRows) => nn + i = StageRows - 1 /\ nn' = nn /\ i' = i
                                   /\ pc' = "tail"
  <2>1. CASE 2 * nn < StageRows
    BY <1>1, <1>2, <1>3, <2>1
  <2>2. CASE ~ (2 * nn < StageRows)
    BY <1>1, <1>2, <1>3, <2>2
  <2> QED
    BY <2>1, <2>2
<1>5. UNCHANGED <<job, mem, stage, half, j>> /\ pc = "loop"
  OBVIOUS
<1> HIDE DEF SimdDouble
<1>6. nn' \in Nat \ {0} /\ i' \in Nat
  BY <1>1, <1>4
<1> DEFINE d == nn + i - 1
<1>7. Done = d /\ RowsOwn = d + 1 /\ ActiveAt = VRow(d)
  <2>1. Done = d
    BY <1>1, <1>5 DEF Done, InSmix2
  <2> QED
    BY <1>1, <1>5, <2>1 DEF RowsOwn, ActiveAt, InSmix1
<1>8. d \in Nat /\ Done' = d
  <2>1. half' = 0
    BY <1>1, <1>5
  <2>2. nn' + i' + half' - 1 = d /\ d \in Nat
    <3>1. CASE 2 * nn < StageRows
      BY <1>1, <1>4, <2>1, <3>1
    <3>2. CASE ~ (2 * nn < StageRows)
      BY <1>1, <1>4, <2>1, <3>2
    <3> QED
      BY <3>1, <3>2
  <2> QED
    BY <1>1, <1>4, <1>5, <2>2 DEF Done, InSmix2
<1> HIDE DEF d
<1>9. (mem \in [0 .. Need - 1 -> Cell])' /\ OwnInv'
  <2>1. Grown(mem, mem') /\ Own(mem', VRow(d), 2 * StageR)
    BY <1>1, <1>5, <1>7, YescryptFacts DEF Grown
  <2>2. pc' \in {"loop", "tail"} /\ d <= RowsOwn /\ RowsOwn \in Nat
    BY <1>4, <1>7, <1>8
  <2> QED
    BY <1>1, <1>5, <1>8, <2>1, <2>2, RowKeeps
<1>10. CounterInv'
  <2>1. StageRows' = StageRows
    BY <1>5, RegionsStay
  <2>2. IsPower(nn') /\ nn' <= StageRows - 2
    BY <1>1, <1>2, <1>4, PowersOfTwo
  <2>3. pc' = "loop" =>
          /\ nn' % 2 = 0 /\ i' % 2 = 1 /\ half' = 0
          /\ IF 2 * nn' < StageRows THEN i' <= nn' + 1 ELSE i' <= StageRows - 1 - nn'
    BY <1>1, <1>2, <1>4, <1>5
  <2>4. pc' = "tail" => nn' + i' = StageRows - 1
    BY <1>4
  <2>5. SimdInv'
    BY <1>4, <2>1, <2>2, <2>3, <2>4 DEF SimdInv
  <2>6. Smix1Inv'
    BY <1>1, <1>4, <1>5, <1>6, <2>5 DEF Smix1Inv
  <2> QED
    BY <1>1, <1>5, <2>6 DEF PowInv, CounterInv
<1> QED
  BY <1>1, <1>5, <1>9, <1>10 DEF PowInv

(* The tail: the last row, and the block that goes to XY.                  *)
LEMMA SimdTailKeeps ==
  ASSUME PowInv, job.simd, SimdTail
  PROVE  PowInv'
<1> USE DEF SimdTail
<1> DEFINE row == StageRows - 2 + half
           wrapped == (j % nn) + StageRows - 2 - nn + half
           to == IF half = 0 THEN VRow(StageRows - 1) ELSE XAt
           result == BlockmixXor(mem, VRow(row), VRow(wrapped), to)
<1>1. /\ job \in Jobs /\ job.yescrypt /\ Memory(mem) /\ stage \in {"sbox", "fill"}
      /\ half \in {0, 1} /\ MayMix /\ i \in Nat /\ nn \in Nat \ {0}
      /\ StageRows \in Nat /\ StageRows >= 4 /\ StageRows % 2 = 0 /\ j \in Nat
      /\ Smix1Inv /\ SimdInv
  BY SimdSmix1Facts, Cells
<1>2. IsPower(nn) /\ nn <= StageRows - 2 /\ nn + i = StageRows - 1
  BY <1>1 DEF SimdInv
<1>3. RowsOwn = row + 1 /\ row \in Nat
  <2>1. Done = row
    <3>1. nn + i + half - 1 = row
      BY <1>1, <1>2
    <3> QED
      BY <1>1, <3>1 DEF Done, InSmix2
  <2>2. RowsOwn = Done + 1
    BY SimdSmix1Facts
  <2> QED
    BY <1>1, <2>1, <2>2
<1>4. wrapped \in 0 .. row
  <2>1. j % nn \in Nat /\ j % nn < nn
    BY <1>1, Remainder
  <2> QED
    BY <1>1, <1>2, <2>1
<1> HIDE DEF wrapped
<1>5. Own(mem, VRow(row), 2 * StageR) /\ Own(mem, VRow(wrapped), 2 * StageR)
  <2>1. \A k \in 0 .. RowsOwn - 1 : Own(mem, VRow(k), 2 * StageR)
    BY SimdSmix1Facts
  <2>2. row \in 0 .. RowsOwn - 1 /\ wrapped \in 0 .. RowsOwn - 1
    BY <1>3, <1>4
  <2> HIDE DEF row
  <2> QED
    BY <2>1, <2>2
<1>6. Inside(to, 2 * StageR)
  <2>1. StageRows - 1 \in 0 .. StageRows - 1
    BY <1>1
  <2> QED
    BY <1>1, <2>1, Regions
<1>7. /\ mem' = result.m /\ j' = LowWord(result.x)
      /\ half' = 1 - half /\ pc' = IF half = 0 THEN "tail" ELSE "store"
      /\ UNCHANGED <<job, stage, i, nn>> /\ pc = "tail"
  BY DEF MixTo, row, wrapped, to, result
<1> HIDE DEF SimdTail, row
<1>8. result.x \in Word /\ Grown(mem, result.m) /\ Own(result.m, to, 2 * StageR)
  <2> HIDE DEF to
  <2> QED
    BY <1>1, <1>5, <1>6, BlockmixXorGrows
<1> HIDE DEF result
<1>9. Grown(mem, mem') /\ Own(mem', to, 2 * StageR)
  BY <1>7, <1>8
<1>10. (mem \in [0 .. Need - 1 -> Cell])' /\ OwnInv'
  <2>1. CASE half = 0
    <3>1. StageRows - 1 \in Nat /\ StageRows - 1 = row + 1
      BY <1>1, <2>1 DEF row
    <3>2. Done' = StageRows - 1
      <4>1. nn' + i' + half' - 1 = StageRows - 1
        BY <1>1, <1>2, <1>7, <2>1
      <4> QED
        BY <1>1, <1>7, <2>1, <4>1 DEF Done, InSmix2
    <3>3. StageRows - 1 <= RowsOwn /\ RowsOwn \in Nat
      BY <1>3, <3>1
    <3>4. Own(mem', VRow(StageRows - 1), 2 * StageR) /\ pc' = "tail"
      BY <1>7, <1>9, <2>1
    <3> QED
      BY <1>1, <1>7, <1>9, <3>1, <3>2, <3>3, <3>4, RowKeeps
  <2>2. CASE half = 1
    <3>1. pc' = "store" /\ half' = 0 /\ to = XAt
      BY <1>7, <2>2
    <3>2. ActiveAt' = XAt
      BY <1>7, <3>1, RegionsStay DEF ActiveAt, From
    <3>3. RowsOwn' = StageRows
      <4>1. StageRows' = StageRows
        BY <1>7, RegionsStay
      <4> QED
        BY <1>1, <1>7, <3>1, <4>1 DEF RowsOwn, Done
    <3>4. RowsOwn = StageRows
      BY <1>1, <1>3, <2>2 DEF row
    <3>5. \A k \in 0 .. RowsOwn' - 1 : k \in 0 .. RowsOwn - 1
      BY <3>3, <3>4
    <3>6. pc' # "load" /\ Own(mem', ActiveAt', 2 * StageR)
      BY <1>9, <3>1, <3>2
    <3> QED
      BY <1>7, <1>9, <3>5, <3>6, StayInStage
  <2> QED
    BY <1>1, <2>1, <2>2
<1>11. CounterInv'
  <2>1. /\ half' \in {0, 1} /\ (pc' = "store" => half' = 0) /\ pc' \in {"tail", "store"}
        /\ i < StageRows
    BY <1>1, <1>2, <1>7
  <2>2. StageRows' = StageRows /\ i' = i /\ nn' = nn
    BY <1>7, RegionsStay
  <2>3. SimdInv'
    BY <1>2, <2>1, <2>2 DEF SimdInv
  <2>4. Smix1Inv'
    BY <1>1, <1>7, <2>1, <2>3 DEF Smix1Inv
  <2>5. j' \in Word
    BY <1>7, <1>8, LowWordIs
  <2> QED
    BY <1>1, <1>7, <2>1, <2>4, <2>5 DEF PowInv, CounterInv
<1> QED
  BY <1>1, <1>7, <1>10, <1>11 DEF PowInv

(* smix2 with SSE2: a row is read, absorbed and rewritten.                 *)
LEMMA SimdSmix2LoopKeeps ==
  ASSUME PowInv, job.simd, SimdSmix2Loop
  PROVE  PowInv'
<1> USE DEF SimdSmix2Loop
<1> DEFINE k0 == j % job.N
           row == VRow(k0)
           result == IF RW THEN BlockmixXorSave(mem, From, row, To)
                           ELSE BlockmixXor(mem, From, row, To)
<1>1. /\ stage # "sbox" /\ ActiveAt = From /\ RowsOwn = job.N /\ job.yescrypt
      /\ j \in Word
  BY DEF InSmix1, InSmix2, RowsOwn, ActiveAt, PowInv, CounterInv
<1>2. /\ job \in Jobs /\ Memory(mem) /\ StageR = R /\ MayMix
      /\ Own(mem, From, 2 * StageR) /\ job.N \in Nat \ {0}
      /\ \A k \in 0 .. job.N - 1 : Own(mem, VRow(k), 2 * StageR)
  BY <1>1, YescryptFacts, Sizes, SimdMayMix
<1>3. Own(mem, row, 2 * StageR)
  <2>1. k0 \in 0 .. job.N - 1
    BY <1>1, <1>2, ChosenRow
  <2> QED
    BY <1>2, <2>1
<1> HIDE DEF k0, row
<1>4. Inside(To, 2 * StageR)
  BY Buffers
<1>5. result.x \in Word /\ Grown(mem, result.m) /\ Own(result.m, To, 2 * StageR)
  <2>1. CASE RW
    BY <1>2, <1>3, <1>4, <2>1, BlockmixXorSaveGrows
  <2>2. CASE ~ RW
    BY <1>2, <1>3, <1>4, <2>2, BlockmixXorGrows
  <2> QED
    BY <2>1, <2>2
<1>6. mem' = result.m /\ j' = LowWord(result.x)
  BY DEF MixTo, row, k0
<1> HIDE DEF result
<1>7. Grown(mem, mem') /\ Own(mem', To, 2 * R) /\ j' \in Word
  BY <1>2, <1>5, <1>6, LowWordIs
<1> QED
  BY <1>7, LoopSmix2Keeps DEF NextHalf

(* Every step of the SSE2 build.                                           *)
LEMMA SimdKeeps ==
  ASSUME PowInv, SimdNext
  PROVE  PowInv'
<1>1. job.simd /\ job.yescrypt
  BY DEF SimdNext
<1>2. CASE SimdLoad
  BY <1>1, <1>2, SimdLoadKeeps
<1>3. CASE SimdFirst
  BY <1>1, <1>3, SimdFirstKeeps
<1>4. CASE SimdSecond
  BY <1>1, <1>4, SimdSecondKeeps
<1>5. CASE SimdLoop
  BY <1>1, <1>5, SimdLoopKeeps
<1>6. CASE SimdDouble
  BY <1>1, <1>6, SimdDoubleKeeps
<1>7. CASE SimdTail
  BY <1>1, <1>7, SimdTailKeeps
<1>8. CASE SimdSmix1Store
  <2> USE <1>8 DEF SimdSmix1Store
  <2>1. /\ stage \in {"sbox", "fill"} /\ half = 0 /\ RowsOwn = StageRows
        /\ ActiveAt = XAt
    BY <1>1, SimdSmix1Facts DEF SimdInv, RowsOwn, ActiveAt, From, Done
  <2>2. Own(mem, XAt, 2 * StageR)
    BY <1>1, <2>1, YescryptFacts
  <2>3. stage' = (IF stage = "sbox" THEN "fill" ELSE "mixrw") /\ GoTo(stage')
    BY DEF GoTo
  <2> QED
    BY <1>1, <2>1, <2>2, <2>3, StoreKeeps
<1>9. CASE SimdSmix2Nothing
  BY <1>9, NothingKeeps DEF SimdSmix2Nothing
<1>10. CASE SimdSmix2Load
  <2> USE <1>10 DEF SimdSmix2Load
  <2>1. /\ stage # "sbox" /\ StageR = R /\ R \in Nat \ {0} /\ Memory(mem)
        /\ Own(mem, BAt, 2 * R) /\ Inside(XAt, 2 * R)
    BY <1>1, YescryptFacts, Regions DEF InSmix2
  <2>2. Own(mem', XAt, 2 * R)
    BY <2>1, CopyThroughGrows, ShuffleIsWord
  <2>3. mem'[XAt + LastSub] \in Word
    <3>1. XAt + LastSub \in XAt .. XAt + 2 * R - 1
      BY <2>1 DEF LastSub, Inside
    <3> QED
      BY <2>2, <3>1 DEF Own
  <2>4. j' \in Word
    BY <2>3, LowWordIs
  <2> QED
    BY <2>4, LoadSmix2Keeps
<1>11. CASE SimdSmix2Loop
  BY <1>1, <1>11, SimdSmix2LoopKeeps
<1>12. CASE SimdSmix2Store
  <2> USE <1>12 DEF SimdSmix2Store
  <2>1. stage \in {"mixrw", "mix"} /\ ActiveAt = XAt
    BY DEF InSmix2, InSmix1, ActiveAt, From
  <2>2. Own(mem, XAt, 2 * StageR) /\ StageR = R
    BY <1>1, <2>1, YescryptFacts
  <2>3. stage' = (IF stage = "mixrw" THEN "mix" ELSE "done") /\ GoTo(stage')
    BY DEF GoTo, AfterSmix2
  <2> QED
    BY <1>1, <2>1, <2>2, <2>3, StoreKeeps
<1> QED
  BY <1>2, <1>3, <1>4, <1>5, <1>6, <1>7, <1>8, <1>9, <1>10, <1>11, <1>12 DEF SimdNext

-----------------------------------------------------------------------------
(* The theorems.                                                           *)

(* Before the first step only B holds words.                               *)
LEMMA PowInvInit ==
  ASSUME ScratchpadInit
  PROVE  PowInv
<1> USE DEF ScratchpadInit
<1>1. job \in Jobs /\ stage \in {"sbox", "fill"} /\ (stage = "sbox" => job.yescrypt)
      /\ (job.yescrypt => stage = "sbox")
  BY Sizes
<1>2. pc = "load" /\ i = 0 /\ half = 0 /\ nn = 1 /\ j = 0
  OBVIOUS
<1>3. PICK block \in [0 .. BSize - 1 -> job.words] :
        mem = [a \in 0 .. Need - 1 |-> IF a < BSize THEN block[a] ELSE Junk]
  OBVIOUS
<1> HIDE DEF ScratchpadInit
<1>4. Inside(BAt, 2 * R) /\ job.words \subseteq Word /\ BSize = 2 * R /\ R \in Nat
      /\ BAt = 0 /\ Need \in Nat
  BY <1>1, Regions, Sizes, JobsAssumption DEF BSize, BAt
<1>5. \A a \in 0 .. BSize - 1 : block[a] \in Word
  BY <1>3, <1>4
<1>6. mem \in [0 .. Need - 1 -> Cell]
  <2>1. ASSUME NEW a \in 0 .. Need - 1
        PROVE  (IF a < BSize THEN block[a] ELSE Junk) \in Cell
    BY <1>4, <1>5, Cells
  <2> QED
    BY <1>3, <2>1
<1>7. Own(mem, BAt, 2 * R)
  <2>1. ASSUME NEW a \in BAt .. BAt + 2 * R - 1 PROVE mem[a] \in Word
    <3>1. a \in 0 .. BSize - 1 /\ a < BSize /\ a \in 0 .. Need - 1
      BY <1>4 DEF Inside
    <3> QED
      BY <1>3, <1>5, <3>1
  <2> QED
    BY <1>4, <2>1 DEF Own, Inside
<1>8. RowsOwn = 0
  BY <1>1, <1>2 DEF RowsOwn, Done
<1>9. OwnInv
  BY <1>1, <1>2, <1>7, <1>8 DEF OwnInv
<1>10. CounterInv
  <2>1. j \in Word
    BY <1>2, Cells
  <2>2. ScryptInv \/ job.yescrypt
    BY <1>1, <1>2 DEF ScryptInv
  <2>3. Smix1Inv
    BY <1>2 DEF Smix1Inv, SimdInv, OptInv
  <2> QED
    BY <1>1, <1>2, <2>1, <2>2, <2>3 DEF CounterInv
<1> QED
  BY <1>1, <1>6, <1>9, <1>10 DEF PowInv

(* A stutter changes nothing.                                              *)
LEMMA PowInvStays ==
  ASSUME PowInv, UNCHANGED vars
  PROVE  PowInv'
<1>1. UNCHANGED <<job, mem, stage, pc, i, half, nn, j>>
  BY DEF vars
<1>2. /\ R' = R /\ Need' = Need /\ BAt' = BAt /\ SAt' = SAt /\ SSize' = SSize
      /\ XAt' = XAt /\ StageR' = StageR /\ StageRows' = StageRows
      /\ YAt(StageR)' = YAt(StageR) /\ Nloop' = Nloop
      /\ \A k : VRow(k)' = VRow(k)
  BY <1>1, RegionsStay
<1>3. InSmix1' = InSmix1 /\ InSmix2' = InSmix2
  BY <1>1 DEF InSmix1, InSmix2
<1>4. Done' = Done
  BY <1>1, <1>2, <1>3 DEF Done
<1>5. RowsOwn' = RowsOwn /\ From' = From
  BY <1>1, <1>2, <1>4 DEF RowsOwn, From
<1>6. ActiveAt' = ActiveAt
  <2>1. VRow(Done)' = VRow(Done)
    BY <1>1, <1>2, <1>4, RegionsStay DEF VRow, VAt, BSize, XYSize, R
  <2> QED
    BY <1>1, <1>3, <1>5, <2>1 DEF ActiveAt
<1>7. (mem \in [0 .. Need - 1 -> Cell])'
  BY <1>1, <1>2 DEF PowInv, Cell
<1>8. ASSUME NEW at, NEW n, Own(mem, at, n)
      PROVE  /\ at \in Nat /\ n \in Nat /\ at + n <= Need'
             /\ \A a \in at .. at + n - 1 : mem'[a] \in Word
  BY <1>1, <1>2, <1>8 DEF Own
<1>9. OwnInv'
  <2>1. Own(mem, BAt, 2 * R)'
    BY <1>2, <1>8 DEF PowInv, OwnInv, Own
  <2>2. (job.yescrypt /\ stage # "sbox" => Own(mem, SAt, SSize))'
    BY <1>1, <1>2, <1>8 DEF PowInv, OwnInv, Own
  <2>3. (\A k \in 0 .. RowsOwn - 1 : Own(mem, VRow(k), 2 * StageR))'
    <3> SUFFICES ASSUME NEW k \in 0 .. RowsOwn' - 1
                 PROVE  Own(mem, VRow(k), 2 * StageR)'
      OBVIOUS
    <3>1. Own(mem, VRow(k), 2 * StageR)
      BY <1>5 DEF PowInv, OwnInv
    <3>2. VRow(k)' = VRow(k)
      BY <1>2
    <3> QED
      BY <1>1, <1>2, <3>1, <3>2 DEF Own
  <2>4. (pc # "load" => Own(mem, ActiveAt, 2 * StageR))'
    <3> SUFFICES ASSUME pc # "load" PROVE Own(mem, ActiveAt, 2 * StageR)'
      BY <1>1
    <3>1. Own(mem, ActiveAt, 2 * StageR)
      BY DEF PowInv, OwnInv
    <3> QED
      BY <1>1, <1>2, <1>6, <3>1 DEF Own
  <2> QED
    BY <2>1, <2>2, <2>3, <2>4 DEF OwnInv
<1>10. CounterInv'
  <2>1. ScryptInv' = ScryptInv /\ OptInv' = OptInv
    BY <1>1, <1>2 DEF ScryptInv, OptInv
  <2>2. SimdInv' = SimdInv
    BY <1>1, <1>2 DEF SimdInv, RowsOfRound
  <2>3. Smix1Inv' = Smix1Inv /\ Smix2Inv' = Smix2Inv
    BY <1>1, <1>2, <2>1, <2>2 DEF Smix1Inv, Smix2Inv
  <2> QED
    BY <1>1, <2>1, <2>3 DEF PowInv, CounterInv
<1> QED
  BY <1>1, <1>7, <1>9, <1>10 DEF PowInv

(* Every step of the three programs keeps the invariant.                   *)
LEMMA PowInvNext ==
  PowInv /\ [PowNext]_vars => PowInv'
<1> SUFFICES ASSUME PowInv, [PowNext]_vars PROVE PowInv'
  OBVIOUS
<1>1. CASE ScryptNext
  BY <1>1, ScryptKeeps
<1>2. CASE YescryptNext
  BY <1>2, YescryptKeeps
<1>3. CASE SimdNext
  BY <1>3, SimdKeeps
<1>4. CASE UNCHANGED vars
  BY <1>4, PowInvStays
<1> QED
  BY <1>1, <1>2, <1>3, <1>4 DEF PowNext

(* The scratchpad: what is written, and where each of the three programs   *)
(* is, of any hash and at every step.                                      *)
THEOREM PowInvariant == PowSpec => []PowInv
<1>1. ScratchpadInit => PowInv
  BY PowInvInit
<1> QED
  BY <1>1, PowInvNext, PTL DEF PowSpec

(* The invariant bounds the counters as PowTypeOK does.                    *)
LEMMA PowTypeFollows ==
  ASSUME PowInv
  PROVE  PowTypeOK
<1>1. /\ job \in Jobs /\ half \in {0, 1} /\ j \in Word
      /\ StageRows \in Nat /\ StageRows >= 2 /\ StageRows % 2 = 0
      /\ job.simd => job.yescrypt
  <2>1. job \in Jobs /\ half \in {0, 1} /\ j \in Word /\ (stage = "sbox" => job.yescrypt)
    BY Buffers DEF PowInv, CounterInv
  <2> QED
    BY <2>1, StageSizes, Sizes
<1>2. CASE stage = "done"
  <2>1. pc = "load" /\ i = 0
    BY <1>2 DEF PowInv, CounterInv
  <2> QED
    BY <1>1, <2>1 DEF PowInv, PowTypeOK
<1>3. CASE stage # "done" /\ ~ job.yescrypt
  <2>1. ScryptInv /\ StageRows = job.N
    BY <1>3, ScryptFacts
  <2>2. pc \in {"load", "loop"} /\ i \in 0 .. StageRows
    BY <1>1, <2>1 DEF ScryptInv
  <2>3. ~ InSmix1
    BY <1>3 DEF InSmix1
  <2> QED
    BY <1>1, <2>2, <2>3 DEF PowInv, PowTypeOK
<1>4. CASE stage \in {"mixrw", "mix"} /\ job.yescrypt
  <2>1. Smix2Inv /\ Nloop \div 2 \in 0 .. job.N /\ StageRows = job.N
    BY <1>1, <1>4, NloopIs, StageSizes DEF PowInv, CounterInv
  <2>2. pc \in {"load", "loop"} /\ i \in 0 .. StageRows
    BY <1>1, <2>1 DEF Smix2Inv
  <2>3. ~ InSmix1
    BY <1>4 DEF InSmix1
  <2> QED
    BY <1>1, <2>2, <2>3 DEF PowInv, PowTypeOK
<1>5. CASE stage \in {"sbox", "fill"} /\ job.yescrypt
  <2>1. Smix1Inv /\ i \in Nat /\ nn \in Nat \ {0}
    BY <1>5 DEF PowInv, CounterInv, Smix1Inv
  <2>2. CASE job.simd
    <3>1. SimdInv /\ pc \in {"load", "first", "second", "loop", "tail", "store"}
      BY <2>1, <2>2 DEF Smix1Inv
    <3>2. /\ RowsOfRound \in Int /\ RowsOfRound <= StageRows - 1 - nn
          /\ 2 * nn < StageRows => RowsOfRound = nn
          /\ ~ (2 * nn < StageRows) => RowsOfRound = StageRows - 1 - nn
      BY <1>1, <2>1, RoundFits
    <3>3. i \in 0 .. StageRows
      <4>1. CASE pc = "loop"
        BY <1>1, <2>1, <3>1, <3>2, <4>1 DEF SimdInv
      <4>2. CASE pc # "loop"
        BY <1>1, <2>1, <3>1, <4>2 DEF SimdInv
      <4> QED
        BY <4>1, <4>2
    <3>4. ASSUME pc = "loop", half = 1 PROVE nn = P2floor(Done)
      <4>1. IsPower(nn) /\ i < RowsOfRound
        BY <3>1, <3>4 DEF SimdInv
      <4>2. Done = nn + i
        <5>1. nn + i + half - 1 = nn + i
          BY <2>1, <3>4
        <5> QED
          BY <1>5, <2>2, <3>4, <5>1 DEF Done, InSmix2
      <4>3. nn + i \in Nat /\ nn <= nn + i /\ nn + i < 2 * nn
        BY <1>1, <2>1, <3>2, <4>1
      <4> QED
        BY <4>1, <4>2, <4>3, P2floorIs
    <3> QED
      BY <1>1, <1>5, <3>1, <3>3, <3>4 DEF PowInv, PowTypeOK
  <2>3. CASE ~ job.simd
    <3>1. OptInv /\ pc \in {"load", "first", "second", "loop"}
      BY <2>1, <2>3 DEF Smix1Inv
    <3>2. i \in 0 .. StageRows
      BY <1>1, <3>1 DEF OptInv
    <3>3. ASSUME pc = "loop", half = 1 PROVE nn = P2floor(Done)
      <4>1. IsPower(nn) /\ nn <= i + 1 /\ i + 1 < 2 * nn
        BY <2>1, <3>1, <3>3 DEF OptInv
      <4>2. Done = i + 1
        BY <1>5, <2>3, <3>3 DEF Done, InSmix2
      <4> QED
        BY <2>1, <4>1, <4>2, P2floorIs
    <3> QED
      BY <1>1, <1>5, <3>1, <3>2, <3>3 DEF PowInv, PowTypeOK
  <2> QED
    BY <1>1, <1>5, <2>2, <2>3, Sizes
<1> QED
  BY <1>2, <1>3, <1>4, <1>5 DEF PowInv

(* No cell of the block that is being mixed is junk.                       *)
LEMMA OwnDataFollows ==
  ASSUME PowInv
  PROVE  OwnDataOnly
<1> DEFINE width == 2 * StageR
<1>1. /\ job \in Jobs /\ R \in Nat \ {0} /\ StageR \in Nat \ {0} /\ StageR <= R
      /\ Own(mem, BAt, 2 * R) /\ (pc # "load" => Own(mem, ActiveAt, width))
      /\ job.yescrypt \in BOOLEAN
  <2>1. job \in Jobs /\ (stage = "sbox" => job.yescrypt)
    BY Buffers
  <2> QED
    BY <2>1, Sizes, StageSizes DEF PowInv, OwnInv
<1>2. ASSUME NEW k \in 0 .. 2 * R - 1 PROVE Block[k] \in Word
  <2>1. mem[BAt + k] \in Word
    <3>1. BAt + k \in BAt .. BAt + 2 * R - 1
      BY <1>1 DEF Own
    <3> QED
      BY <1>1, <3>1 DEF Own
  <2>2. CASE pc = "load" \/ k >= width
    <3>1. Block[k] = mem[BAt + k]
      BY <2>2 DEF Block
    <3> QED
      BY <2>1, <3>1
  <2>3. CASE ~ (pc = "load" \/ k >= width)
    <3> DEFINE b == Read(mem, ActiveAt, width)
    <3>1. k \in 0 .. width - 1
      BY <1>1, <2>3
    <3>2. mem[ActiveAt + k] \in Word
      <4>1. ActiveAt + k \in ActiveAt .. ActiveAt + width - 1
        BY <1>1, <2>3, <3>1 DEF Own
      <4> QED
        BY <1>1, <2>3, <4>1 DEF Own
    <3>3. b[k] = mem[ActiveAt + k] /\ k \in DOMAIN b
      BY <3>1 DEF Read
    <3>4. Block[k] = Plain(b)[k]
      BY <2>3 DEF Block
    <3> HIDE DEF b
    <3>5. Plain(b)[k] = IF job.yescrypt THEN Lift(Unshuffle, b[k]) ELSE b[k]
      BY <3>3 DEF Plain
    <3>6. Lift(Unshuffle, b[k]) \in Word
      BY <3>2, <3>3, LiftIsWord, UnshuffleIsWord
    <3> QED
      BY <3>2, <3>3, <3>4, <3>5, <3>6
  <2> QED
    BY <2>2, <2>3
<1>3. DOMAIN Block = 0 .. 2 * R - 1
  BY DEF Block
<1> QED
  BY <1>2, <1>3, Cells DEF OwnDataOnly

(* PowTypeOK: the scratchpad keeps its size and its cells, the counters    *)
(* keep their bounds, and in the loop of smix1 n is the largest power of   *)
(* two that is no greater than the number of the row, with and without     *)
(* SSE2.                                                                   *)
THEOREM PowTypeCorrect == PowSpec => []PowTypeOK
BY PowInvariant, PowTypeFollows, PTL

(* OwnDataOnly: at every step of scrypt and of both builds of yescrypt the *)
(* block is made of what this hash has written; neither what the           *)
(* allocation gave nor what the last hash left is ever mixed in.           *)
THEOREM PowOwnData == PowSpec => []OwnDataOnly
BY PowInvariant, OwnDataFollows, PTL

-----------------------------------------------------------------------------
(* The mixing of scrypt against the reference.                             *)

(* A chain over a block: what is absorbed and hashed, one sub-block after  *)
(* the other, from a word to begin with.                                   *)
Chain(H, b, n) ==
  {c \in [0 .. n -> Word] :
     /\ c[0] = b[n - 1]
     /\ \A k \in 0 .. n - 1 : c[k + 1] = H[<<k, XorCell(c[k], b[k])>>]}

(* There is one, whatever function of words is applied.                    *)
LEMMA ChainExists ==
  ASSUME NEW n \in Nat \ {0}, NEW b \in [0 .. n - 1 -> Word],
         NEW H \in [(0 .. n - 1) \X Word -> Word]
  PROVE  \E c : c \in Chain(H, b, n)
<1> DEFINE Step == [kv \in (0 .. n - 1) \X Word |-> H[<<kv[1], XorCell(kv[2], b[kv[1]])>>]]
<1>1. ASSUME NEW k \in 0 .. n - 1, NEW w \in Word
      PROVE  Step[<<k, w>>] = H[<<k, XorCell(w, b[k])>>] /\ Step[<<k, w>>] \in Word
  <2>1. XorCell(w, b[k]) \in Word
    BY Cells
  <2> QED
    BY <2>1
<1>2. Step \in [(0 .. n - 1) \X Word -> Word]
  <2> SUFFICES ASSUME NEW kv \in (0 .. n - 1) \X Word
               PROVE  H[<<kv[1], XorCell(kv[2], b[kv[1]])>>] \in Word
    OBVIOUS
  <2>1. kv[1] \in 0 .. n - 1 /\ kv[2] \in Word
    OBVIOUS
  <2>2. XorCell(kv[2], b[kv[1]]) \in Word
    BY <2>1, Cells
  <2> QED
    BY <2>1, <2>2
<1>3. b[n - 1] \in Word
  OBVIOUS
<1> HIDE DEF Step
<1>4. PICK c \in [0 .. n -> Word] : Follows(c, b[n - 1], Step, n)
  BY <1>2, <1>3, FoldExists
<1>5. ASSUME NEW k \in 0 .. n - 1
      PROVE  c[k + 1] = H[<<k, XorCell(c[k], b[k])>>]
  <2>1. k + 1 \in 0 .. n /\ k + 1 # 0 /\ (k + 1) - 1 = k /\ k \in 0 .. n
    OBVIOUS
  <2>2. c[k + 1] = Step[<<k, c[k]>>]
    BY <1>4, <2>1 DEF Follows
  <2> QED
    BY <1>1, <2>1, <2>2
<1>6. c[0] = b[n - 1]
  BY <1>4 DEF Follows
<1> QED
  BY <1>5, <1>6 DEF Chain

(* ROMix has its own copies of the operators on blocks: they are the same. *)
LEMMA AbstractSame ==
  /\ Abstract!Word = Word /\ Abstract!Junk = Junk
  /\ \A a, b : Abstract!XorCell(a, b) = XorCell(a, b)
  /\ \A f, a : Abstract!Lift(f, a) = Lift(f, a)
  /\ \A a, b : Abstract!XorBlock(a, b) = XorBlock(a, b)
  /\ \A a : Abstract!P2floor(a) = P2floor(a)
  /\ \A H, b, r : Abstract!SpecBlockMix(H, b, r) = SpecBlockMix(H, b, r)
<1>1. Abstract!Power2 = Power2
  BY DEF Abstract!Power2, Power2
<1>2. Abstract!Word = Word /\ Abstract!Junk = Junk
  BY <1>1 DEF Abstract!Word, Word, Abstract!Junk, Junk
<1>3. \A a, b : Abstract!XorCell(a, b) = XorCell(a, b)
  BY <1>2 DEF Abstract!XorCell, XorCell
<1>4. \A f, a : Abstract!Lift(f, a) = Lift(f, a)
  BY <1>2 DEF Abstract!Lift, Lift
<1>5. \A a, b : Abstract!XorBlock(a, b) = XorBlock(a, b)
  BY <1>3 DEF Abstract!XorBlock, XorBlock
<1>6. \A a : Abstract!P2floor(a) = P2floor(a)
  BY <1>1 DEF Abstract!P2floor, P2floor
<1>7. \A H, b, r : Abstract!SpecBlockMix(H, b, r) = SpecBlockMix(H, b, r)
  BY DEF Abstract!SpecBlockMix, SpecBlockMix, Abstract!Lift, Lift, Abstract!XorCell, XorCell,
         Abstract!Junk, Junk, Abstract!Power2, Power2
<1> QED
  BY <1>2, <1>3, <1>4, <1>5, <1>6, <1>7

(* Every link hashed by the core.                                          *)
ByCore(core, n) == [kw \in (0 .. n - 1) \X Word |-> core[kw[2]]]

(* The mixing of the reference is read off that chain ...                  *)
LEMMA SpecBlockMixIs ==
  ASSUME NEW r \in Nat \ {0}, NEW core \in [Word -> Word], NEW b \in [0 .. 2 * r - 1 -> Word],
         NEW c, c \in Chain(ByCore(core, 2 * r), b, 2 * r)
  PROVE  SpecBlockMix(core, b, r) =
           [k \in 0 .. 2 * r - 1 |-> IF k < r THEN c[2 * k + 1] ELSE c[2 * (k - r) + 2]]
<1> DEFINE Eq(f) == f = [k \in 0 .. 2 * r - 1 |->
                           Lift(core, XorCell(IF k = 0 THEN b[2 * r - 1] ELSE f[k - 1], b[k]))]
           Y == CHOOSE f : Eq(f)
           g == [k \in 0 .. 2 * r - 1 |-> c[k + 1]]
           T == {k \in 0 .. 2 * r - 1 : Y[k] = c[k + 1]}
<1>1. ASSUME NEW k \in 0 .. 2 * r - 1
      PROVE  /\ c[k] \in Word /\ c[k + 1] = Lift(core, XorCell(c[k], b[k]))
             /\ k # 0 => k - 1 \in 0 .. 2 * r - 1 /\ (k - 1) + 1 = k
  <2>1. k \in 0 .. 2 * r /\ (k # 0 => k - 1 \in 0 .. 2 * r - 1 /\ (k - 1) + 1 = k)
    OBVIOUS
  <2>2. c[k] \in Word /\ c[k + 1] = ByCore(core, 2 * r)[<<k, XorCell(c[k], b[k])>>]
    BY <2>1 DEF Chain
  <2>3. XorCell(c[k], b[k]) \in Word
    BY <2>2, Cells
  <2>4. Lift(core, XorCell(c[k], b[k])) = core[XorCell(c[k], b[k])]
    BY <2>3, Cells DEF Lift
  <2> QED
    BY <2>1, <2>2, <2>3, <2>4 DEF ByCore
<1>2. c[0] = b[2 * r - 1]
  BY DEF Chain
<1>3. \A k \in 0 .. 2 * r - 1 : IF k = 0 THEN c[k] = b[2 * r - 1] ELSE c[k] = g[k - 1]
  BY <1>1, <1>2
<1>4. Eq(g)
  <2>1. ASSUME NEW k \in 0 .. 2 * r - 1
        PROVE  g[k] = Lift(core, XorCell(IF k = 0 THEN b[2 * r - 1] ELSE g[k - 1], b[k]))
    <3>1. (IF k = 0 THEN b[2 * r - 1] ELSE g[k - 1]) = c[k]
      BY <1>3
    <3> QED
      BY <1>1, <3>1
  <2>2. g = [k \in 0 .. 2 * r - 1 |-> g[k]]
    OBVIOUS
  <2> HIDE DEF g
  <2> QED
    BY <2>1, <2>2
<1>5. Eq(Y)
  <2> HIDE DEF Eq
  <2> QED
    BY <1>4
<1> HIDE DEF Y
<1>6. 0 \in T
  <2>1. Y[0] = Lift(core, XorCell(b[2 * r - 1], b[0]))
    BY <1>5
  <2> QED
    BY <1>1, <1>2, <2>1
<1>7. ASSUME NEW k \in 0 .. (2 * r - 1) - 1, k \in T PROVE k + 1 \in T
  <2>1. k + 1 \in 0 .. 2 * r - 1 /\ k + 1 # 0 /\ (k + 1) - 1 = k
    OBVIOUS
  <2>2. Y[k + 1] = Lift(core, XorCell(Y[k], b[k + 1]))
    BY <1>5, <2>1
  <2> QED
    BY <1>1, <1>7, <2>1, <2>2
<1>8. ASSUME NEW k \in 0 .. 2 * r - 1 PROVE Y[k] = c[k + 1]
  <2>1. k \in T
    <3>1. 0 \in T /\ \A q \in 0 .. k - 1 : q \in T => q + 1 \in T
      BY <1>6, <1>7
    <3> HIDE DEF T
    <3> QED
      BY <3>1, FoldInduction
  <2> QED
    BY <2>1
<1>9. SpecBlockMix(core, b, r) =
        [k \in 0 .. 2 * r - 1 |-> IF k < r THEN Y[2 * k] ELSE Y[2 * (k - r) + 1]]
  BY DEF SpecBlockMix, Y
<1>10. \A k \in 0 .. 2 * r - 1 :
         (IF k < r THEN Y[2 * k] ELSE Y[2 * (k - r) + 1])
           = (IF k < r THEN c[2 * k + 1] ELSE c[2 * (k - r) + 2])
  <2> SUFFICES ASSUME NEW k \in 0 .. 2 * r - 1
               PROVE  (IF k < r THEN Y[2 * k] ELSE Y[2 * (k - r) + 1])
                        = (IF k < r THEN c[2 * k + 1] ELSE c[2 * (k - r) + 2])
    OBVIOUS
  <2>1. CASE k < r
    <3>1. 2 * k \in 0 .. 2 * r - 1
      BY <2>1
    <3> QED
      BY <1>8, <2>1, <3>1
  <2>2. CASE ~ (k < r)
    <3>1. 2 * (k - r) + 1 \in 0 .. 2 * r - 1 /\ (2 * (k - r) + 1) + 1 = 2 * (k - r) + 2
      BY <2>2
    <3>2. Y[2 * (k - r) + 1] = c[(2 * (k - r) + 1) + 1]
      BY <1>8, <3>1
    <3> QED
      BY <2>2, <3>1, <3>2
  <2> QED
    BY <2>1, <2>2
<1> QED
  BY <1>9, <1>10

(* Two ranges of cells that do not meet.                                   *)
Apart(a, n, b, k) == a + n <= b \/ b + k <= a

(* ... and so is blockmix_salsa8, two links a trip.                        *)
LEMMA BlockmixSalsa8Computes ==
  ASSUME NEW core \in [Word -> Word], NEW m, Memory(m), NEW r \in Nat \ {0},
         NEW Bin, Own(m, Bin, 2 * r), NEW Bout, Inside(Bout, 2 * r),
         Apart(Bin, 2 * r, Bout, 2 * r),
         NEW X \in 0 .. Need - 1, X \notin Bin .. Bin + 2 * r - 1,
         X \notin Bout .. Bout + 2 * r - 1
  PROVE  LET after == BlockmixSalsa8(core, m, Bin, Bout, X, r)
         IN  /\ Read(after, Bout, 2 * r) = SpecBlockMix(core, Read(m, Bin, 2 * r), r)
             /\ \A a \in 0 .. Need - 1 :
                   a = X \/ a \in Bout .. Bout + 2 * r - 1 \/ after[a] = m[a]
<1> DEFINE b == Read(m, Bin, 2 * r)
           Absorb1(mm, k) == [mm EXCEPT ![X] = Lift(core, XorCell(mm[X], mm[Bin + k]))]
           Emit(mm, k) == [mm EXCEPT ![Bout + k] = mm[X]]
           Pair(mm, k) == Emit(Absorb1(Emit(Absorb1(mm, 2 * k), k), 2 * k + 1), k + r)
           first == [m EXCEPT ![X] = m[Bin + 2 * r - 1]]
           Eq(f) == f = [k \in 0 .. r |-> IF k = 0 THEN first ELSE Pair(f[k - 1], k - 1)]
           after == CHOOSE f : Eq(f)
<1>1. /\ Bin \in Nat /\ Bout \in Nat /\ Need \in Nat /\ Bin + 2 * r <= Need
      /\ Bout + 2 * r <= Need /\ m \in [0 .. Need - 1 -> Cell]
      /\ \A k \in 0 .. 2 * r - 1 : m[Bin + k] \in Word
  BY DEF Own, Inside, Memory
<1>2. b \in [0 .. 2 * r - 1 -> Word] /\ \A k \in 0 .. 2 * r - 1 : b[k] = m[Bin + k]
  BY <1>1 DEF Read
<1> HIDE DEF b
<1>3. PICK c : c \in Chain(ByCore(core, 2 * r), b, 2 * r)
  <2>1. ByCore(core, 2 * r) \in [(0 .. 2 * r - 1) \X Word -> Word]
    BY DEF ByCore
  <2>2. 2 * r \in Nat \ {0}
    OBVIOUS
  <2> QED
    BY <1>2, <2>1, <2>2, ChainExists
<1>4. ASSUME NEW k \in 0 .. 2 * r - 1
      PROVE  /\ c[k] \in Word /\ c[k + 1] \in Word
             /\ c[k + 1] = Lift(core, XorCell(c[k], m[Bin + k]))
  <2>1. k \in 0 .. 2 * r /\ k + 1 \in 0 .. 2 * r
    OBVIOUS
  <2>2. /\ c[k] \in Word /\ c[k + 1] \in Word
        /\ c[k + 1] = ByCore(core, 2 * r)[<<k, XorCell(c[k], b[k])>>]
    BY <1>3, <2>1 DEF Chain
  <2>3. XorCell(c[k], b[k]) \in Word
    BY <1>2, <2>2, Cells
  <2>4. Lift(core, XorCell(c[k], b[k])) = core[XorCell(c[k], b[k])]
    BY <2>3, Cells DEF Lift
  <2> QED
    BY <1>2, <2>1, <2>2, <2>3, <2>4 DEF ByCore
<1>5. c[0] = m[Bin + 2 * r - 1]
  <2>1. 2 * r - 1 \in 0 .. 2 * r - 1 /\ Bin + (2 * r - 1) = Bin + 2 * r - 1
    BY <1>1
  <2> QED
    BY <1>2, <1>3, <2>1 DEF Chain
<1> DEFINE F(k) == [a \in 0 .. Need - 1 |->
                      IF a = X THEN c[2 * k]
                      ELSE IF a \in Bout .. Bout + k - 1 THEN c[2 * (a - Bout) + 1]
                      ELSE IF a \in Bout + r .. Bout + r + k - 1
                           THEN c[2 * (a - Bout - r) + 2]
                      ELSE m[a]]
           g == [k \in 0 .. r |-> F(k)]
<1>6. F(0) = first
  <2>1. ASSUME NEW a \in 0 .. Need - 1
        PROVE  F(0)[a] = IF a = X THEN m[Bin + 2 * r - 1] ELSE m[a]
    <3>1. a \notin Bout .. Bout + 0 - 1 /\ a \notin Bout + r .. Bout + r + 0 - 1
      BY <1>1
    <3> QED
      BY <1>5, <3>1
  <2>2. F(0) = [a \in 0 .. Need - 1 |-> F(0)[a]]
    OBVIOUS
  <2>3. first = [a \in 0 .. Need - 1 |-> IF a = X THEN m[Bin + 2 * r - 1] ELSE m[a]]
    BY <1>1
  <2> HIDE DEF F, first
  <2> QED
    BY <2>1, <2>2, <2>3
<1>7. ASSUME NEW k \in 0 .. r - 1
      PROVE  Pair(F(k), k) = F(k + 1)
  <2> DEFINE m1 == Absorb1(F(k), 2 * k)
             m2 == Emit(m1, k)
             m3 == Absorb1(m2, 2 * k + 1)
             m4 == Emit(m3, k + r)
  <2>1. /\ 2 * k \in 0 .. 2 * r - 1 /\ 2 * k + 1 \in 0 .. 2 * r - 1
        /\ (2 * k + 1) + 1 = 2 * k + 2 /\ 2 * (k + 1) = 2 * k + 2
        /\ Bout + k \in 0 .. Need - 1 /\ Bout + (k + r) \in 0 .. Need - 1
        /\ Bin + 2 * k \in 0 .. Need - 1 /\ Bin + (2 * k + 1) \in 0 .. Need - 1
        /\ Bout + k # X /\ Bout + (k + r) # X /\ Bin + 2 * k # X /\ Bin + (2 * k + 1) # X
        /\ Bin + 2 * k \notin Bout .. Bout + 2 * r - 1
        /\ Bin + (2 * k + 1) \notin Bout .. Bout + 2 * r - 1
    BY <1>1 DEF Apart
  <2>2. /\ F(k)[X] = c[2 * k] /\ F(k)[Bin + 2 * k] = m[Bin + 2 * k]
        /\ F(k)[Bin + (2 * k + 1)] = m[Bin + (2 * k + 1)]
    BY <1>1, <2>1
  <2>3. /\ c[2 * k + 1] = Lift(core, XorCell(c[2 * k], m[Bin + 2 * k]))
        /\ c[2 * k + 2] = Lift(core, XorCell(c[2 * k + 1], m[Bin + (2 * k + 1)]))
    BY <1>4, <2>1
  <2>4. DOMAIN F(k) = 0 .. Need - 1
    OBVIOUS
  <2> DEFINE f0 == F(k)
  <2> HIDE DEF F
  <2>5. m1 = [f0 EXCEPT ![X] = c[2 * k + 1]]
    BY <2>2, <2>3
  <2>6. m2 = [m1 EXCEPT ![Bout + k] = c[2 * k + 1]]
    BY <2>4, <2>5
  <2>7. m2[X] = c[2 * k + 1] /\ m2[Bin + (2 * k + 1)] = m[Bin + (2 * k + 1)]
    <3>1. DOMAIN m1 = 0 .. Need - 1 /\ m1[X] = c[2 * k + 1]
      <4> HIDE DEF m1, f0
      <4> QED
        BY <2>4, <2>5 DEF f0
    <3>2. m1[Bin + (2 * k + 1)] = m[Bin + (2 * k + 1)]
      BY <2>1, <2>2, <2>4, <2>5
    <3>3. Bin + (2 * k + 1) # Bout + k
      BY <1>1, <2>1
    <3> HIDE DEF m1
    <3> QED
      BY <2>1, <2>6, <3>1, <3>2, <3>3
  <2>8. m3 = [m2 EXCEPT ![X] = c[2 * k + 2]]
    BY <2>3, <2>7
  <2>9. m4 = [m3 EXCEPT ![Bout + (k + r)] = c[2 * k + 2]]
    BY <2>4, <2>5, <2>6, <2>8
  <2>10. /\ DOMAIN m4 = 0 .. Need - 1
         /\ m4 = [a \in 0 .. Need - 1 |-> m4[a]]
         /\ \A a \in 0 .. Need - 1 :
              m4[a] = IF a = Bout + (k + r) THEN c[2 * k + 2]
                      ELSE IF a = X THEN c[2 * k + 2]
                      ELSE IF a = Bout + k THEN c[2 * k + 1] ELSE f0[a]
    <3> HIDE DEF m1, m2, m3, m4, f0
    <3>1. /\ DOMAIN m1 = 0 .. Need - 1 /\ m1 = [a \in 0 .. Need - 1 |-> m1[a]]
          /\ \A a \in 0 .. Need - 1 : m1[a] = IF a = X THEN c[2 * k + 1] ELSE f0[a]
      BY <2>4, <2>5 DEF f0
    <3>2. /\ DOMAIN m2 = 0 .. Need - 1 /\ m2 = [a \in 0 .. Need - 1 |-> m2[a]]
          /\ \A a \in 0 .. Need - 1 : m2[a] = IF a = Bout + k THEN c[2 * k + 1] ELSE m1[a]
      BY <2>6, <3>1
    <3>3. /\ DOMAIN m3 = 0 .. Need - 1 /\ m3 = [a \in 0 .. Need - 1 |-> m3[a]]
          /\ \A a \in 0 .. Need - 1 : m3[a] = IF a = X THEN c[2 * k + 2] ELSE m2[a]
      BY <2>8, <3>2
    <3>4. /\ DOMAIN m4 = 0 .. Need - 1 /\ m4 = [a \in 0 .. Need - 1 |-> m4[a]]
          /\ \A a \in 0 .. Need - 1 :
               m4[a] = IF a = Bout + (k + r) THEN c[2 * k + 2] ELSE m3[a]
      BY <2>9, <3>3
    <3> QED
      BY <3>1, <3>2, <3>3, <3>4
  <2>11. ASSUME NEW a \in 0 .. Need - 1
         PROVE  m4[a] = F(k + 1)[a]
    <3> HIDE DEF m1, m2, m3, m4, f0
    <3>1. CASE a = X
      BY <2>1, <2>10, <3>1 DEF F
    <3>2. CASE a = Bout + (k + r)
      <4>1. /\ a # X /\ a \notin Bout .. Bout + (k + 1) - 1
            /\ a \in Bout + r .. Bout + r + (k + 1) - 1 /\ 2 * (a - Bout - r) + 2 = 2 * k + 2
        BY <1>1, <2>1, <3>2
      <4> QED
        BY <2>10, <3>2, <4>1 DEF F
    <3>3. CASE a = Bout + k
      <4>1. /\ a # X /\ a \in Bout .. Bout + (k + 1) - 1 /\ 2 * (a - Bout) + 1 = 2 * k + 1
            /\ a # Bout + (k + r)
        BY <1>1, <2>1, <3>3
      <4> QED
        BY <2>10, <3>3, <4>1 DEF F
    <3>4. CASE a # X /\ a # Bout + (k + r) /\ a # Bout + k
      <4>1. /\ a \in Bout .. Bout + (k + 1) - 1 <=> a \in Bout .. Bout + k - 1
            /\ a \in Bout + r .. Bout + r + (k + 1) - 1 <=> a \in Bout + r .. Bout + r + k - 1
        BY <1>1, <3>4
      <4> QED
        BY <2>10, <3>4, <4>1 DEF F, f0
    <3> QED
      BY <3>1, <3>2, <3>3, <3>4
  <2>12. F(k + 1) = [a \in 0 .. Need - 1 |-> F(k + 1)[a]]
    BY DEF F
  <2>13. m4 = F(k + 1)
    <3> HIDE DEF m1, m2, m3, m4, f0
    <3> QED
      BY <2>10, <2>11, <2>12
  <2> QED
    BY <2>13
<1> HIDE DEF F, Pair, first
<1>8. Eq(g)
  <2>1. ASSUME NEW k \in 0 .. r
        PROVE  g[k] = IF k = 0 THEN first ELSE Pair(g[k - 1], k - 1)
    <3>1. CASE k = 0
      BY <1>6, <3>1
    <3>2. CASE k # 0
      <4>1. k - 1 \in 0 .. r - 1 /\ (k - 1) + 1 = k /\ k - 1 \in 0 .. r
        BY <3>2
      <4>2. Pair(F(k - 1), k - 1) = F(k)
        BY <1>7, <4>1
      <4> QED
        BY <3>2, <4>1, <4>2
    <3> QED
      BY <3>1, <3>2
  <2>2. g = [k \in 0 .. r |-> g[k]]
    OBVIOUS
  <2> HIDE DEF g
  <2> QED
    BY <2>1, <2>2
<1>9. Eq(after)
  <2> HIDE DEF Eq
  <2> QED
    BY <1>8
<1> HIDE DEF after
<1> DEFINE T == {k \in 0 .. r : after[k] = F(k)}
<1>10. 0 \in T
  BY <1>6, <1>9
<1>11. ASSUME NEW k \in 0 .. r - 1, k \in T PROVE k + 1 \in T
  <2>1. k + 1 \in 0 .. r /\ k + 1 # 0 /\ (k + 1) - 1 = k
    OBVIOUS
  <2>2. after[k + 1] = Pair(after[k], k)
    BY <1>9, <2>1
  <2> QED
    BY <1>7, <1>11, <2>1, <2>2
<1>12. after[r] = F(r)
  <2>1. r \in T
    <3> HIDE DEF T
    <3> QED
      BY <1>10, <1>11, FoldInduction
  <2> QED
    BY <2>1
<1>13. BlockmixSalsa8(core, m, Bin, Bout, X, r) = F(r)
  <2>1. BlockmixSalsa8(core, m, Bin, Bout, X, r) = after[r]
    BY DEF BlockmixSalsa8, after, Pair, Emit, Absorb1, first
  <2> QED
    BY <1>12, <2>1
<1>14. Read(F(r), Bout, 2 * r) = SpecBlockMix(core, b, r)
  <2>1. SpecBlockMix(core, b, r) =
          [k \in 0 .. 2 * r - 1 |-> IF k < r THEN c[2 * k + 1] ELSE c[2 * (k - r) + 2]]
    BY <1>2, <1>3, SpecBlockMixIs
  <2>2. ASSUME NEW k \in 0 .. 2 * r - 1
        PROVE  F(r)[Bout + k] = IF k < r THEN c[2 * k + 1] ELSE c[2 * (k - r) + 2]
    <3>1. /\ Bout + k \in 0 .. Need - 1 /\ Bout + k # X
          /\ k < r => /\ Bout + k \in Bout .. Bout + r - 1 /\ (Bout + k) - Bout = k
          /\ ~ (k < r) => /\ Bout + k \notin Bout .. Bout + r - 1
                          /\ Bout + k \in Bout + r .. Bout + r + r - 1
                          /\ (Bout + k) - Bout - r = k - r
      BY <1>1
    <3> QED
      BY <3>1 DEF F
  <2> QED
    BY <2>1, <2>2 DEF Read
<1>15. ASSUME NEW a \in 0 .. Need - 1, a # X, a \notin Bout .. Bout + 2 * r - 1
       PROVE  F(r)[a] = m[a]
  <2>1. a \notin Bout .. Bout + r - 1 /\ a \notin Bout + r .. Bout + r + r - 1
    BY <1>1, <1>15
  <2> QED
    BY <1>15, <2>1 DEF F
<1> QED
  BY <1>13, <1>14, <1>15 DEF b

-----------------------------------------------------------------------------
(* The empty table.                                                        *)
LEMMA EmptyTable ==
  ASSUME NEW f, f = [k \in 0 .. -1 |-> f[k]]
  PROVE  f = << >>
BY DEF Read

(* What the refinement mapping is for scrypt.                              *)
ScryptView ==
  ~ job.yescrypt =>
    /\ SBoxTable = << >>
    /\ Block = Read(mem, IF pc = "load" THEN BAt ELSE From, 2 * R)
    /\ Table = IF stage = "done" THEN << >>
               ELSE [k \in 0 .. (IF stage = "fill" THEN Done ELSE job.N) - 1 |->
                       Read(mem, VRow(k), 2 * R)]
    /\ Done = IF pc = "load" THEN 0 ELSE i + half

(* It is that in every reachable state, ...                                *)
LEMMA ScryptViewHolds == PowInv => ScryptView
<1> SUFFICES ASSUME PowInv, ~ job.yescrypt
             PROVE  /\ SBoxTable = << >>
                    /\ Block = Read(mem, IF pc = "load" THEN BAt ELSE From, 2 * R)
                    /\ Table = IF stage = "done" THEN << >>
                               ELSE [k \in 0 .. (IF stage = "fill" THEN Done ELSE job.N) - 1 |->
                                       Read(mem, VRow(k), 2 * R)]
                    /\ Done = IF pc = "load" THEN 0 ELSE i + half
  BY DEF ScryptView
<1>1. SBoxTable = << >>
  BY DEF SBoxTable
<1>2. /\ stage \in {"fill", "mix", "done"} /\ pc \in {"load", "loop"} /\ ~ job.simd
      /\ StageR = R /\ R \in Nat \ {0} /\ ~ InSmix1 /\ ~ InSmix2
  BY ScryptFacts, Sizes DEF PowInv, CounterInv, ScryptInv, InSmix1, InSmix2, StageR
<1>3. Done = IF pc = "load" THEN 0 ELSE i + half
  BY <1>2 DEF Done
<1>4. \A at : Plain(Read(mem, at, 2 * R)) = Read(mem, at, 2 * R)
  BY DEF Plain, Read
<1>5. Block = Read(mem, IF pc = "load" THEN BAt ELSE From, 2 * R)
  <2>1. ActiveAt = From
    BY <1>2 DEF ActiveAt
  <2>2. \A k \in 0 .. 2 * R - 1 : ~ (k >= 2 * R)
    BY <1>2
  <2>3. Block = [k \in 0 .. 2 * R - 1 |->
                   IF pc = "load" \/ k >= 2 * R THEN mem[BAt + k]
                   ELSE Read(mem, From, 2 * R)[k]]
    BY <1>2, <1>4, <2>1 DEF Block
  <2> QED
    BY <2>2, <2>3 DEF Read
<1>6. Table = IF stage = "done" THEN << >>
              ELSE [k \in 0 .. (IF stage = "fill" THEN Done ELSE job.N) - 1 |->
                      Read(mem, VRow(k), 2 * R)]
  BY <1>2, <1>4 DEF Table, RowsOf
<1> QED
  BY <1>1, <1>3, <1>5, <1>6

(* ... so in the next one.                                                 *)
LEMMA ScryptViewStays == PowInv' => ScryptView'
  BY ScryptViewHolds, PTL

(* Reading what was copied, and what was not.                              *)
LEMMA ReadOfCopy ==
  ASSUME NEW m, Memory(m), NEW n \in Nat, NEW to, Inside(to, n), NEW from, Inside(from, n)
  PROVE  LET after == Copy(m, to, from, n)
         IN  /\ Read(after, to, n) = Read(m, from, n)
             /\ \A b, k : Inside(b, k) /\ Apart(to, n, b, k) => Read(after, b, k) = Read(m, b, k)
<1> DEFINE after == Copy(m, to, from, n)
<1>1. to \in Nat /\ from \in Nat /\ Need \in Nat /\ to + n <= Need /\ from + n <= Need
      /\ DOMAIN m = 0 .. Need - 1
  BY DEF Inside, Memory
<1>2. \A a \in 0 .. Need - 1 :
        after[a] = IF a \in to .. to + n - 1 THEN m[from + a - to] ELSE m[a]
  BY <1>1 DEF Copy
<1> HIDE DEF after
<1>3. ASSUME NEW k \in 0 .. n - 1 PROVE after[to + k] = m[from + k]
  <2>1. /\ to + k \in 0 .. Need - 1 /\ to + k \in to .. to + n - 1
        /\ from + (to + k) - to = from + k
    BY <1>1
  <2> QED
    BY <1>2, <2>1
<1>4. ASSUME NEW b, NEW k, Inside(b, k), Apart(to, n, b, k), NEW c \in 0 .. k - 1
      PROVE  after[b + c] = m[b + c]
  <2>1. b + c \in 0 .. Need - 1 /\ b + c \notin to .. to + n - 1
    BY <1>1, <1>4 DEF Inside, Apart
  <2> QED
    BY <1>2, <2>1
<1> QED
  BY <1>3, <1>4 DEF Read, after

(* ... and what was combined with a row.                                   *)
LEMMA ReadOfXorInto ==
  ASSUME NEW m, Memory(m), NEW n \in Nat, NEW to, Inside(to, n), NEW from, Inside(from, n)
  PROVE  LET after == XorInto(m, to, from, n)
         IN  /\ Read(after, to, n) = XorBlock(Read(m, to, n), Read(m, from, n))
             /\ \A b, k : Inside(b, k) /\ Apart(to, n, b, k) => Read(after, b, k) = Read(m, b, k)
<1> DEFINE after == XorInto(m, to, from, n)
<1>1. to \in Nat /\ from \in Nat /\ Need \in Nat /\ to + n <= Need /\ from + n <= Need
      /\ DOMAIN m = 0 .. Need - 1
  BY DEF Inside, Memory
<1>2. \A a \in 0 .. Need - 1 :
        after[a] = IF a \in to .. to + n - 1 THEN XorCell(m[a], m[from + a - to]) ELSE m[a]
  BY <1>1 DEF XorInto
<1> HIDE DEF after
<1>3. ASSUME NEW k \in 0 .. n - 1 PROVE after[to + k] = XorCell(m[to + k], m[from + k])
  <2>1. /\ to + k \in 0 .. Need - 1 /\ to + k \in to .. to + n - 1
        /\ from + (to + k) - to = from + k
    BY <1>1
  <2> QED
    BY <1>2, <2>1
<1>4. ASSUME NEW b, NEW k, Inside(b, k), Apart(to, n, b, k), NEW c \in 0 .. k - 1
      PROVE  after[b + c] = m[b + c]
  <2>1. b + c \in 0 .. Need - 1 /\ b + c \notin to .. to + n - 1
    BY <1>1, <1>4 DEF Inside, Apart
  <2> QED
    BY <1>2, <2>1
<1>5. Read(after, to, n) = XorBlock(Read(m, to, n), Read(m, from, n))
  BY <1>3 DEF Read, XorBlock
<1> QED
  BY <1>4, <1>5 DEF Read, after

(* The regions of scrypt do not meet: B, X, Y, Z and the rows.             *)
LEMMA ScryptApart ==
  ASSUME job \in Jobs, ~ job.yescrypt, stage # "sbox"
  PROVE  /\ Apart(XAt, 2 * R, YAt(R), 2 * R) /\ Apart(YAt(R), 2 * R, XAt, 2 * R)
         /\ Apart(BAt, 2 * R, XAt, 2 * R) /\ Apart(XAt, 2 * R, BAt, 2 * R)
         /\ ZAt(R) \notin XAt .. XAt + 2 * R - 1
         /\ ZAt(R) \notin YAt(R) .. YAt(R) + 2 * R - 1
         /\ \A k \in 0 .. job.N - 1 :
              /\ Inside(VRow(k), 2 * R)
              /\ Apart(XAt, 2 * R, VRow(k), 2 * R) /\ Apart(YAt(R), 2 * R, VRow(k), 2 * R)
              /\ Apart(VRow(k), 2 * R, XAt, 2 * R) /\ Apart(VRow(k), 2 * R, YAt(R), 2 * R)
              /\ ZAt(R) \notin VRow(k) .. VRow(k) + 2 * R - 1
              /\ \A l \in 0 .. job.N - 1 :
                   k # l => Apart(VRow(k), 2 * R, VRow(l), 2 * R)
<1>1. R \in Nat \ {0} /\ ~ job.simd /\ job.N \in Nat
  BY Sizes
<1>2. XAt = 2 * R /\ YAt(R) = 4 * R /\ ZAt(R) = 6 * R /\ VAt = 6 * R + 1 /\ BAt = 0
  <2>1. XYAt = 2 * R
    BY DEF XYAt, BSize
  <2> QED
    BY <1>1, <2>1 DEF XAt, YAt, ZAt, VAt, BAt, BSize, XYSize
<1>3. ASSUME NEW k \in 0 .. job.N - 1
      PROVE  /\ VRow(k) = VAt + (2 * R) * k /\ (2 * R) * k \in Nat
             /\ Inside(VRow(k), 2 * R)
  <2>1. StageR = R /\ StageRows = job.N
    BY StageSizes
  <2>2. Inside(VRow(k), 2 * R)
    BY <2>1, Regions
  <2>3. VRow(k) = VAt + (2 * R) * k
    BY <2>1 DEF VRow
  <2> QED
    BY <1>1, <2>2, <2>3
<1>4. ASSUME NEW k \in 0 .. job.N - 1, NEW l \in 0 .. job.N - 1, k < l
      PROVE  VRow(k) + 2 * R <= VRow(l)
  <2>1. (2 * R) * k + 2 * R <= (2 * R) * l
    <3>1. 2 * R \in Nat /\ l \in Nat /\ k \in 0 .. l - 1
      BY <1>1, <1>4
    <3> QED
      BY <3>1, RowEnds
  <2> DEFINE at == (2 * R) * k
             to == (2 * R) * l
  <2>2. at \in Nat /\ to \in Nat /\ VRow(k) = VAt + at /\ VRow(l) = VAt + to
        /\ at + 2 * R <= to
    BY <1>3, <2>1
  <2> HIDE DEF at, to
  <2> QED
    BY <1>1, <1>2, <2>2
<1>5. ASSUME NEW k \in 0 .. job.N - 1 PROVE VRow(k) \in Nat /\ VRow(k) >= 6 * R + 1
  <2> DEFINE at == (2 * R) * k
  <2>1. at \in Nat /\ VRow(k) = VAt + at
    BY <1>3
  <2> HIDE DEF at
  <2> QED
    BY <1>1, <1>2, <2>1
<1>6. ASSUME NEW k \in 0 .. job.N - 1
      PROVE  /\ Inside(VRow(k), 2 * R)
             /\ Apart(XAt, 2 * R, VRow(k), 2 * R) /\ Apart(YAt(R), 2 * R, VRow(k), 2 * R)
             /\ Apart(VRow(k), 2 * R, XAt, 2 * R) /\ Apart(VRow(k), 2 * R, YAt(R), 2 * R)
             /\ ZAt(R) \notin VRow(k) .. VRow(k) + 2 * R - 1
             /\ \A l \in 0 .. job.N - 1 :
                  k # l => Apart(VRow(k), 2 * R, VRow(l), 2 * R)
  <2>1. Inside(VRow(k), 2 * R)
    BY <1>3
  <2>2. /\ Apart(XAt, 2 * R, VRow(k), 2 * R) /\ Apart(YAt(R), 2 * R, VRow(k), 2 * R)
        /\ Apart(VRow(k), 2 * R, XAt, 2 * R) /\ Apart(VRow(k), 2 * R, YAt(R), 2 * R)
        /\ ZAt(R) \notin VRow(k) .. VRow(k) + 2 * R - 1
    BY <1>1, <1>2, <1>5 DEF Apart
  <2>3. ASSUME NEW l \in 0 .. job.N - 1, k # l
        PROVE  Apart(VRow(k), 2 * R, VRow(l), 2 * R)
    <3>1. CASE k < l
      BY <1>4, <3>1 DEF Apart
    <3>2. CASE l < k
      BY <1>4, <3>2 DEF Apart
    <3> QED
      BY <1>1, <2>3, <3>1, <3>2
  <2> QED
    BY <2>1, <2>2, <2>3
<1>7. /\ Apart(XAt, 2 * R, YAt(R), 2 * R) /\ Apart(YAt(R), 2 * R, XAt, 2 * R)
      /\ Apart(BAt, 2 * R, XAt, 2 * R) /\ Apart(XAt, 2 * R, BAt, 2 * R)
      /\ ZAt(R) \notin XAt .. XAt + 2 * R - 1
      /\ ZAt(R) \notin YAt(R) .. YAt(R) + 2 * R - 1
  BY <1>1, <1>2 DEF Apart
<1> QED
  BY <1>6, <1>7

(* In scrypt's two buffers blockmix is the mixing of the reference, and    *)
(* the rows are left alone.                                                *)
LEMMA ScryptBlockmix ==
  ASSUME PowInv, ~ job.yescrypt, stage # "done", NEW m, Memory(m), Own(m, From, 2 * R)
  PROVE  LET after == Blockmix(m, From, To)
         IN  /\ Read(after, To, 2 * R) = SpecBlockMix(job.core, Read(m, From, 2 * R), R)
             /\ \A k \in 0 .. job.N - 1 : Read(after, VRow(k), 2 * R) = Read(m, VRow(k), 2 * R)
<1> DEFINE after == Blockmix(m, From, To)
<1>1. /\ job \in Jobs /\ job.core \in [Word -> Word] /\ R \in Nat \ {0} /\ stage # "sbox"
      /\ StageR = R /\ half \in {0, 1}
  BY Buffers, ScryptFacts, ShuffledCoreIsWord
<1>2. (From = XAt /\ To = YAt(R)) \/ (From = YAt(R) /\ To = XAt)
  BY <1>1 DEF From, To
<1>3. /\ Inside(To, 2 * R) /\ Apart(From, 2 * R, To, 2 * R) /\ ZAt(R) \in 0 .. Need - 1
      /\ ZAt(R) \notin From .. From + 2 * R - 1 /\ ZAt(R) \notin To .. To + 2 * R - 1
  BY <1>1, <1>2, Buffers, ScryptApart, Regions, ScryptFacts
<1>4. /\ Read(after, To, 2 * R) = SpecBlockMix(job.core, Read(m, From, 2 * R), R)
      /\ \A a \in 0 .. Need - 1 :
           a = ZAt(R) \/ a \in To .. To + 2 * R - 1 \/ after[a] = m[a]
  BY <1>1, <1>3, BlockmixSalsa8Computes DEF Blockmix
<1> HIDE DEF after
<1>5. ASSUME NEW k \in 0 .. job.N - 1
      PROVE  Read(after, VRow(k), 2 * R) = Read(m, VRow(k), 2 * R)
  <2>1. /\ Inside(VRow(k), 2 * R) /\ Apart(To, 2 * R, VRow(k), 2 * R)
        /\ ZAt(R) \notin VRow(k) .. VRow(k) + 2 * R - 1
    BY <1>1, <1>2, ScryptApart
  <2>2. ASSUME NEW c \in 0 .. 2 * R - 1 PROVE after[VRow(k) + c] = m[VRow(k) + c]
    <3> DEFINE v == VRow(k)
    <3>1. /\ v \in Nat /\ v + 2 * R <= Need /\ Need \in Nat /\ To \in Nat
          /\ To + 2 * R <= v \/ v + 2 * R <= To
          /\ ZAt(R) \notin v .. v + 2 * R - 1
      BY <1>3, <2>1 DEF Inside, Apart, Memory
    <3> HIDE DEF v
    <3>2. v + c \in 0 .. Need - 1 /\ v + c \notin To .. To + 2 * R - 1 /\ v + c # ZAt(R)
      BY <1>1, <3>1
    <3> USE DEF v
    <3> QED
      BY <1>4, <3>2
  <2> QED
    BY <2>2 DEF Read
<1> QED
  BY <1>4, <1>5 DEF after

(* The mixing of the specification, of a whole block.                      *)
LEMMA ScryptMixed ==
  ASSUME PowInv, ~ job.yescrypt, stage # "sbox", NEW b
  PROVE  Abstract!Mixed(b) = SpecBlockMix(job.core, b, R)
<1> DEFINE y == SpecBlockMix(job.core, b, R)
<1>1. DOMAIN Block = 0 .. 2 * R - 1
  BY DEF Block
<1>2. y = [k \in 0 .. 2 * R - 1 |-> y[k]]
  BY DEF SpecBlockMix
<1>3. Abstract!SpecBlockMix(job.core, b, job.r) = y
  BY AbstractSame DEF R
<1> HIDE DEF y
<1>4. Abstract!Mixed(b) = [k \in DOMAIN Block |-> IF k \in DOMAIN y THEN y[k] ELSE Block[k]]
  BY <1>3 DEF Abstract!Mixed
<1>5. DOMAIN y = 0 .. 2 * R - 1
  BY <1>2
<1> QED
  BY <1>1, <1>2, <1>4, <1>5 DEF y

(* The last sub-block of a block is the one that names a row.              *)
LEMMA IntegerifyOfRead ==
  ASSUME NEW m, NEW at \in Nat, NEW n \in Nat \ {0}
  PROVE  Abstract!Integerify(Read(m, at, n)) = m[at + n - 1]
<1> DEFINE b == Read(m, at, n)
<1>1. DOMAIN b = 0 .. n - 1 /\ \A k \in 0 .. n - 1 : b[k] = m[at + k]
  BY DEF Read
<1> HIDE DEF b
<1>2. \A k \in 0 .. n - 1 : k + 1 \notin 0 .. n - 1 => k = n - 1
  OBVIOUS
<1>3. n - 1 \in 0 .. n - 1 /\ (n - 1) + 1 \notin 0 .. n - 1 /\ at + (n - 1) = at + n - 1
  OBVIOUS
<1>4. (CHOOSE k \in DOMAIN b : k + 1 \notin DOMAIN b) = n - 1
  BY <1>1, <1>2, <1>3
<1> QED
  BY <1>1, <1>3, <1>4 DEF Abstract!Integerify, b

(* What the next block and table are, in a loop of scrypt.                 *)
LEMMA ScryptNextView ==
  ASSUME PowInv, PowInv', ~ job.yescrypt, stage # "done", UNCHANGED job,
         stage' # "done", pc' = "loop"
  PROVE  /\ SBoxTable' = << >> /\ SBoxTable = << >>
         /\ Block' = Read(mem', From', 2 * R)
         /\ Table' = [k \in 0 .. (IF stage' = "fill" THEN i' + half' ELSE job.N) - 1 |->
                        Read(mem', VRow(k), 2 * R)]
         /\ Done' = i' + half'
<1>1. ScryptView' /\ ScryptView
  BY ScryptViewStays, ScryptViewHolds
<1>2. stage \in {"fill", "mix"} /\ stage' \in {"fill", "mix"}
  <2>1. stage \in {"fill", "mix"}
    BY ScryptFacts
  <2>2. stage' \in {"fill", "mix"}
    BY DEF PowInv, CounterInv, ScryptInv
  <2> QED
    BY <2>1, <2>2
<1>3. R' = R /\ ~ job'.yescrypt /\ job'.N = job.N
  BY RegionsStay
<1>4. \A k : VRow(k)' = VRow(k)
  BY <1>2, <1>3 DEF VRow, VAt, BSize, XYSize, StageR
<1>5. /\ SBoxTable' = << >> /\ SBoxTable = << >> /\ Block' = Read(mem', From', 2 * R)
      /\ Done' = i' + half'
  BY <1>1, <1>3 DEF ScryptView
<1>6. Table' = [k \in 0 .. (IF stage' = "fill" THEN Done' ELSE job.N) - 1 |->
                  Read(mem', VRow(k)', 2 * R)]
  BY <1>1, <1>3 DEF ScryptView
<1> QED
  BY <1>4, <1>5, <1>6

(* Half a body of the first loop is one step of Fill.                      *)
LEMMA ScryptFillStep ==
  ASSUME PowInv, PowInv', ~ job.yescrypt, ScryptFill
  PROVE  Abstract!Fill
<1> USE DEF ScryptFill, NextHalf
<1> DEFINE row == i + half
           filled == Copy(mem, VRow(row), From, 2 * R)
<1>1. /\ ScryptInv /\ job \in Jobs /\ Memory(mem) /\ StageR = R /\ R \in Nat \ {0}
      /\ StageRows = job.N /\ job.N \in Nat /\ job.N % 2 = 0 /\ half \in {0, 1}
      /\ Own(mem, From, 2 * R)
  BY ScryptFacts, Buffers
<1>2. row \in 0 .. job.N - 1 /\ i' + half' = row + 1
  <2>1. i \in Nat /\ i % 2 = 0 /\ i < job.N /\ i + half < job.N
    BY <1>1 DEF ScryptInv
  <2>2. i' + half' = i + half + 1
    BY <1>1, <2>1
  <2> QED
    BY <1>1, <2>1, <2>2
<1>3. /\ Inside(VRow(row), 2 * R) /\ Inside(From, 2 * R) /\ Inside(To, 2 * R)
      /\ Apart(VRow(row), 2 * R, From, 2 * R)
      /\ \A k \in 0 .. row - 1 :
           Inside(VRow(k), 2 * R) /\ Apart(VRow(row), 2 * R, VRow(k), 2 * R)
  BY <1>1, <1>2, Buffers, ScryptApart DEF From
<1>4. /\ Read(filled, VRow(row), 2 * R) = Read(mem, From, 2 * R)
      /\ Read(filled, From, 2 * R) = Read(mem, From, 2 * R)
      /\ \A k \in 0 .. row - 1 : Read(filled, VRow(k), 2 * R) = Read(mem, VRow(k), 2 * R)
  BY <1>1, <1>3, ReadOfCopy
<1>5. Memory(filled) /\ Own(filled, From, 2 * R) /\ mem' = Blockmix(filled, From, To)
  <2>1. Grown(mem, filled)
    BY <1>1, <1>3, CopyGrows
  <2> QED
    BY <1>1, <2>1, GrownOwns DEF Grown
<1> HIDE DEF filled
<1>6. /\ Read(mem', To, 2 * R) = SpecBlockMix(job.core, Read(mem, From, 2 * R), R)
      /\ \A k \in 0 .. job.N - 1 : Read(mem', VRow(k), 2 * R) = Read(filled, VRow(k), 2 * R)
  BY <1>4, <1>5, ScryptBlockmix
<1>7. From' = To
  BY <1>1, Buffers
<1>8. /\ SBoxTable' = << >> /\ SBoxTable = << >> /\ Block' = Read(mem', To, 2 * R)
      /\ Table' = [k \in 0 .. row |-> Read(mem', VRow(k), 2 * R)]
      /\ Done' = row + 1
  <2>1. (row + 1) - 1 = row
    BY <1>2
  <2> HIDE DEF row
  <2> QED
    BY <1>2, <1>7, <2>1, ScryptNextView
<1>9. /\ Block = Read(mem, From, 2 * R) /\ Done = row
      /\ Table = [k \in 0 .. row - 1 |-> Read(mem, VRow(k), 2 * R)]
  BY ScryptViewHolds DEF ScryptView
<1> HIDE DEF row
<1>10. Block' = Abstract!Mixed(Block)
  BY <1>6, <1>8, <1>9, ScryptMixed
<1>11. Table' = [k \in 0 .. Done |-> IF k = Done THEN Block ELSE Table[k]]
  <2>1. ASSUME NEW k \in 0 .. row
        PROVE  Read(mem', VRow(k), 2 * R) = IF k = row THEN Block ELSE Table[k]
    <3>1. CASE k = row
      BY <1>2, <1>4, <1>6, <1>9, <3>1
    <3>2. CASE k # row
      <4>1. k \in 0 .. row - 1 /\ k \in 0 .. job.N - 1
        BY <1>1, <1>2, <3>2
      <4> QED
        BY <1>4, <1>6, <1>9, <3>2, <4>1
    <3> QED
      BY <3>1, <3>2
  <2> QED
    BY <1>8, <1>9, <2>1
<1>12. Abstract!Active = Block /\ Abstract!Steps = job.N
  BY DEF Abstract!Active, Abstract!Steps
<1>13. Done < Abstract!Steps
  BY <1>1, <1>2, <1>9, <1>12
<1> QED
  BY <1>8, <1>9, <1>10, <1>11, <1>12, <1>13 DEF Abstract!Fill

(* Half a body of the second is one step of MixStep.                       *)
LEMMA ScryptMixStep ==
  ASSUME PowInv, PowInv', ~ job.yescrypt, ScryptMix
  PROVE  Abstract!MixStep
<1> USE DEF ScryptMix, NextHalf
<1> DEFINE k0 == mem[From + 2 * R - 1] % job.N
           added == XorInto(mem, From, VRow(k0), 2 * R)
<1>1. /\ ScryptInv /\ job \in Jobs /\ Memory(mem) /\ StageR = R /\ R \in Nat \ {0}
      /\ job.N \in Nat \ {0} /\ job.N % 2 = 0 /\ half \in {0, 1}
      /\ Own(mem, From, 2 * R) /\ RowsOwn = job.N
  BY ScryptFacts, Buffers, Sizes
<1>2. /\ i \in Nat /\ i % 2 = 0 /\ i < job.N /\ i + half < job.N
      /\ i' + half' = i + half + 1
  BY <1>1 DEF ScryptInv
<1>3. k0 \in 0 .. job.N - 1
  <2>1. mem[From + 2 * R - 1] \in Word
    BY <1>1 DEF Own
  <2> QED
    BY <1>1, <2>1, ChosenRow
<1>4. /\ Inside(From, 2 * R)
      /\ \A k \in 0 .. job.N - 1 :
           Inside(VRow(k), 2 * R) /\ Apart(From, 2 * R, VRow(k), 2 * R)
  BY <1>1, Buffers, ScryptApart DEF From
<1>5. Abstract!Integerify(Block) = mem[From + 2 * R - 1] /\ Block = Read(mem, From, 2 * R)
  <2>1. Block = Read(mem, From, 2 * R)
    BY ScryptViewHolds DEF ScryptView
  <2>2. From \in Nat /\ 2 * R \in Nat \ {0}
    BY <1>1 DEF Own
  <2> QED
    BY <2>1, <2>2, IntegerifyOfRead
<1>6. mem' = Blockmix(added, From, To) /\ Abstract!Integerify(Block) % job.N = k0
  BY <1>5
<1> HIDE DEF k0
<1>7. Own(mem, VRow(k0), 2 * R)
  BY <1>1, <1>3 DEF PowInv, OwnInv
<1>8. /\ Read(added, From, 2 * R)
           = XorBlock(Read(mem, From, 2 * R), Read(mem, VRow(k0), 2 * R))
      /\ \A k \in 0 .. job.N - 1 : Read(added, VRow(k), 2 * R) = Read(mem, VRow(k), 2 * R)
  BY <1>1, <1>3, <1>4, ReadOfXorInto
<1>9. Memory(added) /\ Own(added, From, 2 * R)
  <2>1. Grown(mem, added)
    BY <1>1, <1>7, XorIntoGrows
  <2> QED
    BY <1>1, <2>1, GrownOwns DEF Grown
<1> HIDE DEF added
<1>10. /\ Read(mem', To, 2 * R)
            = SpecBlockMix(job.core,
                           XorBlock(Read(mem, From, 2 * R), Read(mem, VRow(k0), 2 * R)), R)
       /\ \A k \in 0 .. job.N - 1 : Read(mem', VRow(k), 2 * R) = Read(mem, VRow(k), 2 * R)
  BY <1>6, <1>8, <1>9, ScryptBlockmix
<1>11. From' = To
  BY <1>1, Buffers
<1>12. /\ SBoxTable' = << >> /\ SBoxTable = << >> /\ Block' = Read(mem', To, 2 * R)
       /\ Table' = [k \in 0 .. job.N - 1 |-> Read(mem', VRow(k), 2 * R)]
       /\ Done' = i + half + 1
  BY <1>2, <1>11, ScryptNextView
<1>13. /\ Done = i + half
       /\ Table = [k \in 0 .. job.N - 1 |-> Read(mem, VRow(k), 2 * R)]
  BY ScryptViewHolds DEF ScryptView
<1>14. Table[k0] = Read(mem, VRow(k0), 2 * R) /\ Table' = Table
  BY <1>3, <1>10, <1>12, <1>13
<1>15. Block' = Abstract!Mixed(Abstract!XorBlock(Block, Table[k0]))
  BY <1>5, <1>10, <1>12, <1>14, ScryptMixed, AbstractSame
<1>16. Done < Abstract!Steps
  BY <1>2, <1>13 DEF Abstract!Steps
<1> QED
  BY <1>6, <1>12, <1>13, <1>14, <1>15, <1>16 DEF Abstract!MixStep

(* Loading X from B is no step: the block is where it was.                 *)
LEMMA ScryptLoadStutters ==
  ASSUME PowInv, PowInv', ~ job.yescrypt, ScryptLoad
  PROVE  UNCHANGED Abstract!romixVars
<1> USE DEF ScryptLoad
<1>1. /\ ScryptInv /\ job \in Jobs /\ Memory(mem) /\ StageR = R /\ R \in Nat \ {0}
      /\ i = 0 /\ half = 0
  BY ScryptFacts, Buffers DEF ScryptInv
<1>2. Inside(XAt, 2 * R) /\ Inside(BAt, 2 * R) /\ 2 * R \in Nat
  BY <1>1, Regions
<1>3. Read(mem', XAt, 2 * R) = Read(mem, BAt, 2 * R)
  BY <1>1, <1>2, ReadOfCopy
<1>4. From' = XAt
  BY <1>1, RegionsStay DEF From
<1>5. /\ SBoxTable' = << >> /\ SBoxTable = << >> /\ Block' = Read(mem', XAt, 2 * R)
      /\ Table' = [k \in 0 .. 0 - 1 |-> Read(mem', VRow(k), 2 * R)] /\ Done' = 0
  <2>1. i' + half' = 0
    BY <1>1
  <2> QED
    BY <1>4, <2>1, ScryptNextView
<1>6. /\ Block = Read(mem, BAt, 2 * R) /\ Done = 0
      /\ Table = [k \in 0 .. 0 - 1 |-> Read(mem, VRow(k), 2 * R)]
  BY ScryptViewHolds DEF ScryptView
<1>7. Table' = Table
  <2>1. \A k \in 0 .. 0 - 1 : FALSE
    OBVIOUS
  <2> QED
    BY <1>5, <1>6, <2>1
<1> QED
  BY <1>3, <1>5, <1>6, <1>7 DEF Abstract!romixVars

(* The end of the first loop ends the phase that fills the table.          *)
LEMMA ScryptEndFillStep ==
  ASSUME PowInv, PowInv', ~ job.yescrypt, ScryptEndFill
  PROVE  Abstract!EndPhase
<1> USE DEF ScryptEndFill
<1>1. /\ ScryptInv /\ job \in Jobs /\ job.N \in Nat
  BY ScryptFacts, Buffers
<1>2. i = job.N
  BY <1>1 DEF ScryptInv
<1>3. From' = From
  BY <1>1, RegionsStay DEF From
<1>4. /\ SBoxTable' = << >> /\ SBoxTable = << >> /\ Block' = Read(mem, From, 2 * R)
      /\ Table' = [k \in 0 .. job.N - 1 |-> Read(mem, VRow(k), 2 * R)] /\ Done' = 0
  <2>1. i' + half' = 0
    OBVIOUS
  <2> QED
    BY <1>3, <2>1, ScryptNextView
<1>5. /\ Block = Read(mem, From, 2 * R) /\ Done = job.N
      /\ Table = [k \in 0 .. job.N - 1 |-> Read(mem, VRow(k), 2 * R)]
  <2>1. i + half = job.N
    BY <1>1, <1>2
  <2> QED
    BY <2>1, ScryptViewHolds DEF ScryptView
<1>6. Abstract!After = "mix" /\ Abstract!Steps = job.N
  BY DEF Abstract!After, Abstract!Steps
<1> QED
  BY <1>4, <1>5, <1>6 DEF Abstract!EndPhase

(* Storing the block in B ends the last phase.                             *)
LEMMA ScryptStoreStep ==
  ASSUME PowInv, PowInv', ~ job.yescrypt, ScryptStore
  PROVE  Abstract!EndPhase
<1> USE DEF ScryptStore, GoTo
<1>1. /\ ScryptInv /\ job \in Jobs /\ job.N \in Nat /\ Memory(mem) /\ StageR = R
      /\ R \in Nat \ {0}
  BY ScryptFacts, Buffers
<1>2. i = job.N /\ From = XAt
  BY <1>1 DEF ScryptInv, From
<1>3. Inside(XAt, 2 * R) /\ Inside(BAt, 2 * R) /\ 2 * R \in Nat
  BY <1>1, Regions
<1>4. Read(mem', BAt, 2 * R) = Read(mem, XAt, 2 * R)
  BY <1>1, <1>3, ReadOfCopy
<1>5. SBoxTable' = << >> /\ Block' = Read(mem', BAt, 2 * R) /\ Table' = << >> /\ Done' = 0
  <2>1. ScryptView' /\ R' = R /\ BAt' = BAt
    BY ScryptViewStays, RegionsStay
  <2> QED
    BY <2>1 DEF ScryptView
<1>6. SBoxTable = << >> /\ Block = Read(mem, XAt, 2 * R) /\ Done = job.N
  <2>1. i + half = job.N
    BY <1>1, <1>2
  <2> QED
    BY <1>2, <2>1, ScryptViewHolds DEF ScryptView
<1>7. Abstract!After = "done" /\ Abstract!Steps = job.N
  BY DEF Abstract!After, Abstract!Steps
<1> QED
  BY <1>4, <1>5, <1>6, <1>7 DEF Abstract!EndPhase

(* A stutter of the program is one of the specification.                   *)
LEMMA ScryptStutters ==
  ASSUME PowInv, PowInv', ~ job.yescrypt, UNCHANGED vars
  PROVE  UNCHANGED Abstract!romixVars
<1>1. UNCHANGED <<job, mem, stage, pc, i, half, nn, j>>
  BY DEF vars
<1>2. ScryptView /\ ScryptView'
  BY ScryptViewStays, ScryptViewHolds
<1>3. /\ R' = R /\ BAt' = BAt /\ XAt' = XAt /\ YAt(StageR)' = YAt(StageR)
      /\ \A k : VRow(k)' = VRow(k)
  BY <1>1, RegionsStay
<1>4. From' = From
  BY <1>1, <1>3 DEF From
<1>5. SBoxTable' = SBoxTable /\ Block' = Block /\ Done' = Done
  BY <1>1, <1>2, <1>3, <1>4 DEF ScryptView
<1>6. Table' = Table
  <2>1. Table' = IF stage = "done" THEN << >>
                 ELSE [k \in 0 .. (IF stage = "fill" THEN Done ELSE job.N) - 1 |->
                         Read(mem, VRow(k)', 2 * R)]
    BY <1>1, <1>2, <1>3, <1>5 DEF ScryptView
  <2> QED
    BY <1>2, <1>3, <2>1 DEF ScryptView
<1> QED
  BY <1>1, <1>5, <1>6 DEF Abstract!romixVars

(* Every step of scrypt.                                                   *)
LEMMA ScryptSteps ==
  ASSUME PowInv, PowInv', ~ job.yescrypt, [PowNext]_vars
  PROVE  ~ job'.yescrypt /\ [Abstract!ROMixNext]_(Abstract!romixVars)
<1>1. CASE ScryptNext
  <2>1. UNCHANGED job
    BY <1>1 DEF ScryptNext, ScryptLoad, ScryptFill, ScryptEndFill, ScryptMix, ScryptStore,
                NextHalf, GoTo
  <2>2. UNCHANGED Abstract!romixVars \/ Abstract!ROMixNext
    BY <1>1, ScryptLoadStutters, ScryptFillStep, ScryptEndFillStep, ScryptMixStep,
       ScryptStoreStep DEF ScryptNext, Abstract!ROMixNext
  <2> QED
    BY <2>1, <2>2
<1>2. CASE UNCHANGED vars
  BY <1>2, ScryptStutters DEF vars
<1>3. ~ YescryptNext /\ ~ SimdNext
  <2>1. job \in Jobs
    BY DEF PowInv, CounterInv
  <2> QED
    BY <2>1, Sizes DEF YescryptNext, SimdNext
<1> QED
  BY <1>1, <1>2, <1>3 DEF PowNext

(* The mixing begins with a block and no table.                            *)
LEMMA ScryptBegins ==
  ASSUME ScratchpadInit, ~ job.yescrypt
  PROVE  Abstract!ROMixInit
<1>1. PowInv
  BY PowInvInit
<1>2. job \in Jobs /\ stage = "fill" /\ pc = "load" /\ R \in Nat \ {0}
  BY Sizes DEF ScratchpadInit
<1>3. /\ SBoxTable = << >> /\ Block = Read(mem, BAt, 2 * R) /\ Done = 0
      /\ Table = [k \in 0 .. 0 - 1 |-> Read(mem, VRow(k), 2 * R)]
  BY <1>1, <1>2, ScryptViewHolds DEF ScryptView
<1>4. Table = << >>
  <2>1. 0 - 1 = -1
    OBVIOUS
  <2> QED
    BY <1>3, <2>1, EmptyTable
<1>5. Block \in [0 .. 2 * R - 1 -> Word]
  <2>1. Own(mem, BAt, 2 * R)
    BY <1>1 DEF PowInv, OwnInv
  <2>2. \A k \in 0 .. 2 * R - 1 : BAt + k \in BAt .. BAt + 2 * R - 1
    BY <2>1 DEF Own
  <2> QED
    BY <1>3, <2>1, <2>2 DEF Own, Read
<1>6. Block \in [0 .. 2 * job.r - 1 -> Abstract!Word]
  BY <1>5, AbstractSame DEF R
<1> QED
  BY <1>2, <1>3, <1>4, <1>6 DEF Abstract!ROMixInit

-----------------------------------------------------------------------------
(***************************************************************************)
(* The two builds of yescrypt.                                             *)
(***************************************************************************)

(* A quotient of 0 or 1.                                                   *)
LEMMA DivideOnce ==
  ASSUME NEW p \in Nat \ {0}, NEW a \in 0 .. 2 * p - 1
  PROVE  /\ a % (2 * p) = a /\ a \div (2 * p) = 0
         /\ (2 * p + a) % (2 * p) = a /\ (2 * p + a) \div (2 * p) = 1
<1> DEFINE w == 2 * p
<1>1. w \in Nat \ {0} /\ a \in 0 .. w - 1
  OBVIOUS
<1> HIDE DEF w
<1>2. a % w = a /\ a \div w = 0
  BY <1>1
<1>3. (w + a) % w = a /\ (w + a) \div w = 1
  BY <1>1
<1> QED
  BY <1>2, <1>3 DEF w

(* The two permutations undo each other, and the exclusive or commutes     *)
(* with them.                                                              *)
LEMMA ShufflesUndo ==
  /\ \A a \in Word : Unshuffle[Shuffle[a]] = a /\ Shuffle[Unshuffle[a]] = a
  /\ \A a, b \in Word : Unshuffle[XorWord(a, b)] = XorWord(Unshuffle[a], Unshuffle[b])
<1> DEFINE p == Power2[Bits - 1]
<1>1. p \in Nat \ {0} /\ Power2[Bits] = 2 * p
  <2>1. Bits - 1 \in Nat /\ (Bits - 1) + 1 = Bits
    BY BlockMixSizes
  <2> QED
    BY <2>1, Powers
<1>2. Word = 0 .. 2 * p - 1
  BY <1>1 DEF Word
<1>3. ASSUME NEW a \in Word
      PROVE  /\ Shuffle[a] = ((2 * a) % (2 * p)) + ((2 * a) \div (2 * p))
             /\ Unshuffle[a] = (a \div 2) + (a % 2) * p
  BY <1>1 DEF Shuffle, Unshuffle
<1> HIDE DEF p
<1>4. ASSUME NEW a \in Word PROVE Unshuffle[Shuffle[a]] = a
  <2>1. Shuffle[a] \in Word
    BY ShuffleIsWord
  <2>2. CASE a < p
    <3>1. Shuffle[a] = 2 * a
      <4>1. 2 * a \in 0 .. 2 * p - 1
        BY <1>1, <1>2, <2>2
      <4>2. (2 * a) % (2 * p) = 2 * a /\ (2 * a) \div (2 * p) = 0
        BY <1>1, <4>1, DivideOnce
      <4> QED
        BY <1>2, <1>3, <4>2
    <3>2. (2 * a) \div 2 = a /\ (2 * a) % 2 = 0 /\ 0 * p = 0
      BY <1>1, <1>2
    <3>3. Unshuffle[2 * a] = ((2 * a) \div 2) + ((2 * a) % 2) * p
      BY <1>3, <2>1, <3>1
    <3> QED
      BY <1>2, <3>1, <3>2, <3>3
  <2>3. CASE p <= a
    <3>1. Shuffle[a] = 2 * (a - p) + 1
      <4>1. 2 * (a - p) \in 0 .. 2 * p - 1 /\ 2 * a = 2 * p + 2 * (a - p)
        BY <1>1, <1>2, <2>3
      <4>2. (2 * a) % (2 * p) = 2 * (a - p) /\ (2 * a) \div (2 * p) = 1
        BY <1>1, <4>1, DivideOnce
      <4> QED
        BY <1>2, <1>3, <4>2
    <3>2. (2 * (a - p) + 1) \div 2 = a - p /\ (2 * (a - p) + 1) % 2 = 1 /\ 1 * p = p
      BY <1>1, <1>2, <2>3
    <3>3. Unshuffle[2 * (a - p) + 1]
            = ((2 * (a - p) + 1) \div 2) + ((2 * (a - p) + 1) % 2) * p
      BY <1>3, <2>1, <3>1
    <3> QED
      BY <1>1, <1>2, <3>1, <3>2, <3>3
  <2> QED
    BY <1>1, <1>2, <2>2, <2>3
<1>5. ASSUME NEW a \in Word PROVE Shuffle[Unshuffle[a]] = a
  <2>1. Unshuffle[a] \in Word
    BY UnshuffleIsWord
  <2> DEFINE h == a \div 2
  <2>2. h \in Nat /\ h < p /\ (a % 2 = 0 => a = 2 * h) /\ (a % 2 = 1 => a = 2 * h + 1)
        /\ a % 2 \in {0, 1}
    BY <1>1, <1>2
  <2>3. CASE a % 2 = 0
    <3>1. Unshuffle[a] = h
      <4>1. 0 * p = 0 /\ h + 0 = h
        BY <1>1, <2>2
      <4> QED
        BY <1>3, <2>3, <4>1
    <3> HIDE DEF h
    <3>2. (2 * h) % (2 * p) = 2 * h /\ (2 * h) \div (2 * p) = 0
      BY <1>1, <2>2, DivideOnce
    <3> QED
      BY <1>3, <2>1, <2>2, <2>3, <3>1, <3>2
  <2>4. CASE a % 2 = 1
    <3>1. Unshuffle[a] = h + p
      <4>1. 1 * p = p
        BY <1>1
      <4> QED
        BY <1>3, <2>4, <4>1
    <3> HIDE DEF h
    <3>2. (2 * (h + p)) % (2 * p) = 2 * h /\ (2 * (h + p)) \div (2 * p) = 1
      <4>1. 2 * h \in 0 .. 2 * p - 1 /\ 2 * (h + p) = 2 * p + 2 * h
        BY <1>1, <2>2
      <4> QED
        BY <1>1, <4>1, DivideOnce
    <3> QED
      BY <1>3, <2>1, <2>2, <2>4, <3>1, <3>2
  <2> QED
    BY <2>2, <2>3, <2>4
<1>6. ASSUME NEW a \in Word, NEW b \in Word
      PROVE  Unshuffle[XorWord(a, b)] = XorWord(Unshuffle[a], Unshuffle[b])
  <2>1. Unshuffle[a] \in Word /\ Unshuffle[b] \in Word
    BY UnshuffleIsWord
  <2>2. XorWord(Unshuffle[a], Unshuffle[b]) \in Word
    BY <2>1, XorOfWords
  <2>3. XorWord(Shuffle[Unshuffle[a]], Shuffle[Unshuffle[b]])
          = Shuffle[XorWord(Unshuffle[a], Unshuffle[b])]
    BY <2>1, ShuffleOfXor
  <2> QED
    BY <1>4, <1>5, <2>2, <2>3
<1> QED
  BY <1>4, <1>5, <1>6

(* What ROMix has besides, for pwxform.                                    *)
LEMMA AbstractPwxform ==
  /\ Abstract!Shuffle = Shuffle /\ Abstract!Unshuffle = Unshuffle
  /\ \A S, a : Abstract!Pwxform(S, a) = Pwxform(S, a)
<1>1. Abstract!Power2 = Power2
  BY DEF Abstract!Power2, Power2
<1>2. Abstract!Shuffle = Shuffle /\ Abstract!Unshuffle = Unshuffle
  BY <1>1, AbstractSame DEF Abstract!Shuffle, Shuffle, Abstract!Unshuffle, Unshuffle
<1>3. \A S, a : Abstract!PwxRound(S, a) = PwxRound(S, a)
  BY <1>1, AbstractSame DEF Abstract!PwxRound, PwxRound
<1>4. \A S, a : Abstract!Pwxform(S, a) = Pwxform(S, a)
  BY <1>3 DEF Abstract!Pwxform, Pwxform
<1> QED
  BY <1>2, <1>4

(* The S-box in memory, as the code reads it.                              *)
STable == [k \in 1 .. SSize |-> mem[SAt + k - 1]]

(* A sub-block hashed, as numbered: by Salsa20 while the S-box is filled,  *)
(* then by pwxform, and the last by both.                                  *)
Link ==
  [kw \in (0 .. 2 * StageR - 1) \X Word |->
     IF stage = "sbox" THEN ShuffledCore[kw[2]]
     ELSE IF kw[1] = 2 * R - 1 THEN ShuffledCore[Pwxform(STable, kw[2])]
     ELSE Pwxform(STable, kw[2])]

(* out is what the code makes of b, both permuted.                         *)
MixesTo(b, out) ==
  \E c \in Chain(Link, b, 2 * StageR) : out = [k \in 0 .. 2 * StageR - 1 |-> c[k + 1]]

(* The links are words.                                                    *)
LEMMA LinkIsWord ==
  ASSUME PowInv, job.yescrypt
  PROVE  /\ Link \in [(0 .. 2 * StageR - 1) \X Word -> Word]
         /\ stage # "sbox" => IsTable(STable)
<1>1. ShuffledCore \in [Word -> Word] /\ job \in Jobs
  BY YescryptFacts, ShuffledCoreIsWord
<1>2. ASSUME stage # "sbox" PROVE IsTable(STable)
  BY <1>2, YescryptFacts, TableInMemory DEF STable
<1>3. ASSUME NEW kw \in (0 .. 2 * StageR - 1) \X Word
      PROVE  (IF stage = "sbox" THEN ShuffledCore[kw[2]]
              ELSE IF kw[1] = 2 * R - 1 THEN ShuffledCore[Pwxform(STable, kw[2])]
              ELSE Pwxform(STable, kw[2])) \in Word
  <2>1. kw[2] \in Word
    OBVIOUS
  <2>2. stage # "sbox" => Pwxform(STable, kw[2]) \in Word
    BY <1>2, <2>1, PwxformIsWord
  <2> QED
    BY <1>1, <2>1, <2>2
<1> QED
  BY <1>2, <1>3 DEF Link

(* The plain form of a block of words.                                     *)
LEMMA PlainIs ==
  ASSUME job.yescrypt, NEW n \in Nat, NEW b \in [0 .. n - 1 -> Word]
  PROVE  /\ Plain(b) \in [0 .. n - 1 -> Word]
         /\ \A k \in 0 .. n - 1 : Plain(b)[k] = Unshuffle[b[k]]
<1>1. ASSUME NEW k \in 0 .. n - 1
      PROVE  Lift(Unshuffle, b[k]) = Unshuffle[b[k]] /\ Unshuffle[b[k]] \in Word
  <2>1. b[k] \in Word
    OBVIOUS
  <2> QED
    BY <2>1, UnshuffleIsWord, Cells DEF Lift
<1> QED
  BY <1>1 DEF Plain

(* pwxform of the specification is that of the code between permutations.  *)
LEMMA PwxOfWordIs ==
  ASSUME PowInv, job.yescrypt, stage # "sbox", NEW a \in Word
  PROVE  Abstract!PwxOfWord(a) = Unshuffle[Pwxform(STable, Shuffle[a])]
<1>1. job \in Jobs /\ Own(mem, SAt, SSize) /\ SSize = 2 * job.sboxRows /\ job.sboxRows \in Nat
  BY YescryptFacts, Sizes
<1>2. ASSUME NEW k \in 1 .. 2 * job.sboxRows
      PROVE  Lift(Shuffle, SBoxTable[(k - 1) \div 2][(k - 1) % 2]) = mem[SAt + k - 1]
  <2> DEFINE q == (k - 1) \div 2
             e == (k - 1) % 2
  <2>1. q \in 0 .. job.sboxRows - 1 /\ e \in 0 .. 1 /\ 2 * q + e = k - 1
    BY <1>1
  <2> HIDE DEF q, e
  <2>2. SBoxTable[q] = Plain(Read(mem, SAt + 2 * q, 2))
    BY <2>1 DEF SBoxTable, RowsOf, SRow
  <2>3. SAt + k - 1 \in SAt .. SAt + SSize - 1 /\ SAt + 2 * q + e = SAt + k - 1
    BY <1>1, <2>1 DEF Own
  <2>4. mem[SAt + k - 1] \in Word
    BY <1>1, <2>3 DEF Own
  <2>5. Read(mem, SAt + 2 * q, 2)[e] = mem[SAt + k - 1] /\ e \in DOMAIN Read(mem, SAt + 2 * q, 2)
    BY <2>1, <2>3 DEF Read
  <2>6. SBoxTable[q][e] = Lift(Unshuffle, mem[SAt + k - 1])
    BY <2>2, <2>5 DEF Plain
  <2>7. Lift(Unshuffle, mem[SAt + k - 1]) = Unshuffle[mem[SAt + k - 1]]
        /\ Unshuffle[mem[SAt + k - 1]] \in Word
    BY <2>4, UnshuffleIsWord, Cells DEF Lift
  <2>8. Lift(Shuffle, Unshuffle[mem[SAt + k - 1]]) = mem[SAt + k - 1]
    BY <2>4, <2>7, ShufflesUndo, Cells DEF Lift
  <2> QED
    BY <2>6, <2>7, <2>8 DEF q, e
<1>3. Abstract!SBox = STable
  BY <1>1, <1>2, AbstractSame, AbstractPwxform DEF Abstract!SBox, STable
<1>4. Shuffle[a] \in Word /\ Lift(Shuffle, a) = Shuffle[a]
  BY ShuffleIsWord, Cells DEF Lift
<1>5. Pwxform(STable, Shuffle[a]) \in Word
  BY <1>4, LinkIsWord, PwxformIsWord
<1>6. Lift(Unshuffle, Pwxform(STable, Shuffle[a])) = Unshuffle[Pwxform(STable, Shuffle[a])]
  BY <1>5, Cells DEF Lift
<1> QED
  BY <1>3, <1>4, <1>6, AbstractSame, AbstractPwxform DEF Abstract!PwxOfWord

(* The variant with pwxform is read off a chain too.                       *)
PwxMix(core, b, r) == Abstract!SpecBlockMixPwx(core, Abstract!PwxOfWord, b, r)

(* The variant of BlockMix with pwxform gives the cells of a chain, the    *)
(* last one through the core.                                              *)
LEMMA SpecBlockMixPwxIs ==
  ASSUME NEW r \in Nat \ {0}, NEW core \in [Word -> Word], NEW b \in [0 .. 2 * r - 1 -> Word],
         NEW f \in [Word -> Word], \A a \in Word : Abstract!PwxOfWord(a) = f[a],
         NEW c, c \in Chain(ByCore(f, 2 * r), b, 2 * r)
  PROVE  PwxMix(core, b, r) =
           [k \in 0 .. 2 * r - 1 |-> IF k = 2 * r - 1 THEN core[c[k + 1]] ELSE c[k + 1]]
<1> DEFINE Eq(g) == g = [k \in 0 .. 2 * r - 1 |->
                      Abstract!PwxOfWord(
                        Abstract!XorCell(IF k = 0 THEN b[2 * r - 1] ELSE g[k - 1], b[k]))]
           Y == CHOOSE g : Eq(g)
           h == [k \in 0 .. 2 * r - 1 |-> c[k + 1]]
           T == {k \in 0 .. 2 * r - 1 : Y[k] = c[k + 1]}
<1>1. ASSUME NEW k \in 0 .. 2 * r - 1
      PROVE  /\ c[k + 1] \in Word
             /\ c[k + 1] = Abstract!PwxOfWord(Abstract!XorCell(c[k], b[k]))
             /\ k # 0 => k - 1 \in 0 .. 2 * r - 1 /\ (k - 1) + 1 = k
  <2>1. k \in 0 .. 2 * r /\ k + 1 \in 0 .. 2 * r
        /\ (k # 0 => k - 1 \in 0 .. 2 * r - 1 /\ (k - 1) + 1 = k)
    OBVIOUS
  <2>2. /\ c[k] \in Word /\ c[k + 1] \in Word
        /\ c[k + 1] = ByCore(f, 2 * r)[<<k, XorCell(c[k], b[k])>>]
    BY <2>1 DEF Chain
  <2>3. XorCell(c[k], b[k]) \in Word
    BY <2>2, Cells
  <2>4. f[XorCell(c[k], b[k])] = Abstract!PwxOfWord(Abstract!XorCell(c[k], b[k]))
    BY <2>3, AbstractSame
  <2> QED
    BY <2>1, <2>2, <2>3, <2>4 DEF ByCore
<1>2. c[0] = b[2 * r - 1]
  BY DEF Chain
<1>3. \A k \in 0 .. 2 * r - 1 : IF k = 0 THEN c[k] = b[2 * r - 1] ELSE c[k] = h[k - 1]
  BY <1>1, <1>2
<1>4. Eq(h)
  <2>1. ASSUME NEW k \in 0 .. 2 * r - 1
        PROVE  h[k] = Abstract!PwxOfWord(
                        Abstract!XorCell(IF k = 0 THEN b[2 * r - 1] ELSE h[k - 1], b[k]))
    <3>1. (IF k = 0 THEN b[2 * r - 1] ELSE h[k - 1]) = c[k]
      BY <1>3
    <3> QED
      BY <1>1, <3>1
  <2>2. h = [k \in 0 .. 2 * r - 1 |-> h[k]]
    OBVIOUS
  <2> HIDE DEF h
  <2> QED
    BY <2>1, <2>2
<1>5. Eq(Y)
  <2> HIDE DEF Eq
  <2> QED
    BY <1>4
<1> HIDE DEF Y
<1>6. 0 \in T
  <2>1. Y[0] = Abstract!PwxOfWord(Abstract!XorCell(b[2 * r - 1], b[0]))
    BY <1>5
  <2> QED
    BY <1>1, <1>2, <2>1
<1>7. ASSUME NEW k \in 0 .. (2 * r - 1) - 1, k \in T PROVE k + 1 \in T
  <2>1. k + 1 \in 0 .. 2 * r - 1 /\ k + 1 # 0 /\ (k + 1) - 1 = k
    OBVIOUS
  <2>2. Y[k + 1] = Abstract!PwxOfWord(Abstract!XorCell(Y[k], b[k + 1]))
    BY <1>5, <2>1
  <2> QED
    BY <1>1, <1>7, <2>1, <2>2
<1>8. ASSUME NEW k \in 0 .. 2 * r - 1 PROVE Y[k] = c[k + 1]
  <2>1. k \in T
    <3>1. 0 \in T /\ \A q \in 0 .. k - 1 : q \in T => q + 1 \in T
      BY <1>6, <1>7
    <3> HIDE DEF T
    <3> QED
      BY <3>1, FoldInduction
  <2> QED
    BY <2>1
<1>9. PwxMix(core, b, r) =
        [k \in 0 .. 2 * r - 1 |-> IF k = 2 * r - 1 THEN Abstract!Lift(core, Y[k]) ELSE Y[k]]
  BY DEF PwxMix, Abstract!SpecBlockMixPwx, Y
<1>10. ASSUME NEW k \in 0 .. 2 * r - 1 PROVE Abstract!Lift(core, Y[k]) = core[c[k + 1]]
  BY <1>1, <1>8, AbstractSame, Cells DEF Lift
<1> QED
  BY <1>8, <1>9, <1>10

(* The two outputs, for lemmas to name.                                    *)
SalsaOut(c, r) ==
  [k \in 0 .. 2 * r - 1 |-> IF k < r THEN c[2 * k + 1] ELSE c[2 * (k - r) + 2]]
PwxOut(core, c, r) ==
  [k \in 0 .. 2 * r - 1 |-> IF k = 2 * r - 1 THEN core[c[k + 1]] ELSE c[k + 1]]

(* What the plain BlockMix gives, by that name.                            *)
LEMMA SpecOutIs ==
  \A r \in Nat \ {0}, core \in [Word -> Word] : \A b \in [0 .. 2 * r - 1 -> Word] :
    \A c \in Chain(ByCore(core, 2 * r), b, 2 * r) : SpecBlockMix(core, b, r) = SalsaOut(c, r)
  BY SpecBlockMixIs DEF SalsaOut

(* What the variant with pwxform gives, by that name.                      *)
LEMMA PwxOutIs ==
  ASSUME NEW f \in [Word -> Word], \A a \in Word : Abstract!PwxOfWord(a) = f[a]
  PROVE  \A r \in Nat \ {0}, core \in [Word -> Word] : \A b \in [0 .. 2 * r - 1 -> Word] :
           \A c \in Chain(ByCore(f, 2 * r), b, 2 * r) : PwxMix(core, b, r) = PwxOut(core, c, r)
  BY SMTT(30), SpecBlockMixPwxIs DEF PwxOut

(* What the code computes is, unpermuted, what ROMix does.                 *)
LEMMA MixedIs ==
  ASSUME PowInv, job.yescrypt, NEW b \in [0 .. 2 * StageR - 1 -> Word],
         NEW out, MixesTo(b, out)
  PROVE  Abstract!Mixed(Plain(b)) =
           [k \in 0 .. 2 * R - 1 |-> IF k < 2 * StageR THEN Plain(out)[k] ELSE Block[k]]
<1> DEFINE n == 2 * StageR
           pb == Plain(b)
<1>1. PICK c \in Chain(Link, b, n) : out = [k \in 0 .. n - 1 |-> c[k + 1]]
  BY DEF MixesTo
<1>2. /\ job \in Jobs /\ job.core \in [Word -> Word] /\ StageR \in Nat \ {0}
      /\ n \in Nat \ {0} /\ StageR <= R /\ R \in Nat \ {0}
      /\ stage = "sbox" => StageR = 1
      /\ stage # "sbox" => StageR = R
  BY YescryptFacts, ShuffledCoreIsWord
<1> HIDE DEF n, pb
<1>3. c \in [0 .. n -> Word] /\ c[0] = b[n - 1]
      /\ \A k \in 0 .. n - 1 : c[k + 1] = Link[<<k, XorCell(c[k], b[k])>>]
  BY <1>1 DEF Chain
<1>4. out \in [0 .. n - 1 -> Word]
  <2>1. \A k \in 0 .. n - 1 : k + 1 \in 0 .. n
    BY <1>2
  <2> QED
    BY <1>1, <1>3, <2>1
<1>5. /\ pb \in [0 .. n - 1 -> Word] /\ \A k \in 0 .. n - 1 : pb[k] = Unshuffle[b[k]]
      /\ Plain(out) \in [0 .. n - 1 -> Word]
      /\ \A k \in 0 .. n - 1 : Plain(out)[k] = Unshuffle[c[k + 1]]
  <2>1. n \in Nat /\ b \in [0 .. n - 1 -> Word]
    BY <1>2 DEF n
  <2>2. Plain(b) \in [0 .. n - 1 -> Word] /\ \A k \in 0 .. n - 1 : Plain(b)[k] = Unshuffle[b[k]]
    BY <2>1, PlainIs
  <2>3. /\ Plain(out) \in [0 .. n - 1 -> Word]
        /\ \A k \in 0 .. n - 1 : Plain(out)[k] = Unshuffle[out[k]]
    BY <1>4, <2>1, PlainIs
  <2>4. \A k \in 0 .. n - 1 : out[k] = c[k + 1]
    BY <1>1
  <2> QED
    BY <2>2, <2>3, <2>4 DEF pb
<1> DEFINE d == [k \in 0 .. n |-> Unshuffle[c[k]]]
<1>6. d \in [0 .. n -> Word] /\ d[0] = pb[n - 1]
  <2>1. 0 \in 0 .. n /\ n - 1 \in 0 .. n - 1
    BY <1>2
  <2> QED
    BY <1>3, <1>5, <2>1, UnshuffleIsWord
<1>7. ASSUME NEW k \in 0 .. n - 1
      PROVE  /\ XorCell(c[k], b[k]) \in Word /\ XorCell(d[k], pb[k]) \in Word
             /\ Unshuffle[XorCell(c[k], b[k])] = XorCell(d[k], pb[k])
             /\ Shuffle[XorCell(d[k], pb[k])] = XorCell(c[k], b[k])
             /\ d[k + 1] = Unshuffle[Link[<<k, XorCell(c[k], b[k])>>]]
             /\ k + 1 \in 0 .. n /\ k \in 0 .. n
  <2>1. k \in 0 .. n /\ k + 1 \in 0 .. n
    BY <1>2
  <2>2. c[k] \in Word /\ b[k] \in Word /\ d[k] = Unshuffle[c[k]] /\ pb[k] = Unshuffle[b[k]]
        /\ d[k] \in Word /\ pb[k] \in Word
    BY <1>3, <1>5, <1>6, <2>1 DEF n
  <2>3. /\ XorCell(c[k], b[k]) = XorWord(c[k], b[k]) /\ XorCell(c[k], b[k]) \in Word
        /\ XorCell(d[k], pb[k]) = XorWord(d[k], pb[k]) /\ XorCell(d[k], pb[k]) \in Word
    BY <2>2, Cells DEF XorCell
  <2>4. Unshuffle[XorCell(c[k], b[k])] = XorCell(d[k], pb[k])
    BY <2>2, <2>3, ShufflesUndo
  <2>5. Shuffle[XorCell(d[k], pb[k])] = XorCell(c[k], b[k])
    BY <2>3, <2>4, ShufflesUndo
  <2>6. d[k + 1] = Unshuffle[Link[<<k, XorCell(c[k], b[k])>>]]
    BY <1>3, <2>1
  <2> QED
    BY <2>1, <2>3, <2>4, <2>5, <2>6
<1> HIDE DEF d
<1>8. ASSUME NEW w \in Word
      PROVE  ShuffledCore[w] \in Word /\ Unshuffle[ShuffledCore[w]] = job.core[Unshuffle[w]]
  <2>1. Unshuffle[w] \in Word /\ job.core[Unshuffle[w]] \in Word
    BY <1>2, UnshuffleIsWord
  <2>2. ShuffledCore[w] = Shuffle[job.core[Unshuffle[w]]]
    BY DEF ShuffledCore
  <2> QED
    BY <2>1, <2>2, ShufflesUndo, ShuffleIsWord
<1> DEFINE y == IF stage # "sbox"
                THEN PwxMix(job.core, pb, R)
                ELSE SpecBlockMix(job.core, pb, StageR)
<1>9. y = Plain(out)
  <2>1. CASE stage = "sbox"
    <3>1. n = 2 /\ n = 2 * StageR
      BY <1>2, <2>1 DEF n
    <3>2. ASSUME NEW k \in 0 .. n - 1
          PROVE  d[k + 1] = ByCore(job.core, n)[<<k, XorCell(d[k], pb[k])>>]
      <4>1. Link[<<k, XorCell(c[k], b[k])>>] = ShuffledCore[XorCell(c[k], b[k])]
        BY <1>7, <2>1 DEF Link, n
      <4> QED
        BY <1>7, <1>8, <4>1 DEF ByCore
    <3>3. d \in Chain(ByCore(job.core, 2 * StageR), pb, 2 * StageR)
      BY <1>6, <3>2 DEF Chain, n
    <3>4. SpecBlockMix(job.core, pb, StageR) = SalsaOut(d, StageR)
      <4>1. pb \in [0 .. 2 * StageR - 1 -> Word]
        BY <1>5 DEF n
      <4>2. StageR \in Nat \ {0} /\ job.core \in [Word -> Word]
        BY <1>2
      <4> HIDE DEF y
      <4> DEFINE r == StageR
                 core == job.core
      <4>3. /\ r \in Nat \ {0} /\ core \in [Word -> Word] /\ pb \in [0 .. 2 * r - 1 -> Word]
            /\ d \in Chain(ByCore(core, 2 * r), pb, 2 * r)
        BY <3>3, <4>1, <4>2
      <4> HIDE DEF r, core
      <4>4. SpecBlockMix(core, pb, r) = SalsaOut(d, r)
        BY <4>3, SpecOutIs
      <4> QED
        BY <4>4 DEF r, core
    <3>5. ASSUME NEW k \in 0 .. n - 1
          PROVE  (IF k < StageR THEN d[2 * k + 1] ELSE d[2 * (k - StageR) + 2])
                   = Plain(out)[k]
      <4>1. Plain(out)[k] = d[k + 1]
        BY <1>5, <1>7 DEF d
      <4>2. (k = 0 \/ k = 1) /\ StageR = 1
        BY <1>2, <2>1, <3>1
      <4> QED
        BY <4>1, <4>2
    <3>6. y = [k \in 0 .. n - 1 |-> IF k < StageR THEN d[2 * k + 1] ELSE d[2 * (k - StageR) + 2]]
      BY <2>1, <3>1, <3>4 DEF SalsaOut
    <3>7. Plain(out) = [k \in 0 .. n - 1 |-> Plain(out)[k]]
      BY <1>5
    <3> HIDE DEF y
    <3> QED
      BY <3>5, <3>6, <3>7
  <2>2. CASE stage # "sbox"
    <3> DEFINE f == [w \in Word |-> Unshuffle[Pwxform(STable, Shuffle[w])]]
               D == [k \in 0 .. n |-> IF k = n THEN f[XorCell(d[n - 1], pb[n - 1])] ELSE d[k]]
    <3>1. n = 2 * R /\ n - 1 \in 0 .. n - 1 /\ n - 1 \in 0 .. n /\ n - 1 # n
      BY <1>2, <2>2 DEF n
    <3>2. ASSUME NEW w \in Word
          PROVE  Pwxform(STable, w) \in Word /\ Pwxform(STable, Shuffle[w]) \in Word
      BY <2>2, LinkIsWord, PwxformIsWord, ShuffleIsWord
    <3>3. f \in [Word -> Word] /\ \A w \in Word : Abstract!PwxOfWord(w) = f[w]
      BY <2>2, <3>2, UnshuffleIsWord, PwxOfWordIs
    <3>4. ASSUME NEW k \in 0 .. n - 1
          PROVE  /\ f[XorCell(d[k], pb[k])] = Unshuffle[Pwxform(STable, XorCell(c[k], b[k]))]
                 /\ k # n - 1 => d[k + 1] = f[XorCell(d[k], pb[k])]
                 /\ k = n - 1 => d[k + 1] = job.core[f[XorCell(d[k], pb[k])]]
      <4>1. f[XorCell(d[k], pb[k])] = Unshuffle[Pwxform(STable, XorCell(c[k], b[k]))]
        BY <1>7
      <4>2. Link[<<k, XorCell(c[k], b[k])>>] =
              IF k = n - 1 THEN ShuffledCore[Pwxform(STable, XorCell(c[k], b[k]))]
              ELSE Pwxform(STable, XorCell(c[k], b[k]))
        BY <1>7, <2>2, <3>1 DEF Link, n
      <4>3. Pwxform(STable, XorCell(c[k], b[k])) \in Word
        BY <1>7, <3>2
      <4> QED
        BY <1>7, <1>8, <4>1, <4>2, <4>3
    <3> HIDE DEF f
    <3>5. D \in Chain(ByCore(f, 2 * R), pb, 2 * R)
      <4>1. D \in [0 .. n -> Word]
        BY <1>6, <1>7, <3>1, <3>3
      <4>2. D[0] = pb[n - 1]
        BY <1>2, <1>6
      <4>3. ASSUME NEW k \in 0 .. n - 1
            PROVE  D[k + 1] = ByCore(f, n)[<<k, XorCell(D[k], pb[k])>>]
        <5>1. D[k] = d[k] /\ k + 1 \in 0 .. n /\ (k + 1 = n <=> k = n - 1)
          BY <1>2
        <5>2. D[k + 1] = f[XorCell(d[k], pb[k])]
          BY <3>4, <5>1
        <5> QED
          BY <1>7, <5>1, <5>2 DEF ByCore
      <4> HIDE DEF D
      <4> QED
        BY <3>1, <4>1, <4>2, <4>3 DEF Chain
    <3>6. y = PwxOut(job.core, D, R)
      <4> HIDE DEF D
      <4>1. pb \in [0 .. 2 * R - 1 -> Word]
        BY <1>5, <3>1
      <4>2. PwxMix(job.core, pb, R) = PwxOut(job.core, D, R)
        <5>1. R \in Nat \ {0} /\ job.core \in [Word -> Word]
          BY <1>2
        <5>2. \A r \in Nat \ {0}, core \in [Word -> Word] : \A bb \in [0 .. 2 * r - 1 -> Word] :
                \A cc \in Chain(ByCore(f, 2 * r), bb, 2 * r) : PwxMix(core, bb, r) = PwxOut(core, cc, r)
          BY <3>3, PwxOutIs
        <5> HIDE DEF y
        <5> QED
          BY <3>5, <4>1, <5>1, <5>2
      <4> QED
        BY <2>2, <4>2
    <3>7. ASSUME NEW k \in 0 .. n - 1
          PROVE  (IF k = n - 1 THEN job.core[D[k + 1]] ELSE D[k + 1]) = Plain(out)[k]
      <4>1. Plain(out)[k] = d[k + 1]
        BY <1>5, <1>7 DEF d
      <4>2. D[k + 1] = f[XorCell(d[k], pb[k])]
        <5>1. k + 1 \in 0 .. n /\ (k + 1 = n <=> k = n - 1)
          BY <1>2
        <5> QED
          BY <3>4, <5>1
      <4> QED
        BY <3>4, <4>1, <4>2
    <3> HIDE DEF D, y
    <3> QED
      BY <1>5, <3>1, <3>6, <3>7 DEF PwxOut
  <2> QED
    BY <2>1, <2>2
<1>10. DOMAIN Block = 0 .. 2 * R - 1
  BY DEF Block
<1>11. Abstract!Mixed(pb) = [k \in DOMAIN Block |-> IF k \in DOMAIN y THEN y[k] ELSE Block[k]]
  <2>1. stage = "sbox" => Abstract!SpecBlockMix(job.core, pb, 1) = y
    BY <1>2, AbstractSame
  <2>2. stage # "sbox" => PwxMix(job.core, pb, job.r) = y
    BY DEF R
  <2> HIDE DEF y
  <2>3. CASE stage = "sbox"
    BY <2>1, <2>3 DEF Abstract!Mixed
  <2>4. CASE stage # "sbox"
    BY <2>2, <2>4 DEF Abstract!Mixed, PwxMix
  <2> QED
    BY <2>3, <2>4
<1> HIDE DEF y
<1>12. DOMAIN y = 0 .. n - 1
  BY <1>5, <1>9
<1>13. \A k \in 0 .. 2 * R - 1 : k \in 0 .. n - 1 <=> k < 2 * StageR
  BY <1>2 DEF n
<1> QED
  BY <1>9, <1>10, <1>11, <1>12, <1>13 DEF pb

-----------------------------------------------------------------------------
(* The mixings in registers compute the chain.                             *)

(* What is done to X between two sub-blocks is one link.                   *)
LEMMA HashIsLink ==
  ASSUME MayMix, NEW x \in Word, NEW k \in 0 .. 2 * StageR - 1
  PROVE  Hash(x, k) = Link[<<k, x>>] /\ Link[<<k, x>>] \in Word
<1>1. Hash(x, k) \in Word
  BY HashIsWord
<1>2. <<k, x>> \in (0 .. 2 * StageR - 1) \X Word
  OBVIOUS
<1>3. ASSUME NEW w \in Word PROVE Lift(ShuffledCore, w) = ShuffledCore[w]
  BY Cells DEF Lift
<1>4. CASE stage = "sbox"
  BY <1>1, <1>2, <1>3, <1>4 DEF Hash, Link
<1>5. CASE stage # "sbox"
  <2>1. IsTable(STable)
    BY <1>5, TableInMemory DEF MayMix, STable
  <2>2. Pwxform(STable, x) \in Word
    BY <2>1, PwxformIsWord
  <2>3. Hash(x, k) = IF k = 2 * R - 1 THEN Lift(ShuffledCore, Pwxform(STable, x))
                     ELSE Pwxform(STable, x)
    BY <1>5 DEF Hash, STable
  <2>4. Link[<<k, x>>] = IF k = 2 * R - 1 THEN ShuffledCore[Pwxform(STable, x)]
                         ELSE Pwxform(STable, x)
    BY <1>2, <1>5 DEF Link
  <2> QED
    BY <1>1, <1>3, <2>2, <2>3, <2>4
<1> QED
  BY <1>4, <1>5

(* The memory after k sub-blocks: so many of the chain at Bout and, where  *)
(* the code saves what it absorbs, of the block at Bin2.                   *)
Wrote(m, c, b, Bout, Bin2, save, k) ==
  [a \in 0 .. Need - 1 |->
     IF a \in Bout .. Bout + k - 1 THEN c[a - Bout + 1]
     ELSE IF save /\ a \in Bin2 .. Bin2 + k - 1 THEN b[a - Bin2]
     ELSE m[a]]

(* A mixing of b to Bout that is possible.                                 *)
Mixable(m, c, b, Bout, Bin2, save) ==
  /\ MayMix /\ Memory(m) /\ save \in BOOLEAN
  /\ b \in [0 .. 2 * StageR - 1 -> Word]
  /\ c \in Chain(Link, b, 2 * StageR)
  /\ Inside(Bout, 2 * StageR) /\ Inside(Bin2, 2 * StageR)
  /\ Apart(Bout, 2 * StageR, Bin2, 2 * StageR)

(* One sub-block more.                                                     *)
LEMMA AbsorbComputes ==
  ASSUME NEW m, NEW c, NEW b, NEW Bout, NEW Bin2, NEW save,
         Mixable(m, c, b, Bout, Bin2, save), NEW k \in 0 .. 2 * StageR - 1,
         NEW saved, saved = IF save
                            THEN [Wrote(m, c, b, Bout, Bin2, save, k) EXCEPT ![Bin2 + k] = b[k]]
                            ELSE Wrote(m, c, b, Bout, Bin2, save, k)
  PROVE  Absorb([m |-> saved, x |-> c[k]], k, b[k], Bout)
           = [m |-> Wrote(m, c, b, Bout, Bin2, save, k + 1), x |-> c[k + 1]]
<1> DEFINE n == 2 * StageR
           s == [m |-> saved, x |-> c[k]]
           w == Wrote(m, c, b, Bout, Bin2, save, k)
           next == Wrote(m, c, b, Bout, Bin2, save, k + 1)
<1>1. /\ MayMix /\ n \in Nat \ {0} /\ Need \in Nat /\ Bout \in Nat /\ Bout + n <= Need
      /\ Bin2 \in Nat /\ Bin2 + n <= Need /\ (Bout + n <= Bin2 \/ Bin2 + n <= Bout)
      /\ save \in BOOLEAN
  BY DEF Mixable, MayMix, Inside, Memory, Apart
<1>2. /\ c[k] \in Word /\ b[k] \in Word
      /\ c[k + 1] = Link[<<k, XorCell(c[k], b[k])>>]
  <2>1. c \in Chain(Link, b, n) /\ b \in [0 .. n - 1 -> Word]
    BY DEF Mixable
  <2>3. k \in 0 .. n
    BY <1>1
  <2>2. c \in [0 .. n -> Word] /\ \A q \in 0 .. n - 1 : c[q + 1] = Link[<<q, XorCell(c[q], b[q])>>]
    BY <2>1 DEF Chain
  <2> QED
    BY <2>1, <2>2, <2>3
<1>3. s.m = saved /\ s.x = c[k]
  OBVIOUS
<1> HIDE DEF s
<1>4. Hash(XorCell(s.x, b[k]), k) = c[k + 1]
  <2>1. XorCell(c[k], b[k]) \in Word
    BY <1>2, Cells
  <2> QED
    BY <1>1, <1>2, <1>3, <2>1, HashIsLink
<1>5. Absorb(s, k, b[k], Bout) = [m |-> [saved EXCEPT ![Bout + k] = c[k + 1]], x |-> c[k + 1]]
  BY <1>1, <1>3, <1>4, SlotIs DEF Absorb
<1>6. DOMAIN saved = 0 .. Need - 1 /\ DOMAIN next = 0 .. Need - 1
      /\ next = [a \in 0 .. Need - 1 |-> next[a]]
  BY DEF Wrote
<1>7. ASSUME NEW a \in 0 .. Need - 1
      PROVE  next[a] = IF a = Bout + k THEN c[k + 1] ELSE saved[a]
  <2>1. /\ w[a] = IF a \in Bout .. Bout + k - 1 THEN c[a - Bout + 1]
                  ELSE IF save /\ a \in Bin2 .. Bin2 + k - 1 THEN b[a - Bin2]
                  ELSE m[a]
        /\ next[a] = IF a \in Bout .. Bout + (k + 1) - 1 THEN c[a - Bout + 1]
                     ELSE IF save /\ a \in Bin2 .. Bin2 + (k + 1) - 1 THEN b[a - Bin2]
                     ELSE m[a]
        /\ saved[a] = IF save /\ a = Bin2 + k THEN b[k] ELSE w[a]
    BY DEF Wrote
  <2> HIDE DEF w, next
  <2>2. /\ a \in Bout .. Bout + (k + 1) - 1 <=> a \in Bout .. Bout + k - 1 \/ a = Bout + k
        /\ a \in Bin2 .. Bin2 + (k + 1) - 1 <=> a \in Bin2 .. Bin2 + k - 1 \/ a = Bin2 + k
        /\ a = Bout + k => a - Bout + 1 = k + 1
        /\ a = Bin2 + k => a - Bin2 = k /\ a \notin Bout .. Bout + k - 1 /\ a # Bout + k
                           /\ a \notin Bin2 .. Bin2 + k - 1
        /\ a \in Bout .. Bout + k - 1 => a # Bout + k /\ a \notin Bin2 .. Bin2 + k - 1
    BY <1>1
  <2> QED
    BY <1>1, <2>1, <2>2
<1>8. [saved EXCEPT ![Bout + k] = c[k + 1]] = next
  <2> HIDE DEF next
  <2>1. [saved EXCEPT ![Bout + k] = c[k + 1]]
          = [a \in 0 .. Need - 1 |-> IF a = Bout + k THEN c[k + 1] ELSE saved[a]]
    BY <1>6
  <2> QED
    BY <1>6, <1>7, <2>1
<1> QED
  BY <1>5, <1>8 DEF s

(* Two sequences that begin alike and go on alike end alike.               *)
LEMMA SameEnd ==
  ASSUME NEW n \in Nat, NEW f, NEW g, f[0] = g[0],
         \A k \in 0 .. n - 1 : f[k] = g[k] => f[k + 1] = g[k + 1]
  PROVE  f[n] = g[n]
<1> DEFINE T == {k \in 0 .. n : f[k] = g[k]}
<1>1. 0 \in T
  OBVIOUS
<1>2. ASSUME NEW k \in 0 .. n - 1, k \in T PROVE k + 1 \in T
  BY <1>2
<1>3. n \in T
  <2> HIDE DEF T
  <2> QED
    BY <1>1, <1>2, FoldInduction
<1> QED
  BY <1>3

(* What a mixing has done when all sub-blocks are absorbed.                *)
LEMMA MixingDone ==
  ASSUME NEW m, NEW c, NEW b, NEW Bout, NEW Bin2, NEW save,
         Mixable(m, c, b, Bout, Bin2, save)
  PROVE  LET after == Wrote(m, c, b, Bout, Bin2, save, 2 * StageR)
         IN  /\ MixesTo(b, Read(after, Bout, 2 * StageR))
             /\ after[Bout + LastSub] = c[2 * StageR]
             /\ save => Read(after, Bin2, 2 * StageR) = b
             /\ \A at, k : /\ Inside(at, k) /\ Apart(Bout, 2 * StageR, at, k)
                           /\ save => Apart(Bin2, 2 * StageR, at, k)
                           => Read(after, at, k) = Read(m, at, k)
<1> DEFINE n == 2 * StageR
           after == Wrote(m, c, b, Bout, Bin2, save, n)
<1>1. /\ n \in Nat \ {0} /\ Need \in Nat /\ Bout \in Nat /\ Bout + n <= Need
      /\ Bin2 \in Nat /\ Bin2 + n <= Need /\ (Bout + n <= Bin2 \/ Bin2 + n <= Bout)
      /\ save \in BOOLEAN /\ b \in [0 .. n - 1 -> Word] /\ c \in Chain(Link, b, n)
  BY DEF Mixable, MayMix, Inside, Memory, Apart
<1>2. ASSUME NEW a \in 0 .. Need - 1
      PROVE  after[a] = IF a \in Bout .. Bout + n - 1 THEN c[a - Bout + 1]
                        ELSE IF save /\ a \in Bin2 .. Bin2 + n - 1 THEN b[a - Bin2]
                        ELSE m[a]
  BY DEF Wrote
<1>3. LastSub = n - 1
  BY DEF LastSub
<1> HIDE DEF n, after
<1>4. ASSUME NEW k \in 0 .. n - 1 PROVE after[Bout + k] = c[k + 1]
  <2>1. Bout + k \in 0 .. Need - 1 /\ Bout + k \in Bout .. Bout + n - 1
        /\ (Bout + k) - Bout + 1 = k + 1
    BY <1>1
  <2> QED
    BY <1>2, <2>1
<1>5. MixesTo(b, Read(after, Bout, n))
  <2>1. Read(after, Bout, n) = [k \in 0 .. n - 1 |-> c[k + 1]]
    BY <1>4 DEF Read
  <2> QED
    BY <1>1, <2>1 DEF MixesTo, n
<1>6. after[Bout + LastSub] = c[n]
  <2>1. n - 1 \in 0 .. n - 1 /\ (n - 1) + 1 = n
    BY <1>1
  <2> QED
    BY <1>3, <1>4, <2>1
<1>7. ASSUME save PROVE Read(after, Bin2, n) = b
  <2>1. ASSUME NEW k \in 0 .. n - 1 PROVE after[Bin2 + k] = b[k]
    <3>1. /\ Bin2 + k \in 0 .. Need - 1 /\ Bin2 + k \notin Bout .. Bout + n - 1
          /\ Bin2 + k \in Bin2 .. Bin2 + n - 1 /\ (Bin2 + k) - Bin2 = k
      BY <1>1
    <3> QED
      BY <1>2, <1>7, <3>1
  <2>2. b = [k \in 0 .. n - 1 |-> b[k]]
    BY <1>1
  <2> QED
    BY <2>1, <2>2 DEF Read
<1>8. ASSUME NEW at, NEW k, Inside(at, k), Apart(Bout, n, at, k), save => Apart(Bin2, n, at, k)
      PROVE  Read(after, at, k) = Read(m, at, k)
  <2>1. ASSUME NEW e \in 0 .. k - 1 PROVE after[at + e] = m[at + e]
    <3>1. /\ at + e \in 0 .. Need - 1 /\ at + e \notin Bout .. Bout + n - 1
          /\ save => at + e \notin Bin2 .. Bin2 + n - 1
      BY <1>1, <1>8 DEF Inside, Apart
    <3> QED
      BY <1>2, <3>1
  <2> QED
    BY <2>1 DEF Read
<1> QED
  BY <1>5, <1>6, <1>7, <1>8 DEF n, after

(* blockmix: the block at Bin is mixed to Bout.                             *)
LEMMA SimdBlockmixComputes ==
  ASSUME PowInv, job.yescrypt, NEW m, Memory(m),
         NEW Bin, Own(m, Bin, 2 * StageR),
         NEW Bout, Inside(Bout, 2 * StageR), Apart(Bout, 2 * StageR, Bin, 2 * StageR)
  PROVE  LET result == SimdBlockmix(m, Bin, Bout)
             after == result.m
         IN  /\ MixesTo(Read(m, Bin, 2 * StageR), Read(after, Bout, 2 * StageR))
             /\ result.x = after[Bout + LastSub]
             /\ \A at, k : /\ Inside(at, k) /\ Apart(Bout, 2 * StageR, at, k)
                           => Read(after, at, k) = Read(m, at, k)
<1> DEFINE n == 2 * StageR
           b == Read(m, Bin, 2 * StageR)
           Next1(s, k) == Absorb(s, k, s.m[Bin + k], Bout)
           first == [m |-> m, x |-> m[Bin + LastSub]]
           Eq(f) == f = [k \in 0 .. n |-> IF k = 0 THEN first ELSE Next1(f[k - 1], k - 1)]
           after == CHOOSE f : Eq(f)
<1>1. /\ MayMix /\ n \in Nat \ {0} /\ Need \in Nat /\ StageR \in Nat \ {0}
      /\ \A k \in 0 .. n - 1 : m[Bin + k] \in Word
      /\ LastSub = n - 1 /\ LastSub \in 0 .. n - 1
  <2>1. MayMix /\ StageR \in Nat \ {0}
    BY SimdMayMix DEF MayMix
  <2>2. LastSub = n - 1 /\ LastSub \in 0 .. n - 1 /\ n \in Nat \ {0}
    BY <2>1 DEF LastSub
  <2> QED
    BY <2>1, <2>2 DEF Own, Memory
<1>2. b \in [0 .. n - 1 -> Word]
      /\ \A k \in 0 .. n - 1 : b[k] = m[Bin + k]
  BY <1>1, Cells DEF Read, XorBlock
<1>3. /\ Inside(Bin, n) /\ Bout \in Nat /\ Bout + n <= Need
      /\ Bin \in Nat /\ Bin + n <= Need /\ (Bout + n <= Bin \/ Bin + n <= Bout)
  BY <1>1 DEF Own, Inside, Apart
<1> HIDE DEF n, b
<1>4. PICK c : c \in Chain(Link, b, n)
  BY <1>1, <1>2, LinkIsWord, ChainExists DEF n
<1> DEFINE save == FALSE
           G(k) == Wrote(m, c, b, Bout, Bin, save, k)
           h == [k \in 0 .. n |-> [m |-> G(k), x |-> c[k]]]
<1>5. Mixable(m, c, b, Bout, Bin, save)
  BY <1>1, <1>2, <1>3, <1>4 DEF Mixable, n
<1> HIDE DEF save
<1>6. h[0] = first
  <2>1. G(0) = m
    <3>1. \A a \in 0 .. Need - 1 : a \notin Bout .. Bout + 0 - 1
      BY <1>1, <1>3
    <3>2. G(0) = [a \in 0 .. Need - 1 |-> m[a]]
      BY <3>1 DEF Wrote, save
    <3>3. m = [a \in 0 .. Need - 1 |-> m[a]]
      BY DEF Memory
    <3> QED
      BY <3>2, <3>3
  <2>2. c[0] = m[Bin + LastSub]
    <3>1. c[0] = b[n - 1] /\ n - 1 \in 0 .. n - 1
      BY <1>1, <1>4 DEF Chain
    <3> QED
      BY <1>1, <1>2, <3>1
  <2>3. h[0] = [m |-> G(0), x |-> c[0]]
    BY <1>1
  <2> HIDE DEF h, G
  <2> QED
    BY <2>1, <2>2, <2>3
<1>7. ASSUME NEW k \in 0 .. n - 1
      PROVE  Next1(h[k], k) = h[k + 1]
  <2>1. k \in 0 .. n /\ k + 1 \in 0 .. n
    BY <1>1
  <2>2. h[k].m = G(k) /\ h[k].x = c[k] /\ h[k] = [m |-> G(k), x |-> c[k]]
        /\ h[k + 1] = [m |-> G(k + 1), x |-> c[k + 1]]
    BY <2>1
  <2> USE DEF save
  <2>3. G(k)[Bin + k] = b[k]
    <3>1. /\ Bin + k \in 0 .. Need - 1 /\ Bin + k \notin Bout .. Bout + k - 1
      BY <1>1, <1>3
    <3> QED
      BY <1>2, <3>1 DEF Wrote, save
  <2> HIDE DEF h, G
  <2> DEFINE saved == IF save THEN [G(k) EXCEPT ![Bin + k] = b[k]] ELSE G(k)
  <2>4. Next1(h[k], k) = Absorb([m |-> saved, x |-> c[k]], k, b[k], Bout)
    BY <1>2, <2>2, <2>3
  <2> HIDE DEF save, Next1
  <2>5. saved = IF save THEN [Wrote(m, c, b, Bout, Bin, save, k) EXCEPT ![Bin + k] = b[k]]
                ELSE Wrote(m, c, b, Bout, Bin, save, k)
    BY DEF G
  <2> HIDE DEF saved
  <2>6. Absorb([m |-> saved, x |-> c[k]], k, b[k], Bout) = [m |-> G(k + 1), x |-> c[k + 1]]
    BY <1>5, <2>5, AbsorbComputes DEF G, n
  <2> QED
    BY <2>2, <2>4, <2>6
<1> HIDE DEF h, first, Next1
<1>8. Eq(h)
  <2>1. ASSUME NEW k \in 0 .. n
        PROVE  h[k] = IF k = 0 THEN first ELSE Next1(h[k - 1], k - 1)
    <3>1. CASE k # 0
      <4>1. k - 1 \in 0 .. n - 1 /\ (k - 1) + 1 = k
        BY <1>1, <3>1
      <4> QED
        BY <1>7, <3>1, <4>1
    <3> QED
      BY <1>6, <3>1
  <2>2. h = [k \in 0 .. n |-> h[k]]
    BY DEF h
  <2> QED
    BY <2>1, <2>2
<1>9. Eq(after)
  <2> HIDE DEF Eq
  <2> QED
    BY <1>8
<1> HIDE DEF after
<1>10. after[n] = h[n]
  <2>1. after[0] = h[0]
    BY <1>1, <1>6, <1>9
  <2>2. ASSUME NEW k \in 0 .. n - 1, after[k] = h[k] PROVE after[k + 1] = h[k + 1]
    <3>1. k + 1 \in 0 .. n /\ k + 1 # 0 /\ (k + 1) - 1 = k
      BY <1>1
    <3>2. after[k + 1] = Next1(after[k], k)
      BY <1>9, <3>1
    <3> QED
      BY <1>7, <2>2, <3>2
  <2> QED
    BY <1>1, <2>1, <2>2, SameEnd
<1>11. SimdBlockmix(m, Bin, Bout) = after[n]
  BY DEF SimdBlockmix, after, Next1, first, n
<1>12. after[n].m = G(n) /\ after[n].x = c[n]
  <2>1. n \in 0 .. n
    BY <1>1
  <2>2. h[n] = [m |-> G(n), x |-> c[n]]
    BY <2>1 DEF h
  <2> HIDE DEF G
  <2> QED
    BY <1>10, <2>2
<1> DEFINE end == G(n)
<1>13. /\ MixesTo(b, Read(end, Bout, n)) /\ end[Bout + LastSub] = c[n]
       /\ save => Read(end, Bin, n) = b
       /\ \A at, k : /\ Inside(at, k) /\ Apart(Bout, n, at, k)
                     /\ save => Apart(Bin, n, at, k)
                     => Read(end, at, k) = Read(m, at, k)
  BY <1>5, MixingDone DEF G, n
<1> HIDE DEF end, G
<1> QED
  BY <1>11, <1>12, <1>13 DEF n, b, end, save

(* blockmix_xor: the exclusive or of two blocks is mixed.                   *)
LEMMA BlockmixXorComputes ==
  ASSUME PowInv, job.yescrypt, NEW m, Memory(m),
         NEW Bin1, Own(m, Bin1, 2 * StageR), NEW Bin2, Own(m, Bin2, 2 * StageR),
         NEW Bout, Inside(Bout, 2 * StageR), Apart(Bout, 2 * StageR, Bin2, 2 * StageR),
         Apart(Bout, 2 * StageR, Bin1, 2 * StageR)
  PROVE  LET result == BlockmixXor(m, Bin1, Bin2, Bout)
             after == result.m
         IN  /\ MixesTo(XorBlock(Read(m, Bin1, 2 * StageR), Read(m, Bin2, 2 * StageR)), Read(after, Bout, 2 * StageR))
             /\ result.x = after[Bout + LastSub]
             /\ \A at, k : /\ Inside(at, k) /\ Apart(Bout, 2 * StageR, at, k)
                           => Read(after, at, k) = Read(m, at, k)
<1> DEFINE n == 2 * StageR
           b == XorBlock(Read(m, Bin1, 2 * StageR), Read(m, Bin2, 2 * StageR))
           Next1(s, k) == Absorb(s, k, XorCell(s.m[Bin1 + k], s.m[Bin2 + k]), Bout)
           first == [m |-> m, x |-> XorCell(m[Bin1 + LastSub], m[Bin2 + LastSub])]
           Eq(f) == f = [k \in 0 .. n |-> IF k = 0 THEN first ELSE Next1(f[k - 1], k - 1)]
           after == CHOOSE f : Eq(f)
<1>1. /\ MayMix /\ n \in Nat \ {0} /\ Need \in Nat /\ StageR \in Nat \ {0}
      /\ \A k \in 0 .. n - 1 : m[Bin1 + k] \in Word /\ m[Bin2 + k] \in Word
      /\ LastSub = n - 1 /\ LastSub \in 0 .. n - 1
  <2>1. MayMix /\ StageR \in Nat \ {0}
    BY SimdMayMix DEF MayMix
  <2>2. LastSub = n - 1 /\ LastSub \in 0 .. n - 1 /\ n \in Nat \ {0}
    BY <2>1 DEF LastSub
  <2> QED
    BY <2>1, <2>2 DEF Own, Memory
<1>2. b \in [0 .. n - 1 -> Word]
      /\ \A k \in 0 .. n - 1 : b[k] = XorCell(m[Bin1 + k], m[Bin2 + k])
  BY <1>1, Cells DEF Read, XorBlock
<1>3. /\ Inside(Bin2, n) /\ Bout \in Nat /\ Bout + n <= Need
      /\ Bin1 \in Nat /\ Bin1 + n <= Need /\ (Bout + n <= Bin1 \/ Bin1 + n <= Bout)
      /\ Bin2 \in Nat /\ Bin2 + n <= Need /\ (Bout + n <= Bin2 \/ Bin2 + n <= Bout)
  BY <1>1 DEF Own, Inside, Apart
<1> HIDE DEF n, b
<1>4. PICK c : c \in Chain(Link, b, n)
  BY <1>1, <1>2, LinkIsWord, ChainExists DEF n
<1> DEFINE save == FALSE
           G(k) == Wrote(m, c, b, Bout, Bin2, save, k)
           h == [k \in 0 .. n |-> [m |-> G(k), x |-> c[k]]]
<1>5. Mixable(m, c, b, Bout, Bin2, save)
  BY <1>1, <1>2, <1>3, <1>4 DEF Mixable, n
<1> HIDE DEF save
<1>6. h[0] = first
  <2>1. G(0) = m
    <3>1. \A a \in 0 .. Need - 1 : a \notin Bout .. Bout + 0 - 1
      BY <1>1, <1>3
    <3>2. G(0) = [a \in 0 .. Need - 1 |-> m[a]]
      BY <3>1 DEF Wrote, save
    <3>3. m = [a \in 0 .. Need - 1 |-> m[a]]
      BY DEF Memory
    <3> QED
      BY <3>2, <3>3
  <2>2. c[0] = XorCell(m[Bin1 + LastSub], m[Bin2 + LastSub])
    <3>1. c[0] = b[n - 1] /\ n - 1 \in 0 .. n - 1
      BY <1>1, <1>4 DEF Chain
    <3> QED
      BY <1>1, <1>2, <3>1
  <2>3. h[0] = [m |-> G(0), x |-> c[0]]
    BY <1>1
  <2> HIDE DEF h, G
  <2> QED
    BY <2>1, <2>2, <2>3
<1>7. ASSUME NEW k \in 0 .. n - 1
      PROVE  Next1(h[k], k) = h[k + 1]
  <2>1. k \in 0 .. n /\ k + 1 \in 0 .. n
    BY <1>1
  <2>2. h[k].m = G(k) /\ h[k].x = c[k] /\ h[k] = [m |-> G(k), x |-> c[k]]
        /\ h[k + 1] = [m |-> G(k + 1), x |-> c[k + 1]]
    BY <2>1
  <2> USE DEF save
  <2>3. G(k)[Bin1 + k] = m[Bin1 + k] /\ G(k)[Bin2 + k] = m[Bin2 + k]
    <3>1. /\ Bin1 + k \in 0 .. Need - 1 /\ Bin1 + k \notin Bout .. Bout + k - 1
          /\ Bin2 + k \in 0 .. Need - 1 /\ Bin2 + k \notin Bout .. Bout + k - 1
      BY <1>1, <1>3
    <3> QED
      BY <3>1 DEF Wrote, save
  <2> HIDE DEF h, G
  <2> DEFINE saved == IF save THEN [G(k) EXCEPT ![Bin2 + k] = b[k]] ELSE G(k)
  <2>4. Next1(h[k], k) = Absorb([m |-> saved, x |-> c[k]], k, b[k], Bout)
    BY <1>2, <2>2, <2>3
  <2> HIDE DEF save, Next1
  <2>5. saved = IF save THEN [Wrote(m, c, b, Bout, Bin2, save, k) EXCEPT ![Bin2 + k] = b[k]]
                ELSE Wrote(m, c, b, Bout, Bin2, save, k)
    BY DEF G
  <2> HIDE DEF saved
  <2>6. Absorb([m |-> saved, x |-> c[k]], k, b[k], Bout) = [m |-> G(k + 1), x |-> c[k + 1]]
    BY <1>5, <2>5, AbsorbComputes DEF G, n
  <2> QED
    BY <2>2, <2>4, <2>6
<1> HIDE DEF h, first, Next1
<1>8. Eq(h)
  <2>1. ASSUME NEW k \in 0 .. n
        PROVE  h[k] = IF k = 0 THEN first ELSE Next1(h[k - 1], k - 1)
    <3>1. CASE k # 0
      <4>1. k - 1 \in 0 .. n - 1 /\ (k - 1) + 1 = k
        BY <1>1, <3>1
      <4> QED
        BY <1>7, <3>1, <4>1
    <3> QED
      BY <1>6, <3>1
  <2>2. h = [k \in 0 .. n |-> h[k]]
    BY DEF h
  <2> QED
    BY <2>1, <2>2
<1>9. Eq(after)
  <2> HIDE DEF Eq
  <2> QED
    BY <1>8
<1> HIDE DEF after
<1>10. after[n] = h[n]
  <2>1. after[0] = h[0]
    BY <1>1, <1>6, <1>9
  <2>2. ASSUME NEW k \in 0 .. n - 1, after[k] = h[k] PROVE after[k + 1] = h[k + 1]
    <3>1. k + 1 \in 0 .. n /\ k + 1 # 0 /\ (k + 1) - 1 = k
      BY <1>1
    <3>2. after[k + 1] = Next1(after[k], k)
      BY <1>9, <3>1
    <3> QED
      BY <1>7, <2>2, <3>2
  <2> QED
    BY <1>1, <2>1, <2>2, SameEnd
<1>11. BlockmixXor(m, Bin1, Bin2, Bout) = after[n]
  BY DEF BlockmixXor, after, Next1, first, n
<1>12. after[n].m = G(n) /\ after[n].x = c[n]
  <2>1. n \in 0 .. n
    BY <1>1
  <2>2. h[n] = [m |-> G(n), x |-> c[n]]
    BY <2>1 DEF h
  <2> HIDE DEF G
  <2> QED
    BY <1>10, <2>2
<1> DEFINE end == G(n)
<1>13. /\ MixesTo(b, Read(end, Bout, n)) /\ end[Bout + LastSub] = c[n]
       /\ save => Read(end, Bin2, n) = b
       /\ \A at, k : /\ Inside(at, k) /\ Apart(Bout, n, at, k)
                     /\ save => Apart(Bin2, n, at, k)
                     => Read(end, at, k) = Read(m, at, k)
  BY <1>5, MixingDone DEF G, n
<1> HIDE DEF end, G
<1> QED
  BY <1>11, <1>12, <1>13 DEF n, b, end, save

(* blockmix_xor_save: and it replaces the second of them.                   *)
LEMMA BlockmixXorSaveComputes ==
  ASSUME PowInv, job.yescrypt, NEW m, Memory(m),
         NEW Bin1, Own(m, Bin1, 2 * StageR), NEW Bin2, Own(m, Bin2, 2 * StageR),
         NEW Bout, Inside(Bout, 2 * StageR), Apart(Bout, 2 * StageR, Bin2, 2 * StageR),
         Apart(Bout, 2 * StageR, Bin1, 2 * StageR), Apart(Bin1, 2 * StageR, Bin2, 2 * StageR)
  PROVE  LET result == BlockmixXorSave(m, Bin1, Bin2, Bout)
             after == result.m
         IN  /\ MixesTo(XorBlock(Read(m, Bin1, 2 * StageR), Read(m, Bin2, 2 * StageR)), Read(after, Bout, 2 * StageR))
             /\ result.x = after[Bout + LastSub]
             /\ Read(after, Bin2, 2 * StageR) = XorBlock(Read(m, Bin1, 2 * StageR), Read(m, Bin2, 2 * StageR))
             /\ \A at, k : /\ Inside(at, k) /\ Apart(Bout, 2 * StageR, at, k)
                           /\ Apart(Bin2, 2 * StageR, at, k)
                           => Read(after, at, k) = Read(m, at, k)
<1> DEFINE n == 2 * StageR
           b == XorBlock(Read(m, Bin1, 2 * StageR), Read(m, Bin2, 2 * StageR))
           Next1(s, k) == LET y == XorCell(s.m[Bin1 + k], s.m[Bin2 + k])
                          IN  Absorb([s EXCEPT !.m[Bin2 + k] = y], k, y, Bout)
           first == [m |-> m, x |-> XorCell(m[Bin1 + LastSub], m[Bin2 + LastSub])]
           Eq(f) == f = [k \in 0 .. n |-> IF k = 0 THEN first ELSE Next1(f[k - 1], k - 1)]
           after == CHOOSE f : Eq(f)
<1>1. /\ MayMix /\ n \in Nat \ {0} /\ Need \in Nat /\ StageR \in Nat \ {0}
      /\ \A k \in 0 .. n - 1 : m[Bin1 + k] \in Word /\ m[Bin2 + k] \in Word
      /\ LastSub = n - 1 /\ LastSub \in 0 .. n - 1
  <2>1. MayMix /\ StageR \in Nat \ {0}
    BY SimdMayMix DEF MayMix
  <2>2. LastSub = n - 1 /\ LastSub \in 0 .. n - 1 /\ n \in Nat \ {0}
    BY <2>1 DEF LastSub
  <2> QED
    BY <2>1, <2>2 DEF Own, Memory
<1>2. b \in [0 .. n - 1 -> Word]
      /\ \A k \in 0 .. n - 1 : b[k] = XorCell(m[Bin1 + k], m[Bin2 + k])
  BY <1>1, Cells DEF Read, XorBlock
<1>3. /\ Inside(Bin2, n) /\ Bout \in Nat /\ Bout + n <= Need
      /\ Bin1 \in Nat /\ Bin1 + n <= Need /\ (Bout + n <= Bin1 \/ Bin1 + n <= Bout)
      /\ Bin2 \in Nat /\ Bin2 + n <= Need /\ (Bout + n <= Bin2 \/ Bin2 + n <= Bout)
      /\ (Bin1 + n <= Bin2 \/ Bin2 + n <= Bin1)
  BY <1>1 DEF Own, Inside, Apart
<1> HIDE DEF n, b
<1>4. PICK c : c \in Chain(Link, b, n)
  BY <1>1, <1>2, LinkIsWord, ChainExists DEF n
<1> DEFINE save == TRUE
           G(k) == Wrote(m, c, b, Bout, Bin2, save, k)
           h == [k \in 0 .. n |-> [m |-> G(k), x |-> c[k]]]
<1>5. Mixable(m, c, b, Bout, Bin2, save)
  BY <1>1, <1>2, <1>3, <1>4 DEF Mixable, n
<1> HIDE DEF save
<1>6. h[0] = first
  <2>1. G(0) = m
    <3>1. \A a \in 0 .. Need - 1 : a \notin Bout .. Bout + 0 - 1
                                       /\ a \notin Bin2 .. Bin2 + 0 - 1
      BY <1>1, <1>3
    <3>2. G(0) = [a \in 0 .. Need - 1 |-> m[a]]
      BY <3>1 DEF Wrote, save
    <3>3. m = [a \in 0 .. Need - 1 |-> m[a]]
      BY DEF Memory
    <3> QED
      BY <3>2, <3>3
  <2>2. c[0] = XorCell(m[Bin1 + LastSub], m[Bin2 + LastSub])
    <3>1. c[0] = b[n - 1] /\ n - 1 \in 0 .. n - 1
      BY <1>1, <1>4 DEF Chain
    <3> QED
      BY <1>1, <1>2, <3>1
  <2>3. h[0] = [m |-> G(0), x |-> c[0]]
    BY <1>1
  <2> HIDE DEF h, G
  <2> QED
    BY <2>1, <2>2, <2>3
<1>7. ASSUME NEW k \in 0 .. n - 1
      PROVE  Next1(h[k], k) = h[k + 1]
  <2>1. k \in 0 .. n /\ k + 1 \in 0 .. n
    BY <1>1
  <2>2. h[k].m = G(k) /\ h[k].x = c[k] /\ h[k] = [m |-> G(k), x |-> c[k]]
        /\ h[k + 1] = [m |-> G(k + 1), x |-> c[k + 1]]
    BY <2>1
  <2> USE DEF save
  <2>3. G(k)[Bin1 + k] = m[Bin1 + k] /\ G(k)[Bin2 + k] = m[Bin2 + k]
    <3>1. /\ Bin1 + k \in 0 .. Need - 1 /\ Bin1 + k \notin Bout .. Bout + k - 1
          /\ Bin2 + k \in 0 .. Need - 1 /\ Bin2 + k \notin Bout .. Bout + k - 1
          /\ Bin1 + k \notin Bin2 .. Bin2 + k - 1 /\ Bin2 + k \notin Bin2 .. Bin2 + k - 1
      BY <1>1, <1>3
    <3> QED
      BY <3>1 DEF Wrote, save
  <2> HIDE DEF h, G
  <2> DEFINE saved == IF save THEN [G(k) EXCEPT ![Bin2 + k] = b[k]] ELSE G(k)
  <2>4. Next1(h[k], k) = Absorb([m |-> saved, x |-> c[k]], k, b[k], Bout)
    BY <1>2, <2>2, <2>3
  <2> HIDE DEF save, Next1
  <2>5. saved = IF save THEN [Wrote(m, c, b, Bout, Bin2, save, k) EXCEPT ![Bin2 + k] = b[k]]
                ELSE Wrote(m, c, b, Bout, Bin2, save, k)
    BY DEF G
  <2> HIDE DEF saved
  <2>6. Absorb([m |-> saved, x |-> c[k]], k, b[k], Bout) = [m |-> G(k + 1), x |-> c[k + 1]]
    BY <1>5, <2>5, AbsorbComputes DEF G, n
  <2> QED
    BY <2>2, <2>4, <2>6
<1> HIDE DEF h, first, Next1
<1>8. Eq(h)
  <2>1. ASSUME NEW k \in 0 .. n
        PROVE  h[k] = IF k = 0 THEN first ELSE Next1(h[k - 1], k - 1)
    <3>1. CASE k # 0
      <4>1. k - 1 \in 0 .. n - 1 /\ (k - 1) + 1 = k
        BY <1>1, <3>1
      <4> QED
        BY <1>7, <3>1, <4>1
    <3> QED
      BY <1>6, <3>1
  <2>2. h = [k \in 0 .. n |-> h[k]]
    BY DEF h
  <2> QED
    BY <2>1, <2>2
<1>9. Eq(after)
  <2> HIDE DEF Eq
  <2> QED
    BY <1>8
<1> HIDE DEF after
<1>10. after[n] = h[n]
  <2>1. after[0] = h[0]
    BY <1>1, <1>6, <1>9
  <2>2. ASSUME NEW k \in 0 .. n - 1, after[k] = h[k] PROVE after[k + 1] = h[k + 1]
    <3>1. k + 1 \in 0 .. n /\ k + 1 # 0 /\ (k + 1) - 1 = k
      BY <1>1
    <3>2. after[k + 1] = Next1(after[k], k)
      BY <1>9, <3>1
    <3> QED
      BY <1>7, <2>2, <3>2
  <2> QED
    BY <1>1, <2>1, <2>2, SameEnd
<1>11. BlockmixXorSave(m, Bin1, Bin2, Bout) = after[n]
  BY DEF BlockmixXorSave, after, Next1, first, n
<1>12. after[n].m = G(n) /\ after[n].x = c[n]
  <2>1. n \in 0 .. n
    BY <1>1
  <2>2. h[n] = [m |-> G(n), x |-> c[n]]
    BY <2>1 DEF h
  <2> HIDE DEF G
  <2> QED
    BY <1>10, <2>2
<1> DEFINE end == G(n)
<1>13. /\ MixesTo(b, Read(end, Bout, n)) /\ end[Bout + LastSub] = c[n]
       /\ save => Read(end, Bin2, n) = b
       /\ \A at, k : /\ Inside(at, k) /\ Apart(Bout, n, at, k)
                     /\ save => Apart(Bin2, n, at, k)
                     => Read(end, at, k) = Read(m, at, k)
  BY <1>5, MixingDone DEF G, n
<1> HIDE DEF end, G
<1> QED
  BY <1>11, <1>12, <1>13 DEF n, b, end, save

-----------------------------------------------------------------------------
(* The mixings of the portable build compute it too.                       *)

(* blockmix_pwxform, whose chain is built in the output itself.            *)
LEMMA BlockmixPwxformComputes ==
  ASSUME PowInv, job.yescrypt, stage # "sbox", NEW m, Memory(m),
         NEW Bin, Own(m, Bin, 2 * StageR),
         NEW Bout, Inside(Bout, 2 * StageR), Apart(Bout, 2 * StageR, Bin, 2 * StageR),
         Read(m, SAt, SSize) = Read(mem, SAt, SSize)
  PROVE  LET after == BlockmixPwxform(ShuffledCore, m, Bin, Bout, SAt, SSize, R)
         IN  /\ MixesTo(Read(m, Bin, 2 * StageR), Read(after, Bout, 2 * StageR))
             /\ \A at, k : /\ Inside(at, k) /\ Apart(Bout, 2 * StageR, at, k)
                           => Read(after, at, k) = Read(m, at, k)
<1> DEFINE n == 2 * StageR
           b == Read(m, Bin, 2 * StageR)
           table == [k \in 1 .. SSize |-> m[SAt + k - 1]]
           last == Bout + 2 * R - 1
           first == [m EXCEPT ![Bout] = Pwxform(table, XorCell(m[Bin + 2 * R - 1], m[Bin]))]
           Next1(mm, k) == [mm EXCEPT ![Bout + k] =
                              Pwxform(table, XorCell(mm[Bout + k - 1], mm[Bin + k]))]
           Eq(f) == f = [k \in 0 .. 2 * R - 1 |-> IF k = 0 THEN first ELSE Next1(f[k - 1], k)]
           chain == CHOOSE f : Eq(f)
<1>1. /\ MayMix /\ n \in Nat \ {0} /\ Need \in Nat /\ n = 2 * R /\ R \in Nat \ {0}
      /\ \A k \in 0 .. n - 1 : m[Bin + k] \in Word
      /\ m \in [0 .. Need - 1 -> Cell]
  <2>1. MayMix /\ StageR = R /\ R \in Nat \ {0}
    BY SimdMayMix, YescryptFacts
  <2>2. ASSUME NEW k \in 0 .. n - 1 PROVE m[Bin + k] \in Word
    <3>1. Bin + k \in Bin .. Bin + n - 1
      BY DEF Own
    <3> QED
      BY <3>1 DEF Own
  <2> QED
    BY <2>1, <2>2 DEF Memory
<1>2. b \in [0 .. n - 1 -> Word] /\ \A k \in 0 .. n - 1 : b[k] = m[Bin + k]
  BY <1>1 DEF Read
<1>3. /\ Inside(Bin, n) /\ Bout \in Nat /\ Bout + n <= Need
      /\ Bin \in Nat /\ Bin + n <= Need /\ (Bout + n <= Bin \/ Bin + n <= Bout)
  BY <1>1 DEF Own, Inside, Apart
<1>4. table = STable
  <2>1. SAt \in Nat /\ SSize \in Nat
    BY YescryptFacts DEF Own
  <2>2. ASSUME NEW k \in 1 .. SSize PROVE m[SAt + k - 1] = mem[SAt + k - 1]
    <3>1. k - 1 \in 0 .. SSize - 1 /\ SAt + (k - 1) = SAt + k - 1
      BY <2>1
    <3>2. Read(m, SAt, SSize)[k - 1] = m[SAt + (k - 1)]
          /\ Read(mem, SAt, SSize)[k - 1] = mem[SAt + (k - 1)]
      BY <3>1 DEF Read
    <3> QED
      BY <3>1, <3>2
  <2> QED
    BY <2>2 DEF STable
<1> HIDE DEF n, b, table
<1>5. PICK c : c \in Chain(Link, b, n)
  BY <1>1, <1>2, LinkIsWord, ChainExists DEF n
<1> DEFINE p(k) == Pwxform(STable, XorCell(c[k], b[k]))
           F(k) == [a \in 0 .. Need - 1 |-> IF a \in Bout .. Bout + k THEN p(a - Bout) ELSE m[a]]
           h == [k \in 0 .. n - 1 |-> F(k)]
           save == FALSE
           end == Wrote(m, c, b, Bout, Bin, save, n)
<1>6. ASSUME NEW k \in 0 .. n - 1
      PROVE  /\ c[k] \in Word /\ p(k) \in Word
             /\ c[k + 1] = IF k = n - 1 THEN ShuffledCore[p(k)] ELSE p(k)
  <2>1. /\ c[k] \in Word /\ c[k + 1] = Link[<<k, XorCell(c[k], b[k])>>]
    <3>1. k \in 0 .. n
      BY <1>1
    <3> QED
      BY <1>5, <3>1 DEF Chain
  <2>2. XorCell(c[k], b[k]) \in Word
    BY <1>2, <2>1, Cells
  <2>3. p(k) \in Word
    BY <2>2, LinkIsWord, PwxformIsWord
  <2>4. Link[<<k, XorCell(c[k], b[k])>>] = IF k = n - 1 THEN ShuffledCore[p(k)] ELSE p(k)
    BY <1>1, <2>2 DEF Link, n
  <2> QED
    BY <2>1, <2>3, <2>4
<1>7. c[0] = b[n - 1]
  BY <1>5 DEF Chain
<1> HIDE DEF p
<1>8. h[0] = first
  <2>1. Pwxform(table, XorCell(m[Bin + 2 * R - 1], m[Bin])) = p(0)
    <3>1. n - 1 \in 0 .. n - 1 /\ 0 \in 0 .. n - 1 /\ Bin + (n - 1) = Bin + 2 * R - 1
          /\ Bin + 0 = Bin
      BY <1>1, <1>3
    <3> QED
      BY <1>2, <1>4, <1>7, <3>1 DEF p
  <2>2. ASSUME NEW a \in 0 .. Need - 1
        PROVE  F(0)[a] = IF a = Bout THEN p(0) ELSE m[a]
    <3>1. (a \in Bout .. Bout + 0 <=> a = Bout) /\ (a = Bout => a - Bout = 0)
      BY <1>3
    <3> QED
      BY <3>1
  <2>3. F(0) = [a \in 0 .. Need - 1 |-> F(0)[a]]
    OBVIOUS
  <2>4. first = [a \in 0 .. Need - 1 |-> IF a = Bout THEN p(0) ELSE m[a]]
    BY <1>1, <2>1
  <2>5. h[0] = F(0)
    BY <1>1
  <2> HIDE DEF F, first, h
  <2> QED
    BY <2>2, <2>3, <2>4, <2>5
<1>9. ASSUME NEW k \in 0 .. (n - 1) - 1
      PROVE  Next1(h[k], k + 1) = h[k + 1]
  <2>1. k \in 0 .. n - 1 /\ k + 1 \in 0 .. n - 1 /\ k # n - 1
    BY <1>1
  <2>2. h[k] = F(k) /\ h[k + 1] = F(k + 1)
    BY <2>1
  <2>3. /\ F(k)[Bout + (k + 1) - 1] = c[k + 1]
        /\ F(k)[Bin + (k + 1)] = b[k + 1]
    <3>1. /\ Bout + (k + 1) - 1 \in 0 .. Need - 1 /\ Bout + (k + 1) - 1 \in Bout .. Bout + k
          /\ (Bout + (k + 1) - 1) - Bout = k
          /\ Bin + (k + 1) \in 0 .. Need - 1 /\ Bin + (k + 1) \notin Bout .. Bout + k
      BY <1>1, <1>3
    <3>2. F(k)[Bout + (k + 1) - 1] = p(k) /\ F(k)[Bin + (k + 1)] = m[Bin + (k + 1)]
      BY <3>1
    <3> QED
      BY <1>2, <1>6, <2>1, <3>2
  <2>4. Pwxform(table, XorCell(F(k)[Bout + (k + 1) - 1], F(k)[Bin + (k + 1)])) = p(k + 1)
    BY <1>4, <2>3 DEF p
  <2>5. ASSUME NEW a \in 0 .. Need - 1
        PROVE  F(k + 1)[a] = IF a = Bout + (k + 1) THEN p(k + 1) ELSE F(k)[a]
    <3>1. /\ (a \in Bout .. Bout + (k + 1) <=> a \in Bout .. Bout + k \/ a = Bout + (k + 1))
          /\ (a = Bout + (k + 1) => a - Bout = k + 1)
      BY <1>3
    <3> QED
      BY <3>1
  <2>6. F(k + 1) = [a \in 0 .. Need - 1 |-> F(k + 1)[a]] /\ DOMAIN F(k) = 0 .. Need - 1
    OBVIOUS
  <2> HIDE DEF F, h
  <2>7. Next1(F(k), k + 1)
          = [a \in 0 .. Need - 1 |-> IF a = Bout + (k + 1) THEN p(k + 1) ELSE F(k)[a]]
    BY <2>4, <2>6
  <2> QED
    BY ZenonT(30), <2>2, <2>5, <2>6, <2>7
<1> HIDE DEF h, first, Next1, F
<1>10. Eq(h)
  <2>1. ASSUME NEW k \in 0 .. n - 1
        PROVE  h[k] = IF k = 0 THEN first ELSE Next1(h[k - 1], k)
    <3>1. CASE k # 0
      <4>1. k - 1 \in 0 .. (n - 1) - 1 /\ (k - 1) + 1 = k
        BY <1>1, <3>1
      <4> QED
        BY <1>9, <3>1, <4>1
    <3> QED
      BY <1>8, <3>1
  <2>2. h = [k \in 0 .. n - 1 |-> h[k]]
    BY DEF h
  <2>3. n - 1 = 2 * R - 1
    BY <1>1
  <2> QED
    BY <2>1, <2>2, <2>3
<1>11. Eq(chain)
  <2> HIDE DEF Eq
  <2> QED
    BY <1>10
<1> HIDE DEF chain
<1>12. chain[n - 1] = h[n - 1]
  <2>1. n - 1 \in Nat /\ chain[0] = h[0]
    BY <1>1, <1>8, <1>11
  <2>2. ASSUME NEW k \in 0 .. (n - 1) - 1, chain[k] = h[k] PROVE chain[k + 1] = h[k + 1]
    <3>1. k + 1 \in 0 .. 2 * R - 1 /\ k + 1 # 0 /\ (k + 1) - 1 = k
      BY <1>1
    <3>2. chain[k + 1] = Next1(chain[k], k + 1)
      BY <1>11, <3>1
    <3> QED
      BY <1>9, <2>2, <3>2
  <2> QED
    BY <2>1, <2>2, SameEnd
<1>13. BlockmixPwxform(ShuffledCore, m, Bin, Bout, SAt, SSize, R)
         = [chain[n - 1] EXCEPT ![last] = Lift(ShuffledCore, @)]
  BY <1>1 DEF BlockmixPwxform, chain, Next1, first, table
<1>14. [chain[n - 1] EXCEPT ![last] = Lift(ShuffledCore, @)] = end
  <2>1. n - 1 \in 0 .. n - 1 /\ last = Bout + (n - 1) /\ last \in 0 .. Need - 1
        /\ last - Bout = n - 1 /\ (n - 1) + 1 = n
    BY <1>1, <1>3
  <2> DEFINE f == F(n - 1)
  <2>2. chain[n - 1] = f
    BY <1>12, <2>1 DEF h
  <2>3. DOMAIN f = 0 .. Need - 1 /\ end = [a \in 0 .. Need - 1 |-> end[a]]
    BY DEF F, Wrote
  <2>4. f[last] = p(n - 1)
    BY <1>3, <2>1 DEF F
  <2>5. Lift(ShuffledCore, f[last]) = c[n]
    BY <1>6, <2>1, <2>4, Cells DEF Lift
  <2>6. ASSUME NEW a \in 0 .. Need - 1
        PROVE  end[a] = IF a = last THEN c[n] ELSE f[a]
    <3>1. end[a] = IF a \in Bout .. Bout + n - 1 THEN c[a - Bout + 1] ELSE m[a]
      BY DEF Wrote, save
    <3>2. f[a] = IF a \in Bout .. Bout + (n - 1) THEN p(a - Bout) ELSE m[a]
      BY DEF F
    <3>3. CASE a \in Bout .. Bout + (n - 1)
      <4>1. a - Bout \in 0 .. n - 1 /\ a \in Bout .. Bout + n - 1
            /\ (a - Bout = n - 1 <=> a = last)
        BY <1>1, <1>3, <2>1, <3>3
      <4>2. c[(a - Bout) + 1] = IF a - Bout = n - 1 THEN ShuffledCore[p(a - Bout)] ELSE p(a - Bout)
        BY <1>6, <4>1
      <4>3. a = last => a - Bout + 1 = n
        BY <2>1
      <4> QED
        BY <3>1, <3>2, <3>3, <4>1, <4>2, <4>3
    <3>4. CASE a \notin Bout .. Bout + (n - 1)
      <4>1. a # last /\ a \notin Bout .. Bout + n - 1
        BY <1>1, <1>3, <2>1, <3>4
      <4> QED
        BY <3>1, <3>2, <3>4, <4>1
    <3> QED
      BY <3>3, <3>4
  <2> HIDE DEF f, last, end
  <2>7. [f EXCEPT ![last] = Lift(ShuffledCore, @)]
          = [a \in 0 .. Need - 1 |-> IF a = last THEN c[n] ELSE f[a]]
    BY <2>1, <2>3, <2>5
  <2> QED
    BY <2>2, <2>3, <2>6, <2>7
<1> HIDE DEF save
<1>15. Mixable(m, c, b, Bout, Bin, save)
  BY <1>1, <1>2, <1>3, <1>5 DEF Mixable, n, save
<1>16. /\ MixesTo(b, Read(end, Bout, n))
       /\ \A at, k : Inside(at, k) /\ Apart(Bout, n, at, k) => Read(end, at, k) = Read(m, at, k)
  <2>1. ~ save
    BY DEF save
  <2> QED
    BY <1>15, <2>1, MixingDone DEF n
<1> HIDE DEF end
<1> QED
  BY <1>13, <1>14, <1>16 DEF n, b

-----------------------------------------------------------------------------
(* The regions of yescrypt, and what a step leaves alone.                  *)

(* They do not meet: B, the buffers in XY, S and the rows.                 *)
LEMMA YescryptApart ==
  ASSUME job \in Jobs, job.yescrypt
  PROVE  /\ Inside(XYAt, XYSize) /\ Apart(XYAt, XYSize, BAt, 2 * R)
         /\ Apart(XYAt, XYSize, SAt, SSize) /\ Apart(BAt, 2 * StageR, SAt, SSize)
         /\ \A at \in {XAt, YAt(StageR)} :
              /\ XYAt <= at /\ at + 2 * StageR <= XYAt + XYSize
              /\ ~ job.simd /\ stage = "sbox" => ZAt(1) \notin at .. at + 2 * StageR - 1
         /\ Apart(XAt, 2 * StageR, YAt(StageR), 2 * StageR)
         /\ Apart(YAt(StageR), 2 * StageR, XAt, 2 * StageR)
         /\ ~ job.simd => ZAt(1) \in XYAt .. XYAt + XYSize - 1
         /\ \A k \in 0 .. StageRows - 1 :
              /\ Inside(VRow(k), 2 * StageR)
              /\ Apart(XYAt, XYSize, VRow(k), 2 * StageR)
              /\ Apart(VRow(k), 2 * StageR, BAt, 2 * R)
              /\ Apart(BAt, 2 * StageR, VRow(k), 2 * StageR)
              /\ stage # "sbox" => Apart(VRow(k), 2 * StageR, SAt, SSize)
              /\ \A l \in 0 .. StageRows - 1 :
                   k # l => Apart(VRow(k), 2 * StageR, VRow(l), 2 * StageR)
<1>1. /\ R \in Nat \ {0} /\ job.N \in Nat /\ VSize \in Nat /\ XYSize \in Nat /\ XYSize >= 4 * R
      /\ (~ job.simd => XYSize = 4 * R + 1) /\ SSize \in Nat /\ Need \in Nat
      /\ Need = 2 * R + VSize + XYSize + SSize /\ VSize = (2 * R) * job.N
      /\ SSize = 2 * job.sboxRows /\ job.sboxRows \in Nat
  BY Sizes
<1>2. /\ StageR \in Nat \ {0} /\ StageR <= R /\ (stage = "sbox" => StageR = 1)
      /\ (stage # "sbox" => StageR = R) /\ StageRows \in Nat
      /\ (stage = "sbox" => StageRows = job.sboxRows)
      /\ (stage # "sbox" => StageRows = job.N)
  BY StageSizes
<1>3. /\ BAt = 0 /\ VAt = 2 * R /\ XYAt = 2 * R + VSize /\ XAt = XYAt
      /\ YAt(StageR) = XYAt + 2 * StageR /\ ZAt(1) = XYAt + 4
      /\ SAt = 2 * R + VSize + XYSize
  BY DEF BAt, VAt, XYAt, XAt, YAt, ZAt, SAt, BSize
<1>4. /\ Inside(XYAt, XYSize) /\ Apart(XYAt, XYSize, BAt, 2 * R)
      /\ Apart(XYAt, XYSize, SAt, SSize) /\ Apart(BAt, 2 * StageR, SAt, SSize)
      /\ ~ job.simd => ZAt(1) \in XYAt .. XYAt + XYSize - 1
  BY <1>1, <1>2, <1>3 DEF Inside, Apart
<1>5. /\ \A at \in {XAt, YAt(StageR)} :
           /\ XYAt <= at /\ at + 2 * StageR <= XYAt + XYSize
           /\ ~ job.simd /\ stage = "sbox" => ZAt(1) \notin at .. at + 2 * StageR - 1
      /\ Apart(XAt, 2 * StageR, YAt(StageR), 2 * StageR)
      /\ Apart(YAt(StageR), 2 * StageR, XAt, 2 * StageR)
  BY <1>1, <1>2, <1>3 DEF Apart
<1>6. ASSUME NEW k \in 0 .. StageRows - 1
      PROVE  /\ Inside(VRow(k), 2 * StageR) /\ VRow(k) \in Nat
             /\ stage = "sbox" => SAt <= VRow(k)
             /\ stage # "sbox" => 2 * R <= VRow(k) /\ VRow(k) + 2 * StageR <= XYAt
  <2>1. Inside(VRow(k), 2 * StageR)
    BY <1>2, Regions
  <2>2. CASE stage = "sbox"
    BY <1>1, <1>2, <1>3, <2>1, <2>2 DEF VRow, Inside
  <2>3. CASE stage # "sbox"
    <3> DEFINE at == (2 * R) * k
    <3>1. at \in Nat /\ at + 2 * R <= VSize
      <4>1. 2 * R \in Nat /\ job.N \in Nat /\ k \in 0 .. job.N - 1
        BY <1>1, <1>2, <2>3
      <4> QED
        BY <1>1, <4>1, RowEnds
    <3>2. VRow(k) = VAt + at
      BY <1>2, <2>3 DEF VRow
    <3> HIDE DEF at
    <3> QED
      BY <1>1, <1>2, <1>3, <2>1, <2>3, <3>1, <3>2 DEF Inside
  <2> QED
    BY <2>2, <2>3
<1>7. ASSUME NEW k \in 0 .. StageRows - 1, NEW l \in 0 .. StageRows - 1, k < l
      PROVE  VRow(k) + 2 * StageR <= VRow(l)
  <2> DEFINE d == 2 * StageR
             base == IF stage = "sbox" THEN SAt ELSE VAt
             at == d * k
             to == d * l
  <2>1. at \in Nat /\ to \in Nat /\ at + d <= to
    <3>1. d \in Nat /\ l \in Nat /\ k \in 0 .. l - 1
      BY <1>2, <1>7
    <3>2. \A q \in Nat : d * q \in Nat
      BY <3>1
    <3> HIDE DEF d
    <3> QED
      BY <3>1, <3>2, RowEnds
  <2>2. VRow(k) = base + at /\ VRow(l) = base + to /\ base \in Nat /\ d \in Nat
    BY <1>1, <1>2, <1>3 DEF VRow
  <2> HIDE DEF at, to, base
  <2> QED
    BY <2>1, <2>2
<1>8. ASSUME NEW k \in 0 .. StageRows - 1
      PROVE  /\ Apart(XYAt, XYSize, VRow(k), 2 * StageR)
             /\ Apart(VRow(k), 2 * StageR, BAt, 2 * R)
             /\ Apart(BAt, 2 * StageR, VRow(k), 2 * StageR)
             /\ stage # "sbox" => Apart(VRow(k), 2 * StageR, SAt, SSize)
  BY <1>1, <1>2, <1>3, <1>6 DEF Apart
<1>9. ASSUME NEW k \in 0 .. StageRows - 1, NEW l \in 0 .. StageRows - 1, k # l
      PROVE  Apart(VRow(k), 2 * StageR, VRow(l), 2 * StageR)
  <2>1. CASE k < l
    BY <1>7, <2>1 DEF Apart
  <2>2. CASE l < k
    BY <1>7, <2>2 DEF Apart
  <2> QED
    BY <1>2, <1>9, <2>1, <2>2
<1> QED
  BY <1>4, <1>5, <1>6, <1>8, <1>9

(* What is apart from XY is apart from the two buffers in it.              *)
LEMMA ApartFromBuffers ==
  ASSUME job \in Jobs, job.yescrypt, NEW at \in {XAt, YAt(StageR)}, NEW b, NEW k,
         Inside(b, k), Apart(XYAt, XYSize, b, k)
  PROVE  Apart(at, 2 * StageR, b, k) /\ Apart(b, k, at, 2 * StageR)
<1>1. /\ XYAt <= at /\ at + 2 * StageR <= XYAt + XYSize /\ Inside(XYAt, XYSize)
      /\ Inside(at, 2 * StageR)
  <2>1. Inside(at, 2 * StageR)
    <3>1. stage = "sbox" => job.yescrypt
      OBVIOUS
    <3> QED
      BY <3>1, Regions
  <2> QED
    BY <2>1, YescryptApart
<1> QED
  BY <1>1 DEF Inside, Apart

(* The portable build mixes into one of the buffers.                       *)
LEMMA BlockmixOfComputes ==
  ASSUME PowInv, job.yescrypt, ~ job.simd, NEW m, Memory(m),
         NEW Bin, Own(m, Bin, 2 * StageR),
         NEW Bout \in {XAt, YAt(StageR)}, Apart(Bout, 2 * StageR, Bin, 2 * StageR),
         stage = "sbox" => ZAt(1) \notin Bin .. Bin + 2 * StageR - 1,
         stage # "sbox" => Read(m, SAt, SSize) = Read(mem, SAt, SSize)
  PROVE  LET after == BlockmixOf(m, Bin, Bout)
         IN  /\ MixesTo(Read(m, Bin, 2 * StageR), Read(after, Bout, 2 * StageR))
             /\ \A at, k : /\ Inside(at, k) /\ Apart(XYAt, XYSize, at, k)
                           => Read(after, at, k) = Read(m, at, k)
<1> DEFINE after == BlockmixOf(m, Bin, Bout)
<1>1. /\ job \in Jobs /\ StageR \in Nat \ {0} /\ (stage = "sbox" => StageR = 1)
      /\ ShuffledCore \in [Word -> Word]
  BY YescryptFacts, ShuffledCoreIsWord
<1>2. Inside(Bout, 2 * StageR)
  BY <1>1, Regions
<1>3. CASE stage # "sbox"
  <2>1. after = BlockmixPwxform(ShuffledCore, m, Bin, Bout, SAt, SSize, R)
    BY <1>3 DEF BlockmixOf
  <2> HIDE DEF after
  <2>2. /\ MixesTo(Read(m, Bin, 2 * StageR), Read(after, Bout, 2 * StageR))
        /\ \A at, k : /\ Inside(at, k) /\ Apart(Bout, 2 * StageR, at, k)
                      => Read(after, at, k) = Read(m, at, k)
    BY <1>2, <1>3, <2>1, BlockmixPwxformComputes
  <2> QED
    BY <1>1, <2>2, ApartFromBuffers DEF after
<1>4. CASE stage = "sbox"
  <2> DEFINE b == Read(m, Bin, 2)
  <2>1. after = BlockmixSalsa8(ShuffledCore, m, Bin, Bout, ZAt(1), 1) /\ 2 * StageR = 2
    BY <1>1, <1>4 DEF BlockmixOf
  <2>2. /\ Own(m, Bin, 2 * 1) /\ Inside(Bout, 2 * 1) /\ Apart(Bin, 2 * 1, Bout, 2 * 1)
        /\ ZAt(1) \in 0 .. Need - 1
        /\ ZAt(1) \notin Bin .. Bin + 2 * 1 - 1 /\ ZAt(1) \notin Bout .. Bout + 2 * 1 - 1
        /\ ZAt(1) \in XYAt .. XYAt + XYSize - 1
    BY <1>1, <1>2, <1>4, YescryptApart, Regions DEF Apart
  <2> HIDE DEF after
  <2>3. /\ Read(after, Bout, 2) = SpecBlockMix(ShuffledCore, b, 1)
        /\ \A a \in 0 .. Need - 1 :
             a = ZAt(1) \/ a \in Bout .. Bout + 2 - 1 \/ after[a] = m[a]
    <3>1. /\ Read(after, Bout, 2 * 1) = SpecBlockMix(ShuffledCore, Read(m, Bin, 2 * 1), 1)
          /\ \A a \in 0 .. Need - 1 :
               a = ZAt(1) \/ a \in Bout .. Bout + 2 * 1 - 1 \/ after[a] = m[a]
      BY <1>1, <2>1, <2>2, BlockmixSalsa8Computes
    <3>2. 2 * 1 = 2
      OBVIOUS
    <3> QED
      BY <3>1, <3>2
  <2>4. b \in [0 .. 2 - 1 -> Word]
    <3>1. \A k \in 0 .. 2 - 1 : Bin + k \in Bin .. Bin + 2 * 1 - 1
      BY <2>2 DEF Own
    <3> QED
      BY <2>2, <3>1 DEF Own, Read
  <2> HIDE DEF b
  <2>5. PICK c : c \in Chain(Link, b, 2)
    <3> DEFINE n == 2
    <3>1. Link \in [(0 .. n - 1) \X Word -> Word]
      BY <2>1, LinkIsWord
    <3>2. n \in Nat \ {0} /\ b \in [0 .. n - 1 -> Word]
      BY <2>4
    <3> HIDE DEF n
    <3>3. \E c : c \in Chain(Link, b, n)
      BY <3>1, <3>2, ChainExists
    <3> QED
      BY <3>3 DEF n
  <2>6. Link = ByCore(ShuffledCore, 2 * 1)
    BY <1>4, <2>1 DEF Link, ByCore
  <2>7. SpecBlockMix(ShuffledCore, b, 1) = [k \in 0 .. 2 - 1 |-> c[k + 1]]
    <3>1. c \in Chain(ByCore(ShuffledCore, 2 * 1), b, 2 * 1) /\ b \in [0 .. 2 * 1 - 1 -> Word]
          /\ 1 \in Nat \ {0}
      BY <2>4, <2>5, <2>6
    <3>2. SpecBlockMix(ShuffledCore, b, 1) = SalsaOut(c, 1)
      <4> DEFINE r == 1
      <4>1. /\ r \in Nat \ {0} /\ b \in [0 .. 2 * r - 1 -> Word]
            /\ c \in Chain(ByCore(ShuffledCore, 2 * r), b, 2 * r)
        BY <3>1
      <4> HIDE DEF r
      <4>2. SpecBlockMix(ShuffledCore, b, r) = SalsaOut(c, r)
        BY <1>1, <4>1, SpecOutIs
      <4> QED
        BY <4>2 DEF r
    <3>3. \A k \in 0 .. 2 * 1 - 1 :
            (IF k < 1 THEN c[2 * k + 1] ELSE c[2 * (k - 1) + 2]) = c[k + 1]
      <4>1. \A k \in 0 .. 2 * 1 - 1 : k = 0 \/ k = 1
        OBVIOUS
      <4> QED
        BY <4>1
    <3> QED
      BY <3>2, <3>3 DEF SalsaOut
  <2>8. MixesTo(b, Read(after, Bout, 2))
    <3>1. 2 * StageR = 2
      BY <2>1
    <3>2. Read(after, Bout, 2) = [k \in 0 .. 2 - 1 |-> c[k + 1]]
      BY <2>3, <2>7
    <3>3. c \in Chain(Link, b, 2)
      BY <2>5
    <3> QED
      BY <3>1, <3>2, <3>3 DEF MixesTo
  <2>9. ASSUME NEW at, NEW k, Inside(at, k), Apart(XYAt, XYSize, at, k)
        PROVE  Read(after, at, k) = Read(m, at, k)
    <3>1. Apart(Bout, 2, at, k)
      BY <1>1, <2>1, <2>9, ApartFromBuffers
    <3>2. ASSUME NEW e \in 0 .. k - 1 PROVE after[at + e] = m[at + e]
      <4>1. /\ at + e \in 0 .. Need - 1 /\ at + e # ZAt(1) /\ at + e \notin Bout .. Bout + 2 - 1
        <5> DEFINE Z == ZAt(1)
                   xy == XYAt
                   size == XYSize
        <5>1. /\ at \in Nat /\ k \in Nat /\ at + k <= Need /\ Need \in Nat /\ Bout \in Nat
              /\ xy \in Nat /\ size \in Nat /\ Z \in xy .. xy + size - 1
              /\ Bout + 2 <= at \/ at + k <= Bout
              /\ xy + size <= at \/ at + k <= xy
          BY <1>1, <1>2, <2>2, <2>9, <3>1, YescryptApart DEF Inside, Memory, Apart
        <5> HIDE DEF Z, xy, size
        <5>2. at + e \in 0 .. Need - 1 /\ at + e # Z /\ at + e \notin Bout .. Bout + 2 - 1
          BY <5>1
        <5> QED
          BY <5>2 DEF Z
      <4> QED
        BY <2>3, <4>1
    <3> QED
      BY <3>2 DEF Read
  <2> QED
    BY <2>1, <2>8, <2>9 DEF after, b
<1> QED
  BY <1>3, <1>4

-----------------------------------------------------------------------------
(* What the refinement mapping is for yescrypt: n cells as numbered, and   *)
(* a block of which the first n sub-blocks are elsewhere.                  *)
Unpermuted(m, at, n) == [k \in 0 .. n - 1 |-> Lift(Unshuffle, m[at + k])]
Joined(m, at, n) ==
  [k \in 0 .. 2 * R - 1 |-> IF k < n THEN Lift(Unshuffle, m[at + k]) ELSE m[BAt + k]]

YescryptView ==
  job.yescrypt =>
    /\ Block = IF pc = "load" THEN Read(mem, BAt, 2 * R) ELSE Joined(mem, ActiveAt, 2 * StageR)
    /\ Table = IF stage = "done" THEN << >>
               ELSE [k \in 0 .. (IF stage \in {"sbox", "fill"} THEN Done ELSE job.N) - 1 |->
                       Unpermuted(mem, VRow(k), 2 * StageR)]
    /\ SBoxTable = IF stage = "sbox" THEN << >>
                   ELSE [k \in 0 .. job.sboxRows - 1 |-> Unpermuted(mem, SAt + 2 * k, 2)]

(* It is that in every reachable state, ...                                *)
LEMMA YescryptViewHolds == PowInv => YescryptView
<1> SUFFICES ASSUME PowInv, job.yescrypt
             PROVE  /\ Block = IF pc = "load" THEN Read(mem, BAt, 2 * R)
                               ELSE Joined(mem, ActiveAt, 2 * StageR)
                    /\ Table = IF stage = "done" THEN << >>
                       ELSE [k \in 0 .. (IF stage \in {"sbox", "fill"} THEN Done ELSE job.N) - 1 |->
                               Unpermuted(mem, VRow(k), 2 * StageR)]
                    /\ SBoxTable = IF stage = "sbox" THEN << >>
                       ELSE [k \in 0 .. job.sboxRows - 1 |-> Unpermuted(mem, SAt + 2 * k, 2)]
  BY DEF YescryptView
<1>1. ASSUME NEW at, NEW n PROVE Plain(Read(mem, at, n)) = Unpermuted(mem, at, n)
  BY DEF Plain, Read, Unpermuted
<1>2. Block = IF pc = "load" THEN Read(mem, BAt, 2 * R)
              ELSE Joined(mem, ActiveAt, 2 * StageR)
  <2> DEFINE n == 2 * StageR
  <2>1. n \in Nat /\ R \in Nat
    BY YescryptFacts
  <2>2. Block = [k \in 0 .. 2 * R - 1 |->
                   IF pc = "load" \/ k >= n THEN mem[BAt + k]
                   ELSE Unpermuted(mem, ActiveAt, n)[k]]
    BY <1>1 DEF Block
  <2>3. ASSUME NEW k \in 0 .. 2 * R - 1
        PROVE  /\ k >= n <=> ~ (k < n)
               /\ k < n => Unpermuted(mem, ActiveAt, n)[k] = Lift(Unshuffle, mem[ActiveAt + k])
    BY <2>1 DEF Unpermuted
  <2> HIDE DEF n
  <2> QED
    BY <2>2, <2>3 DEF Read, Joined, n
<1>3. Table = IF stage = "done" THEN << >>
              ELSE [k \in 0 .. (IF stage \in {"sbox", "fill"} THEN Done ELSE job.N) - 1 |->
                      Unpermuted(mem, VRow(k), 2 * StageR)]
  BY <1>1 DEF Table, RowsOf
<1>4. SBoxTable = IF stage = "sbox" THEN << >>
                  ELSE [k \in 0 .. job.sboxRows - 1 |-> Unpermuted(mem, SAt + 2 * k, 2)]
  BY <1>1 DEF SBoxTable, RowsOf, SRow
<1> QED
  BY <1>2, <1>3, <1>4

(* ... so in the next one.                                                 *)
LEMMA YescryptViewStays == PowInv' => YescryptView'
  BY YescryptViewHolds, PTL

(* Cells that read the same.                                               *)
LEMMA SameCells ==
  ASSUME NEW m, NEW after, NEW at, NEW to, NEW n,
         Read(after, to, n) = Read(m, at, n)
  PROVE  /\ \A k \in 0 .. n - 1 : after[to + k] = m[at + k]
         /\ Unpermuted(after, to, n) = Unpermuted(m, at, n)
<1>1. ASSUME NEW k \in 0 .. n - 1 PROVE after[to + k] = m[at + k]
  <2>1. Read(after, to, n)[k] = Read(m, at, n)[k]
    OBVIOUS
  <2> QED
    BY <2>1 DEF Read
<1> QED
  BY <1>1 DEF Unpermuted

(* The S-box, if it reads the same, is the same table.                     *)
LEMMA SameSBox ==
  ASSUME job \in Jobs, NEW m, Read(m, SAt, SSize) = Read(mem, SAt, SSize)
  PROVE  [k \in 0 .. job.sboxRows - 1 |-> Unpermuted(m, SAt + 2 * k, 2)]
           = [k \in 0 .. job.sboxRows - 1 |-> Unpermuted(mem, SAt + 2 * k, 2)]
<1>1. SSize = 2 * job.sboxRows /\ job.sboxRows \in Nat /\ SAt \in Nat
  <2>1. R \in Nat /\ VSize \in Nat /\ XYSize \in Nat /\ SSize = 2 * job.sboxRows
        /\ job.sboxRows \in Nat
    BY Sizes
  <2> QED
    BY <2>1 DEF SAt, BSize
<1>2. \A c \in 0 .. SSize - 1 : m[SAt + c] = mem[SAt + c]
  BY SameCells
<1>3. ASSUME NEW k \in 0 .. job.sboxRows - 1, NEW e \in 0 .. 2 - 1
      PROVE  m[SAt + 2 * k + e] = mem[SAt + 2 * k + e]
  <2>1. 2 * k + e \in 0 .. SSize - 1 /\ SAt + (2 * k + e) = SAt + 2 * k + e
    BY <1>1
  <2> QED
    BY <1>2, <2>1
<1> QED
  BY <1>3 DEF Unpermuted

(* The last sub-block of a block is the one that names a row.              *)
LEMMA IntegerifyOfBlock ==
  ASSUME NEW n \in Nat \ {0}, NEW b, DOMAIN b = 0 .. n - 1
  PROVE  Abstract!Integerify(b) = b[n - 1]
<1>1. \A k \in 0 .. n - 1 : k + 1 \notin 0 .. n - 1 => k = n - 1
  OBVIOUS
<1>2. n - 1 \in 0 .. n - 1 /\ (n - 1) + 1 \notin 0 .. n - 1
  OBVIOUS
<1>3. (CHOOSE k \in DOMAIN b : k + 1 \notin DOMAIN b) = n - 1
  BY <1>1, <1>2
<1> QED
  BY <1>3 DEF Abstract!Integerify

(* Cells of this hash, as numbered.                                        *)
LEMMA UnpermutedIs ==
  ASSUME job.yescrypt, NEW m, NEW at, NEW n \in Nat, Own(m, at, n)
  PROVE  /\ Read(m, at, n) \in [0 .. n - 1 -> Word]
         /\ Unpermuted(m, at, n) \in [0 .. n - 1 -> Word]
         /\ Unpermuted(m, at, n) = Plain(Read(m, at, n))
         /\ \A k \in 0 .. n - 1 : /\ m[at + k] \in Word
                                  /\ Lift(Unshuffle, m[at + k]) = Unshuffle[m[at + k]]
<1>1. ASSUME NEW k \in 0 .. n - 1
      PROVE  /\ m[at + k] \in Word /\ Lift(Unshuffle, m[at + k]) = Unshuffle[m[at + k]]
             /\ Unshuffle[m[at + k]] \in Word
  <2>1. at + k \in at .. at + n - 1
    BY DEF Own
  <2>2. m[at + k] \in Word
    BY <2>1 DEF Own
  <2> QED
    BY <2>2, UnshuffleIsWord, Cells DEF Lift
<1> QED
  BY <1>1 DEF Read, Unpermuted, Plain

(* The exclusive or of two blocks is that of their plain forms.            *)
LEMMA XorOfPlain ==
  ASSUME job.yescrypt, NEW n \in Nat, NEW a \in [0 .. n - 1 -> Word], NEW b \in [0 .. n - 1 -> Word]
  PROVE  /\ XorBlock(a, b) \in [0 .. n - 1 -> Word]
         /\ Plain(XorBlock(a, b)) = XorBlock(Plain(a), Plain(b))
<1>1. ASSUME NEW k \in 0 .. n - 1
      PROVE  /\ XorCell(a[k], b[k]) \in Word
             /\ Unshuffle[XorCell(a[k], b[k])] = XorCell(Plain(a)[k], Plain(b)[k])
  <2>1. /\ a[k] \in Word /\ b[k] \in Word
        /\ Plain(a)[k] = Unshuffle[a[k]] /\ Plain(b)[k] = Unshuffle[b[k]]
    BY PlainIs
  <2>2. Unshuffle[a[k]] \in Word /\ Unshuffle[b[k]] \in Word
    BY <2>1, UnshuffleIsWord
  <2>3. XorCell(a[k], b[k]) = XorWord(a[k], b[k]) /\ XorCell(a[k], b[k]) \in Word
        /\ XorCell(Unshuffle[a[k]], Unshuffle[b[k]]) = XorWord(Unshuffle[a[k]], Unshuffle[b[k]])
    BY <2>1, <2>2, Cells DEF XorCell
  <2> QED
    BY <2>1, <2>3, ShufflesUndo
<1>2. XorBlock(a, b) \in [0 .. n - 1 -> Word]
  BY <1>1 DEF XorBlock
<1>3. /\ Plain(XorBlock(a, b)) \in [0 .. n - 1 -> Word]
      /\ \A k \in 0 .. n - 1 : Plain(XorBlock(a, b))[k] = Unshuffle[XorBlock(a, b)[k]]
  BY <1>2, PlainIs
<1>4. Plain(a) \in [0 .. n - 1 -> Word]
  BY PlainIs
<1>5. \A k \in 0 .. n - 1 : XorBlock(a, b)[k] = XorCell(a[k], b[k])
  BY DEF XorBlock
<1>6. XorBlock(Plain(a), Plain(b)) = [k \in 0 .. n - 1 |-> XorCell(Plain(a)[k], Plain(b)[k])]
  BY <1>4 DEF XorBlock
<1> QED
  BY <1>1, <1>2, <1>3, <1>5, <1>6

(* What the next block and tables are, within a stage.                     *)
LEMMA YescryptNextView ==
  ASSUME PowInv, PowInv', job.yescrypt, UNCHANGED <<job, stage>>
  PROVE  /\ Block' = IF pc' = "load" THEN Read(mem', BAt, 2 * R)
                     ELSE [k \in 0 .. 2 * R - 1 |->
                             IF k < 2 * StageR THEN Lift(Unshuffle, mem'[ActiveAt' + k])
                             ELSE mem'[BAt + k]]
         /\ Table' = IF stage = "done" THEN << >>
                     ELSE [k \in 0 .. (IF stage \in {"sbox", "fill"} THEN Done' ELSE job.N) - 1 |->
                             Unpermuted(mem', VRow(k), 2 * StageR)]
         /\ SBoxTable' = IF stage = "sbox" THEN << >>
                         ELSE [k \in 0 .. job.sboxRows - 1 |-> Unpermuted(mem', SAt + 2 * k, 2)]
<1>1. YescryptView'
  BY YescryptViewStays
<1>2. /\ R' = R /\ BAt' = BAt /\ SAt' = SAt /\ StageR' = StageR /\ \A k : VRow(k)' = VRow(k)
      /\ job' = job /\ stage' = stage
  BY RegionsStay
<1>3. /\ Read(mem, BAt, 2 * R)' = Read(mem', BAt, 2 * R)
      /\ Joined(mem, ActiveAt, 2 * StageR)'
           = [k \in 0 .. 2 * R - 1 |->
                IF k < 2 * StageR THEN Lift(Unshuffle, mem'[ActiveAt' + k]) ELSE mem'[BAt + k]]
  BY <1>2 DEF Read, Joined, Lift
<1>4. \A k : Unpermuted(mem, VRow(k), 2 * StageR)' = Unpermuted(mem', VRow(k), 2 * StageR)
  BY <1>2 DEF Unpermuted
<1>5. \A k : Unpermuted(mem, SAt + 2 * k, 2)' = Unpermuted(mem', SAt + 2 * k, 2)
  BY <1>2 DEF Unpermuted
<1>6. Block' = IF pc' = "load" THEN Read(mem, BAt, 2 * R)' ELSE Joined(mem, ActiveAt, 2 * StageR)'
  BY <1>1, <1>2 DEF YescryptView
<1>7. Table' = IF stage = "done" THEN << >>
               ELSE [k \in 0 .. (IF stage \in {"sbox", "fill"} THEN Done' ELSE job.N) - 1 |->
                       Unpermuted(mem, VRow(k), 2 * StageR)']
  BY <1>1, <1>2 DEF YescryptView
<1>8. SBoxTable' = IF stage = "sbox" THEN << >>
                   ELSE [k \in 0 .. job.sboxRows - 1 |-> Unpermuted(mem, SAt + 2 * k, 2)']
  BY <1>1, <1>2 DEF YescryptView
<1> QED
  BY <1>3, <1>4, <1>5, <1>6, <1>7, <1>8

(* Fill, of any build and at any place: if the block was mixed into its    *)
(* new place, with an earlier row from row 2 on, and the rows are kept and *)
(* joined by the block as it was, then this is a step of ROMix.            *)
LEMMA YescryptFills ==
  ASSUME PowInv, PowInv', job.yescrypt, UNCHANGED <<job, stage>>,
         stage \in {"sbox", "fill"}, pc # "load", pc' # "load",
         NEW d \in Nat, Done = d, Done' = d + 1, d < StageRows,
         NEW p, d >= 2 => IsPower(p) /\ p <= d /\ d < 2 * p,
         NEW in, in = IF d >= 2
                      THEN XorBlock(Read(mem, ActiveAt, 2 * StageR),
                             Read(mem, VRow((Unshuffle[mem[ActiveAt + 2 * StageR - 1]] % p)
                                              + d - p), 2 * StageR))
                      ELSE Read(mem, ActiveAt, 2 * StageR),
         MixesTo(in, Read(mem', ActiveAt', 2 * StageR)),
         Read(mem', BAt, 2 * R) = Read(mem, BAt, 2 * R),
         stage = "fill" => Read(mem', SAt, SSize) = Read(mem, SAt, SSize),
         \A k \in 0 .. d - 1 : Read(mem', VRow(k), 2 * StageR) = Read(mem, VRow(k), 2 * StageR),
         Read(mem', VRow(d), 2 * StageR) = Read(mem, ActiveAt, 2 * StageR)
  PROVE  Abstract!Fill
<1> DEFINE n == 2 * StageR
           at == ActiveAt
           to == ActiveAt'
           act == Read(mem, at, n)
           last == Unshuffle[mem[at + n - 1]]
           k0 == (last % p) + d - p
           row == Read(mem, VRow(k0), n)
<1>1. /\ job \in Jobs /\ StageR \in Nat \ {0} /\ StageR <= R /\ R \in Nat \ {0} /\ n \in Nat \ {0}
      /\ stage = "sbox" => StageR = 1 /\ StageRows = job.sboxRows
      /\ stage # "sbox" => StageR = R /\ StageRows = job.N
      /\ Own(mem, at, n) /\ \A k \in 0 .. d - 1 : Own(mem, VRow(k), n)
  <2>1. d <= RowsOwn /\ RowsOwn \in Nat
    <3>1. stage \notin {"mixrw", "mix"}
      OBVIOUS
    <3>2. pc \in {"first", "second"} => d <= 1
      BY DEF Done
    <3> QED
      BY <3>1, <3>2 DEF RowsOwn
  <2>2. \A k \in 0 .. RowsOwn - 1 : Own(mem, VRow(k), 2 * StageR)
    BY YescryptFacts
  <2>3. \A k \in 0 .. d - 1 : k \in 0 .. RowsOwn - 1
    BY <2>1
  <2> QED
    BY <2>2, <2>3, YescryptFacts
<1>2. /\ act \in [0 .. n - 1 -> Word] /\ Plain(act) \in [0 .. n - 1 -> Word]
      /\ Plain(act) = Unpermuted(mem, at, n) /\ mem[at + n - 1] \in Word
      /\ Plain(act)[n - 1] = last /\ last \in Word
  <2>1. n \in Nat /\ n - 1 \in 0 .. n - 1 /\ at + (n - 1) = at + n - 1
    <3>1. at \in Nat
      BY <1>1 DEF Own
    <3> HIDE DEF n, at
    <3> QED
      BY <1>1, <3>1
  <2> HIDE DEF n, at
  <2>2. /\ act \in [0 .. n - 1 -> Word] /\ Plain(act) = Unpermuted(mem, at, n)
        /\ \A k \in 0 .. n - 1 : mem[at + k] \in Word
    BY <1>1, <2>1, UnpermutedIs
  <2>3. /\ Plain(act) \in [0 .. n - 1 -> Word] /\ Plain(act)[n - 1] = Unshuffle[act[n - 1]]
    BY <2>1, <2>2, PlainIs
  <2>4. act[n - 1] = mem[at + n - 1]
    BY <2>1 DEF Read
  <2> QED
    BY <2>1, <2>2, <2>3, <2>4
<1>3. Abstract!Active = Plain(act)
  <2>1. Block = Joined(mem, at, n)
    BY YescryptViewHolds DEF YescryptView
  <2>2. CASE stage = "sbox"
    <3>1. Abstract!Active = [k \in 0 .. 1 |-> Block[k]] /\ n = 2
      BY <1>1, <2>2 DEF Abstract!Active
    <3>2. ASSUME NEW k \in 0 .. 1 PROVE Block[k] = Lift(Unshuffle, mem[at + k])
      <4>1. k \in 0 .. 2 * R - 1 /\ k < n
        BY <1>1, <3>1
      <4> HIDE DEF n, at
      <4> QED
        BY <2>1, <4>1 DEF Joined
    <3>3. Plain(act) = [k \in 0 .. 1 |-> Lift(Unshuffle, mem[at + k])]
      <4>1. 0 .. n - 1 = 0 .. 1 /\ Plain(act) = Unpermuted(mem, at, n)
        BY <1>2, <3>1
      <4> HIDE DEF n, at, act
      <4> QED
        BY <4>1 DEF Unpermuted
    <3> QED
      BY <3>1, <3>2, <3>3
  <2>3. CASE stage # "sbox"
    <3>1. Abstract!Active = Block /\ n = 2 * R
      BY <1>1, <2>3 DEF Abstract!Active
    <3>2. \A k \in 0 .. 2 * R - 1 : k < n
      BY <1>1, <3>1
    <3> HIDE DEF n, at
    <3> QED
      BY <1>2, <2>1, <3>1, <3>2 DEF Joined, Unpermuted
  <2> QED
    BY <2>2, <2>3
<1>4. Table = [k \in 0 .. d - 1 |-> Unpermuted(mem, VRow(k), n)]
  BY YescryptViewHolds DEF YescryptView
<1> HIDE DEF n, at, to
<1>5. d >= 2 => k0 \in 0 .. d - 1 /\ P2floor(d) = p
  <2> SUFFICES ASSUME d >= 2 PROVE k0 \in 0 .. d - 1 /\ P2floor(d) = p
    OBVIOUS
  <2>1. p \in Nat \ {0} /\ P2floor(d) = p
    BY PowersOfTwo, P2floorIs
  <2>2. last \in Nat
    BY <1>2, Cells
  <2> HIDE DEF last
  <2>3. last % p \in Nat /\ last % p < p
    BY <2>1, <2>2, Remainder
  <2> DEFINE q == last % p
  <2> HIDE DEF q
  <2>4. q \in Nat /\ q < p /\ k0 = q + d - p
    BY <2>3 DEF q
  <2> QED
    BY <2>1, <2>4
<1>6. Abstract!Wrapped(Abstract!Active) = (last % P2floor(d)) + d - P2floor(d)
  <2>1. Abstract!Integerify(Plain(act)) = last
    <3>1. DOMAIN Plain(act) = 0 .. n - 1
      BY <1>2
    <3> QED
      BY <1>1, <1>2, <3>1, IntegerifyOfBlock
  <2> QED
    BY <1>3, <2>1, AbstractSame DEF Abstract!Wrapped
<1> DEFINE y == IF d >= 2 THEN XorBlock(Plain(act), Table[k0]) ELSE Plain(act)
<1>7. in \in [0 .. n - 1 -> Word] /\ Plain(in) = y
  <2>1. CASE d >= 2
    <3>1. k0 \in 0 .. d - 1 /\ Own(mem, VRow(k0), n)
      BY <1>1, <1>5, <2>1
    <3> HIDE DEF k0
    <3>2. row \in [0 .. n - 1 -> Word] /\ Plain(row) = Table[k0] /\ n \in Nat
      BY <1>1, <1>4, <3>1, UnpermutedIs
    <3>3. in = XorBlock(act, row)
      BY <2>1 DEF k0, n, at
    <3> HIDE DEF act, row
    <3> QED
      BY <1>2, <2>1, <3>2, <3>3, XorOfPlain
  <2>2. CASE ~ (d >= 2)
    BY <1>2, <2>2 DEF n, at
  <2> QED
    BY <2>1, <2>2
<1>8. y = IF d >= 2 THEN Abstract!XorBlock(Abstract!Active, Table[Abstract!Wrapped(Abstract!Active)])
          ELSE Abstract!Active
  BY <1>3, <1>5, <1>6, AbstractSame
<1> HIDE DEF y
<1>9. Block' = Abstract!Mixed(y)
  <2>1. Abstract!Mixed(y)
          = [k \in 0 .. 2 * R - 1 |-> IF k < n THEN Plain(Read(mem', to, n))[k] ELSE Block[k]]
    BY <1>7, MixedIs DEF n, to
  <2>2. Block' = [k \in 0 .. 2 * R - 1 |->
                    IF k < n THEN Lift(Unshuffle, mem'[to + k]) ELSE mem'[BAt + k]]
    BY YescryptNextView DEF n, to
  <2>3. ASSUME NEW k \in 0 .. 2 * R - 1, k < n
        PROVE  Plain(Read(mem', to, n))[k] = Lift(Unshuffle, mem'[to + k])
    <3>1. k \in 0 .. n - 1
      BY <1>1, <2>3
    <3> QED
      BY <3>1 DEF Plain, Read
  <2>4. ASSUME NEW k \in 0 .. 2 * R - 1, ~ (k < n)
        PROVE  Block[k] = mem'[BAt + k]
    <3>1. Block = Joined(mem, at, n)
      BY YescryptViewHolds DEF YescryptView, at, n
    <3>2. mem'[BAt + k] = mem[BAt + k]
      BY SameCells
    <3> QED
      BY <2>4, <3>1, <3>2 DEF Joined
  <2> QED
    BY <2>1, <2>2, <2>3, <2>4
<1>10. Table' = [k \in 0 .. d |-> IF k = d THEN Abstract!Active ELSE Table[k]]
  <2>1. Table' = [k \in 0 .. d |-> Unpermuted(mem', VRow(k), n)]
    <3>1. (d + 1) - 1 = d
      OBVIOUS
    <3>2. Table' = [k \in 0 .. Done' - 1 |-> Unpermuted(mem', VRow(k), n)]
      BY YescryptNextView DEF n
    <3> QED
      BY <3>1, <3>2
  <2>2. ASSUME NEW k \in 0 .. d
        PROVE  Unpermuted(mem', VRow(k), n) = IF k = d THEN Abstract!Active ELSE Table[k]
    <3>1. CASE k = d
      BY <1>2, <1>3, <3>1, SameCells DEF n, at
    <3>2. CASE k # d
      <4>1. k \in 0 .. d - 1
        BY <3>2
      <4>2. Read(mem', VRow(k), n) = Read(mem, VRow(k), n)
        BY <4>1 DEF n
      <4>3. Unpermuted(mem', VRow(k), n) = Unpermuted(mem, VRow(k), n)
        BY <4>2, SameCells
      <4> QED
        BY <1>4, <3>2, <4>1, <4>3
    <3> QED
      BY <3>1, <3>2
  <2> QED
    BY <2>1, <2>2
<1>11. SBoxTable' = SBoxTable
  <2>1. CASE stage = "sbox"
    BY <2>1, YescryptNextView, YescryptViewHolds DEF YescryptView
  <2>2. CASE stage = "fill"
    <3>1. /\ SBoxTable' = [k \in 0 .. job.sboxRows - 1 |-> Unpermuted(mem', SAt + 2 * k, 2)]
          /\ SBoxTable = [k \in 0 .. job.sboxRows - 1 |-> Unpermuted(mem, SAt + 2 * k, 2)]
      BY <2>2, YescryptNextView, YescryptViewHolds DEF YescryptView
    <3> QED
      BY <1>1, <2>2, <3>1, SameSBox
  <2> QED
    BY <2>1, <2>2
<1>12. d < Abstract!Steps
  BY <1>1 DEF Abstract!Steps
<1>13. Block' = Abstract!Mixed(IF job.yescrypt /\ Done >= 2
                               THEN Abstract!XorBlock(Abstract!Active, Table[Abstract!Wrapped(Abstract!Active)])
                               ELSE Abstract!Active)
  BY <1>8, <1>9
<1> QED
  BY <1>10, <1>11, <1>12, <1>13 DEF Abstract!Fill

(* The loops of smix2 do the steps of their phase, an even number.         *)
LEMMA StepsIs ==
  ASSUME job \in Jobs, job.yescrypt
  PROVE  /\ stage \in {"sbox", "fill"} => Abstract!Steps = StageRows
         /\ stage \in {"mixrw", "mix"} => Abstract!Steps = Nloop
         /\ Nloop \in Nat /\ Nloop % 2 = 0 /\ 2 * (Nloop \div 2) = Nloop
<1> DEFINE k == (job.N + 2) \div 3
<1>1. k \in Nat
  BY Sizes
<1>2. Abstract!Third = k /\ NloopRw = Even(k) /\ NloopAll = Even(k + 1)
  BY DEF Abstract!Third, NloopRw, NloopAll
<1> HIDE DEF k
<1>3. /\ Even(k) \in Nat /\ Even(k) % 2 = 0 /\ Even(k) = k - (k % 2)
      /\ Even(k + 1) - Even(k) \in Nat /\ (Even(k + 1) - Even(k)) % 2 = 0
      /\ Even(k + 1) - Even(k) = 2 * (k % 2)
  BY <1>1 DEF Even
<1>4. Nloop \in Nat /\ Nloop % 2 = 0
  BY <1>2, <1>3 DEF Nloop
<1>5. 2 * (Nloop \div 2) = Nloop
  BY <1>4
<1>6. stage \in {"mixrw", "mix"} => Abstract!Steps = Nloop
  BY <1>2, <1>3 DEF Abstract!Steps, Nloop
<1>7. stage \in {"sbox", "fill"} => Abstract!Steps = StageRows
  BY DEF Abstract!Steps, StageRows
<1> QED
  BY <1>4, <1>5, <1>6, <1>7

(* MixStep: if the block and a row, which takes the sum when rows are      *)
(* written back, were mixed into its new place, this is a step of ROMix.   *)
LEMMA YescryptMixStep ==
  ASSUME PowInv, PowInv', job.yescrypt, UNCHANGED <<job, stage>>,
         stage \in {"mixrw", "mix"}, pc # "load", pc' # "load",
         Done < Nloop, Done' = Done + 1,
         NEW k0, k0 = Unshuffle[mem[ActiveAt + 2 * R - 1]] % job.N,
         NEW in, in = XorBlock(Read(mem, ActiveAt, 2 * R), Read(mem, VRow(k0), 2 * R)),
         MixesTo(in, Read(mem', ActiveAt', 2 * R)),
         Read(mem', SAt, SSize) = Read(mem, SAt, SSize),
         \A k \in 0 .. job.N - 1 :
           Read(mem', VRow(k), 2 * R) = IF stage = "mixrw" /\ k = k0 THEN in
                                        ELSE Read(mem, VRow(k), 2 * R)
  PROVE  Abstract!MixStep
<1> DEFINE n == 2 * R
           at == ActiveAt
           to == ActiveAt'
           act == Read(mem, at, n)
           last == Unshuffle[mem[at + n - 1]]
           row == Read(mem, VRow(k0), n)
           y == XorBlock(Plain(act), Table[k0])
<1>1. /\ job \in Jobs /\ StageR = R /\ R \in Nat \ {0} /\ n \in Nat \ {0}
      /\ job.N \in Nat \ {0} /\ Own(mem, at, n) /\ RowsOwn = job.N
      /\ \A k \in 0 .. job.N - 1 : Own(mem, VRow(k), n)
  BY YescryptFacts, Sizes DEF RowsOwn
<1>2. Block = Plain(act) /\ Table = [k \in 0 .. job.N - 1 |-> Unpermuted(mem, VRow(k), n)]
  <2>1. Block = Joined(mem, at, n)
    BY <1>1, YescryptViewHolds DEF YescryptView
  <2>2. Table = [k \in 0 .. job.N - 1 |-> Unpermuted(mem, VRow(k), n)]
    BY <1>1, YescryptViewHolds DEF YescryptView
  <2>3. \A k \in 0 .. 2 * R - 1 : k < n
    BY <1>1
  <2>4. Joined(mem, at, n) = Unpermuted(mem, at, n)
    <3>1. Unpermuted(mem, at, n) = [k \in 0 .. 2 * R - 1 |-> Lift(Unshuffle, mem[at + k])]
      BY DEF Unpermuted
    <3> HIDE DEF n, at
    <3> QED
      BY <2>3, <3>1 DEF Joined
  <2>5. Plain(act) = Unpermuted(mem, at, n)
    <3>1. n \in Nat
      BY <1>1
    <3> HIDE DEF n, at
    <3> QED
      BY <1>1, <3>1, UnpermutedIs
  <2> QED
    BY <2>1, <2>2, <2>4, <2>5
<1> HIDE DEF n, at, to
<1>3. /\ act \in [0 .. n - 1 -> Word] /\ Plain(act) \in [0 .. n - 1 -> Word]
      /\ Plain(act)[n - 1] = last /\ last \in Word
  <2>1. n \in Nat /\ n - 1 \in 0 .. n - 1 /\ at + (n - 1) = at + n - 1
    <3>1. at \in Nat
      BY <1>1 DEF Own
    <3> QED
      BY <1>1, <3>1
  <2>2. act \in [0 .. n - 1 -> Word] /\ \A k \in 0 .. n - 1 : mem[at + k] \in Word
    BY <1>1, <2>1, UnpermutedIs
  <2>3. /\ Plain(act) \in [0 .. n - 1 -> Word] /\ Plain(act)[n - 1] = Unshuffle[act[n - 1]]
    BY <2>1, <2>2, PlainIs
  <2>4. act[n - 1] = mem[at + n - 1]
    BY <2>1 DEF Read
  <2>5. Unshuffle[mem[at + n - 1]] \in Word
    BY <2>1, <2>2, UnshuffleIsWord
  <2> QED
    BY <2>2, <2>3, <2>4, <2>5
<1>4. k0 \in 0 .. job.N - 1 /\ k0 = last % job.N
  <2>1. k0 = last % job.N
    BY DEF at, n
  <2> HIDE DEF last
  <2> QED
    BY <1>1, <1>3, <2>1, ChosenRow
<1>5. Abstract!Integerify(Block) = last
  <2>1. DOMAIN Block = 0 .. n - 1
    BY <1>2, <1>3
  <2> QED
    BY <1>1, <1>2, <1>3, <2>1, IntegerifyOfBlock
<1>6. in \in [0 .. n - 1 -> Word] /\ Plain(in) = y /\ y = Abstract!XorBlock(Block, Table[k0])
  <2>1. Own(mem, VRow(k0), n) /\ n \in Nat
    BY <1>1, <1>4
  <2>2. row \in [0 .. n - 1 -> Word] /\ Plain(row) = Table[k0]
    BY <1>2, <1>4, <2>1, UnpermutedIs
  <2>3. in = XorBlock(act, row)
    BY DEF n, at
  <2>4. y = Abstract!XorBlock(Block, Table[k0])
    BY <1>2, AbstractSame
  <2> HIDE DEF act, row
  <2> QED
    BY <1>3, <2>1, <2>2, <2>3, <2>4, XorOfPlain
<1> HIDE DEF y, last
<1>7. Block' = Abstract!Mixed(y)
  <2>1. Abstract!Mixed(y)
          = [k \in 0 .. 2 * R - 1 |-> IF k < n THEN Plain(Read(mem', to, n))[k] ELSE Block[k]]
    BY <1>1, <1>6, MixedIs DEF n, to
  <2>2. Block' = [k \in 0 .. 2 * R - 1 |->
                    IF k < n THEN Lift(Unshuffle, mem'[to + k]) ELSE mem'[BAt + k]]
    BY <1>1, YescryptNextView DEF n, to
  <2>3. ASSUME NEW k \in 0 .. 2 * R - 1
        PROVE  k < n /\ Plain(Read(mem', to, n))[k] = Lift(Unshuffle, mem'[to + k])
    BY <1>1 DEF Plain, Read, n
  <2> QED
    BY <2>1, <2>2, <2>3
<1>8. Table' = IF stage = "mixrw" THEN [Table EXCEPT ![k0] = y] ELSE Table
  <2>1. Table' = [k \in 0 .. job.N - 1 |-> Unpermuted(mem', VRow(k), n)]
    BY <1>1, YescryptNextView DEF n
  <2>2. ASSUME NEW k \in 0 .. job.N - 1
        PROVE  Unpermuted(mem', VRow(k), n) = IF stage = "mixrw" /\ k = k0 THEN y ELSE Table[k]
    <3>1. CASE stage = "mixrw" /\ k = k0
      <4>1. Read(mem', VRow(k), n) = in
        BY <3>1 DEF n
      <4>2. Unpermuted(mem', VRow(k), n) = Plain(Read(mem', VRow(k), n))
        BY DEF Unpermuted, Plain, Read
      <4> QED
        BY <1>6, <3>1, <4>1, <4>2
    <3>2. CASE ~ (stage = "mixrw" /\ k = k0)
      <4>1. Read(mem', VRow(k), n) = Read(mem, VRow(k), n)
        BY <3>2 DEF n
      <4>2. Unpermuted(mem', VRow(k), n) = Unpermuted(mem, VRow(k), n)
        BY <4>1, SameCells
      <4> QED
        BY <1>2, <3>2, <4>2
    <3> QED
      BY <3>1, <3>2
  <2>3. DOMAIN Table = 0 .. job.N - 1 /\ Table = [k \in 0 .. job.N - 1 |-> Table[k]]
    BY <1>2
  <2> QED
    BY <2>1, <2>2, <2>3
<1>9. SBoxTable' = SBoxTable
  <2>1. /\ SBoxTable' = [k \in 0 .. job.sboxRows - 1 |-> Unpermuted(mem', SAt + 2 * k, 2)]
        /\ SBoxTable = [k \in 0 .. job.sboxRows - 1 |-> Unpermuted(mem, SAt + 2 * k, 2)]
    BY YescryptNextView, YescryptViewHolds DEF YescryptView
  <2> QED
    BY <1>1, <2>1, SameSBox
<1>10. Done < Abstract!Steps
  BY <1>1, StepsIs
<1> QED
  BY <1>4, <1>5, <1>6, <1>7, <1>8, <1>9, <1>10 DEF Abstract!MixStep

(* Reading what was copied through a permutation, and what was not.        *)
LEMMA ReadOfCopyThrough ==
  ASSUME NEW m, Memory(m), NEW f \in [Word -> Word], NEW n \in Nat,
         NEW to, Inside(to, n), NEW from, Inside(from, n)
  PROVE  LET after == CopyThrough(f, m, to, from, n)
         IN  /\ \A k \in 0 .. n - 1 : after[to + k] = Lift(f, m[from + k])
             /\ \A b, k : Inside(b, k) /\ Apart(to, n, b, k) => Read(after, b, k) = Read(m, b, k)
             /\ \A a \in 0 .. Need - 1 : a \notin to .. to + n - 1 => after[a] = m[a]
<1> DEFINE after == CopyThrough(f, m, to, from, n)
<1>1. to \in Nat /\ from \in Nat /\ Need \in Nat /\ to + n <= Need /\ from + n <= Need
      /\ DOMAIN m = 0 .. Need - 1
  BY DEF Inside, Memory
<1>2. \A a \in 0 .. Need - 1 :
        after[a] = IF a \in to .. to + n - 1 THEN Lift(f, m[from + a - to]) ELSE m[a]
  BY <1>1 DEF CopyThrough
<1> HIDE DEF after
<1>3. ASSUME NEW k \in 0 .. n - 1 PROVE after[to + k] = Lift(f, m[from + k])
  <2>1. /\ to + k \in 0 .. Need - 1 /\ to + k \in to .. to + n - 1
        /\ from + (to + k) - to = from + k
    BY <1>1
  <2> QED
    BY <1>2, <2>1
<1>4. ASSUME NEW b, NEW k, Inside(b, k), Apart(to, n, b, k), NEW c \in 0 .. k - 1
      PROVE  after[b + c] = m[b + c]
  <2>1. b + c \in 0 .. Need - 1 /\ b + c \notin to .. to + n - 1
    BY <1>1, <1>4 DEF Inside, Apart
  <2> QED
    BY <1>2, <2>1
<1> QED
  BY <1>2, <1>3, <1>4 DEF Read, after

(* Loading the block, permuted, is no step.                                *)
LEMMA YescryptLoads ==
  ASSUME PowInv, PowInv', job.yescrypt, UNCHANGED <<job, stage>>, stage # "done",
         pc = "load", pc' # "load", NEW to, ActiveAt' = to, Inside(to, 2 * StageR),
         mem' = CopyThrough(Shuffle, mem, to, BAt, 2 * StageR),
         Apart(to, 2 * StageR, BAt, 2 * R),
         stage # "sbox" => Apart(to, 2 * StageR, SAt, SSize),
         stage \in {"sbox", "fill"} => Done' = 0,
         stage \in {"mixrw", "mix"} =>
           /\ Done' = 0
           /\ \A k \in 0 .. job.N - 1 : Apart(to, 2 * StageR, VRow(k), 2 * StageR)
  PROVE  UNCHANGED Abstract!romixVars
<1> DEFINE n == 2 * StageR
<1>1. /\ job \in Jobs /\ Memory(mem) /\ Own(mem, BAt, 2 * R) /\ n \in Nat /\ n <= 2 * R /\ R \in Nat
      /\ Inside(BAt, n) /\ Inside(BAt, 2 * R) /\ Inside(SAt, SSize)
      /\ \A k \in 0 .. StageRows - 1 : Inside(VRow(k), n)
  BY YescryptFacts, Regions
<1>2. Done = 0 /\ Done' = 0 /\ stage \in {"sbox", "fill", "mixrw", "mix"}
  BY DEF Done, PowInv
<1>3. /\ \A k \in 0 .. n - 1 : mem'[to + k] = Lift(Shuffle, mem[BAt + k])
      /\ \A b, k : Inside(b, k) /\ Apart(to, n, b, k) => Read(mem', b, k) = Read(mem, b, k)
  <2> DEFINE after == CopyThrough(Shuffle, mem, to, BAt, n)
  <2>1. mem' = after /\ Inside(to, n)
    OBVIOUS
  <2> HIDE DEF n
  <2>2. /\ \A k \in 0 .. n - 1 : after[to + k] = Lift(Shuffle, mem[BAt + k])
        /\ \A b, k : Inside(b, k) /\ Apart(to, n, b, k) => Read(after, b, k) = Read(mem, b, k)
    <3>1. Memory(mem) /\ n \in Nat /\ Inside(to, n) /\ Inside(BAt, n)
      BY <1>1, <2>1
    <3> QED
      BY <3>1, ReadOfCopyThrough, ShuffleIsWord
  <2> HIDE DEF after
  <2> QED
    BY <2>1, <2>2
<1> HIDE DEF n
<1>4. Block' = Block
  <2>1. ASSUME NEW k \in 0 .. 2 * R - 1
        PROVE  (IF k < n THEN Lift(Unshuffle, mem'[to + k]) ELSE mem'[BAt + k]) = mem[BAt + k]
    <3>1. CASE k < n
      <4>1. k \in 0 .. n - 1 /\ BAt + k \in BAt .. BAt + 2 * R - 1
        BY <1>1, <3>1 DEF Own
      <4>2. mem[BAt + k] \in Word
        BY <1>1, <4>1 DEF Own
      <4>3. Shuffle[mem[BAt + k]] \in Word /\ Unshuffle[Shuffle[mem[BAt + k]]] = mem[BAt + k]
        BY <4>2, ShuffleIsWord, ShufflesUndo
      <4> QED
        BY <1>3, <3>1, <4>1, <4>2, <4>3, Cells DEF Lift
    <3>2. CASE ~ (k < n)
      <4>1. Read(mem', BAt, 2 * R) = Read(mem, BAt, 2 * R)
        BY <1>1, <1>3 DEF n
      <4> QED
        BY <3>2, <4>1, SameCells
    <3> QED
      BY <3>1, <3>2
  <2>2. Block' = [k \in 0 .. 2 * R - 1 |->
                    IF k < n THEN Lift(Unshuffle, mem'[to + k]) ELSE mem'[BAt + k]]
    BY YescryptNextView DEF n
  <2>3. Block = Read(mem, BAt, 2 * R)
    BY YescryptViewHolds DEF YescryptView
  <2> QED
    BY <2>1, <2>2, <2>3 DEF Read
<1>5. Table' = Table
  <2> DEFINE rows == IF stage \in {"sbox", "fill"} THEN 0 ELSE job.N
  <2>1. /\ Table' = [k \in 0 .. rows - 1 |-> Unpermuted(mem', VRow(k), n)]
        /\ Table = [k \in 0 .. rows - 1 |-> Unpermuted(mem, VRow(k), n)]
    BY <1>2, YescryptNextView, YescryptViewHolds DEF YescryptView, n
  <2>2. ASSUME NEW k \in 0 .. rows - 1 PROVE Unpermuted(mem', VRow(k), n) = Unpermuted(mem, VRow(k), n)
    <3>1. stage \in {"mixrw", "mix"} /\ k \in 0 .. job.N - 1 /\ k \in 0 .. StageRows - 1
      BY <1>2 DEF StageRows
    <3>2. Read(mem', VRow(k), n) = Read(mem, VRow(k), n)
      BY <1>1, <1>3, <3>1 DEF n
    <3> QED
      BY <3>2, SameCells
  <2> QED
    BY <2>1, <2>2
<1>6. SBoxTable' = SBoxTable
  <2>1. CASE stage = "sbox"
    BY <2>1, YescryptNextView, YescryptViewHolds DEF YescryptView
  <2>2. CASE stage # "sbox"
    <3>1. /\ SBoxTable' = [k \in 0 .. job.sboxRows - 1 |-> Unpermuted(mem', SAt + 2 * k, 2)]
          /\ SBoxTable = [k \in 0 .. job.sboxRows - 1 |-> Unpermuted(mem, SAt + 2 * k, 2)]
      BY <2>2, YescryptNextView, YescryptViewHolds DEF YescryptView
    <3>2. Read(mem', SAt, SSize) = Read(mem, SAt, SSize)
      BY <1>1, <1>3, <2>2 DEF n
    <3> QED
      BY <1>1, <3>1, <3>2, SameSBox
  <2> QED
    BY <2>1, <2>2
<1> QED
  BY <1>2, <1>4, <1>5, <1>6 DEF Abstract!romixVars

(* Nor is a step that leaves the memory and only turns a counter.          *)
LEMMA YescryptWaits ==
  ASSUME PowInv, PowInv', job.yescrypt, UNCHANGED <<job, stage, mem>>,
         pc = "load" <=> pc' = "load", Done' = Done, pc # "load" => ActiveAt' = ActiveAt
  PROVE  UNCHANGED Abstract!romixVars
<1> DEFINE at == ActiveAt
<1>1. /\ Block = IF pc = "load" THEN Read(mem, BAt, 2 * R) ELSE Joined(mem, at, 2 * StageR)
      /\ Table = IF stage = "done" THEN << >>
                 ELSE [k \in 0 .. (IF stage \in {"sbox", "fill"} THEN Done ELSE job.N) - 1 |->
                         Unpermuted(mem, VRow(k), 2 * StageR)]
      /\ SBoxTable = IF stage = "sbox" THEN << >>
                     ELSE [k \in 0 .. job.sboxRows - 1 |-> Unpermuted(mem, SAt + 2 * k, 2)]
  BY YescryptViewHolds DEF YescryptView
<1>2. /\ Block' = IF pc' = "load" THEN Read(mem, BAt, 2 * R)
                  ELSE [k \in 0 .. 2 * R - 1 |->
                          IF k < 2 * StageR THEN Lift(Unshuffle, mem[at' + k])
                          ELSE mem[BAt + k]]
      /\ Table' = IF stage = "done" THEN << >>
                  ELSE [k \in 0 .. (IF stage \in {"sbox", "fill"} THEN Done' ELSE job.N) - 1 |->
                          Unpermuted(mem, VRow(k), 2 * StageR)]
      /\ SBoxTable' = IF stage = "sbox" THEN << >>
                      ELSE [k \in 0 .. job.sboxRows - 1 |-> Unpermuted(mem, SAt + 2 * k, 2)]
  BY YescryptNextView
<1>3. pc # "load" => at' = at
  OBVIOUS
<1> HIDE DEF at
<1>4. Table' = Table /\ SBoxTable' = SBoxTable
  BY <1>1, <1>2
<1>5. Block' = Block
  BY <1>1, <1>2, <1>3 DEF Joined
<1> QED
  BY <1>4, <1>5 DEF Abstract!romixVars

(* The end of a stage ends the phase: the block is in B, and the rows of   *)
(* the first stage are the S-box.                                          *)
LEMMA YescryptEnds ==
  ASSUME PowInv, PowInv', job.yescrypt, stage # "done", GoTo(stage'),
         stage' = CASE stage = "sbox" -> "fill" [] stage = "fill" -> "mixrw"
                    [] stage = "mixrw" -> "mix" [] stage = "mix" -> "done",
         Done = Abstract!Steps,
         Read(mem', BAt, 2 * R) = Block,
         stage # "sbox" => Read(mem', SAt, SSize) = Read(mem, SAt, SSize),
         \A k \in 0 .. StageRows - 1 : Read(mem', VRow(k), 2 * StageR) = Read(mem, VRow(k), 2 * StageR)
  PROVE  Abstract!EndPhase
<1> DEFINE n == 2 * StageR
<1>1. /\ job \in Jobs /\ job' = job /\ pc' = "load" /\ stage \in {"sbox", "fill", "mixrw", "mix"}
      /\ stage = "sbox" => stage' = "fill" /\ StageR = 1 /\ StageRows = job.sboxRows
      /\ stage = "fill" => stage' = "mixrw"
      /\ stage = "mixrw" => stage' = "mix"
      /\ stage = "mix" => stage' = "done"
      /\ stage # "sbox" => StageR = R /\ StageRows = job.N
      /\ stage \in {"sbox", "fill"} => Done = StageRows
  BY YescryptFacts, StepsIs DEF GoTo, PowInv
<1>2. R' = R /\ BAt' = BAt /\ SAt' = SAt /\ SSize' = SSize
  BY <1>1, RegionsStay
<1>3. Done' = 0
  BY <1>1 DEF Done
<1>4. YescryptView' /\ YescryptView
  BY YescryptViewStays, YescryptViewHolds
<1>5. Block' = Block
  <2>1. Block' = Read(mem, BAt, 2 * R)'
    BY <1>1, <1>4 DEF YescryptView
  <2> QED
    BY <1>2, <2>1 DEF Read
<1>6. SBoxTable' = [k \in 0 .. job.sboxRows - 1 |-> Unpermuted(mem', SAt + 2 * k, 2)]
  <2>1. stage' # "sbox"
    BY <1>1
  <2>2. SBoxTable' = [k \in 0 .. job.sboxRows - 1 |-> Unpermuted(mem, SAt + 2 * k, 2)']
    BY <1>1, <1>4, <2>1 DEF YescryptView
  <2>3. \A k : Unpermuted(mem, SAt + 2 * k, 2)' = Unpermuted(mem', SAt + 2 * k, 2)
    BY <1>2 DEF Unpermuted
  <2> QED
    BY <2>2, <2>3
<1>7. \A k \in 0 .. StageRows - 1 : Unpermuted(mem', VRow(k), n) = Unpermuted(mem, VRow(k), n)
  BY SameCells
<1>8. SBoxTable' = IF stage = "sbox" THEN Table ELSE SBoxTable
  <2>1. CASE stage = "sbox"
    <3>1. Table = [k \in 0 .. job.sboxRows - 1 |-> Unpermuted(mem, VRow(k), n)]
      BY <1>1, <1>4, <2>1 DEF YescryptView
    <3>2. ASSUME NEW k \in 0 .. job.sboxRows - 1
          PROVE  Unpermuted(mem', SAt + 2 * k, 2) = Unpermuted(mem, VRow(k), n)
      <4>1. VRow(k) = SAt + 2 * k /\ n = 2
        BY <1>1, <2>1 DEF VRow
      <4> HIDE DEF n
      <4> QED
        BY <1>1, <1>7, <2>1, <4>1
    <3> QED
      BY <1>6, <2>1, <3>1, <3>2
  <2>2. CASE stage # "sbox"
    <3>1. SBoxTable = [k \in 0 .. job.sboxRows - 1 |-> Unpermuted(mem, SAt + 2 * k, 2)]
      BY <1>1, <1>4, <2>2 DEF YescryptView
    <3> QED
      BY <1>1, <1>6, <2>2, <3>1, SameSBox
  <2> QED
    BY <2>1, <2>2
<1>9. Table' = IF stage \in {"sbox", "mix"} THEN << >> ELSE Table
  <2>1. CASE stage = "sbox"
    <3>1. Table' = [k \in 0 .. Done' - 1 |-> Unpermuted(mem, VRow(k), 2 * StageR)']
      BY <1>1, <1>4, <2>1 DEF YescryptView
    <3>2. Done' - 1 = -1
      BY <1>3
    <3> QED
      BY <2>1, <3>1, <3>2, EmptyTable
  <2>2. CASE stage = "mix"
    BY <1>1, <1>4, <2>2 DEF YescryptView
  <2>3. CASE stage \in {"fill", "mixrw"}
    <3>1. Table' = [k \in 0 .. job.N - 1 |-> Unpermuted(mem, VRow(k), 2 * StageR)']
      BY <1>1, <1>4, <2>3 DEF YescryptView
    <3>2. Table = [k \in 0 .. job.N - 1 |-> Unpermuted(mem, VRow(k), n)]
      BY <1>1, <1>4, <2>3 DEF YescryptView
    <3>3. StageR' = StageR /\ \A k : VRow(k)' = VRow(k)
      BY <1>1, <1>2, <2>3 DEF StageR, VRow, VAt, BSize, XYSize
    <3>4. \A k : Unpermuted(mem, VRow(k), 2 * StageR)' = Unpermuted(mem', VRow(k), n)
      BY <3>3 DEF Unpermuted
    <3> QED
      BY <1>1, <1>7, <2>3, <3>1, <3>2, <3>4
  <2> QED
    BY <1>1, <2>1, <2>2, <2>3
<1>10. /\ stage' = Abstract!After
       /\ Abstract!After = "done" <=> stage = "mix"
  BY <1>1 DEF Abstract!After
<1> QED
  BY <1>1, <1>3, <1>5, <1>8, <1>9, <1>10 DEF Abstract!EndPhase

(* smix1 begins, in either build: the block is in row 0.                   *)
LEMMA Smix1LoadStutters ==
  ASSUME PowInv, PowInv', job.yescrypt, InSmix1, pc = "load", pc' = "first",
         UNCHANGED <<job, stage>>,
         mem' = CopyThrough(Shuffle, mem, VRow(0), BAt, 2 * StageR)
  PROVE  UNCHANGED Abstract!romixVars
<1>1. Done' = 0
  BY DEF Done
<1>2. ActiveAt' = VRow(0)
  BY <1>1, RegionsStay DEF ActiveAt
<1>3. /\ Inside(VRow(0), 2 * StageR) /\ Apart(VRow(0), 2 * StageR, BAt, 2 * R)
      /\ stage # "sbox" => Apart(VRow(0), 2 * StageR, SAt, SSize)
  <2>1. job \in Jobs /\ 0 \in 0 .. StageRows - 1
    BY YescryptFacts
  <2> QED
    BY <2>1, YescryptApart
<1>4. stage \in {"sbox", "fill"}
  BY DEF InSmix1
<1> QED
  BY <1>1, <1>2, <1>3, <1>4, YescryptLoads

(* smix2 begins: it is in X.                                               *)
LEMMA Smix2LoadStutters ==
  ASSUME PowInv, PowInv', job.yescrypt, InSmix2, pc = "load", pc' = "loop",
         i' = Nloop \div 2, UNCHANGED <<job, stage, half>>,
         mem' = CopyThrough(Shuffle, mem, XAt, BAt, 2 * R)
  PROVE  UNCHANGED Abstract!romixVars
<1>1. stage \in {"mixrw", "mix"} /\ half = 0 /\ StageR = R /\ StageRows = job.N /\ job \in Jobs
  <2>1. stage \in {"mixrw", "mix"}
    BY DEF InSmix2
  <2> QED
    BY <2>1, YescryptFacts DEF PowInv, CounterInv, Smix2Inv
<1>2. Done' = 0
  <2>1. Nloop' = Nloop /\ Nloop \div 2 \in Nat
    BY <1>1, RegionsStay, NloopIs
  <2>2. Done' = 2 * (Nloop \div 2 - Nloop \div 2) + 0
    BY <1>1, <2>1 DEF Done, InSmix2
  <2> QED
    BY <2>1, <2>2
<1>3. ActiveAt' = XAt
  BY <1>1, RegionsStay DEF ActiveAt, From, InSmix1
<1>4. /\ Inside(XAt, 2 * StageR) /\ Apart(XAt, 2 * StageR, BAt, 2 * R)
      /\ Apart(XAt, 2 * StageR, SAt, SSize)
      /\ \A k \in 0 .. job.N - 1 : Apart(XAt, 2 * StageR, VRow(k), 2 * StageR)
  <2>1. /\ Inside(XAt, 2 * StageR) /\ Inside(BAt, 2 * R) /\ Inside(SAt, SSize)
    BY <1>1, Regions
  <2>2. /\ Apart(XYAt, XYSize, BAt, 2 * R) /\ Apart(XYAt, XYSize, SAt, SSize)
        /\ \A k \in 0 .. job.N - 1 :
             Inside(VRow(k), 2 * StageR) /\ Apart(XYAt, XYSize, VRow(k), 2 * StageR)
    BY <1>1, YescryptApart
  <2> QED
    BY <1>1, <2>1, <2>2, ApartFromBuffers
<1>5. mem' = CopyThrough(Shuffle, mem, XAt, BAt, 2 * StageR)
  BY <1>1
<1> QED
  BY <1>1, <1>2, <1>3, <1>4, <1>5, YescryptLoads

(* What is left of B, of S and of the rows when the block is stored.       *)
LEMMA YescryptStores ==
  ASSUME PowInv, PowInv', job.yescrypt, stage # "done", pc # "load", ActiveAt = XAt,
         Done = Abstract!Steps, GoTo(stage'),
         stage' = CASE stage = "sbox" -> "fill" [] stage = "fill" -> "mixrw"
                    [] stage = "mixrw" -> "mix" [] stage = "mix" -> "done",
         mem' = CopyThrough(Unshuffle, mem, BAt, XAt, 2 * StageR)
  PROVE  Abstract!EndPhase
<1> DEFINE n == 2 * StageR
           after == CopyThrough(Unshuffle, mem, BAt, XAt, n)
<1>1. /\ job \in Jobs /\ Memory(mem) /\ n \in Nat /\ n <= 2 * R /\ R \in Nat
      /\ Inside(BAt, n) /\ Inside(BAt, 2 * R) /\ Inside(XAt, n) /\ Inside(SAt, SSize)
      /\ \A k \in 0 .. StageRows - 1 : Inside(VRow(k), n)
  BY YescryptFacts, Regions
<1>2. /\ Apart(BAt, n, SAt, SSize)
      /\ \A k \in 0 .. StageRows - 1 : Apart(BAt, n, VRow(k), n)
  BY <1>1, YescryptApart
<1>3. mem' = after
  OBVIOUS
<1> HIDE DEF n
<1>4. /\ \A k \in 0 .. n - 1 : after[BAt + k] = Lift(Unshuffle, mem[XAt + k])
      /\ \A b, k : Inside(b, k) /\ Apart(BAt, n, b, k) => Read(after, b, k) = Read(mem, b, k)
      /\ \A a \in 0 .. Need - 1 : a \notin BAt .. BAt + n - 1 => after[a] = mem[a]
  BY <1>1, UnshuffleIsWord, ReadOfCopyThrough
<1> HIDE DEF after
<1>5. Read(mem', BAt, 2 * R) = Block
  <2>1. Block = Joined(mem, XAt, n)
    BY YescryptViewHolds DEF YescryptView, n
  <2>2. ASSUME NEW k \in 0 .. 2 * R - 1
        PROVE  after[BAt + k] = IF k < n THEN Lift(Unshuffle, mem[XAt + k]) ELSE mem[BAt + k]
    <3>1. CASE k < n
      <4>1. k \in 0 .. n - 1
        BY <1>1, <3>1
      <4> QED
        BY <1>4, <3>1, <4>1
    <3>2. CASE ~ (k < n)
      <4>1. BAt + k \in 0 .. Need - 1 /\ BAt + k \notin BAt .. BAt + n - 1
        <5> DEFINE at == BAt
                   all == Need
                   r2 == 2 * R
        <5>1. at \in Nat /\ r2 \in Nat /\ all \in Nat /\ at + r2 <= all /\ k \in 0 .. r2 - 1
          <6>1. Inside(BAt, 2 * R) /\ Need \in Nat /\ 2 * R \in Nat
            BY <1>1, Sizes
          <6> QED
            BY <6>1 DEF Inside
        <5> HIDE DEF at, all, r2
        <5>2. at + k \in 0 .. all - 1 /\ at + k \notin at .. at + n - 1
          BY <1>1, <3>2, <5>1
        <5> QED
          BY <5>2 DEF at, all
      <4> QED
        BY <1>4, <3>2, <4>1
    <3> QED
      BY <3>1, <3>2
  <2> QED
    BY <1>3, <2>1, <2>2 DEF Read, Joined
<1>6. /\ Read(mem', SAt, SSize) = Read(mem, SAt, SSize)
      /\ \A k \in 0 .. StageRows - 1 : Read(mem', VRow(k), n) = Read(mem, VRow(k), n)
  BY <1>1, <1>2, <1>3, <1>4
<1> QED
  BY <1>5, <1>6, YescryptEnds DEF n

(* A call of smix2 that has nothing to do ends its phase too.              *)
LEMMA YescryptSkips ==
  ASSUME PowInv, PowInv', job.yescrypt, InSmix2, pc = "load", Nloop = 0,
         GoTo(AfterSmix2), UNCHANGED mem
  PROVE  Abstract!EndPhase
<1>1. /\ stage \in {"mixrw", "mix"} /\ job \in Jobs
      /\ GoTo(stage')
      /\ stage' = CASE stage = "sbox" -> "fill" [] stage = "fill" -> "mixrw"
                    [] stage = "mixrw" -> "mix" [] stage = "mix" -> "done"
  BY YescryptFacts DEF GoTo, AfterSmix2, InSmix2
<1>2. Done = Abstract!Steps
  BY <1>1, StepsIs DEF Done
<1>3. Read(mem', BAt, 2 * R) = Block
  BY YescryptViewHolds DEF YescryptView
<1>4. /\ Read(mem', SAt, SSize) = Read(mem, SAt, SSize)
      /\ \A k \in 0 .. StageRows - 1 : Read(mem', VRow(k), 2 * StageR) = Read(mem, VRow(k), 2 * StageR)
  OBVIOUS
<1> QED
  BY <1>1, <1>2, <1>3, <1>4, YescryptEnds

(* The end of smix2, in either build.                                      *)
LEMMA Smix2StoreStep ==
  ASSUME PowInv, PowInv', job.yescrypt, InSmix2, pc = "loop", half = 0, i = 0,
         mem' = CopyThrough(Unshuffle, mem, BAt, XAt, 2 * R), GoTo(AfterSmix2)
  PROVE  Abstract!EndPhase
<1>1. /\ stage \in {"mixrw", "mix"} /\ job \in Jobs /\ StageR = R
      /\ GoTo(stage')
      /\ stage' = CASE stage = "sbox" -> "fill" [] stage = "fill" -> "mixrw"
                    [] stage = "mixrw" -> "mix" [] stage = "mix" -> "done"
  <2>1. stage \in {"mixrw", "mix"}
    BY DEF InSmix2
  <2> QED
    BY <2>1, YescryptFacts DEF GoTo, AfterSmix2
<1>2. ActiveAt = XAt
  BY <1>1 DEF ActiveAt, From, InSmix1
<1>3. Done = Abstract!Steps
  <2>1. Done = 2 * (Nloop \div 2 - 0) + 0
    BY DEF Done
  <2>2. Nloop \div 2 \in Nat /\ 2 * (Nloop \div 2) = Nloop /\ Nloop \in Nat
        /\ Abstract!Steps = Nloop
    BY <1>1, NloopIs, StepsIs
  <2> QED
    BY <2>1, <2>2
<1>4. mem' = CopyThrough(Unshuffle, mem, BAt, XAt, 2 * StageR)
  BY <1>1
<1> QED
  BY <1>1, <1>2, <1>3, <1>4, YescryptStores

-----------------------------------------------------------------------------
(* The portable build.                                                     *)

(* A mixing into a buffer of XY leaves B, S and the rows alone.            *)
LEMMA OptKeeps ==
  ASSUME job \in Jobs, job.yescrypt, NEW m, NEW after,
         \A at, k : Inside(at, k) /\ Apart(XYAt, XYSize, at, k) => Read(after, at, k) = Read(m, at, k)
  PROVE  /\ Read(after, BAt, 2 * R) = Read(m, BAt, 2 * R)
         /\ Read(after, SAt, SSize) = Read(m, SAt, SSize)
         /\ \A k \in 0 .. StageRows - 1 :
              Read(after, VRow(k), 2 * StageR) = Read(m, VRow(k), 2 * StageR)
<1>1. Inside(BAt, 2 * R) /\ Inside(SAt, SSize)
  BY Regions
<1>2. /\ Apart(XYAt, XYSize, BAt, 2 * R) /\ Apart(XYAt, XYSize, SAt, SSize)
      /\ \A k \in 0 .. StageRows - 1 :
           Inside(VRow(k), 2 * StageR) /\ Apart(XYAt, XYSize, VRow(k), 2 * StageR)
  BY YescryptApart
<1> QED
  BY <1>1, <1>2

(* What the portable build reads is never Z.                               *)
LEMMA ZElsewhere ==
  ASSUME job \in Jobs, job.yescrypt, ~ job.simd
  PROVE  /\ \A k \in 0 .. StageRows - 1 : ZAt(1) \notin VRow(k) .. VRow(k) + 2 * StageR - 1
         /\ stage = "sbox" => \A at \in {XAt, YAt(StageR)} : ZAt(1) \notin at .. at + 2 * StageR - 1
<1>1. ASSUME NEW k \in 0 .. StageRows - 1
      PROVE  ZAt(1) \notin VRow(k) .. VRow(k) + 2 * StageR - 1
  <2>1. /\ Inside(XYAt, XYSize) /\ Inside(VRow(k), 2 * StageR)
        /\ Apart(XYAt, XYSize, VRow(k), 2 * StageR)
        /\ ZAt(1) \in XYAt .. XYAt + XYSize - 1
    BY YescryptApart
  <2> HIDE DEF Apart
  <2>2. \A z \in XYAt .. XYAt + XYSize - 1 : z \notin VRow(k) .. VRow(k) + 2 * StageR - 1
    BY <2>1 DEF Apart, Inside
  <2> QED
    BY <2>1, <2>2
<1>2. stage = "sbox" => \A at \in {XAt, YAt(StageR)} : ZAt(1) \notin at .. at + 2 * StageR - 1
  BY YescryptApart
<1> QED
  BY <1>1, <1>2

(* The first row is mixed into Y, ...                                      *)
LEMMA Smix1FirstStep ==
  ASSUME PowInv, PowInv', job.yescrypt, ~ job.simd, Smix1First
  PROVE  Abstract!Fill
<1> USE DEF Smix1First
<1>1. /\ stage \in {"sbox", "fill"} /\ half = 0 /\ i = 0 /\ ActiveAt = VRow(0) /\ Done = 0
      /\ UNCHANGED <<job, stage>> /\ pc = "first" /\ pc' = "second" /\ half' = 1
  BY DEF InSmix1, PowInv, CounterInv, Smix1Inv, OptInv, ActiveAt, Done
<1>2. Done' = 1 /\ ActiveAt' = YAt(StageR)
  BY <1>1, RegionsStay DEF ActiveAt, From, Done
<1>3. /\ job \in Jobs /\ Memory(mem) /\ Own(mem, VRow(0), 2 * StageR) /\ 0 \in 0 .. StageRows - 1
      /\ stage # "sbox" => Own(mem, SAt, SSize)
  BY <1>1, YescryptFacts
<1>4. /\ Apart(YAt(StageR), 2 * StageR, VRow(0), 2 * StageR)
      /\ ZAt(1) \notin VRow(0) .. VRow(0) + 2 * StageR - 1
  <2>1. Inside(VRow(0), 2 * StageR) /\ Apart(XYAt, XYSize, VRow(0), 2 * StageR)
    BY <1>3, YescryptApart
  <2> QED
    BY <1>3, <2>1, ApartFromBuffers, ZElsewhere
<1>5. mem' = BlockmixOf(mem, VRow(0), YAt(StageR))
  OBVIOUS
<1> HIDE DEF Smix1First
<1>6. /\ MixesTo(Read(mem, VRow(0), 2 * StageR), Read(mem', YAt(StageR), 2 * StageR))
      /\ \A at, k : Inside(at, k) /\ Apart(XYAt, XYSize, at, k)
                    => Read(mem', at, k) = Read(mem, at, k)
  BY <1>3, <1>4, <1>5, BlockmixOfComputes
<1>7. /\ Read(mem', BAt, 2 * R) = Read(mem, BAt, 2 * R)
      /\ Read(mem', SAt, SSize) = Read(mem, SAt, SSize)
      /\ \A k \in 0 .. StageRows - 1 : Read(mem', VRow(k), 2 * StageR) = Read(mem, VRow(k), 2 * StageR)
  BY <1>3, <1>6, OptKeeps
<1> DEFINE d == 0
<1>8. /\ d \in Nat /\ Done = d /\ Done' = d + 1 /\ d < StageRows /\ ~ (d >= 2)
      /\ Read(mem', VRow(d), 2 * StageR) = Read(mem, ActiveAt, 2 * StageR)
      /\ \A k \in 0 .. d - 1 : Read(mem', VRow(k), 2 * StageR) = Read(mem, VRow(k), 2 * StageR)
  <2>1. \A k \in 0 .. d - 1 : FALSE
    OBVIOUS
  <2>2. VRow(d) = VRow(0) /\ d \in 0 .. StageRows - 1 /\ StageRows \in Nat
    BY <1>3, YescryptFacts
  <2> QED
    BY <1>1, <1>2, <1>7, <2>1, <2>2
<1>9. MixesTo(Read(mem, ActiveAt, 2 * StageR), Read(mem', ActiveAt', 2 * StageR))
  BY <1>1, <1>2, <1>6
<1>10. pc # "load" /\ pc' # "load" /\ stage \in {"sbox", "fill"} /\ UNCHANGED <<job, stage>>
  BY <1>1
<1> HIDE DEF d
<1> QED
  BY <1>7, <1>8, <1>9, <1>10, YescryptFills

(* ... the second is saved and mixed into X, ...                           *)
LEMMA Smix1SecondStep ==
  ASSUME PowInv, PowInv', job.yescrypt, ~ job.simd, Smix1Second
  PROVE  Abstract!Fill
<1> USE DEF Smix1Second
<1> DEFINE filled == Copy(mem, VRow(1), YAt(StageR), 2 * StageR)
<1>1. /\ stage \in {"sbox", "fill"} /\ half = 1 /\ i = 0 /\ ActiveAt = YAt(StageR) /\ Done = 1
      /\ UNCHANGED <<job, stage>> /\ pc = "second" /\ pc' = "loop" /\ half' = 0 /\ i' = 2
  BY DEF InSmix1, PowInv, CounterInv, Smix1Inv, OptInv, ActiveAt, From, Done
<1>2. Done' = 2 /\ ActiveAt' = XAt
  BY <1>1, RegionsStay DEF ActiveAt, From, Done, InSmix1, InSmix2
<1>3. /\ job \in Jobs /\ Memory(mem) /\ Own(mem, YAt(StageR), 2 * StageR)
      /\ StageRows \in Nat /\ 0 \in 0 .. StageRows - 1 /\ 1 \in 0 .. StageRows - 1
      /\ stage # "sbox" => Own(mem, SAt, SSize)
      /\ 2 * StageR \in Nat
  BY <1>1, YescryptFacts
<1>4. /\ Inside(VRow(1), 2 * StageR) /\ Inside(YAt(StageR), 2 * StageR)
      /\ Inside(VRow(0), 2 * StageR) /\ Inside(BAt, 2 * R) /\ Inside(SAt, SSize)
  BY <1>1, <1>3, Regions
<1>5. /\ Apart(VRow(1), 2 * StageR, BAt, 2 * R) /\ Apart(VRow(1), 2 * StageR, VRow(0), 2 * StageR)
      /\ stage # "sbox" => Apart(VRow(1), 2 * StageR, SAt, SSize)
      /\ Apart(XAt, 2 * StageR, YAt(StageR), 2 * StageR)
      /\ Apart(XYAt, XYSize, VRow(1), 2 * StageR)
  <2> DEFINE one == 1
             zero == 0
  <2>1. one \in 0 .. StageRows - 1 /\ zero \in 0 .. StageRows - 1 /\ one # zero
    BY <1>3
  <2> HIDE DEF one, zero
  <2>2. /\ Apart(VRow(one), 2 * StageR, BAt, 2 * R)
        /\ Apart(VRow(one), 2 * StageR, VRow(zero), 2 * StageR)
        /\ stage # "sbox" => Apart(VRow(one), 2 * StageR, SAt, SSize)
        /\ Apart(XAt, 2 * StageR, YAt(StageR), 2 * StageR)
        /\ Apart(XYAt, XYSize, VRow(one), 2 * StageR)
    BY <1>3, <2>1, YescryptApart
  <2> QED
    BY <2>2 DEF one, zero
<1>6. Apart(VRow(1), 2 * StageR, YAt(StageR), 2 * StageR)
  BY <1>3, <1>4, <1>5, ApartFromBuffers
<1>7. /\ Read(filled, VRow(1), 2 * StageR) = Read(mem, YAt(StageR), 2 * StageR)
      /\ Read(filled, YAt(StageR), 2 * StageR) = Read(mem, YAt(StageR), 2 * StageR)
      /\ Read(filled, VRow(0), 2 * StageR) = Read(mem, VRow(0), 2 * StageR)
      /\ Read(filled, BAt, 2 * R) = Read(mem, BAt, 2 * R)
      /\ stage # "sbox" => Read(filled, SAt, SSize) = Read(mem, SAt, SSize)
  BY <1>3, <1>4, <1>5, <1>6, ReadOfCopy
<1>8. Memory(filled) /\ Own(filled, YAt(StageR), 2 * StageR)
  <2>1. Grown(mem, filled)
    BY <1>3, <1>4, CopyGrows
  <2> QED
    BY <1>3, <2>1, GrownOwns DEF Grown
<1>9. mem' = BlockmixOf(filled, YAt(StageR), XAt)
  OBVIOUS
<1> HIDE DEF Smix1Second, filled
<1>10. /\ MixesTo(Read(filled, YAt(StageR), 2 * StageR), Read(mem', XAt, 2 * StageR))
       /\ \A at, k : Inside(at, k) /\ Apart(XYAt, XYSize, at, k)
                     => Read(mem', at, k) = Read(filled, at, k)
  <2>1. stage = "sbox" => ZAt(1) \notin YAt(StageR) .. YAt(StageR) + 2 * StageR - 1
    BY <1>3, ZElsewhere
  <2> QED
    BY <1>5, <1>7, <1>8, <1>9, <2>1, BlockmixOfComputes
<1>11. /\ Read(mem', BAt, 2 * R) = Read(filled, BAt, 2 * R)
       /\ Read(mem', SAt, SSize) = Read(filled, SAt, SSize)
       /\ \A k \in 0 .. StageRows - 1 :
            Read(mem', VRow(k), 2 * StageR) = Read(filled, VRow(k), 2 * StageR)
  BY <1>3, <1>10, OptKeeps
<1> DEFINE d == 1
<1>12. /\ d \in Nat /\ Done = d /\ Done' = d + 1 /\ d < StageRows /\ ~ (d >= 2)
       /\ Read(mem', VRow(d), 2 * StageR) = Read(mem, ActiveAt, 2 * StageR)
       /\ \A k \in 0 .. d - 1 : Read(mem', VRow(k), 2 * StageR) = Read(mem, VRow(k), 2 * StageR)
  <2>1. \A k \in 0 .. d - 1 : k = 0
    OBVIOUS
  <2> QED
    BY <1>1, <1>2, <1>3, <1>7, <1>11, <2>1
<1>13. MixesTo(Read(mem, ActiveAt, 2 * StageR), Read(mem', ActiveAt', 2 * StageR))
  BY <1>1, <1>2, <1>7, <1>10
<1>14. /\ pc # "load" /\ pc' # "load" /\ stage \in {"sbox", "fill"} /\ UNCHANGED <<job, stage>>
       /\ Read(mem', BAt, 2 * R) = Read(mem, BAt, 2 * R)
       /\ stage = "fill" => Read(mem', SAt, SSize) = Read(mem, SAt, SSize)
  BY <1>1, <1>7, <1>11
<1> HIDE DEF d
<1> QED
  BY <1>12, <1>13, <1>14, YescryptFills

(* The loop keeps in n the power of two below the number of the row.       *)
LEMMA Smix1Wraps ==
  ASSUME PowInv, job.yescrypt, ~ job.simd, Smix1Loop
  PROVE  /\ stage \in {"sbox", "fill"} /\ ActiveAt = From
         /\ i \in Nat /\ i >= 2 /\ i % 2 = 0 /\ i + half < StageRows
         /\ IsPower(nn') /\ nn' \in Nat \ {0} /\ nn' <= i + half /\ i + half < 2 * nn'
<1> USE DEF Smix1Loop
<1>1. /\ stage \in {"sbox", "fill"} /\ Smix1Inv /\ OptInv /\ half \in {0, 1} /\ ActiveAt = From
  BY Buffers DEF InSmix1, PowInv, CounterInv, Smix1Inv, ActiveAt
<1>2. /\ i \in Nat /\ i >= 2 /\ i % 2 = 0 /\ i < StageRows /\ i + half < StageRows
      /\ IsPower(nn) /\ nn \in Nat \ {0} /\ nn <= i - 1 + 2 * half /\ i - 1 + 2 * half < 2 * nn
  <2>1. StageRows \in Nat /\ StageRows % 2 = 0
    BY YescryptFacts
  <2> QED
    BY <1>1, <2>1, PowersOfTwo DEF OptInv
<1>3. CASE half = 0
  <2>1. nn' = IF i = P2floor(i) THEN 2 * nn ELSE nn
    BY <1>3
  <2>2. nn <= i - 1 /\ i - 1 < 2 * nn
    BY <1>2, <1>3
  <2>3. IsPower(nn') /\ nn' <= i /\ i + 1 < 2 * nn'
    BY <1>2, <2>1, <2>2, DoubledInTime
  <2> QED
    BY <1>1, <1>2, <1>3, <2>3, PowersOfTwo
<1>4. CASE half = 1
  BY <1>1, <1>2, <1>4
<1> QED
  BY <1>1, <1>3, <1>4

(* ... and the loop is the rest of Fill: the row it adds is the one that   *)
(* Wrap chooses.                                                           *)
LEMMA Smix1LoopStep ==
  ASSUME PowInv, PowInv', job.yescrypt, ~ job.simd, Smix1Loop
  PROVE  Abstract!Fill
<1> USE DEF Smix1Loop, NextHalf
<1> DEFINE d == i + half
           n == 2 * StageR
           p == nn'
           filled == Copy(mem, VRow(d), From, 2 * StageR)
           last == Unshuffle[mem[From + n - 1]]
           k0 == (last % p) + d - p
           added == XorInto(filled, From, VRow(k0), 2 * StageR)
           in == XorBlock(Read(mem, From, n), Read(mem, VRow(k0), n))
<1>1. /\ stage \in {"sbox", "fill"} /\ ActiveAt = From /\ d \in Nat /\ d >= 2 /\ d < StageRows
      /\ IsPower(p) /\ p \in Nat \ {0} /\ p <= d /\ d < 2 * p
      /\ half \in {0, 1} /\ i \in Nat /\ i % 2 = 0
  <2> HIDE DEF Smix1Loop, NextHalf
  <2> QED
    BY Smix1Wraps, Buffers
<1>2. UNCHANGED <<job, stage>> /\ pc = "loop" /\ pc' = "loop" /\ half' = 1 - half
      /\ i' = i + 2 * half
  OBVIOUS
<1>3. From' = To /\ ActiveAt' = To /\ Done = d /\ Done' = d + 1
  <2>1. From' = To
    BY <1>2, Buffers
  <2>2. i' + half' = d + 1
    BY <1>1, <1>2
  <2> QED
    BY <1>1, <1>2, <2>1, <2>2 DEF ActiveAt, InSmix1, InSmix2, Done
<1>4. /\ job \in Jobs /\ Memory(mem) /\ n \in Nat \ {0} /\ StageRows \in Nat /\ StageR \in Nat \ {0}
      /\ Own(mem, From, n) /\ (stage # "sbox" => Own(mem, SAt, SSize))
      /\ \A k \in 0 .. d - 1 : Own(mem, VRow(k), n)
  <2>1. RowsOwn = d
    BY <1>1, <1>2, <1>3 DEF RowsOwn
  <2> HIDE DEF Smix1Loop, NextHalf, d
  <2> QED
    BY <1>1, <1>2, <2>1, YescryptFacts
<1>5. mem' = BlockmixOf(XorInto(filled, From,
                          VRow((Integerify(filled, From) % p) + i + half - p), 2 * StageR), From, To)
  OBVIOUS
<1> HIDE DEF Smix1Loop, NextHalf
<1>6. /\ From \in {XAt, YAt(StageR)} /\ To \in {XAt, YAt(StageR)}
      /\ Apart(To, n, From, n) /\ Inside(From, n) /\ Inside(To, n)
      /\ Inside(BAt, 2 * R) /\ Inside(SAt, SSize)
      /\ Apart(XYAt, XYSize, BAt, 2 * R) /\ Apart(XYAt, XYSize, SAt, SSize)
  <2>1. Inside(From, n) /\ Inside(To, n)
    BY Buffers
  <2> QED
    BY <1>1, <1>4, <2>1, YescryptApart, Regions DEF From, To
<1>7. \A k \in 0 .. StageRows - 1 :
        /\ Inside(VRow(k), n) /\ Apart(VRow(k), n, BAt, 2 * R)
        /\ stage # "sbox" => Apart(VRow(k), n, SAt, SSize)
        /\ Apart(VRow(k), n, From, n) /\ Apart(From, n, VRow(k), n)
  <2>1. \A k \in 0 .. StageRows - 1 :
        /\ Inside(VRow(k), n) /\ Apart(VRow(k), n, BAt, 2 * R)
        /\ stage # "sbox" => Apart(VRow(k), n, SAt, SSize)
        /\ Apart(XYAt, XYSize, VRow(k), n)
    BY <1>4, YescryptApart
  <2> QED
    BY <1>4, <1>6, <2>1, ApartFromBuffers
<1>8. /\ Apart(From, n, BAt, 2 * R) /\ Apart(From, n, SAt, SSize)
      /\ \A k \in 0 .. d - 1 : k \in 0 .. StageRows - 1 /\ Apart(VRow(d), n, VRow(k), n)
  <2>1. Apart(From, n, BAt, 2 * R) /\ Apart(From, n, SAt, SSize)
    BY <1>4, <1>6, ApartFromBuffers
  <2>2. d \in 0 .. StageRows - 1 /\ \A k \in 0 .. d - 1 : k \in 0 .. StageRows - 1 /\ d # k
    BY <1>1, <1>4
  <2> HIDE DEF d
  <2> QED
    BY <1>4, <2>1, <2>2, YescryptApart
<1> HIDE DEF n, p
<1>9. k0 \in 0 .. d - 1 /\ last \in Word
  <2>1. last \in Word
    <3>1. From + n - 1 \in From .. From + n - 1
      BY <1>4, <1>6 DEF Inside
    <3> QED
      BY <1>4, <3>1, UnshuffleIsWord DEF Own
  <2> DEFINE q == last % p
  <2>2. q \in Nat /\ q < p
    <3> HIDE DEF last
    <3> QED
      BY <1>1, <2>1, Cells, Remainder
  <2> HIDE DEF q, last
  <2>3. k0 = q + d - p
    BY DEF q
  <2> HIDE DEF d
  <2> QED
    BY <1>1, <2>1, <2>2, <2>3
<1>10. d \in 0 .. StageRows - 1 /\ k0 \in 0 .. StageRows - 1 /\ k0 # d
  <2> HIDE DEF d, k0
  <2> QED
    BY <1>1, <1>4, <1>9
<1>11. /\ Read(filled, VRow(d), n) = Read(mem, From, n)
       /\ Read(filled, From, n) = Read(mem, From, n)
       /\ \A k \in 0 .. d - 1 : Read(filled, VRow(k), n) = Read(mem, VRow(k), n)
       /\ Read(filled, BAt, 2 * R) = Read(mem, BAt, 2 * R)
       /\ stage # "sbox" => Read(filled, SAt, SSize) = Read(mem, SAt, SSize)
  <2> HIDE DEF d
  <2>1. filled = Copy(mem, VRow(d), From, n)
    BY DEF n
  <2>2. n \in Nat
    BY <1>4
  <2> HIDE DEF filled
  <2> QED
    BY <1>4, <1>6, <1>7, <1>8, <1>10, <2>1, <2>2, ReadOfCopy
<1>12. Memory(filled) /\ Own(filled, From, n) /\ Own(filled, VRow(k0), n)
  <2>1. Grown(mem, filled)
    <3> HIDE DEF d
    <3>1. filled = Copy(mem, VRow(d), From, n)
      BY DEF n
    <3> HIDE DEF filled
    <3> QED
      BY <1>4, <1>7, <1>10, <3>1, CopyGrows
  <2> HIDE DEF filled, k0
  <2> QED
    BY <1>4, <1>9, <2>1, GrownOwns DEF Grown
<1>13. Integerify(filled, From) = last
  <2>1. n - 1 \in 0 .. n - 1 /\ From + (n - 1) = From + n - 1
    BY <1>4, <1>6 DEF Inside
  <2>2. filled[From + (n - 1)] = mem[From + (n - 1)]
    BY <1>11, <2>1, SameCells
  <2> QED
    BY <2>1, <2>2 DEF Integerify, n
<1>14. mem' = BlockmixOf(added, From, To)
  <2>1. (last % p) + i + half - p = k0
    <3> DEFINE q == last % p
    <3>1. q \in Nat
      <4> HIDE DEF last
      <4> QED
        BY <1>1, <1>9, Cells, Remainder
    <3> HIDE DEF q
    <3>2. q + i + half - p = q + d - p
      BY <1>1, <3>1
    <3> QED
      BY <3>2 DEF q
  <2> HIDE DEF last, k0
  <2> QED
    BY <1>5, <1>13, <2>1
<1> HIDE DEF last, k0, d, filled
<1>15. /\ Read(added, From, n) = in
       /\ \A k \in 0 .. StageRows - 1 : Read(added, VRow(k), n) = Read(filled, VRow(k), n)
       /\ Read(added, BAt, 2 * R) = Read(filled, BAt, 2 * R)
       /\ Read(added, SAt, SSize) = Read(filled, SAt, SSize)
  <2>1. added = XorInto(filled, From, VRow(k0), n) /\ n \in Nat
    BY <1>4 DEF n
  <2> HIDE DEF added
  <2> QED
    BY <1>6, <1>7, <1>8, <1>9, <1>10, <1>11, <1>12, <2>1, ReadOfXorInto
<1>16. Memory(added) /\ Own(added, From, n)
  <2>1. Grown(filled, added)
    <3>1. added = XorInto(filled, From, VRow(k0), n)
      BY DEF n
    <3> HIDE DEF added
    <3> QED
      BY <1>12, <3>1, XorIntoGrows
  <2> QED
    BY <1>12, <2>1, GrownOwns DEF Grown
<1> HIDE DEF added, in
<1>17. /\ MixesTo(in, Read(mem', To, n))
       /\ \A at, k : Inside(at, k) /\ Apart(XYAt, XYSize, at, k)
                     => Read(mem', at, k) = Read(added, at, k)
  <2>1. stage = "sbox" => ZAt(1) \notin From .. From + n - 1
    BY <1>4, <1>6, ZElsewhere DEF n
  <2>2. stage # "sbox" => Read(added, SAt, SSize) = Read(mem, SAt, SSize)
    BY <1>11, <1>15
  <2> QED
    BY <1>6, <1>14, <1>15, <1>16, <2>1, <2>2, BlockmixOfComputes DEF n
<1>18. /\ Read(mem', BAt, 2 * R) = Read(added, BAt, 2 * R)
       /\ Read(mem', SAt, SSize) = Read(added, SAt, SSize)
       /\ \A k \in 0 .. StageRows - 1 : Read(mem', VRow(k), n) = Read(added, VRow(k), n)
  BY <1>4, <1>17, OptKeeps DEF n
<1>19. in = IF d >= 2 THEN XorBlock(Read(mem, ActiveAt, 2 * StageR),
                             Read(mem, VRow((Unshuffle[mem[ActiveAt + 2 * StageR - 1]] % p)
                                              + d - p), 2 * StageR))
            ELSE Read(mem, ActiveAt, 2 * StageR)
  BY <1>1 DEF in, k0, last, n
<1>20. /\ MixesTo(in, Read(mem', ActiveAt', 2 * StageR))
       /\ Read(mem', BAt, 2 * R) = Read(mem, BAt, 2 * R)
       /\ stage = "fill" => Read(mem', SAt, SSize) = Read(mem, SAt, SSize)
       /\ \A k \in 0 .. d - 1 : Read(mem', VRow(k), 2 * StageR) = Read(mem, VRow(k), 2 * StageR)
       /\ Read(mem', VRow(d), 2 * StageR) = Read(mem, ActiveAt, 2 * StageR)
  BY <1>1, <1>3, <1>8, <1>10, <1>11, <1>15, <1>17, <1>18 DEF n
<1>21. pc # "load" /\ pc' # "load" /\ UNCHANGED <<job, stage>>
  BY <1>2
<1> QED
  BY <1>1, <1>3, <1>19, <1>20, <1>21, YescryptFills

(* It stores the block when every row is written.                          *)
LEMMA Smix1StoreStep ==
  ASSUME PowInv, PowInv', job.yescrypt, ~ job.simd, Smix1Store
  PROVE  Abstract!EndPhase
<1> USE DEF Smix1Store
<1>1. /\ stage \in {"sbox", "fill"} /\ ActiveAt = XAt /\ Done = StageRows
      /\ GoTo(stage')
      /\ stage' = CASE stage = "sbox" -> "fill" [] stage = "fill" -> "mixrw"
                    [] stage = "mixrw" -> "mix" [] stage = "mix" -> "done"
  <2>1. /\ stage \in {"sbox", "fill"} /\ half = 0 /\ pc = "loop" /\ i >= StageRows
        /\ Smix1Inv /\ OptInv
    BY DEF InSmix1, PowInv, CounterInv, Smix1Inv
  <2>2. i = StageRows /\ i + half = StageRows
    <3>1. StageRows \in Nat
      BY YescryptFacts
    <3> QED
      BY <2>1, <3>1 DEF OptInv
  <2>3. Done = StageRows /\ ActiveAt = XAt
    BY <2>1, <2>2 DEF Done, ActiveAt, From, InSmix1, InSmix2
  <2>4. GoTo(IF stage = "sbox" THEN "fill" ELSE "mixrw")
    OBVIOUS
  <2>5. stage' = IF stage = "sbox" THEN "fill" ELSE "mixrw"
    BY <2>4 DEF GoTo
  <2> QED
    BY <2>1, <2>3, <2>4, <2>5
<1>2. Done = Abstract!Steps /\ stage # "done" /\ pc # "load"
      /\ mem' = CopyThrough(Unshuffle, mem, BAt, XAt, 2 * StageR)
  <2>1. job \in Jobs
    BY YescryptFacts
  <2> QED
    BY <1>1, <2>1, StepsIs
<1> QED
  BY <1>1, <1>2, YescryptStores

(* Where smix2 is, in either build: the steps left are even or odd with    *)
(* the half of the body.                                                   *)
LEMMA Smix2Counts ==
  ASSUME PowInv, job.yescrypt, InSmix2, pc = "loop", half = 0 => i > 0,
         pc' = "loop", i' = i - half, half' = 1 - half, UNCHANGED <<job, stage>>
  PROVE  /\ stage \in {"mixrw", "mix"} /\ job \in Jobs /\ StageR = R /\ StageRows = job.N
         /\ ActiveAt = From /\ ActiveAt' = To
         /\ Done < Nloop /\ Done' = Done + 1
         /\ RowsOwn = job.N
<1>1. /\ stage \in {"mixrw", "mix"} /\ job \in Jobs /\ StageR = R /\ StageRows = job.N
      /\ half \in {0, 1} /\ RowsOwn = job.N
  <2>1. stage \in {"mixrw", "mix"}
    BY DEF InSmix2
  <2> QED
    BY <2>1, YescryptFacts DEF RowsOwn
<1>2. ActiveAt = From /\ ActiveAt' = To
  <2>1. From' = To
    BY Buffers
  <2> QED
    BY <1>1, <2>1 DEF ActiveAt, InSmix1
<1>3. i \in 0 .. Nloop \div 2 /\ (half = 1 => i > 0) /\ i \in Nat /\ i > 0
  <2>1. i \in 0 .. Nloop \div 2 /\ (half = 1 => i > 0)
    BY <1>1 DEF PowInv, CounterInv, Smix2Inv
  <2>2. Nloop \div 2 \in Nat
    BY <1>1, StepsIs
  <2> QED
    BY <1>1, <2>1, <2>2
<1> DEFINE h == Nloop \div 2
<1>4. h \in Nat /\ 2 * h = Nloop /\ h' = h
  BY <1>1, StepsIs, NloopIs, RegionsStay
<1>5. Done = 2 * (h - i) + half /\ Done' = 2 * (h - i') + half'
  <2>1. InSmix2'
    BY DEF InSmix2
  <2> QED
    BY <1>4, <2>1 DEF Done
<1> HIDE DEF h
<1>6. Done < Nloop /\ Done' = Done + 1
  <2>1. i \in 0 .. h
    BY <1>3 DEF h
  <2>2. CASE half = 0
    BY <1>3, <1>4, <1>5, <2>1, <2>2
  <2>3. CASE half = 1
    BY <1>3, <1>4, <1>5, <2>1, <2>3
  <2> QED
    BY <1>1, <2>2, <2>3
<1> QED
  BY <1>1, <1>2, <1>6

(* The buffers of smix2 and the rows do not meet, nor B and S.             *)
LEMMA Smix2Apart ==
  ASSUME PowInv, job.yescrypt, stage \in {"mixrw", "mix"}
  PROVE  /\ From \in {XAt, YAt(StageR)} /\ To \in {XAt, YAt(StageR)}
         /\ Apart(To, 2 * R, From, 2 * R) /\ Inside(From, 2 * R) /\ Inside(To, 2 * R)
         /\ Inside(SAt, SSize) /\ Apart(From, 2 * R, SAt, SSize) /\ Apart(To, 2 * R, SAt, SSize)
         /\ \A k \in 0 .. job.N - 1 :
              /\ Inside(VRow(k), 2 * R)
              /\ Apart(VRow(k), 2 * R, SAt, SSize)
              /\ Apart(VRow(k), 2 * R, From, 2 * R) /\ Apart(From, 2 * R, VRow(k), 2 * R)
              /\ Apart(To, 2 * R, VRow(k), 2 * R)
              /\ \A l \in 0 .. job.N - 1 : k # l => Apart(VRow(k), 2 * R, VRow(l), 2 * R)
<1>1. job \in Jobs /\ StageR = R /\ StageRows = job.N
  BY YescryptFacts
<1> DEFINE n == 2 * StageR
<1>2. n = 2 * R
  BY <1>1
<1>3. /\ From \in {XAt, YAt(StageR)} /\ To \in {XAt, YAt(StageR)}
      /\ Apart(To, n, From, n) /\ Inside(From, n) /\ Inside(To, n)
      /\ Inside(SAt, SSize) /\ Apart(XYAt, XYSize, SAt, SSize)
  <2>1. Inside(From, n) /\ Inside(To, n)
    BY Buffers
  <2> QED
    BY <1>1, <2>1, YescryptApart, Regions DEF From, To
<1>4. Apart(From, n, SAt, SSize) /\ Apart(To, n, SAt, SSize)
  BY <1>1, <1>3, ApartFromBuffers
<1>5. \A k \in 0 .. job.N - 1 :
        /\ Inside(VRow(k), n) /\ Apart(VRow(k), n, SAt, SSize)
        /\ Apart(XYAt, XYSize, VRow(k), n)
        /\ \A l \in 0 .. job.N - 1 : k # l => Apart(VRow(k), n, VRow(l), n)
  BY <1>1, YescryptApart
<1>6. \A k \in 0 .. job.N - 1 :
        Apart(VRow(k), n, From, n) /\ Apart(From, n, VRow(k), n) /\ Apart(To, n, VRow(k), n)
  BY <1>1, <1>3, <1>5, ApartFromBuffers
<1> HIDE DEF n
<1> QED
  BY <1>2, <1>3, <1>4, <1>5, <1>6

(* smix2: the row is added to the block, takes the sum, and the sum is     *)
(* mixed.                                                                  *)
LEMMA Smix2LoopStep ==
  ASSUME PowInv, PowInv', job.yescrypt, ~ job.simd, Smix2Loop
  PROVE  Abstract!MixStep
<1> USE DEF Smix2Loop, NextHalf
<1> DEFINE n == 2 * R
           k0 == Unshuffle[mem[From + n - 1]] % job.N
           added == XorInto(mem, From, VRow(k0), 2 * R)
           kept == IF RW THEN Copy(added, VRow(k0), From, 2 * R) ELSE added
           in == XorBlock(Read(mem, From, n), Read(mem, VRow(k0), n))
<1>1. /\ stage \in {"mixrw", "mix"} /\ job \in Jobs /\ StageR = R
      /\ ActiveAt = From /\ ActiveAt' = To /\ Done < Nloop /\ Done' = Done + 1
      /\ RowsOwn = job.N /\ StageRows = job.N
      /\ pc = "loop" /\ pc' = "loop" /\ UNCHANGED <<job, stage>>
  <2>1. /\ InSmix2 /\ pc = "loop" /\ (half = 0 => i > 0) /\ pc' = "loop" /\ i' = i - half
        /\ half' = 1 - half /\ UNCHANGED <<job, stage>>
    OBVIOUS
  <2> HIDE DEF Smix2Loop, NextHalf
  <2> QED
    BY <2>1, Smix2Counts
<1>2. mem' = BlockmixOf(kept, From, To)
  <2>1. Integerify(mem, From) = Unshuffle[mem[From + n - 1]]
    BY <1>1 DEF Integerify
  <2> QED
    BY <2>1
<1> HIDE DEF Smix2Loop, NextHalf
<1>3. /\ Memory(mem) /\ n \in Nat \ {0} /\ job.N \in Nat \ {0} /\ Own(mem, From, n)
      /\ Own(mem, SAt, SSize) /\ \A k \in 0 .. job.N - 1 : Own(mem, VRow(k), n)
  BY <1>1, YescryptFacts, Sizes
<1>4. /\ From \in {XAt, YAt(StageR)} /\ To \in {XAt, YAt(StageR)}
      /\ Apart(To, n, From, n) /\ Inside(From, n) /\ Inside(SAt, SSize) /\ Apart(From, n, SAt, SSize)
      /\ \A k \in 0 .. job.N - 1 :
           /\ Inside(VRow(k), n) /\ Apart(VRow(k), n, SAt, SSize)
           /\ Apart(VRow(k), n, From, n) /\ Apart(From, n, VRow(k), n)
           /\ \A l \in 0 .. job.N - 1 : k # l => Apart(VRow(k), n, VRow(l), n)
  BY <1>1, Smix2Apart
<1>5. added = XorInto(mem, From, VRow(k0), n)
      /\ kept = IF RW THEN Copy(added, VRow(k0), From, n) ELSE added
  OBVIOUS
<1>6. k0 \in 0 .. job.N - 1
  <2>1. From + n - 1 \in From .. From + n - 1
    BY <1>3, <1>4 DEF Inside
  <2>2. Unshuffle[mem[From + n - 1]] \in Word
    BY <1>3, <2>1, UnshuffleIsWord DEF Own
  <2> QED
    BY <1>3, <2>2, ChosenRow
<1>7. k0 = Unshuffle[mem[ActiveAt + 2 * R - 1]] % job.N
  BY <1>1
<1> HIDE DEF n, k0, added, kept
<1>8. /\ Read(added, From, n) = in
      /\ Read(added, SAt, SSize) = Read(mem, SAt, SSize)
      /\ \A k \in 0 .. job.N - 1 : Read(added, VRow(k), n) = Read(mem, VRow(k), n)
  BY <1>3, <1>4, <1>5, <1>6, ReadOfXorInto
<1>9. Memory(added) /\ Own(added, From, n) /\ Own(added, VRow(k0), n)
  <2>1. Grown(mem, added)
    BY <1>3, <1>5, <1>6, XorIntoGrows
  <2> QED
    BY <1>3, <1>6, <2>1, GrownOwns DEF Grown
<1> HIDE DEF in
<1>10. /\ Memory(kept) /\ Own(kept, From, n) /\ Read(kept, From, n) = in
       /\ Read(kept, SAt, SSize) = Read(mem, SAt, SSize)
       /\ \A k \in 0 .. job.N - 1 :
            Read(kept, VRow(k), n) = IF RW /\ k = k0 THEN in ELSE Read(mem, VRow(k), n)
  <2>1. CASE RW
    <3>1. kept = Copy(added, VRow(k0), From, n)
      BY <1>5, <2>1
    <3>2. /\ Read(kept, VRow(k0), n) = in /\ Read(kept, From, n) = in
          /\ Read(kept, SAt, SSize) = Read(mem, SAt, SSize)
          /\ \A k \in 0 .. job.N - 1 : k # k0 => Read(kept, VRow(k), n) = Read(mem, VRow(k), n)
      BY <1>3, <1>4, <1>6, <1>8, <1>9, <3>1, ReadOfCopy
    <3>3. Grown(added, kept)
      BY <1>4, <1>6, <1>9, <3>1, CopyGrows
    <3>4. Memory(kept) /\ Own(kept, From, n)
      BY <1>9, <3>3, GrownOwns DEF Grown
    <3> QED
      BY <2>1, <3>2, <3>4
  <2>2. CASE ~ RW
    BY <1>5, <1>8, <1>9, <2>2
  <2> QED
    BY <2>1, <2>2
<1>11. /\ MixesTo(in, Read(mem', To, n))
       /\ \A at, k : Inside(at, k) /\ Apart(XYAt, XYSize, at, k)
                     => Read(mem', at, k) = Read(kept, at, k)
  <2>1. n = 2 * StageR /\ stage # "sbox"
    BY <1>1 DEF n
  <2> QED
    BY <1>1, <1>2, <1>4, <1>10, <2>1, BlockmixOfComputes
<1>12. /\ Read(mem', SAt, SSize) = Read(kept, SAt, SSize)
       /\ \A k \in 0 .. job.N - 1 : Read(mem', VRow(k), n) = Read(kept, VRow(k), n)
  <2>1. n = 2 * StageR
    BY <1>1 DEF n
  <2> QED
    BY <1>1, <1>11, <2>1, OptKeeps
<1>13. /\ in = XorBlock(Read(mem, ActiveAt, 2 * R), Read(mem, VRow(k0), 2 * R))
       /\ MixesTo(in, Read(mem', ActiveAt', 2 * R))
       /\ Read(mem', SAt, SSize) = Read(mem, SAt, SSize)
       /\ \A k \in 0 .. job.N - 1 :
            Read(mem', VRow(k), 2 * R) = IF stage = "mixrw" /\ k = k0 THEN in
                                         ELSE Read(mem, VRow(k), 2 * R)
  BY <1>1, <1>10, <1>11, <1>12 DEF in, n, RW
<1>14. pc # "load" /\ pc' # "load"
  BY <1>1
<1> QED
  BY <1>1, <1>7, <1>13, <1>14, YescryptMixStep

(* Every step of the portable build is a step of ROMix, or none.           *)
LEMMA YescryptSteps ==
  ASSUME PowInv, PowInv', YescryptNext
  PROVE  Abstract!ROMixNext \/ UNCHANGED Abstract!romixVars
<1>0. job.yescrypt /\ ~ job.simd
  BY DEF YescryptNext
<1>1. CASE Smix1Load
  <2>1. /\ InSmix1 /\ pc = "load" /\ pc' = "first" /\ UNCHANGED <<job, stage>>
        /\ mem' = CopyThrough(Shuffle, mem, VRow(0), BAt, 2 * StageR)
    BY <1>1 DEF Smix1Load
  <2> QED
    BY <1>0, <2>1, Smix1LoadStutters
<1>2. CASE Smix1First
  BY <1>0, <1>2, Smix1FirstStep DEF Abstract!ROMixNext
<1>3. CASE Smix1Second
  BY <1>0, <1>3, Smix1SecondStep DEF Abstract!ROMixNext
<1>4. CASE Smix1Loop
  BY <1>0, <1>4, Smix1LoopStep DEF Abstract!ROMixNext
<1>5. CASE Smix1Store
  BY <1>0, <1>5, Smix1StoreStep DEF Abstract!ROMixNext
<1>6. CASE Smix2Nothing
  <2>1. InSmix2 /\ pc = "load" /\ Nloop = 0 /\ GoTo(AfterSmix2) /\ UNCHANGED mem
    BY <1>6 DEF Smix2Nothing
  <2> QED
    BY <1>0, <2>1, YescryptSkips DEF Abstract!ROMixNext
<1>7. CASE Smix2Load
  <2>1. /\ InSmix2 /\ pc = "load" /\ pc' = "loop" /\ i' = Nloop \div 2
        /\ UNCHANGED <<job, stage, half>>
        /\ mem' = CopyThrough(Shuffle, mem, XAt, BAt, 2 * R)
    BY <1>7 DEF Smix2Load
  <2> QED
    BY <1>0, <2>1, Smix2LoadStutters
<1>8. CASE Smix2Loop
  BY <1>0, <1>8, Smix2LoopStep DEF Abstract!ROMixNext
<1>9. CASE Smix2Store
  <2>1. /\ InSmix2 /\ pc = "loop" /\ half = 0 /\ i = 0
        /\ mem' = CopyThrough(Unshuffle, mem, BAt, XAt, 2 * R) /\ GoTo(AfterSmix2)
    BY <1>9 DEF Smix2Store
  <2> QED
    BY <1>0, <2>1, Smix2StoreStep DEF Abstract!ROMixNext
<1> QED
  BY <1>1, <1>2, <1>3, <1>4, <1>5, <1>6, <1>7, <1>8, <1>9 DEF YescryptNext

-----------------------------------------------------------------------------
(* The build with SSE2.                                                    *)

(* j is the number in the last sub-block of the block, which the mixing    *)
(* returned, and the loop over n ends with n at half of the rows.          *)
RowChosen ==
  job.simd /\ pc \in {"loop", "tail"} =>
    /\ j = LowWord(mem[ActiveAt + LastSub])
    /\ pc = "tail" => 2 * nn >= StageRows

(* Within smix1 the block is in the row that Done counts to.               *)
LEMMA SimdPlace ==
  ASSUME job.simd, InSmix1, UNCHANGED <<job, stage>>, pc' \notin {"load", "store"}
  PROVE  ActiveAt' = VRow(Done')
<1>1. VRow(Done)' = VRow(Done')
  BY RegionsStay DEF VRow, StageR, SAt, VAt, BSize, VSize, XYSize, R
<1>2. ActiveAt' = VRow(Done)'
  BY DEF ActiveAt, InSmix1
<1> QED
  BY <1>1, <1>2

(* Mixing from one row to the next is Fill: nothing is copied, since the   *)
(* row is where the block was.                                             *)
LEMMA SimdFills ==
  ASSUME PowInv, PowInv', job.yescrypt, job.simd, stage \in {"sbox", "fill"},
         UNCHANGED <<job, stage>>, pc \notin {"load", "store"}, pc' # "load",
         NEW d \in Nat, Done = d, Done' = d + 1, d < StageRows,
         NEW p, d >= 2 => IsPower(p) /\ p <= d /\ d < 2 * p,
         NEW in, in = IF d >= 2
                      THEN XorBlock(Read(mem, ActiveAt, 2 * StageR),
                             Read(mem, VRow((Unshuffle[mem[ActiveAt + 2 * StageR - 1]] % p)
                                              + d - p), 2 * StageR))
                      ELSE Read(mem, ActiveAt, 2 * StageR),
         NEW to, ActiveAt' = to, to = XAt \/ (to = VRow(d + 1) /\ d + 1 < StageRows),
         MixesTo(in, Read(mem', to, 2 * StageR)),
         \A at, k : Inside(at, k) /\ Apart(to, 2 * StageR, at, k)
                    => Read(mem', at, k) = Read(mem, at, k)
  PROVE  Abstract!Fill
<1> DEFINE n == 2 * StageR
<1>1. ActiveAt = VRow(d)
  BY DEF ActiveAt, InSmix1
<1>2. job \in Jobs /\ StageRows \in Nat /\ StageR \in Nat \ {0}
  BY YescryptFacts
<1>3. /\ Inside(BAt, 2 * R) /\ Inside(SAt, SSize)
      /\ \A k \in 0 .. StageRows - 1 : Inside(VRow(k), n)
  BY <1>2, Regions
<1>4. /\ Apart(to, n, BAt, 2 * R) /\ (stage # "sbox" => Apart(to, n, SAt, SSize))
      /\ \A k \in 0 .. d : k \in 0 .. StageRows - 1 /\ Apart(to, n, VRow(k), n)
  <2>1. \A k \in 0 .. d : k \in 0 .. StageRows - 1
    BY <1>2
  <2>2. CASE to = XAt
    <3>1. /\ Apart(XYAt, XYSize, BAt, 2 * R) /\ Apart(XYAt, XYSize, SAt, SSize)
          /\ \A k \in 0 .. StageRows - 1 : Apart(XYAt, XYSize, VRow(k), n)
      BY <1>2, YescryptApart
    <3> QED
      BY <1>2, <1>3, <2>1, <2>2, <3>1, ApartFromBuffers
  <2>3. CASE to = VRow(d + 1) /\ d + 1 < StageRows
    <3> DEFINE e == d + 1
    <3>1. e \in 0 .. StageRows - 1 /\ \A k \in 0 .. d : e # k
      BY <1>2, <2>3
    <3>2. to = VRow(e)
      BY <2>3
    <3> HIDE DEF e
    <3> QED
      BY <1>2, <2>1, <3>1, <3>2, YescryptApart
  <2> QED
    BY <2>2, <2>3
<1>5. /\ Read(mem', BAt, 2 * R) = Read(mem, BAt, 2 * R)
      /\ stage = "fill" => Read(mem', SAt, SSize) = Read(mem, SAt, SSize)
      /\ \A k \in 0 .. d : Read(mem', VRow(k), n) = Read(mem, VRow(k), n)
  BY <1>3, <1>4
<1>6. /\ \A k \in 0 .. d - 1 : Read(mem', VRow(k), 2 * StageR) = Read(mem, VRow(k), 2 * StageR)
      /\ Read(mem', VRow(d), 2 * StageR) = Read(mem, ActiveAt, 2 * StageR)
  BY <1>1, <1>5
<1>7. MixesTo(in, Read(mem', ActiveAt', 2 * StageR)) /\ pc # "load"
  OBVIOUS
<1> QED
  BY <1>5, <1>6, <1>7, YescryptFills

(* The first two rows: nothing is added to them.                           *)
LEMMA SimdFirstSteps ==
  ASSUME PowInv, PowInv', job.yescrypt, job.simd, stage \in {"sbox", "fill"},
         UNCHANGED <<job, stage>>, pc \in {"first", "second"}, pc' \in {"second", "loop"},
         NEW d \in 0 .. 1, Done = d, Done' = d + 1,
         NEW result, result = SimdBlockmix(mem, VRow(d), VRow(d + 1)), mem' = result.m
  PROVE  Abstract!Fill /\ result.x = mem'[ActiveAt' + LastSub]
<1> DEFINE e == d + 1
<1>1. job \in Jobs /\ Memory(mem) /\ StageRows \in Nat /\ StageRows >= 4 /\ RowsOwn = d + 1
  <2>1. InSmix1
    BY DEF InSmix1
  <2> QED
    BY <2>1, SimdSmix1Facts
<1>2. /\ d \in Nat /\ d \in 0 .. StageRows - 1 /\ e \in 0 .. StageRows - 1 /\ d # e
      /\ d \in 0 .. RowsOwn - 1 /\ e = d + 1 /\ e < StageRows /\ d < StageRows /\ ~ (d >= 2)
  BY <1>1
<1>3. ActiveAt = VRow(d) /\ ActiveAt' = VRow(e)
  <2>1. InSmix1 /\ pc' \notin {"load", "store"}
    BY DEF InSmix1
  <2>2. ActiveAt' = VRow(Done')
    BY <2>1, SimdPlace
  <2> QED
    BY <2>1, <2>2 DEF ActiveAt
<1>4. result = SimdBlockmix(mem, VRow(d), VRow(e))
  OBVIOUS
<1> HIDE DEF e
<1>5. /\ Own(mem, VRow(d), 2 * StageR) /\ Inside(VRow(e), 2 * StageR)
      /\ Apart(VRow(e), 2 * StageR, VRow(d), 2 * StageR)
  <2>1. Own(mem, VRow(d), 2 * StageR)
    BY <1>2, YescryptFacts
  <2> QED
    BY <1>1, <1>2, <2>1, YescryptApart
<1>6. /\ MixesTo(Read(mem, VRow(d), 2 * StageR), Read(mem', VRow(e), 2 * StageR))
      /\ result.x = mem'[VRow(e) + LastSub]
      /\ \A at, k : Inside(at, k) /\ Apart(VRow(e), 2 * StageR, at, k)
                    => Read(mem', at, k) = Read(mem, at, k)
  BY <1>1, <1>4, <1>5, SimdBlockmixComputes
<1> DEFINE to == VRow(e)
<1>7. ActiveAt' = to /\ (to = XAt \/ (to = VRow(d + 1) /\ d + 1 < StageRows))
  BY <1>2, <1>3
<1>8. MixesTo(Read(mem, ActiveAt, 2 * StageR), Read(mem', to, 2 * StageR))
      /\ pc \notin {"load", "store"} /\ pc' # "load"
  BY <1>3, <1>6
<1>9. \A at, k : Inside(at, k) /\ Apart(to, 2 * StageR, at, k)
                 => Read(mem', at, k) = Read(mem, at, k)
  BY <1>6
<1> HIDE DEF to
<1>10. Abstract!Fill
  BY <1>2, <1>7, <1>8, <1>9, SimdFills
<1> QED
  BY <1>3, <1>6, <1>10

(* The rows after them: the one before and an earlier one that Wrap        *)
(* chooses, with n the largest power of two that is not above the row.     *)
LEMMA SimdRowSteps ==
  ASSUME PowInv, PowInv', RowChosen, job.yescrypt, job.simd, stage \in {"sbox", "fill"},
         UNCHANGED <<job, stage>>, pc \in {"loop", "tail"}, pc' # "load",
         NEW d \in Nat, Done = d, Done' = d + 1, d >= 2, d < StageRows,
         IsPower(nn), nn \in Nat \ {0}, nn <= d, d < 2 * nn,
         NEW to, ActiveAt' = to, to = XAt \/ (to = VRow(d + 1) /\ d + 1 < StageRows),
         NEW k0, k0 = (j % nn) + d - nn,
         NEW result, result = BlockmixXor(mem, VRow(d), VRow(k0), to), mem' = result.m
  PROVE  Abstract!Fill /\ result.x = mem'[to + LastSub]
<1> DEFINE n == 2 * StageR
           in == XorBlock(Read(mem, VRow(d), n), Read(mem, VRow(k0), n))
<1>1. /\ job \in Jobs /\ Memory(mem) /\ StageRows \in Nat /\ StageRows >= 4 /\ RowsOwn = d + 1
      /\ j \in Nat /\ StageR \in Nat \ {0} /\ n \in Nat
  <2>1. InSmix1
    BY DEF InSmix1
  <2> QED
    <3>1. pc \notin {"load", "store"}
      OBVIOUS
    <3>2. /\ job \in Jobs /\ Memory(mem) /\ StageRows \in Nat /\ StageRows >= 4 /\ j \in Word
          /\ RowsOwn = Done + 1
      BY <2>1, <3>1, SimdSmix1Facts
    <3>3. j \in Nat
      BY <3>2, Cells
    <3>4. StageR \in Nat \ {0}
      BY YescryptFacts
    <3> QED
      BY <3>2, <3>3, <3>4
<1>2. ActiveAt = VRow(d)
  BY DEF ActiveAt, InSmix1
<1>3. /\ d \in 0 .. StageRows - 1 /\ d \in 0 .. RowsOwn - 1
      /\ k0 \in 0 .. StageRows - 1 /\ k0 \in 0 .. RowsOwn - 1 /\ k0 # d /\ k0 < d
  <2>1. j % nn \in Nat /\ j % nn < nn
    BY <1>1, Remainder
  <2> QED
    BY <1>1, <2>1
<1>4. /\ Own(mem, VRow(d), n) /\ Own(mem, VRow(k0), n)
  BY <1>3, YescryptFacts
<1>5. Inside(to, n) /\ Apart(to, n, VRow(d), n) /\ Apart(to, n, VRow(k0), n)
  <2>1. CASE to = XAt
    <3>1. /\ Inside(VRow(d), n) /\ Inside(VRow(k0), n)
          /\ Apart(XYAt, XYSize, VRow(d), n) /\ Apart(XYAt, XYSize, VRow(k0), n)
      BY <1>1, <1>3, YescryptApart
    <3>2. Inside(XAt, n)
      BY <1>1, Regions
    <3> QED
      BY <1>1, <2>1, <3>1, <3>2, ApartFromBuffers
  <2>2. CASE to = VRow(d + 1) /\ d + 1 < StageRows
    <3> DEFINE e == d + 1
    <3>1. e \in 0 .. StageRows - 1 /\ e # d /\ e # k0
      BY <1>1, <1>3, <2>2
    <3>2. to = VRow(e)
      BY <2>2
    <3> HIDE DEF e
    <3> QED
      BY <1>1, <1>3, <3>1, <3>2, YescryptApart
  <2> QED
    BY <2>1, <2>2
<1>6. /\ MixesTo(in, Read(mem', to, n)) /\ result.x = mem'[to + LastSub]
      /\ \A at, k : Inside(at, k) /\ Apart(to, n, at, k) => Read(mem', at, k) = Read(mem, at, k)
  BY <1>1, <1>4, <1>5, BlockmixXorComputes
<1>7. in = IF d >= 2
           THEN XorBlock(Read(mem, ActiveAt, 2 * StageR),
                  Read(mem, VRow((Unshuffle[mem[ActiveAt + 2 * StageR - 1]] % nn)
                                   + d - nn), 2 * StageR))
           ELSE Read(mem, ActiveAt, 2 * StageR)
  <2>1. ActiveAt + LastSub = ActiveAt + 2 * StageR - 1
    BY <1>1, <1>2, <1>4 DEF Own, LastSub
  <2>2. j = Unshuffle[mem[ActiveAt + 2 * StageR - 1]]
    BY <2>1 DEF RowChosen, LowWord
  <2> QED
    BY <1>2, <2>2
<1> HIDE DEF in
<1>8. pc \notin {"load", "store"} /\ MixesTo(in, Read(mem', to, 2 * StageR))
      /\ \A at, k : Inside(at, k) /\ Apart(to, 2 * StageR, at, k)
                    => Read(mem', at, k) = Read(mem, at, k)
  BY <1>6
<1>9. Abstract!Fill
  BY <1>7, <1>8, SimdFills
<1> QED
  BY <1>6, <1>9

(* What a step leaves for the next: the number and where n is.             *)
LEMMA ChosenNext ==
  ASSUME UNCHANGED <<job, stage>>, j' = LowWord(mem'[ActiveAt' + LastSub]),
         pc' = "tail" => 2 * nn' >= StageRows
  PROVE  RowChosen'
<1>1. LastSub' = LastSub /\ StageRows' = StageRows
  BY RegionsStay DEF LastSub
<1>2. LowWord(mem[ActiveAt + LastSub])' = LowWord(mem'[ActiveAt' + LastSub])
  BY <1>1 DEF LowWord
<1> QED
  BY <1>1, <1>2 DEF RowChosen

(* smix1 of the SSE2 build fills row 1 from row 0.                         *)
LEMMA SimdFirstStep ==
  ASSUME PowInv, PowInv', job.yescrypt, job.simd, SimdFirst
  PROVE  Abstract!Fill /\ RowChosen'
<1> USE DEF SimdFirst
<1> DEFINE d == 0
           result == SimdBlockmix(mem, VRow(0), VRow(1))
<1>1. /\ stage \in {"sbox", "fill"} /\ UNCHANGED <<job, stage>> /\ pc = "first" /\ pc' = "second"
      /\ d \in 0 .. 1 /\ Done = d /\ Done' = d + 1
  BY DEF InSmix1, Done
<1>2. result = SimdBlockmix(mem, VRow(d), VRow(d + 1)) /\ mem' = result.m
  <2>1. d = 0 /\ d + 1 = 1
    OBVIOUS
  <2> QED
    BY <2>1
<1> HIDE DEF d, result
<1>3. Abstract!Fill
  BY <1>1, <1>2, SimdFirstSteps
<1> QED
  BY <1>1, <1>3 DEF RowChosen

(* It fills row 2, and the last sub-block chooses a row.                   *)
LEMMA SimdSecondStep ==
  ASSUME PowInv, PowInv', job.yescrypt, job.simd, SimdSecond
  PROVE  Abstract!Fill /\ RowChosen'
<1> USE DEF SimdSecond
<1> DEFINE d == 1
           result == SimdBlockmix(mem, VRow(1), VRow(2))
<1>1. /\ stage \in {"sbox", "fill"} /\ UNCHANGED <<job, stage>> /\ pc = "second" /\ pc' = "loop"
      /\ d \in 0 .. 1 /\ Done = d /\ Done' = d + 1
  <2>1. stage \in {"sbox", "fill"} /\ stage' = stage /\ half = 0 /\ pc = "second"
    <3>1. InSmix1 /\ SimdInv
      BY SimdSmix1Facts
    <3> QED
      BY <3>1 DEF SimdInv, InSmix1
  <2> QED
    BY <2>1 DEF InSmix2, Done
<1>2. result = SimdBlockmix(mem, VRow(d), VRow(d + 1)) /\ mem' = result.m
  <2>1. d = 1 /\ d + 1 = 2
    OBVIOUS
  <2> QED
    BY <2>1 DEF MixTo
<1>3. j' = LowWord(result.x)
  BY DEF MixTo
<1> HIDE DEF d, result
<1>4. Abstract!Fill /\ result.x = mem'[ActiveAt' + LastSub]
  BY <1>1, <1>2, SimdFirstSteps
<1> QED
  BY <1>1, <1>3, <1>4, ChosenNext

(* It mixes the next row from the one before and an earlier one: one row   *)
(* of ROMix's table, whichever of the two loops runs.                      *)
LEMMA SimdLoopStep ==
  ASSUME PowInv, PowInv', RowChosen, job.yescrypt, job.simd, SimdLoop
  PROVE  Abstract!Fill /\ RowChosen'
<1> USE DEF SimdLoop, NextHalf
<1> DEFINE row == nn + i + half
           d == row - 1
           k0 == (j % nn) + d - nn
           to == VRow(row)
           result == BlockmixXor(mem, VRow(row - 1), VRow((j % nn) + i - 1 + half), VRow(row))
<1>1. /\ stage \in {"sbox", "fill"} /\ half \in {0, 1} /\ i \in Nat /\ nn \in Nat \ {0}
      /\ StageRows \in Nat /\ StageRows % 2 = 0 /\ j \in Nat /\ SimdInv
  BY SimdSmix1Facts, Cells
<1>2. /\ IsPower(nn) /\ nn % 2 = 0 /\ nn <= StageRows - 2 /\ i % 2 = 1 /\ i < RowsOfRound
  BY <1>1 DEF SimdInv
<1>3. /\ RowsOfRound <= StageRows - 1 - nn
      /\ 2 * nn < StageRows => RowsOfRound = nn
      /\ ~ (2 * nn < StageRows) => RowsOfRound = StageRows - 1 - nn
  BY <1>1, RoundFits
<1>4. d \in Nat /\ d >= 2 /\ d < StageRows /\ nn <= d /\ d < 2 * nn
      /\ row = d + 1 /\ d + 1 < StageRows
  <2>1. i >= 1 /\ nn >= 2
    BY <1>1, <1>2
  <2>2. i < nn
    <3>1. CASE 2 * nn < StageRows
      BY <1>2, <1>3, <3>1
    <3>2. CASE ~ (2 * nn < StageRows)
      BY <1>1, <1>2, <1>3, <3>2
    <3> QED
      BY <3>1, <3>2
  <2>3. i < StageRows - 1 - nn
    <3>1. RowsOfRound \in Int
      BY <1>1, RoundFits
    <3> QED
      BY <1>1, <1>2, <1>3, <3>1
  <2> QED
    BY <1>1, <2>1, <2>2, <2>3
<1>5. /\ UNCHANGED <<job, stage>> /\ pc = "loop" /\ pc' = "loop" /\ half' = 1 - half
      /\ i' = i + 2 * half /\ nn' = nn
      /\ mem' = result.m /\ j' = LowWord(result.x)
  BY DEF MixTo
<1>6. Done = d /\ Done' = d + 1
  <2>1. nn' + i' + half' - 1 = d + 1 /\ nn + i + half - 1 = d
    BY <1>1, <1>5
  <2> HIDE DEF d
  <2> QED
    BY <1>1, <1>5, <2>1 DEF Done, InSmix2
<1>7. ActiveAt' = to
  <2>1. InSmix1 /\ pc' \notin {"load", "store"}
    BY <1>5
  <2>2. ActiveAt' = VRow(Done')
    BY <1>5, <2>1, SimdPlace
  <2> QED
    BY <1>4, <1>6, <2>2
<1>8. result = BlockmixXor(mem, VRow(d), VRow(k0), to)
  <2> DEFINE q == j % nn
  <2>1. q \in Nat
    BY <1>1, Remainder
  <2> HIDE DEF q
  <2>2. q + d - nn = q + i - 1 + half
    BY <1>1, <2>1
  <2> QED
    BY <2>2 DEF q
<1> HIDE DEF SimdLoop, NextHalf, result, row, k0
<1>9. to = VRow(d + 1)
  BY <1>4
<1> HIDE DEF d, to
<1>10. Abstract!Fill /\ result.x = mem'[to + LastSub]
  <2>1. pc \in {"loop", "tail"} /\ pc' # "load" /\ k0 = (j % nn) + d - nn
    BY <1>5 DEF k0
  <2>2. /\ stage \in {"sbox", "fill"} /\ UNCHANGED <<job, stage>>
        /\ d \in Nat /\ Done = d /\ Done' = d + 1 /\ d >= 2 /\ d < StageRows
    BY <1>1, <1>4, <1>5, <1>6
  <2>3. IsPower(nn) /\ nn \in Nat \ {0} /\ nn <= d /\ d < 2 * nn
    BY <1>1, <1>2, <1>4
  <2>4. ActiveAt' = to /\ to = VRow(d + 1) /\ d + 1 < StageRows
    BY <1>4, <1>7, <1>9
  <2>5. result = BlockmixXor(mem, VRow(d), VRow(k0), to) /\ mem' = result.m
    BY <1>5, <1>8
  <2> QED
    BY <2>1, <2>2, <2>3, <2>4, <2>5, SimdRowSteps
<1> QED
  BY <1>5, <1>7, <1>10, ChosenNext

(* Doubling the stride of the loop computes nothing.                       *)
LEMMA SimdDoubleWaits ==
  ASSUME PowInv, PowInv', RowChosen, job.yescrypt, job.simd, SimdDouble
  PROVE  UNCHANGED Abstract!romixVars /\ RowChosen'
<1> USE DEF SimdDouble
<1>1. /\ stage \in {"sbox", "fill"} /\ half = 0 /\ i \in Nat /\ nn \in Nat \ {0}
      /\ StageRows \in Nat /\ StageRows % 2 = 0 /\ SimdInv
  BY SimdSmix1Facts
<1>2. /\ nn <= StageRows - 2 /\ i % 2 = 1
      /\ IF 2 * nn < StageRows THEN i <= nn + 1 ELSE i <= StageRows - 1 - nn
      /\ nn % 2 = 0
  BY <1>1 DEF SimdInv
<1>3. /\ i >= RowsOfRound
      /\ 2 * nn < StageRows => RowsOfRound = nn
      /\ ~ (2 * nn < StageRows) => RowsOfRound = StageRows - 1 - nn
  BY <1>1, RoundFits
<1>4. /\ UNCHANGED <<job, mem, stage, half, j>> /\ pc = "loop" /\ pc' \in {"loop", "tail"}
      /\ pc' = "tail" => 2 * nn' >= StageRows
      /\ nn' + i' + half' - 1 = nn + i + half - 1
  <2>1. CASE 2 * nn < StageRows
    <3>1. i = nn + 1
      BY <1>1, <1>2, <1>3, <2>1
    <3>2. nn' = 2 * nn /\ i' = 1 /\ pc' = "loop" /\ half' = 0
      BY <1>1, <2>1
    <3> QED
      BY <1>1, <3>1, <3>2
  <2>2. CASE ~ (2 * nn < StageRows)
    BY <1>1, <2>2
  <2> QED
    BY <2>1, <2>2
<1> HIDE DEF SimdDouble
<1>5. Done' = Done
  BY <1>1, <1>4 DEF Done, InSmix2
<1>6. ActiveAt' = ActiveAt
  <2>1. InSmix1 /\ pc' \notin {"load", "store"}
    BY <1>1, <1>4 DEF InSmix1
  <2>2. ActiveAt' = VRow(Done')
    BY <1>4, <2>1, SimdPlace
  <2> QED
    BY <1>4, <1>5, <2>1, <2>2 DEF ActiveAt
<1>7. UNCHANGED Abstract!romixVars
  <2>1. pc = "load" <=> pc' = "load"
    BY <1>4
  <2> QED
    BY <1>4, <1>5, <1>6, <2>1, YescryptWaits
<1>8. j' = LowWord(mem'[ActiveAt' + LastSub])
  BY <1>4, <1>6 DEF RowChosen
<1> QED
  BY <1>4, <1>7, <1>8, ChosenNext

(* The last row of all is mixed into the buffer X.                         *)
LEMMA SimdTailStep ==
  ASSUME PowInv, PowInv', RowChosen, job.yescrypt, job.simd, SimdTail
  PROVE  Abstract!Fill /\ RowChosen'
<1> USE DEF SimdTail
<1> DEFINE d == StageRows - 2 + half
           k0 == (j % nn) + d - nn
           to == IF half = 0 THEN VRow(StageRows - 1) ELSE XAt
           result == BlockmixXor(mem, VRow(StageRows - 2 + half),
                                 VRow((j % nn) + StageRows - 2 - nn + half), to)
<1>1. /\ stage \in {"sbox", "fill"} /\ half \in {0, 1} /\ i \in Nat /\ nn \in Nat \ {0}
      /\ StageRows \in Nat /\ StageRows >= 4 /\ StageRows % 2 = 0 /\ j \in Nat /\ SimdInv
  BY SimdSmix1Facts, Cells
<1>2. IsPower(nn) /\ nn <= StageRows - 2 /\ nn + i = StageRows - 1 /\ 2 * nn >= StageRows
  BY <1>1 DEF SimdInv, RowChosen
<1>3. d \in Nat /\ d >= 2 /\ d < StageRows /\ nn <= d /\ d < 2 * nn
  BY <1>1, <1>2
<1>4. /\ UNCHANGED <<job, stage, i, nn>> /\ pc = "tail" /\ half' = 1 - half
      /\ pc' = IF half = 0 THEN "tail" ELSE "store"
      /\ mem' = result.m /\ j' = LowWord(result.x)
  BY DEF MixTo
<1>5. result = BlockmixXor(mem, VRow(d), VRow(k0), to)
  <2> DEFINE q == j % nn
  <2>1. q \in Nat
    BY <1>1, Remainder
  <2> HIDE DEF q
  <2>2. q + d - nn = q + StageRows - 2 - nn + half
    BY <1>1, <2>1
  <2> HIDE DEF to
  <2> QED
    BY <2>2 DEF q
<1> HIDE DEF SimdTail, result, k0
<1>6. /\ Done = d /\ Done' = d + 1 /\ ActiveAt' = to
      /\ to = XAt \/ (to = VRow(d + 1) /\ d + 1 < StageRows)
  <2>1. Done = d
    <3>1. nn + i + half - 1 = d
      BY <1>1, <1>2
    <3> HIDE DEF d
    <3> QED
      BY <1>1, <1>4, <3>1 DEF Done, InSmix2
  <2>2. StageRows' = StageRows
    BY <1>4, RegionsStay
  <2>3. CASE half = 0
    <3>1. pc' = "tail" /\ d + 1 = StageRows - 1 /\ nn' + i' + half' - 1 = d + 1
      BY <1>1, <1>2, <1>4, <2>3
    <3>2. d + 1 < StageRows /\ to = VRow(d + 1)
      BY <1>1, <2>3, <3>1
    <3> HIDE DEF d, to
    <3>3. Done' = d + 1
      BY <1>1, <1>4, <3>1 DEF Done, InSmix2
    <3>4. ActiveAt' = VRow(Done')
      <4>1. InSmix1 /\ pc' \notin {"load", "store"}
        BY <1>1, <3>1 DEF InSmix1
      <4> QED
        BY <1>4, <4>1, SimdPlace
    <3> QED
      BY <2>1, <3>2, <3>3, <3>4
  <2>4. CASE half = 1
    <3>1. pc' = "store" /\ half' = 0 /\ to = XAt /\ d + 1 = StageRows
      BY <1>1, <1>4, <2>4
    <3>2. Done' = StageRows
      BY <2>2, <3>1 DEF Done
    <3>3. ActiveAt' = XAt
      BY <1>4, <3>1, RegionsStay DEF ActiveAt, From
    <3> QED
      BY <2>1, <3>1, <3>2, <3>3
  <2> QED
    BY <1>1, <2>3, <2>4
<1> HIDE DEF d, to
<1>7. Abstract!Fill /\ result.x = mem'[to + LastSub]
  <2>1. pc \in {"loop", "tail"} /\ pc' # "load" /\ k0 = (j % nn) + d - nn
    BY <1>4 DEF k0
  <2>2. /\ stage \in {"sbox", "fill"} /\ UNCHANGED <<job, stage>>
        /\ d \in Nat /\ Done = d /\ Done' = d + 1 /\ d >= 2 /\ d < StageRows
    BY <1>1, <1>3, <1>4, <1>6
  <2>3. IsPower(nn) /\ nn \in Nat \ {0} /\ nn <= d /\ d < 2 * nn
    BY <1>1, <1>2, <1>3
  <2>4. ActiveAt' = to /\ (to = XAt \/ (to = VRow(d + 1) /\ d + 1 < StageRows))
    BY <1>6
  <2>5. result = BlockmixXor(mem, VRow(d), VRow(k0), to) /\ mem' = result.m
    BY <1>4, <1>5
  <2> QED
    BY <2>1, <2>2, <2>3, <2>4, <2>5, SimdRowSteps
<1> QED
  BY <1>2, <1>4, <1>6, <1>7, ChosenNext

(* smix1 ends with X copied back to B: the phase of ROMix ends.            *)
LEMMA SimdSmix1StoreStep ==
  ASSUME PowInv, PowInv', job.yescrypt, job.simd, SimdSmix1Store
  PROVE  Abstract!EndPhase
<1> USE DEF SimdSmix1Store
<1>1. /\ stage \in {"sbox", "fill"} /\ ActiveAt = XAt /\ Done = StageRows
      /\ stage' = CASE stage = "sbox" -> "fill" [] stage = "fill" -> "mixrw"
                    [] stage = "mixrw" -> "mix" [] stage = "mix" -> "done"
  <2>1. stage \in {"sbox", "fill"} /\ half = 0
    BY SimdSmix1Facts DEF SimdInv
  <2>2. Done = StageRows /\ ActiveAt = XAt
    BY <2>1 DEF Done, ActiveAt, From
  <2>3. stage' = IF stage = "sbox" THEN "fill" ELSE "mixrw"
    BY DEF GoTo
  <2> QED
    BY <2>1, <2>2, <2>3
<1>2. /\ Done = Abstract!Steps /\ stage # "done" /\ pc # "load" /\ GoTo(stage')
      /\ mem' = CopyThrough(Unshuffle, mem, BAt, XAt, 2 * StageR)
  <2>1. job \in Jobs
    BY YescryptFacts
  <2>2. GoTo(stage')
    BY DEF GoTo
  <2> QED
    BY <1>1, <2>1, <2>2, StepsIs
<1> QED
  BY <1>1, <1>2, YescryptStores

(* smix2: the row is added, and takes the sum, on the way to the other     *)
(* buffer.                                                                 *)
LEMMA SimdSmix2LoopStep ==
  ASSUME PowInv, PowInv', RowChosen, job.yescrypt, job.simd, SimdSmix2Loop
  PROVE  Abstract!MixStep /\ RowChosen'
<1> USE DEF SimdSmix2Loop, NextHalf
<1> DEFINE n == 2 * R
           k0 == j % job.N
           result == IF RW THEN BlockmixXorSave(mem, From, VRow(k0), To)
                           ELSE BlockmixXor(mem, From, VRow(k0), To)
           in == XorBlock(Read(mem, From, n), Read(mem, VRow(k0), n))
<1>1. /\ stage \in {"mixrw", "mix"} /\ job \in Jobs /\ StageR = R
      /\ ActiveAt = From /\ ActiveAt' = To /\ Done < Nloop /\ Done' = Done + 1
      /\ RowsOwn = job.N
      /\ pc = "loop" /\ pc' = "loop" /\ UNCHANGED <<job, stage>>
  <2>1. /\ InSmix2 /\ pc = "loop" /\ (half = 0 => i > 0) /\ pc' = "loop" /\ i' = i - half
        /\ half' = 1 - half /\ UNCHANGED <<job, stage>>
    OBVIOUS
  <2> HIDE DEF SimdSmix2Loop, NextHalf
  <2> QED
    BY <2>1, Smix2Counts
<1>2. mem' = result.m /\ j' = LowWord(result.x)
  BY DEF MixTo
<1> HIDE DEF SimdSmix2Loop, NextHalf
<1>3. /\ Memory(mem) /\ n \in Nat \ {0} /\ job.N \in Nat \ {0} /\ Own(mem, From, n)
      /\ \A k \in 0 .. job.N - 1 : Own(mem, VRow(k), n)
  BY <1>1, YescryptFacts, Sizes
<1>4. /\ Apart(To, n, From, n) /\ Inside(To, n) /\ Inside(SAt, SSize) /\ Apart(To, n, SAt, SSize)
      /\ \A k \in 0 .. job.N - 1 :
           /\ Inside(VRow(k), n) /\ Apart(VRow(k), n, SAt, SSize)
           /\ Apart(From, n, VRow(k), n) /\ Apart(To, n, VRow(k), n)
           /\ \A l \in 0 .. job.N - 1 : k # l => Apart(VRow(k), n, VRow(l), n)
  BY <1>1, Smix2Apart
<1>5. k0 \in 0 .. job.N - 1 /\ k0 = Unshuffle[mem[ActiveAt + 2 * R - 1]] % job.N
  <2>1. ActiveAt + LastSub = ActiveAt + 2 * R - 1
    BY <1>1, <1>3 DEF Own, LastSub
  <2>2. j = Unshuffle[mem[ActiveAt + 2 * R - 1]]
    BY <1>1, <2>1 DEF RowChosen, LowWord
  <2>3. j \in Word
    BY DEF PowInv, CounterInv
  <2> QED
    BY <1>3, <2>2, <2>3, ChosenRow
<1> HIDE DEF k0
<1>6. /\ MixesTo(in, Read(mem', To, n)) /\ result.x = mem'[To + LastSub]
      /\ Read(mem', SAt, SSize) = Read(mem, SAt, SSize)
      /\ \A k \in 0 .. job.N - 1 :
           Read(mem', VRow(k), n) = IF RW /\ k = k0 THEN in ELSE Read(mem, VRow(k), n)
  <2>1. n = 2 * StageR
    BY <1>1
  <2>2. /\ Memory(mem) /\ Own(mem, From, n) /\ Own(mem, VRow(k0), n) /\ Inside(To, n)
        /\ Apart(To, n, From, n) /\ Apart(To, n, VRow(k0), n) /\ Apart(From, n, VRow(k0), n)
    BY <1>3, <1>4, <1>5
  <2> HIDE DEF n
  <2>3. CASE RW
    <3>1. result = BlockmixXorSave(mem, From, VRow(k0), To)
      BY <2>3
    <3> HIDE DEF result, in
    <3>2. in = XorBlock(Read(mem, From, n), Read(mem, VRow(k0), n))
      BY DEF in
    <3>3. /\ MixesTo(in, Read(mem', To, n)) /\ result.x = mem'[To + LastSub]
          /\ Read(mem', VRow(k0), n) = in
          /\ \A at, k : Inside(at, k) /\ Apart(To, n, at, k) /\ Apart(VRow(k0), n, at, k)
                        => Read(mem', at, k) = Read(mem, at, k)
      BY <1>2, <2>1, <2>2, <3>1, <3>2, BlockmixXorSaveComputes
    <3> QED
      BY <1>4, <1>5, <2>3, <3>3
  <2>4. CASE ~ RW
    <3>1. result = BlockmixXor(mem, From, VRow(k0), To)
      BY <2>4
    <3> HIDE DEF result, in
    <3>2. in = XorBlock(Read(mem, From, n), Read(mem, VRow(k0), n))
      BY DEF in
    <3>3. /\ MixesTo(in, Read(mem', To, n)) /\ result.x = mem'[To + LastSub]
          /\ \A at, k : Inside(at, k) /\ Apart(To, n, at, k)
                        => Read(mem', at, k) = Read(mem, at, k)
      BY <1>2, <2>1, <2>2, <3>1, <3>2, BlockmixXorComputes
    <3> QED
      BY <1>4, <1>5, <2>4, <3>3
  <2> QED
    BY <2>3, <2>4
<1> HIDE DEF result
<1>7. in = XorBlock(Read(mem, ActiveAt, 2 * R), Read(mem, VRow(k0), 2 * R))
  BY <1>1
<1> HIDE DEF in
<1>8. /\ MixesTo(in, Read(mem', ActiveAt', 2 * R))
      /\ \A k \in 0 .. job.N - 1 :
           Read(mem', VRow(k), 2 * R) = IF stage = "mixrw" /\ k = k0 THEN in
                                        ELSE Read(mem, VRow(k), 2 * R)
  BY <1>1, <1>6 DEF RW
<1>9. Abstract!MixStep
  <2>1. pc # "load" /\ pc' # "load"
    BY <1>1
  <2> QED
    BY <1>1, <1>5, <1>6, <1>7, <1>8, <2>1, YescryptMixStep
<1>10. RowChosen'
  <2>1. j' = LowWord(mem'[ActiveAt' + LastSub]) /\ pc' # "tail"
    BY <1>1, <1>2, <1>6
  <2> QED
    BY <1>1, <2>1, ChosenNext
<1> QED
  BY <1>9, <1>10

(* Every step of the build with SSE2 is a step of ROMix, or none.          *)
LEMMA SimdSteps ==
  ASSUME PowInv, PowInv', RowChosen, SimdNext
  PROVE  (Abstract!ROMixNext \/ UNCHANGED Abstract!romixVars) /\ RowChosen'
<1>0. job.yescrypt /\ job.simd
  BY DEF SimdNext
<1>1. CASE SimdLoad
  <2>1. /\ InSmix1 /\ pc = "load" /\ pc' = "first" /\ UNCHANGED <<job, stage>>
        /\ mem' = CopyThrough(Shuffle, mem, VRow(0), BAt, 2 * StageR)
    BY <1>1 DEF SimdLoad
  <2>2. RowChosen'
    BY <2>1 DEF RowChosen
  <2> QED
    BY <1>0, <2>1, <2>2, Smix1LoadStutters
<1>2. CASE SimdFirst
  BY <1>0, <1>2, SimdFirstStep DEF Abstract!ROMixNext
<1>3. CASE SimdSecond
  BY <1>0, <1>3, SimdSecondStep DEF Abstract!ROMixNext
<1>4. CASE SimdLoop
  BY <1>0, <1>4, SimdLoopStep DEF Abstract!ROMixNext
<1>5. CASE SimdDouble
  BY <1>0, <1>5, SimdDoubleWaits
<1>6. CASE SimdTail
  BY <1>0, <1>6, SimdTailStep DEF Abstract!ROMixNext
<1>7. ASSUME pc' = "load" PROVE RowChosen'
  BY <1>7 DEF RowChosen
<1>8. CASE SimdSmix1Store
  <2>1. pc' = "load"
    BY <1>8 DEF SimdSmix1Store, GoTo
  <2> QED
    BY <1>0, <1>7, <1>8, <2>1, SimdSmix1StoreStep DEF Abstract!ROMixNext
<1>9. CASE SimdSmix2Nothing
  <2>1. InSmix2 /\ pc = "load" /\ Nloop = 0 /\ GoTo(AfterSmix2) /\ UNCHANGED mem
    BY <1>9 DEF SimdSmix2Nothing
  <2>2. pc' = "load"
    BY <2>1 DEF GoTo
  <2> QED
    BY <1>0, <1>7, <2>1, <2>2, YescryptSkips DEF Abstract!ROMixNext
<1>10. CASE SimdSmix2Load
  <2>1. /\ InSmix2 /\ pc = "load" /\ pc' = "loop" /\ i' = Nloop \div 2
        /\ UNCHANGED <<job, stage, half>>
        /\ mem' = CopyThrough(Shuffle, mem, XAt, BAt, 2 * R)
        /\ j' = LowWord(mem'[XAt + LastSub])
    BY <1>10 DEF SimdSmix2Load
  <2>2. UNCHANGED Abstract!romixVars
    BY <1>0, <2>1, Smix2LoadStutters
  <2>3. ActiveAt' = XAt
    <3>1. stage \in {"mixrw", "mix"} /\ half = 0
      BY <2>1 DEF InSmix2, PowInv, CounterInv, Smix2Inv
    <3> QED
      BY <2>1, <3>1, RegionsStay DEF ActiveAt, From, InSmix1
  <2>4. j' = LowWord(mem'[ActiveAt' + LastSub]) /\ pc' # "tail" /\ UNCHANGED <<job, stage>>
    BY <2>1, <2>3
  <2>5. RowChosen'
    BY <2>4, ChosenNext
  <2> QED
    BY <2>2, <2>5
<1>11. CASE SimdSmix2Loop
  BY <1>0, <1>11, SimdSmix2LoopStep DEF Abstract!ROMixNext
<1>12. CASE SimdSmix2Store
  <2>1. /\ InSmix2 /\ pc = "loop" /\ half = 0 /\ i = 0
        /\ mem' = CopyThrough(Unshuffle, mem, BAt, XAt, 2 * R) /\ GoTo(AfterSmix2)
    BY <1>12 DEF SimdSmix2Store
  <2>2. pc' = "load"
    BY <2>1 DEF GoTo
  <2> QED
    BY <1>0, <1>7, <2>1, <2>2, Smix2StoreStep DEF Abstract!ROMixNext
<1> QED
  BY <1>1, <1>2, <1>3, <1>4, <1>5, <1>6, <1>8, <1>9, <1>10, <1>11, <1>12 DEF SimdNext

-----------------------------------------------------------------------------
(* The refinement.                                                         *)

(* A stutter of yescrypt is one of the specification.                      *)
LEMMA YescryptStutters ==
  ASSUME PowInv, PowInv', job.yescrypt, UNCHANGED vars
  PROVE  UNCHANGED Abstract!romixVars
<1>1. UNCHANGED <<job, mem, stage, pc, i, half, nn, j>>
  BY DEF vars
<1>2. /\ XAt' = XAt /\ YAt(StageR)' = YAt(StageR) /\ StageRows' = StageRows /\ Nloop' = Nloop
      /\ InSmix1' = InSmix1 /\ InSmix2' = InSmix2
  BY <1>1, RegionsStay DEF InSmix1, InSmix2
<1>3. Done' = Done
  BY <1>1, <1>2 DEF Done
<1>4. ActiveAt' = ActiveAt
  <2>1. VRow(Done)' = VRow(Done)
    BY <1>1, <1>3, RegionsStay DEF VRow, StageR, SAt, VAt, BSize, VSize, XYSize, R
  <2> QED
    BY <1>1, <1>2, <2>1 DEF ActiveAt, From
<1> QED
  BY <1>1, <1>3, <1>4, YescryptWaits

(* So RowChosen holds in every state, of whatever program.                 *)
LEMMA RowChosenStays ==
  ASSUME PowInv, PowInv', RowChosen, [PowNext]_vars
  PROVE  RowChosen'
<1>1. CASE SimdNext
  BY <1>1, SimdSteps
<1>2. CASE ScryptNext \/ YescryptNext
  <2>1. UNCHANGED job
    BY <1>2 DEF ScryptNext, ScryptLoad, ScryptFill, ScryptEndFill, ScryptMix, ScryptStore,
                YescryptNext, Smix1Load, Smix1First, Smix1Second, Smix1Loop, Smix1Store,
                Smix2Nothing, Smix2Load, Smix2Loop, Smix2Store, NextHalf, GoTo
  <2>2. ~ job.simd
    <3>1. job \in Jobs
      BY DEF PowInv, CounterInv
    <3> QED
      BY <1>2, <3>1, Sizes DEF ScryptNext, YescryptNext
  <2> QED
    BY <2>1, <2>2 DEF RowChosen
<1>3. CASE UNCHANGED vars
  <2>1. UNCHANGED <<job, mem, stage, pc, i, half, nn, j>>
    BY <1>3 DEF vars
  <2>2. ASSUME job.simd PROVE RowChosen'
    <3>1. job.yescrypt
      <4>1. job \in Jobs
        BY DEF PowInv, CounterInv
      <4> QED
        BY <2>2, <4>1, Sizes
    <3>2. /\ XAt' = XAt /\ YAt(StageR)' = YAt(StageR) /\ StageRows' = StageRows /\ Nloop' = Nloop
          /\ InSmix1' = InSmix1 /\ InSmix2' = InSmix2
      BY <2>1, RegionsStay DEF InSmix1, InSmix2
    <3>3. Done' = Done
      BY <2>1, <3>2 DEF Done
    <3>4. ActiveAt' = ActiveAt
      <4>1. VRow(Done)' = VRow(Done)
        BY <2>1, <3>3, RegionsStay DEF VRow, StageR, SAt, VAt, BSize, VSize, XYSize, R
      <4> QED
        BY <2>1, <3>2, <4>1 DEF ActiveAt, From
    <3> QED
      BY <2>1, <3>2, <3>4, RegionsStay DEF RowChosen, LowWord, LastSub
  <2>3. ASSUME ~ job.simd PROVE RowChosen'
    BY <2>1, <2>3 DEF RowChosen
  <2> QED
    BY <2>2, <2>3
<1> QED
  BY <1>1, <1>2, <1>3 DEF PowNext

(* Every step of yescrypt, in either build.                                *)
LEMMA YescryptAllSteps ==
  ASSUME PowInv, PowInv', RowChosen, job.yescrypt, [PowNext]_vars
  PROVE  [Abstract!ROMixNext]_(Abstract!romixVars)
<1>1. CASE YescryptNext
  BY <1>1, YescryptSteps
<1>2. CASE SimdNext
  BY <1>2, SimdSteps
<1>3. CASE UNCHANGED vars
  BY <1>3, YescryptStutters
<1>4. ~ ScryptNext
  BY DEF ScryptNext
<1> QED
  BY <1>1, <1>2, <1>3, <1>4 DEF PowNext

(* The mixing begins with a block and no table, and no row is chosen yet.  *)
LEMMA YescryptBegins ==
  ASSUME ScratchpadInit, job.yescrypt
  PROVE  Abstract!ROMixInit
<1>1. PowInv
  BY PowInvInit
<1>2. job \in Jobs /\ stage = "sbox" /\ pc = "load" /\ R \in Nat \ {0}
  BY Sizes DEF ScratchpadInit
<1>3. /\ SBoxTable = << >> /\ Block = Read(mem, BAt, 2 * R) /\ Done = 0
      /\ Table = [k \in 0 .. 0 - 1 |-> Unpermuted(mem, VRow(k), 2 * StageR)]
  <2>1. Done = 0
    BY <1>2 DEF Done
  <2> QED
    BY <1>1, <1>2, <2>1, YescryptViewHolds DEF YescryptView
<1>4. Table = << >>
  <2>1. 0 - 1 = -1
    OBVIOUS
  <2> QED
    BY <1>3, <2>1, EmptyTable
<1>5. Block \in [0 .. 2 * R - 1 -> Word]
  <2>1. Own(mem, BAt, 2 * R)
    BY <1>1 DEF PowInv, OwnInv
  <2>2. \A k \in 0 .. 2 * R - 1 : BAt + k \in BAt .. BAt + 2 * R - 1
    BY <2>1 DEF Own
  <2> QED
    BY <1>3, <2>1, <2>2 DEF Own, Read
<1>6. Block \in [0 .. 2 * job.r - 1 -> Abstract!Word]
  BY <1>5, AbstractSame DEF R
<1> QED
  BY <1>2, <1>3, <1>4, <1>6 DEF Abstract!ROMixInit

(* Every program computes what ROMix defines: scrypt the mixing of         *)
(* RFC 7914, and both builds of yescrypt, which swap buffers, keep the     *)
(* block in the table, permute it, take the S-box from the same memory and *)
(* save rows while they are read, the mixing with an S-box and write-back; *)
(* for any r, even N and number of S-box rows, core and block.             *)
THEOREM PowImplementsROMix == PowSpec => ImplementsROMix
<1>1. ScratchpadInit => Abstract!ROMixInit /\ RowChosen
  <2>1. ScratchpadInit => Abstract!ROMixInit
    BY ScryptBegins, YescryptBegins
  <2>2. ScratchpadInit => RowChosen
    BY DEF ScratchpadInit, RowChosen
  <2> QED
    BY <2>1, <2>2
<1>2. PowInv /\ PowInv' /\ RowChosen /\ [PowNext]_vars
        => RowChosen' /\ [Abstract!ROMixNext]_(Abstract!romixVars)
  <2>1. PowInv /\ PowInv' /\ RowChosen /\ [PowNext]_vars => RowChosen'
    BY RowChosenStays
  <2>2. PowInv /\ PowInv' /\ RowChosen /\ [PowNext]_vars
          => [Abstract!ROMixNext]_(Abstract!romixVars)
    BY ScryptSteps, YescryptAllSteps
  <2> QED
    BY <2>1, <2>2
<1>3. PowSpec => Abstract!ROMixInit /\ [][Abstract!ROMixNext]_(Abstract!romixVars)
  BY <1>1, <1>2, PowInvariant, PTL DEF PowSpec
<1> QED
  BY <1>3 DEF ImplementsROMix, Abstract!ROMixSpec
=============================================================================
