------------------------------ MODULE BlockMix ------------------------------
(***************************************************************************)
(* The arithmetic under the two memory-hard functions, scaled down: a      *)
(* sub-block of 64 bytes is a word of Bits bits, a block is 2r of them,    *)
(* numbered from 0.  The Salsa20/8 core is any function of words, given by *)
(* a table, and the permutation that yescrypt applies to the sixteen words *)
(* of a sub-block is a rotation of the bits.  Reading memory that nothing  *)
(* has written gives Junk, and whatever is computed from Junk is Junk.     *)
(***************************************************************************)
EXTENDS Integers, Sequences

CONSTANTS
    Bits,            \* bits of a sub-block
    Rounds,          \* S_ROUNDS, 6 in the code
    XorWord(_, _)    \* the operator ^ of C

(* The powers of two.                                                      *)
Power2[k \in Nat] == IF k = 0 THEN 1 ELSE 2 * Power2[k - 1]

Word == 0 .. Power2[Bits] - 1
Junk == Power2[Bits]
Cell == Word \union {Junk}

ASSUME BlockMixSizes == Bits \in Nat \ {0} /\ Rounds \in Nat \ {0}
ASSUME XorOfWords == \A a, b \in Word : XorWord(a, b) \in Word

XorCell(a, b) == IF Junk \in {a, b} THEN Junk ELSE XorWord(a, b)
XorBlock(a, b) == [k \in DOMAIN a |-> XorCell(a[k], b[k])]

(* Applying a table of words to a cell.                                    *)
Lift(f, a) == IF a = Junk THEN Junk ELSE f[a]

(* salsa20_simd_shuffle and its inverse.                                   *)
Shuffle == [a \in Word |-> ((2 * a) % Power2[Bits]) + ((2 * a) \div Power2[Bits])]
Unshuffle == [a \in Word |-> (a \div 2) + (a % 2) * Power2[Bits - 1]]

(* The permutation moves the words of a sub-block, and the operator ^ of C *)
(* works on each word by itself.                                           *)
ASSUME ShuffleOfXor ==
    \A a, b \in Word : XorWord(Shuffle[a], Shuffle[b]) = Shuffle[XorWord(a, b)]

(* The largest power of two that is not greater than a positive number.    *)
P2floor(n) == CHOOSE p \in {Power2[k] : k \in 0 .. n} : p <= n /\ n < 2 * p

-----------------------------------------------------------------------------
(* The pwxform of a sub-block: every round multiplies the halves of the    *)
(* word, adds an entry of S0 chosen by its low bits and combines one of S1 *)
(* chosen by its high bits; S0 and S1 are the halves of the table S.       *)

PwxRound(S, a) ==
    LET half == Len(S) \div 2
        p0 == S[(a % half) + 1]
        p1 == S[half + ((a \div 2) % half) + 1]
        product == (a \div 2) * (a % 2)
    IN  IF Junk \in {a, p0, p1} THEN Junk
        ELSE XorWord((product + p0) % Power2[Bits], p1)

Pwxform(S, a) ==
    LET after[k \in 0 .. Rounds] == IF k = 0 THEN a ELSE PwxRound(S, after[k - 1])
    IN  after[Rounds]

-----------------------------------------------------------------------------
(* The reference: BlockMix as RFC 7914 defines it, and its variant over    *)
(* pwxform, as functions from blocks to blocks.                            *)

SpecBlockMix(H, b, r) ==
    LET Y[k \in 0 .. 2 * r - 1] ==
            Lift(H, XorCell(IF k = 0 THEN b[2 * r - 1] ELSE Y[k - 1], b[k]))
    IN  [k \in 0 .. 2 * r - 1 |-> IF k < r THEN Y[2 * k] ELSE Y[2 * (k - r) + 1]]

SpecBlockMixPwx(H, P(_), b, r) ==
    LET Y[k \in 0 .. 2 * r - 1] ==
            P(XorCell(IF k = 0 THEN b[2 * r - 1] ELSE Y[k - 1], b[k]))
    IN  [k \in 0 .. 2 * r - 1 |-> IF k = 2 * r - 1 THEN Lift(H, Y[k]) ELSE Y[k]]

-----------------------------------------------------------------------------
(* The code, which reads and writes cells of one memory m.                 *)

Read(m, at, n) == [k \in 0 .. n - 1 |-> m[at + k]]

(* blkcpy and blkxor of n sub-blocks.                                      *)
Copy(m, to, from, n) ==
    [a \in DOMAIN m |-> IF a \in to .. to + n - 1 THEN m[from + a - to] ELSE m[a]]
XorInto(m, to, from, n) ==
    [a \in DOMAIN m |->
        IF a \in to .. to + n - 1 THEN XorCell(m[a], m[from + a - to]) ELSE m[a]]

(* The permutations, applied while a block is copied.                      *)
CopyThrough(f, m, to, from, n) ==
    [a \in DOMAIN m |->
        IF a \in to .. to + n - 1 THEN Lift(f, m[from + a - to]) ELSE m[a]]

(* X takes the last sub-block, then two sub-blocks at a time go through    *)
(* it: the even ones to the first half of the output, the odd ones to the  *)
(* second.                                                                 *)
BlockmixSalsa8(core, m, Bin, Bout, X, r) ==
    LET Absorb(mm, k) == [mm EXCEPT ![X] = Lift(core, XorCell(mm[X], mm[Bin + k]))]
        Emit(mm, k) == [mm EXCEPT ![Bout + k] = mm[X]]
        Pair(mm, k) == Emit(Absorb(Emit(Absorb(mm, 2 * k), k), 2 * k + 1), k + r)
        after[k \in 0 .. r] == IF k = 0 THEN [m EXCEPT ![X] = m[Bin + 2 * r - 1]]
                                       ELSE Pair(after[k - 1], k - 1)
    IN  after[r]

(* The chain is computed in the output itself, and the last sub-block is   *)
(* hashed at the end (blocks of pwxform have the size of sub-blocks).      *)
BlockmixPwxform(core, m, Bin, Bout, S, Ssize, r) ==
    LET table == [k \in 1 .. Ssize |-> m[S + k - 1]]
        last == Bout + 2 * r - 1
        first == [m EXCEPT ![Bout] = Pwxform(table, XorCell(m[Bin + 2 * r - 1], m[Bin]))]
        Step(mm, k) ==
            [mm EXCEPT ![Bout + k] =
                Pwxform(table, XorCell(mm[Bout + k - 1], mm[Bin + k]))]
        chain[k \in 0 .. 2 * r - 1] == IF k = 0 THEN first ELSE Step(chain[k - 1], k)
    IN  [chain[2 * r - 1] EXCEPT ![last] = Lift(core, @)]
=============================================================================
