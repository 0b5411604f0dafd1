------------------------------ MODULE SimdSmix ------------------------------
(***************************************************************************)
(* smix of algos/yescrypt/yescrypt-simd_c.h, which a build with SSE2 uses  *)
(* in place of yescrypt-opt_c.h (yescrypt-best_c.h), called in the same    *)
(* way: p = 1, t = 0, no ROM, YESCRYPT_RW and YESCRYPT_PWXFORM.  smix1     *)
(* mixes from one row of V straight into the next and copies nothing; the  *)
(* XOR with V_j, and in smix2 its write-back, are done sub-block by        *)
(* sub-block inside the mixing, which returns the word that chooses the    *)
(* next row.                                                               *)
(***************************************************************************)
EXTENDS YescryptSmix

(* A mixing: the memory and the registers X0 .. X3.  The sub-block k is    *)
(* absorbed as `in`.  Without an S-box (S = NULL) the even ones go to the  *)
(* first half of the output; with one the last is hashed once more.        *)
Hash(x, k) ==
    IF stage = "sbox" THEN Lift(ShuffledCore, x)
    ELSE LET y == Pwxform([a \in 1 .. SSize |-> mem[SAt + a - 1]], x)
         IN  IF k = 2 * R - 1 THEN Lift(ShuffledCore, y) ELSE y

Slot(k) == IF stage = "sbox" THEN (k \div 2) + StageR * (k % 2) ELSE k

Absorb(s, k, in, Bout) ==
    LET x == Hash(XorCell(s.x, in), k)
    IN  [m |-> [s.m EXCEPT ![Bout + Slot(k)] = x], x |-> x]

LastSub == 2 * StageR - 1

SimdBlockmix(m, Bin, Bout) ==
    LET after[k \in 0 .. 2 * StageR] ==
            IF k = 0 THEN [m |-> m, x |-> m[Bin + LastSub]]
            ELSE LET s == after[k - 1]
                 IN  Absorb(s, k - 1, s.m[Bin + k - 1], Bout)
    IN  after[2 * StageR]

BlockmixXor(m, Bin1, Bin2, Bout) ==
    LET after[k \in 0 .. 2 * StageR] ==
            IF k = 0 THEN [m |-> m, x |-> XorCell(m[Bin1 + LastSub], m[Bin2 + LastSub])]
            ELSE LET s == after[k - 1]
                     y == XorCell(s.m[Bin1 + k - 1], s.m[Bin2 + k - 1])
                 IN  Absorb(s, k - 1, y, Bout)
    IN  after[2 * StageR]

(* Mutant of BlockmixXorSave: the last sub-block of V_j is updated before  *)
(* it goes to the registers.                                               *)
BlockmixXorSaveFirst(m, Bin1, Bin2, Bout) ==
    LET last == XorCell(m[Bin1 + LastSub], m[Bin2 + LastSub])
        after[k \in 0 .. 2 * StageR] ==
            IF k = 0 THEN [m |-> [m EXCEPT ![Bin2 + LastSub] = last], x |-> last]
            ELSE LET s == after[k - 1]
                     y == XorCell(s.m[Bin1 + k - 1], s.m[Bin2 + k - 1])
                 IN  Absorb([s EXCEPT !.m[Bin2 + k - 1] = y], k - 1, y, Bout)
    IN  after[2 * StageR]

(* V_j <-- Xprev xor V_j on the way.                                       *)
BlockmixXorSave(m, Bin1, Bin2, Bout) ==
    LET after[k \in 0 .. 2 * StageR] ==
            IF k = 0 THEN [m |-> m, x |-> XorCell(m[Bin1 + LastSub], m[Bin2 + LastSub])]
            ELSE LET s == after[k - 1]
                     y == XorCell(s.m[Bin1 + k - 1], s.m[Bin2 + k - 1])
                 IN  Absorb([s EXCEPT !.m[Bin2 + k - 1] = y], k - 1, y, Bout)
    IN  after[2 * StageR]

(* The first word of the registers, or of the last sub-block: 32 bits      *)
(* alone, enough for any N.                                                *)
LowWord(cell) == Unshuffle[cell]

(* The steps of smix1 and smix2: mem and j <-- the result of a mixing.     *)
MixTo(result) ==
    /\ mem' = result.m
    /\ j' = LowWord(result.x)

-----------------------------------------------------------------------------
(* smix1.  In the loop over n the row n + i comes from the one before it.  *)

(* X <-- B, in the first row of V.                                         *)
SimdLoad ==
    /\ InSmix1 /\ pc = "load"
    /\ mem' = CopyThrough(Shuffle, mem, VRow(0), BAt, 2 * StageR)
    /\ pc' = "first"
    /\ UNCHANGED <<job, stage, i, half, nn, j>>

SimdFirst ==
    /\ InSmix1 /\ pc = "first"
    /\ mem' = SimdBlockmix(mem, VRow(0), VRow(1)).m
    /\ pc' = "second"
    /\ UNCHANGED <<job, stage, i, half, nn, j>>

SimdSecond ==
    /\ InSmix1 /\ pc = "second"
    /\ MixTo(SimdBlockmix(mem, VRow(1), VRow(2)))
    /\ pc' = "loop"
    /\ nn' = 2 /\ i' = 1
    /\ UNCHANGED <<job, stage, half>>

(* m of the loop over i: in the last round it stops two rows short of N.   *)
RowsOfRound == IF nn < StageRows \div 2 THEN nn ELSE StageRows - 1 - nn

(* Mutant of SimdLoop: the second half wraps as the first does.            *)
SimdLoopSameRow ==
    /\ InSmix1 /\ pc = "loop"
    /\ half = 0 => i < RowsOfRound
    /\ LET row == nn + i + half
       IN  MixTo(BlockmixXor(mem, VRow(row - 1), VRow((j % nn) + i - 1), VRow(row)))
    /\ i' = i + 2 * half
    /\ NextHalf /\ UNCHANGED nn

(* j <-- Wrap(j, i), V[n + i] <-- H(V[n + i - 1] xor V_j)                  *)
SimdLoop ==
    /\ InSmix1 /\ pc = "loop"
    /\ half = 0 => i < RowsOfRound
    /\ LET row == nn + i + half
           wrapped == (j % nn) + i - 1 + half
       IN  MixTo(BlockmixXor(mem, VRow(row - 1), VRow(wrapped), VRow(row)))
    /\ i' = i + 2 * half
    /\ NextHalf /\ UNCHANGED nn

(* n <<= 1; when it reaches N the loop ends and n >>= 1 takes it back.     *)
SimdDouble ==
    /\ InSmix1 /\ pc = "loop" /\ half = 0 /\ i >= RowsOfRound
    /\ IF 2 * nn < StageRows
       THEN nn' = 2 * nn /\ i' = 1 /\ UNCHANGED pc
       ELSE pc' = "tail" /\ UNCHANGED <<nn, i>>
    /\ UNCHANGED <<job, mem, stage, half, j>>

(* The last row, and then X, from which XY takes over.                     *)
SimdTail ==
    /\ InSmix1 /\ pc = "tail"
    /\ LET wrapped == (j % nn) + StageRows - 2 - nn + half
       IN  MixTo(BlockmixXor(mem, VRow(StageRows - 2 + half), VRow(wrapped),
                             IF half = 0 THEN VRow(StageRows - 1) ELSE XAt))
    /\ half' = 1 - half
    /\ pc' = IF half = 0 THEN "tail" ELSE "store"
    /\ UNCHANGED <<job, stage, i, nn>>

(* B' <-- X, and the next call of smix.                                    *)
SimdSmix1Store ==
    /\ InSmix1 /\ pc = "store"
    /\ mem' = CopyThrough(Unshuffle, mem, BAt, XAt, 2 * StageR)
    /\ GoTo(IF stage = "sbox" THEN "fill" ELSE "mixrw")

-----------------------------------------------------------------------------
(* smix2.                                                                  *)

SimdSmix2Nothing ==
    /\ InSmix2 /\ pc = "load" /\ Nloop = 0
    /\ GoTo(AfterSmix2)
    /\ UNCHANGED mem

SimdSmix2Load ==
    /\ InSmix2 /\ pc = "load" /\ Nloop > 0
    /\ mem' = CopyThrough(Shuffle, mem, XAt, BAt, 2 * R)
    /\ j' = LowWord(mem'[XAt + LastSub])
    /\ pc' = "loop"
    /\ i' = Nloop \div 2
    /\ UNCHANGED <<job, stage, half, nn>>

(* do { Y <-- H(X xor V_j), X <-- H(Y xor V_j) } while (--i)               *)
SimdSmix2Loop ==
    /\ InSmix2 /\ pc = "loop"
    /\ half = 0 => i > 0
    /\ LET row == VRow(j % job.N)
       IN  MixTo(IF RW THEN BlockmixXorSave(mem, From, row, To)
                       ELSE BlockmixXor(mem, From, row, To))
    /\ i' = i - half
    /\ NextHalf /\ UNCHANGED nn

SimdSmix2Store ==
    /\ InSmix2 /\ pc = "loop" /\ half = 0 /\ i = 0
    /\ mem' = CopyThrough(Unshuffle, mem, BAt, XAt, 2 * R)
    /\ GoTo(AfterSmix2)

SimdNext ==
    /\ job.yescrypt /\ job.simd
    /\ \/ SimdLoad \/ SimdFirst \/ SimdSecond \/ SimdLoop \/ SimdDouble
       \/ SimdTail \/ SimdSmix1Store
       \/ SimdSmix2Nothing \/ SimdSmix2Load \/ SimdSmix2Loop \/ SimdSmix2Store
=============================================================================
