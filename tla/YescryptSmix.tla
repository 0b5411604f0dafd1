---------------------------- MODULE YescryptSmix ----------------------------
(***************************************************************************)
(* smix of algos/yescrypt/yescrypt-opt_c.h, with smix1 and smix2, as       *)
(* yescrypt_bitzeny calls it in a build without SSE2: p = 1, t = 0, no     *)
(* ROM, and the flags YESCRYPT_RW and YESCRYPT_PWXFORM.  It calls smix1 on *)
(* the S-box, smix1 on V, smix2 with write-back, and smix2 without.  The   *)
(* block is permuted when it is loaded and back when it is stored, and the *)
(* core undoes the permutation around its rounds.                          *)
(***************************************************************************)
EXTENDS Scratchpad

(* salsa20_8: unshuffle, the rounds, shuffle.                              *)
ShuffledCore == [a \in Word |-> Shuffle[job.core[Unshuffle[a]]]]

BlockmixOf(m, Bin, Bout) ==
    IF stage = "sbox"
    THEN BlockmixSalsa8(ShuffledCore, m, Bin, Bout, ZAt(1), 1)
    ELSE BlockmixPwxform(ShuffledCore, m, Bin, Bout, SAt, SSize, R)

(* The last sub-block read as a number: the words it takes are where the   *)
(* permutation has put the first two.                                      *)
Integerify(m, at) == Unshuffle[m[at + 2 * StageR - 1]]

RW == stage # "mix"

(* The even bounds of the loops of smix2 (p = 1 and t = 0 in smix).        *)
Even(k) == k - (k % 2)
NloopAll == Even(((job.N + 2) \div 3) + 1)
NloopRw == Even((job.N + 2) \div 3)
Nloop == IF stage = "mixrw" THEN NloopRw ELSE NloopAll - NloopRw

-----------------------------------------------------------------------------
(* smix1                                                                   *)

InSmix1 == stage \in {"sbox", "fill"} /\ job.yescrypt

(* B goes, permuted, to the first row of V, which is X for one step.       *)
Smix1Load ==
    /\ InSmix1 /\ pc = "load"
    /\ mem' = CopyThrough(Shuffle, mem, VRow(0), BAt, 2 * StageR)
    /\ pc' = "first"
    /\ UNCHANGED <<job, stage, i, half, nn, j>>

Smix1First ==
    /\ InSmix1 /\ pc = "first"
    /\ mem' = BlockmixOf(mem, VRow(0), YAt(StageR))
    /\ pc' = "second"
    /\ half' = 1
    /\ UNCHANGED <<job, stage, i, nn, j>>

(* X = XY from here on.                                                    *)
Smix1Second ==
    /\ InSmix1 /\ pc = "second"
    /\ mem' = BlockmixOf(Copy(mem, VRow(1), YAt(StageR), 2 * StageR),
                         YAt(StageR), XAt)
    /\ pc' = "loop"
    /\ i' = 2 /\ half' = 0 /\ nn' = 1
    /\ UNCHANGED <<job, stage, j>>

(* Mutant of Smix1Loop: n is doubled too late.                             *)
Smix1LoopLate ==
    /\ InSmix1 /\ pc = "loop"
    /\ half = 0 => i < StageRows
    /\ nn' = IF half = 1 /\ i = P2floor(i) THEN 2 * nn ELSE nn
    /\ LET filled == Copy(mem, VRow(i + half), From, 2 * StageR)
           row == VRow((Integerify(filled, From) % nn') + i + half - nn')
       IN  mem' = BlockmixOf(XorInto(filled, From, row, 2 * StageR), From, To)
    /\ i' = i + 2 * half
    /\ NextHalf /\ UNCHANGED j

(* V_i <-- X, j <-- Wrap(Integerify(X), i), X <-- H(X xor V_j).  RW is set *)
(* in the flags of both calls.                                             *)
Smix1Loop ==
    /\ InSmix1 /\ pc = "loop"
    /\ half = 0 => i < StageRows
    /\ nn' = IF half = 0 /\ i = P2floor(i) THEN 2 * nn ELSE nn
    /\ LET filled == Copy(mem, VRow(i + half), From, 2 * StageR)
           row == VRow((Integerify(filled, From) % nn') + i + half - nn')
       IN  mem' = BlockmixOf(XorInto(filled, From, row, 2 * StageR), From, To)
    /\ i' = i + 2 * half
    /\ NextHalf /\ UNCHANGED j

(* B' <-- X, and the next call of smix.                                    *)
Smix1Store ==
    /\ InSmix1 /\ pc = "loop" /\ half = 0 /\ i >= StageRows
    /\ mem' = CopyThrough(Unshuffle, mem, BAt, XAt, 2 * StageR)
    /\ GoTo(IF stage = "sbox" THEN "fill" ELSE "mixrw")

-----------------------------------------------------------------------------
(* smix2.  Its loop counts down, and is only entered when there is a step  *)
(* to do.                                                                  *)

InSmix2 == stage \in {"mixrw", "mix"} /\ job.yescrypt

AfterSmix2 == IF stage = "mixrw" THEN "mix" ELSE "done"

(* if (Nloop == 0) return, and if (Nloop_all > Nloop_rw) in smix.          *)
Smix2Nothing ==
    /\ InSmix2 /\ pc = "load" /\ Nloop = 0
    /\ GoTo(AfterSmix2)
    /\ UNCHANGED mem

Smix2Load ==
    /\ InSmix2 /\ pc = "load" /\ Nloop > 0
    /\ mem' = CopyThrough(Shuffle, mem, XAt, BAt, 2 * R)
    /\ pc' = "loop"
    /\ i' = Nloop \div 2
    /\ UNCHANGED <<job, stage, half, nn, j>>

(* Mutant of Smix2Loop: the row is written back after the mixing.          *)
Smix2LoopLate ==
    /\ InSmix2 /\ pc = "loop"
    /\ half = 0 => i > 0
    /\ LET row == VRow(Integerify(mem, From) % job.N)
           added == BlockmixOf(XorInto(mem, From, row, 2 * R), From, To)
       IN  mem' = IF RW THEN Copy(added, row, To, 2 * R) ELSE added
    /\ i' = i - half
    /\ NextHalf /\ UNCHANGED <<nn, j>>

(* j <-- Integerify(X) mod N, X <-- X xor V_j, V_j <-- X, X <-- H(X).      *)
Smix2Loop ==
    /\ InSmix2 /\ pc = "loop"
    /\ half = 0 => i > 0
    /\ LET row == VRow(Integerify(mem, From) % job.N)
           added == XorInto(mem, From, row, 2 * R)
           kept == IF RW THEN Copy(added, row, From, 2 * R) ELSE added
       IN  mem' = BlockmixOf(kept, From, To)
    /\ i' = i - half
    /\ NextHalf /\ UNCHANGED <<nn, j>>

(* 10: B' <-- X                                                            *)
Smix2Store ==
    /\ InSmix2 /\ pc = "loop" /\ half = 0 /\ i = 0
    /\ mem' = CopyThrough(Unshuffle, mem, BAt, XAt, 2 * R)
    /\ GoTo(AfterSmix2)

YescryptNext ==
    /\ job.yescrypt /\ ~ job.simd
    /\ \/ Smix1Load \/ Smix1First \/ Smix1Second \/ Smix1Loop \/ Smix1Store
       \/ Smix2Nothing \/ Smix2Load \/ Smix2Loop \/ Smix2Store
=============================================================================
