----------------------------- MODULE Scratchpad -----------------------------
(***************************************************************************)
(* The memory in which the memory-hard functions work, cut into regions by *)
(* scrypt_1024_1_1_256_sp and by yescrypt_kdf: one array of sub-blocks     *)
(* that holds junk until something is written, whether it was just         *)
(* allocated or was used for the hash before.                              *)
(***************************************************************************)
EXTENDS BlockMix

CONSTANTS
    Jobs     \* the parameters of a hash

(* yescrypt_kdf refuses an N that is no power of two; scrypt has 1024.     *)
ASSUME JobsAssumption ==
    \A p \in Jobs :
        /\ p.yescrypt \in BOOLEAN /\ p.simd \in BOOLEAN
        /\ p.r \in Nat \ {0}
        /\ p.N \in Nat /\ p.N >= 2 /\ p.N % 2 = 0
        /\ p.sboxRows \in Nat /\ p.sboxRows % 2 = 0
        /\ p.yescrypt => p.sboxRows >= 2
        /\ p.simd => p.yescrypt /\ p.N >= 4 /\ p.sboxRows >= 4
        /\ p.words \subseteq Word
        /\ p.core \in [Word -> Word]

VARIABLES
    job,     \* the parameters of this one
    mem,     \* the scratchpad
    stage,   \* which loop: "sbox", "fill", "mixrw", "mix" or "done"
    pc,      \* where in it: "load", "first", "second", "loop", "tail", "store"
    i,       \* its counter
    half,    \* 1 between the two halves of its body
    nn,      \* n of smix1, the power of two below i
    j        \* with SSE2, what the last mixing returned

vars == <<job, mem, stage, pc, i, half, nn, j>>

(* The regions, in sub-blocks: the code has B first, then XY and V for     *)
(* scrypt, V, XY and S for yescrypt.  With SSE2 the mixing has registers,  *)
(* and XY no room for Z.                                                   *)
R == job.r
BAt == 0
BSize == 2 * R
VSize == 2 * R * job.N
XYSize == IF job.simd THEN 4 * R ELSE 4 * R + 1
SSize == 2 * job.sboxRows
VAt == IF job.yescrypt THEN BSize ELSE BSize + XYSize
XYAt == IF job.yescrypt THEN BSize + VSize ELSE BSize
SAt == BSize + VSize + XYSize
Need == BSize + VSize + XYSize + SSize

XAt == XYAt
YAt(r) == XYAt + 2 * r
ZAt(r) == XYAt + 4 * r

(* The size of the working block in this stage: smix1 fills the S-box with *)
(* r = 1.                                                                  *)
StageR == IF stage = "sbox" THEN 1 ELSE R
VRow(k) == (IF stage = "sbox" THEN SAt ELSE VAt) + 2 * StageR * k
StageRows == IF stage = "sbox" THEN job.sboxRows ELSE job.N

(* What PBKDF2 leaves in B (modelled in Kdf): any block.                   *)
ScratchpadInit ==
    /\ job \in Jobs
    /\ \E block \in [0 .. BSize - 1 -> job.words] :
          mem = [a \in 0 .. Need - 1 |-> IF a < BSize THEN block[a] ELSE Junk]
    /\ stage = IF job.yescrypt THEN "sbox" ELSE "fill"
    /\ pc = "load"
    /\ i = 0 /\ half = 0 /\ nn = 1 /\ j = 0

(* The half of the body that reads the buffer From and writes To.          *)
From == IF half = 0 THEN XAt ELSE YAt(StageR)
To == IF half = 0 THEN YAt(StageR) ELSE XAt
NextHalf ==
    /\ half' = 1 - half
    /\ UNCHANGED <<job, stage, pc>>

GoTo(st) ==
    /\ stage' = st
    /\ pc' = "load"
    /\ i' = 0 /\ half' = 0 /\ nn' = 1 /\ j' = 0
    /\ UNCHANGED job
=============================================================================
