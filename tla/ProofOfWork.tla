----------------------------- MODULE ProofOfWork ----------------------------
(***************************************************************************)
(* The memory-hard functions of the miner, scrypt and the two builds of    *)
(* yescrypt, each in its scratchpad, and the abstract mixing all three     *)
(* implement.  One hash runs at a time: Python calls them with its global  *)
(* lock held.                                                              *)
(***************************************************************************)
EXTENDS ScryptSmix, YescryptSmix, SimdSmix

PowNext == ScryptNext \/ YescryptNext \/ SimdNext

PowSpec == ScratchpadInit /\ [][PowNext]_vars

-----------------------------------------------------------------------------
(* The refinement mapping: where the abstract block and rows are now, and  *)
(* how many steps of the stage are behind.                                 *)

Done ==
    CASE pc \in {"load", "first"} -> 0
      [] pc = "second"            -> 1
      [] pc = "store"             -> StageRows
      [] pc \in {"loop", "tail"}  -> IF InSmix2 THEN 2 * (Nloop \div 2 - i) + half
                                    ELSE IF job.simd THEN nn + i + half - 1
                                    ELSE i + half

Plain(b) == [k \in DOMAIN b |-> IF job.yescrypt THEN Lift(Unshuffle, b[k]) ELSE b[k]]

(* The block between stages is in B, as PBKDF2 sees it; otherwise permuted *)
(* by yescrypt, and in a row of V, in X or in Y.  With SSE2 smix1 has it   *)
(* in the row it will be.                                                  *)
ActiveAt ==
    IF pc = "first" \/ (InSmix1 /\ job.simd /\ pc # "store") THEN VRow(Done) ELSE From

Block ==
    LET width == 2 * StageR
        active == Plain(Read(mem, ActiveAt, width))
    IN  [k \in 0 .. 2 * R - 1 |->
            IF pc = "load" \/ k >= width THEN mem[BAt + k] ELSE active[k]]

RowsOf(at(_), rows, width) ==
    [k \in 0 .. rows - 1 |-> Plain(Read(mem, at(k), width))]

Table ==
    IF stage = "done" THEN <<>>
    ELSE RowsOf(VRow, IF stage \in {"sbox", "fill"} THEN Done ELSE job.N, 2 * StageR)

SRow(k) == SAt + 2 * k
SBoxTable ==
    IF stage = "sbox" \/ ~ job.yescrypt THEN <<>>
    ELSE RowsOf(SRow, job.sboxRows, 2)

Abstract == INSTANCE ROMix
    WITH phase <- stage, n <- Done, x <- Block, v <- Table, s <- SBoxTable

-----------------------------------------------------------------------------
(* Properties                                                              *)

(* The scratchpad keeps its size, and the counters of smix, smix1 and      *)
(* smix2 their bounds: n is the largest power of two that is no greater    *)
(* than the number of the row.                                             *)
PowTypeOK ==
    /\ stage \in {"sbox", "fill", "mixrw", "mix", "done"}
    /\ pc \in {"load", "first", "second", "loop", "tail", "store"}
    /\ mem \in [0 .. Need - 1 -> Cell]
    /\ half \in {0, 1} /\ i \in 0 .. StageRows /\ j \in Word
    /\ pc = "loop" /\ InSmix1 /\ half = 1 => nn = P2floor(Done)

(* The block never depends on what was in the memory before: neither on    *)
(* what the allocation gave nor, since yescrypt_kdf keeps the region, on   *)
(* the rows of the last hash (smix1 wraps to rows already written).        *)
OwnDataOnly == \A k \in DOMAIN Block : Block[k] # Junk

(* Loops unrolled by two, buffers that swap, a block that starts in the    *)
(* table or wanders along it, a permuted representation, an S-box in the   *)
(* same memory, rows saved while they are read and loop bounds rounded to  *)
(* even compute the mixing that ROMix defines (smix).                      *)
ImplementsROMix == Abstract!ROMixSpec
=============================================================================
