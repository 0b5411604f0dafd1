----------------------------- MODULE ScryptSmix -----------------------------
(***************************************************************************)
(* smix of algos/scrypt/scrypt.c.  Both loops do two steps a trip, from X  *)
(* to Y and back: a half of the body is an action.                         *)
(***************************************************************************)
EXTENDS Scratchpad

Blockmix(m, Bin, Bout) == BlockmixSalsa8(job.core, m, Bin, Bout, ZAt(R), R)

(* 1: X <-- B                                                              *)
ScryptLoad ==
    /\ stage = "fill" /\ pc = "load"
    /\ mem' = Copy(mem, XAt, BAt, 2 * R)
    /\ pc' = "loop"
    /\ UNCHANGED <<job, stage, i, half, nn, j>>

(* Mutant of ScryptFill: the second half of the body stores nothing.       *)
ScryptFillEven ==
    /\ stage = "fill" /\ pc = "loop"
    /\ half = 0 => i < job.N
    /\ mem' = Blockmix(IF half = 0 THEN Copy(mem, VRow(i), From, 2 * R) ELSE mem,
                       From, To)
    /\ i' = i + 2 * half
    /\ NextHalf /\ UNCHANGED <<nn, j>>

(* 3: V_i <-- X, 4: X <-- H(X)                                             *)
ScryptFill ==
    /\ stage = "fill" /\ pc = "loop"
    /\ half = 0 => i < job.N
    /\ mem' = Blockmix(Copy(mem, VRow(i + half), From, 2 * R), From, To)
    /\ i' = i + 2 * half
    /\ NextHalf /\ UNCHANGED <<nn, j>>

ScryptEndFill ==
    /\ stage = "fill" /\ pc = "loop" /\ half = 0 /\ i >= job.N
    /\ stage' = "mix"
    /\ i' = 0
    /\ UNCHANGED <<job, mem, pc, half, nn, j>>

(* 7: j <-- Integerify(X) mod N, 8: X <-- H(X xor V_j)                     *)
ScryptMix ==
    /\ stage = "mix" /\ pc = "loop"
    /\ half = 0 => i < job.N
    /\ LET row == VRow(mem[From + 2 * R - 1] % job.N)
       IN  mem' = Blockmix(XorInto(mem, From, row, 2 * R), From, To)
    /\ i' = i + 2 * half
    /\ NextHalf /\ UNCHANGED <<nn, j>>

(* 10: B' <-- X                                                            *)
ScryptStore ==
    /\ stage = "mix" /\ pc = "loop"
    /\ half = 0 /\ i >= job.N
    /\ mem' = Copy(mem, BAt, XAt, 2 * R)
    /\ GoTo("done")

ScryptNext ==
    /\ ~ job.yescrypt
    /\ \/ ScryptLoad \/ ScryptFill \/ ScryptEndFill \/ ScryptMix \/ ScryptStore
=============================================================================
