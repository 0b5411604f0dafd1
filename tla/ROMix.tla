-------------------------------- MODULE ROMix -------------------------------
(***************************************************************************)
(* What the memory-hard functions promise: sequential memory-hard mixing   *)
(* of one block x, with a table v of earlier values of it.  One step is    *)
(* one application of BlockMix.  There is one buffer, nothing is unrolled, *)
(* no memory is shared between parts and nothing is permuted.              *)
(*                                                                         *)
(* Classic scrypt fills v and mixes from it.  yescrypt first fills a small *)
(* table s from the first two sub-blocks, which becomes the S-box of       *)
(* pwxform; while it fills v it adds earlier rows, and it writes back the  *)
(* rows it mixes in a first loop, and only reads them in a second.         *)
(***************************************************************************)
EXTENDS BlockMix

VARIABLES
    job,     \* the parameters: yescrypt or not, r, N, S-box rows, the core
    phase,   \* "sbox", "fill", "mixrw", "mix" or "done"
    n,       \* steps done in this phase
    x, v, s

romixVars == <<job, phase, n, x, v, s>>

Rows == IF phase = "sbox" THEN job.sboxRows ELSE job.N

(* A third of N, in an even number of steps that write rows back; an odd   *)
(* one is replaced by two that only read.                                  *)
Third == (job.N + 2) \div 3
Steps ==
    CASE phase = "sbox"  -> job.sboxRows
      [] phase = "fill"  -> job.N
      [] phase = "mixrw" -> Third - (Third % 2)
      [] phase = "mix"   -> IF job.yescrypt THEN 2 * (Third % 2) ELSE job.N
      [] phase = "done"  -> 0

(* The part of x that is mixed.                                            *)
Active == IF phase = "sbox" THEN [k \in 0 .. 1 |-> x[k]] ELSE x

(* The S-box, in the order in which pwxform reads it: row by row.          *)
SBox == [k \in 1 .. 2 * job.sboxRows |->
            Lift(Shuffle, s[(k - 1) \div 2][(k - 1) % 2])]
PwxOfWord(a) == Lift(Unshuffle, Pwxform(SBox, Lift(Shuffle, a)))

Mixed(b) ==
    LET y == IF phase # "sbox" /\ job.yescrypt
             THEN SpecBlockMixPwx(job.core, PwxOfWord, b, job.r)
             ELSE SpecBlockMix(job.core, b, IF phase = "sbox" THEN 1 ELSE job.r)
    IN  [k \in DOMAIN x |-> IF k \in DOMAIN y THEN y[k] ELSE x[k]]

Integerify(b) == b[CHOOSE k \in DOMAIN b : k + 1 \notin DOMAIN b]

(* Wrap(Integerify(x), n): one of the last p rows, with p a power of two.  *)
Wrapped(b) == LET p == P2floor(n) IN (Integerify(b) % p) + n - p

Fill ==
    /\ phase \in {"sbox", "fill"} /\ n < Steps
    /\ LET y == IF job.yescrypt /\ n >= 2 THEN XorBlock(Active, v[Wrapped(Active)])
                                          ELSE Active
       IN  x' = Mixed(y)
    /\ v' = [k \in 0 .. n |-> IF k = n THEN Active ELSE v[k]]
    /\ n' = n + 1
    /\ UNCHANGED <<job, phase, s>>

MixStep ==
    /\ phase \in {"mixrw", "mix"} /\ n < Steps
    /\ LET j == Integerify(x) % job.N
           y == XorBlock(x, v[j])
       IN  /\ x' = Mixed(y)
           /\ v' = IF phase = "mixrw" THEN [v EXCEPT ![j] = y] ELSE v
    /\ n' = n + 1
    /\ UNCHANGED <<job, phase, s>>

After ==
    CASE phase = "sbox"  -> "fill"
      [] phase = "fill"  -> IF job.yescrypt THEN "mixrw" ELSE "mix"
      [] phase = "mixrw" -> "mix"
      [] OTHER           -> "done"

EndPhase ==
    /\ phase # "done" /\ n = Steps
    /\ phase' = After
    /\ n' = 0
    /\ s' = IF phase = "sbox" THEN v ELSE s
    /\ v' = IF phase = "sbox" \/ After = "done" THEN <<>> ELSE v
    /\ UNCHANGED <<job, x>>

ROMixInit ==
    /\ phase = IF job.yescrypt THEN "sbox" ELSE "fill"
    /\ n = 0 /\ v = <<>> /\ s = <<>>
    /\ x \in [0 .. 2 * job.r - 1 -> Word]

ROMixNext == Fill \/ MixStep \/ EndPhase

ROMixSpec == ROMixInit /\ [][ROMixNext]_romixVars
=============================================================================
