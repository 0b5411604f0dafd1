---------------------------- MODULE MCProofOfWork ---------------------------
(* Sub-blocks of three bits, four functions of them as the core (one of     *)
(* them not injective), every block with r = 1 and the blocks over a few    *)
(* words with r = 2, and numbers of rows for which the two loops of smix2   *)
(* run 0 and 2, 2 and 0, 2 and 2, or 6 and 0 steps.  The build with SSE2    *)
(* refuses fewer than 8.                                                    *)
EXTENDS ProofOfWork, Bitwise

MCXorWord(a, b) == a ^^ b

Cores == {[a \in Word |-> (3 * a + 1) % 8], [a \in Word |-> (5 * a + (a \div 2)) % 8],
          [a \in Word |-> (a * a + 3) % 8], [a \in Word |-> 7 - a]}

Job(code, r, rows, sboxRows, words) ==
    [yescrypt : {code # "scrypt"}, simd : {code = "simd"}, r : {r}, N : rows,
     sboxRows : {sboxRows}, words : {words}, core : Cores]

MCJobs ==
    Job("scrypt", 1, {2, 4}, 0, Word) \union Job("scrypt", 2, {4}, 0, {1, 6})
    \union Job("opt", 1, {2, 4, 8}, 4, Word)
    \union Job("opt", 2, {8, 16}, 2, {1, 6})
    \union Job("simd", 1, {8, 16}, 4, Word)
    \union Job("simd", 2, {8, 16}, 4, {1, 6})
=============================================================================
