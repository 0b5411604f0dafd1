------------------------------- MODULE Pbkdf2 -------------------------------
(***************************************************************************)
(* PBKDF2_SHA256 of algos/scrypt/scrypt.c: the loop over the blocks of the *)
(* derived key, each started from a copy of one HMAC context that has      *)
(* already absorbed the password and the salt, and the loop over the       *)
(* iterations inside a block.  One step is one trip of a loop.             *)
(***************************************************************************)
EXTENDS Sha256, FiniteSets

VARIABLES
    call,    \* the arguments: passwd, salt, c, dkLen
    pc,      \* "idle", "blocks", "iterations" or "returned"
    PShctx,  \* the HMAC context after the password and the salt
    i, j,    \* the counters of the two loops
    U, T,    \* the last PRF value, and the block in progress
    buf      \* the bytes written so far

pbkVars == <<call, pc, PShctx, i, j, U, T, buf>>

BlockNumber(n) == << {<<"int", n>>} >>     \* be32enc(ivec, n)

PbkInit ==
    /\ call = [passwd |-> <<>>, salt |-> <<>>, c |-> 1, dkLen |-> 0]
    /\ pc = "idle"
    /\ PShctx = HmacInit(<<>>)
    /\ i = 0 /\ j = 0
    /\ U = <<>> /\ T = <<>> /\ buf = <<>>

(* The call: both contexts are keyed and the salt is absorbed once.        *)
Enter(passwd, salt, c, dkLen) ==
    /\ pc \in {"idle", "returned"}
    /\ pc' = "blocks"
    /\ call' = [passwd |-> passwd, salt |-> salt, c |-> c, dkLen |-> dkLen]
    /\ PShctx' = HmacUpdate(HmacInit(passwd), salt)
    /\ i' = 0
    /\ buf' = <<>>
    /\ UNCHANGED <<j, U, T>>

(* Mutant of BeginBlock: the block number is fed to PShctx itself.         *)
BeginBlockInPlace ==
    /\ pc = "blocks"
    /\ i * HashSize < call.dkLen
    /\ PShctx' = HmacUpdate(PShctx, BlockNumber(i + 1))
    /\ U' = HmacFinal(PShctx')
    /\ T' = U'
    /\ j' = 2
    /\ pc' = "iterations"
    /\ UNCHANGED <<call, i, buf>>

(* A block begins: U_1 from a copy of PShctx and the number of the block.  *)
BeginBlock ==
    /\ pc = "blocks"
    /\ i * HashSize < call.dkLen
    /\ U' = HmacFinal(HmacUpdate(PShctx, BlockNumber(i + 1)))
    /\ T' = U'
    /\ j' = 2
    /\ pc' = "iterations"
    /\ UNCHANGED <<call, PShctx, i, buf>>

(* One more iteration: U_j from a context keyed anew, added to T.          *)
Iterate ==
    /\ pc = "iterations"
    /\ j <= call.c
    /\ U' = HmacFinal(HmacUpdate(HmacInit(call.passwd), U))
    /\ T' = Xor(T, U')
    /\ j' = j + 1
    /\ UNCHANGED <<call, pc, PShctx, i, buf>>

(* Mutant of EndBlock: every block is copied whole.                        *)
EndBlockWhole ==
    /\ pc = "iterations"
    /\ j > call.c
    /\ buf' = buf \o T
    /\ i' = i + 1
    /\ pc' = "blocks"
    /\ UNCHANGED <<call, PShctx, j, U, T>>

(* The block is complete: as much of it as is still wanted is copied.      *)
EndBlock ==
    /\ pc = "iterations"
    /\ j > call.c
    /\ buf' = buf \o Prefix(T, Min2(call.dkLen - i * HashSize, HashSize))
    /\ i' = i + 1
    /\ pc' = "blocks"
    /\ UNCHANGED <<call, PShctx, j, U, T>>

Leave ==
    /\ pc = "blocks"
    /\ i * HashSize >= call.dkLen
    /\ pc' = "returned"
    /\ UNCHANGED <<call, PShctx, i, j, U, T, buf>>

PbkStep == BeginBlock \/ Iterate \/ EndBlock \/ Leave

-----------------------------------------------------------------------------
(* RFC 8018: T_n = U_1 xor ... xor U_c, and the blocks are concatenated.   *)

SpecU(passwd, salt, n, c) ==
    LET u[k \in 1 .. c] == SpecHmac(passwd, IF k = 1 THEN salt \o BlockNumber(n)
                                                     ELSE u[k - 1])
    IN  u

SpecT(passwd, salt, n, c) ==
    LET u == SpecU(passwd, salt, n, c)
        t[k \in 1 .. c] == IF k = 1 THEN u[1] ELSE Xor(t[k - 1], u[k])
    IN  t

SpecBlock(passwd, salt, n, c) == SpecT(passwd, salt, n, c)[c]

SpecPbkdf2(passwd, salt, c, dkLen) ==
    LET block == [n \in 1 .. dkLen |-> SpecBlock(passwd, salt, n, c)]
    IN  [k \in 1 .. dkLen |->
            block[((k - 1) \div HashSize) + 1][((k - 1) % HashSize) + 1]]
=============================================================================
