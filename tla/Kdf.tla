-------------------------------- MODULE Kdf ---------------------------------
(***************************************************************************)
(* The two key derivations of the proof of work, around their memory-hard  *)
(* middle: scrypt_1024_1_1_256_sp of algos/scrypt/scrypt.c, and the part   *)
(* of yescrypt_kdf of algos/yescrypt/yescrypt-opt_c.h that follows the     *)
(* allocation.  Both derive B with PBKDF2, mix it, and derive the output   *)
(* from it.  yescrypt hashes the password first, into an array that then   *)
(* serves twice: the password pointer still points to it when its contents *)
(* are replaced by the first bytes of B.                                   *)
(*                                                                         *)
(* Calls of PBKDF2 with other iteration counts and lengths than these two  *)
(* make of it start in "pbkdf2", so that every branch of it is reached.    *)
(***************************************************************************)
EXTENDS Pbkdf2

CONSTANTS
    InputLen,    \* bytes of a block header: 80 in the code
    BlockLen,    \* bytes of B, 128 * r * p
    Calls        \* the direct calls of PBKDF2: lengths, count and dkLen

ASSUME KdfSizes ==
    /\ InputLen \in Nat
    /\ BlockLen \in Nat /\ BlockLen >= HashSize
    /\ Calls \subseteq [passwdLen : Nat, saltLen : Nat, c : Nat \ {0}, dkLen : Nat]

VARIABLES
    stage,    \* where the caller is
    algo,     \* "scrypt", "yescrypt" or "pbkdf2"
    sha256,   \* the local array of yescrypt_kdf
    B,        \* the block to mix
    output

kdfVars == <<stage, algo, sha256, B, output>>
vars == <<pbkVars, kdfVars>>

Bytes(name, n) == [k \in 1 .. n |-> {<<name, k>>}]
Input == Bytes("input", InputLen)

(* The memory-hard mixing, as a function of the block.                     *)
Smix(block) == [k \in DOMAIN block |-> {<<"smix", k, block>>}]

KdfInit ==
    /\ PbkInit
    /\ stage = "start"
    /\ algo \in {"scrypt", "yescrypt", "pbkdf2"}
    /\ sha256 = <<>> /\ B = <<>> /\ output = <<>>

CallPbkdf2 ==
    /\ stage = "start" /\ algo = "pbkdf2"
    /\ \E a \in Calls :
          Enter(Bytes("passwd", a.passwdLen), Bytes("salt", a.saltLen),
                a.c, a.dkLen)
    /\ stage' = "direct"
    /\ UNCHANGED <<algo, sha256, B, output>>

ScryptDerive ==
    /\ stage = "start" /\ algo = "scrypt"
    /\ Enter(Input, Input, 1, BlockLen)
    /\ stage' = "derive"
    /\ UNCHANGED <<algo, sha256, B, output>>

(* if (t || flags): the password is its own digest from here on.           *)
YescryptDerive ==
    /\ stage = "start" /\ algo = "yescrypt"
    /\ sha256' = Sha(Input)
    /\ Enter(sha256', Input, 1, BlockLen)
    /\ stage' = "derive"
    /\ UNCHANGED <<algo, B, output>>

ScryptMix ==
    /\ stage = "derive" /\ algo = "scrypt" /\ pc = "returned"
    /\ B' = Smix(buf)
    /\ stage' = "mix"
    /\ UNCHANGED <<pbkVars, algo, sha256, output>>

(* Mutant of YescryptMix: the array is refreshed after the mixing.         *)
YescryptMixThenCopy ==
    /\ stage = "derive" /\ algo = "yescrypt" /\ pc = "returned"
    /\ B' = Smix(buf)
    /\ sha256' = Prefix(B', HashSize)
    /\ stage' = "mix"
    /\ UNCHANGED <<pbkVars, algo, output>>

(* blkcpy(sha256, B, ...), then the mixing.                                *)
YescryptMix ==
    /\ stage = "derive" /\ algo = "yescrypt" /\ pc = "returned"
    /\ sha256' = Prefix(buf, HashSize)
    /\ B' = Smix(buf)
    /\ stage' = "mix"
    /\ UNCHANGED <<pbkVars, algo, output>>

ScryptExtract ==
    /\ stage = "mix" /\ algo = "scrypt"
    /\ Enter(Input, B, 1, HashSize)
    /\ stage' = "extract"
    /\ UNCHANGED <<algo, sha256, B, output>>

(* passwd still points to the array.                                       *)
YescryptExtract ==
    /\ stage = "mix" /\ algo = "yescrypt"
    /\ Enter(sha256, B, 1, HashSize)
    /\ stage' = "extract"
    /\ UNCHANGED <<algo, sha256, B, output>>

Finish ==
    /\ stage \in {"extract", "direct"} /\ algo # "yescrypt" /\ pc = "returned"
    /\ output' = buf
    /\ stage' = "done"
    /\ UNCHANGED <<pbkVars, algo, sha256, B>>

(* ClientKey and StoredKey, as the output has the size of a digest.        *)
YescryptFinish ==
    /\ stage = "extract" /\ algo = "yescrypt" /\ pc = "returned"
    /\ sha256' = HmacFinal(HmacUpdate(HmacInit(buf), Input))
    /\ output' = Sha(sha256')
    /\ stage' = "done"
    /\ UNCHANGED <<pbkVars, algo, B>>

KdfNext ==
    \/ CallPbkdf2 \/ Finish
    \/ ScryptDerive \/ ScryptMix \/ ScryptExtract
    \/ YescryptDerive \/ YescryptMix \/ YescryptExtract \/ YescryptFinish
    \/ PbkStep /\ UNCHANGED kdfVars

KdfSpec == KdfInit /\ [][KdfNext]_vars

-----------------------------------------------------------------------------
(* Properties                                                              *)

(* What the calls hold at every moment: loop counters within their bounds  *)
(* and a T and U of the size of a digest (PBKDF2_SHA256).                  *)
KdfTypeOK ==
    /\ pc \in {"idle", "blocks", "iterations", "returned"}
    /\ i * HashSize < call.dkLen + HashSize
    /\ pc = "iterations" =>
         /\ j \in 2 .. call.c + 1
         /\ Len(T) = HashSize /\ Len(U) = HashSize
    /\ Len(buf) = Min2(i * HashSize, call.dkLen)
    /\ Len(B) \in {0, BlockLen}

(* The context copied for every block holds the keyed block and the salt:  *)
(* whole blocks absorbed, the rest buffered, and the number of bits right  *)
(* over the carry of the low word (SHA256_Update).                         *)
ContextHolds ==
    pc # "idle" =>
        LET K == IF Len(call.passwd) > BlockSize THEN SpecSha(call.passwd)
                                                 ELSE call.passwd
        IN  /\ Holds(PShctx.ictx, KeyPad("0x36", K) \o call.salt)
            /\ Holds(PShctx.octx, KeyPad("0x5c", K))

(* Whenever PBKDF2_SHA256 is between two blocks, what it has written is    *)
(* the beginning of the key RFC 8018 defines, and all of it on return.     *)
DerivedKey ==
    pc \in {"blocks", "returned"} =>
        LET key == SpecPbkdf2(call.passwd, call.salt, call.c, call.dkLen)
        IN  /\ buf = Prefix(key, Len(buf))
            /\ pc = "returned" => Len(buf) = call.dkLen

(* The output of the whole derivation, from reference definitions only: in *)
(* particular the second password of yescrypt is the head of B before the  *)
(* mixing, although the mixing works in place on B (yescrypt_kdf).         *)
SpecKdf ==
    LET pw == IF algo = "yescrypt" THEN SpecSha(Input) ELSE Input
        block == SpecPbkdf2(pw, Input, 1, BlockLen)
        pw2 == IF algo = "yescrypt" THEN Prefix(block, HashSize) ELSE Input
        key == SpecPbkdf2(pw2, Smix(block), 1, HashSize)
    IN  IF algo = "yescrypt" THEN SpecSha(SpecHmac(key, Input)) ELSE key

KdfOutput == stage = "done" /\ algo # "pbkdf2" => output = SpecKdf
=============================================================================
