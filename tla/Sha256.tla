------------------------------- MODULE Sha256 -------------------------------
(***************************************************************************)
(* SHA-256 as a stream, and HMAC over it, the way algos/scrypt/scrypt.c    *)
(* (and its copy sha256_c.h) computes them: a context that counts bits in  *)
(* two words, buffers the bytes of the block in progress and absorbs each  *)
(* full block into its state.                                              *)
(*                                                                         *)
(* A byte is a set of atoms, so that exclusive or is symmetric difference  *)
(* and the zero byte is the empty set.  The compression function is kept   *)
(* abstract: the state is the sequence of the blocks absorbed, and a byte  *)
(* of the digest is an atom that names its place and that sequence.  Two   *)
(* digests are equal when the same blocks were absorbed in the same order. *)
(***************************************************************************)
EXTENDS Integers, Sequences

CONSTANTS
    BlockSize,   \* bytes of a block: 64 in the code
    HashSize,    \* bytes of a digest: 32 in the code
    WordBits     \* bits of one word of the counter: 32 in the code

(* A word counts whole blocks, so that the place in the block in progress  *)
(* can be read off the low word: 2 ^ 32 bits are 2 ^ 23 blocks of 512.     *)
ASSUME Sha256Sizes ==
    /\ BlockSize \in Nat /\ HashSize \in Nat /\ WordBits \in Nat
    /\ HashSize > 0 /\ HashSize <= BlockSize /\ BlockSize > 2
    /\ 2 ^ WordBits \in Nat /\ 2 ^ WordBits > 8 * BlockSize
    /\ (2 ^ WordBits) % (8 * BlockSize) = 0

Word == 2 ^ WordBits
LenSize == 2            \* the counter in the padding, one byte for each word
XorByte(a, b) == (a \ b) \union (b \ a)
Xor(s, t) == [k \in DOMAIN s |-> XorByte(s[k], t[k])]
Constant(name, n) == [k \in 1 .. n |-> {<<name>>}]
Prefix(s, n) == SubSeq(s, 1, n)
Suffix(s, n) == SubSeq(s, n + 1, Len(s))
Min2(a, b) == IF a < b THEN a ELSE b

-----------------------------------------------------------------------------
(* The context and its operations.  What is in buf before the first bytes  *)
(* are copied there, and past the bytes of the block in progress, is junk. *)

InitialContext ==
    [hi |-> 0, lo |-> 0, state |-> <<>>, buf |-> Constant("junk", BlockSize)]

Buffered(ctx) == (ctx.lo \div 8) % BlockSize

(* memcpy(&buf[at], src, Len(src)).                                        *)
CopyAt(buf, at, src) ==
    [k \in DOMAIN buf |->
        IF k > at /\ k <= at + Len(src) THEN src[k - at] ELSE buf[k]]

(* Mutant of AddLength: no carry when the sum wraps to exactly zero.       *)
AddLengthLateCarry(ctx, len) ==
    LET low == (8 * len) % Word
        sum == (ctx.lo + low) % Word
        carry == IF sum > 0 /\ sum < low THEN 1 ELSE 0
    IN  [ctx EXCEPT !.lo = sum,
                    !.hi = (ctx.hi + carry + (len \div (Word \div 8))) % Word]

(* ctx.count += 8 * len: the low word wraps, and the carry is seen by      *)
(* comparing the sum with what was added.                                  *)
AddLength(ctx, len) ==
    LET low == (8 * len) % Word
        high == len \div (Word \div 8)
        sum == (ctx.lo + low) % Word
        carry == IF sum < low THEN 1 ELSE 0
    IN  [ctx EXCEPT !.lo = sum, !.hi = (ctx.hi + carry + high) % Word]

Blocks(bytes) ==
    [k \in 1 .. Len(bytes) \div BlockSize |->
        SubSeq(bytes, (k - 1) * BlockSize + 1, k * BlockSize)]

Update(ctx, in) ==
    LET counted == AddLength(ctx, Len(in))
        room == BlockSize - Buffered(ctx)
        full == CopyAt(ctx.buf, Buffered(ctx), Prefix(in, Min2(room, Len(in))))
        rest == Suffix(in, room)
        left == Suffix(rest, BlockSize * (Len(rest) \div BlockSize))
    IN  IF Len(in) < room
        THEN [counted EXCEPT !.buf = full]
        ELSE [counted EXCEPT !.state = ctx.state \o <<full>> \o Blocks(rest),
                             !.buf = CopyAt(full, 0, left)]

PAD == [k \in 1 .. BlockSize |-> IF k = 1 THEN {<<"0x80">>} ELSE {}]

EncodedLength(hi, lo) == << {<<"hi", hi>>}, {<<"lo", lo>>} >>

Pad(ctx) ==
    LET r == Buffered(ctx)
        fits == BlockSize - LenSize
        plen == IF r < fits THEN fits - r ELSE BlockSize + fits - r
    IN  Update(Update(ctx, Prefix(PAD, plen)), EncodedLength(ctx.hi, ctx.lo))

Digest(state) == [k \in 1 .. HashSize |-> {<<"sha", k, state>>}]

Final(ctx) == Digest(Pad(ctx).state)

Sha(bytes) == Final(Update(InitialContext, bytes))

-----------------------------------------------------------------------------
(* HMAC: an inner and an outer context, keyed by the key or by its digest. *)

KeyPad(name, K) ==
    [k \in 1 .. BlockSize |->
        IF k <= Len(K) THEN XorByte({<<name>>}, K[k]) ELSE {<<name>>}]

HmacInit(key) ==
    LET K == IF Len(key) > BlockSize THEN Sha(key) ELSE key
    IN  [ictx |-> Update(InitialContext, KeyPad("0x36", K)),
         octx |-> Update(InitialContext, KeyPad("0x5c", K))]

HmacUpdate(ctx, in) == [ctx EXCEPT !.ictx = Update(ctx.ictx, in)]

HmacFinal(ctx) == Final(Update(ctx.octx, Final(ctx.ictx)))

-----------------------------------------------------------------------------
(* The reference: SHA-256 pads the whole message and cuts it into blocks,  *)
(* HMAC concatenates.  No context, no buffer, no carry.                    *)

SpecSha(msg) ==
    LET zeros == CHOOSE z \in 0 .. BlockSize - 1 :
                    (Len(msg) + 1 + z + LenSize) % BlockSize = 0
        bits == 8 * Len(msg)
    IN  Digest(Blocks(msg \o << {<<"0x80">>} >> \o [k \in 1 .. zeros |-> {}]
                 \o EncodedLength((bits \div Word) % Word, bits % Word)))

SpecHmac(key, text) ==
    LET K == IF Len(key) > BlockSize THEN SpecSha(key) ELSE key
    IN  SpecSha(KeyPad("0x5c", K) \o SpecSha(KeyPad("0x36", K) \o text))

(* What a context must hold after `bytes`: every whole block absorbed, the *)
(* rest at the start of buf, and the length in bits over both words.       *)
Holds(ctx, bytes) ==
    LET whole == BlockSize * (Len(bytes) \div BlockSize)
    IN  /\ ctx.state = Blocks(bytes)
        /\ Prefix(ctx.buf, Len(bytes) - whole) = Suffix(bytes, whole)
        /\ ctx.hi * Word + ctx.lo = (8 * Len(bytes)) % (Word * Word)
=============================================================================
