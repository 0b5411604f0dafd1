---------------------------- MODULE MemoryLayout ----------------------------
(***************************************************************************)
(* Memory as the C code uses it, at the real sizes: bytes in a word, words *)
(* in a sub-block and regions in a block of memory, which have no state;   *)
(* and proofs about the blocks of yescrypt across calls (YescryptRegion),  *)
(* for any threads, any blocks and any parameters yescrypt_kdf accepts.    *)
(***************************************************************************)
EXTENDS YescryptRegion, TLAPS

CONSTANTS        \* the parameters N, r and p are those of YescryptRegion
    SizeMax,     \* SIZE_MAX of a build of yescrypt
    Simd,        \* whether the build is that of yescrypt-simd_c.h
    Pwxform,     \* flags & YESCRYPT_PWXFORM
    Parallel     \* flags & YESCRYPT_PARALLEL_SMIX, which p = 1 takes away

-----------------------------------------------------------------------------
(***************************************************************************)
(* Words of 32 bits and the four bytes they are loaded from and stored to: *)
(* sysendian.h and its copies in scrypt.c, and the places where pyminer.py *)
(* turns bytes round.  The other modules work on words and take it from    *)
(* here that no order of bytes is ever mixed up with the other.            *)
(***************************************************************************)
Byte == 0 .. 255
Word == {x \in Nat : x < 4294967296}      \* 2 ^ 32
Quad == [0 .. 3 -> Byte]

Bytes(b0, b1, b2, b3) ==
    [k \in 0 .. 3 |-> IF k < 2 THEN IF k = 0 THEN b0 ELSE b1
                                ELSE IF k = 2 THEN b2 ELSE b3]

be32dec(b) == b[3] + b[2] * 256 + b[1] * 65536 + b[0] * 16777216
le32dec(b) == b[0] + b[1] * 256 + b[2] * 65536 + b[3] * 16777216

be32enc(x) ==
    Bytes((x \div 16777216) % 256, (x \div 65536) % 256, (x \div 256) % 256, x % 256)
le32enc(x) ==
    Bytes(x % 256, (x \div 256) % 256, (x \div 65536) % 256, (x \div 16777216) % 256)

(* message[::-1] of swap_endian_word.                                      *)
swap_endian_word(b) == [k \in 0 .. 3 |-> b[3 - k]]

(* The nonce in the header that is hashed, struct.pack('<I', nonce), and   *)
(* the one that is submitted for it, hexlify(nonce_bin[::-1]).             *)
nonce_bin(nonce) == le32enc(nonce)
Submitted(nonce) == swap_endian_word(nonce_bin(nonce))

-----------------------------------------------------------------------------

(* The lowest byte of a number, and the rest of it.                        *)
LEMMA LowByte ==
    ASSUME NEW x \in Nat
    PROVE  /\ x \div 256 \in Nat /\ x % 256 \in Byte
           /\ x % 256 = x - 256 * (x \div 256)
<1>1. x \div 256 \in Nat
  BY SMT
<1>2. x % 256 \in Byte
  BY SMT DEF Byte
<1>3. x % 256 = x - 256 * (x \div 256)
  BY SMT
<1> QED
  BY <1>1, <1>2, <1>3

(* Shifting twice is shifting once by the sum.                             *)
LEMMA ShiftTwice ==
    ASSUME NEW x \in Nat
    PROVE  /\ x \div 65536 = (x \div 256) \div 256
           /\ x \div 16777216 = (x \div 65536) \div 256
<1>1. x \div 65536 = (x \div 256) \div 256
  BY SMT
<1>2. x \div 16777216 = (x \div 65536) \div 256
  BY SMT
<1> QED
  BY <1>1, <1>2

(* The four bytes of a word make up the word.                              *)
LEMMA FourBytes ==
    ASSUME NEW x \in Word
    PROVE  /\ x % 256 \in Byte /\ (x \div 256) % 256 \in Byte
           /\ (x \div 65536) % 256 \in Byte /\ (x \div 16777216) % 256 \in Byte
           /\ (x % 256) + ((x \div 256) % 256) * 256 + ((x \div 65536) % 256) * 65536
                + ((x \div 16777216) % 256) * 16777216 = x
<1> DEFINE q1 == x \div 256
           q2 == x \div 65536
           q3 == x \div 16777216
<1>1. x \in Nat /\ q2 = q1 \div 256 /\ q3 = q2 \div 256
  <2>1. x \in Nat
    BY DEF Word
  <2> QED
    BY <2>1, ShiftTwice
<1>2. q1 \in Nat /\ x % 256 \in Byte /\ x % 256 = x - 256 * q1
  BY <1>1, LowByte
<1> HIDE DEF q1
<1>3. q2 \in Nat /\ q1 % 256 \in Byte /\ q1 % 256 = q1 - 256 * q2
  BY <1>1, <1>2, LowByte
<1> HIDE DEF q2
<1>4. q3 \in Nat /\ q2 % 256 \in Byte /\ q2 % 256 = q2 - 256 * q3
  BY <1>1, <1>3, LowByte
<1>5. q3 \in Byte
  BY SMT DEF Word, Byte
<1> HIDE DEF q3
<1>6. q3 % 256 = q3
  BY <1>5, SMT DEF Byte
<1>7. (x % 256) + (q1 % 256) * 256 + (q2 % 256) * 65536 + (q3 % 256) * 16777216 = x
  BY <1>1, <1>2, <1>3, <1>4, <1>6, SMT
<1> QED
  BY <1>2, <1>3, <1>4, <1>5, <1>6, <1>7 DEF q1, q2, q3

(* A lowest byte that is added is found again.                             *)
LEMMA AddByte ==
    ASSUME NEW q \in Nat, NEW low \in Byte
    PROVE  (low + 256 * q) % 256 = low /\ (low + 256 * q) \div 256 = q
BY SMT DEF Byte

(* Storing a word and loading it again, in either order (le32enc, le32dec, *)
(* be32enc and be32dec of sysendian.h).                                    *)
THEOREM WordsReturn ==
    \A x \in Word : /\ be32enc(x) \in Quad /\ be32dec(be32enc(x)) = x
                    /\ le32enc(x) \in Quad /\ le32dec(le32enc(x)) = x
<1> SUFFICES ASSUME NEW x \in Word
             PROVE  /\ be32enc(x) \in Quad /\ be32dec(be32enc(x)) = x
                    /\ le32enc(x) \in Quad /\ le32dec(le32enc(x)) = x
  OBVIOUS
<1> DEFINE b0 == x % 256
           b1 == (x \div 256) % 256
           b2 == (x \div 65536) % 256
           b3 == (x \div 16777216) % 256
<1>1. b0 \in Byte /\ b1 \in Byte /\ b2 \in Byte /\ b3 \in Byte
  BY FourBytes
<1>2. b0 + b1 * 256 + b2 * 65536 + b3 * 16777216 = x
  BY FourBytes
<1>3. be32enc(x) = Bytes(b3, b2, b1, b0) /\ le32enc(x) = Bytes(b0, b1, b2, b3)
  BY SMT DEF be32enc, le32enc
<1> HIDE DEF b0, b1, b2, b3
<1> QED
  BY SMT, <1>1, <1>2, <1>3 DEF Bytes, Quad, be32dec, le32dec, Byte

(* Loading four bytes gives a word, and storing it gives them back.        *)
THEOREM BytesReturn ==
    \A b \in Quad : /\ be32dec(b) \in Word /\ be32enc(be32dec(b)) = b
                    /\ le32dec(b) \in Word /\ le32enc(le32dec(b)) = b
<1>1. ASSUME NEW a \in Byte, NEW b \in Byte, NEW c \in Byte, NEW d \in Byte,
             NEW x, x = a + b * 256 + c * 65536 + d * 16777216
      PROVE  /\ x \in Word
             /\ x % 256 = a /\ (x \div 256) % 256 = b
             /\ (x \div 65536) % 256 = c /\ (x \div 16777216) % 256 = d
  <2> DEFINE y == b + 256 * (c + 256 * d)
             z == c + 256 * d
  <2>1. x \in Nat /\ x \in Word /\ y \in Nat /\ z \in Nat /\ d \in Nat
    BY <1>1, SMT DEF Byte, Word
  <2>2. x = a + 256 * y /\ y = b + 256 * z /\ z = c + 256 * d /\ d = d + 256 * 0
    BY <1>1, SMT DEF Byte
  <2> HIDE DEF y, z
  <2>3. x % 256 = a /\ x \div 256 = y
    BY <2>1, <2>2, AddByte
  <2>4. y % 256 = b /\ y \div 256 = z
    BY <2>1, <2>2, AddByte
  <2>5. z % 256 = c /\ z \div 256 = d
    BY <2>1, <2>2, AddByte
  <2>6. d % 256 = d
    BY SMT DEF Byte
  <2> QED
    BY <2>1, <2>3, <2>4, <2>5, <2>6, ShiftTwice
<1>2. SUFFICES ASSUME NEW b \in Quad
               PROVE  /\ be32dec(b) \in Word /\ be32enc(be32dec(b)) = b
                      /\ le32dec(b) \in Word /\ le32enc(le32dec(b)) = b
  OBVIOUS
<1>3. b[0] \in Byte /\ b[1] \in Byte /\ b[2] \in Byte /\ b[3] \in Byte
  BY SMT DEF Quad
<1>4. b = Bytes(b[0], b[1], b[2], b[3])
  BY SMT DEF Quad, Bytes
<1>5. le32dec(b) \in Word /\ le32enc(le32dec(b)) = Bytes(b[0], b[1], b[2], b[3])
  BY SMT, <1>1, <1>3 DEF le32dec, le32enc
<1>6. be32dec(b) \in Word /\ be32enc(be32dec(b)) = Bytes(b[0], b[1], b[2], b[3])
  BY SMT, <1>1, <1>3 DEF be32dec, be32enc
<1> QED
  BY <1>4, <1>5, <1>6

(* The two orders are each other's reverse, so a word of the work that the *)
(* server sends in the one and swap_endian_word turns round is the same    *)
(* word in the other; and the nonce a share is submitted with, turned      *)
(* round the same way, is the one in the header that was hashed.           *)
THEOREM OrdersSwapped ==
    /\ \A x \in Word : swap_endian_word(be32enc(x)) = le32enc(x)
    /\ \A b \in Quad : /\ le32dec(swap_endian_word(b)) = be32dec(b)
                       /\ swap_endian_word(swap_endian_word(b)) = b
    /\ \A nonce \in Word : /\ swap_endian_word(Submitted(nonce)) = nonce_bin(nonce)
                           /\ be32dec(Submitted(nonce)) = nonce
<1>1. \A x \in Word : /\ swap_endian_word(be32enc(x)) = le32enc(x)
                      /\ swap_endian_word(le32enc(x)) = be32enc(x)
  BY SMT DEF swap_endian_word, be32enc, le32enc, Bytes
<1>2. \A b \in Quad : /\ le32dec(swap_endian_word(b)) = be32dec(b)
                      /\ swap_endian_word(swap_endian_word(b)) = b
  BY SMT DEF swap_endian_word, le32dec, be32dec, Quad
<1>3. \A nonce \in Word : /\ swap_endian_word(Submitted(nonce)) = nonce_bin(nonce)
                          /\ be32dec(Submitted(nonce)) = nonce
  BY SMT, <1>1, WordsReturn DEF Submitted, nonce_bin
<1> QED
  BY <1>1, <1>2, <1>3

-----------------------------------------------------------------------------
(***************************************************************************)
(* The permutation of the sixteen 32-bit words of a sub-block in           *)
(* algos/yescrypt/yescrypt-opt_c.h, which BlockMix scales down to a        *)
(* rotation of bits: what it is, that it is undone when a block is stored, *)
(* and that integerify finds the first two words where it has put them.    *)
(* A sub-block is a function of the word's place; 64-bit word d holds the  *)
(* words 2 * d and 2 * d + 1.                                              *)
(***************************************************************************)
Place == 0 .. 15

(* COMBINE(out, in1, in2) of salsa20_simd_shuffle: the low half of each    *)
(* output comes from in1, the high half from in2.                          *)
ShuffleLow == [out \in 0 .. 7 |->
    CASE out = 0 -> 0 [] out = 1 -> 5 [] out = 2 -> 2 [] out = 3 -> 7
      [] out = 4 -> 4 [] out = 5 -> 1 [] out = 6 -> 6 [] OTHER -> 3]
ShuffleHigh == [out \in 0 .. 7 |->
    CASE out = 0 -> 2 [] out = 1 -> 7 [] out = 2 -> 4 [] out = 3 -> 1
      [] out = 4 -> 6 [] out = 5 -> 3 [] out = 6 -> 0 [] OTHER -> 5]

(* The same of salsa20_simd_unshuffle.                                     *)
UnshuffleLow == [out \in 0 .. 7 |->
    CASE out = 0 -> 0 [] out = 1 -> 5 [] out = 2 -> 2 [] out = 3 -> 7
      [] out = 4 -> 4 [] out = 5 -> 1 [] out = 6 -> 6 [] OTHER -> 3]
UnshuffleHigh == [out \in 0 .. 7 |->
    CASE out = 0 -> 6 [] out = 1 -> 3 [] out = 2 -> 0 [] out = 3 -> 5
      [] out = 4 -> 2 [] out = 5 -> 7 [] out = 6 -> 4 [] OTHER -> 1]

Combine(low, high, b) ==
    [k \in Place |-> IF k % 2 = 0 THEN b[2 * low[k \div 2]]
                                  ELSE b[2 * high[k \div 2] + 1]]

Shuffle(b) == Combine(ShuffleLow, ShuffleHigh, b)
Unshuffle(b) == Combine(UnshuffleLow, UnshuffleHigh, b)

(* integerify: the low half of word 0 and the high half of word 6.         *)
Integerify(b) == [lo |-> b[2 * 0], hi |-> b[2 * 6 + 1]]

(* The build with SSE2 (yescrypt-simd_c.h) has no tables: word k of the    *)
(* block in memory is word k * 5 % 16 of B, loaded and stored one by one.  *)
SimdLoad(b) == [k \in Place |-> b[(k * 5) % 16]]
SimdStored(x, b) == \A k \in Place : b[(k * 5) % 16] = x[k]

-----------------------------------------------------------------------------

(* The tables stay within the eight words, and undo each other.            *)
LEMMA TablesInverse ==
    \A d \in 0 .. 7 :
        /\ UnshuffleLow[d] \in 0 .. 7 /\ ShuffleLow[UnshuffleLow[d]] = d
        /\ UnshuffleHigh[d] \in 0 .. 7 /\ ShuffleHigh[UnshuffleHigh[d]] = d
<1>1. /\ ShuffleLow[0] = 0 /\ ShuffleLow[1] = 5 /\ ShuffleLow[2] = 2
     /\ ShuffleLow[3] = 7 /\ ShuffleLow[4] = 4 /\ ShuffleLow[5] = 1
     /\ ShuffleLow[6] = 6 /\ ShuffleLow[7] = 3
  BY DEF ShuffleLow
<1>2. /\ ShuffleHigh[0] = 2 /\ ShuffleHigh[1] = 7 /\ ShuffleHigh[2] = 4
     /\ ShuffleHigh[3] = 1 /\ ShuffleHigh[4] = 6 /\ ShuffleHigh[5] = 3
     /\ ShuffleHigh[6] = 0 /\ ShuffleHigh[7] = 5
  BY DEF ShuffleHigh
<1>3. /\ UnshuffleLow[0] = 0 /\ UnshuffleLow[1] = 5 /\ UnshuffleLow[2] = 2
     /\ UnshuffleLow[3] = 7 /\ UnshuffleLow[4] = 4 /\ UnshuffleLow[5] = 1
     /\ UnshuffleLow[6] = 6 /\ UnshuffleLow[7] = 3
  BY DEF UnshuffleLow
<1>4. /\ UnshuffleHigh[0] = 6 /\ UnshuffleHigh[1] = 3 /\ UnshuffleHigh[2] = 0
     /\ UnshuffleHigh[3] = 5 /\ UnshuffleHigh[4] = 2 /\ UnshuffleHigh[5] = 7
     /\ UnshuffleHigh[6] = 4 /\ UnshuffleHigh[7] = 1
  BY DEF UnshuffleHigh
<1>5. SUFFICES ASSUME NEW d \in 0 .. 7
              PROVE  /\ UnshuffleLow[d] \in 0 .. 7 /\ ShuffleLow[UnshuffleLow[d]] = d
                     /\ UnshuffleHigh[d] \in 0 .. 7 /\ ShuffleHigh[UnshuffleHigh[d]] = d
  OBVIOUS
<1>6. \/ d = 0 \/ d = 1 \/ d = 2 \/ d = 3 \/ d = 4 \/ d = 5 \/ d = 6 \/ d = 7
  OBVIOUS
<1> QED BY <1>1, <1>2, <1>3, <1>4, <1>6

(* A block that is loaded and stored again is the same block: every word   *)
(* returns to its place (smix1 and smix2 permute B on the way to X and V   *)
(* and undo it on the way back).                                           *)
THEOREM ShuffleUndone ==
    ASSUME NEW W, NEW b \in [Place -> W]
    PROVE  Unshuffle(Shuffle(b)) = b
<1>1. ASSUME NEW k \in Place
      PROVE  Unshuffle(Shuffle(b))[k] = b[k]
  <2> DEFINE d == k \div 2
  <2>1. d \in 0 .. 7 /\ k = IF k % 2 = 0 THEN 2 * d ELSE 2 * d + 1
    BY DEF Place
  <2>2. CASE k % 2 = 0
    <3>1. Unshuffle(Shuffle(b))[k] = Shuffle(b)[2 * UnshuffleLow[d]]
      BY <2>2 DEF Unshuffle, Combine
    <3>2. Shuffle(b)[2 * UnshuffleLow[d]] = b[2 * ShuffleLow[UnshuffleLow[d]]]
      <4>1. \A e \in 0 .. 7 : Shuffle(b)[2 * e] = b[2 * ShuffleLow[e]]
        <5> SUFFICES ASSUME NEW e \in 0 .. 7
                     PROVE  Shuffle(b)[2 * e] = b[2 * ShuffleLow[e]]
          OBVIOUS
        <5>1. 2 * e \in Place /\ (2 * e) % 2 = 0 /\ (2 * e) \div 2 = e
          BY DEF Place
        <5> QED BY <5>1 DEF Shuffle, Combine
      <4> QED BY <4>1, <2>1, TablesInverse
    <3> QED BY <3>1, <3>2, <2>1, <2>2, TablesInverse
  <2>3. CASE k % 2 # 0
    <3>1. Unshuffle(Shuffle(b))[k] = Shuffle(b)[2 * UnshuffleHigh[d] + 1]
      BY <2>3 DEF Unshuffle, Combine
    <3>2. Shuffle(b)[2 * UnshuffleHigh[d] + 1]
            = b[2 * ShuffleHigh[UnshuffleHigh[d]] + 1]
      <4>1. \A e \in 0 .. 7 : Shuffle(b)[2 * e + 1] = b[2 * ShuffleHigh[e] + 1]
        <5> SUFFICES ASSUME NEW e \in 0 .. 7
                     PROVE  Shuffle(b)[2 * e + 1] = b[2 * ShuffleHigh[e] + 1]
          OBVIOUS
        <5>1. /\ 2 * e + 1 \in Place
              /\ (2 * e + 1) % 2 # 0 /\ (2 * e + 1) \div 2 = e
          BY DEF Place
        <5> QED BY <5>1 DEF Shuffle, Combine
      <4> QED BY <4>1, <2>1, TablesInverse
    <3> QED BY <3>1, <3>2, <2>1, <2>3, TablesInverse
  <2> QED BY <2>2, <2>3
<1> QED BY <1>1 DEF Unshuffle, Combine

(* Permuting the exclusive or of two sub-blocks is the exclusive or of     *)
(* their permutations: the mixing may stay in the permuted order from the  *)
(* load of B to its store.  Xor is the operator ^ of one word.             *)
LEMMA ShuffleOfXorWords ==
    ASSUME NEW W, NEW Xor \in [W \X W -> W],
           NEW a \in [Place -> W], NEW b \in [Place -> W]
    PROVE  LET XorOf(x, y) == [k \in Place |-> Xor[<<x[k], y[k]>>]]
           IN  XorOf(Shuffle(a), Shuffle(b)) = Shuffle(XorOf(a, b))
<1> DEFINE XorOf(x, y) == [k \in Place |-> Xor[<<x[k], y[k]>>]]
           from == [k \in Place |-> IF k % 2 = 0 THEN 2 * ShuffleLow[k \div 2]
                                               ELSE 2 * ShuffleHigh[k \div 2] + 1]
<1>1. \A c : Shuffle(c) = [k \in Place |-> c[from[k]]]
  BY DEF Shuffle, Combine
<1>2. ASSUME NEW k \in Place PROVE from[k] \in Place
  <2>1. ASSUME NEW d \in 0 .. 7
        PROVE  ShuffleLow[d] \in 0 .. 7 /\ ShuffleHigh[d] \in 0 .. 7
    BY DEF ShuffleLow, ShuffleHigh
  <2>2. k \div 2 \in 0 .. 7
    BY DEF Place
  <2> QED
    BY <2>1, <2>2 DEF Place
<1> HIDE DEF from
<1>3. XorOf(Shuffle(a), Shuffle(b)) = Shuffle(XorOf(a, b))
  BY <1>1, <1>2
<1> QED
  BY <1>3

(* The number that chooses a row is made of the first two words of the     *)
(* last sub-block, although it is read after the permutation (integerify). *)
THEOREM IntegerifyOfShuffled ==
    ASSUME NEW W, NEW b \in [Place -> W]
    PROVE  Integerify(Shuffle(b)) = [lo |-> b[0], hi |-> b[1]]
<1>1. Shuffle(b)[0] = b[2 * ShuffleLow[0]]
  BY DEF Shuffle, Combine, Place
<1>2. Shuffle(b)[13] = b[2 * ShuffleHigh[6] + 1]
  BY 13 % 2 # 0, 13 \div 2 = 6 DEF Shuffle, Combine, Place
<1>3. ShuffleLow[0] = 0 /\ ShuffleHigh[6] = 0
  BY DEF ShuffleLow, ShuffleHigh
<1> QED BY <1>1, <1>2, <1>3 DEF Integerify

(* The two builds keep a block in the same order, so that their rows, the  *)
(* word that chooses a row and the state of the mixing can be compared:    *)
(* the loop over k * 5 % 16 (smix1 and smix2 of yescrypt-simd_c.h) is      *)
(* salsa20_simd_shuffle, and undone by its counterpart.                    *)
THEOREM SimdSameOrder ==
    ASSUME NEW W, NEW b \in [Place -> W]
    PROVE  /\ SimdLoad(b) = Shuffle(b)
           /\ \A c \in [Place -> W] : SimdStored(SimdLoad(b), c) => c = b
<1>1. /\ ShuffleLow[0] = 0 /\ ShuffleLow[1] = 5 /\ ShuffleLow[2] = 2
      /\ ShuffleLow[3] = 7 /\ ShuffleLow[4] = 4 /\ ShuffleLow[5] = 1
      /\ ShuffleLow[6] = 6 /\ ShuffleLow[7] = 3
  BY DEF ShuffleLow
<1>2. /\ ShuffleHigh[0] = 2 /\ ShuffleHigh[1] = 7 /\ ShuffleHigh[2] = 4
      /\ ShuffleHigh[3] = 1 /\ ShuffleHigh[4] = 6 /\ ShuffleHigh[5] = 3
      /\ ShuffleHigh[6] = 0 /\ ShuffleHigh[7] = 5
  BY DEF ShuffleHigh
<1>3. \A d \in 0 .. 7 : /\ 2 * ShuffleLow[d] = (2 * d * 5) % 16
                        /\ 2 * ShuffleHigh[d] + 1 = ((2 * d + 1) * 5) % 16
  <2> SUFFICES ASSUME NEW d \in 0 .. 7
               PROVE  /\ 2 * ShuffleLow[d] = (2 * d * 5) % 16
                      /\ 2 * ShuffleHigh[d] + 1 = ((2 * d + 1) * 5) % 16
    OBVIOUS
  <2>1. \/ d = 0 \/ d = 1 \/ d = 2 \/ d = 3 \/ d = 4 \/ d = 5 \/ d = 6 \/ d = 7
    OBVIOUS
  <2> QED
    BY <1>1, <1>2, <2>1
<1>4. ASSUME NEW k \in Place
      PROVE  Shuffle(b)[k] = b[(k * 5) % 16]
  <2> DEFINE d == k \div 2
  <2>1. d \in 0 .. 7 /\ k = IF k % 2 = 0 THEN 2 * d ELSE 2 * d + 1
    BY DEF Place
  <2>2. Shuffle(b)[k] = IF k % 2 = 0 THEN b[2 * ShuffleLow[d]]
                                     ELSE b[2 * ShuffleHigh[d] + 1]
    BY DEF Shuffle, Combine
  <2> HIDE DEF d
  <2> QED
    BY <1>3, <2>1, <2>2
<1>5. SimdLoad(b) = Shuffle(b)
  BY <1>4 DEF SimdLoad, Shuffle, Combine
<1>6. ASSUME NEW c \in [Place -> W], SimdStored(SimdLoad(b), c)
      PROVE  c = b
  <2>1. ASSUME NEW a \in Place
        PROVE  c[a] = b[a]
    <3>1. (a * 13) % 16 \in Place /\ (((a * 13) % 16) * 5) % 16 = a
      BY DEF Place
    <3> QED
      BY <1>6, <3>1 DEF SimdStored, SimdLoad
  <2> QED
    BY <2>1
<1> QED
  BY <1>5, <1>6

-----------------------------------------------------------------------------
(***************************************************************************)
(* The bytes of the region that yescrypt_kdf allocates and divides into B, *)
(* V, XY and S: the checks on its parameters at its head, the sizes it     *)
(* computes in a size_t that wraps around, and the addresses it derives.   *)
(* A build without OpenMP, of yescrypt-opt_c.h or of yescrypt-simd_c.h,    *)
(* for a size_t of any width from 32 bits on, and a call without the flag  *)
(* __YESCRYPT_INIT_SHARED (PyMiner never sets it).  The checks that bound  *)
(* no size (unknown flags, powers of two, t, the ROM) are left out.        *)
(***************************************************************************)

UInt32Max == 4294967295
UInt32 == {x \in Nat : x <= UInt32Max}

Typed ==
    /\ SizeMax \in Nat /\ SizeMax >= UInt32Max /\ (SizeMax + 1) % 256 = 0
    /\ Simd \in BOOLEAN /\ Pwxform \in BOOLEAN /\ Parallel \in BOOLEAN
    /\ N \in Nat /\ r \in UInt32 /\ p \in UInt32

(* A value of type size_t. *)
Size(x) == x % (SizeMax + 1)

SBoxSize == 8192       \* S_SIZE_ALL in bytes, which both files agree on

-----------------------------------------------------------------------------
(* "Sanity-check parameters": the checks that bound a size.                *)

AcceptedOpt ==
    /\ p <= SizeMax \div Size(Size(256 * r) + 64)
    /\ SizeMax \div 256 <= UInt32Max => r <= SizeMax \div 256
    /\ Pwxform /\ Parallel => p <= SizeMax \div SBoxSize

AcceptedSimd ==
    /\ N <= UInt32Max /\ N > 7
    /\ r <= (SizeMax \div 256) \div p
    /\ Pwxform /\ Parallel => p <= SizeMax \div SBoxSize

Accepted ==
    /\ r * p < 2 ^ 30
    /\ N > 1 /\ r >= 1 /\ p >= 1
    /\ N <= (SizeMax \div 128) \div r
    /\ IF Simd THEN AcceptedSimd ELSE AcceptedOpt

-----------------------------------------------------------------------------
(* "Allocate memory": need grows by one size at a time.                    *)

V_size == Size(Size(128 * r) * N)
B_size == Size(Size(128 * r) * p)
XY_size == IF Simd THEN Size(256 * r) ELSE Size(Size(256 * r) + 64)
S_size == IF ~ Pwxform THEN 0
          ELSE IF Parallel THEN Size(SBoxSize * p) ELSE SBoxSize

need_B == Size(V_size + B_size)
need_XY == Size(need_B + XY_size)
need == Size(need_XY + S_size)

(* Neither `need < ..._size` nor, in the malloc branch of alloc_region,    *)
(* `size + 63 < size` holds.                                               *)
NotRefused ==
    /\ need_B >= B_size /\ need_XY >= XY_size /\ need >= S_size
    /\ Size(need + 63) >= need

(* alloc_region: the first multiple of 64 that is not below the block (the *)
(* blocks of the mmap branch are such multiples themselves).               *)
Aligned(base) == (base + 63) - ((base + 63) % 64)

B(base) == Aligned(base)
V(base) == B(base) + B_size
XY(base) == V(base) + V_size
S(base) == XY(base) + XY_size

-----------------------------------------------------------------------------

(* A value that fits in a size_t is kept, and what does not fit by less    *)
(* than its range comes out smaller by that range.                         *)
LEMMA Reduced ==
    ASSUME NEW M \in Nat, NEW x \in Nat
    PROVE  /\ x <= M => x % (M + 1) = x
           /\ x > M /\ x <= 2 * M + 1 => x % (M + 1) = x - (M + 1)
BY SMT

(* A check that divides is one that multiplies and cannot wrap. *)
LEMMA DivBound ==
    ASSUME NEW a \in Nat, NEW b \in Nat, b > 0, NEW c \in Nat, c <= a \div b
    PROVE  b * c <= a
BY SMT

(* `need += size; if (need < size)` sees every sum that wraps around.      *)
LEMMA SumDetected ==
    ASSUME NEW M \in Nat, NEW a \in 0 .. M, NEW b \in 0 .. M,
           (a + b) % (M + 1) >= b
    PROVE  (a + b) % (M + 1) = a + b /\ a + b <= M
<1>1. CASE a + b <= M
  BY <1>1, Reduced, SMT
<1>2. CASE a + b > M
  <2>1. (a + b) % (M + 1) = (a + b) - (M + 1)
    BY <1>2, Reduced, SMT
  <2> QED
    BY <2>1, SMT
<1> QED
  BY <1>1, <1>2, SMT

(* The checks at the head bound each size by itself.                       *)
LEMMA EachFits ==
    ASSUME Typed, Accepted
    PROVE  /\ 128 * r <= SizeMax /\ (128 * r) * N <= SizeMax
           /\ (128 * r) * p <= SizeMax
           /\ 256 * r <= SizeMax /\ (~ Simd => 256 * r + 64 <= SizeMax)
           /\ (Pwxform /\ Parallel => SBoxSize * p <= SizeMax)
<1>1. /\ SizeMax \in Nat /\ N \in Nat /\ r \in Nat /\ p \in Nat
      /\ N > 1 /\ r >= 1 /\ p >= 1 /\ r <= UInt32Max
  BY SMT DEF Typed, Accepted, UInt32
<1>2. (128 * r) * N <= SizeMax
  <2>1. SizeMax \div 128 \in Nat /\ 128 * (SizeMax \div 128) <= SizeMax
    BY <1>1, SMT
  <2> DEFINE q == SizeMax \div 128
  <2>2. N <= q \div r
    BY DEF Accepted
  <2> HIDE DEF q
  <2>3. r * N <= q
    BY <1>1, <2>1, <2>2, DivBound, SMT DEF q
  <2>4. (128 * r) * N = 128 * (r * N)
    BY <1>1, SMT
  <2> QED
    BY <1>1, <2>1, <2>3, <2>4, SMT DEF q
<1>3. 128 * r <= SizeMax
  BY <1>1, <1>2, SMT
<1>4. Pwxform /\ Parallel => SBoxSize * p <= SizeMax
  <2>1. Pwxform /\ Parallel => p <= SizeMax \div SBoxSize
    BY DEF Accepted, AcceptedOpt, AcceptedSimd
  <2> QED
    BY <1>1, <2>1, DivBound, SMT DEF SBoxSize
<1>5. CASE Simd
  <2>1. r <= (SizeMax \div 256) \div p
    BY <1>5 DEF Accepted, AcceptedSimd
  <2>2. SizeMax \div 256 \in Nat /\ 256 * (SizeMax \div 256) <= SizeMax
    BY <1>1, SMT
  <2>3. p * r <= SizeMax \div 256
    BY <1>1, <2>1, <2>2, DivBound, SMT
  <2>4. 256 * (p * r) <= SizeMax
    BY <1>1, <2>2, <2>3, SMT
  <2>5. (128 * r) * p = 128 * (p * r) /\ r <= p * r /\ p * r \in Nat
    BY <1>1, SMT
  <2>6. (128 * r) * p <= SizeMax /\ 256 * r <= SizeMax
    BY <1>1, <2>4, <2>5, SMT
  <2> QED
    BY <1>2, <1>3, <1>4, <1>5, <2>6
<1>6. CASE ~ Simd
  <2>1. /\ p <= SizeMax \div Size(Size(256 * r) + 64)
        /\ SizeMax \div 256 <= UInt32Max => r <= SizeMax \div 256
    BY <1>6 DEF Accepted, AcceptedOpt
  <2>2. 256 * r + 64 <= SizeMax
    <3>1. (SizeMax + 1) % 256 = 0
      BY DEF Typed
    <3> QED
      BY <1>1, <2>1, <3>1, SMT DEF UInt32Max
  <2>3. Size(Size(256 * r) + 64) = 256 * r + 64
    <3>1. Size(256 * r) = 256 * r
      BY <1>1, <2>2, Reduced, SMT DEF Size
    <3> QED
      BY <1>1, <2>2, <3>1, Reduced, SMT DEF Size
  <2>4. (256 * r + 64) * p <= SizeMax
    BY <1>1, <2>1, <2>3, DivBound, SMT
  <2>5. (256 * r + 64) * p = 2 * ((128 * r) * p) + 64 * p /\ (128 * r) * p \in Nat
    BY <1>1, SMT
  <2>6. (128 * r) * p <= SizeMax
    BY <1>1, <2>4, <2>5, SMT
  <2> QED
    BY <1>1, <1>2, <1>3, <1>4, <1>6, <2>2, <2>6, SMT
<1> QED
  BY <1>5, <1>6

(* What yescrypt_kdf computes in a size_t is what it means to compute.     *)
THEOREM SizesExact ==
    ASSUME Typed, Accepted, NotRefused
    PROVE  /\ V_size = 128 * r * N /\ B_size = 128 * r * p
           /\ XY_size = IF Simd THEN 256 * r ELSE 256 * r + 64
           /\ S_size = IF ~ Pwxform THEN 0
                       ELSE IF Parallel THEN SBoxSize * p ELSE SBoxSize
           /\ need = V_size + B_size + XY_size + S_size
           /\ need + 63 <= SizeMax
<1>1. /\ SizeMax \in Nat /\ N \in Nat /\ r \in Nat /\ p \in Nat
      /\ SizeMax >= UInt32Max /\ Simd \in BOOLEAN /\ Pwxform \in BOOLEAN
  BY SMT DEF Typed, UInt32
<1>2. \A x \in Nat : x <= SizeMax => Size(x) = x /\ x \in 0 .. SizeMax
  BY <1>1, Reduced, SMT DEF Size
<1>3. \A x, y \in 0 .. SizeMax :
        Size(x + y) >= y => Size(x + y) = x + y /\ x + y \in 0 .. SizeMax
  <2> SUFFICES ASSUME NEW x \in 0 .. SizeMax, NEW y \in 0 .. SizeMax,
                      (x + y) % (SizeMax + 1) >= y
               PROVE  /\ (x + y) % (SizeMax + 1) = x + y
                      /\ x + y \in 0 .. SizeMax
    BY DEF Size
  <2>1. (x + y) % (SizeMax + 1) = x + y /\ x + y <= SizeMax
    BY <1>1, SumDetected
  <2> QED
    BY <1>1, <2>1, SMT
<1>4. V_size = 128 * r * N /\ V_size \in 0 .. SizeMax
  <2>1. 128 * r \in Nat /\ (128 * r) * N \in Nat
    BY <1>1, SMT
  <2> QED
    BY <1>2, <2>1, EachFits DEF V_size
<1>5. B_size = 128 * r * p /\ B_size \in 0 .. SizeMax
  <2>1. 128 * r \in Nat /\ (128 * r) * p \in Nat
    BY <1>1, SMT
  <2> QED
    BY <1>2, <2>1, EachFits DEF B_size
<1>6. /\ XY_size = IF Simd THEN 256 * r ELSE 256 * r + 64
      /\ XY_size \in 0 .. SizeMax
  <2>1. 256 * r \in Nat /\ 256 * r + 64 \in Nat
    BY <1>1, SMT
  <2> QED
    BY <1>2, <2>1, EachFits DEF XY_size
<1>7. /\ S_size = IF ~ Pwxform THEN 0
                  ELSE IF Parallel THEN SBoxSize * p ELSE SBoxSize
      /\ S_size \in 0 .. SizeMax
  <2>1. /\ SBoxSize * p \in Nat
        /\ SBoxSize \in 0 .. SizeMax /\ 0 \in 0 .. SizeMax
    BY <1>1, SMT DEF SBoxSize, UInt32Max
  <2> QED
    BY <1>2, <2>1, EachFits DEF S_size
<1>8. need_B = V_size + B_size /\ need_B \in 0 .. SizeMax
  BY <1>3, <1>4, <1>5 DEF NotRefused, need_B
<1>9. need_XY = need_B + XY_size /\ need_XY \in 0 .. SizeMax
  BY <1>3, <1>6, <1>8 DEF NotRefused, need_XY
<1>10. need = need_XY + S_size /\ need \in 0 .. SizeMax
  BY <1>3, <1>7, <1>9 DEF NotRefused, need
<1>11. need + 63 <= SizeMax
  <2>1. 63 \in 0 .. SizeMax /\ 63 + need = need + 63
    BY <1>1, <1>10, SMT DEF UInt32Max
  <2>2. Size(63 + need) >= need
    BY <2>1 DEF NotRefused
  <2> QED
    BY <1>1, <1>3, <1>10, <2>1, <2>2, SMT
<1> QED
  BY <1>1, <1>4, <1>5, <1>6, <1>7, <1>8, <1>9, <1>10, <1>11, SMT

(* The size that YescryptRegion keeps for a region, Need, is the one that  *)
(* the code adds up with PyMiner's flags, whatever its parameters; with    *)
(* SSE2 it is 64 bytes less, as XY has no room for Z.                      *)
THEOREM RegionNeedIsExact ==
    ASSUME Typed, Accepted, NotRefused, Pwxform, ~ Parallel, SBoxBytes = SBoxSize
    PROVE  IF Simd THEN need + 64 = Need ELSE need = Need
<1>1. /\ Simd \in BOOLEAN /\ N \in Nat /\ r \in Nat /\ p \in Nat
  BY SMT DEF Typed, UInt32
<1> DEFINE v == 128 * r * N
           b == 128 * r * p
           xy == 256 * r
<1>2. v \in Nat /\ b \in Nat /\ xy \in Nat
  BY <1>1, SMT
<1>3. need = v + b + (IF Simd THEN xy ELSE xy + 64) + SBoxSize
  BY SizesExact
<1>4. Need = v + b + (xy + 64) + SBoxSize
  BY DEF Need
<1> HIDE DEF v, b, xy
<1> QED
  BY <1>1, <1>2, <1>3, <1>4, SMT DEF SBoxSize

(* Wherever malloc puts the block of need + 63 bytes, the four regions lie *)
(* inside it, one after the other, each on a multiple of 64 as smix        *)
(* requires.                                                               *)
THEOREM LayoutFits ==
    ASSUME Typed, Accepted, NotRefused, NEW base \in Nat
    PROVE  /\ base <= B(base)
           /\ V(base) = B(base) + 128 * r * p
           /\ XY(base) = V(base) + 128 * r * N
           /\ S(base) = XY(base) + (IF Simd THEN 256 * r ELSE 256 * r + 64)
           /\ S(base) + (IF Pwxform THEN SBoxSize ELSE 0) <= base + (need + 63)
           /\ B(base) % 64 = 0 /\ V(base) % 64 = 0
           /\ XY(base) % 64 = 0 /\ S(base) % 64 = 0
<1>1. /\ N \in Nat /\ r \in Nat /\ p \in Nat /\ p >= 1
      /\ Simd \in BOOLEAN /\ Pwxform \in BOOLEAN /\ Parallel \in BOOLEAN
  BY SMT DEF Typed, Accepted, UInt32
<1> DEFINE a == Aligned(base)
<1>2. a \in Nat /\ a % 64 = 0 /\ base <= a /\ a <= base + 63
  BY SMT DEF Aligned
<1> HIDE DEF a
<1>3. B(base) = a
  BY DEF B, a
<1> DEFINE b == r * p
           v == r * N
<1>4. /\ b \in Nat /\ v \in Nat
      /\ 128 * r * p = 128 * b /\ 128 * r * N = 128 * v
  BY <1>1, SMT
<1>5. /\ V(base) = a + 128 * b
      /\ XY(base) = a + 128 * b + 128 * v
      /\ S(base) = a + 128 * b + 128 * v + (IF Simd THEN 256 * r ELSE 256 * r + 64)
  BY <1>1, <1>2, <1>3, <1>4, SizesExact, SMT DEF V, XY, S
<1> HIDE DEF b, v
<1>6. /\ (a + 128 * b) % 64 = 0 /\ (a + 128 * b + 128 * v) % 64 = 0
      /\ (a + 128 * b + 128 * v + 256 * r) % 64 = 0
      /\ (a + 128 * b + 128 * v + (256 * r + 64)) % 64 = 0
  BY <1>1, <1>2, <1>4, SMT
<1>7. S_size >= IF Pwxform THEN SBoxSize ELSE 0
  BY <1>1, SizesExact, SMT DEF SBoxSize
<1>8. need = 128 * v + 128 * b + XY_size + S_size
  BY <1>4, SizesExact
<1> QED
  BY <1>1, <1>2, <1>3, <1>4, <1>5, <1>6, <1>7, <1>8, SizesExact, SMT DEF SBoxSize

(* The parameters of PyMiner's own call (YESCRYPT_N, _R, _P, _FLAGS) pass  *)
(* every check in both builds, and it then needs 2 MiB of V, 8 KiB of S,   *)
(* 1 KiB of B and 2 KiB of XY, with 64 more bytes when SSE2 is not there.  *)
THEOREM BitzenyAccepted ==
    ASSUME Typed, N = 2048, r = 8, p = 1, Pwxform, ~ Parallel
    PROVE  /\ Accepted /\ NotRefused
           /\ need = IF Simd THEN 2108416 ELSE 2108480
<1>1. SizeMax \in Nat /\ SizeMax >= UInt32Max /\ Simd \in BOOLEAN
  BY DEF Typed
<1>2. \A x \in Nat : x <= SizeMax => Size(x) = x
  BY <1>1, Reduced, SMT DEF Size
<1>3. /\ Size(1024) = 1024 /\ Size(2048) = 2048 /\ Size(2112) = 2112
      /\ Size(2097152) = 2097152 /\ Size(2098176) = 2098176
  BY <1>1, <1>2, SMT DEF UInt32Max
<1>4. /\ Size(2100224) = 2100224 /\ Size(2100288) = 2100288
      /\ Size(2108416) = 2108416 /\ Size(2108480) = 2108480
      /\ Size(2108479) = 2108479 /\ Size(2108543) = 2108543
  BY <1>1, <1>2, SMT DEF UInt32Max
<1>5. /\ 128 * r = 1024 /\ 1024 * N = 2097152 /\ 1024 * p = 1024
      /\ 256 * r = 2048 /\ 2048 + 64 = 2112
  BY SMT
<1>6. /\ V_size = 2097152 /\ B_size = 1024 /\ S_size = 8192
      /\ XY_size = IF Simd THEN 2048 ELSE 2112
  BY <1>3, <1>5 DEF V_size, B_size, S_size, XY_size, SBoxSize
<1>7. need_B = 2098176
  <2>1. 2097152 + 1024 = 2098176
    BY SMT
  <2> QED
    BY <1>3, <1>6, <2>1 DEF need_B
<1>8. need_XY = IF Simd THEN 2100224 ELSE 2100288
  <2>1. 2098176 + 2048 = 2100224 /\ 2098176 + 2112 = 2100288
    BY SMT
  <2> QED
    BY <1>4, <1>6, <1>7, <2>1 DEF need_XY
<1>9. need = IF Simd THEN 2108416 ELSE 2108480
  <2>1. 2100224 + 8192 = 2108416 /\ 2100288 + 8192 = 2108480
    BY SMT
  <2> QED
    BY <1>4, <1>6, <1>8, <2>1 DEF need
<1>10. NotRefused
  <2>1. 2108416 + 63 = 2108479 /\ 2108480 + 63 = 2108543
    BY SMT
  <2>2. Size(need + 63) = IF Simd THEN 2108479 ELSE 2108543
    BY <1>4, <1>9, <2>1
  <2> QED
    BY <1>6, <1>7, <1>8, <1>9, <2>2, SMT DEF NotRefused
<1>11. Accepted
  <2>1. r * p < 2 ^ 30
    BY SMT
  <2>2. N <= (SizeMax \div 128) \div r /\ r <= (SizeMax \div 256) \div p
    BY <1>1, SMT DEF UInt32Max
  <2>3. p <= SizeMax \div 2112 /\ r <= SizeMax \div 256
    BY <1>1, SMT DEF UInt32Max
  <2>4. Size(Size(256 * r) + 64) = 2112
    BY <1>3, <1>5
  <2>5. N > 7 /\ N <= UInt32Max /\ r >= 1 /\ p >= 1
    BY SMT DEF UInt32Max
  <2>6. N > 1
    BY SMT
  <2> QED
    BY <2>1, <2>2, <2>3, <2>4, <2>5, <2>6
       DEF Accepted, AcceptedOpt, AcceptedSimd
<1> QED
  BY <1>9, <1>10, <1>11

-----------------------------------------------------------------------------
(***************************************************************************)
(* The bytes of the scratchpad of scrypt_1024_1_1_256_sp                   *)
(* (algos/scrypt/scrypt.c), which Scratchpad describes in sub-blocks: the  *)
(* array on the stack may start anywhere, its first aligned address is the *)
(* start of B, and V must end before the array does.                       *)
(***************************************************************************)

scrypt_N == 1024
scrypt_r == 1
scrypt_p == 1
ScratchpadSize == 131583       \* char scratchpad[131583]

scrypt_B(scratchpad) == Aligned(scratchpad)
scrypt_XY(scratchpad) == scrypt_B(scratchpad) + 128 * scrypt_r * scrypt_p
scrypt_V(scratchpad) == scrypt_XY(scratchpad) + (256 * scrypt_r + 64)
EndOfV(scratchpad) == scrypt_V(scratchpad) + 128 * scrypt_r * scrypt_N

(* The first multiple of 64 that is not below an address.                  *)
LEMMA AlignedUp ==
    ASSUME NEW address \in Nat
    PROVE  /\ Aligned(address) \in Nat /\ Aligned(address) % 64 = 0
           /\ address <= Aligned(address) /\ Aligned(address) <= address + 63
BY DEF Aligned

(* Wherever the array starts, the three regions lie inside it, one after   *)
(* the other, each on a multiple of 64 as smix requires; and the 63 spare  *)
(* bytes are needed: at some address the last one is used.                 *)
THEOREM ScratchpadFits ==
    /\ \A scratchpad \in Nat :
          /\ scratchpad <= scrypt_B(scratchpad)
          /\ scrypt_B(scratchpad) < scrypt_XY(scratchpad)
          /\ scrypt_XY(scratchpad) < scrypt_V(scratchpad)
          /\ EndOfV(scratchpad) <= scratchpad + ScratchpadSize
          /\ scrypt_B(scratchpad) % 64 = 0 /\ scrypt_XY(scratchpad) % 64 = 0
          /\ scrypt_V(scratchpad) % 64 = 0
    /\ \E scratchpad \in Nat : EndOfV(scratchpad) = scratchpad + ScratchpadSize
<1>1. ASSUME NEW scratchpad \in Nat
      PROVE  /\ scratchpad <= scrypt_B(scratchpad)
             /\ scrypt_B(scratchpad) < scrypt_XY(scratchpad)
             /\ scrypt_XY(scratchpad) < scrypt_V(scratchpad)
             /\ EndOfV(scratchpad) <= scratchpad + ScratchpadSize
             /\ scrypt_B(scratchpad) % 64 = 0 /\ scrypt_XY(scratchpad) % 64 = 0
             /\ scrypt_V(scratchpad) % 64 = 0
  <2> DEFINE a == Aligned(scratchpad)
  <2>1. /\ a \in Nat /\ a % 64 = 0 /\ scratchpad <= a /\ a <= scratchpad + 63
    BY AlignedUp
  <2>2. /\ scrypt_B(scratchpad) = a
        /\ scrypt_XY(scratchpad) = a + 128
        /\ scrypt_V(scratchpad) = a + 448
        /\ EndOfV(scratchpad) = a + 131520
    BY <2>1 DEF scrypt_B, scrypt_XY, scrypt_V, EndOfV, scrypt_N, scrypt_r, scrypt_p
  <2> HIDE DEF a
  <2>3. (a + 128) % 64 = 0 /\ (a + 448) % 64 = 0
    BY <2>1
  <2> QED BY <2>1, <2>2, <2>3 DEF ScratchpadSize
<1>2. EndOfV(1) = 1 + ScratchpadSize
  BY DEF EndOfV, scrypt_V, scrypt_XY, scrypt_B, Aligned, scrypt_N, scrypt_r,
         scrypt_p, ScratchpadSize
<1> QED BY <1>1, <1>2

-----------------------------------------------------------------------------
(***************************************************************************)
(* The region of a thread: who owns which block, from one call to the      *)
(* next (YescryptRegion).                                                  *)
(***************************************************************************)

Region == [base : Blocks, size : {Need}] \union {Empty}

(* The shapes that the rest of the invariant takes for granted.            *)
Shape ==
    /\ build \in {"gcc", "clang"}
    /\ thread \in [Threads -> {"new", "running", "ended"}]
    /\ initialized \in [Threads -> BOOLEAN]
    /\ local \in [Threads -> Region]
    /\ heap \in SUBSET [id : Blocks, size : {Need}]
    /\ lost \in SUBSET Blocks
    /\ call \in [thread : Threads \union {None}, retval : {0, -1},
                 step : {"idle", "entered", "kdf", "compute", "computed", "failed"}]

(* malloc never returns a block in use, so its name has one size; and a    *)
(* lost block is in use.                                                   *)
HeapInv ==
    /\ \A b \in heap, c \in heap : b.id = c.id => b = c
    /\ \A x \in lost : \E b \in heap : b.id = x

(* A region belongs to a running thread, and it is a block in use that no  *)
(* other thread has.  gcc: it was made after the thread was initialized,   *)
(* so initializing loses nothing.  clang: it was made by the call in       *)
(* progress.                                                               *)
OwnerInv ==
    \A q \in Threads : local[q] # Empty =>
        /\ thread[q] = "running"
        /\ \E b \in heap : b.id = local[q].base
        /\ local[q].base \notin lost
        /\ \A o \in Threads \ {q} : local[o].base # local[q].base
        /\ build = "gcc" => initialized[q]
        /\ build = "clang" => /\ call.thread = q
                              /\ call.step \in {"compute", "computed"}

(* What the steps of a call rely on.                                       *)
CallInv ==
    /\ call.step = "idle" => call = Idle
    /\ call.step # "idle" => call.thread \in Threads
    /\ call.step # "idle" => thread[call.thread] = "running"
    /\ call.step \in {"kdf", "compute", "computed", "failed"} /\ build = "gcc"
         => initialized[call.thread]
    /\ call.step \in {"compute", "computed"} => local[call.thread] # Empty
    /\ call.step = "failed" => local[call.thread] = Empty

(* A clang build never initializes a thread and never loses a block.       *)
BuildInv ==
    build = "clang" => lost = {} /\ \A q \in Threads : ~ initialized[q]

(* A block in use has an owner or was lost with its thread.                *)
BlockInv ==
    \A b \in heap : b.id \in lost \/ \E q \in Threads : local[q].base = b.id

RegionInv ==
    Shape /\ HeapInv /\ OwnerInv /\ CallInv /\ BuildInv /\ BlockInv

-----------------------------------------------------------------------------
(* Sizes and regions.                                                      *)

(* A product of naturals is one. *)
LEMMA ProductNat ==
    ASSUME NEW a \in Nat, NEW b \in Nat
    PROVE  a * b \in Nat
OBVIOUS

(* No hash does without memory. *)
LEMMA NeedPositive == Need \in Nat /\ Need > 0
<1>1. r * N \in Nat /\ r * p \in Nat
  BY RegionAssumption, ProductNat
<1>2. 128 * r * N = 128 * (r * N) /\ 128 * r * p = 128 * (r * p)
  BY RegionAssumption
<1> DEFINE a == r * N
           b == r * p
<1>3. Need = 128 * a + 128 * b + (256 * r + 64) + SBoxBytes
  BY <1>2 DEF Need
<1> HIDE DEF a, b
<1>4. a \in Nat /\ b \in Nat
  BY <1>1 DEF a, b
<1> QED
  BY <1>3, <1>4, RegionAssumption

(* A region is empty, or it is a block of exactly the size needed.         *)
LEMMA RegionSize ==
    ASSUME NEW g \in Region
    PROVE  /\ g.size >= Need <=> g # Empty
           /\ g.size < Need <=> g = Empty
           /\ g # Empty => g.base \in Blocks /\ g.base # None
           /\ g = Empty => g.base = None
<1>1. CASE g = Empty
  BY <1>1, NeedPositive DEF Empty
<1>2. CASE g # Empty
  <2>1. g.base \in Blocks /\ g.size = Need
    BY <1>2 DEF Region
  <2> QED
    BY <1>2, <2>1, NeedPositive, RegionAssumption
<1> QED
  BY <1>1, <1>2

(* Freeing a region without a block frees nothing.                         *)
LEMMA FreedNothing == Shape => Freed(Empty) = heap
BY RegionAssumption DEF Shape, Freed, Empty

(* At first no thread has run and no block is allocated. *)
LEMMA RegionInvInit == RegionInit => RegionInv
<1> SUFFICES ASSUME RegionInit PROVE RegionInv
  OBVIOUS
<1> USE DEF RegionInit
<1>1. Shape
  BY DEF Shape, Region, Idle
<1>2. HeapInv /\ OwnerInv /\ BuildInv /\ BlockInv
  BY DEF HeapInv, OwnerInv, BuildInv, BlockInv
<1>3. CallInv
  BY DEF CallInv, Idle
<1> QED
  BY <1>1, <1>2, <1>3 DEF RegionInv

-----------------------------------------------------------------------------
(* Every step keeps the invariant.                                         *)

(* Calls, allocations and their failures, ends of threads: each keeps every*)
(* part.                                                                   *)
LEMMA RegionInvNext == RegionInv /\ [RegionNext]_vars => RegionInv'
<1> SUFFICES ASSUME RegionInv, [RegionNext]_vars PROVE RegionInv'
  OBVIOUS
<1>i. Shape /\ HeapInv /\ OwnerInv /\ CallInv /\ BuildInv /\ BlockInv
  BY DEF RegionInv
<1>a. None \notin Blocks /\ None \notin Threads
  BY RegionAssumption
<1>0. CASE UNCHANGED vars
  <2> USE <1>0 DEF vars
  <2>1. Shape' /\ HeapInv'
    BY <1>i DEF Shape, HeapInv, Region, Need
  <2>2. OwnerInv' /\ BlockInv'
    BY <1>i DEF OwnerInv, BlockInv
  <2>3. CallInv' /\ BuildInv'
    BY <1>i DEF CallInv, BuildInv
  <2> QED
    BY <2>1, <2>2, <2>3 DEF RegionInv
<1>1. ASSUME NEW q \in Threads, Start(q) PROVE RegionInv'
  <2> USE <1>1 DEF Start
  <2>1. Shape' /\ HeapInv'
    BY <1>i DEF Shape, HeapInv, Region
  <2>2. \A o \in Threads : thread[o] = "running" => thread'[o] = "running"
    BY <1>i DEF Shape
  <2>3. OwnerInv' /\ BlockInv' /\ BuildInv'
    BY <1>i, <2>2 DEF OwnerInv, BlockInv, BuildInv
  <2>4. CallInv'
    BY <1>i, <2>2 DEF CallInv
  <2> QED
    BY <2>1, <2>3, <2>4 DEF RegionInv
<1>2. ASSUME NEW q \in Threads, End(q) PROVE RegionInv'
  <2> USE <1>2 DEF End
  <2> DEFINE gone == {b.id : b \in {c \in heap : c.id = local[q].base}}
  <2>1. /\ local[q] \in Region /\ local'[q] = Empty
        /\ initialized'[q] = FALSE
        /\ \A o \in Threads \ {q} : /\ local'[o] = local[o]
                                    /\ thread'[o] = thread[o]
                                    /\ initialized'[o] = initialized[o]
    BY <1>i DEF Shape
  <2>2. \A x \in gone : x = local[q].base /\ \E b \in heap : b.id = x
    OBVIOUS
  <2>3. lost' = lost \union gone /\ heap' = heap
    OBVIOUS
  <2>4. Shape'
    <3>1. gone \subseteq Blocks
      BY <1>i DEF Shape
    <3>2. local' \in [Threads -> Region]
      BY <1>i, <2>1 DEF Shape, Region
    <3> QED
      BY <1>i, <2>3, <3>1, <3>2 DEF Shape, Region
  <2>5. HeapInv'
    BY <1>i, <2>2, <2>3 DEF HeapInv
  <2>6. OwnerInv'
    <3> SUFFICES ASSUME NEW o \in Threads, local'[o] # Empty
                 PROVE  /\ thread'[o] = "running"
                        /\ \E b \in heap : b.id = local'[o].base
                        /\ local'[o].base \notin lost \union gone
                        /\ \A s \in Threads \ {o} : local'[s].base # local'[o].base
                        /\ build = "gcc" => initialized'[o]
                        /\ build = "clang" => /\ call.thread = o
                                              /\ call.step \in {"compute", "computed"}
      BY <2>3 DEF OwnerInv
    <3>1. o # q /\ local'[o] = local[o] /\ local[o] # Empty
      BY <2>1
    <3>2. local[o].base \in Blocks
      BY <1>i, <3>1, RegionSize DEF Shape
    <3>3. \A s \in Threads \ {o} : local[s].base # local[o].base
      BY <1>i, <3>1 DEF OwnerInv
    <3>4. \A s \in Threads \ {o} : local'[s].base # local'[o].base
      BY <1>a, <2>1, <3>1, <3>2, <3>3 DEF Empty
    <3>5. local[o].base \notin gone
      BY <2>2, <3>1, <3>3
    <3> QED
      BY <1>i, <2>1, <3>1, <3>4, <3>5 DEF OwnerInv
  <2>7. CallInv'
    <3>1. call.thread \in Threads => call.thread # q
      OBVIOUS
    <3> QED
      BY <1>i, <2>1, <3>1 DEF CallInv
  <2>8. BuildInv'
    <3> SUFFICES ASSUME build = "clang"
                 PROVE  lost' = {} /\ \A o \in Threads : ~ initialized'[o]
      BY DEF BuildInv
    <3>1. local[q] = Empty
      BY <1>i DEF OwnerInv
    <3>2. gone = {}
      BY <1>i, <1>a, <3>1 DEF Shape, Empty
    <3> QED
      BY <1>i, <2>1, <2>3, <3>2 DEF BuildInv
  <2>9. BlockInv'
    <3> SUFFICES ASSUME NEW b \in heap
                 PROVE  b.id \in lost' \/ \E o \in Threads : local'[o].base = b.id
      BY <2>3 DEF BlockInv
    <3>1. CASE b.id = local[q].base
      BY <2>3, <3>1
    <3>2. CASE b.id # local[q].base
      BY <1>i, <2>1, <2>3, <3>2 DEF BlockInv
    <3> QED
      BY <3>1, <3>2
  <2> QED
    BY <2>4, <2>5, <2>6, <2>7, <2>8, <2>9 DEF RegionInv
<1>3. ASSUME NEW q \in Threads, Call(q) PROVE RegionInv'
  <2> USE <1>3 DEF Call
  <2>1. Shape' /\ HeapInv' /\ BuildInv' /\ BlockInv'
    BY <1>i DEF Shape, HeapInv, BuildInv, BlockInv, Region
  <2>2. OwnerInv'
    <3>1. build = "clang" => \A o \in Threads : local[o] = Empty
      BY <1>i DEF OwnerInv, Idle
    <3>2. UNCHANGED <<build, thread, initialized, local, heap, lost>>
      OBVIOUS
    <3> QED
      BY <1>i, <3>1, <3>2 DEF OwnerInv
  <2>3. CallInv'
    BY <1>i DEF CallInv
  <2> QED
    BY <2>1, <2>2, <2>3 DEF RegionInv
<1>4. CASE Initialize
  <2> USE <1>4 DEF Initialize
  <2> DEFINE q == call.thread
             reset == build = "clang" \/ ~ initialized[q]
  <2>1. /\ q \in Threads /\ thread[q] = "running"
        /\ call'.thread = q /\ call'.step = "kdf"
    BY <1>i DEF CallInv, Shape
  <2>2. local[q] # Empty => ~ reset
    BY <1>i, <2>1 DEF OwnerInv, Shape
  <2>3. UNCHANGED local
    <3>1. CASE reset
      BY <1>i, <2>1, <2>2, <3>1 DEF Shape
    <3>2. CASE ~ reset
      BY <3>2
    <3> QED
      BY <3>1, <3>2
  <2>4. /\ \A o \in Threads : initialized[o] /\ build = "gcc" => initialized'[o]
        /\ build = "gcc" => initialized'[q]
        /\ build = "clang" => \A o \in Threads : initialized'[o] = FALSE
        /\ initialized' \in [Threads -> BOOLEAN]
    <3>1. CASE reset
      <4>1. initialized' = [initialized EXCEPT ![q] = (build = "gcc")]
        BY <3>1
      <4>2. initialized \in [Threads -> BOOLEAN] /\ (build = "gcc") \in BOOLEAN
        BY <1>i DEF Shape
      <4>3. initialized' \in [Threads -> BOOLEAN]
        BY <4>1, <4>2
      <4>4. initialized'[q] = (build = "gcc")
        BY <2>1, <4>1, <4>2
      <4>5. \A o \in Threads \ {q} : initialized'[o] = initialized[o]
        BY <4>1, <4>2
      <4>6. build = "clang" => \A o \in Threads : initialized'[o] = FALSE
        BY <1>i, <4>2, <4>4, <4>5 DEF BuildInv
      <4> QED
        BY <4>3, <4>4, <4>5, <4>6
    <3>2. CASE ~ reset
      BY <1>i, <2>1, <3>2 DEF Shape, BuildInv
    <3> QED
      BY <3>1, <3>2
  <2>5. call.step = "entered" /\ UNCHANGED <<build, thread, heap, lost>>
    OBVIOUS
  <2>6. Shape'
    BY <1>i, <2>3, <2>4, <2>5 DEF Shape, Region
  <2>7. HeapInv' /\ BuildInv' /\ BlockInv'
    BY <1>i, <2>3, <2>4, <2>5 DEF HeapInv, BuildInv, BlockInv
  <2>8. OwnerInv'
    BY <1>i, <2>3, <2>4, <2>5 DEF OwnerInv
  <2>9. CallInv'
    BY <1>i, <2>1, <2>3, <2>4, <2>5 DEF CallInv
  <2> QED
    BY <2>6, <2>7, <2>8, <2>9 DEF RegionInv
<1>5. CASE Reuse
  <2> USE <1>5 DEF Reuse
  <2>1. /\ call.thread \in Threads /\ call'.thread = call.thread
        /\ call'.step = "compute" /\ call.step = "kdf"
    BY <1>i DEF CallInv, Shape
  <2>2. local[call.thread] # Empty
    BY <1>i, <2>1, RegionSize DEF Shape
  <2>3. Shape' /\ HeapInv' /\ BuildInv' /\ BlockInv'
    BY <1>i DEF Shape, HeapInv, BuildInv, BlockInv, Region
  <2>4. UNCHANGED <<build, thread, initialized, local, heap, lost>>
    OBVIOUS
  <2>5. OwnerInv'
    BY <1>i, <2>1, <2>4 DEF OwnerInv
  <2>6. CallInv'
    BY <1>i, <2>1, <2>2, <2>4 DEF CallInv
  <2> QED
    BY <2>3, <2>5, <2>6 DEF RegionInv
<1>6. CASE Allocate
  <2> USE <1>6 DEF Allocate
  <2> DEFINE q == call.thread
  <2>1. /\ q \in Threads /\ call'.thread = q
        /\ call'.step = "compute" /\ call.step = "kdf"
        /\ thread[q] = "running"
        /\ build = "gcc" => initialized[q]
    BY <1>i DEF CallInv, Shape
  <2>2. local[q] = Empty
    BY <1>i, <2>1, RegionSize DEF Shape
  <2>3. Freed(local[q]) = heap
    BY <1>i, <2>2, FreedNothing
  <2>4. PICK x \in Blocks \ {c.id : c \in heap} :
            /\ heap' = heap \union {[id |-> x, size |-> Need]}
            /\ local' = [local EXCEPT ![q] = [base |-> x, size |-> Need]]
    BY <2>3
  <2> DEFINE new == [id |-> x, size |-> Need]
  <2>5. /\ new.id = x /\ new \in [id : Blocks, size : {Need}]
        /\ \A c \in heap : c.id # x
        /\ \A c \in heap' : c = new \/ c \in heap
        /\ new \in heap' /\ heap \subseteq heap'
    BY <2>4
  <2>6. /\ local'[q] \in Region /\ local'[q].base = x /\ local'[q] # Empty
        /\ \A o \in Threads \ {q} : local'[o] = local[o]
        /\ local' \in [Threads -> Region]
    BY <1>i, <1>a, <2>1, <2>4 DEF Shape, Region, Empty
  <2>7. UNCHANGED <<build, thread, initialized, lost>>
    OBVIOUS
  <2>8. x \notin lost /\ \A o \in Threads \ {q} : local[o].base # x
    <3>1. x \notin lost
      BY <1>i, <2>5 DEF HeapInv
    <3>2. ASSUME NEW o \in Threads \ {q}, local[o].base = x PROVE FALSE
      <4>1. local[o] # Empty
        BY <1>a, <2>4, <3>2 DEF Empty
      <4>2. \E b \in heap : b.id = x
        BY <1>i, <3>2, <4>1 DEF OwnerInv
      <4> QED
        BY <2>5, <4>2
    <3> QED
      BY <3>1, <3>2
  <2> HIDE DEF new
  <2>9. Shape'
    <3>1. heap' \in SUBSET [id : Blocks, size : {Need}]
      BY <1>i, <2>5 DEF Shape
    <3>2. call' \in [thread : Threads \union {None}, retval : {0, -1},
                     step : {"idle", "entered", "kdf", "compute", "computed", "failed"}]
      BY <1>i DEF Shape
    <3> QED
      BY <1>i, <2>6, <2>7, <3>1, <3>2 DEF Shape, Region, Need
  <2>10. HeapInv'
    BY <1>i, <2>5, <2>7 DEF HeapInv
  <2>11. OwnerInv'
    <3> SUFFICES ASSUME NEW o \in Threads, local'[o] # Empty
                 PROVE  /\ thread'[o] = "running"
                        /\ \E b \in heap' : b.id = local'[o].base
                        /\ local'[o].base \notin lost'
                        /\ \A s \in Threads \ {o} : local'[s].base # local'[o].base
                        /\ build' = "gcc" => initialized'[o]
                        /\ build' = "clang" => /\ call'.thread = o
                                               /\ call'.step \in {"compute", "computed"}
      BY DEF OwnerInv
    <3>1. CASE o = q
      <4>1. \A s \in Threads \ {q} : local'[s].base # local'[q].base
        BY <2>6, <2>8
      <4>2. \E b \in heap' : b.id = local'[q].base
        BY <2>5, <2>6
      <4>3. thread'[q] = "running" /\ local'[q].base \notin lost'
        BY <2>1, <2>6, <2>7, <2>8
      <4>4. build' = "gcc" => initialized'[q]
        BY <2>1, <2>7
      <4>5. call'.thread = q /\ call'.step \in {"compute", "computed"}
        BY <2>1
      <4> QED
        BY <3>1, <4>1, <4>2, <4>3, <4>4, <4>5
    <3>2. CASE o # q
      <4>1. local'[o] = local[o] /\ local[o] # Empty
        BY <2>6, <3>2
      <4>2. build # "clang"
        BY <1>i, <2>1, <4>1 DEF OwnerInv
      <4>3. \A s \in Threads \ {o} : local'[s].base # local'[o].base
        <5> SUFFICES ASSUME NEW s \in Threads \ {o}
                     PROVE  local'[s].base # local[o].base
          BY <4>1
        <5>1. CASE s = q
          BY <2>6, <2>8, <3>2, <5>1
        <5>2. CASE s # q
          BY <1>i, <2>6, <4>1, <5>2 DEF OwnerInv
        <5> QED
          BY <5>1, <5>2
      <4>4. \E b \in heap' : b.id = local'[o].base
        BY <1>i, <2>5, <4>1 DEF OwnerInv
      <4>5. /\ thread[o] = "running" /\ local[o].base \notin lost
            /\ build = "gcc" => initialized[o]
        BY <1>i, <4>1 DEF OwnerInv
      <4> QED
        BY <2>7, <4>1, <4>2, <4>3, <4>4, <4>5
    <3> QED
      BY <3>1, <3>2
  <2>12. CallInv'
    BY <1>i, <2>1, <2>6, <2>7 DEF CallInv
  <2>13. BuildInv'
    BY <1>i, <2>7 DEF BuildInv
  <2>14. BlockInv'
    <3> SUFFICES ASSUME NEW b \in heap'
                 PROVE  b.id \in lost \/ \E o \in Threads : local'[o].base = b.id
      BY <2>7 DEF BlockInv
    <3>1. CASE b = new
      BY <2>1, <2>5, <2>6, <3>1
    <3>2. CASE b \in heap
      <4>1. CASE b.id \in lost
        BY <4>1
      <4>2. CASE b.id \notin lost
        <5>1. PICK o \in Threads : local[o].base = b.id
          BY <1>i, <3>2, <4>2 DEF BlockInv
        <5>2. o # q
          BY <1>i, <1>a, <2>2, <3>2, <5>1 DEF Shape, Empty
        <5> QED
          BY <2>6, <5>1, <5>2
      <4> QED
        BY <4>1, <4>2
    <3> QED
      BY <2>5, <3>1, <3>2
  <2> QED
    BY <2>9, <2>10, <2>11, <2>12, <2>13, <2>14 DEF RegionInv
<1>7. CASE AllocationFails
  <2> USE <1>7 DEF AllocationFails
  <2>1. /\ call.thread \in Threads /\ call'.thread = call.thread
        /\ call'.step = "failed" /\ call.step = "kdf"
    BY <1>i DEF CallInv, Shape
  <2>2. local[call.thread] = Empty
    BY <1>i, <2>1, RegionSize DEF Shape
  <2>3. heap' = heap /\ local' = local
    BY <1>i, <2>1, <2>2, FreedNothing DEF Shape
  <2>4. UNCHANGED <<build, thread, initialized, lost>>
    OBVIOUS
  <2>5. Shape'
    BY <1>i, <2>3, <2>4 DEF Shape, Region
  <2>6. HeapInv' /\ BuildInv' /\ BlockInv'
    BY <1>i, <2>3, <2>4 DEF HeapInv, BuildInv, BlockInv
  <2>7. OwnerInv'
    BY <1>i, <2>1, <2>3, <2>4 DEF OwnerInv
  <2>8. CallInv'
    BY <1>i, <2>1, <2>2, <2>3, <2>4 DEF CallInv
  <2> QED
    BY <2>5, <2>6, <2>7, <2>8 DEF RegionInv
<1>8. CASE Compute
  <2> USE <1>8 DEF Compute
  <2>1. /\ call.thread \in Threads /\ call'.thread = call.thread
        /\ call'.step = "computed" /\ call.step = "compute"
    BY <1>i DEF CallInv, Shape
  <2>2. UNCHANGED <<build, thread, initialized, local, heap, lost>>
    OBVIOUS
  <2>3. Shape' /\ HeapInv' /\ BuildInv' /\ BlockInv'
    BY <1>i DEF Shape, HeapInv, BuildInv, BlockInv, Region
  <2>4. OwnerInv' /\ CallInv'
    BY <1>i, <2>1, <2>2 DEF OwnerInv, CallInv
  <2> QED
    BY <2>3, <2>4 DEF RegionInv
<1>9. CASE Succeed
  <2> USE <1>9 DEF Succeed
  <2>1. build = "gcc" /\ call' = Idle /\ Idle.step = "idle"
    BY DEF Idle
  <2>2. UNCHANGED <<build, thread, initialized, local, heap, lost>>
    OBVIOUS
  <2>3. Shape' /\ HeapInv' /\ BuildInv' /\ BlockInv'
    BY <1>i DEF Shape, HeapInv, BuildInv, BlockInv, Region, Idle
  <2>4. OwnerInv' /\ CallInv'
    BY <1>i, <2>1, <2>2 DEF OwnerInv, CallInv
  <2> QED
    BY <2>3, <2>4 DEF RegionInv
<1>10. CASE Free
  <2> USE <1>10 DEF Free
  <2> DEFINE q == call.thread
  <2>1. /\ q \in Threads /\ local[q] \in Region /\ call.step # "idle"
        /\ call' = Idle /\ Idle.step = "idle"
    BY <1>i DEF CallInv, Shape, Idle
  <2>2. /\ heap' = {b \in heap : b.id # local[q].base}
        /\ local' = [local EXCEPT ![q] = Empty]
        /\ UNCHANGED <<build, thread, initialized, lost>>
    BY DEF Freed
  <2>3. /\ local'[q] = Empty
        /\ \A o \in Threads \ {q} : local'[o] = local[o]
        /\ local' \in [Threads -> Region]
    BY <1>i, <2>1, <2>2 DEF Shape, Region
  <2>4. Shape'
    <3>1. call' \in [thread : Threads \union {None}, retval : {0, -1},
                     step : {"idle", "entered", "kdf", "compute", "computed", "failed"}]
      BY <2>1 DEF Idle
    <3>2. heap' \subseteq heap
      BY <2>2
    <3> QED
      BY <1>i, <2>2, <2>3, <3>1, <3>2 DEF Shape, Region, Need
  <2>5. HeapInv'
    <3>1. local[q].base \notin lost
      <4>1. CASE local[q] = Empty
        BY <1>i, <1>a, <4>1 DEF Shape, Empty
      <4>2. CASE local[q] # Empty
        BY <1>i, <2>1, <4>2 DEF OwnerInv
      <4> QED
        BY <4>1, <4>2
    <3> QED
      BY <1>i, <2>2, <3>1 DEF HeapInv
  <2>6. OwnerInv'
    <3> SUFFICES ASSUME NEW o \in Threads, local'[o] # Empty
                 PROVE  /\ thread[o] = "running"
                        /\ \E b \in heap' : b.id = local'[o].base
                        /\ local'[o].base \notin lost
                        /\ \A s \in Threads \ {o} : local'[s].base # local'[o].base
                        /\ build = "gcc" => initialized[o]
                        /\ build # "clang"
      BY <2>2 DEF OwnerInv
    <3>1. o # q /\ local'[o] = local[o] /\ local[o] # Empty
      BY <2>3
    <3>2. local[o].base \in Blocks
      BY <1>i, <3>1, RegionSize DEF Shape
    <3>3. \A s \in Threads \ {o} : local[s].base # local[o].base
      BY <1>i, <3>1 DEF OwnerInv
    <3>4. \A s \in Threads \ {o} : local'[s].base # local'[o].base
      BY <1>a, <2>3, <3>1, <3>2, <3>3 DEF Empty
    <3>5. \E b \in heap' : b.id = local'[o].base
      <4>1. PICK b \in heap : b.id = local[o].base
        BY <1>i, <3>1 DEF OwnerInv
      <4>2. b.id # local[q].base
        BY <2>1, <3>1, <3>3, <4>1
      <4> QED
        BY <2>2, <3>1, <4>1, <4>2
    <3> QED
      BY <1>i, <3>1, <3>4, <3>5 DEF OwnerInv
  <2>7. CallInv' /\ BuildInv'
    BY <1>i, <2>1, <2>2 DEF CallInv, BuildInv
  <2>8. BlockInv'
    <3> SUFFICES ASSUME NEW b \in heap, b.id # local[q].base
                 PROVE  b.id \in lost \/ \E o \in Threads : local'[o].base = b.id
      BY <2>2 DEF BlockInv
    <3> QED
      BY <1>i, <2>3 DEF BlockInv
  <2> QED
    BY <2>4, <2>5, <2>6, <2>7, <2>8 DEF RegionInv
<1> QED
  BY <1>0, <1>1, <1>2, <1>3, <1>4, <1>5, <1>6, <1>7, <1>8, <1>9, <1>10 DEF RegionNext

-----------------------------------------------------------------------------

(* The inductive invariant of the memory of yescrypt.                      *)
THEOREM RegionInvariant == RegionSpec => []RegionInv
<1> QED
  BY RegionInvInit, RegionInvNext, PTL DEF RegionSpec

(* Shapes, and a region only in a running thread (yescrypt_region_t).      *)
THEOREM RegionTypeCorrect == RegionSpec => []RegionTypeOK
<1>1. RegionInv => RegionTypeOK
  BY RegionAssumption DEF RegionInv, Shape, Region, OwnerInv, BuildInv, RegionTypeOK
<1> QED
  BY <1>1, RegionInvariant, PTL

(* Nothing is used after it was freed, nor freed twice, nor shared.        *)
THEOREM RegionAlwaysLive == RegionSpec => []RegionsLive
<1>1. RegionInv => RegionsLive
  <2> SUFFICES ASSUME RegionInv, NEW q \in Threads, local[q] # Empty
               PROVE  /\ [id |-> local[q].base, size |-> local[q].size] \in heap
                      /\ local[q].base \notin lost
                      /\ \A o \in Threads \ {q} : local[o].base # local[q].base
    BY DEF RegionsLive
  <2>1. PICK b \in heap : b.id = local[q].base
    BY DEF RegionInv, OwnerInv
  <2>2. b \in [id : Blocks, size : {Need}] /\ local[q].size = Need
    BY DEF RegionInv, Shape, Region
  <2>3. b = [id |-> local[q].base, size |-> local[q].size]
    BY <2>1, <2>2
  <2> QED
    BY <2>3 DEF RegionInv, OwnerInv
<1> QED
  BY <1>1, RegionInvariant, PTL

(* Blocks are lost with their threads only, and never in a clang build.    *)
THEOREM RegionNothingElseLost == RegionSpec => []NothingElseLost
<1>1. RegionInv => NothingElseLost
  <2> SUFFICES ASSUME RegionInv PROVE NothingElseLost
    OBVIOUS
  <2>1. ASSUME build = "clang", call = Idle, NEW b \in heap PROVE FALSE
    <3>1. lost = {} /\ \A q \in Threads : local[q] = Empty
      BY <2>1 DEF RegionInv, BuildInv, OwnerInv, Idle
    <3>2. \E q \in Threads : local[q].base = b.id
      BY <3>1 DEF RegionInv, BlockInv
    <3>3. b.id = None /\ b.id \in Blocks
      BY <3>1, <3>2 DEF RegionInv, Shape, Empty
    <3> QED
      BY <3>3, RegionAssumption
  <2> QED
    BY <2>1 DEF NothingElseLost, RegionInv, BlockInv
<1> QED
  BY <1>1, RegionInvariant, PTL

(* yescrypt_kdf computes in a region that is big enough.                   *)
THEOREM RegionRoomToCompute == RegionSpec => []RoomToCompute
<1>1. RegionInv => RoomToCompute
  <2> SUFFICES ASSUME RegionInv, call.step \in {"compute", "computed"}
               PROVE  /\ local[call.thread].size >= Need
                      /\ \E b \in heap : /\ b.id = local[call.thread].base
                                         /\ b.size >= Need
    BY DEF RoomToCompute
  <2>1. call.thread \in Threads /\ local[call.thread] # Empty
    BY DEF RegionInv, CallInv
  <2>2. local[call.thread].size >= Need
    BY <2>1, RegionSize DEF RegionInv, Shape
  <2>3. PICK b \in heap : b.id = local[call.thread].base
    BY <2>1 DEF RegionInv, OwnerInv
  <2>4. b.size = Need
    BY DEF RegionInv, Shape
  <2> QED
    BY <2>2, <2>3, <2>4, NeedPositive
<1> QED
  BY <1>1, RegionInvariant, PTL

=============================================================================
