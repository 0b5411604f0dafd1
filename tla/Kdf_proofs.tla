----------------------------- MODULE Kdf_proofs -----------------------------
(***************************************************************************)
(* Proofs about SHA-256, HMAC, PBKDF2 and the key derivations around the   *)
(* mixing, for inputs of any length and blocks, digests and words of any   *)
(* size: the stream that buffers and counts computes the digest of the     *)
(* whole message.                                                          *)
(***************************************************************************)
EXTENDS Kdf, Induction, SequenceTheorems

-----------------------------------------------------------------------------
(* Quotients and remainders.                                               *)

(* A number is made of its quotient and its remainder. *)
LEMMA Divide ==
  ASSUME NEW n \in Nat, NEW m \in Nat \ {0}
  PROVE  /\ n \div m \in Nat /\ n % m \in Nat /\ n % m < m
         /\ n = m * (n \div m) + (n % m)
BY SMT

(* A quotient and a remainder are found again. *)
LEMMA Divided ==
  ASSUME NEW m \in Nat \ {0}, NEW q \in Nat, NEW r \in Nat, r < m
  PROVE  (m * q + r) \div m = q /\ (m * q + r) % m = r
<1> DEFINE n == m * q + r
           d == n \div m
           e == n % m
<1>1. n \in Nat
  OBVIOUS
<1>2. d \in Nat /\ e \in Nat /\ e < m /\ n = m * d + e
  BY <1>1, Divide
<1>3. m * q + r = m * d + e
  BY <1>2
<1> HIDE DEF n, d, e
<1>4. d = q
  <2>1. CASE d > q
    <3> DEFINE k == d - q - 1
    <3>1. k \in Nat /\ d = q + 1 + k
      BY <1>2, <2>1
    <3> HIDE DEF k
    <3>2. m * d = m * q + m + m * k /\ m * k \in Nat /\ m * q \in Nat
      BY <3>1
    <3> QED
      BY <1>2, <1>3, <3>2
  <2>2. CASE q > d
    <3> DEFINE k == q - d - 1
    <3>1. k \in Nat /\ q = d + 1 + k
      BY <1>2, <2>2
    <3> HIDE DEF k
    <3>2. m * q = m * d + m + m * k /\ m * k \in Nat /\ m * d \in Nat
      BY <1>2, <3>1
    <3> QED
      BY <1>2, <1>3, <3>2
  <2> QED
    BY <1>2, <2>1, <2>2
<1>5. e = r
  <2>1. m * q \in Nat
    OBVIOUS
  <2> QED
    BY <1>2, <1>3, <1>4, <2>1
<1> QED
  BY <1>4, <1>5 DEF d, e, n

(* Whole multiples do not change a remainder. *)
LEMMA RemainderOfSum ==
  ASSUME NEW m \in Nat \ {0}, NEW q \in Nat, NEW n \in Nat
  PROVE  (m * q + n) % m = n % m
<1> DEFINE d == n \div m
           e == n % m
<1>1. d \in Nat /\ e \in Nat /\ e < m /\ n = m * d + e
  BY Divide
<1> HIDE DEF d, e
<1>2. m * q + n = m * (q + d) + e /\ q + d \in Nat
  BY <1>1
<1>3. (m * (q + d) + e) % m = e
  BY <1>1, <1>2, Divided
<1> QED
  BY <1>2, <1>3 DEF e

-----------------------------------------------------------------------------
(* Sequences of bytes.  A byte of a digest is made of the blocks that were *)
(* absorbed, so there is no one set of bytes: a sequence is one over the   *)
(* set of its own elements.                                                *)

IsSeq(s) == s \in Seq({s[k] : k \in DOMAIN s})

(* A function on the first n numbers is a sequence of length n. *)
LEMMA FunctionIsSeq ==
  ASSUME NEW n \in Nat, NEW s, s = [k \in 1 .. n |-> s[k]]
  PROVE  IsSeq(s) /\ Len(s) = n /\ DOMAIN s = 1 .. n
<1> DEFINE V == {s[k] : k \in DOMAIN s}
<1>1. DOMAIN s = 1 .. n
  OBVIOUS
<1>2. s \in [1 .. n -> V]
  BY <1>1
<1> HIDE DEF V
<1>3. s \in Seq(V)
  BY <1>2, SeqDef
<1>4. Len(s) \in Nat /\ DOMAIN s = 1 .. Len(s)
  BY <1>3, LenProperties
<1>5. Len(s) = n
  BY <1>1, <1>4
<1> QED
  BY <1>1, <1>3, <1>5 DEF IsSeq, V

(* And a sequence is such a function. *)
LEMMA SeqIsFunction ==
  ASSUME NEW s, IsSeq(s)
  PROVE  /\ Len(s) \in Nat /\ DOMAIN s = 1 .. Len(s)
         /\ s = [k \in 1 .. Len(s) |-> s[k]]
<1> DEFINE V == {s[k] : k \in DOMAIN s}
<1>1. s \in Seq(V)
  BY DEF IsSeq
<1> HIDE DEF V
<1>2. Len(s) \in Nat /\ DOMAIN s = 1 .. Len(s) /\ s \in [1 .. Len(s) -> V]
  BY <1>1, LenProperties
<1> QED
  BY <1>2

(* Sequences of one length with the same elements are equal. *)
LEMMA SameSeq ==
  ASSUME NEW s, NEW t, IsSeq(s), IsSeq(t), Len(s) = Len(t),
         \A k \in 1 .. Len(s) : s[k] = t[k]
  PROVE  s = t
BY SeqIsFunction

(* A sequence is one over any set that has its elements. *)
LEMMA OverLargerSet ==
  ASSUME NEW s, IsSeq(s), NEW V, \A k \in 1 .. Len(s) : s[k] \in V
  PROVE  s \in Seq(V)
<1>1. Len(s) \in Nat /\ s \in [1 .. Len(s) -> V]
  BY SeqIsFunction
<1> QED
  BY <1>1, SeqDef

(* The empty sequence. *)
LEMMA EmptyIsSeq == IsSeq(<<>>) /\ Len(<<>>) = 0
BY EmptySeq DEF IsSeq

(* A sequence of one element. *)
LEMMA SingleIsSeq ==
  ASSUME NEW e
  PROVE  IsSeq(<<e>>) /\ Len(<<e>>) = 1 /\ <<e>>[1] = e
BY DEF IsSeq

(* c is s and then t. *)
IsConcat(c, s, t) ==
  /\ IsSeq(c) /\ Len(c) = Len(s) + Len(t)
  /\ \A k \in 1 .. Len(s) : c[k] = s[k]
  /\ \A k \in 1 .. Len(t) : c[Len(s) + k] = t[k]

(* A concatenation is one sequence and then the other. *)
LEMMA Concatenation ==
  ASSUME NEW s, NEW t, IsSeq(s), IsSeq(t)
  PROVE  IsConcat(s \o t, s, t)
<1> DEFINE V == {s[k] : k \in 1 .. Len(s)} \union {t[k] : k \in 1 .. Len(t)}
           n == Len(s) + Len(t)
<1>1. s \in Seq(V) /\ t \in Seq(V)
  <2>1. \A k \in 1 .. Len(s) : s[k] \in V
    OBVIOUS
  <2>2. \A k \in 1 .. Len(t) : t[k] \in V
    OBVIOUS
  <2> HIDE DEF V
  <2> QED
    BY <2>1, <2>2, OverLargerSet
<1>0. Len(s) \in Nat /\ Len(t) \in Nat
  BY SeqIsFunction
<1> HIDE DEF V
<1>2. /\ s \o t \in Seq(V) /\ Len(s \o t) = n
      /\ \A k \in 1 .. n : (s \o t)[k] = IF k <= Len(s) THEN s[k] ELSE t[k - Len(s)]
  BY <1>1, ConcatProperties
<1>3. s \o t = [k \in 1 .. n |-> (s \o t)[k]] /\ n \in Nat
  BY <1>0, <1>2, LenProperties
<1> HIDE DEF n
<1>4. IsSeq(s \o t)
  BY <1>3, FunctionIsSeq
<1>5. \A k \in 1 .. Len(s) : (s \o t)[k] = s[k]
  BY <1>0, <1>2 DEF n
<1>6. ASSUME NEW k \in 1 .. Len(t) PROVE (s \o t)[Len(s) + k] = t[k]
  <2>1. Len(s) + k \in 1 .. n /\ ~ (Len(s) + k <= Len(s)) /\ (Len(s) + k) - Len(s) = k
    BY <1>0 DEF n
  <2> QED
    BY <1>2, <2>1
<1> QED
  BY <1>2, <1>4, <1>5, <1>6 DEF n, IsConcat

(* The part of a sequence from place m + 1 to place n. *)
LEMMA PartOfSeq ==
  ASSUME NEW s, NEW m \in Nat, NEW n \in Nat, m <= n
  PROVE  LET p == SubSeq(s, m + 1, n)
         IN  IsSeq(p) /\ Len(p) = n - m /\ \A k \in 1 .. n - m : p[k] = s[m + k]
<1> DEFINE V == {s[k] : k \in m + 1 .. n}
           p == SubSeq(s, m + 1, n)
<1>1. \A k \in m + 1 .. n : s[k] \in V
  OBVIOUS
<1> HIDE DEF V
<1>2. /\ p \in Seq(V)
      /\ Len(p) = IF m + 1 <= n THEN n - (m + 1) + 1 ELSE 0
      /\ \A k \in 1 .. n - (m + 1) + 1 : p[k] = s[m + 1 + k - 1]
  BY <1>1, SubSeqProperties
<1> HIDE DEF p
<1>3. Len(p) = n - m /\ n - m \in Nat
  BY <1>2
<1>4. \A k \in 1 .. n - m : p[k] = s[m + k]
  <2> TAKE k \in 1 .. n - m
  <2>1. k \in 1 .. n - (m + 1) + 1 /\ m + 1 + k - 1 = m + k
    OBVIOUS
  <2> QED
    BY <1>2, <2>1
<1>5. p = [k \in 1 .. n - m |-> p[k]]
  BY <1>2, <1>3, LenProperties
<1>6. IsSeq(p)
  BY <1>3, <1>5, FunctionIsSeq
<1> QED
  BY <1>3, <1>4, <1>6 DEF p

(* The first n elements. *)
LEMMA PrefixOfSeq ==
  ASSUME NEW s, NEW n \in Nat
  PROVE  /\ IsSeq(Prefix(s, n)) /\ Len(Prefix(s, n)) = n
         /\ \A k \in 1 .. n : Prefix(s, n)[k] = s[k]
<1>1. 0 + 1 = 1 /\ n - 0 = n /\ \A k \in 1 .. n : 0 + k = k
  OBVIOUS
<1>2. LET p == SubSeq(s, 0 + 1, n)
      IN  IsSeq(p) /\ Len(p) = n - 0 /\ \A k \in 1 .. n - 0 : p[k] = s[0 + k]
  <2>1. 0 \in Nat /\ 0 <= n
    OBVIOUS
  <2> QED
    BY <2>1, PartOfSeq, Zenon
<1> QED
  BY <1>1, <1>2 DEF Prefix

(* What follows the first n elements. *)
LEMMA SuffixOfSeq ==
  ASSUME NEW s, IsSeq(s), NEW n \in Nat, n <= Len(s)
  PROVE  /\ IsSeq(Suffix(s, n)) /\ Len(Suffix(s, n)) = Len(s) - n
         /\ \A k \in 1 .. Len(s) - n : Suffix(s, n)[k] = s[n + k]
<1>1. Len(s) \in Nat
  BY SeqIsFunction
<1> QED
  BY <1>1, PartOfSeq DEF Suffix

(* The empty sequence adds nothing, in front or behind. *)
LEMMA EmptyAppended ==
  ASSUME NEW s, IsSeq(s)
  PROVE  s \o <<>> = s /\ <<>> \o s = s
<1>1. s \in Seq({s[k] : k \in DOMAIN s})
  BY DEF IsSeq
<1> QED
  BY <1>1, ConcatEmptySeq, Zenon

(* Concatenation is associative. *)
LEMMA Associative ==
  ASSUME NEW s, NEW t, NEW u, IsSeq(s), IsSeq(t), IsSeq(u)
  PROVE  (s \o t) \o u = s \o (t \o u)
<1> DEFINE V == {s[k] : k \in 1 .. Len(s)} \union {t[k] : k \in 1 .. Len(t)}
                  \union {u[k] : k \in 1 .. Len(u)}
<1>1. (\A k \in 1 .. Len(s) : s[k] \in V) /\ (\A k \in 1 .. Len(t) : t[k] \in V)
      /\ (\A k \in 1 .. Len(u) : u[k] \in V)
  OBVIOUS
<1> HIDE DEF V
<1>2. s \in Seq(V) /\ t \in Seq(V) /\ u \in Seq(V)
  BY <1>1, OverLargerSet
<1> QED
  BY <1>2, ConcatAssociative

-----------------------------------------------------------------------------
(* The counter: two words that hold the length in bits.                    *)

(* The sizes, and that a word counts whole blocks. *)
LEMMA Sizes ==
  /\ BlockSize \in Nat \ {0} /\ BlockSize > 2
  /\ HashSize \in Nat \ {0} /\ HashSize <= BlockSize
  /\ Word \in Nat \ {0}
  /\ \E c \in Nat \ {0} : Word = 8 * (BlockSize * c)
<1>1. /\ BlockSize \in Nat \ {0} /\ BlockSize > 2
      /\ HashSize \in Nat \ {0} /\ HashSize <= BlockSize
  BY Sha256Sizes
<1>2. Word \in Nat /\ Word > 8 * BlockSize /\ Word % (8 * BlockSize) = 0
  BY Sha256Sizes DEF Word
<1>3. Word \in Nat \ {0}
  BY <1>1, <1>2
<1>4. \E c \in Nat \ {0} : Word = 8 * (BlockSize * c)
  <2> DEFINE m == 8 * BlockSize
             c == Word \div m
  <2>1. m \in Nat \ {0}
    BY <1>1
  <2> HIDE DEF m
  <2>2. c \in Nat /\ Word = m * c + (Word % m)
    BY <1>2, <2>1, Divide
  <2>3. Word % m = 0
    BY <1>2 DEF m
  <2> HIDE DEF c
  <2>4. Word = m * c
    BY <2>1, <2>2, <2>3
  <2>5. c # 0
    BY <1>3, <2>1, <2>4
  <2>6. Word = 8 * (BlockSize * c)
    BY <1>1, <2>2, <2>4 DEF m
  <2> QED
    BY <2>2, <2>5, <2>6
<1> QED
  BY <1>1, <1>3, <1>4

Low(len) == (8 * len) % Word
High(len) == ((8 * len) \div Word) % Word

(* The place in the block in progress can be read off the low word. *)
LEMMA PlaceInBlock ==
  ASSUME NEW len \in Nat
  PROVE  (Low(len) \div 8) % BlockSize = len % BlockSize
<1>1. PICK c \in Nat \ {0} : Word = 8 * (BlockSize * c)
  BY Sizes
<1>b. BlockSize \in Nat \ {0}
  BY Sizes
<1> DEFINE w == BlockSize * c
           q == len \div w
           r == len % w
<1>2. w \in Nat \ {0}
  BY <1>b
<1>3. q \in Nat /\ r \in Nat /\ r < w /\ len = w * q + r
  BY <1>2, Divide
<1>4. Low(len) = 8 * r
  <2> HIDE DEF w, q, r
  <2>1. 8 * len = (8 * w) * q + 8 * r /\ 8 * r < 8 * w /\ 8 * w \in Nat \ {0}
    BY <1>2, <1>3
  <2>2. 8 * r \in Nat
    BY <1>3
  <2>3. ((8 * w) * q + 8 * r) % (8 * w) = 8 * r
    BY <1>3, <2>1, <2>2, Divided
  <2> QED
    BY <1>1, <2>1, <2>3 DEF Low, w
<1>5. Low(len) \div 8 = r
  <2> HIDE DEF w, q, r
  <2> QED
    BY <1>3, <1>4
<1>6. len = BlockSize * (c * q) + r /\ c * q \in Nat
  <2> HIDE DEF q, r
  <2>1. len = (BlockSize * c) * q + r
    BY <1>3
  <2> QED
    BY <1>b, <1>3, <2>1
<1>7. len % BlockSize = r % BlockSize
  <2> DEFINE k == c * q
  <2> HIDE DEF w, q, r, k
  <2>1. k \in Nat /\ len = BlockSize * k + r
    BY <1>6 DEF k
  <2>2. (BlockSize * k + r) % BlockSize = r % BlockSize
    BY <1>b, <1>3, <2>1, RemainderOfSum
  <2> QED
    BY <2>1, <2>2
<1> QED
  BY <1>5, <1>7

(* The two words of the sum of two lengths: the low word has wrapped       *)
(* exactly when it is smaller than what was added to it.                   *)
LEMMA LengthAdded ==
  ASSUME NEW a \in Nat, NEW b \in Nat
  PROVE  LET low == Low(b)
             sum == (Low(a) + low) % Word
             carry == IF sum < low THEN 1 ELSE 0
         IN  /\ sum = Low(a + b)
             /\ (High(a) + carry + (b \div (Word \div 8))) % Word = High(a + b)
<1> DEFINE ra == (8 * a) % Word
           rb == (8 * b) % Word
           qa == (8 * a) \div Word
           qb == (8 * b) \div Word
           sum == (ra + rb) % Word
           carry == IF sum < rb THEN 1 ELSE 0
<1>w. Word \in Nat \ {0}
  BY Sizes
<1>1. ra \in Nat /\ ra < Word /\ qa \in Nat /\ 8 * a = Word * qa + ra
  <2>1. 8 * a \in Nat
    OBVIOUS
  <2> QED
    BY <1>w, <2>1, Divide
<1>2. rb \in Nat /\ rb < Word /\ qb \in Nat /\ 8 * b = Word * qb + rb
  <2>1. 8 * b \in Nat
    OBVIOUS
  <2> QED
    BY <1>w, <2>1, Divide
<1>3. b \div (Word \div 8) = qb
  <2>1. PICK c \in Nat \ {0} : Word = 8 * (BlockSize * c)
    BY Sizes
  <2> DEFINE w == BlockSize * c
             q == b \div w
             r == b % w
  <2>2. w \in Nat \ {0}
    BY <2>1, Sizes
  <2>3. q \in Nat /\ r \in Nat /\ r < w /\ b = w * q + r
    BY <2>2, Divide
  <2> HIDE DEF w, q, r, qb
  <2>4. Word = 8 * w
    BY <2>1 DEF w
  <2>5. Word \div 8 = w
    BY <2>2, <2>4
  <2>6. 8 * b = (8 * w) * q + 8 * r /\ 8 * r < 8 * w /\ 8 * w \in Nat \ {0} /\ 8 * r \in Nat
    BY <2>2, <2>3
  <2>7. ((8 * w) * q + 8 * r) \div (8 * w) = q
    BY <2>3, <2>6, Divided
  <2>8. qb = q
    BY <2>4, <2>6, <2>7 DEF qb
  <2> QED
    BY <2>5, <2>8 DEF q
<1>4. /\ sum \in Nat /\ sum < Word /\ carry \in {0, 1}
      /\ ra + rb = Word * carry + sum
  <2> HIDE DEF ra, rb
  <2>1. CASE ra + rb < Word
    <3>1. sum = ra + rb
      <4> DEFINE e == ra + rb
      <4>1. e \in Nat /\ e < Word /\ Word * 0 + e = e /\ 0 \in Nat
        BY <1>1, <1>2, <1>w, <2>1
      <4> HIDE DEF e
      <4>2. (Word * 0 + e) % Word = e
        BY <1>w, <4>1, Divided
      <4> QED
        BY <4>1, <4>2 DEF e
    <3> QED
      BY <1>1, <1>2, <1>w, <2>1, <3>1
  <2>2. CASE ra + rb >= Word
    <3> DEFINE d == ra + rb - Word
    <3>1. d \in Nat /\ d < Word /\ d < rb /\ ra + rb = Word * 1 + d
      BY <1>1, <1>2, <1>w, <2>2
    <3> HIDE DEF d
    <3>2. sum = d
      <4>1. (Word * 1 + d) % Word = d /\ 1 \in Nat
        BY <1>w, <3>1, Divided
      <4> QED
        BY <3>1, <4>1
    <3> QED
      BY <3>1, <3>2, <1>w
  <2> QED
    BY <1>1, <1>2, <1>w, <2>1, <2>2
<1> HIDE DEF ra, rb, qa, qb, sum, carry
<1>5. 8 * (a + b) = Word * (qa + qb + carry) + sum /\ qa + qb + carry \in Nat
  <2>1. 8 * (a + b) = 8 * a + 8 * b
    OBVIOUS
  <2>2. Word * (qa + qb + carry) = Word * qa + Word * qb + Word * carry
    BY <1>1, <1>2, <1>4, <1>w
  <2>3. Word * qa \in Nat /\ Word * qb \in Nat /\ Word * carry \in Nat
    BY <1>1, <1>2, <1>4, <1>w
  <2> QED
    BY <1>1, <1>2, <1>4, <2>1, <2>2, <2>3
<1>6. (8 * (a + b)) % Word = sum /\ (8 * (a + b)) \div Word = qa + qb + carry
  <2> DEFINE q == qa + qb + carry
  <2>1. q \in Nat /\ 8 * (a + b) = Word * q + sum
    BY <1>5
  <2> HIDE DEF q
  <2>2. (Word * q + sum) % Word = sum /\ (Word * q + sum) \div Word = q
    BY <1>4, <1>w, <2>1, Divided
  <2> QED
    BY <2>1, <2>2 DEF q
<1>7. ((qa % Word) + carry + qb) % Word = (qa + qb + carry) % Word
  <2> DEFINE h == qa % Word
             k == qa \div Word
             n == h + carry + qb
  <2>1. h \in Nat /\ k \in Nat /\ qa = Word * k + h
    BY <1>1, <1>w, Divide
  <2> HIDE DEF h, k
  <2>2. n \in Nat
    BY <1>2, <1>4, <2>1
  <2>3. qa + qb + carry = Word * k + n
    <3>1. Word * k \in Nat
      BY <1>w, <2>1
    <3> QED
      BY <1>1, <1>2, <1>4, <2>1, <3>1
  <2> HIDE DEF n
  <2>4. (Word * k + n) % Word = n % Word
    BY <1>w, <2>1, <2>2, RemainderOfSum
  <2> QED
    BY <2>3, <2>4 DEF n, h
<1> QED
  BY <1>3, <1>6, <1>7 DEF Low, High, sum, carry, ra, rb, qa

-----------------------------------------------------------------------------
(* The stream: what Update does to a context.                              *)

(* A block holds the bytes of the k-th block of s. *)
IsBlock(block, s, k) ==
  /\ IsSeq(block) /\ Len(block) = BlockSize
  /\ \A p \in 1 .. BlockSize : block[p] = s[(k - 1) * BlockSize + p]

(* The blocks of a sequence, byte by byte. *)
LEMMA BlocksOf ==
  ASSUME NEW s, IsSeq(s)
  PROVE  /\ IsSeq(Blocks(s)) /\ Len(Blocks(s)) = Len(s) \div BlockSize
         /\ \A k \in 1 .. Len(s) \div BlockSize : IsBlock(Blocks(s)[k], s, k)
<1> DEFINE q == Len(s) \div BlockSize
<1>b. BlockSize \in Nat \ {0}
  BY Sizes
<1>1. q \in Nat
  BY <1>b, SeqIsFunction, Divide
<1>2. Blocks(s) = [k \in 1 .. q |-> SubSeq(s, (k - 1) * BlockSize + 1, k * BlockSize)]
  BY DEF Blocks
<1> HIDE DEF q
<1>3. IsSeq(Blocks(s)) /\ Len(Blocks(s)) = q
  <2>1. Blocks(s) = [k \in 1 .. q |-> Blocks(s)[k]]
    BY <1>2
  <2> QED
    BY <1>1, <2>1, FunctionIsSeq
<1>4. ASSUME NEW k \in 1 .. q PROVE IsBlock(Blocks(s)[k], s, k)
  <2> DEFINE m == (k - 1) * BlockSize
             n == k * BlockSize
  <2>1. k \in Nat /\ k - 1 \in Nat
    BY <1>1
  <2>2. m \in Nat /\ n \in Nat /\ n = m + BlockSize
    BY <1>b, <2>1
  <2>3. Blocks(s)[k] = SubSeq(s, m + 1, n)
    BY <1>2
  <2> HIDE DEF m, n
  <2>4. m <= n /\ n - m = BlockSize
    BY <1>b, <2>2
  <2> DEFINE part == SubSeq(s, m + 1, n)
  <2>5. IsSeq(part) /\ Len(part) = n - m /\ \A p \in 1 .. n - m : part[p] = s[m + p]
    BY <2>2, <2>4, PartOfSeq
  <2>6. part = Blocks(s)[k]
    BY <2>3
  <2> HIDE DEF part
  <2> QED
    BY <2>4, <2>5, <2>6 DEF m, IsBlock
<1> QED
  BY <1>3, <1>4 DEF q

(* And whatever has those bytes is the sequence of its blocks. *)
LEMMA AreBlocks ==
  ASSUME NEW s, IsSeq(s), NEW x, IsSeq(x), Len(x) = Len(s) \div BlockSize,
         \A k \in 1 .. Len(x) : IsBlock(x[k], s, k)
  PROVE  x = Blocks(s)
<1>1. /\ IsSeq(Blocks(s)) /\ Len(Blocks(s)) = Len(x)
      /\ \A k \in 1 .. Len(x) : IsBlock(Blocks(s)[k], s, k)
  BY BlocksOf
<1>2. ASSUME NEW k \in 1 .. Len(x) PROVE x[k] = Blocks(s)[k]
  <2> DEFINE y == Blocks(s)[k]
  <2>1. IsBlock(x[k], s, k) /\ IsBlock(y, s, k)
    BY <1>1
  <2> HIDE DEF y
  <2>2. IsSeq(x[k]) /\ IsSeq(y) /\ Len(x[k]) = BlockSize /\ Len(y) = BlockSize
    BY <2>1 DEF IsBlock
  <2>3. \A p \in 1 .. BlockSize : x[k][p] = y[p]
    BY <2>1 DEF IsBlock
  <2>4. x[k] = y
    BY <2>2, <2>3, SameSeq
  <2> QED
    BY <2>4 DEF y
<1> QED
  BY <1>1, <1>2, SameSeq

(* c is dst after the bytes of src were copied there. *)
IsCopy(c, dst, at, src) ==
  /\ IsSeq(c) /\ Len(c) = Len(dst)
  /\ \A k \in 1 .. Len(dst) :
       c[k] = IF k > at /\ k <= at + Len(src) THEN src[k - at] ELSE dst[k]

(* memcpy changes the bytes it copies to. *)
LEMMA Copied ==
  ASSUME NEW dst, IsSeq(dst), NEW at \in Nat, NEW src, IsSeq(src)
  PROVE  IsCopy(CopyAt(dst, at, src), dst, at, src)
<1>1. Len(dst) \in Nat /\ DOMAIN dst = 1 .. Len(dst)
  BY SeqIsFunction
<1>2. CopyAt(dst, at, src) = [k \in 1 .. Len(dst) |-> CopyAt(dst, at, src)[k]]
  BY <1>1 DEF CopyAt
<1>3. \A k \in 1 .. Len(dst) :
        CopyAt(dst, at, src)[k] =
          IF k > at /\ k <= at + Len(src) THEN src[k - at] ELSE dst[k]
  BY <1>1 DEF CopyAt
<1> QED
  BY <1>1, <1>2, <1>3, FunctionIsSeq DEF IsCopy

(* The first n bytes of a block are those of s after the place `at`. *)
Starts(block, n, s, at) ==
  /\ IsSeq(block) /\ Len(block) = BlockSize
  /\ \A k \in 1 .. BlockSize : k <= n => block[k] = s[at + k]

(* What a context is after `bytes`. *)
IsContext(ctx, bytes) ==
  /\ ctx = [hi |-> High(Len(bytes)), lo |-> Low(Len(bytes)),
            state |-> Blocks(bytes), buf |-> ctx.buf]
  /\ Starts(ctx.buf, Len(bytes) % BlockSize,
            bytes, BlockSize * (Len(bytes) \div BlockSize))

(* The length is counted. *)
LEMMA Counted ==
  ASSUME NEW ctx, NEW bytes, IsSeq(bytes), IsContext(ctx, bytes), NEW len \in Nat
  PROVE  /\ AddLength(ctx, len) =
              [hi |-> High(Len(bytes) + len), lo |-> Low(Len(bytes) + len),
               state |-> Blocks(bytes), buf |-> ctx.buf]
         /\ Buffered(ctx) = Len(bytes) % BlockSize
<1> DEFINE n == Len(bytes)
           low == Low(len)
           sum == (Low(n) + low) % Word
           carry == IF sum < low THEN 1 ELSE 0
<1>1. n \in Nat
  BY SeqIsFunction
<1>2. /\ sum = Low(n + len)
      /\ (High(n) + carry + (len \div (Word \div 8))) % Word = High(n + len)
  <2> HIDE DEF n
  <2> QED
    BY <1>1, LengthAdded, Zenon
<1>3. ctx = [hi |-> High(n), lo |-> Low(n), state |-> Blocks(bytes), buf |-> ctx.buf]
  BY DEF IsContext
<1>4. Buffered(ctx) = n % BlockSize
  <2>1. ctx.lo = Low(n)
    BY <1>3
  <2> HIDE DEF n
  <2> QED
    BY <1>1, <2>1, PlaceInBlock DEF Buffered
<1>5. AddLength(ctx, len) =
        [hi |-> (High(n) + carry + (len \div (Word \div 8))) % Word, lo |-> sum,
         state |-> Blocks(bytes), buf |-> ctx.buf]
  <2> DEFINE b == ctx.buf
             st == Blocks(bytes)
             hi == High(n)
             lo == Low(n)
             hh == (hi + carry + (len \div (Word \div 8))) % Word
  <2>1. ctx.hi = hi /\ ctx.lo = lo
    BY <1>3
  <2>2. AddLength(ctx, len) = [ctx EXCEPT !.lo = sum, !.hi = hh]
    <3>1. low = (8 * len) % Word
      BY DEF Low
    <3> QED
      BY <2>1, <3>1 DEF AddLength
  <2>3. ctx = [hi |-> hi, lo |-> lo, state |-> st, buf |-> b]
    BY <1>3
  <2> HIDE DEF b, st, hi, lo, hh, sum, n
  <2>4. AddLength(ctx, len) = [hi |-> hh, lo |-> sum, state |-> st, buf |-> b]
    BY <2>2, <2>3
  <2> QED
    BY <2>4 DEF b, st, hi, lo, hh
<1> QED
  BY <1>2, <1>4, <1>5

(* The bytes of the first blocks of a sequence are bytes of it. *)
LEMMA WithinBlocks ==
  ASSUME NEW q \in Nat, NEW k \in 1 .. q, NEW p \in 1 .. BlockSize
  PROVE  (k - 1) * BlockSize + p \in 1 .. BlockSize * q
<1> DEFINE d == q - k
           u == k - 1
<1>b. BlockSize \in Nat \ {0}
  BY Sizes
<1>1. d \in Nat /\ u \in Nat /\ q = d + u + 1
  OBVIOUS
<1> HIDE DEF d, u
<1>2. BlockSize * q = BlockSize * d + u * BlockSize + BlockSize
  BY <1>1, <1>b
<1>3. BlockSize * d \in Nat /\ u * BlockSize \in Nat
  BY <1>1, <1>b
<1>4. u * BlockSize + p \in 1 .. BlockSize * q
  BY <1>2, <1>3, <1>b
<1> QED
  BY <1>4 DEF u

(* What has been copied to buf is the next part of the stream. *)
LEMMA BlockFilled ==
  ASSUME NEW ctx, NEW a, NEW b, IsSeq(a), IsSeq(b), IsContext(ctx, a),
         NEW place, place = Len(a) % BlockSize,
         NEW full,
         full = CopyAt(ctx.buf, place, Prefix(b, Min2(BlockSize - place, Len(b))))
  PROVE  Starts(full, place + Len(b), a \o b, BlockSize * (Len(a) \div BlockSize))
<1> DEFINE n == Len(a)
           m == Len(b)
           q == n \div BlockSize
           w == BlockSize * q
           old == ctx.buf
           room == Min2(BlockSize - place, m)
           src == Prefix(b, room)
<1>b. BlockSize \in Nat \ {0}
  BY Sizes
<1>1. n \in Nat /\ m \in Nat
  BY SeqIsFunction
<1>2. q \in Nat /\ place \in Nat /\ place < BlockSize /\ n = w + place
  <2>1. place = n % BlockSize
    OBVIOUS
  <2> HIDE DEF n
  <2> QED
    BY <1>1, <1>b, <2>1, Divide
<1>3. w \in Nat
  BY <1>2, <1>b
<1>4. IsSeq(old) /\ Len(old) = BlockSize
      /\ \A k \in 1 .. BlockSize : k <= place => old[k] = a[w + k]
  BY DEF IsContext, Starts
<1> HIDE DEF n, m, q, w
<1>5. room \in Nat /\ room = IF BlockSize - place < m THEN BlockSize - place ELSE m
  BY <1>1, <1>2, <1>b DEF Min2
<1> HIDE DEF room
<1>6. IsSeq(src) /\ Len(src) = room /\ \A k \in 1 .. room : src[k] = b[k]
  BY <1>5, PrefixOfSeq
<1>f. full = CopyAt(old, place, src)
  BY DEF src, room, m
<1> HIDE DEF src, old
<1>7. /\ IsSeq(full) /\ Len(full) = BlockSize
      /\ \A k \in 1 .. BlockSize :
           full[k] = IF k > place /\ k <= place + room THEN src[k - place] ELSE old[k]
  <2>1. IsCopy(full, old, place, src)
    BY <1>2, <1>4, <1>6, <1>f, Copied
  <2> QED
    BY <1>4, <1>6, <2>1 DEF IsCopy
<1>8. /\ \A k \in 1 .. n : (a \o b)[k] = a[k]
      /\ \A k \in 1 .. m : (a \o b)[n + k] = b[k]
  BY Concatenation DEF n, m, IsConcat
<1>9. ASSUME NEW k \in 1 .. BlockSize, k <= place + m
      PROVE  full[k] = (a \o b)[w + k]
  <2>1. CASE k <= place
    <3>1. full[k] = a[w + k]
      BY <1>2, <1>4, <1>7, <2>1, <1>b
    <3>2. w + k \in 1 .. n
      BY <1>2, <1>3, <1>b, <2>1
    <3> QED
      BY <1>8, <3>1, <3>2
  <2>2. CASE k > place
    <3>1. k - place \in 1 .. room /\ k - place \in 1 .. m /\ w + k = n + (k - place)
      BY <1>1, <1>2, <1>3, <1>5, <1>9, <1>b, <2>2
    <3>2. full[k] = src[k - place]
      BY <1>2, <1>5, <1>7, <2>2, <3>1, <1>b
    <3>3. full[k] = b[k - place]
      BY <1>6, <3>1, <3>2
    <3> QED
      BY <1>8, <3>1, <3>3
  <2>3. k <= place \/ k > place
    BY <1>2
  <2> QED
    BY <2>1, <2>2, <2>3
<1> QED
  BY <1>7, <1>9 DEF m, n, q, w, Starts

(* The blocks of a stream stay its first blocks when it goes on. *)
LEMMA BlocksStay ==
  ASSUME NEW a, NEW b, IsSeq(a), IsSeq(b), NEW k \in 1 .. Len(a) \div BlockSize
  PROVE  IsBlock(Blocks(a)[k], a \o b, k)
<1> DEFINE n == Len(a)
           q == n \div BlockSize
<1>b. BlockSize \in Nat \ {0}
  BY Sizes
<1>1. n \in Nat
  BY SeqIsFunction
<1>2. q \in Nat /\ BlockSize * q <= n
  <2> HIDE DEF n
  <2>1. q \in Nat /\ n % BlockSize \in Nat /\ n = BlockSize * q + (n % BlockSize)
    BY <1>1, <1>b, Divide
  <2> HIDE DEF q
  <2>2. BlockSize * q \in Nat
    BY <1>b, <2>1
  <2> QED
    BY <2>1, <2>2
<1>3. IsBlock(Blocks(a)[k], a, k)
  BY BlocksOf
<1>4. \A p \in 1 .. n : (a \o b)[p] = a[p]
  BY Concatenation DEF IsConcat
<1>5. ASSUME NEW p \in 1 .. BlockSize PROVE (k - 1) * BlockSize + p \in 1 .. n
  <2> HIDE DEF n
  <2> k \in 1 .. q
    BY DEF n
  <2> HIDE DEF q
  <2>1. (k - 1) * BlockSize + p \in 1 .. BlockSize * q
    BY <1>2, WithinBlocks
  <2>2. BlockSize * q \in Nat
    BY <1>2, <1>b
  <2> QED
    BY <1>1, <1>2, <2>1, <2>2
<1> QED
  BY <1>3, <1>4, <1>5 DEF IsBlock

(* SHA256_Update, whatever the length: in the block in progress ... *)
LEMMA UpdateWithin ==
  ASSUME NEW ctx, NEW a, NEW b, IsSeq(a), IsSeq(b), IsContext(ctx, a),
         Len(b) < BlockSize - (Len(a) % BlockSize)
  PROVE  IsContext(Update(ctx, b), a \o b)
<1> DEFINE n == Len(a)
           m == Len(b)
           q == n \div BlockSize
           w == BlockSize * q
           place == n % BlockSize
           full == CopyAt(ctx.buf, place, Prefix(b, Min2(BlockSize - place, m)))
           t == a \o b
<1>b. BlockSize \in Nat \ {0}
  BY Sizes
<1>1. n \in Nat /\ m \in Nat /\ m < BlockSize - place
  BY SeqIsFunction
<1>2. q \in Nat /\ place \in Nat /\ place < BlockSize /\ n = w + place
  <2> HIDE DEF n
  <2> QED
    BY <1>1, <1>b, Divide
<1>3. IsSeq(t) /\ Len(t) = n + m
  BY Concatenation DEF IsConcat
<1>4. Starts(full, place + m, t, w)
  <2> HIDE DEF full
  <2> QED
    BY BlockFilled DEF full
<1>5. /\ AddLength(ctx, m) = [hi |-> High(n + m), lo |-> Low(n + m),
                              state |-> Blocks(a), buf |-> ctx.buf]
      /\ Buffered(ctx) = place
  BY <1>1, Counted
<1>6. Update(ctx, b) = [AddLength(ctx, m) EXCEPT !.buf = full]
  <2> HIDE DEF place
  <2>1. m < BlockSize - Buffered(ctx)
    BY <1>1, <1>5
  <2> QED
    BY <1>5, <2>1 DEF Update
<1> HIDE DEF full
<1>7. Update(ctx, b) = [hi |-> High(n + m), lo |-> Low(n + m),
                        state |-> Blocks(a), buf |-> full]
  <2> HIDE DEF n, m
  <2> QED
    BY <1>5, <1>6
<1>8. (n + m) \div BlockSize = q /\ (n + m) % BlockSize = place + m
  <2> HIDE DEF n, m, q, place
  <2>1. place + m \in Nat /\ place + m < BlockSize
    BY <1>1, <1>2, <1>b
  <2>2. n + m = BlockSize * q + (place + m)
    <3>1. w \in Nat
      BY <1>2, <1>b
    <3> HIDE DEF w
    <3>2. n + m = w + (place + m)
      BY <1>1, <1>2, <3>1
    <3> QED
      BY <3>2 DEF w
  <2> DEFINE s == place + m
  <2> HIDE DEF s
  <2>3. (BlockSize * q + s) \div BlockSize = q /\ (BlockSize * q + s) % BlockSize = s
    BY <1>2, <1>b, <2>1, Divided DEF s
  <2> QED
    BY <2>2, <2>3 DEF s
<1>9. Blocks(a) = Blocks(t)
  <2>1. IsSeq(Blocks(a)) /\ Len(Blocks(a)) = q
    BY BlocksOf
  <2>2. Len(t) \div BlockSize = q
    BY <1>3, <1>8
  <2>3. ASSUME NEW k \in 1 .. q
        PROVE  IsBlock(Blocks(a)[k], t, k)
    BY BlocksStay
  <2> HIDE DEF q, t
  <2> QED
    BY <1>3, <2>1, <2>2, <2>3, AreBlocks
<1> HIDE DEF n, m, t, q, place
<1>10. IsContext(Update(ctx, b), t)
  <2> DEFINE c == Update(ctx, b)
  <2>1. c.buf = full
    BY <1>7
  <2>2. c = [hi |-> High(Len(t)), lo |-> Low(Len(t)), state |-> Blocks(t), buf |-> c.buf]
    BY <1>3, <1>7, <1>9, <2>1
  <2> HIDE DEF c
  <2>3. Len(t) % BlockSize = place + m /\ w = BlockSize * (Len(t) \div BlockSize)
    BY <1>3, <1>8
  <2> QED
    BY <1>4, <2>1, <2>2, <2>3 DEF IsContext, c
<1> QED
  BY <1>10 DEF t

(* ... and past the end of it. *)
LEMMA UpdateBeyond ==
  ASSUME NEW ctx, NEW a, NEW b, IsSeq(a), IsSeq(b), IsContext(ctx, a),
         ~ (Len(b) < BlockSize - (Len(a) % BlockSize))
  PROVE  IsContext(Update(ctx, b), a \o b)
<1> DEFINE n == Len(a)
           m == Len(b)
           q == n \div BlockSize
           w == BlockSize * q
           place == n % BlockSize
           room == BlockSize - place
           full == CopyAt(ctx.buf, place, Prefix(b, Min2(room, m)))
           rest == Suffix(b, room)
           qr == Len(rest) \div BlockSize
           pr == Len(rest) % BlockSize
           wr == BlockSize * qr
           left == Suffix(rest, wr)
           copy == CopyAt(full, 0, left)
           st == Blocks(a) \o <<full>> \o Blocks(rest)
           t == a \o b
<1>b. BlockSize \in Nat \ {0}
  BY Sizes
<1>1. n \in Nat /\ m \in Nat /\ ~ (m < room)
  BY SeqIsFunction
<1>2. q \in Nat /\ place \in Nat /\ place < BlockSize /\ n = w + place /\ w \in Nat
  <2>1. q \in Nat /\ place \in Nat /\ place < BlockSize /\ n = w + place
    <3> HIDE DEF n
    <3> QED
      BY <1>1, <1>b, Divide
  <2> HIDE DEF n, q
  <2> QED
    BY <2>1, <1>b
<1>3. /\ IsSeq(t) /\ Len(t) = n + m
      /\ \A k \in 1 .. m : t[n + k] = b[k]
  BY Concatenation DEF IsConcat
<1>4. Starts(full, place + m, t, w)
  <2> HIDE DEF full
  <2> QED
    BY BlockFilled DEF full
<1>5. /\ AddLength(ctx, m) = [hi |-> High(n + m), lo |-> Low(n + m),
                              state |-> Blocks(a), buf |-> ctx.buf]
      /\ Buffered(ctx) = place
  BY <1>1, Counted
<1>s. ctx.state = Blocks(a)
  BY DEF IsContext
<1>6. Update(ctx, b) = [AddLength(ctx, m) EXCEPT !.state = st, !.buf = copy]
  <2> DEFINE bl == Blocks(rest)
  <2> HIDE DEF bl
  <2>1. room = BlockSize - Buffered(ctx)
    BY <1>5
  <2> QED
    BY <1>1, <1>5, <1>s, <2>1 DEF Update
<1> HIDE DEF full, copy
<1>7. Update(ctx, b) = [hi |-> High(n + m), lo |-> Low(n + m), state |-> st, buf |-> copy]
  <2> DEFINE h == High(n + m)
             l == Low(n + m)
             ba == Blocks(a)
             bu == ctx.buf
             c == AddLength(ctx, m)
  <2>1. c = [hi |-> h, lo |-> l, state |-> ba, buf |-> bu]
    BY <1>5
  <2>2. Update(ctx, b) = [c EXCEPT !.state = st, !.buf = copy]
    BY <1>6
  <2> HIDE DEF st, h, l, ba, bu, c
  <2>3. Update(ctx, b) = [hi |-> h, lo |-> l, state |-> st, buf |-> copy]
    BY <2>1, <2>2
  <2> QED
    BY <2>3 DEF h, l
<1>8. room \in Nat \ {0} /\ room <= m
  <2> HIDE DEF n, m, place
  <2> QED
    BY <1>1, <1>2, <1>b
<1>9. /\ IsSeq(rest) /\ Len(rest) = m - room
      /\ \A k \in 1 .. m - room : rest[k] = b[room + k]
  <2> HIDE DEF room
  <2> QED
    BY <1>8, SuffixOfSeq
<1>10. /\ qr \in Nat /\ pr \in Nat /\ pr < BlockSize /\ wr \in Nat
       /\ Len(rest) = wr + pr
  <2>1. Len(rest) \in Nat
    <3> HIDE DEF room, m
    <3> QED
      BY <1>1, <1>8, <1>9
  <2>2. qr \in Nat /\ pr \in Nat /\ pr < BlockSize /\ Len(rest) = wr + pr
    <3> HIDE DEF rest
    <3> QED
      BY <2>1, <1>b, Divide
  <2> HIDE DEF qr
  <2> QED
    BY <2>2, <1>b
<1>11. (n + m) \div BlockSize = q + 1 + qr /\ (n + m) % BlockSize = pr
  <2> DEFINE qt == q + 1 + qr
  <2> HIDE DEF n, m, q, place, qr, pr, rest
  <2>1. qt \in Nat
    BY <1>2, <1>10
  <2>2. BlockSize * qt = w + BlockSize + wr
    BY <1>2, <1>10, <1>b
  <2> HIDE DEF qt, w, wr
  <2>3. n + m = BlockSize * qt + pr
    BY <1>1, <1>2, <1>8, <1>9, <1>10, <1>b, <2>1, <2>2
  <2>4. (BlockSize * qt + pr) \div BlockSize = qt /\ (BlockSize * qt + pr) % BlockSize = pr
    BY <1>10, <1>b, <2>1, Divided
  <2> QED
    BY <2>3, <2>4 DEF qt
<1>12. n + room = w + BlockSize
  <2> HIDE DEF n, place, w
  <2> QED
    BY <1>1, <1>2, <1>b
<1>13. ASSUME NEW k \in 1 .. m - room PROVE rest[k] = t[w + BlockSize + k]
  <2>1. rest[k] = b[room + k]
    BY <1>9
  <2>2. room + k \in 1 .. m
    <3> HIDE DEF room, m
    <3> QED
      BY <1>1, <1>8
  <2>3. t[n + (room + k)] = b[room + k]
    BY <1>3, <2>2
  <2>4. n + (room + k) = w + BlockSize + k
    <3> HIDE DEF room, m, n, w
    <3> QED
      BY <1>1, <1>2, <1>8, <1>12, <1>b
  <2> QED
    BY <2>1, <2>3, <2>4
<1>14. /\ IsSeq(left) /\ Len(left) = pr
       /\ \A k \in 1 .. pr : left[k] = rest[wr + k]
  <2> HIDE DEF rest, wr, pr
  <2>1. wr <= Len(rest) /\ Len(rest) - wr = pr
    BY <1>10
  <2> QED
    BY <1>9, <1>10, <2>1, SuffixOfSeq
<1>15. /\ IsSeq(copy) /\ Len(copy) = BlockSize
       /\ \A k \in 1 .. pr : copy[k] = left[k]
  <2> HIDE DEF left, pr
  <2>1. IsCopy(copy, full, 0, left) /\ Len(full) = BlockSize
    BY <1>4, <1>14, Copied DEF copy, Starts
  <2>2. \A k \in 1 .. pr : k \in 1 .. BlockSize /\ k > 0 /\ k <= 0 + Len(left) /\ k - 0 = k
    BY <1>10, <1>14, <1>b
  <2> QED
    BY <2>1, <2>2 DEF IsCopy
<1>16. /\ IsSeq(st) /\ Len(st) = q + 1 + qr
       /\ \A k \in 1 .. q : st[k] = Blocks(a)[k]
       /\ st[q + 1] = full
       /\ \A k \in 1 .. qr : st[q + 1 + k] = Blocks(rest)[k]
  <2> DEFINE ba == Blocks(a)
             br == Blocks(rest)
             bf == <<full>>
             head == ba \o bf
  <2>1. IsSeq(ba) /\ Len(ba) = q
    BY BlocksOf
  <2>2. IsSeq(br) /\ Len(br) = qr
    BY <1>9, BlocksOf
  <2>3. IsSeq(bf) /\ Len(bf) = 1 /\ bf[1] = full
    BY SingleIsSeq
  <2>4. st = head \o br
    OBVIOUS
  <2> HIDE DEF ba, br, bf, st, q, qr
  <2>5. /\ IsSeq(head) /\ Len(head) = q + 1
        /\ \A k \in 1 .. q : head[k] = ba[k]
        /\ \A k \in 1 .. 1 : head[q + k] = bf[k]
    <3>1. IsConcat(head, ba, bf)
      BY <2>1, <2>3, Concatenation
    <3> HIDE DEF head
    <3> QED
      BY <2>1, <2>3, <3>1 DEF IsConcat
  <2> HIDE DEF head
  <2>6. /\ IsSeq(st) /\ Len(st) = q + 1 + qr
        /\ \A k \in 1 .. q + 1 : st[k] = head[k]
        /\ \A k \in 1 .. qr : st[q + 1 + k] = br[k]
    <3>1. IsConcat(st, head, br)
      BY <2>2, <2>4, <2>5, Concatenation
    <3> QED
      BY <2>2, <2>5, <3>1 DEF IsConcat
  <2>7. /\ \A k \in 1 .. q : k \in 1 .. q + 1
        /\ q + 1 \in 1 .. q + 1 /\ 1 \in 1 .. 1
    BY <1>2
  <2>8. \A k \in 1 .. q : st[k] = ba[k]
    BY <2>5, <2>6, <2>7
  <2>9. st[q + 1] = full
    BY <2>3, <2>5, <2>6, <2>7
  <2> QED
    BY <2>6, <2>8, <2>9 DEF ba, br
<1>17. ASSUME NEW k \in 1 .. q PROVE IsBlock(st[k], t, k)
  <2>1. IsBlock(Blocks(a)[k], t, k)
    BY BlocksStay
  <2> HIDE DEF st, t, q
  <2> QED
    BY <1>16, <2>1
<1>18. IsBlock(st[q + 1], t, q + 1)
  <2>1. w = ((q + 1) - 1) * BlockSize
    <3> HIDE DEF q
    <3> QED
      BY <1>2, <1>b
  <2> DEFINE at == ((q + 1) - 1) * BlockSize
  <2> HIDE DEF place, m, t
  <2>2. \A k \in 1 .. BlockSize : k <= place + m
    BY <1>1, <1>2, <1>b
  <2>3. \A k \in 1 .. BlockSize : full[k] = t[at + k]
    BY <1>4, <2>1, <2>2 DEF Starts
  <2> HIDE DEF st
  <2> QED
    BY <1>4, <1>16, <2>3 DEF Starts, IsBlock
<1>19. ASSUME NEW k \in 1 .. qr PROVE IsBlock(st[q + 1 + k], t, q + 1 + k)
  <2> DEFINE block == Blocks(rest)[k]
             at == (k - 1) * BlockSize
  <2>1. IsBlock(block, rest, k)
    BY <1>9, BlocksOf
  <2>2. at \in Nat /\ ((q + 1 + k) - 1) * BlockSize = w + BlockSize + at
    <3> DEFINE u == k - 1
    <3> HIDE DEF q, qr
    <3>1. u \in Nat /\ k = u + 1
      BY <1>10
    <3> HIDE DEF u
    <3>2. at = u * BlockSize
      BY <3>1
    <3>3. ((q + 1 + k) - 1) * BlockSize = (q + 1 + u) * BlockSize
      BY <1>2, <3>1
    <3>4. (q + 1 + u) * BlockSize = BlockSize * q + BlockSize + u * BlockSize
      BY <1>2, <1>b, <3>1
    <3> QED
      BY <1>b, <3>1, <3>2, <3>3, <3>4
  <2>3. ASSUME NEW p \in 1 .. BlockSize PROVE block[p] = t[w + BlockSize + at + p]
    <3>1. block[p] = rest[at + p]
      BY <2>1 DEF IsBlock
    <3>2. at + p \in 1 .. wr
      <4> HIDE DEF qr
      <4> QED
        BY <1>10, WithinBlocks
    <3> HIDE DEF at, wr
    <3>3. at + p \in 1 .. m - room
      <4> HIDE DEF m, room, rest, pr
      <4>1. m - room = wr + pr
        BY <1>9, <1>10
      <4> QED
        BY <1>10, <3>2, <4>1
    <3>4. rest[at + p] = t[w + BlockSize + (at + p)]
      BY <1>13, <3>3
    <3>5. w + BlockSize + (at + p) = w + BlockSize + at + p
      <4> HIDE DEF w
      <4> QED
        BY <1>2, <1>b, <2>2
    <3> QED
      BY <3>1, <3>4, <3>5
  <2> HIDE DEF block, at, w, t, st, q, qr
  <2>4. IsBlock(block, t, q + 1 + k)
    BY <2>1, <2>2, <2>3 DEF IsBlock
  <2> QED
    BY <1>16, <2>4 DEF block
<1>20. st = Blocks(t)
  <2> HIDE DEF st, q, qr, n, m, t
  <2>1. Len(st) = Len(t) \div BlockSize
    BY <1>3, <1>11, <1>16
  <2>2. ASSUME NEW k \in 1 .. Len(st) PROVE IsBlock(st[k], t, k)
    <3>1. \/ k \in 1 .. q
          \/ k = q + 1
          \/ k - (q + 1) \in 1 .. qr /\ k = q + 1 + (k - (q + 1))
      BY <1>2, <1>10, <1>16
    <3> QED
      BY <1>17, <1>18, <1>19, <3>1
  <2> QED
    BY <1>3, <1>16, <2>1, <2>2, AreBlocks
<1>21. Starts(copy, pr, t, BlockSize * (q + 1 + qr))
  <2> DEFINE at == BlockSize * (q + 1 + qr)
  <2>1. at = w + BlockSize + wr
    <3> HIDE DEF q, qr
    <3> QED
      BY <1>2, <1>10, <1>b
  <2> HIDE DEF at
  <2>2. ASSUME NEW k \in 1 .. pr PROVE copy[k] = t[at + k]
    <3> HIDE DEF m, room, rest, pr, wr, w, left
    <3>1. wr + k \in 1 .. m - room /\ w + BlockSize + (wr + k) = at + k
      BY <1>2, <1>9, <1>10, <1>b, <2>1
    <3>2. copy[k] = rest[wr + k]
      BY <1>14, <1>15
    <3>3. rest[wr + k] = t[w + BlockSize + (wr + k)]
      BY <1>13, <3>1
    <3> QED
      BY <3>1, <3>2, <3>3
  <2>3. \A k \in 1 .. BlockSize : k <= pr => k \in 1 .. pr
    <3> HIDE DEF pr
    <3> QED
      BY <1>10, <1>b
  <2> HIDE DEF pr, t
  <2>4. Starts(copy, pr, t, at)
    BY <1>15, <2>2, <2>3 DEF Starts
  <2> QED
    BY <2>4 DEF at
<1>22. IsContext(Update(ctx, b), t)
  <2> DEFINE c == Update(ctx, b)
  <2> HIDE DEF t, st, n, m, q, qr, pr
  <2>1. c.buf = copy
    BY <1>7
  <2>2. c = [hi |-> High(Len(t)), lo |-> Low(Len(t)), state |-> Blocks(t), buf |-> c.buf]
    BY <1>3, <1>7, <1>20, <2>1
  <2>3. Len(t) % BlockSize = pr /\ Len(t) \div BlockSize = q + 1 + qr
    BY <1>3, <1>11
  <2> HIDE DEF c
  <2> QED
    BY <1>21, <2>1, <2>2, <2>3 DEF IsContext, c
<1> QED
  BY <1>22 DEF t

(* A context goes on to hold what it held and what came in. *)
LEMMA UpdateHolds ==
  ASSUME NEW ctx, NEW a, NEW b, IsSeq(a), IsSeq(b), IsContext(ctx, a)
  PROVE  IsContext(Update(ctx, b), a \o b)
BY UpdateWithin, UpdateBeyond

(* A new context has absorbed nothing. *)
LEMMA InitialHolds == IsContext(InitialContext, <<>>)
<1> DEFINE junk == Constant("junk", BlockSize)
<1>b. BlockSize \in Nat \ {0} /\ Word \in Nat \ {0}
  BY Sizes
<1>1. IsSeq(junk) /\ Len(junk) = BlockSize
  <2>1. junk = [k \in 1 .. BlockSize |-> junk[k]]
    BY DEF Constant
  <2> HIDE DEF junk
  <2> QED
    BY <1>b, <2>1, FunctionIsSeq
<1>2. Len(<<>>) = 0 /\ IsSeq(<<>>)
  BY EmptyIsSeq
<1>3. Low(0) = 0 /\ High(0) = 0
  <2>1. Word * 0 + 0 = 0 /\ 0 \in Nat /\ 0 < Word /\ 8 * 0 = 0
    BY <1>b
  <2>2. (Word * 0 + 0) \div Word = 0 /\ (Word * 0 + 0) % Word = 0
    BY <1>b, <2>1, Divided
  <2> QED
    BY <2>1, <2>2 DEF Low, High
<1>4. 0 \div BlockSize = 0 /\ 0 % BlockSize = 0
  <2>1. BlockSize * 0 + 0 = 0 /\ 0 \in Nat /\ 0 < BlockSize
    BY <1>b
  <2>2. (BlockSize * 0 + 0) \div BlockSize = 0 /\ (BlockSize * 0 + 0) % BlockSize = 0
    BY <1>b, <2>1, Divided
  <2> QED
    BY <2>1, <2>2
<1>5. Blocks(<<>>) = <<>>
  <2>1. IsSeq(Blocks(<<>>)) /\ Len(Blocks(<<>>)) = 0
    BY <1>2, <1>4, BlocksOf
  <2>2. \A k \in 1 .. 0 : Blocks(<<>>)[k] = <<>>[k]
    OBVIOUS
  <2> DEFINE e == Blocks(<<>>)
  <2> HIDE DEF e
  <2> QED
    BY <1>2, <2>1, <2>2, SameSeq DEF e
<1>6. InitialContext = [hi |-> 0, lo |-> 0, state |-> <<>>, buf |-> junk]
  BY DEF InitialContext
<1>7. Starts(junk, 0, <<>>, BlockSize * 0)
  <2> HIDE DEF junk
  <2>1. \A k \in 1 .. BlockSize : ~ (k <= 0)
    BY <1>b
  <2> QED
    BY <1>1, <2>1 DEF Starts
<1> HIDE DEF junk
<1>8. InitialContext.buf = junk
  BY <1>6
<1>9. InitialContext = [hi |-> High(0), lo |-> Low(0), state |-> Blocks(<<>>),
                        buf |-> InitialContext.buf]
  BY <1>3, <1>5, <1>6, <1>8
<1> QED
  BY <1>2, <1>4, <1>7, <1>8, <1>9 DEF IsContext

(* The padding: the first plen bytes of PAD fill the block up to the place *)
(* of the length, in this block or in the next.                            *)
LEMMA PaddingFits ==
  ASSUME NEW n \in Nat,
         NEW place, place = n % BlockSize,
         NEW plen, plen = IF place < BlockSize - LenSize
                          THEN BlockSize - LenSize - place
                          ELSE BlockSize + (BlockSize - LenSize) - place
  PROVE  /\ plen \in 1 .. BlockSize
         /\ plen - 1 =
              CHOOSE z \in 0 .. BlockSize - 1 : (n + 1 + z + LenSize) % BlockSize = 0
<1> DEFINE q == n \div BlockSize
           w == BlockSize * q
<1>b. BlockSize \in Nat \ {0} /\ BlockSize > 2
  BY Sizes
<1>1. q \in Nat /\ place \in Nat /\ place < BlockSize /\ n = w + place
  BY <1>b, Divide
<1> HIDE DEF q
<1>2. w \in Nat
  BY <1>b, <1>1
<1>3. plen \in 1 .. BlockSize
  BY <1>b, <1>1 DEF LenSize
<1>4. PICK c \in Nat : n + plen + 2 = BlockSize * c
  <2>1. CASE place < BlockSize - LenSize
    <3>1. n + plen + 2 = w + BlockSize
      <4> HIDE DEF w
      <4> QED
        BY <1>b, <1>1, <1>2, <2>1 DEF LenSize
    <3>2. w + BlockSize = BlockSize * (q + 1) /\ q + 1 \in Nat
      BY <1>b, <1>1
    <3> QED
      BY <3>1, <3>2
  <2>2. CASE ~ (place < BlockSize - LenSize)
    <3>1. n + plen + 2 = w + BlockSize + BlockSize
      <4> HIDE DEF w
      <4> QED
        BY <1>b, <1>1, <1>2, <2>2 DEF LenSize
    <3>2. w + BlockSize + BlockSize = BlockSize * (q + 2) /\ q + 2 \in Nat
      BY <1>b, <1>1
    <3> QED
      BY <3>1, <3>2
  <2> QED
    BY <2>1, <2>2
<1> DEFINE v == plen - 1
           Whole(z) == (n + 1 + z + LenSize) % BlockSize = 0
<1>5. v \in 0 .. BlockSize - 1 /\ n + 1 + v + LenSize = BlockSize * c
  <2> HIDE DEF w
  <2> QED
    BY <1>b, <1>1, <1>2, <1>3, <1>4 DEF LenSize
<1>6. Whole(v)
  <2>1. 0 \in Nat /\ 0 < BlockSize
    BY <1>b
  <2>2. (BlockSize * c + 0) % BlockSize = 0
    BY <1>b, <2>1, Divided
  <2>3. BlockSize * c + 0 = BlockSize * c
    BY <1>b
  <2> QED
    BY <1>5, <2>2, <2>3
<1>7. ASSUME NEW z \in 0 .. BlockSize - 1, Whole(z) PROVE z = v
  <2> DEFINE m == n + 1 + z + LenSize
             d == m \div BlockSize
             e == BlockSize * c
  <2>1. m \in Nat
    BY <1>b DEF LenSize
  <2>2. d \in Nat /\ m = BlockSize * d + (m % BlockSize) /\ m % BlockSize = 0
    <3> HIDE DEF m
    <3>1. d \in Nat /\ m % BlockSize \in Nat /\ m = BlockSize * d + (m % BlockSize)
      BY <1>b, <2>1, Divide
    <3> QED
      BY <3>1, <1>7 DEF m
  <2> HIDE DEF d
  <2>3. m = BlockSize * d
    <3> HIDE DEF m
    <3> QED
      BY <1>b, <2>2
  <2>4. e \in Nat
    BY <1>b
  <2>5. d = c
    <3>1. CASE d > c
      <4> DEFINE u == d - c - 1
                 f == BlockSize * d
      <4>1. u \in Nat /\ d = c + 1 + u
        BY <2>2, <3>1
      <4> HIDE DEF u
      <4>2. f = e + BlockSize + BlockSize * u /\ BlockSize * u \in Nat
        BY <1>b, <4>1
      <4> HIDE DEF e, f
      <4>3. m = f /\ n + 1 + v + LenSize = e
        BY <1>5, <2>3 DEF e, f
      <4> QED
        BY <1>b, <1>5, <2>4, <4>2, <4>3 DEF LenSize
    <3>2. CASE c > d
      <4> DEFINE u == c - d - 1
                 f == BlockSize * d
      <4>1. u \in Nat /\ c = d + 1 + u
        BY <2>2, <3>2
      <4> HIDE DEF u
      <4>2. e = f + BlockSize + BlockSize * u /\ BlockSize * u \in Nat /\ f \in Nat
        BY <1>b, <2>2, <4>1
      <4> HIDE DEF e, f
      <4>3. m = f /\ n + 1 + v + LenSize = e
        BY <1>5, <2>3 DEF e, f
      <4> QED
        BY <1>b, <1>5, <2>4, <4>2, <4>3 DEF LenSize
    <3> QED
      BY <2>2, <3>1, <3>2
  <2>6. n + 1 + z + LenSize = n + 1 + v + LenSize
    BY <1>5, <2>3, <2>5
  <2> HIDE DEF v, e
  <2> QED
    BY <1>5, <2>6 DEF LenSize
<1>8. (CHOOSE z \in 0 .. BlockSize - 1 : Whole(z)) = v
  <2> HIDE DEF Whole, v
  <2> QED
    BY <1>5, <1>6, <1>7
<1> QED
  BY <1>3, <1>8

(* SHA256_Final gives the digest of the whole message. *)
LEMMA FinalIsDigest ==
  ASSUME NEW ctx, NEW msg, IsSeq(msg), IsContext(ctx, msg)
  PROVE  Final(ctx) = SpecSha(msg)
<1> DEFINE n == Len(msg)
           place == n % BlockSize
           fits == BlockSize - LenSize
           plen == IF place < fits THEN fits - place ELSE BlockSize + fits - place
           zeros == CHOOSE z \in 0 .. BlockSize - 1 : (n + 1 + z + LenSize) % BlockSize = 0
           pad == Prefix(PAD, plen)
           one == << {<<"0x80">>} >>
           zs == [k \in 1 .. zeros |-> {}]
           enc == EncodedLength(High(n), Low(n))
           whole == (msg \o pad) \o enc
<1>b. BlockSize \in Nat \ {0} /\ BlockSize > 2
  BY Sizes
<1>1. n \in Nat
  BY SeqIsFunction
<1>2. plen \in 1 .. BlockSize /\ zeros = plen - 1
  <2> HIDE DEF n, plen, place
  <2>1. plen = IF place < BlockSize - LenSize
                 THEN BlockSize - LenSize - place
                 ELSE BlockSize + (BlockSize - LenSize) - place
    <3>1. place \in Nat
      <4>1. n % BlockSize \in Nat
        BY <1>1, <1>b, Divide
      <4> QED
        BY <4>1 DEF place
    <3> QED
      BY <1>b, <3>1 DEF plen, LenSize
  <2>2. place = n % BlockSize
    BY DEF place
  <2> QED
    BY <1>1, <2>1, <2>2, PaddingFits
<1> HIDE DEF plen, zeros
<1>3. /\ IsSeq(pad) /\ Len(pad) = plen
      /\ \A k \in 1 .. plen : pad[k] = IF k = 1 THEN {<<"0x80">>} ELSE {}
  <2>1. plen \in Nat /\ \A k \in 1 .. plen : k \in 1 .. BlockSize
    BY <1>2, <1>b
  <2>2. IsSeq(pad) /\ Len(pad) = plen /\ \A k \in 1 .. plen : pad[k] = PAD[k]
    BY <2>1, PrefixOfSeq
  <2>3. \A k \in 1 .. BlockSize : PAD[k] = IF k = 1 THEN {<<"0x80">>} ELSE {}
    BY DEF PAD
  <2> QED
    BY <2>1, <2>2, <2>3
<1> HIDE DEF pad
<1>4. pad = one \o zs
  <2>1. IsSeq(one) /\ Len(one) = 1 /\ one[1] = {<<"0x80">>}
    BY SingleIsSeq
  <2>2. IsSeq(zs) /\ Len(zs) = zeros /\ \A k \in 1 .. zeros : zs[k] = {}
    <3>1. zs = [k \in 1 .. zeros |-> zs[k]] /\ zeros \in Nat
      BY <1>2
    <3>2. \A k \in 1 .. zeros : zs[k] = {}
      OBVIOUS
    <3> HIDE DEF zs
    <3> QED
      BY <3>1, <3>2, FunctionIsSeq
  <2> HIDE DEF one, zs
  <2>3. IsConcat(one \o zs, one, zs)
    BY <2>1, <2>2, Concatenation
  <2> DEFINE oz == one \o zs
  <2> HIDE DEF oz
  <2>4. IsConcat(oz, one, zs)
    BY <2>3 DEF oz
  <2>5. /\ IsSeq(oz) /\ Len(oz) = 1 + zeros
        /\ \A k \in 1 .. 1 : oz[k] = one[k]
        /\ \A k \in 1 .. zeros : oz[1 + k] = zs[k]
    BY <2>1, <2>2, <2>4 DEF IsConcat
  <2>6. ASSUME NEW k \in 1 .. plen PROVE pad[k] = oz[k]
    <3>1. CASE k = 1
      <4>1. 1 \in 1 .. 1
        OBVIOUS
      <4>2. oz[1] = {<<"0x80">>}
        BY <2>1, <2>5, <4>1
      <4> QED
        BY <1>3, <3>1, <4>2
    <3>2. CASE k # 1
      <4>1. k - 1 \in 1 .. zeros /\ 1 + (k - 1) = k
        BY <1>2, <3>2
      <4>2. oz[1 + (k - 1)] = zs[k - 1] /\ zs[k - 1] = {}
        BY <2>2, <2>5, <4>1
      <4>3. pad[k] = {}
        BY <1>3, <3>2
      <4> QED
        BY <4>1, <4>2, <4>3
    <3> QED
      BY <3>1, <3>2
  <2>7. Len(oz) = plen
    BY <1>2, <2>5
  <2>8. pad = oz
    BY <1>3, <2>5, <2>6, <2>7, SameSeq
  <2> QED
    BY <2>8 DEF oz
<1>5. IsSeq(enc)
  <2>1. enc = << {<<"hi", High(n)>>}, {<<"lo", Low(n)>>} >>
    BY DEF EncodedLength
  <2> DEFINE x == {<<"hi", High(n)>>}
             y == {<<"lo", Low(n)>>}
  <2> HIDE DEF x, y
  <2>2. enc = <<x, y>>
    BY <2>1 DEF x, y
  <2> HIDE DEF enc
  <2>3. enc = [k \in 1 .. 2 |-> enc[k]] /\ 2 \in Nat
    BY <2>2
  <2> QED
    BY <2>3, FunctionIsSeq
<1>6. IsSeq(msg \o pad)
  BY <1>3, Concatenation DEF IsConcat
<1>7. Pad(ctx) = Update(Update(ctx, pad), enc)
  <2>1. Buffered(ctx) = place
    BY <1>1, Counted
  <2>2. ctx.hi = High(n) /\ ctx.lo = Low(n)
    BY DEF IsContext
  <2> QED
    BY <2>1, <2>2 DEF Pad, pad, plen
<1>8. IsContext(Pad(ctx), whole)
  <2>1. IsContext(Update(ctx, pad), msg \o pad)
    BY <1>3, UpdateHolds
  <2> HIDE DEF enc
  <2>2. IsContext(Update(Update(ctx, pad), enc), whole)
    BY <1>5, <1>6, <2>1, UpdateHolds
  <2> QED
    BY <1>7, <2>2
<1>9. Pad(ctx).state = Blocks(whole)
  <2> DEFINE st == Blocks(whole)
             h == High(Len(whole))
             l == Low(Len(whole))
             p == Pad(ctx)
  <2>1. p = [hi |-> h, lo |-> l, state |-> st, buf |-> p.buf]
    BY <1>8 DEF IsContext
  <2> HIDE DEF st, h, l, p
  <2>2. p.state = st
    BY <2>1
  <2> QED
    BY <2>2 DEF p, st
<1>10. SpecSha(msg) = Digest(Blocks(((msg \o one) \o zs) \o enc))
  BY DEF SpecSha, zeros, High, Low
<1>11. msg \o pad = (msg \o one) \o zs
  <2>1. IsSeq(one)
    BY SingleIsSeq
  <2>2. IsSeq(zs)
    <3>1. zs = [k \in 1 .. zeros |-> zs[k]] /\ zeros \in Nat
      BY <1>2
    <3> HIDE DEF zs
    <3> QED
      BY <3>1, FunctionIsSeq
  <2> HIDE DEF one, zs
  <2>3. (msg \o one) \o zs = msg \o (one \o zs)
    BY <2>1, <2>2, Associative
  <2> QED
    BY <1>4, <2>3
<1> HIDE DEF enc, one, zs
<1> QED
  BY <1>9, <1>10, <1>11 DEF Final

(* A digest is a sequence of HashSize bytes. *)
LEMMA DigestIsSeq ==
  ASSUME NEW msg
  PROVE  IsSeq(SpecSha(msg)) /\ Len(SpecSha(msg)) = HashSize
<1> DEFINE d == SpecSha(msg)
<1>1. d = [k \in 1 .. HashSize |-> d[k]]
  BY DEF SpecSha, Digest
<1> HIDE DEF d
<1>2. IsSeq(d) /\ Len(d) = HashSize
  BY <1>1, Sizes, FunctionIsSeq
<1> QED
  BY <1>2 DEF d

(* SHA-256 through the context is SHA-256 of the message, of any length:   *)
(* cut into blocks across calls, padded, its length counted over both      *)
(* words (SHA256_Init, SHA256_Update, SHA256_Final).                       *)
THEOREM ShaIsDigest ==
  ASSUME NEW msg, IsSeq(msg)
  PROVE  Sha(msg) = SpecSha(msg)
<1>1. IsContext(Update(InitialContext, msg), <<>> \o msg)
  BY EmptyIsSeq, InitialHolds, UpdateHolds
<1>2. <<>> \o msg = msg
  BY EmptyAppended
<1>3. IsContext(Update(InitialContext, msg), msg)
  BY <1>1, <1>2
<1> QED
  BY <1>3, FinalIsDigest DEF Sha

-----------------------------------------------------------------------------
(* HMAC.                                                                   *)

(* The key as HMAC uses it. *)
KeyBlock(key) == IF Len(key) > BlockSize THEN SpecSha(key) ELSE key

(* A keyed pad fills one block. *)
LEMMA KeyPadIsSeq ==
  ASSUME NEW name, NEW K
  PROVE  IsSeq(KeyPad(name, K)) /\ Len(KeyPad(name, K)) = BlockSize
<1> DEFINE d == KeyPad(name, K)
<1>1. d = [k \in 1 .. BlockSize |-> d[k]]
  BY DEF KeyPad
<1> HIDE DEF d
<1>2. IsSeq(d) /\ Len(d) = BlockSize
  BY <1>1, Sizes, FunctionIsSeq
<1> QED
  BY <1>2 DEF d

(* What an HMAC context is after `text`. *)
IsHmac(ctx, key, text) ==
  /\ ctx = [ictx |-> ctx.ictx, octx |-> ctx.octx]
  /\ IsContext(ctx.ictx, KeyPad("0x36", KeyBlock(key)) \o text)
  /\ IsContext(ctx.octx, KeyPad("0x5c", KeyBlock(key)))

(* A new HMAC context has absorbed no text. *)
LEMMA HmacStarts ==
  ASSUME NEW key, IsSeq(key)
  PROVE  IsHmac(HmacInit(key), key, <<>>)
<1> DEFINE K == KeyBlock(key)
           ip == KeyPad("0x36", K)
           op == KeyPad("0x5c", K)
           ic == Update(InitialContext, ip)
           oc == Update(InitialContext, op)
           h == HmacInit(key)
<1>1. h = [ictx |-> ic, octx |-> oc]
  <2>1. (IF Len(key) > BlockSize THEN Sha(key) ELSE key) = K
    BY ShaIsDigest DEF KeyBlock
  <2> HIDE DEF K
  <2> QED
    BY <2>1 DEF HmacInit
<1>2. IsSeq(ip) /\ IsSeq(op)
  BY KeyPadIsSeq
<1> HIDE DEF ip, op
<1>3. IsContext(ic, ip) /\ IsContext(oc, op)
  <2>1. IsContext(ic, <<>> \o ip) /\ IsContext(oc, <<>> \o op)
    BY <1>2, EmptyIsSeq, InitialHolds, UpdateHolds
  <2>2. <<>> \o ip = ip /\ <<>> \o op = op
    BY <1>2, EmptyAppended
  <2> QED
    BY <2>1, <2>2
<1>4. ip \o <<>> = ip
  BY <1>2, EmptyAppended
<1> HIDE DEF ic, oc, h
<1>5. h.ictx = ic /\ h.octx = oc /\ h = [ictx |-> h.ictx, octx |-> h.octx]
  BY <1>1
<1>6. IsContext(h.ictx, ip \o <<>>) /\ IsContext(h.octx, op)
  BY <1>3, <1>4, <1>5
<1> QED
  BY <1>5, <1>6 DEF IsHmac, h, ip, op

(* What is added to an HMAC context follows the text before it. *)
LEMMA HmacHolds ==
  ASSUME NEW ctx, NEW key, NEW text, NEW in,
         IsSeq(text), IsSeq(in), IsHmac(ctx, key, text)
  PROVE  IsHmac(HmacUpdate(ctx, in), key, text \o in)
<1> DEFINE ip == KeyPad("0x36", KeyBlock(key))
           op == KeyPad("0x5c", KeyBlock(key))
           ic == Update(ctx.ictx, in)
           oc == ctx.octx
           h == HmacUpdate(ctx, in)
<1>1. ctx = [ictx |-> ctx.ictx, octx |-> oc]
      /\ IsContext(ctx.ictx, ip \o text) /\ IsContext(oc, op)
  BY DEF IsHmac
<1>2. IsSeq(ip) /\ IsSeq(ip \o text)
  BY KeyPadIsSeq, Concatenation DEF IsConcat
<1>3. h = [ictx |-> ic, octx |-> oc]
  <2> DEFINE ci == ctx.ictx
  <2>1. h = [ctx EXCEPT !.ictx = ic] /\ ctx = [ictx |-> ci, octx |-> oc]
    BY <1>1 DEF HmacUpdate
  <2> HIDE DEF ci, h, ic, oc
  <2> QED
    BY <2>1
<1> HIDE DEF ip, op
<1>4. IsContext(ic, ip \o (text \o in))
  <2>1. IsContext(ic, (ip \o text) \o in)
    BY <1>1, <1>2, UpdateHolds
  <2>2. (ip \o text) \o in = ip \o (text \o in)
    BY <1>2, Associative
  <2> QED
    BY <2>1, <2>2
<1> HIDE DEF ic, oc, h
<1>5. h.ictx = ic /\ h.octx = oc /\ h = [ictx |-> h.ictx, octx |-> h.octx]
  BY <1>3
<1>6. IsContext(h.ictx, ip \o (text \o in)) /\ IsContext(h.octx, op)
  BY <1>1, <1>4, <1>5
<1> QED
  BY <1>5, <1>6 DEF IsHmac, h, ip, op

(* The end of HMAC, from a context that has absorbed the text. *)
LEMMA HmacEnds ==
  ASSUME NEW ctx, NEW key, NEW text, IsSeq(text), IsHmac(ctx, key, text)
  PROVE  HmacFinal(ctx) = SpecHmac(key, text)
<1> DEFINE ip == KeyPad("0x36", KeyBlock(key))
           op == KeyPad("0x5c", KeyBlock(key))
           inner == SpecSha(ip \o text)
<1>1. IsContext(ctx.ictx, ip \o text) /\ IsContext(ctx.octx, op)
  BY DEF IsHmac
<1>2. IsSeq(ip) /\ IsSeq(op) /\ IsSeq(ip \o text) /\ IsSeq(inner)
  BY KeyPadIsSeq, Concatenation, DigestIsSeq DEF IsConcat
<1>3. SpecHmac(key, text) = SpecSha(op \o inner)
  BY DEF SpecHmac, KeyBlock
<1> HIDE DEF ip, op
<1>4. Final(ctx.ictx) = inner
  BY <1>1, <1>2, FinalIsDigest
<1> HIDE DEF inner
<1>5. IsContext(Update(ctx.octx, inner), op \o inner) /\ IsSeq(op \o inner)
  BY <1>1, <1>2, UpdateHolds, Concatenation DEF IsConcat
<1>6. Final(Update(ctx.octx, inner)) = SpecSha(op \o inner)
  BY <1>5, FinalIsDigest
<1> QED
  BY <1>3, <1>4, <1>6 DEF HmacFinal

(* HMAC returns as many bytes as a digest has. *)
LEMMA HmacIsSeq ==
  ASSUME NEW key, NEW text
  PROVE  IsSeq(SpecHmac(key, text)) /\ Len(SpecHmac(key, text)) = HashSize
BY DigestIsSeq DEF SpecHmac

(* HMAC through its two contexts is HMAC of the text, for keys and texts   *)
(* of any length (HMAC_SHA256_Init, _Update, _Final).                      *)
THEOREM HmacIsDigest ==
  ASSUME NEW key, NEW text, IsSeq(key), IsSeq(text)
  PROVE  HmacFinal(HmacUpdate(HmacInit(key), text)) = SpecHmac(key, text)
<1>1. IsHmac(HmacUpdate(HmacInit(key), text), key, <<>> \o text)
  BY EmptyIsSeq, HmacStarts, HmacHolds
<1>2. <<>> \o text = text
  BY EmptyAppended
<1> QED
  BY <1>1, <1>2, HmacEnds

-----------------------------------------------------------------------------
(* The chains of PBKDF2: the recursions that define them are satisfied.    *)

(* U_1 is the PRF of the salt and the number of the block, U_k+1 that of U_k. *)
LEMMA ChainOfU ==
  ASSUME NEW passwd, NEW salt, NEW n, NEW c \in Nat \ {0}
  PROVE  LET u == SpecU(passwd, salt, n, c)
         IN  /\ u[1] = SpecHmac(passwd, salt \o BlockNumber(n))
             /\ \A k \in 1 .. c - 1 : u[k + 1] = SpecHmac(passwd, u[k])
<1> DEFINE first == salt \o BlockNumber(n)
           IsChain(u, m) ==
             u = [k \in 1 .. m |-> SpecHmac(passwd, IF k = 1 THEN first ELSE u[k - 1])]
           S == {m \in Nat : \E u : IsChain(u, m)}
<1>1. 0 \in S
  <2>1. IsChain([k \in 1 .. 0 |-> 0], 0)
    OBVIOUS
  <2> QED
    BY <2>1
<1>2. ASSUME NEW m \in Nat, m \in S PROVE m + 1 \in S
  <2>1. PICK u : IsChain(u, m)
    BY <1>2
  <2> DEFINE last == SpecHmac(passwd, IF m + 1 = 1 THEN first ELSE u[m])
             v == [k \in 1 .. m + 1 |-> IF k = m + 1 THEN last ELSE u[k]]
  <2>2. ASSUME NEW k \in 1 .. m + 1
        PROVE  v[k] = SpecHmac(passwd, IF k = 1 THEN first ELSE v[k - 1])
    <3>1. CASE k = m + 1
      <4>1. v[k] = last
        BY <3>1
      <4>2. k # 1 => k - 1 \in 1 .. m + 1 /\ k - 1 = m /\ k - 1 # m + 1
        BY <3>1
      <4>3. k # 1 => v[k - 1] = u[m]
        BY <4>2
      <4> HIDE DEF v
      <4>4. (IF m + 1 = 1 THEN first ELSE u[m]) = (IF k = 1 THEN first ELSE v[k - 1])
        BY <3>1, <4>3
      <4> QED
        BY <4>1, <4>4
    <3>2. CASE k # m + 1
      <4>1. k \in 1 .. m /\ (k # 1 => k - 1 \in 1 .. m + 1 /\ k - 1 # m + 1)
        BY <3>2
      <4>2. v[k] = u[k] /\ (k # 1 => v[k - 1] = u[k - 1])
        BY <3>2, <4>1
      <4>3. u[k] = SpecHmac(passwd, IF k = 1 THEN first ELSE u[k - 1])
        BY <2>1, <4>1
      <4> HIDE DEF v
      <4>4. (IF k = 1 THEN first ELSE u[k - 1]) = (IF k = 1 THEN first ELSE v[k - 1])
        BY <4>2
      <4> QED
        BY <4>2, <4>3, <4>4
    <3> QED
      BY <3>1, <3>2
  <2>3. v = [k \in 1 .. m + 1 |-> v[k]]
    OBVIOUS
  <2>4. [k \in 1 .. m + 1 |-> v[k]] =
        [k \in 1 .. m + 1 |-> SpecHmac(passwd, IF k = 1 THEN first ELSE v[k - 1])]
    <3> HIDE DEF v, first
    <3> QED
      BY <2>2
  <2>5. IsChain(v, m + 1)
    BY <2>3, <2>4
  <2>6. \E w : IsChain(w, m + 1)
    <3> HIDE DEF v, IsChain
    <3> QED
      BY <2>5
  <2> HIDE DEF IsChain
  <2> QED
    BY <2>6
<1>3. \A m \in Nat : m \in S
  <2> HIDE DEF S
  <2> QED
    BY <1>1, <1>2, SetInduction
<1> DEFINE u == SpecU(passwd, salt, n, c)
<1>4. u = CHOOSE f : IsChain(f, c)
  BY DEF SpecU
<1>5. IsChain(u, c)
  <2>1. \E f : IsChain(f, c)
    BY <1>3
  <2> HIDE DEF u, IsChain
  <2> QED
    BY <1>4, <2>1
<1> HIDE DEF u
<1>6. \A k \in 1 .. c : u[k] = SpecHmac(passwd, IF k = 1 THEN first ELSE u[k - 1])
  <2> HIDE DEF first
  <2> QED
    BY <1>5
<1>7. u[1] = SpecHmac(passwd, first)
  <2>1. 1 \in 1 .. c
    OBVIOUS
  <2> QED
    BY <1>6, <2>1
<1>8. ASSUME NEW k \in 1 .. c - 1 PROVE u[k + 1] = SpecHmac(passwd, u[k])
  <2>1. k + 1 \in 1 .. c /\ k + 1 # 1 /\ (k + 1) - 1 = k
    OBVIOUS
  <2>2. u[k + 1] = SpecHmac(passwd, u[(k + 1) - 1])
    BY <1>6, <2>1
  <2> QED
    BY <2>1, <2>2
<1> QED
  BY <1>7, <1>8 DEF u

(* T_1 is U_1, and T_k+1 adds U_k+1. *)
LEMMA ChainOfT ==
  ASSUME NEW passwd, NEW salt, NEW n, NEW c \in Nat \ {0}
  PROVE  LET u == SpecU(passwd, salt, n, c)
             t == SpecT(passwd, salt, n, c)
         IN  t[1] = u[1] /\ \A k \in 1 .. c - 1 : t[k + 1] = Xor(t[k], u[k + 1])
<1> DEFINE u == SpecU(passwd, salt, n, c)
           IsChain(t, m) ==
             t = [k \in 1 .. m |-> IF k = 1 THEN u[1] ELSE Xor(t[k - 1], u[k])]
           S == {m \in Nat : \E t : IsChain(t, m)}
<1>1. 0 \in S
  <2>1. IsChain([k \in 1 .. 0 |-> 0], 0)
    OBVIOUS
  <2> QED
    BY <2>1
<1>2. ASSUME NEW m \in Nat, m \in S PROVE m + 1 \in S
  <2>1. PICK t : IsChain(t, m)
    BY <1>2
  <2> HIDE DEF u
  <2> DEFINE last == IF m + 1 = 1 THEN u[1] ELSE Xor(t[m], u[m + 1])
             v == [k \in 1 .. m + 1 |-> IF k = m + 1 THEN last ELSE t[k]]
  <2>2. ASSUME NEW k \in 1 .. m + 1
        PROVE  v[k] = IF k = 1 THEN u[1] ELSE Xor(v[k - 1], u[k])
    <3>1. CASE k = m + 1
      <4>1. v[k] = last
        BY <3>1
      <4>2. k # 1 => k - 1 \in 1 .. m + 1 /\ k - 1 = m /\ k - 1 # m + 1
        BY <3>1
      <4>3. k # 1 => v[k - 1] = t[m]
        BY <4>2
      <4> HIDE DEF v
      <4> QED
        BY <3>1, <4>1, <4>3
    <3>2. CASE k # m + 1
      <4>1. k \in 1 .. m /\ (k # 1 => k - 1 \in 1 .. m + 1 /\ k - 1 # m + 1)
        BY <3>2
      <4>2. v[k] = t[k] /\ (k # 1 => v[k - 1] = t[k - 1])
        BY <3>2, <4>1
      <4>3. t[k] = IF k = 1 THEN u[1] ELSE Xor(t[k - 1], u[k])
        BY <2>1, <4>1
      <4> HIDE DEF v
      <4> QED
        BY <4>2, <4>3
    <3> QED
      BY <3>1, <3>2
  <2>3. v = [k \in 1 .. m + 1 |-> v[k]]
    OBVIOUS
  <2>4. [k \in 1 .. m + 1 |-> v[k]] =
        [k \in 1 .. m + 1 |-> IF k = 1 THEN u[1] ELSE Xor(v[k - 1], u[k])]
    <3> HIDE DEF v
    <3> QED
      BY <2>2
  <2>5. IsChain(v, m + 1)
    BY <2>3, <2>4
  <2>6. \E w : IsChain(w, m + 1)
    <3> HIDE DEF v, IsChain
    <3> QED
      BY <2>5
  <2> HIDE DEF IsChain
  <2> QED
    BY <2>6
<1>3. \A m \in Nat : m \in S
  <2> HIDE DEF S
  <2> QED
    BY <1>1, <1>2, SetInduction
<1> DEFINE t == SpecT(passwd, salt, n, c)
<1>4. t = CHOOSE f : IsChain(f, c)
  BY DEF SpecT
<1>5. IsChain(t, c)
  <2>1. \E f : IsChain(f, c)
    BY <1>3
  <2> HIDE DEF t, IsChain
  <2> QED
    BY <1>4, <2>1
<1> HIDE DEF t, u
<1>6. \A k \in 1 .. c : t[k] = IF k = 1 THEN u[1] ELSE Xor(t[k - 1], u[k])
  BY <1>5
<1>7. t[1] = u[1]
  <2>1. 1 \in 1 .. c
    OBVIOUS
  <2> QED
    BY <1>6, <2>1
<1>8. ASSUME NEW k \in 1 .. c - 1 PROVE t[k + 1] = Xor(t[k], u[k + 1])
  <2>1. k + 1 \in 1 .. c /\ k + 1 # 1 /\ (k + 1) - 1 = k
    OBVIOUS
  <2>2. t[k + 1] = Xor(t[(k + 1) - 1], u[k + 1])
    BY <1>6, <2>1
  <2> QED
    BY <2>1, <2>2
<1> QED
  BY <1>7, <1>8 DEF t, u

(* Exclusive or keeps the length. *)
LEMMA XorIsSeq ==
  ASSUME NEW s, NEW t, IsSeq(s)
  PROVE  IsSeq(Xor(s, t)) /\ Len(Xor(s, t)) = Len(s)
<1> DEFINE x == Xor(s, t)
<1>1. Len(s) \in Nat /\ DOMAIN s = 1 .. Len(s)
  BY SeqIsFunction
<1>2. x = [k \in 1 .. Len(s) |-> x[k]]
  BY <1>1 DEF Xor
<1> HIDE DEF x
<1>3. IsSeq(x) /\ Len(x) = Len(s)
  BY <1>1, <1>2, FunctionIsSeq
<1> QED
  BY <1>3 DEF x

(* Each of them is a sequence of the size of a digest. *)
LEMMA ChainsAreSeqs ==
  ASSUME NEW passwd, NEW salt, NEW n, NEW c \in Nat \ {0}, NEW k \in 1 .. c
  PROVE  LET u == SpecU(passwd, salt, n, c)[k]
             t == SpecT(passwd, salt, n, c)[k]
         IN  /\ IsSeq(u) /\ Len(u) = HashSize
             /\ IsSeq(t) /\ Len(t) = HashSize
<1> DEFINE u == SpecU(passwd, salt, n, c)
           t == SpecT(passwd, salt, n, c)
           Sized(s) == IsSeq(s) /\ Len(s) = HashSize
           S == {m \in Nat : m + 1 \in 1 .. c => Sized(u[m + 1]) /\ Sized(t[m + 1])}
<1>1. /\ u[1] = SpecHmac(passwd, salt \o BlockNumber(n))
      /\ \A m \in 1 .. c - 1 : u[m + 1] = SpecHmac(passwd, u[m])
  BY ChainOfU
<1>2. t[1] = u[1] /\ \A m \in 1 .. c - 1 : t[m + 1] = Xor(t[m], u[m + 1])
  BY ChainOfT
<1> HIDE DEF u, t
<1>3. 0 \in S
  <2>1. Sized(u[1])
    BY <1>1, HmacIsSeq
  <2>2. 0 + 1 = 1
    OBVIOUS
  <2> HIDE DEF Sized
  <2> QED
    BY <1>2, <2>1, <2>2
<1>4. ASSUME NEW m \in Nat, m \in S PROVE m + 1 \in S
  <2> SUFFICES ASSUME (m + 1) + 1 \in 1 .. c
               PROVE  Sized(u[(m + 1) + 1]) /\ Sized(t[(m + 1) + 1])
    OBVIOUS
  <2>1. m + 1 \in 1 .. c - 1 /\ m + 1 \in 1 .. c
    OBVIOUS
  <2>2. Sized(t[m + 1])
    BY <1>4, <2>1
  <2>3. Sized(u[(m + 1) + 1])
    BY <1>1, <2>1, HmacIsSeq
  <2>4. Sized(Xor(t[m + 1], u[(m + 1) + 1]))
    BY <2>2, XorIsSeq
  <2>5. t[(m + 1) + 1] = Xor(t[m + 1], u[(m + 1) + 1])
    BY <1>2, <2>1
  <2> HIDE DEF Sized
  <2> QED
    BY <2>3, <2>4, <2>5
<1>5. \A m \in Nat : m \in S
  <2> HIDE DEF S
  <2> QED
    BY <1>3, <1>4, SetInduction
<1>6. k - 1 \in Nat /\ (k - 1) + 1 = k
  OBVIOUS
<1>7. Sized(u[k]) /\ Sized(t[k])
  BY <1>5, <1>6
<1> QED
  BY <1>7 DEF u, t

-----------------------------------------------------------------------------
(* The invariant.                                                          *)

Key == SpecPbkdf2(call.passwd, call.salt, call.c, call.dkLen)

(* Inside a block: the last values of its two chains. *)
InBlock ==
  /\ i * HashSize < call.dkLen /\ j \in 2 .. call.c + 1
  /\ U = SpecU(call.passwd, call.salt, i + 1, call.c)[j - 1]
  /\ T = SpecT(call.passwd, call.salt, i + 1, call.c)[j - 1]

(* The call of PBKDF2_SHA256: what is written is the beginning of the key, *)
(* and the context to copy holds the password and the salt of the call.    *)
CallInv ==
  /\ pc \in {"idle", "blocks", "iterations", "returned"}
  /\ IsSeq(call.passwd) /\ IsSeq(call.salt)
  /\ call.c \in Nat \ {0} /\ call.dkLen \in Nat
  /\ i \in Nat /\ i * HashSize < call.dkLen + HashSize
  /\ IsSeq(buf) /\ Len(buf) = Min2(i * HashSize, call.dkLen)
  /\ \A k \in 1 .. Len(buf) : buf[k] = Key[k]
  /\ pc # "idle" => IsHmac(PShctx, call.passwd, call.salt)
  /\ pc = "iterations" => InBlock
  /\ pc = "returned" => i * HashSize >= call.dkLen

Called(passwd, salt, dkLen) ==
  call.passwd = passwd /\ call.salt = salt /\ call.c = 1 /\ call.dkLen = dkLen

Password == IF algo = "yescrypt" THEN SpecSha(Input) ELSE Input
Block == SpecPbkdf2(Password, Input, 1, BlockLen)
Password2 == IF algo = "yescrypt" THEN Prefix(Block, HashSize) ELSE Input

(* The caller: what it has asked for, and the two uses of its array.       *)
StageInv ==
  /\ stage \in {"start", "direct", "derive", "mix", "extract", "done"}
  /\ Len(B) \in {0, BlockLen}
  /\ stage = "direct" => algo = "pbkdf2"
  /\ stage = "derive" => algo # "pbkdf2" /\ Called(Password, Input, BlockLen)
  /\ stage \in {"mix", "extract"} =>
       /\ algo # "pbkdf2" /\ B = Smix(Block)
       /\ algo = "yescrypt" => sha256 = Prefix(Block, HashSize)
  /\ stage = "extract" => Called(Password2, Smix(Block), HashSize)
  /\ stage = "done" /\ algo # "pbkdf2" => output = SpecKdf

KdfInv == CallInv /\ StageInv

(* The key is a sequence of the length asked for. *)
LEMMA KeyIsSeq ==
  ASSUME NEW passwd, NEW salt, NEW c, NEW dkLen \in Nat
  PROVE  LET key == SpecPbkdf2(passwd, salt, c, dkLen)
         IN  IsSeq(key) /\ Len(key) = dkLen
<1> DEFINE key == SpecPbkdf2(passwd, salt, c, dkLen)
<1>1. key = [k \in 1 .. dkLen |-> key[k]]
  BY DEF SpecPbkdf2
<1> HIDE DEF key
<1>2. IsSeq(key) /\ Len(key) = dkLen
  BY <1>1, FunctionIsSeq
<1> QED
  BY <1>2 DEF key

(* And it is made of the blocks, in their order. *)
LEMMA KeyOfBlocks ==
  ASSUME NEW passwd, NEW salt, NEW c, NEW dkLen \in Nat,
         NEW n \in Nat, NEW k \in 1 .. HashSize, n * HashSize + k <= dkLen
  PROVE  SpecPbkdf2(passwd, salt, c, dkLen)[n * HashSize + k] =
         SpecBlock(passwd, salt, n + 1, c)[k]
<1> DEFINE Blk(m) == SpecBlock(passwd, salt, m, c)
           x == n * HashSize + k
           y == HashSize * n
<1>1. HashSize \in Nat \ {0} /\ k - 1 \in Nat /\ k - 1 < HashSize /\ (k - 1) + 1 = k
  BY Sizes
<1>2. (y + (k - 1)) \div HashSize = n /\ (y + (k - 1)) % HashSize = k - 1
  BY <1>1, Divided
<1>3. y \in Nat /\ y = n * HashSize
  BY <1>1
<1>4. n + 1 <= dkLen
  <2>1. n <= n * HashSize
    <3> DEFINE h == HashSize - 1
    <3>1. h \in Nat /\ HashSize = h + 1
      BY <1>1
    <3> HIDE DEF h
    <3>2. n * HashSize = n * h + n /\ n * h \in Nat
      BY <3>1
    <3> QED
      BY <3>2
  <2> HIDE DEF y
  <2> QED
    BY <1>3, <2>1
<1>5. x \in 1 .. dkLen /\ x - 1 = y + (k - 1)
  <2> HIDE DEF y
  <2> QED
    BY <1>3
<1> HIDE DEF x, y
<1>6. SpecPbkdf2(passwd, salt, c, dkLen) =
      [m \in 1 .. dkLen |->
         [b \in 1 .. dkLen |-> Blk(b)][((m - 1) \div HashSize) + 1]
                                      [((m - 1) % HashSize) + 1]]
  BY DEF SpecPbkdf2
<1>7. ((x - 1) \div HashSize) + 1 = n + 1 /\ ((x - 1) % HashSize) + 1 = k
  BY <1>1, <1>2, <1>5
<1> HIDE DEF Blk
<1>8. SpecPbkdf2(passwd, salt, c, dkLen)[x] =
      [b \in 1 .. dkLen |-> Blk(b)][n + 1][k]
  BY <1>5, <1>6, <1>7
<1>9. n + 1 \in 1 .. dkLen
  BY <1>4
<1> QED
  BY <1>8, <1>9 DEF Blk, x

(* An argument is a sequence. *)
LEMMA BytesAreSeqs ==
  ASSUME NEW name, NEW n \in Nat
  PROVE  IsSeq(Bytes(name, n)) /\ Len(Bytes(name, n)) = n
<1> DEFINE s == Bytes(name, n)
<1>1. s = [k \in 1 .. n |-> s[k]]
  BY DEF Bytes
<1> HIDE DEF s
<1>2. IsSeq(s) /\ Len(s) = n
  BY <1>1, FunctionIsSeq
<1> QED
  BY <1>2 DEF s

(* The mixing returns as many bytes as it is given. *)
LEMMA SmixIsSeq ==
  ASSUME NEW block, IsSeq(block)
  PROVE  IsSeq(Smix(block)) /\ Len(Smix(block)) = Len(block)
<1> DEFINE s == Smix(block)
<1>1. Len(block) \in Nat /\ DOMAIN block = 1 .. Len(block)
  BY SeqIsFunction
<1>2. s = [k \in 1 .. Len(block) |-> s[k]]
  BY <1>1 DEF Smix
<1> HIDE DEF s
<1>3. IsSeq(s) /\ Len(s) = Len(block)
  BY <1>1, <1>2, FunctionIsSeq
<1> QED
  BY <1>3 DEF s

(* A call starts from a context of its own, whatever was left behind. *)
LEMMA EnterHolds ==
  ASSUME NEW passwd, NEW salt, NEW c \in Nat \ {0}, NEW dkLen \in Nat,
         IsSeq(passwd), IsSeq(salt), Enter(passwd, salt, c, dkLen)
  PROVE  /\ CallInv'
         /\ call' = [passwd |-> passwd, salt |-> salt, c |-> c, dkLen |-> dkLen]
<1>1. /\ pc' = "blocks" /\ i' = 0 /\ buf' = <<>>
      /\ PShctx' = HmacUpdate(HmacInit(passwd), salt)
      /\ call' = [passwd |-> passwd, salt |-> salt, c |-> c, dkLen |-> dkLen]
  BY DEF Enter
<1>2. call'.passwd = passwd /\ call'.salt = salt /\ call'.c = c /\ call'.dkLen = dkLen
  BY <1>1
<1>3. IsHmac(PShctx', passwd, salt)
  <2>1. IsHmac(HmacUpdate(HmacInit(passwd), salt), passwd, <<>> \o salt)
    BY EmptyIsSeq, HmacStarts, HmacHolds
  <2>2. <<>> \o salt = salt
    BY EmptyAppended
  <2> QED
    BY <1>1, <2>1, <2>2
<1>4. i' \in Nat /\ i' * HashSize = 0 /\ 0 < dkLen + HashSize /\ Min2(0, dkLen) = 0
  BY <1>1, Sizes DEF Min2
<1>5. IsSeq(buf') /\ Len(buf') = 0
  BY <1>1, EmptyIsSeq
<1>6. \A k \in 1 .. Len(buf') : buf'[k] = Key'[k]
  BY <1>5
<1> QED
  BY <1>1, <1>2, <1>3, <1>4, <1>5, <1>6 DEF CallInv

(* The first value of a block, from a copy of the context. *)
LEMMA BlockBegins ==
  ASSUME CallInv, BeginBlock
  PROVE  CallInv' /\ call' = call
<1> DEFINE us == SpecU(call.passwd, call.salt, i + 1, call.c)
           ts == SpecT(call.passwd, call.salt, i + 1, call.c)
<1>1. /\ pc = "blocks" /\ pc' = "iterations" /\ i * HashSize < call.dkLen
      /\ U' = HmacFinal(HmacUpdate(PShctx, BlockNumber(i + 1))) /\ T' = U' /\ j' = 2
      /\ call' = call /\ PShctx' = PShctx /\ i' = i /\ buf' = buf
  BY DEF BeginBlock
<1>2. IsHmac(PShctx, call.passwd, call.salt) /\ IsSeq(call.salt)
      /\ call.c \in Nat \ {0}
  BY <1>1 DEF CallInv
<1>3. U' = us[1]
  <2> DEFINE number == BlockNumber(i + 1)
  <2>1. IsSeq(number)
    BY SingleIsSeq DEF BlockNumber
  <2> HIDE DEF number
  <2>2. IsHmac(HmacUpdate(PShctx, number), call.passwd, call.salt \o number)
    BY <1>2, <2>1, HmacHolds
  <2>3. IsSeq(call.salt \o number)
    BY <1>2, <2>1, Concatenation DEF IsConcat
  <2>4. U' = SpecHmac(call.passwd, call.salt \o number)
    BY <1>1, <2>2, <2>3, HmacEnds DEF number
  <2>5. us[1] = SpecHmac(call.passwd, call.salt \o number)
    BY <1>2, ChainOfU DEF number
  <2> QED
    BY <2>4, <2>5
<1>4. ts[1] = us[1]
  BY <1>2, ChainOfT
<1>5. j' - 1 = 1 /\ j' \in 2 .. call.c + 1
  BY <1>1, <1>2
<1> HIDE DEF us, ts
<1>6. U' = us[j' - 1] /\ T' = ts[j' - 1]
  BY <1>1, <1>3, <1>4, <1>5
<1>7. InBlock'
  BY <1>1, <1>5, <1>6 DEF InBlock, us, ts
<1>8. Key' = Key
  BY <1>1 DEF Key
<1> QED
  BY <1>1, <1>7, <1>8 DEF CallInv

(* One more iteration: both chains advance by one. *)
LEMMA IterationHolds ==
  ASSUME CallInv, Iterate
  PROVE  CallInv' /\ call' = call
<1> DEFINE us == SpecU(call.passwd, call.salt, i + 1, call.c)
           ts == SpecT(call.passwd, call.salt, i + 1, call.c)
           m == j - 1
<1>1. /\ pc = "iterations" /\ pc' = pc /\ j <= call.c
      /\ U' = HmacFinal(HmacUpdate(HmacInit(call.passwd), U))
      /\ T' = Xor(T, U') /\ j' = j + 1
      /\ call' = call /\ PShctx' = PShctx /\ i' = i /\ buf' = buf
  BY DEF Iterate
<1>2. /\ InBlock /\ call.c \in Nat \ {0} /\ IsSeq(call.passwd)
      /\ U = us[m] /\ T = ts[m] /\ j \in 2 .. call.c + 1
  BY <1>1 DEF CallInv, InBlock
<1>3. m \in 1 .. call.c - 1 /\ m \in 1 .. call.c /\ m + 1 = j /\ j' - 1 = j
      /\ j' \in 2 .. call.c + 1
  BY <1>1, <1>2
<1> HIDE DEF m
<1>4. IsSeq(U)
  BY <1>2, <1>3, ChainsAreSeqs
<1>5. U' = SpecHmac(call.passwd, U)
  BY <1>1, <1>2, <1>4, HmacIsDigest
<1>6. us[m + 1] = SpecHmac(call.passwd, us[m])
  BY <1>2, <1>3, ChainOfU
<1>7. ts[m + 1] = Xor(ts[m], us[m + 1])
  BY <1>2, <1>3, ChainOfT
<1> HIDE DEF us, ts
<1>8. U' = us[j' - 1] /\ T' = ts[j' - 1]
  BY <1>1, <1>2, <1>3, <1>5, <1>6, <1>7
<1>9. InBlock'
  BY <1>1, <1>2, <1>3, <1>8 DEF InBlock, us, ts
<1>10. Key' = Key
  BY <1>1 DEF Key
<1> QED
  BY <1>1, <1>9, <1>10 DEF CallInv

(* The end of a block: what is copied continues the key. *)
LEMMA BlockEnds ==
  ASSUME CallInv, EndBlock
  PROVE  CallInv' /\ call' = call
<1> DEFINE done == i * HashSize
           take == Min2(call.dkLen - done, HashSize)
           part == Prefix(T, take)
<1>1. /\ pc = "iterations" /\ pc' = "blocks" /\ j > call.c
      /\ buf' = buf \o part /\ i' = i + 1
      /\ call' = call /\ PShctx' = PShctx
  BY DEF EndBlock
<1>2. /\ InBlock /\ call.c \in Nat \ {0} /\ call.dkLen \in Nat /\ i \in Nat
      /\ IsSeq(buf) /\ Len(buf) = Min2(done, call.dkLen)
      /\ \A k \in 1 .. Len(buf) : buf[k] = Key[k]
  BY <1>1 DEF CallInv
<1>3. T = SpecBlock(call.passwd, call.salt, i + 1, call.c)
  <2>1. j - 1 = call.c
    BY <1>1, <1>2 DEF InBlock
  <2> QED
    BY <1>2, <2>1 DEF InBlock, SpecBlock
<1>4. done \in Nat /\ done < call.dkLen /\ HashSize \in Nat \ {0}
      /\ i' * HashSize = done + HashSize
  <2>1. i' = i + 1 /\ i \in Nat /\ HashSize \in Nat \ {0}
    BY <1>1, <1>2, Sizes
  <2>2. i * HashSize < call.dkLen
    BY <1>2 DEF InBlock
  <2>3. (i + 1) * HashSize = i * HashSize + HashSize /\ i * HashSize \in Nat
    BY <2>1
  <2> QED
    BY <2>1, <2>2, <2>3
<1>0. \A k \in 1 .. HashSize : done + k <= call.dkLen => Key[done + k] = T[k]
  BY <1>2, <1>3, KeyOfBlocks DEF Key
<1> HIDE DEF done
<1>5. /\ take \in Nat /\ take <= HashSize /\ take <= call.dkLen - done
      /\ done + take = Min2(done + HashSize, call.dkLen)
      /\ Len(buf) = done
  BY <1>2, <1>4 DEF Min2
<1> HIDE DEF take
<1>6. IsSeq(part) /\ Len(part) = take /\ \A k \in 1 .. take : part[k] = T[k]
  BY <1>5, PrefixOfSeq
<1> HIDE DEF part
<1>7. IsConcat(buf', buf, part)
  BY <1>1, <1>2, <1>6, Concatenation
<1>8. IsSeq(buf') /\ Len(buf') = Min2(i' * HashSize, call.dkLen)
  BY <1>4, <1>5, <1>6, <1>7 DEF IsConcat
<1>9. ASSUME NEW k \in 1 .. Len(buf') PROVE buf'[k] = Key[k]
  <2>1. Len(buf') = done + take
    BY <1>5, <1>6, <1>7 DEF IsConcat
  <2>2. CASE k <= done
    <3>1. k \in 1 .. Len(buf)
      BY <1>5, <2>2
    <3> QED
      BY <1>2, <1>7, <3>1 DEF IsConcat
  <2>3. CASE k > done
    <3> DEFINE m == k - done
    <3>a. call.dkLen \in Nat
      BY <1>2
    <3>b. k \in Nat /\ k <= done + take
      BY <1>4, <1>5, <2>1
    <3>0. k \in Nat /\ k <= done + take /\ done + take <= call.dkLen
      BY <1>4, <1>5, <3>a, <3>b
    <3>c. take \in Nat /\ take <= HashSize /\ done \in Nat /\ HashSize \in Nat
      BY <1>4, <1>5
    <3>d. m \in Nat /\ m >= 1 /\ done + m = k
      BY <2>3, <3>b, <3>c
    <3> HIDE DEF m
    <3>e. m <= take
      BY <3>b, <3>c, <3>d
    <3>1. m \in 1 .. take /\ m \in 1 .. HashSize /\ done + m = k
          /\ done + m <= call.dkLen
      BY <3>0, <3>a, <3>c, <3>d, <3>e
    <3>2. buf'[done + m] = part[m]
      BY <1>5, <1>6, <1>7, <3>1 DEF IsConcat
    <3> QED
      BY <1>0, <1>6, <3>1, <3>2
  <2> QED
    BY <1>4, <2>2, <2>3
<1>10. Key' = Key
  BY <1>1 DEF Key
<1>11. i' \in Nat /\ i' * HashSize < call.dkLen + HashSize
  BY <1>1, <1>2, <1>4
<1> QED
  BY <1>1, <1>8, <1>9, <1>10, <1>11 DEF CallInv

(* Every step of the loops. *)
LEMMA PbkStepHolds ==
  ASSUME CallInv, PbkStep
  PROVE  CallInv' /\ call' = call
<1>1. CASE BeginBlock
  BY <1>1, BlockBegins
<1>2. CASE Iterate
  BY <1>2, IterationHolds
<1>3. CASE EndBlock
  BY <1>3, BlockEnds
<1>4. CASE Leave
  <2>1. /\ pc = "blocks" /\ pc' = "returned" /\ i * HashSize >= call.dkLen
        /\ call' = call /\ PShctx' = PShctx /\ i' = i /\ buf' = buf
    BY <1>4 DEF Leave
  <2>2. Key' = Key
    BY <2>1 DEF Key
  <2> QED
    BY <2>1, <2>2 DEF CallInv
<1> QED
  BY <1>1, <1>2, <1>3, <1>4 DEF PbkStep

(* Both passwords are sequences. *)
LEMMA PasswordsAreSeqs ==
  /\ IsSeq(Input) /\ IsSeq(Password) /\ IsSeq(Password2)
  /\ IsSeq(Block) /\ Len(Block) = BlockLen
<1>1. IsSeq(Input)
  BY KdfSizes, BytesAreSeqs DEF Input
<1>2. IsSeq(SpecSha(Input))
  BY DigestIsSeq
<1>3. IsSeq(Block) /\ Len(Block) = BlockLen
  BY KdfSizes, KeyIsSeq DEF Block
<1>4. IsSeq(Prefix(Block, HashSize))
  BY Sizes, PrefixOfSeq
<1> QED
  BY <1>1, <1>2, <1>3, <1>4, Zenon DEF Password, Password2

(* On return, all of the key is written. *)
LEMMA ReturnedKey ==
  ASSUME CallInv, pc = "returned"
  PROVE  buf = Key /\ Len(buf) = call.dkLen
<1>1. /\ IsSeq(buf) /\ Len(buf) = Min2(i * HashSize, call.dkLen)
      /\ i * HashSize >= call.dkLen /\ call.dkLen \in Nat /\ i \in Nat
      /\ \A k \in 1 .. Len(buf) : buf[k] = Key[k]
  BY DEF CallInv
<1>2. Len(buf) = call.dkLen
  <2>1. i * HashSize \in Nat
    BY <1>1, Sizes
  <2> QED
    BY <1>1, <2>1 DEF Min2
<1>3. IsSeq(Key) /\ Len(Key) = call.dkLen
  BY <1>1, KeyIsSeq DEF Key
<1> QED
  BY <1>1, <1>2, <1>3, SameSeq

(* The mixing reads the first derivation. *)
LEMMA MixHolds ==
  ASSUME KdfInv, stage = "derive", pc = "returned"
  PROVE  buf = Block /\ Len(Smix(buf)) = BlockLen
<1>1. buf = Key
  BY ReturnedKey DEF KdfInv
<1>2. Key = Block
  BY DEF KdfInv, StageInv, Called, Key, Block
<1>3. Len(Smix(Block)) = BlockLen
  BY PasswordsAreSeqs, SmixIsSeq
<1> QED
  BY <1>1, <1>2, <1>3

(* The output is read from the second. *)
LEMMA ExtractHolds ==
  ASSUME KdfInv, stage = "extract", pc = "returned"
  PROVE  /\ IsSeq(buf)
         /\ algo = "yescrypt" => SpecKdf = SpecSha(SpecHmac(buf, Input))
         /\ algo # "yescrypt" => SpecKdf = buf
<1>1. buf = Key /\ IsSeq(buf)
  BY ReturnedKey DEF KdfInv, CallInv
<1>2. Key = SpecPbkdf2(Password2, Smix(Block), 1, HashSize)
  BY DEF KdfInv, StageInv, Called, Key
<1>3. SpecKdf = LET key == SpecPbkdf2(Password2, Smix(Block), 1, HashSize)
                IN  IF algo = "yescrypt" THEN SpecSha(SpecHmac(key, Input)) ELSE key
  BY DEF SpecKdf, Password2, Block, Password
<1> QED
  BY <1>1, <1>2, <1>3

(* The invariant holds before the first call. *)
LEMMA KdfInitHolds ==
  ASSUME KdfInit
  PROVE  KdfInv
<1>1. /\ call = [passwd |-> <<>>, salt |-> <<>>, c |-> 1, dkLen |-> 0]
      /\ pc = "idle" /\ i = 0 /\ buf = <<>> /\ stage = "start" /\ B = <<>>
  BY DEF KdfInit, PbkInit
<1>2. IsSeq(<<>>) /\ Len(<<>>) = 0
  BY EmptyIsSeq
<1>3. i * HashSize = 0 /\ 0 < 0 + HashSize /\ Min2(0, 0) = 0
  BY <1>1, Sizes DEF Min2
<1>4. /\ call.passwd = <<>> /\ call.salt = <<>> /\ call.c = 1 /\ call.dkLen = 0
  BY <1>1
<1>5. CallInv
  BY <1>1, <1>2, <1>3, <1>4 DEF CallInv
<1>6. StageInv
  BY <1>1, <1>2 DEF StageInv
<1> QED
  BY <1>5, <1>6 DEF KdfInv

(* Every step of the derivations preserves the invariant. *)
LEMMA KdfStepHolds ==
  ASSUME KdfInv, [KdfNext]_vars
  PROVE  KdfInv'
<1> USE DEF KdfInv
<1>0. BlockLen \in Nat /\ HashSize \in Nat /\ 1 \in Nat \ {0}
  BY KdfSizes, Sizes
<1>1. CASE CallPbkdf2
  <2>1. PICK a \in Calls : Enter(Bytes("passwd", a.passwdLen),
                                 Bytes("salt", a.saltLen), a.c, a.dkLen)
    BY <1>1 DEF CallPbkdf2
  <2>2. a.passwdLen \in Nat /\ a.saltLen \in Nat /\ a.c \in Nat \ {0} /\ a.dkLen \in Nat
    BY KdfSizes
  <2>3. IsSeq(Bytes("passwd", a.passwdLen)) /\ IsSeq(Bytes("salt", a.saltLen))
    BY <2>2, BytesAreSeqs
  <2>4. CallInv'
    BY <2>1, <2>2, <2>3, EnterHolds
  <2>5. stage' = "direct" /\ algo' = algo /\ algo = "pbkdf2" /\ B' = B
    BY <1>1 DEF CallPbkdf2
  <2>6. StageInv'
    BY <2>5 DEF StageInv
  <2> QED
    BY <2>4, <2>6
<1>2. CASE ScryptDerive
  <2>1. /\ Enter(Input, Input, 1, BlockLen) /\ stage' = "derive"
        /\ algo' = algo /\ algo = "scrypt" /\ B' = B
    BY <1>2 DEF ScryptDerive
  <2>2. CallInv' /\ call' = [passwd |-> Input, salt |-> Input, c |-> 1,
                             dkLen |-> BlockLen]
    BY <1>0, <2>1, PasswordsAreSeqs, EnterHolds
  <2>3. Called(Password, Input, BlockLen)'
    BY <2>1, <2>2 DEF Called, Password
  <2>4. StageInv'
    BY <2>1, <2>3 DEF StageInv
  <2> QED
    BY <2>2, <2>4
<1>3. CASE YescryptDerive
  <2>1. /\ sha256' = Sha(Input) /\ Enter(sha256', Input, 1, BlockLen)
        /\ stage' = "derive" /\ algo' = algo /\ algo = "yescrypt" /\ B' = B
    BY <1>3 DEF YescryptDerive
  <2>2. sha256' = SpecSha(Input) /\ IsSeq(Input) /\ IsSeq(SpecSha(Input))
    BY <2>1, PasswordsAreSeqs, ShaIsDigest, DigestIsSeq
  <2>3. CallInv' /\ call' = [passwd |-> SpecSha(Input), salt |-> Input, c |-> 1,
                             dkLen |-> BlockLen]
    BY <1>0, <2>1, <2>2, EnterHolds
  <2>4. Called(Password, Input, BlockLen)'
    BY <2>1, <2>3 DEF Called, Password
  <2>5. StageInv'
    BY <2>1, <2>4 DEF StageInv
  <2> QED
    BY <2>3, <2>5
<1>4. CASE ScryptMix
  <2>1. /\ stage = "derive" /\ algo = "scrypt" /\ pc = "returned" /\ B' = Smix(buf)
        /\ stage' = "mix" /\ algo' = algo /\ UNCHANGED pbkVars
    BY <1>4 DEF ScryptMix
  <2>2. CallInv'
    BY <2>1 DEF CallInv, pbkVars, Key, InBlock
  <2>3. Block' = Block
    BY <2>1 DEF Block, Password
  <2>4. B' = Smix(Block') /\ Len(B') = BlockLen
    BY <2>1, <2>3, MixHolds
  <2>5. StageInv'
    BY <2>1, <2>4 DEF StageInv
  <2> QED
    BY <2>2, <2>5
<1>5. CASE YescryptMix
  <2>1. /\ stage = "derive" /\ algo = "yescrypt" /\ pc = "returned" /\ B' = Smix(buf)
        /\ sha256' = Prefix(buf, HashSize)
        /\ stage' = "mix" /\ algo' = algo /\ UNCHANGED pbkVars
    BY <1>5 DEF YescryptMix
  <2>2. CallInv'
    BY <2>1 DEF CallInv, pbkVars, Key, InBlock
  <2>3. Block' = Block
    BY <2>1 DEF Block, Password
  <2>4. B' = Smix(Block') /\ Len(B') = BlockLen /\ sha256' = Prefix(Block', HashSize)
    BY <2>1, <2>3, MixHolds
  <2>5. StageInv'
    BY <2>1, <2>4 DEF StageInv
  <2> QED
    BY <2>2, <2>5
<1>6. CASE ScryptExtract
  <2>1. /\ stage = "mix" /\ algo = "scrypt" /\ Enter(Input, B, 1, HashSize)
        /\ stage' = "extract" /\ algo' = algo /\ sha256' = sha256 /\ B' = B
    BY <1>6 DEF ScryptExtract
  <2>2. B = Smix(Block) /\ IsSeq(Smix(Block)) /\ Block' = Block /\ IsSeq(Input)
    BY <2>1, PasswordsAreSeqs, SmixIsSeq DEF StageInv, Block, Password
  <2>3. CallInv' /\ call' = [passwd |-> Input, salt |-> B, c |-> 1,
                             dkLen |-> HashSize]
    BY <1>0, <2>1, <2>2, EnterHolds
  <2>4. Called(Password2, Smix(Block), HashSize)'
    BY <2>1, <2>2, <2>3 DEF Called, Password2
  <2>5. StageInv'
    BY <2>1, <2>2, <2>4 DEF StageInv
  <2> QED
    BY <2>3, <2>5
<1>7. CASE YescryptExtract
  <2>1. /\ stage = "mix" /\ algo = "yescrypt" /\ Enter(sha256, B, 1, HashSize)
        /\ stage' = "extract" /\ algo' = algo /\ sha256' = sha256 /\ B' = B
    BY <1>7 DEF YescryptExtract
  <2>2. B = Smix(Block) /\ IsSeq(Smix(Block)) /\ Block' = Block
        /\ sha256 = Prefix(Block, HashSize)
    BY <2>1, PasswordsAreSeqs, SmixIsSeq DEF StageInv, Block, Password
  <2>3. IsSeq(sha256) /\ Password2' = sha256
    BY <2>1, <2>2, Sizes, PrefixOfSeq DEF Password2
  <2>4. CallInv' /\ call' = [passwd |-> sha256, salt |-> B, c |-> 1,
                             dkLen |-> HashSize]
    BY <1>0, <2>1, <2>2, <2>3, EnterHolds
  <2>5. Called(Password2, Smix(Block), HashSize)'
    BY <2>2, <2>3, <2>4 DEF Called
  <2>6. StageInv'
    BY <2>1, <2>2, <2>5 DEF StageInv
  <2> QED
    BY <2>4, <2>6
<1>8. CASE Finish
  <2>1. /\ stage \in {"extract", "direct"} /\ algo # "yescrypt" /\ pc = "returned"
        /\ output' = buf /\ stage' = "done" /\ algo' = algo /\ B' = B
        /\ UNCHANGED pbkVars
    BY <1>8 DEF Finish
  <2>2. CallInv'
    BY <2>1 DEF CallInv, pbkVars, Key, InBlock
  <2>3. algo # "pbkdf2" => stage = "extract"
    BY <2>1 DEF StageInv
  <2>4. SpecKdf' = SpecKdf
    BY <2>1 DEF SpecKdf
  <2>5. algo # "pbkdf2" => output' = SpecKdf'
    BY <2>1, <2>3, <2>4, ExtractHolds
  <2>6. StageInv'
    BY <2>1, <2>5 DEF StageInv
  <2> QED
    BY <2>2, <2>6
<1>9. CASE YescryptFinish
  <2>1. /\ stage = "extract" /\ algo = "yescrypt" /\ pc = "returned"
        /\ sha256' = HmacFinal(HmacUpdate(HmacInit(buf), Input))
        /\ output' = Sha(sha256')
        /\ stage' = "done" /\ algo' = algo /\ B' = B /\ UNCHANGED pbkVars
    BY <1>9 DEF YescryptFinish
  <2>2. CallInv'
    BY <2>1 DEF CallInv, pbkVars, Key, InBlock
  <2>3. IsSeq(buf) /\ SpecKdf = SpecSha(SpecHmac(buf, Input))
    BY <2>1, ExtractHolds
  <2>4. sha256' = SpecHmac(buf, Input) /\ IsSeq(sha256')
    BY <2>1, <2>3, PasswordsAreSeqs, HmacIsDigest, HmacIsSeq
  <2>5. output' = SpecKdf
    BY <2>1, <2>3, <2>4, ShaIsDigest
  <2>6. SpecKdf' = SpecKdf
    BY <2>1 DEF SpecKdf
  <2>7. StageInv'
    BY <2>1, <2>5, <2>6 DEF StageInv
  <2> QED
    BY <2>2, <2>7
<1>10. CASE PbkStep /\ UNCHANGED kdfVars
  <2>1. CallInv' /\ call' = call
    BY <1>10, PbkStepHolds
  <2>2. stage' = stage /\ algo' = algo /\ sha256' = sha256 /\ B' = B /\ output' = output
    BY <1>10 DEF kdfVars
  <2>3. StageInv'
    BY <2>1, <2>2 DEF StageInv, Called, Password, Password2, Block, SpecKdf
  <2> QED
    BY <2>1, <2>3
<1>11. CASE UNCHANGED vars
  <2>1. UNCHANGED pbkVars /\ UNCHANGED kdfVars
    BY <1>11 DEF vars
  <2>2. CallInv'
    BY <2>1 DEF CallInv, pbkVars, Key, InBlock
  <2>3. StageInv'
    BY <2>1 DEF StageInv, Called, Password, Password2, Block, SpecKdf, pbkVars, kdfVars
  <2> QED
    BY <2>2, <2>3
<1> QED
  BY <1>1, <1>2, <1>3, <1>4, <1>5, <1>6, <1>7, <1>8, <1>9, <1>10, <1>11 DEF KdfNext

-----------------------------------------------------------------------------
(* The theorems.                                                           *)

(* The two words are the length in bits, over the carry between them. *)
LEMMA WordsHold ==
  ASSUME NEW len \in Nat
  PROVE  High(len) * Word + Low(len) = (8 * len) % (Word * Word)
<1> DEFINE bits == 8 * len
           q == bits \div Word
           l == bits % Word
           a == q \div Word
           h == q % Word
           ww == Word * Word
           r == Word * h + l
<1>1. Word \in Nat \ {0} /\ bits \in Nat
  BY Sizes
<1>2. High(len) = h /\ Low(len) = l
  BY DEF High, Low
<1> HIDE DEF bits
<1>3. q \in Nat /\ l \in Nat /\ l < Word /\ bits = Word * q + l
  BY <1>1, Divide
<1> HIDE DEF q, l
<1>4. a \in Nat /\ h \in Nat /\ h < Word /\ q = Word * a + h
  BY <1>1, <1>3, Divide
<1> HIDE DEF a, h
<1>5. ww \in Nat \ {0} /\ r \in Nat /\ r < ww
  <2> DEFINE d == Word - 1 - h
  <2>1. d \in Nat /\ Word = h + 1 + d
    BY <1>1, <1>4
  <2> HIDE DEF d
  <2>2. Word * Word = Word * h + Word + Word * d /\ Word * h \in Nat /\ Word * d \in Nat
    BY <1>1, <1>4, <2>1
  <2> QED
    BY <1>1, <1>3, <2>2
<1>6. bits = ww * a + r
  <2>1. Word * q = (Word * Word) * a + Word * h
    BY <1>1, <1>4
  <2> QED
    BY <1>1, <1>3, <1>4, <2>1
<1>7. r = h * Word + l
  BY <1>1, <1>3, <1>4
<1> HIDE DEF ww, r
<1>8. (ww * a + r) % ww = r
  BY <1>4, <1>5, Divided
<1>9. bits % ww = h * Word + l
  BY <1>6, <1>7, <1>8
<1> QED
  BY <1>2, <1>9 DEF bits, ww

(* A context of the proof holds what Holds asks of it. *)
LEMMA ContextIsHeld ==
  ASSUME NEW ctx, NEW bytes, IsSeq(bytes), IsContext(ctx, bytes)
  PROVE  Holds(ctx, bytes)
<1> DEFINE n == Len(bytes)
           w == BlockSize * (n \div BlockSize)
           r == n % BlockSize
           head == Prefix(ctx.buf, r)
           tail == Suffix(bytes, w)
<1>1. n \in Nat /\ BlockSize \in Nat \ {0}
  BY SeqIsFunction, Sizes
<1>2. n \div BlockSize \in Nat /\ r \in Nat /\ r < BlockSize /\ n = w + r
  BY <1>1, Divide
<1>3. w \in Nat /\ w <= n /\ n - w = r
  BY <1>1, <1>2
<1>4. /\ ctx.state = Blocks(bytes) /\ ctx.hi = High(n) /\ ctx.lo = Low(n)
      /\ Starts(ctx.buf, r, bytes, w)
  BY DEF IsContext
<1>5. ctx.hi * Word + ctx.lo = (8 * n) % (Word * Word)
  BY <1>1, <1>4, WordsHold
<1> HIDE DEF r, w, n
<1>6. IsSeq(head) /\ Len(head) = r /\ \A k \in 1 .. r : head[k] = ctx.buf[k]
  BY <1>2, PrefixOfSeq
<1>7. IsSeq(tail) /\ Len(tail) = r /\ \A k \in 1 .. r : tail[k] = bytes[w + k]
  BY <1>3, SuffixOfSeq DEF n
<1>8. ASSUME NEW k \in 1 .. r PROVE head[k] = tail[k]
  <2>1. k \in 1 .. BlockSize /\ k <= r
    BY <1>1, <1>2
  <2> QED
    BY <1>4, <1>6, <1>7, <2>1 DEF Starts
<1> HIDE DEF head, tail
<1>9. head = tail
  BY <1>6, <1>7, <1>8, SameSeq
<1>10. Prefix(ctx.buf, n - w) = Suffix(bytes, w)
  BY <1>3, <1>9 DEF head, tail
<1> QED
  BY <1>4, <1>5, <1>10 DEF Holds, n, w

(* The invariant holds in every state of every derivation. *)
THEOREM KdfInvariant == KdfSpec => []KdfInv
<1>1. KdfInit => KdfInv
  BY KdfInitHolds
<1>2. KdfInv /\ [KdfNext]_vars => KdfInv'
  BY KdfStepHolds
<1> QED
  BY <1>1, <1>2, PTL DEF KdfSpec

(* The loop counters stay within their bounds, T and U have the size of a  *)
(* digest and buf the length written so far (PBKDF2_SHA256), for every     *)
(* number of iterations and every length of the key.                       *)
THEOREM KdfTypeCorrect == KdfSpec => []KdfTypeOK
<1>1. ASSUME KdfInv PROVE KdfTypeOK
  <2>1. CallInv /\ StageInv
    BY <1>1 DEF KdfInv
  <2>2. ASSUME pc = "iterations"
        PROVE  j \in 2 .. call.c + 1 /\ Len(T) = HashSize /\ Len(U) = HashSize
    <3>1. InBlock /\ call.c \in Nat \ {0}
      BY <2>1, <2>2 DEF CallInv
    <3>2. j \in 2 .. call.c + 1 /\ j - 1 \in 1 .. call.c
      BY <3>1 DEF InBlock
    <3> QED
      BY <3>1, <3>2, ChainsAreSeqs DEF InBlock
  <2> QED
    BY <2>1, <2>2 DEF CallInv, StageInv, KdfTypeOK
<1> QED
  BY <1>1, KdfInvariant, PTL

(* The context that is copied for every block holds the keyed block and    *)
(* the salt of this call, and nothing else, at every moment: its bytes,    *)
(* whole or buffered, and their number over both words of the counter.     *)
THEOREM KdfContextHolds == KdfSpec => []ContextHolds
<1>1. ASSUME KdfInv PROVE ContextHolds
  <2> DEFINE K == KeyBlock(call.passwd)
             ip == KeyPad("0x36", K)
             op == KeyPad("0x5c", K)
  <2> SUFFICES ASSUME pc # "idle"
               PROVE  Holds(PShctx.ictx, ip \o call.salt) /\ Holds(PShctx.octx, op)
    BY DEF ContextHolds, KeyBlock
  <2>1. /\ IsContext(PShctx.ictx, ip \o call.salt) /\ IsContext(PShctx.octx, op)
        /\ IsSeq(call.salt)
    BY <1>1 DEF KdfInv, CallInv, IsHmac
  <2>2. IsSeq(ip) /\ IsSeq(op)
    BY KeyPadIsSeq
  <2> HIDE DEF ip, op
  <2>3. IsSeq(ip \o call.salt)
    BY <2>1, <2>2, Concatenation DEF IsConcat
  <2> QED
    BY <2>1, <2>2, <2>3, ContextIsHeld
<1> QED
  BY <1>1, KdfInvariant, PTL

(* Between two blocks, what PBKDF2_SHA256 has written is the beginning of  *)
(* the key RFC 8018 defines, and all of it on return.                      *)
THEOREM KdfDerivedKey == KdfSpec => []DerivedKey
<1>1. ASSUME KdfInv PROVE DerivedKey
  <2>1. /\ IsSeq(buf) /\ \A k \in 1 .. Len(buf) : buf[k] = Key[k]
    BY <1>1 DEF KdfInv, CallInv
  <2>2. Len(buf) \in Nat
    BY <2>1, SeqIsFunction
  <2> DEFINE head == Prefix(Key, Len(buf))
  <2>3. IsSeq(head) /\ Len(head) = Len(buf) /\ \A k \in 1 .. Len(buf) : head[k] = Key[k]
    BY <2>2, PrefixOfSeq
  <2> HIDE DEF head
  <2>4. buf = head
    BY <2>1, <2>3, SameSeq
  <2>5. pc = "returned" => Len(buf) = call.dkLen
    BY <1>1, ReturnedKey DEF KdfInv
  <2> QED
    BY <2>4, <2>5 DEF DerivedKey, head, Key
<1> QED
  BY <1>1, KdfInvariant, PTL

(* scrypt_1024_1_1_256_sp and yescrypt_kdf return what their reference     *)
(* definitions say, for every size of the header and of B: the second      *)
(* password of yescrypt is the head of B before the mixing.                *)
THEOREM KdfOutputCorrect == KdfSpec => []KdfOutput
<1>1. KdfInv => KdfOutput
  BY DEF KdfInv, StageInv, KdfOutput
<1> QED
  BY <1>1, KdfInvariant, PTL

=============================================================================
