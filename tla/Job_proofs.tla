----------------------------- MODULE Job_proofs -----------------------------
(***************************************************************************)
(* Proofs about the search of a job, for any set of coroutines, any        *)
(* starts, stride and range of the nonces.                                 *)
(***************************************************************************)
EXTENDS Job, TLAPS

(* The order in which mine visits the positions. *)
Before(p, q) == p[1] < q[1] \/ (p[1] = q[1] /\ p[2] < q[2])

UpTo(p, q) == p = q \/ Before(p, q)

-----------------------------------------------------------------------------
(* Lanes. *)

(* A product grows with its first factor. *)
LEMMA TimesMonotone ==
  ASSUME NEW a \in Nat, NEW b \in Nat, NEW c \in Nat, a <= b
  PROVE  a * c \in Nat /\ b * c \in Nat /\ a * c <= b * c
<1> DEFINE d == b - a
<1>1. d \in Nat /\ b = a + d
  OBVIOUS
<1>2. a * c \in Nat /\ d * c \in Nat
  BY <1>1
<1>3. b * c = a * c + d * c
  BY <1>1
<1> QED
  BY <1>2, <1>3

(* The members of a lane, spelled out. *)
LEMMA LaneMember ==
  ASSUME NEW j \in Jobs, NEW p \in Lane(j)
  PROVE  /\ MaxNonce \in Nat \ {0}
         /\ p \in Position
         /\ p = <<p[1], p[2]>>
         /\ p[1] \in Nat /\ p[1] < MaxNonce
         /\ p[2] \in Nat /\ p[2] < MaxNonce
         /\ p[2] >= Start[j]
         /\ \E i \in 0 .. p[2] : p[2] = Start[j] + i * Stride
<1> USE JobAssumption DEF Lane, Position
<1>1. MaxNonce \in Nat /\ p \in (0 .. MaxNonce - 1) \X (0 .. MaxNonce - 1)
  OBVIOUS
<1>2. PICK i \in 0 .. p[2] : p[2] = Start[j] + i * Stride
  BY <1>1
<1>3. i \in Nat /\ i * Stride \in Nat /\ Start[j] \in Nat
  BY <1>1, <1>2, TimesMonotone
<1> QED
  BY <1>1, <1>2, <1>3

(* A row of the lane begins at the start of its coroutine. *)
LEMMA LaneStart ==
  ASSUME NEW j \in Jobs, MaxNonce \in Nat, Start[j] < MaxNonce,
         NEW e \in Nat, e < MaxNonce
  PROVE  <<e, Start[j]>> \in Lane(j)
<1> USE JobAssumption
<1>1. Start[j] \in Nat /\ Start[j] = Start[j] + 0 * Stride
  OBVIOUS
<1> QED
  BY <1>1 DEF Lane

(* Between two neighbours of a lane there is nothing of the lane. *)
LEMMA LaneGap ==
  ASSUME NEW j \in Jobs, NEW p \in Lane(j), NEW q \in Lane(j), p[2] < q[2]
  PROVE  p[2] + Stride <= q[2]
<1> USE JobAssumption
<1>1. PICK a \in 0 .. p[2] : p[2] = Start[j] + a * Stride
  BY LaneMember
<1>2. PICK b \in 0 .. q[2] : q[2] = Start[j] + b * Stride
  BY LaneMember
<1>3. a \in Nat /\ b \in Nat /\ Start[j] \in Nat /\ Stride \in Nat
  BY LaneMember
<1>4. a * Stride \in Nat /\ b * Stride \in Nat
  BY <1>3, TimesMonotone
<1>5. a < b
  <2> SUFFICES ASSUME b <= a PROVE FALSE
    BY <1>3
  <2>1. b * Stride <= a * Stride
    BY <1>3, TimesMonotone
  <2> QED
    BY <1>1, <1>2, <1>3, <1>4, <2>1
<1>6. (a + 1) * Stride <= b * Stride
  BY <1>3, <1>5, TimesMonotone
<1>7. (a + 1) * Stride = a * Stride + Stride
  BY <1>3
<1> QED
  BY <1>1, <1>2, <1>3, <1>4, <1>6, <1>7

(* The lane goes on one stride further while the range does. *)
LEMMA LaneNext ==
  ASSUME NEW j \in Jobs, NEW p \in Lane(j), p[2] + Stride < MaxNonce
  PROVE  <<p[1], p[2] + Stride>> \in Lane(j)
<1> USE JobAssumption
<1>1. PICK i \in 0 .. p[2] : p[2] = Start[j] + i * Stride
  BY LaneMember
<1>2. i \in Nat /\ Start[j] \in Nat /\ Stride \in Nat \ {0} /\ p[2] \in Nat
  BY LaneMember
<1>3. (i + 1) * Stride = i * Stride + Stride /\ i * Stride \in Nat
  BY <1>2
<1>4. p[2] + Stride = Start[j] + (i + 1) * Stride
  BY <1>1, <1>2, <1>3
<1>5. i + 1 \in 0 .. p[2] + Stride
  BY <1>2
<1>6. MaxNonce # None /\ p[1] \in 0 .. MaxNonce - 1
      /\ p[2] + Stride \in 0 .. MaxNonce - 1
  BY <1>2, LaneMember
<1> QED
  BY <1>4, <1>5, <1>6 DEF Lane

(* Lanes that start at different nonces below the stride do not meet. *)
LEMMA LanesApart ==
  ASSUME NEW i \in Jobs, NEW j \in Jobs,
         Start[i] < Start[j], Start[j] < Stride
  PROVE  Lane(i) \intersect Lane(j) = {}
<1> USE JobAssumption
<1> SUFFICES ASSUME NEW p \in Lane(i), p \in Lane(j) PROVE FALSE
  OBVIOUS
<1>1. PICK a \in 0 .. p[2] : p[2] = Start[i] + a * Stride
  BY LaneMember
<1>2. PICK b \in 0 .. p[2] : p[2] = Start[j] + b * Stride
  BY LaneMember
<1>3. /\ a \in Nat /\ b \in Nat /\ Stride \in Nat
      /\ Start[i] \in Nat /\ Start[j] \in Nat
  BY LaneMember
<1>4. a * Stride \in Nat /\ b * Stride \in Nat
  BY <1>3, TimesMonotone
<1>5. CASE a <= b
  BY <1>1, <1>2, <1>3, <1>4, <1>5, TimesMonotone
<1>6. CASE b + 1 <= a
  <2>1. (b + 1) * Stride <= a * Stride
    BY <1>3, <1>6, TimesMonotone
  <2>2. (b + 1) * Stride = b * Stride + Stride
    BY <1>3
  <2> QED
    BY <1>1, <1>2, <1>3, <1>4, <2>1, <2>2
<1> QED
  BY <1>3, <1>5, <1>6

-----------------------------------------------------------------------------
(* One iteration of the loops moves to the successor in the lane. *)

(* Advancing the inner loop passes one position of the lane, no more. *)
LEMMA NextNonce ==
  ASSUME NEW j \in Jobs, NEW p \in Lane(j), NEW q \in Lane(j)
  PROVE  Before(q, <<p[1], p[2] + Stride>>) <=> UpTo(q, p)
<1>1. /\ p[1] \in Nat /\ p[2] \in Nat /\ p = <<p[1], p[2]>>
      /\ q[1] \in Nat /\ q[2] \in Nat /\ q = <<q[1], q[2]>>
      /\ Stride \in Nat \ {0}
  BY LaneMember, JobAssumption
<1>2. p[2] < q[2] => p[2] + Stride <= q[2]
  BY LaneGap
<1> QED
  BY <1>1, <1>2 DEF Before, UpTo

(* So does starting the inner loop again when its range is exhausted. *)
LEMMA NextExtranonce ==
  ASSUME NEW j \in Jobs, NEW p \in Lane(j), NEW q \in Lane(j),
         ~(p[2] + Stride < MaxNonce)
  PROVE  Before(q, <<p[1] + 1, Start[j]>>) <=> UpTo(q, p)
<1>1. /\ p[1] \in Nat /\ p[2] \in Nat /\ p = <<p[1], p[2]>>
      /\ q[1] \in Nat /\ q[2] \in Nat /\ q = <<q[1], q[2]>>
      /\ q[2] < MaxNonce /\ q[2] >= Start[j] /\ MaxNonce \in Nat
      /\ Stride \in Nat \ {0} /\ Start[j] \in Nat
  BY LaneMember, JobAssumption
<1>2. ~(p[2] < q[2])
  <2>1. p[2] < q[2] => p[2] + Stride <= q[2]
    BY LaneGap
  <2> QED
    BY <1>1, <2>1
<1> QED
  BY <1>1, <1>2 DEF Before, UpTo

(* When both loops are exhausted, every position of the lane is passed. *)
LEMMA LastPosition ==
  ASSUME NEW j \in Jobs, NEW p \in Lane(j), NEW q \in Lane(j),
         ~(p[2] + Stride < MaxNonce), ~(p[1] + 1 < MaxNonce)
  PROVE  UpTo(q, p)
<1>1. /\ p[1] \in Nat /\ p[2] \in Nat /\ p = <<p[1], p[2]>>
      /\ q[1] \in Nat /\ q[2] \in Nat /\ q = <<q[1], q[2]>>
      /\ q[1] < MaxNonce /\ q[2] < MaxNonce /\ MaxNonce \in Nat
      /\ Stride \in Nat \ {0}
  BY LaneMember, JobAssumption
<1>2. p[2] < q[2] => p[2] + Stride <= q[2]
  BY LaneGap
<1> QED
  BY <1>1, <1>2 DEF Before, UpTo

-----------------------------------------------------------------------------
(* The invariant of the search.                                            *)

(* Everything of the lane up to the cursor was tried, the cursor itself    *)
(* only while its share is being consumed, and nothing after it.           *)
SearchInv(j) ==
  /\ at[j] \in {"unborn", "created", "failed"} => tried[j] = {}
  /\ at[j] \in {"unborn", "created"} => extranonce2[j] = 0
  /\ at[j] \in Mining =>
       /\ Cursor(j) \in Lane(j)
       /\ \A p \in Lane(j) : Before(p, Cursor(j)) => p \in tried[j]
  /\ at[j] \in {"check", "hash"} => \A p \in tried[j] : Before(p, Cursor(j))
  /\ at[j] = "yielded" =>
       Cursor(j) \in tried[j] /\ \A p \in tried[j] : UpTo(p, Cursor(j))
  /\ tried[j] \subseteq Lane(j)
  /\ at[j] = "exhausted" => tried[j] = Lane(j)

(* Only the attempt that was under way when stop was called comes late. *)
LateInv(j) ==
  /\ late[j] \in {0, 1}
  /\ ~done[j] \/ at[j] = "hash" => late[j] = 0

JobInv ==
  /\ JobTypeOK
  /\ \A j \in Jobs : SearchInv(j) /\ LateInv(j)

(* What a step of one coroutine leaves of the others. *)
Others(j) ==
  \A i \in Jobs \ {j} :
    /\ at'[i] = at[i]
    /\ extranonce2'[i] = extranonce2[i]
    /\ nonce'[i] = nonce[i]
    /\ tried'[i] = tried[i]
    /\ done'[i] = done[i]
    /\ late'[i] = late[i]

(* A step of one coroutine leaves the invariant of the others alone. *)
LEMMA OthersKeepInv ==
  ASSUME JobInv, NEW j \in Jobs, Others(j), SearchInv(j)', LateInv(j)', JobTypeOK'
  PROVE  JobInv'
<1> SUFFICES ASSUME NEW i \in Jobs, i # j
             PROVE  SearchInv(i)' /\ LateInv(i)'
  BY DEF JobInv
<1>1. SearchInv(i) /\ LateInv(i)
  BY DEF JobInv
<1>2. Cursor(i)' = Cursor(i)
  BY DEF Others, Cursor
<1> QED
  BY <1>1, <1>2 DEF Others, SearchInv, LateInv

(* When the cursor was tried, Advance leads to the invariant: of the next  *)
(* position, or of the exhausted lane.                                     *)
LEMMA AdvanceKeepsSearch ==
  ASSUME JobTypeOK, NEW j \in Jobs, Advance(j),
         Cursor(j) \in Lane(j),
         tried'[j] \subseteq Lane(j),
         \A p \in Lane(j) : UpTo(p, Cursor(j)) => p \in tried'[j],
         \A p \in tried'[j] : UpTo(p, Cursor(j))
  PROVE  SearchInv(j)'
<1> DEFINE c == Cursor(j)
<1> USE JobAssumption
<1>1. /\ c[1] = extranonce2[j] /\ c[2] = nonce[j]
      /\ extranonce2[j] \in Nat /\ nonce[j] \in Nat
      /\ Start[j] \in Nat /\ Stride \in Nat \ {0}
      /\ MaxNonce \in Nat \ {0} /\ extranonce2[j] < MaxNonce
      /\ Start[j] <= nonce[j] /\ nonce[j] < MaxNonce
  BY LaneMember DEF Cursor, JobTypeOK
<1>2. Lane(j)' = Lane(j)
  BY DEF Lane
<1>3. CASE nonce[j] + Stride < MaxNonce
  <2>1. at'[j] = "check" /\ Cursor(j)' = <<c[1], c[2] + Stride>>
    BY <1>1, <1>3 DEF Advance, JobTypeOK, Cursor
  <2>2. Cursor(j)' \in Lane(j)
    BY <1>1, <1>3, <2>1, LaneNext
  <2>3. \A p \in Lane(j) : Before(p, Cursor(j)') <=> UpTo(p, c)
    BY <2>1, NextNonce
  <2> QED
    BY <1>2, <2>1, <2>2, <2>3 DEF SearchInv, Mining
<1>4. CASE ~(nonce[j] + Stride < MaxNonce) /\ extranonce2[j] + 1 < MaxNonce
  <2>1. at'[j] = "check" /\ Cursor(j)' = <<c[1] + 1, Start[j]>>
    BY <1>1, <1>4 DEF Advance, JobTypeOK, Cursor
  <2>2. Cursor(j)' \in Lane(j)
    BY <1>1, <1>4, <2>1, LaneStart
  <2>3. \A p \in Lane(j) : Before(p, Cursor(j)') <=> UpTo(p, c)
    BY <1>1, <1>4, <2>1, NextExtranonce
  <2> QED
    BY <1>2, <2>1, <2>2, <2>3 DEF SearchInv, Mining
<1>5. CASE ~(nonce[j] + Stride < MaxNonce) /\ ~(extranonce2[j] + 1 < MaxNonce)
  <2>1. at'[j] = "exhausted"
    BY <1>5 DEF Advance, JobTypeOK
  <2>2. \A p \in Lane(j) : UpTo(p, c)
    BY <1>1, <1>5, LastPosition
  <2> QED
    BY <1>2, <2>1, <2>2 DEF SearchInv, Mining
<1> QED
  BY <1>3, <1>4, <1>5

(* No coroutine has begun at first. *)
LEMMA JobInvInit == JobInit => JobInv
BY JobAssumption DEF JobInit, JobInv, JobTypeOK, Places, SearchInv, LateInv, Mining, Position

(* Every step of a coroutine, and every call of stop, keeps the invariant. *)
LEMMA JobInvNext == JobInv /\ [JobNext]_jobVars => JobInv'
<1> SUFFICES ASSUME JobInv, [JobNext]_jobVars PROVE JobInv'
  OBVIOUS
<1> USE JobAssumption
<1>0. CASE UNCHANGED jobVars
  <2> USE <1>0 DEF jobVars
  <2>1. JobTypeOK'
    BY DEF JobInv, JobTypeOK
  <2>2. ASSUME NEW i \in Jobs PROVE SearchInv(i)' /\ LateInv(i)'
    <3>1. Cursor(i)' = Cursor(i) /\ Lane(i)' = Lane(i)
      BY DEF Cursor, Lane
    <3>2. SearchInv(i) /\ LateInv(i)
      BY DEF JobInv
    <3> QED
      BY <3>1, <3>2 DEF SearchInv, LateInv
  <2> QED
    BY <2>1, <2>2 DEF JobInv
<1> SUFFICES ASSUME JobNext PROVE JobInv'
  BY <1>0
<1>j. PICK j \in Jobs :
        \/ \E t \in Targets : Create(j, t)
        \/ Stop(j)
        \/ Mine(j)
        \/ Resume(j)
        \/ Abandon(j)
  BY Zenon DEF JobNext
<1>t. JobTypeOK /\ SearchInv(j) /\ LateInv(j)
  BY DEF JobInv
<1>L. Lane(j)' = Lane(j)
  BY DEF Lane
<1>C. at[j] \in Mining => MaxNonce \in Nat /\ Cursor(j) \in Position
  BY <1>t, LaneMember DEF SearchInv
<1>1. ASSUME NEW t \in Targets, Create(j, t) PROVE JobInv'
  <2> USE <1>1 DEF Create
  <2>1. JobTypeOK'
    BY <1>t DEF JobTypeOK, Places
  <2>2. Others(j)
    BY <1>t DEF JobTypeOK, Others
  <2>3. SearchInv(j)' /\ LateInv(j)'
    BY <1>t, <1>L DEF JobTypeOK, SearchInv, LateInv, Mining
  <2> QED
    BY <2>1, <2>2, <2>3, OthersKeepInv
<1>2. CASE Stop(j)
  <2> USE <1>2 DEF Stop
  <2>1. JobTypeOK'
    BY <1>t DEF JobTypeOK
  <2>2. Others(j)
    BY <1>t DEF JobTypeOK, Others
  <2>3. Cursor(j)' = Cursor(j)
    BY DEF Cursor
  <2>4. SearchInv(j)' /\ LateInv(j)'
    BY <1>t, <1>L, <2>3 DEF JobTypeOK, SearchInv, LateInv
  <2> QED
    BY <2>1, <2>2, <2>4, OthersKeepInv
<1>3. CASE Begin(j)
  <2> USE <1>3 DEF Begin
  <2>1. JobTypeOK'
    BY <1>t DEF JobTypeOK, Places
  <2>2. Others(j)
    BY <1>t DEF JobTypeOK, Others
  <2>3. LateInv(j)'
    BY <1>t DEF JobTypeOK, LateInv
  <2>4. SearchInv(j)'
    <3>0. tried[j] = {} /\ tried'[j] = {} /\ extranonce2[j] = 0
      BY <1>t DEF SearchInv
    <3>1. CASE MaxNonce = None
      BY <1>t, <1>L, <3>0, <3>1 DEF JobTypeOK, SearchInv, Mining
    <3>2. CASE MaxNonce \in Nat /\ Start[j] < MaxNonce
      <4>1. at'[j] = "check" /\ Cursor(j)' = <<0, Start[j]>>
        BY <1>t, <3>0, <3>2 DEF JobTypeOK, Cursor
      <4>2. Cursor(j)' \in Lane(j)
        BY <3>2, <4>1, LaneStart
      <4>3. \A p \in Lane(j) : ~Before(p, Cursor(j)')
        BY <4>1, LaneMember DEF Before
      <4> QED
        BY <1>L, <3>0, <4>1, <4>2, <4>3 DEF SearchInv, Mining
    <3>3. CASE MaxNonce \in Nat /\ ~(Start[j] < MaxNonce)
      <4>1. at'[j] = "exhausted"
        BY <1>t, <3>3 DEF JobTypeOK
      <4>2. Lane(j) = {}
        BY <3>3, LaneMember
      <4> QED
        BY <1>L, <3>0, <4>1, <4>2 DEF SearchInv, Mining
    <3> QED
      BY <3>1, <3>2, <3>3
  <2> QED
    BY <2>1, <2>2, <2>3, <2>4, OthersKeepInv
<1>4. CASE Check(j)
  <2> USE <1>4 DEF Check
  <2>1. JobTypeOK'
    BY <1>t DEF JobTypeOK, Places
  <2>2. Others(j)
    BY <1>t DEF JobTypeOK, Others
  <2>3. Cursor(j)' = Cursor(j)
    BY DEF Cursor
  <2>4. SearchInv(j)' /\ LateInv(j)'
    BY <1>t, <1>L, <2>3 DEF JobTypeOK, SearchInv, LateInv, Mining
  <2> QED
    BY <2>1, <2>2, <2>4, OthersKeepInv
<1>5. CASE Miss(j)
  <2> USE <1>5 DEF Miss, Attempt
  <2>1. JobTypeOK'
    BY <1>t, <1>C DEF JobTypeOK, Places, Advance, Mining
  <2>2. Others(j)
    BY <1>t DEF JobTypeOK, Others, Advance
  <2>3. LateInv(j)'
    BY <1>t, <2>1 DEF JobTypeOK, LateInv, Advance
  <2>4. SearchInv(j)'
    <3>1. tried'[j] = tried[j] \union {Cursor(j)} /\ Cursor(j) \in Lane(j)
      BY <1>t DEF JobTypeOK, SearchInv, Mining
    <3>2. \A p \in Lane(j) : UpTo(p, Cursor(j)) => p \in tried'[j]
      BY <1>t, <3>1 DEF SearchInv, Mining, UpTo
    <3>3. \A p \in tried'[j] : UpTo(p, Cursor(j))
      BY <1>t, <3>1 DEF SearchInv, UpTo
    <3>4. tried'[j] \subseteq Lane(j)
      BY <1>t, <3>1 DEF SearchInv
    <3> QED
      BY <1>t, <3>1, <3>2, <3>3, <3>4, AdvanceKeepsSearch
  <2> QED
    BY <2>1, <2>2, <2>3, <2>4, OthersKeepInv
<1>6. CASE Find(j)
  <2> USE <1>6 DEF Find, Attempt
  <2>1. JobTypeOK'
    BY <1>t, <1>C DEF JobTypeOK, Places, Mining
  <2>2. Others(j)
    BY <1>t DEF JobTypeOK, Others
  <2>3. LateInv(j)'
    BY <1>t DEF JobTypeOK, LateInv
  <2>4. Cursor(j)' = Cursor(j)
    BY DEF Cursor
  <2>5. tried'[j] = tried[j] \union {Cursor(j)} /\ at'[j] = "yielded"
    BY <1>t DEF JobTypeOK
  <2>6. SearchInv(j)'
    BY <1>t, <1>L, <2>4, <2>5 DEF SearchInv, Mining, UpTo
  <2> QED
    BY <2>1, <2>2, <2>3, <2>6, OthersKeepInv
<1>7. CASE Resume(j)
  <2> USE <1>7 DEF Resume
  <2>1. JobTypeOK'
    BY <1>t DEF JobTypeOK, Places, Advance
  <2>2. Others(j)
    BY <1>t DEF JobTypeOK, Others, Advance
  <2>3. LateInv(j)'
    BY <1>t DEF JobTypeOK, LateInv, Advance
  <2>4. SearchInv(j)'
    <3>1. \A p \in Lane(j) : UpTo(p, Cursor(j)) => p \in tried'[j]
      BY <1>t DEF SearchInv, Mining, UpTo
    <3> QED
      BY <1>t, <3>1, AdvanceKeepsSearch DEF SearchInv, Mining
  <2> QED
    BY <2>1, <2>2, <2>3, <2>4, OthersKeepInv
<1>8. CASE Abandon(j)
  <2> USE <1>8 DEF Abandon
  <2>1. JobTypeOK'
    BY <1>t DEF JobTypeOK, Places
  <2>2. Others(j)
    BY <1>t DEF JobTypeOK, Others
  <2>3. Cursor(j)' = Cursor(j)
    BY DEF Cursor
  <2>4. SearchInv(j)' /\ LateInv(j)'
    BY <1>t, <1>L, <2>3 DEF JobTypeOK, SearchInv, LateInv, Mining
  <2> QED
    BY <2>1, <2>2, <2>4, OthersKeepInv
<1> QED
  BY <1>j, <1>1, <1>2, <1>3, <1>4, <1>5, <1>6, <1>7, <1>8 DEF Mine

-----------------------------------------------------------------------------

(* The inductive invariant of the jobs. *)
THEOREM JobInvariant == JobSpec => []JobInv
<1>1. JobInv /\ [][JobNext]_jobVars => []JobInv
  BY JobInvNext, PTL
<1> QED
  BY <1>1, JobInvInit, PTL DEF JobSpec

(* Type correctness of the jobs. *)
THEOREM JobTypeCorrect == JobSpec => []JobTypeOK
<1>1. JobInv => JobTypeOK
  BY DEF JobInv
<1> QED
  BY <1>1, JobInvariant, PTL

(* No position is hashed twice by one coroutine. *)
THEOREM JobNoRetry == JobSpec => []NoRetry
<1>1. JobInv => NoRetry
  <2> SUFFICES ASSUME JobInv, NEW j \in Jobs, at[j] \in {"check", "hash"},
                      Cursor(j) \in tried[j]
               PROVE  FALSE
    BY DEF NoRetry
  <2>1. Before(Cursor(j), Cursor(j))
    BY DEF JobInv, SearchInv
  <2> QED
    BY <2>1 DEF Before, Cursor, JobInv, JobTypeOK
<1> QED
  BY <1>1, JobInvariant, PTL

(* An exhausted coroutine has hashed its lane, any other a part of it. *)
THEOREM JobLaneCovered == JobSpec => []LaneCovered
<1>1. JobInv => LaneCovered
  BY DEF JobInv, SearchInv, LaneCovered
<1> QED
  BY <1>1, JobInvariant, PTL

(* Coroutines that divide the nonces as mine proposes share no position. *)
THEOREM JobLanesDisjoint == JobSpec => []LanesDisjoint
<1>1. JobInv => LanesDisjoint
  <2> SUFFICES ASSUME JobInv, NEW i \in Jobs, NEW j \in Jobs,
                      Start[i] # Start[j], Start[i] < Stride, Start[j] < Stride
               PROVE  tried[i] \intersect tried[j] = {}
    BY DEF LanesDisjoint
  <2>1. tried[i] \subseteq Lane(i) /\ tried[j] \subseteq Lane(j)
    BY DEF JobInv, SearchInv
  <2>2. Start[i] < Start[j] \/ Start[j] < Start[i]
    BY JobAssumption
  <2>3. Lane(i) \intersect Lane(j) = {}
    BY <2>2, LanesApart
  <2> QED
    BY <2>1, <2>3
<1> QED
  BY <1>1, JobInvariant, PTL

(* At most one attempt is made after stop was called. *)
THEOREM JobStopAfterCurrent == JobSpec => []StopAfterCurrent
<1>1. JobInv => StopAfterCurrent
  BY DEF JobInv, LateInv, StopAfterCurrent
<1> QED
  BY <1>1, JobInvariant, PTL

=============================================================================
