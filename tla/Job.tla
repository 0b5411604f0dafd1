-------------------------------- MODULE Job --------------------------------
(***************************************************************************)
(* Job.mine of pyminer.py, a coroutine that walks the search space of one  *)
(* unit of work and yields the shares it finds, and Job.stop, which any    *)
(* other thread may call.  A position of the search space is a pair of an  *)
(* extranonce2 and a nonce; several coroutines may divide the nonces by    *)
(* starting at different ones with a common stride.                        *)
(*                                                                         *)
(* Whether the hash of a position reaches the target is external: each     *)
(* attempt at a job that has a target either finds a share or misses.      *)
(***************************************************************************)
EXTENDS Integers, FiniteSets

CONSTANTS
  Jobs,       \* coroutines, one for each thread or process that mines
  MaxNonce,   \* self._max_nonce, or None where the subscription has none
  Start,      \* nonce_start of each coroutine
  Stride,     \* nonce_stride
  Targets,    \* the targets a job may be created with, None among them
  None

ASSUME JobAssumption ==
  /\ None \notin Nat
  /\ MaxNonce \in Nat \union {None}
  /\ Start \in [Jobs -> Nat]
  /\ Stride \in Nat \ {0}
  /\ None \in Targets

VARIABLES
  at,           \* where each coroutine is
  done,         \* self._done
  target,       \* self._target
  extranonce2,  \* the loop variables of mine
  nonce,
  tried,        \* history: the positions whose hash was computed
  late          \* history: how many of them after stop was called

jobVars == <<at, done, target, extranonce2, nonce, tried, late>>

Places == {"unborn", "created", "check", "hash", "yielded",
           "stopped", "exhausted", "abandoned", "failed"}

(* The coroutine is suspended or running, and may still try a position. *)
Mining == {"check", "hash", "yielded"}

Ended == {"stopped", "exhausted", "abandoned", "failed"}

Position == Nat \X Nat

Cursor(j) == <<extranonce2[j], nonce[j]>>

-----------------------------------------------------------------------------

JobTypeOK ==
  /\ at \in [Jobs -> Places]
  /\ done \in [Jobs -> BOOLEAN]
  /\ target \in [Jobs -> Targets]
  /\ extranonce2 \in [Jobs -> Nat]
  /\ nonce \in [Jobs -> Nat]
  /\ tried \in [Jobs -> SUBSET Position]
  /\ late \in [Jobs -> Nat]

JobInit ==
  /\ at = [j \in Jobs |-> "unborn"]
  /\ done = [j \in Jobs |-> FALSE]
  /\ target = [j \in Jobs |-> None]
  /\ extranonce2 = [j \in Jobs |-> 0]
  /\ nonce = [j \in Jobs |-> 0]
  /\ tried = [j \in Jobs |-> {}]
  /\ late = [j \in Jobs |-> 0]

(* Job(...): the target is the one of the subscription at that moment. *)
Create(j, t) ==
  /\ at[j] = "unborn"
  /\ at' = [at EXCEPT ![j] = "created"]
  /\ target' = [target EXCEPT ![j] = t]
  /\ UNCHANGED <<done, extranonce2, nonce, tried, late>>

(* stop: only a flag, read at the head of the inner loop. *)
Stop(j) ==
  /\ at[j] # "unborn"
  /\ done' = [done EXCEPT ![j] = TRUE]
  /\ UNCHANGED <<at, target, extranonce2, nonce, tried, late>>

(* Mutant of Begin: nonce_start is ignored. *)
BeginAtZero(j) ==
  /\ at[j] = "created"
  /\ at' = [at EXCEPT ![j] = IF MaxNonce = None THEN "failed" ELSE "check"]
  /\ nonce' = [nonce EXCEPT ![j] = 0]
  /\ UNCHANGED <<done, target, extranonce2, tried, late>>

(* The first next(): xrange(None) raises a TypeError.  If the first nonce  *)
(* is out of range every inner loop is empty, so that MaxNonce rounds try  *)
(* nothing and do not read the flag: they are one step here.  The miner    *)
(* itself starts every job at 0.                                           *)
Begin(j) ==
  /\ at[j] = "created"
  /\ at' = [at EXCEPT ![j] = IF MaxNonce = None THEN "failed"
                             ELSE IF Start[j] < MaxNonce THEN "check"
                             ELSE "exhausted"]
  /\ nonce' = [nonce EXCEPT ![j] = Start[j]]
  /\ UNCHANGED <<done, target, extranonce2, tried, late>>

(* Mutants of Check: the flag is not read, or read and then continued on. *)
CheckWithoutFlag(j) ==
  /\ at[j] = "check"
  /\ at' = [at EXCEPT ![j] = "hash"]
  /\ UNCHANGED <<done, target, extranonce2, nonce, tried, late>>
CheckContinues(j) ==
  /\ at[j] = "check"
  /\ at' = [at EXCEPT ![j] = IF done[j] THEN "check" ELSE "hash"]
  /\ UNCHANGED <<done, target, extranonce2, nonce, tried, late>>

(* "This job has been asked to stop" *)
Check(j) ==
  /\ at[j] = "check"
  /\ at' = [at EXCEPT ![j] = IF done[j] THEN "stopped" ELSE "hash"]
  /\ UNCHANGED <<done, target, extranonce2, nonce, tried, late>>

(* Mutants of Advance: the outer loop variable is not counted up, or down; *)
(* the inner loop ends one nonce too early.                                *)
AdvanceWith(j, last, step) ==
  LET next == nonce[j] + Stride
      more == next < last
      outer == extranonce2[j] + 1 < MaxNonce
  IN  /\ nonce' = [nonce EXCEPT ![j] = IF more THEN next ELSE Start[j]]
      /\ extranonce2' = [extranonce2 EXCEPT ![j] = IF more \/ ~outer THEN @ ELSE @ + step]
      /\ at' = [at EXCEPT ![j] = IF more \/ outer THEN "check" ELSE "exhausted"]
AdvanceInnerOnly(j) == AdvanceWith(j, MaxNonce, 0)
AdvanceDown(j) == AdvanceWith(j, MaxNonce, -1)
AdvanceShort(j) == AdvanceWith(j, MaxNonce - 1, 1)

(* The end of an iteration of both loops: the next nonce of the stride, or *)
(* the first one under the next extranonce2, or the end of the generator.  *)
Advance(j) ==
  LET next == nonce[j] + Stride
      more == next < MaxNonce
      outer == extranonce2[j] + 1 < MaxNonce
  IN  /\ nonce' = [nonce EXCEPT ![j] = IF more THEN next ELSE Start[j]]
      /\ extranonce2' = [extranonce2 EXCEPT ![j] = IF more \/ ~outer THEN @ ELSE @ + 1]
      /\ at' = [at EXCEPT ![j] = IF more \/ outer THEN "check" ELSE "exhausted"]

(* One proof-of-work attempt at the cursor. *)
Attempt(j) ==
  /\ at[j] = "hash"
  /\ tried' = [tried EXCEPT ![j] = @ \union {Cursor(j)}]
  /\ late' = [late EXCEPT ![j] = IF done[j] THEN @ + 1 ELSE @]
  /\ UNCHANGED <<done, target>>

Miss(j) == Attempt(j) /\ Advance(j)

(* pow <= target: the coroutine is suspended at the yield.  A job without  *)
(* a target never gets here: in Python 2 no string is <= None.             *)
Find(j) ==
  /\ Attempt(j)
  /\ target[j] # None
  /\ at' = [at EXCEPT ![j] = "yielded"]
  /\ UNCHANGED <<extranonce2, nonce>>

(* The consumer asks for the next share, or never again. *)
Resume(j) ==
  /\ at[j] = "yielded"
  /\ Advance(j)
  /\ UNCHANGED <<done, target, tried, late>>

Abandon(j) ==
  /\ at[j] = "yielded"
  /\ at' = [at EXCEPT ![j] = "abandoned"]
  /\ UNCHANGED <<done, target, extranonce2, nonce, tried, late>>

-----------------------------------------------------------------------------

Mine(j) == Begin(j) \/ Check(j) \/ Miss(j) \/ Find(j)

JobNext ==
  \E j \in Jobs :
    \/ \E t \in Targets : Create(j, t)
    \/ Stop(j)
    \/ Mine(j)
    \/ Resume(j)
    \/ Abandon(j)

JobSpec == JobInit /\ [][JobNext]_jobVars

-----------------------------------------------------------------------------

(* The positions a coroutine is responsible for. *)
Lane(j) ==
  IF MaxNonce = None THEN {}
  ELSE {p \in (0 .. MaxNonce - 1) \X (0 .. MaxNonce - 1) :
          \E i \in 0 .. p[2] : p[2] = Start[j] + i * Stride}

(* The search never repeats itself: the position about to be hashed was    *)
(* not hashed before, across stops, yields and the wrap of the inner loop. *)
NoRetry ==
  \A j \in Jobs : at[j] \in {"check", "hash"} => Cursor(j) \notin tried[j]

(* "assign each process a different starting nonce and a stride equal to   *)
(* the number of processes": coroutines whose starts differ below the      *)
(* stride never hash the same position.                                    *)
LanesDisjoint ==
  \A i, j \in Jobs :
    /\ i # j
    /\ Start[i] # Start[j]
    /\ Start[i] < Stride
    /\ Start[j] < Stride
    => tried[i] \intersect tried[j] = {}

(* A generator that ran out of work has hashed its lane and nothing else;  *)
(* one that ended early hashed a part of it.                               *)
LaneCovered ==
  \A j \in Jobs :
    /\ tried[j] \subseteq Lane(j)
    /\ at[j] = "exhausted" => tried[j] = Lane(j)

(* "Requests the mine coroutine stop after its current iteration": from    *)
(* the call of stop on at most one more attempt is made.                   *)
StopAfterCurrent == \A j \in Jobs : late[j] <= 1

(* A stopped job ends, whatever its thread was doing when stop was called. *)
StopEnds == \A j \in Jobs : done[j] ~> at[j] \in Ended

=============================================================================
