--------------------------- MODULE YescryptRegion ---------------------------
(***************************************************************************)
(* The memory of yescrypt across calls: yescrypt_hash and yescrypt_bitzeny *)
(* of algos/yescrypt/yescrypt.c, the regions of yescrypt-platform_c.h, and *)
(* the part of yescrypt_kdf that allocates.  A build of gcc keeps a region *)
(* for each thread in thread-local variables; a build of clang allocates   *)
(* and frees one in each call.  Python calls the module with its global    *)
(* lock held, so one call is in progress at a time, in one of the threads  *)
(* the miner starts for its jobs.  A thread that ends loses its variables. *)
(***************************************************************************)
EXTENDS Integers, FiniteSets

CONSTANTS
    Threads,     \* the threads the miner starts
    Blocks,      \* names of blocks that malloc may return
    None,
    N, r, p, t,  \* YESCRYPT_N, YESCRYPT_R, YESCRYPT_P, YESCRYPT_T
    SBoxBytes    \* S_SIZE_ALL * sizeof(*S)

(* The parameters pass every check at the head of yescrypt_kdf, which are  *)
(* the same in each call: no call is refused for them.                     *)
ASSUME RegionAssumption ==
    /\ r \in Nat \ {0} /\ p \in Nat \ {0} /\ t \in Nat /\ SBoxBytes \in Nat
    /\ N \in Nat /\ N > 1 /\ \E k \in 1 .. 30 : N = 2 ^ k
    /\ r * p < 2 ^ 30
    /\ None \notin Blocks \union Threads

VARIABLES
    build,        \* "gcc" or "clang"
    thread,       \* whether each thread is "new", "running" or "ended"
    initialized,  \* the thread-local flag
    local,        \* the thread-local region: its block and aligned_size
    heap,         \* the blocks in use, with the bytes asked for
    lost,         \* ghost: blocks whose last pointer is gone
    call          \* the call in progress: thread, step, retval

vars == <<build, thread, initialized, local, heap, lost, call>>

Empty == [base |-> None, size |-> 0]
Idle == [thread |-> None, step |-> "idle", retval |-> 0]

-----------------------------------------------------------------------------
(* What yescrypt_kdf needs for B, V, XY and S.                             *)
Need == 128 * r * N + 128 * r * p + (256 * r + 64) + SBoxBytes

-----------------------------------------------------------------------------

RegionInit ==
    /\ build \in {"gcc", "clang"}
    /\ thread = [q \in Threads |-> "new"]
    /\ initialized = [q \in Threads |-> FALSE]
    /\ local = [q \in Threads |-> Empty]
    /\ heap = {} /\ lost = {}
    /\ call = Idle

(* The miner starts a thread for a job (Miner._spawn_job_thread).          *)
Start(q) ==
    /\ thread[q] = "new"
    /\ thread' = [thread EXCEPT ![q] = "running"]
    /\ UNCHANGED <<build, initialized, local, heap, lost, call>>

(* The thread of the job ends, and its static __thread variables with it.  *)
End(q) ==
    /\ thread[q] = "running" /\ call.thread # q
    /\ thread' = [thread EXCEPT ![q] = "ended"]
    /\ local' = [local EXCEPT ![q] = Empty]
    /\ initialized' = [initialized EXCEPT ![q] = FALSE]
    /\ lost' = lost \union {b.id : b \in {c \in heap : c.id = local[q].base}}
    /\ UNCHANGED <<build, heap, call>>

(* yescrypt_hash(input, output) in the thread of a job.                    *)
Call(q) ==
    /\ call = Idle /\ thread[q] = "running"
    /\ call' = [thread |-> q, step |-> "entered", retval |-> 0]
    /\ UNCHANGED <<build, thread, initialized, local, heap, lost>>

(* Mutant of Initialize: the flag is never set.                            *)
InitializeAgain ==
    /\ call.step = "entered"
    /\ call' = [call EXCEPT !.step = "kdf"]
    /\ local' = [local EXCEPT ![call.thread] = Empty]
    /\ UNCHANGED <<build, thread, initialized, heap, lost>>

(* yescrypt_init_shared, which has no parameter and makes no ROM, and      *)
(* yescrypt_init_local: the region is emptied without being freed.         *)
Initialize ==
    /\ call.step = "entered"
    /\ call' = [call EXCEPT !.step = "kdf"]
    /\ IF build = "clang" \/ ~ initialized[call.thread]
       THEN /\ local' = [local EXCEPT ![call.thread] = Empty]
            /\ initialized' = [initialized EXCEPT ![call.thread] = build = "gcc"]
       ELSE UNCHANGED <<local, initialized>>
    /\ UNCHANGED <<build, thread, heap, lost>>

(* Mutant of Reuse: an initialized thread is taken to have its region.     *)
ReuseInitialized ==
    /\ call.step = "kdf"
    /\ initialized[call.thread] /\ call.retval = 0
    /\ call' = [call EXCEPT !.step = "compute"]
    /\ UNCHANGED <<build, thread, initialized, local, heap, lost>>

(* The region is big enough, from an earlier call of this thread.          *)
Reuse ==
    /\ call.step = "kdf"
    /\ local[call.thread].size >= Need
    /\ call' = [call EXCEPT !.step = "compute"]
    /\ UNCHANGED <<build, thread, initialized, local, heap, lost>>

Freed(region) == {b \in heap : b.id # region.base}

(* free_region and alloc_region: malloc returns a block that is not in use *)
(* and the region records the size.                                        *)
Allocate ==
    /\ call.step = "kdf"
    /\ local[call.thread].size < Need
    /\ \E b \in Blocks \ {c.id : c \in Freed(local[call.thread])} :
          /\ heap' = Freed(local[call.thread]) \union {[id |-> b, size |-> Need]}
          /\ local' = [local EXCEPT ![call.thread] = [base |-> b, size |-> Need]]
    /\ call' = [call EXCEPT !.step = "compute"]
    /\ UNCHANGED <<build, thread, initialized, lost>>

(* Mutant of AllocationFails: the size is recorded for a null base.        *)
AllocationFailsSized ==
    /\ call.step = "kdf"
    /\ local[call.thread].size < Need
    /\ heap' = Freed(local[call.thread])
    /\ local' = [local EXCEPT ![call.thread] = [base |-> None, size |-> Need]]
    /\ call' = [call EXCEPT !.step = "failed", !.retval = -1]
    /\ UNCHANGED <<build, thread, initialized, lost>>

(* The same, but malloc returns NULL: base and both sizes are zero.        *)
AllocationFails ==
    /\ call.step = "kdf"
    /\ local[call.thread].size < Need
    /\ heap' = Freed(local[call.thread])
    /\ local' = [local EXCEPT ![call.thread] = Empty]
    /\ call' = [call EXCEPT !.step = "failed", !.retval = -1]
    /\ UNCHANGED <<build, thread, initialized, lost>>

(* PBKDF2, smix and PBKDF2 (modelled in Kdf and ProofOfWork).              *)
Compute ==
    /\ call.step = "compute"
    /\ call' = [call EXCEPT !.step = "computed"]
    /\ UNCHANGED <<build, thread, initialized, local, heap, lost>>

(* Mutant of Succeed: the block is freed after a success too, and the      *)
(* region keeps its address and its size for the next call.                *)
SucceedFreeing ==
    /\ call.step = "computed" /\ build = "gcc"
    /\ heap' = Freed(local[call.thread])
    /\ call' = Idle
    /\ UNCHANGED <<build, thread, initialized, local, lost>>

(* A gcc build frees the region only when the call failed.                 *)
Succeed ==
    /\ call.step = "computed" /\ build = "gcc"
    /\ call' = Idle
    /\ UNCHANGED <<build, thread, initialized, local, heap, lost>>

(* yescrypt_free_local: after a failure, and in a clang build always.      *)
Free ==
    /\ \/ call.step = "failed"
       \/ call.step = "computed" /\ build = "clang"
    /\ heap' = Freed(local[call.thread])
    /\ local' = [local EXCEPT ![call.thread] = Empty]
    /\ call' = Idle
    /\ UNCHANGED <<build, thread, initialized, lost>>

RegionNext ==
    \/ \E q \in Threads : Start(q) \/ End(q) \/ Call(q)
    \/ Initialize \/ Reuse \/ Allocate \/ AllocationFails
    \/ Compute \/ Succeed \/ Free

RegionSpec == RegionInit /\ [][RegionNext]_vars

-----------------------------------------------------------------------------
(* Properties                                                              *)

(* A thread holds a region only while it runs and only once initialized,   *)
(* and the bytes it records are all or nothing (yescrypt_region_t).        *)
RegionTypeOK ==
    /\ heap \subseteq [id : Blocks, size : {Need}] /\ lost \subseteq Blocks
    /\ call.step \in {"idle", "entered", "kdf", "compute", "computed", "failed"}
    /\ call.thread \in Threads \union {None}
    /\ \A q \in Threads :
          /\ local[q] \in [base : Blocks, size : {Need}] \union {Empty}
          /\ local[q] # Empty => thread[q] = "running"
          /\ build = "clang" => ~ initialized[q]

(* The region of a thread is a block in use, of the size recorded, that no *)
(* other thread has and that is not lost: nothing is used after it was     *)
(* freed, and nothing is freed twice (free_region).                        *)
RegionsLive ==
    \A q \in Threads :
        local[q] # Empty =>
            /\ [id |-> local[q].base, size |-> local[q].size] \in heap
            /\ local[q].base \notin lost
            /\ \A o \in Threads \ {q} : local[o].base # local[q].base

(* Every block in use is the region of a running thread, or was the region *)
(* of one that has ended: no call loses a block, whether it succeeds or    *)
(* fails, and a clang build has none in use between calls.                 *)
NothingElseLost ==
    /\ \A b \in heap : b.id \in lost \/ \E q \in Threads : local[q].base = b.id
    /\ build = "clang" /\ call = Idle => heap = {}

(* The mixing runs in a region of the calling thread that has room for B,  *)
(* V, XY and S, after any sequence of failed and successful calls.         *)
RoomToCompute ==
    call.step \in {"compute", "computed"} =>
        /\ local[call.thread].size >= Need
        /\ \E b \in heap : b.id = local[call.thread].base /\ b.size >= Need
=============================================================================
