# A verification project for PyMiner

PyMiner is a Stratum mining client in Python 2 (`pyminer.py`) whose proofs of work are computed by two C extensions (`algos/scrypt`, `algos/yescrypt`). This directory holds TLA+ modules that model both halves, TLC configurations that check them on small instances, and theorems checked by TLAPS.

Source lines below refer to `src/`; `PROJECT.json` maps every definition that models code to its lines.

Contents: [inventory](#inventory), [modules](#modules-and-the-code), [runs](#runs), [bounds](#bounds-and-why-they-are-enough), [fairness](#fairness), [proofs](#proofs), [divergences](#where-the-code-and-its-words-disagree), [limits](#what-is-not-modelled), [plan](#plan).

## Inventory

### The threads and who talks to whom

```
                 main thread (serve_forever)
                   | connect, send(subscribe), sleep for ever
                   v
  server <----- socket ----> reader thread (_handle_incoming_rpc)
     ^                         | with _lock: handle_reply
     |                         |   set_difficulty, set_subscription -> Subscription
     |                         |   stop the old Job, create a new one, start a thread
     |                         v
     +---- send(submit) --- job threads: for result in job.mine(): send(...)
                               | proof_of_work(header)
                               v
                      C: scrypt_1024_1_1_256 / yescrypt_hash
                         PBKDF2 -> smix (scratchpad, region) -> PBKDF2
```

Threads share `_message_id`, `_requests` and the socket under an `RLock`, the flag `_done` of each job and the fields of the subscription without any lock. The C code runs with Python's global lock held, so one hash is computed at a time. yescrypt keeps memory between calls in thread-local variables.

### Components

| Component | State | Operations | What makes it hard | What makes it correct |
|---|---|---|---|---|
| JSON-RPC client (415-522) | `_message_id`, `_requests`, `_lock`, `_socket`, the reader | `connect`, `send`, `_handle_incoming_rpc` | ids are read outside the lock; `handle_reply` sends while holding it; writes fail or are cut short; the stream is read in chunks; a handler's exception ends the reader | lock discipline, lookups that hit, no request lost or replaced, damage that does not spread, no lock leaked; every line handled once, in order |
| Job (138-280) | `_done`, `_target`, the loop variables of `mine`, `_dt`, `_hash_count` | `__init__`, `mine`, `stop`, `hashrate` | a coroutine suspended at a yield, stopped from another thread at any moment; nested ranges with start and stride | nothing hashed twice, everything hashed once when it ends by itself, at most one attempt after `stop`, time that excludes the consumer's |
| Subscription (287-412) | `_id`, `_difficulty`, `_target`, `_worker_name` | `set_difficulty`, `set_subscription`, `set_worker_name`, `create_job` | the target is a capped quotient, shifted and compared as a string | a share meets the difficulty of its own work, and few hashes that do are missed while the target fits |
| Miner (526-679) | `_subscription`, `_job`, `_accepted_shares` | `handle_reply`, `_spawn_job_thread`, `run`, `serve_forever` | replies attributed under colliding ids; the hand-over from one job to the next; exceptions in three kinds of threads | handshake in order, one current job, shares counted once, every found share delivered |
| SHA-256, HMAC, PBKDF2 (`scrypt.c` 100-462, `sha256_c.h`) | contexts: two-word bit count, buffer, state | Init, Update, Final, PBKDF2 | buffering and padding boundaries, the carry of the count, contexts copied for reuse | streaming equals hashing the whole message; RFC 8018 |
| scrypt (`scrypt.c` 464-680) | scratchpad: B, XY, V | `smix`, `blockmix_salsa8`, `scrypt_1024_1_1_256` | loops unrolled by two, buffers that swap, regions of one array | the mixing of RFC 7914; regions inside the array |
| yescrypt mixing (`yescrypt-opt_c.h`) | region: B, V, XY, S | `smix`, `smix1`, `smix2`, `block_pwxform`, `yescrypt_kdf` | permuted representation, S-box in the same memory, rows added while they are written, rounded loop bounds | the mixing as one would define it; independent of what the memory held |
| yescrypt memory (`yescrypt.c`, `yescrypt-platform_c.h`) | thread-local region and flag | `yescrypt_hash`, `alloc_region`, `free_region`, init and free | two builds, failed allocations, threads that end | the region is live, private and large enough whenever it is used |
| yescrypt with SSE2 (`yescrypt-simd_c.h`) | the same region, the registers X0 to X3 | `smix`, `smix1`, `smix2`, `blockmix`, `blockmix_xor`, `blockmix_xor_save` | the block wanders along the rows of V; XOR and write-back inside the mixing, in place; a nested loop with its own bounds and a tail | the same hash as the portable build |
| Byte order (`sysendian.h`, `swap_endian_word`) | none | loads, stores and reversals of words | two orders in one header | storing and loading are inverse; the nonce submitted is the one hashed |
| rounds, module glue, command line, build | | | | not modelled, see [below](#what-is-not-modelled) |

`PROJECT.json` lists every hazard of this code under "hazards", each at its line, with the properties that would notice it going wrong. Where what goes wrong is what the code does, and no document says otherwise, no property can be named; the hazard then says what the model makes of it.

## Modules and the code

The Python side:

| Module | Models | Correspondence |
|---|---|---|
| `JsonRpcClient` | `SimpleJsonRpcClient` | `Build` is the part of `send` before the lock (500-501), `Register` the critical section up to the socket (502-504), `Transmit` / `TransmitPart` / `TransmitFails` the write, whole, cut short or refused, and the way out (505). What is written after a part completes that line and is lost with it. `Receive` / `ReceiveCall` take the lock and look the request up; `Return` / `Raise` end `handle_reply`. A request remembers which thread built it, for the properties only. The connection and the server are external. |
| `LineReader` | the loop of `_handle_incoming_rpc` (452-470) | a line is two units of text and its end. `TakeLine` splits the buffer, `NoLine` and `Recv` read a chunk of any size, `Skip` is a line that is not JSON, `HandleLine` / `ReaderEnds` the outcomes of `handle_reply`. The session of the server and `Cut`, the connection closing inside a line, are external. |
| `Job` | `Job.mine`, `Job.stop` | one action per turn of the coroutine: `Begin`, `Check` (the flag), `Miss` or `Find` (the attempt), `Resume` (after the yield). `tried` and `late` are history variables. Whether a hash is a share is external. |
| `JobMetrics` | `_dt`, `_hash_count`, `t0` | every action of `Job` with what it does to the timer, and a clock |
| `Subscription` | the four classes | numbers and strings of digits to a small base; `SetTarget` is the overridden `_set_target` of scrypt and yescrypt; a job is the number of its unit of work, its target and the difficulty that came from. `Meets` is what a share is to a pool, a product that knows no quotient, cap or string. |
| `SubscriptionFeed` | `Subscription` behind `LineReader` | the branches of `handle_reply` that reach the subscription, each conjoined with the line it handles; the exceptions that end the reader, that of the send at the end of a handler included (`AuthorizeRaises`) |
| `Miner` | `Miner` | EXTENDS `JsonRpcClient` and `Job`. A branch of `handle_reply` is an action that conjoins `Return`, `Raise` or `Build(Reader, ...)` of the client with what the branch does to the jobs and the subscription. With an empty user name a repeated authorization is accepted (`Unnamed`). `RunJob` is the function `run` of a job thread. |
| `WorkShares` | abstract | what a pool is promised: shares of work it handed out, none twice, at most one late share per superseded work |

`_spawn_job_thread` is one step: between its assignments another thread can do nothing but read the old flag, and a step that reads it earlier or later is in the model. `NotifyFails` is the case in which `Job.__init__` raises after the old job was stopped. Work is otherwise taken as well formed: hexadecimal strings that cannot be decoded end the job thread at its first attempt and are left out.

The C side:

| Module | Models | Correspondence |
|---|---|---|
| `Sha256` | contexts, padding, HMAC | `Update`, `Pad`, `Final`, `HmacInit`... as functions on a context. A byte is a set of atoms (so xor is symmetric difference); the compression function is abstract: the state is the sequence of blocks absorbed. |
| `Pbkdf2` | `PBKDF2_SHA256` | one step is one trip of a loop |
| `Kdf` | `scrypt_1024_1_1_256_sp`, `yescrypt_kdf` around the mixing | the array `sha256` that serves as password twice, the two derivations, `ClientKey` and `StoredKey` |
| `BlockMix` | the block functions | over one memory of sub-blocks; the Salsa20/8 core is any function given as a table, the exclusive or any operation on words that the permutation commutes with (`XorWord`, the bitwise one in the run), the word permutation a rotation |
| `Scratchpad`, `ScryptSmix`, `YescryptSmix`, `SimdSmix` | the regions and the loops of `smix` in the three files | one action is one half of an unrolled loop body. Memory never written holds `Junk`, and whatever is computed from it is `Junk`. |
| `ROMix` | abstract | one buffer, one table, one step per application of BlockMix; nothing shared, unrolled, or permuted |
| `ProofOfWork` | all three | the refinement mapping from the scratchpad to `ROMix` |
| `YescryptRegion` | thread-local memory across calls | builds of gcc and clang; `Reuse`, `Allocate`, `AllocationFails` are the outcomes of the allocation in `yescrypt_kdf` |
| `MemoryLayout` | address arithmetic and wrapping sizes, the word permutation, and words as bytes, at their real sizes | no state of its own; theorems, and the proofs about `YescryptRegion` |

`SimdSmix` shares the regions, `Pwxform`, the loop counts of `smix` and the reading of the S-box with `YescryptSmix`. A step of it is one call of `blockmix`, `blockmix_xor` or `blockmix_xor_save`, which folds over the sub-blocks in the order of the code with the four registers as one value, so that a sub-block written too early is read as written. In `smix1` the block is never copied: it is in the row of V that was written last, which the refinement mapping follows.

`MC*` modules give the constants values and bounds; `*_proofs` modules hold proofs, and `Induction` what they need of the natural numbers.

## Runs

Distinct states are those of the present configurations.

| Run | States | Question and answer |
|---|---|---|
| `rpc` | 336 thousand | A reader and two senders, three requests, a connection that may close. The lock is held exactly by whom the code says (`LockDiscipline`); a lookup by the id that was sent never misses although ids may be stale (`RepliesFindRequest`); ids collide only between threads (`CollisionsAcrossThreads`); no registered request is replaced (`NeverOverwritten`); a write cut short costs its own request and the next one, no other (`DamageContained`); every send ends (`SendsEnd`). |
| `job_search` | 119 thousand | Two processes with stride 2, stopped at any moment. No position is hashed twice (`NoRetry`), lanes are disjoint (`LanesDisjoint`) and covered exactly (`LaneCovered`), one attempt after `stop` (`StopAfterCurrent`), a stopped job ends (`StopEnds`), the time accounted at a share and after `stop` is that of the hashing (`TimeAccounted`). |
| `subscription_targets` | 21.7 thousand | Sessions of lines in chunks of every size: the lines handled are those of the session, in order, whole and once (`LinesInOrder`), a line that was read is handled without another recv (`LinesHandled`), and each unit of work gets a job of its own with the difficulty last sent before its line (`JobsFollowLines`). Every hash of four digits against every target that arises: no job yields a hash that does not meet its own difficulty, measured without the code's quotient (`NoBadShare`), and it yields exactly the hashes up to a threshold, the target itself while that fits the width; then no hash is missed that meets the difficulty by two steps of the shifted target (`ShareThreshold`). |
| `miner_safety` | 1.6 million | The composition with two jobs and two shares: replies reach the branch of the right method even when ids collide (`MethodAttribution`), the handshake is in order on the wire (`HandshakeOrder`), the count of accepted shares is right (`AcceptedCounted`), one job is current (`OneCurrentJob`), a new difficulty leaves existing jobs alone (`FutureWorkOnly`), and the pool's view implements `WorkShares` (`PoolView`). |
| `miner_liveness` | 219 thousand | `SharesDelivered`: a share that was found leaves its thread (sent, or given up because the connection closed), although the server may answer every request twice and so end the reader in the middle of a handler. |
| `kdf` | 831 | Streaming contexts hold what was absorbed (`ContextHolds`), PBKDF2 writes a prefix of the key at every block (`DerivedKey`), and the outputs equal definitions from RFC 2104, RFC 8018 and the yescrypt derivation (`KdfOutput`). |
| `proof_of_work` | 45.6 thousand | `ImplementsROMix` for scrypt and for the two builds of yescrypt, which therefore compute one hash; `OwnDataOnly`: no block depends on memory this hash has not written, hence not on the hash before it. |
| `yescrypt_region` | 6.7 thousand | Three threads, allocations that fail or succeed in any order: regions are live and private (`RegionsLive`), large enough when used (`RoomToCompute`), and no block is lost except with its thread (`NothingElseLost`). |
| `rpc_attribution`, `miner_warning`, `miner_refusal`, `miner_sha256d` | | violated: see [divergences](#where-the-code-and-its-words-disagree) |

Deadlock is not checked in these runs, because every one of these systems may stop: bounds are reached, jobs end, the reader dies, a hash is computed. That nothing waits for ever is stated by `SendsEnd`, `StopEnds` and `SharesDelivered` instead.

Each property of a passing run has a mutant: a definition with a plausible mistake, kept just before the correct one ("Mutant of ..."), under which the property is violated.

## Bounds and why they are enough

- `rpc`: two senders besides the reader, `MaxRequests = 3`: enough for a collision of ids, a third request whose id is stale by two, and a reply to each. `MaxAnswers = 1`. `MaxCuts = 1` cuts any one of the writes, which damages itself and the next. Proved without these bounds for the safety properties.
- `job_search`: `MaxNonce = 3`, stride 2: lanes of two and of one nonce, three turns of the outer loop, a last nonce on and off the end of the range. `MaxWait = 1` tick of the consumer per coroutine is enough to show up in an accounted time. Proved without bounds, except `StopEnds`.
- `subscription_targets`: base 4, width 4, difficulty one at 13 and a shift of 4 keep the proportions of the code (a quotient one digit and a bit below the width, a shift by one digit); difficulties give targets that fit, outgrow the width, are capped, and are zero. Sessions are all those of up to three lines of six kinds (a difficulty, the reply to the subscription, work, a malformed message, text that is no JSON, a blank line) and those with work before and after every change of difficulty (`MaxLines = 5`). A line has three units with its end and `ChunkSize = 4`: a chunk can be a part of a line, exactly a line, or a line and the beginning of the next; shorter reads make the same buffer as longer ones do. Proved without these bounds for everything but `LinesHandled`.
- `miner_*`: two jobs are one hand-over; `MaxNonce = 2` gives four positions each (one in `miner_liveness`), `MaxShares = 2` lets two submissions collide. `MaxAnswers` is 2 in `miner_liveness`, so that a reply may be repeated, and 1 elsewhere; the worker has a name there, so that a repeated authorization raises, and none in `miner_safety`; writes are not cut here (`MaxCuts = 0`): what a cut line does to the client is the question of `rpc`. Jobs are interchangeable and the safety run uses that symmetry; its constants treat `j1` and `j2` alike. Proved without these bounds for the safety properties, writes that are cut included.
- `kdf`: blocks of 8 bytes, digests of 2, a count word of 7 bits; `MCKdf` places lengths before, at and after every boundary: the block, the room for the length in the padding, the carry of the count (hit exactly and passed), a key longer than a block, an output cut short.
- `proof_of_work`: sub-blocks of 3 bits and four cores, one not injective; r of 1 and 2; N of 2, 4, 8 and 16, for which the two loops of `smix2` run 0 and 2, 2 and 0, 2 and 2, 6 and 0 steps. All blocks are enumerated for r = 1. With SSE2, N of 8 and 16 (this build refuses less) and S-boxes of 4 rows: `smix1` has no, one and two rounds before its last. Its comment allows N of 2, for which its branch for `YESCRYPT_RW` would write beyond V; the code calls it with 2048 and 64. Proved for every even N (from 4 on with SSE2), r, block, core and number of S-box rows. `JobsAssumption` says no more of a job than that.
- `yescrypt_region`: three threads and four blocks: one thread may end and lose its block, a second hold one, a third allocate while a block is free; the proofs do without these bounds. `N`, `r`, `p` are the ones of the code.

## Fairness

Fairness is assumed only in `Rpc.cfg`, `JobSearch.cfg`, `MinerLiveness.cfg` and `SubscriptionTargets.cfg`.

- A thread that can run runs: weak fairness of each job thread, of the reader inside a handler, of the write to the socket. Python's threads are operating-system threads and the global lock is released periodically and around blocking calls. A `socket.send` that blocks is taken to return or to fail at some time; against a server that keeps the connection open and never reads, nothing in the code would end it.
- A thread that waits for `_lock` gets it: strong fairness of `Register`, because the lock is free only between two messages and between two sends. This is an assumption on the scheduler (an `RLock` has no queue), and weak fairness would be too little: the reader may take the lock again and again.
- A consumer asks for the next share, or abandons the generator (`JobMetrics`): `run` does one or the other.
- The reader thread goes on with what it has read (`FeedThread`); nothing is assumed of `recv`, so that `LinesHandled` cannot wait for one.
- Nothing is assumed of the server, of the network, of `stop`, or of the choice between a share and a miss.

## Proofs

All theorems hold for every value of the constants under the named assumptions of the modules.

**`Miner_proofs`, the client** (from `RpcAssumption`). `RpcTypeOK`, `LockDiscipline` and `CollisionsAcrossThreads` are not inductive. `RpcInv` adds what they rest on: `SendInv` (a thread that has built a request has read an id newer than every id it registered before, and not newer than the next one; the reader sends only inside a handler) and `IdsNotNewer` (an id is never newer than the key of its request). That the id was read outside the lock is what makes `IdsNotNewer` an inequality. From it follow `RpcRepliesFindRequest` (an id between 1 and a key is itself a key) and `RpcNeverOverwritten` (keys only grow). `RpcDamageContained` rests on `WriteInv` besides: registering and writing are one critical section, so at most one thread is in its write and its request is the last one registered (`WriterAlone`), and a part is pending exactly when the last line written was cut.

**`Job_proofs`** (from `JobAssumption`). The positions of a lane are ordered as `mine` visits them. `SearchInv` says that exactly the positions up to the cursor are tried, the cursor itself only while its share is being consumed; `LateInv` ties the attempts after `stop` to where the coroutine is. The lemmas about lanes (`LaneGap`, `NextNonce`, `NextExtranonce`, `LastPosition`) show that one turn of the loops goes to the successor in that order. `NoRetry`, `LaneCovered`, `LanesDisjoint` and `StopAfterCurrent` follow.

**`JobMetrics_proofs`**. `MetricsInv` says where the timer stands at each place of the coroutine: open while it hashes, with `_dt` and the time since `t0` adding up to one tick for each attempt; closed while a share is held, one hash behind in its count. That an attempt adds one to the positions tried is `NoRetry` again (`AttemptAddsOne`), so the invariant of `Job` is part of this one. `MetricsTimeAccounted` follows; `MetricsKeepSearch` carries the theorems of `Job` over to the coroutine with its statistics.

**`Miner_proofs`, the miner** (from the assumptions of its two parts, `MinerAssumption`, which says who the threads are, and `BodiesAssumption`, that every message the miner sends is one the client takes). None of the properties of `Miner` is inductive. `MinerInv` contains the invariants of the client and of the jobs, which carry over because a step of the miner is a step of each, or leaves it alone (`StepsClient`, `StepsKeepJobInv`), and nine parts of its own:

- `SenderInv`: who may be sending. The handshake is made by one thread at a time, each alone with the client: the main thread under the first id, then the reader, and jobs exist only after that. From it come the ids that cannot collide.
- `BodyInv`, `KeyInv`: what each thread sends; only a submission has an id older than its key, and what that id was given to is a submission too. `MinerMethodAttribution` follows, with `HandlingInv`: the request a lookup gave.
- `HandshakeInv`, `WireInv`: the order in which requests were registered, and that those before a received one were received or damaged; together `MinerHandshakeOrder`.
- `CurrentInv`: `OneCurrentJob`, with the jobs that exist.
- `ShareInv`: a share that is held has not been sent, unless its thread is in the middle of writing it. A share is sent at most once, although a coroutine comes back to the place of the yield.
- `CountInv`: the replies to submissions are those counted, and the one being handled. It is about cardinalities, and the reason why `AcceptedCounted` may compare a counter with a set of pairs.

`MinerFutureWorkOnly` is about steps: no action touches the target of a job that exists. `MinerImplementsWorkShares` takes the steps of the miner one kind at a time: new work is `HandOut` (`NotifyHandsOut`), or `Withdraw` when the job cannot be made; the end of the write of a submission is `CurrentShare`, `LastShare` or `NoLastShare` (`SubmissionInPool`); everything else leaves the pool's view as it is. It needs `ShareInv` for a share not to come twice, and `CurrentInv` for a job that holds a share to be current or superseded.

**`Induction`**. The library's induction theorems take an operator, which no installed prover can instantiate. `SetInduction` says the same of a set of numbers: one that contains 0 and the successor of each member contains all of them. It follows from well-foundedness of the subsets of a finite set (`LeastElement`). With a set `{n \in Nat : P(n)}` in place of the operator, induction is a lemma like another. `RecursiveFunction` uses it to show that a recursive function exists, without which nothing could be said of `Power` or of a stream put together from lines.

**`SubscriptionFeed_proofs`** (from `SubscriptionAssumption`, `GrowthAssumption`, `LineReaderAssumption`, `FeedAssumption`). In three parts.

- Strings of digits: the digits of a number make it (`DigitsMakeNumber`), numbers with equally many digits compare as their strings do (`CompareDigits`, by induction on the first difference), and a hash compared with a longer string is compared with the number that its leading digits make. `StringComparison` puts this together for any base and width. `GrowthAssumption` is what keeps the target's string finite: with 64 hexadecimal digits and a shift by 16 bits it has at most 68, the assumption allows 72.
- `TargetInv`: the target of each job is the string of its own difficulty, never of a later one, and jobs without a difficulty have none. `QuotientBounds` says that the quotient of `set_difficulty`, for integers and for fractions, is never above the exact one and less than two below it; `WantedMeets` and `MeetsWanted` carry this through the cap and the shift. `SubscriptionNoBadShare` and `SubscriptionShareThreshold` follow.
- `ReaderInv`: what was read and belongs to no line, and then what was not read, are the stream from the end of the last line that was taken. `LinesInOrder` says nothing about the buffer and is not inductive. `StreamOfLines` says where the lines of a stream end, `NextLine` that the first end in the buffer is the end of the next line of the session; it rests on `LineReaderAssumption`, that the end of a line occurs in no text. `FeedInv` adds that the difficulty is the one last sent before the next line. `FeedLinesInOrder` and `FeedJobsFollowLines` follow; that a line skipped is no call (`FeedAssumption`: other lines are not calls) is needed there. `FeedImplementsSubscription` carries the theorems about targets over.

**`Kdf_proofs`** (from `Sha256Sizes` and `KdfSizes`), for messages, keys, salts and outputs of any length, any number of iterations, and blocks, digests and words of any size. It goes up the calls:

- `IsContext` says what a context is after the bytes it has taken: their whole blocks absorbed, the rest at the head of the buffer, their length in two words. `UpdateHolds` shows that `Update` keeps it whether the new bytes stay within the block in progress (`UpdateWithin`) or fill it and others (`UpdateBeyond`). `LengthAdded` is the carry, seen by comparing the sum with what was added; `PlaceInBlock` that the place in the buffer can be read off the low word. The latter needs a word to count whole blocks, which `Sha256Sizes` therefore states: in the code 2^32 bits are 2^23 blocks of 512 bits.
- `PaddingFits`: the padding ends the last block exactly, whether or not there was room for the length in the one in progress, and is the number of zeros the reference chooses. `FinalIsDigest` and `ShaIsDigest` follow, then `HmacIsDigest`, for keys longer than a block too.
- The reference chains of PBKDF2 are recursive functions; `ChainOfU` and `ChainOfT` show by `SetInduction` that they exist and satisfy their equations.
- `KdfInv` is `CallInv`, what a call of PBKDF2 has at each moment (the two chains at place `j - 1` of block `i + 1`; the beginning of the key; a context that no block has touched), and `StageInv`, what its callers have asked for and what the array of `yescrypt_kdf` holds when it serves as password again. `DerivedKey` is not inductive: nothing in it says that a block in progress is the next one of the key.

**`ProofOfWork_proofs`** (from `BlockMixSizes`, `XorOfWords`, `ShuffleOfXor`, `JobsAssumption`), in two parts. The first is about what the three programs read and write, for any numbers of rows and sub-blocks, any core, any exclusive or and any block. `OwnDataOnly` says that the block holds no junk; it is not inductive, because the next step takes a row of the table that the block itself chooses, and overwrites buffers that hold the only copy. In three layers:

- Block functions. A word that is written stays one (`Grown`): each of `Copy`, `XorInto`, the two `blockmix` of the portable files and the three of the SSE2 file writes only words when it is given words, inside the scratchpad, and all of its output (`BlockmixSalsa8Grows` to `BlockmixXorSaveGrows`). They are recursions over the sub-blocks; `FoldExists` and `FoldInduction` show, from `Induction`, that the recursion has a solution and what holds all along it. The S-box is read with an index cut to its size (`TableInMemory`), which needs an even number of entries.
- The invariant. `OwnInv`: B, the S-box once it is filled, the rows up to a number `RowsOwn` and the block in its present place hold words. `ScryptInv`, `OptInv`, `SimdInv` and `Smix2Inv` say where each loop is: that the loops unrolled by two end where N does, since N is even; that n of `smix1` is a power of two with n <= row < 2n, so that a wrapped index names a row already written (`ChosenRow`, `DoubledInTime`); that the inner loop of the SSE2 build stops two rows short of the last (`RoundFits`), which its tail then writes. They are as strong as they are because the SSE2 build takes the row to be written, and the one it mixes with, from two counters.
- `Powers`, `PowersApart` and `P2floorIs`: `P2floor` is the power of two just below a number, so that doubling n exactly when the row is a power of two agrees with it. The proof does not use that N is one: only that it is even.

`PowTypeCorrect` and `PowOwnData` follow from `PowInvariant`.

The second part is `PowImplementsROMix`: each of the three programs is `ROMix` step by step, for any r, even N, number of S-box rows, core and block. The mixing of scrypt is therefore that of RFC 7914, and the two builds of yescrypt, one of which mixes in place, compute one hash.

scrypt has two buffers that swap roles and rows addressed by numbers of words:

- Block functions. The reference mixes blocks, the code cells of the scratchpad. `Chain` is the sequence of values that one register takes over the sub-blocks; `SpecBlockMixIs` reads the reference's output off a chain, `BlockmixSalsa8Computes` finds the code's output in the same chain and every other cell unchanged. Copying and adding are `ReadOfCopy` and `ReadOfXorInto`.
- Places. Both need that X, Y and the rows of V are apart (`ScryptApart`), so that what one call writes is not what the next one reads.
- Steps. The invariant is the one of the first part; no other is needed. `ScryptView` says what the abstract machine sees of a state: the current buffer and the rows that are complete. Each half of a loop body is one step of `ROMix`, with X and Y exchanged; `load` is a stutter.

yescrypt keeps all of that permuted, and its S-box in the same memory:

- Permuted mixing. `MixesTo` says that a block is what the code makes of another, both permuted: a chain whose links are the permuted core and `Pwxform` with the S-box as it is in memory (`Link`). `MixedIs` turns it into the reference, once for both builds: unpermuted, a chain of the code is a chain of the reference. This uses that the permutation is undone and commutes with the exclusive or (`ShufflesUndo`, from the assumption `ShuffleOfXor`; `MemoryLayout` proves both of the real permutation), and that the S-box of `ROMix` is the one in memory, unpermuted (`AbstractPwxform`).
- Block functions. `BlockmixPwxformComputes`, `SimdBlockmixComputes`, `BlockmixXorComputes` and `BlockmixXorSaveComputes` show `MixesTo` of the portable function and of the three of the SSE2 file, and that they write nothing else. `blockmix_xor_save` overwrites one of its arguments while it reads the other: the two must be apart, and the row holds the sum at the end.
- Abstract steps. `YescryptView` is what `ROMix` sees of a state: the block in its present place, its first sub-blocks only while the S-box is filled (the others are still in B, as numbered); the rows that are complete; the S-box. `YescryptFills`, `YescryptMixStep` and `YescryptEnds` say when a step is one of `ROMix`, whatever the build and wherever the block is; `YescryptLoads` and `YescryptWaits` when it is a stutter.
- Steps of the code. The portable build meets these lemmas with X and Y exchanged (`Smix1LoopStep`, `Smix2LoopStep`, ...). In the SSE2 build `smix1` copies nothing: the block is the row that `Done` counts to (`SimdPlace`), filling a row and making it the block are one call (`SimdFills`), and `blockmix_xor` adds the row that `ROMix` adds in place.
- `RowChosen`. The SSE2 build chooses a row by the number that its last call returned, not by reading the block; a fact about `j` that the first part does not need. With it goes that the loop over n ends with n at half of the rows. `RowChosenStays` shows that it is kept.

**`MemoryLayout`**, in five sections.

- Words as bytes. `WordsReturn` and `BytesReturn`: stores and loads of 32-bit words are inverse in both orders. `OrdersSwapped`: each order is the other reversed, so the nonce that is submitted is the one in the header.
- The word permutation. `ShuffleUndone` and `IntegerifyOfShuffled` at the real size of sixteen words; `ShuffleOfXorWords`: it commutes with an operation on each word. `BlockMix` scales the permutation down to a rotation, and these are the three facts about it that the mixing needs. `SimdSameOrder`: the build with SSE2, which loads with the index `i * 5 % 16` and has no shuffle function, permutes in the same way.
- The region of `yescrypt_kdf` in both builds, for every N, r, p and flags and every width of `size_t` from 32 bits on, as hypotheses of the theorems (`Typed`, `Accepted`, `NotRefused`). `SizesExact`: `EachFits` shows that the checks at the head bound each size by itself, `SumDetected` that `need += size; if (need < size)` sees every sum that wraps around, so `need` is the true sum. `RegionNeedIsExact`: it is the `Need` of `YescryptRegion`, 64 bytes less with SSE2. `LayoutFits` follows: the four regions lie in the block, aligned. `BitzenyAccepted` shows that the hypotheses hold of PyMiner's own call in every such build.
- The scratchpad of scrypt. `ScratchpadFits`: for every address of the array, B, XY and V lie inside its 131583 bytes, aligned; and one byte less would be too little for some address.
- The region of a thread across calls (from `RegionAssumption`). `RegionsLive` alone is not inductive: a `free` by one thread must not hit the block of another, and setting up a thread must not overwrite a region. `RegionInv` adds that a block in use has one size (`HeapInv`); that in a gcc build only a thread already set up has a region, and in a clang build only the thread whose call is in its mixing (`OwnerInv`); what each step of a call may rely on (`CallInv`); and that a clang build sets no thread up and loses no block (`BuildInv`).

TLC does not evaluate the first four sections: its integers end below 2^31. The properties of the last are checked by the run `yescrypt_region`.

Only model-checked: liveness (`SendsEnd`, `StopEnds`, `SharesDelivered`, `LinesHandled`), which is out of reach of the prover.

## Where the code and its words disagree

Each of the first four has a run that TLC ends with a counterexample.

1. `rpc_attribution`: the id of a request is read before the lock is taken (pyminer.py:500). Two job threads that overlap send one id under two keys, and a reply to the second finds the first. It does no harm today, because requests that collide are always submissions (`MethodAttribution`) and a submission is only counted (`AcceptedCounted`).
2. `miner_warning`: the handler that should report a warning adds a string and a dict (485). The `TypeError` ends the reader: one rejected share, and no new work is ever received.
3. `miner_refusal`: "if we failed to authorize, quit" (594) ends the reader only; job threads go on and submit.
4. `miner_sha256d`: the subscription of sha256d inherits `_max_nonce = None` (290), and `xrange(None)` (248) fails in every job thread.

Met while modelling, without a run:

- The docstring of `hashrate` promises the current rate (208), but `_dt` grows only at a share or when the job is stopped (258, 273) while `_hash_count` grows with every miss: in between the rate is too high, and zero before the first share. `TimeAccounted` states what does hold, at a share and after `stop`. A coroutine that is exhausted never accounts for what it hashed since its last share.
- A target shifted beyond the width of a hash (387, 404) becomes a string with more digits than any hash and is compared by its leading digits: hashes that reach an easy target are not yielded ("Did we reach or exceed our target?", 265). `ShareThreshold` says which ones are: beyond the width, an easier target may yield fewer hashes than a harder one.
- `yescrypt_hash` ignores the result of `yescrypt_bitzeny` (yescrypt.c:105-110); after a failed allocation the caller gets 32 bytes nobody wrote. `YescryptRegion` shows that the call after it recovers.
- A gcc build never frees the region of a thread that ends, and the miner starts a thread for each job: the variable `lost` of `YescryptRegion` grows by one block for each.

## What is not modelled

- Vector instructions as such: `SimdSmix` takes them as the operations on words they stand for. In `yescrypt-simd_c.h`, `yescrypt_kdf` (1147-1374) has the statements of the portable file but for the size of XY and the parameters it refuses (both in `MemoryLayout`), and is covered by `Kdf` and `Scratchpad`.
- The rounding of the target's quotient to a float (337), which keeps 53 bits of it: `Quotient` is exact, and a difficulty so small that the quotient is no float, for which the handler raises, is left out.
- The rounds of SHA-256 and Salsa20: pure arithmetic, for which test vectors are the right check.
- In yescrypt, what `yescrypt_bitzeny` never selects: the ROM, several lanes and OpenMP, `t > 0`, mmap and huge pages.
- `scryptmodule.c` and the like: argument parsing around one call.
- The Merkle root and header of a job, the text of JSON, logging, the loading of the scrypt module, the self test, the command line, the build scripts.
- In the miner: `sock.connect` that fails (the process ends), a thread that cannot be started, memory growth of `_requests`; partial writes are modelled in `JsonRpcClient` and not repeated in the runs of `Miner`.

## Plan

Done in this order, by importance: `JsonRpcClient` with its proofs, `Job` with its proofs, `JobMetrics`, `Subscription`, `Miner` with `WorkShares`, `Sha256` to `Kdf`, `BlockMix` to `ProofOfWork` with `ROMix`, `YescryptRegion`, `MemoryLayout`; then partial writes, `LineReader` and `SubscriptionFeed`, `SimdSmix`; then the proofs about `Miner` and its refinement, `JobMetrics`, `SubscriptionFeed` with `Induction`, `Kdf`, and `ProofOfWork`.

To extend the model:

1. An abstract specification of the client (requests and replies without ids) that `JsonRpcClient` implements where ids do not collide.
2. A run for the current hashrate.
