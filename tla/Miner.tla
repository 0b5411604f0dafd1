------------------------------- MODULE Miner -------------------------------
(***************************************************************************)
(* The Miner of pyminer.py: the JSON-RPC client and the jobs, composed.    *)
(* The main thread connects, subscribes and sleeps; the reader handles     *)
(* what the server sends and starts one thread for each job, which mines   *)
(* and submits the shares it finds.                                        *)
(*                                                                         *)
(* The server is external.  It may send every message the handler has a    *)
(* branch for whenever the reader is ready to receive, hand out each       *)
(* member of Jobs once, and answer a submission either way.                *)
(***************************************************************************)
EXTENDS JsonRpcClient, Job

CONSTANTS
  Main,         \* the thread that runs serve_forever
  Subscription, \* a subscription id
  Username,
  EmptyUsername \* the user name is '', the default of the command line

ASSUME MinerAssumption ==
  /\ Main \notin Jobs
  /\ Reader \notin Jobs
  /\ Main # Reader
  /\ Threads = Jobs \union {Main, Reader}
  /\ None \notin Jobs
  /\ None \notin {Subscription, Username}
  /\ EmptyUsername \in BOOLEAN
  /\ Stride = 1
  /\ \A j \in Jobs : Start[j] = 0

VARIABLES
  main,         \* the main thread
  sub_id,       \* self._subscription
  worker_name,
  sub_target,
  job,          \* self._job
  accepted,     \* self._accepted_shares
  authorizing   \* the reader is in the send at the end of a handler

subscriptionVars == <<sub_id, worker_name, sub_target>>

minerVars == <<main, subscriptionVars, job, accepted, authorizing>>

vars == <<rpcVars, jobVars, minerVars>>

Subscribe == [method |-> "mining.subscribe"]
Authorize == [method |-> "mining.authorize"]
Submit(j, share, worker) ==
  [method |-> "mining.submit", job |-> j, share |-> share, worker |-> worker]

(* Every request the miner makes is one. *)
ASSUME BodiesAssumption ==
  /\ {Subscribe, Authorize} \subseteq Bodies
  /\ \A j \in Jobs, worker \in {None, Username} :
       \A share \in Lane(j) : Submit(j, share, worker) \in Bodies

IsSubmit(request) == request.body.method = "mining.submit"

MinerTypeOK ==
  /\ RpcTypeOK
  /\ JobTypeOK
  /\ main \in {"start", "connected", "running", "exited"}
  /\ sub_id \in {None, Subscription}
  /\ worker_name \in {None, Username}
  /\ sub_target \in Targets
  /\ job \in Jobs \union {None}
  /\ accepted \in Nat
  /\ authorizing \in BOOLEAN

MinerInit ==
  /\ RpcInit
  /\ JobInit
  /\ main = "start"
  /\ sub_id = None
  /\ worker_name = None
  /\ sub_target = None
  /\ job = None
  /\ accepted = 0
  /\ authorizing = FALSE

-----------------------------------------------------------------------------
(* The main thread: serve_forever.                                         *)

MainConnect ==
  /\ main = "start"
  /\ Connect
  /\ main' = "connected"
  /\ UNCHANGED <<jobVars, subscriptionVars, job, accepted, authorizing>>

MainSubscribe ==
  /\ main = "connected"
  /\ Build(Main, Subscribe)
  /\ main' = "running"
  /\ UNCHANGED <<jobVars, subscriptionVars, job, accepted, authorizing>>

MainSent == Written(Main) /\ UNCHANGED <<jobVars, minerVars>>

(* An exception of the main thread ends the process; the other threads are *)
(* daemons and end with it.                                                *)
MainFails ==
  /\ TransmitFails(Main)
  /\ main' = "exited"
  /\ UNCHANGED <<jobVars, subscriptionVars, job, accepted, authorizing>>

-----------------------------------------------------------------------------
(* The reader thread: handle_reply, one action for each branch.            *)

Idle == ~authorizing /\ UNCHANGED authorizing

(* Mutant of SpawnJobThread: the previous job is not stopped. *)
SpawnBesideOld(j) ==
  /\ at[j] = "unborn"
  /\ at' = [at EXCEPT ![j] = "created"]
  /\ target' = [target EXCEPT ![j] = sub_target]
  /\ job' = j
  /\ UNCHANGED <<done, extranonce2, nonce, tried, late>>

(* _spawn_job_thread.  The flag of the old job, the new job and its thread *)
(* are written one after the other; all that another thread could do in    *)
(* between is read the flag, before or after.                              *)
SpawnJobThread(j) ==
  /\ at[j] = "unborn"
  /\ at' = [at EXCEPT ![j] = "created"]
  /\ target' = [target EXCEPT ![j] = sub_target]
  /\ done' = IF job = None THEN done ELSE [done EXCEPT ![job] = TRUE]
  /\ job' = j
  /\ UNCHANGED <<extranonce2, nonce, tried, late>>

(* Mutant of Notify: create_job does not ask for a subscription. *)
NotifyUnsubscribed(j) ==
  /\ Idle
  /\ handling = NoMessage
  /\ SpawnJobThread(j)
  /\ Return
  /\ UNCHANGED <<main, subscriptionVars, accepted>>

(* mining.notify, once the subscription has an id. *)
Notify(j) ==
  /\ Idle
  /\ handling = NoMessage
  /\ sub_id # None
  /\ SpawnJobThread(j)
  /\ Return
  /\ UNCHANGED <<main, subscriptionVars, accepted>>

(* Mutant of SetDifficulty: the current job changes its target too. *)
SetDifficultyNow(t) ==
  /\ Idle
  /\ handling = NoMessage
  /\ t # None
  /\ sub_target' = t
  /\ target' = IF job = None THEN target ELSE [target EXCEPT ![job] = t]
  /\ Return
  /\ UNCHANGED <<at, done, extranonce2, nonce, tried, late,
                 main, sub_id, worker_name, job, accepted>>

(* A mining.notify whose branches are no list: Job.__init__ raises when    *)
(* the old job has been stopped, and no job takes its place.               *)
NotifyFails ==
  /\ Idle
  /\ handling = NoMessage
  /\ sub_id # None
  /\ job # None
  /\ done' = [done EXCEPT ![job] = TRUE]
  /\ Raise("crashed")
  /\ UNCHANGED <<at, target, extranonce2, nonce, tried, late,
                 main, subscriptionVars, job, accepted>>

(* mining.set_difficulty *)
SetDifficulty(t) ==
  /\ Idle
  /\ handling = NoMessage
  /\ t # None
  /\ sub_target' = t
  /\ Return
  /\ UNCHANGED <<jobVars, main, sub_id, worker_name, job, accepted>>

(* A malformed call, a call of another method or a stray reply raises a    *)
(* warning; work before the subscription, a negative difficulty or a       *)
(* message that is no object raises another exception.                     *)
BadCall ==
  /\ Idle
  /\ handling = NoMessage
  /\ Raise("warned") \/ Raise("crashed")
  /\ UNCHANGED <<jobVars, main, subscriptionVars, job, accepted>>

Answers(method) ==
  /\ Idle
  /\ handling.request # NoRequest
  /\ handling.request.body.method = method

(* The reply to mining.subscribe.  The request for authorization is built  *)
(* under the lock the reader holds.  An id of null leaves the client       *)
(* unsubscribed, and it goes on to authorize all the same.                 *)
Subscribed(id) ==
  /\ ~authorizing
  /\ authorizing' = TRUE
  /\ handling.request # NoRequest
  /\ handling.request.body = Subscribe
  /\ sub_id = None
  /\ sub_id' = id
  /\ Build(Reader, Authorize)
  /\ UNCHANGED <<jobVars, main, worker_name, sub_target, job, accepted>>

AuthorizeSent == Written(Reader) /\ UNCHANGED <<jobVars, minerVars>>

SubscribedReturns ==
  /\ authorizing
  /\ authorizing' = FALSE
  /\ Return
  /\ UNCHANGED <<jobVars, main, subscriptionVars, job, accepted>>

AuthorizeFails ==
  /\ TransmitFails(Reader)
  /\ authorizing' = FALSE
  /\ UNCHANGED <<jobVars, main, subscriptionVars, job, accepted>>

(* A malformed reply is warned of, the second one too; one that is well    *)
(* formed but the second raises in set_subscription.                       *)
SubscribeRaises ==
  /\ Answers("mining.subscribe")
  /\ Raise("warned") \/ Raise("crashed")
  /\ UNCHANGED <<jobVars, main, subscriptionVars, job, accepted>>

(* A worker name that is empty counts as none. *)
Unnamed == worker_name = None \/ EmptyUsername

(* Mutant of Authorized: the worker is named by the request, not by its    *)
(* first parameter.                                                        *)
AuthorizedByRequest ==
  /\ Answers("mining.authorize")
  /\ Unnamed
  /\ worker_name' = handling.request.body
  /\ Return
  /\ UNCHANGED <<jobVars, main, sub_id, sub_target, job, accepted>>

(* The reply to mining.authorize. *)
Authorized ==
  /\ Answers("mining.authorize")
  /\ Unnamed
  /\ worker_name' = Username
  /\ Return
  /\ UNCHANGED <<jobVars, main, sub_id, sub_target, job, accepted>>

Refused ==
  /\ Answers("mining.authorize")
  /\ Raise("refused")
  /\ UNCHANGED <<jobVars, main, subscriptionVars, job, accepted>>

(* set_worker_name formats its complaint with a name it does not have. *)
AuthorizedAgain ==
  /\ Answers("mining.authorize")
  /\ ~Unnamed
  /\ Raise("crashed")
  /\ UNCHANGED <<jobVars, main, subscriptionVars, job, accepted>>

(* Mutant of ShareAccepted: a reply counts only when the request it finds  *)
(* is registered under its own id.                                         *)
ShareAcceptedByKey ==
  /\ Answers("mining.submit")
  /\ accepted' = IF handling.key = handling.request.id THEN accepted + 1 ELSE accepted
  /\ Return
  /\ UNCHANGED <<jobVars, main, subscriptionVars, job>>

(* The reply to mining.submit. *)
ShareAccepted ==
  /\ Answers("mining.submit")
  /\ accepted' = accepted + 1
  /\ Return
  /\ UNCHANGED <<jobVars, main, subscriptionVars, job>>

ShareRejected ==
  /\ Answers("mining.submit")
  /\ Raise("warned")
  /\ UNCHANGED <<jobVars, main, subscriptionVars, job, accepted>>

Handle ==
  \/ \E j \in Jobs : Notify(j)
  \/ NotifyFails
  \/ \E t \in Targets : SetDifficulty(t)
  \/ BadCall
  \/ \E id \in {None, Subscription} : Subscribed(id)
  \/ SubscribedReturns
  \/ SubscribeRaises
  \/ Authorized
  \/ Refused
  \/ AuthorizedAgain
  \/ ShareAccepted
  \/ ShareRejected

-----------------------------------------------------------------------------
(* The thread of a job: run.                                               *)

MineStep(j) == Mine(j) /\ UNCHANGED <<rpcVars, minerVars>>

(* The worker name is the one the subscription has when the share is found. *)
SubmitShare(j) ==
  /\ at[j] = "yielded"
  /\ Build(j, Submit(j, Cursor(j), worker_name))
  /\ UNCHANGED <<jobVars, minerVars>>

ShareSent(j) ==
  /\ Written(j)
  /\ Resume(j)
  /\ UNCHANGED minerVars

(* The exception of send ends the loop over mine. *)
ShareFails(j) ==
  /\ TransmitFails(j)
  /\ Abandon(j)
  /\ UNCHANGED minerVars

RunJob(j) == MineStep(j) \/ SubmitShare(j) \/ ShareSent(j) \/ ShareFails(j)

-----------------------------------------------------------------------------

Lock(t) == Register(t) /\ UNCHANGED <<jobVars, minerVars>>

Network ==
  /\ \/ \E k \in wire : Receive(k)
     \/ ReceiveCall
     \/ CloseConnection
     \/ LoseReader
  /\ UNCHANGED <<jobVars, minerVars>>

Authorizing == AuthorizeSent \/ AuthorizeFails

Running == main # "exited"

MinerNext ==
  /\ Running
  /\ \/ MainConnect
     \/ MainSubscribe
     \/ MainSent
     \/ MainFails
     \/ Authorizing
     \/ Handle
     \/ \E j \in Jobs : RunJob(j)
     \/ \E t \in Threads : Lock(t)
     \/ Network

MinerSpec == MinerInit /\ [][MinerNext]_vars

(* Every thread of a running process runs; the lock is passed on in the    *)
(* gaps between messages; a handler ends with one of the outcomes its      *)
(* message allows.                                                         *)
MinerFairness ==
  /\ WF_vars(Running /\ (Handle \/ Authorizing))
  /\ WF_vars(Running /\ (MainSent \/ MainFails))
  /\ \A j \in Jobs : WF_vars(Running /\ RunJob(j))
  /\ \A t \in Threads : SF_vars(Running /\ Lock(t))

-----------------------------------------------------------------------------

(* A reply is handled by the branch for the method of the request it       *)
(* answers, although two submissions may carry the same id: requests that  *)
(* collide are always of the same method.                                  *)
MethodAttribution ==
  \A k \in wire :
    requests[requests[k].id].body.method = requests[k].body.method

(* The handshake reaches the server in order: no share before the request  *)
(* for authorization, and that one not before the subscription, unless     *)
(* they were damaged on the way.                                           *)
WrittenBefore(k, method) ==
  \E l \in wire \union Damaged : l < k /\ requests[l].body.method = method

HandshakeOrder ==
  \A k \in wire :
    /\ requests[k].body.method = "mining.authorize"
         => WrittenBefore(k, "mining.subscribe")
    /\ IsSubmit(requests[k]) => WrittenBefore(k, "mining.authorize")

(* Between two messages the count of accepted shares is the number of      *)
(* replies to submissions: each raised it once, whichever of the colliding *)
(* requests was looked up.                                                 *)
Replies == {p \in wire \X (1 .. MaxAnswers) :
              IsSubmit(requests[p[1]]) /\ p[2] <= answers[p[1]]}

AcceptedCounted == reader = "recv" => accepted = Cardinality(Replies)

(* "Stops any previous job and begins a new job": every job but the one   *)
(* the miner holds has been asked to stop, and that one has not, unless    *)
(* its successor could not be made, which ends the reader.                 *)
OneCurrentJob ==
  \A j \in Jobs : at[j] # "unborn" =>
    /\ j # job => done[j]
    /\ j = job /\ reader \in {"recv", "handling"} => ~done[j]

(* "on all *future* work": the target of a job that exists never changes.  *)
FutureWorkOnly ==
  [][\A j \in Jobs : at[j] # "unborn" => target'[j] = target[j]]_vars

(* A share that was found is submitted, unless the connection was closed. *)
SharesDelivered ==
  \A j \in Jobs :
    at[j] = "yielded" ~> \/ at[j] # "yielded"
                         \/ main = "exited"

(* What the pool sees of the miner, as WorkShares. *)
Superseded == {j \in Jobs : done[j] /\ at[j] \in {"hash", "yielded"}}

SharesOnWire ==
  {<<requests[k].body.job, requests[k].body.share>> :
     k \in {l \in wire : IsSubmit(requests[l])}}

Positions == UNION {Lane(j) : j \in Jobs}

Pool == INSTANCE WorkShares WITH
  Units <- Jobs,
  Shares <- Positions,
  NoWork <- None,
  current <- IF job # None /\ done[job] THEN None ELSE job,
  known <- {j \in Jobs : at[j] # "unborn"},
  grace <- Superseded,
  received <- SharesOnWire

PoolView == Pool!WorkSpec

(* A RequestReplyWarning "inform[s] the user of JSON-RPC server issues":   *)
(* it does not end the reception of messages.                              *)
ReaderSurvivesWarning == reader # "warned"

(* "if we failed to authorize, quit": nothing is sent after the refusal. *)
QuitOnRefusal == [][reader = "refused" => wire' = wire]_vars

(* Every supported algorithm mines: no job thread ends with an exception   *)
(* before its first attempt.                                               *)
JobsBegin == \A j \in Jobs : at[j] # "failed"

=============================================================================
