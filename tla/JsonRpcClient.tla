--------------------------- MODULE JsonRpcClient ---------------------------
(***************************************************************************)
(* SimpleJsonRpcClient of pyminer.py: one reader thread that hands every   *)
(* message of the server to handle_reply, and any number of threads that   *)
(* call send.  A send reads the message id before it takes the lock, and   *)
(* registers the request, counts the id up and writes to the socket under  *)
(* the lock.  The lock is a threading.RLock: the reader holds it while it  *)
(* handles a message and may send from there.                              *)
(*                                                                         *)
(* The server and the network are external: the connection may close at    *)
(* any time, what is written after that is lost or fails, and a request    *)
(* the server received is answered at most MaxAnswers times, in any order. *)
(* It reads lines: a write that socket.send cuts short leaves it inside a  *)
(* line, which the next write completes to one that it cannot read.        *)
(***************************************************************************)
EXTENDS Naturals, FiniteSets

CONSTANTS
  Threads,      \* every thread that calls send, the reader among them
  Reader,       \* the thread that runs _handle_incoming_rpc
  Bodies,       \* method and params of a request
  NoOne,        \* the owner of a free lock
  NoRequest,    \* no request: None in the code
  MaxAnswers,   \* bound on the replies the server makes to one request
  MaxCuts       \* bound on the writes that socket.send cuts short

ASSUME RpcAssumption ==
  /\ Reader \in Threads
  /\ NoOne \notin Threads
  /\ MaxAnswers \in Nat
  /\ MaxCuts \in Nat

VARIABLES
  message_id,   \* self._message_id
  requests,     \* self._requests: the request registered under each id
  draft,        \* the request each thread has built and not yet sent
  pc,           \* where each thread is in send
  lock,         \* owner of self._lock
  conn,         \* self._socket
  wire,         \* ids whose request reached the server
  cut,          \* ids whose request was written in part
  pending,      \* what the server has of a line that has not ended
  answers,      \* how often the server has answered each request
  reader,       \* the state of the reader thread
  handling      \* the message the reader handles

wireVars == <<wire, cut, pending>>

rpcVars == <<message_id, requests, draft, pc, lock, conn, wireVars, answers,
             reader, handling>>

(* A request remembers, for the properties, which thread built it. *)
Request == [id : Nat \ {0}, by : Threads, body : Bodies]

(* A message being handled: the registered id of the request it answers    *)
(* (0 for a call of the server), and the request that _requests yields.    *)
Message == [key : Nat, request : Request \union {NoRequest}]
NoMessage == [key |-> 0, request |-> NoRequest]

(* A RequestReplyWarning ends the reader too: the handler that reports it  *)
(* concatenates a string and the reply, a dict, and the TypeError leaves   *)
(* the thread.  "warned" is that end, "refused" an exception of the        *)
(* subclass that is no warning, "crashed" any other, "lost" a socket.error *)
(* of recv.                                                                *)
Deaths == {"warned", "refused", "crashed"}

-----------------------------------------------------------------------------

RpcTypeOK ==
  /\ message_id \in Nat \ {0}
  /\ DOMAIN requests = 1 .. message_id - 1
  /\ \A k \in DOMAIN requests : requests[k] \in Request
  /\ draft \in [Threads -> Request \union {NoRequest}]
  /\ pc \in [Threads -> {"out", "built", "locked"}]
  /\ lock \in Threads \union {NoOne}
  /\ conn \in {"none", "up", "closed"}
  /\ wire \subseteq DOMAIN requests
  /\ cut \subseteq DOMAIN requests
  /\ pending \in {"nothing", "part"}
  /\ answers \in [DOMAIN requests -> 0 .. MaxAnswers]
  /\ reader \in {"off", "recv", "handling", "lost"} \union Deaths
  /\ handling \in Message

RpcInit ==
  /\ message_id = 1
  /\ requests = [k \in {} |-> NoRequest]
  /\ draft = [t \in Threads |-> NoRequest]
  /\ pc = [t \in Threads |-> "out"]
  /\ lock = NoOne
  /\ conn = "none"
  /\ wire = {} /\ cut = {} /\ pending = "nothing"
  /\ answers = [k \in {} |-> 0]
  /\ reader = "off"
  /\ handling = NoMessage

(* connect: a socket is stored once and the reader thread starts. *)
Connect ==
  /\ reader = "off"
  /\ conn' = "up"
  /\ reader' = "recv"
  /\ UNCHANGED <<message_id, requests, draft, pc, lock, wireVars, answers, handling>>

(* Mutants of Build: ids counted from one ahead, from one behind, and from *)
(* what was written rather than from what was registered.                  *)
BuildAs(t, body, n) ==
  /\ conn # "none"
  /\ pc[t] = "out"
  /\ t = Reader => reader = "handling"
  /\ draft' = [draft EXCEPT ![t] = [id |-> n, by |-> t, body |-> body]]
  /\ pc' = [pc EXCEPT ![t] = "built"]
  /\ UNCHANGED <<message_id, requests, lock, conn, wireVars, answers, reader, handling>>
BuildNextId(t, body) == BuildAs(t, body, message_id + 1)
BuildLastId(t, body) == BuildAs(t, body, IF message_id > 1 THEN message_id - 1 ELSE 1)
BuildSentId(t, body) == BuildAs(t, body, Cardinality(wire) + 1)

(* The first lines of send, outside the lock: the request takes the value  *)
(* _message_id has now.                                                    *)
Build(t, body) ==
  /\ conn # "none"
  /\ pc[t] = "out"
  /\ t = Reader => reader = "handling"
  /\ draft' = [draft EXCEPT ![t] = [id |-> message_id, by |-> t, body |-> body]]
  /\ pc' = [pc EXCEPT ![t] = "built"]
  /\ UNCHANGED <<message_id, requests, lock, conn, wireVars, answers, reader, handling>>

MayLock(t) == lock = NoOne \/ lock = t

(* Mutant of Register: the request is stored under the id it was built     *)
(* with.                                                                   *)
RegisterBuiltId(t) ==
  /\ pc[t] = "built"
  /\ MayLock(t)
  /\ lock' = t
  /\ requests' = [k \in DOMAIN requests \union {draft[t].id} |->
                    IF k = draft[t].id THEN draft[t] ELSE requests[k]]
  /\ answers' = [k \in DOMAIN answers \union {draft[t].id} |->
                    IF k = draft[t].id THEN 0 ELSE answers[k]]
  /\ message_id' = message_id + 1
  /\ pc' = [pc EXCEPT ![t] = "locked"]
  /\ UNCHANGED <<draft, conn, wireVars, reader, handling>>

(* Mutant of Register: the with block ends before the write. *)
RegisterReleased(t) ==
  /\ pc[t] = "built"
  /\ MayLock(t)
  /\ requests' = [k \in DOMAIN requests \union {message_id} |->
                    IF k = message_id THEN draft[t] ELSE requests[k]]
  /\ answers' = [k \in DOMAIN answers \union {message_id} |->
                    IF k = message_id THEN 0 ELSE answers[k]]
  /\ message_id' = message_id + 1
  /\ pc' = [pc EXCEPT ![t] = "locked"]
  /\ UNCHANGED <<draft, lock, conn, wireVars, reader, handling>>

(* The critical section up to the socket: the request is stored under the  *)
(* value _message_id has by now.                                           *)
Register(t) ==
  /\ pc[t] = "built"
  /\ MayLock(t)
  /\ lock' = t
  /\ requests' = [k \in DOMAIN requests \union {message_id} |->
                    IF k = message_id THEN draft[t] ELSE requests[k]]
  /\ answers' = [k \in DOMAIN answers \union {message_id} |->
                    IF k = message_id THEN 0 ELSE answers[k]]
  /\ message_id' = message_id + 1
  /\ pc' = [pc EXCEPT ![t] = "locked"]
  /\ UNCHANGED <<draft, conn, wireVars, reader, handling>>

(* Leaving the with block: only the reader, inside handle_reply, still     *)
(* holds the lock afterwards.                                              *)
LeaveSend(t) ==
  /\ pc[t] = "locked"
  /\ pc' = [pc EXCEPT ![t] = "out"]
  /\ draft' = [draft EXCEPT ![t] = NoRequest]

(* Mutant of Transmit: the key is read after it was counted up. *)
TransmitNextKey(t) ==
  /\ LeaveSend(t)
  /\ lock' = IF t = Reader THEN Reader ELSE NoOne
  /\ wire' = IF conn = "up" /\ pending = "nothing" THEN wire \union {message_id} ELSE wire
  /\ pending' = "nothing"
  /\ UNCHANGED <<message_id, requests, conn, cut, answers, reader, handling>>

(* socket.send returns; what is written to a closed connection is lost,    *)
(* and so is what completes a line that was cut.                           *)
Transmit(t) ==
  /\ LeaveSend(t)
  /\ lock' = IF t = Reader THEN Reader ELSE NoOne
  /\ wire' = IF conn = "up" /\ pending = "nothing" THEN wire \union {message_id - 1} ELSE wire
  /\ pending' = "nothing"
  /\ UNCHANGED <<message_id, requests, conn, cut, answers, reader, handling>>

(* socket.send returns and has written a part; its result is not looked at. *)
TransmitPart(t) ==
  /\ conn = "up"
  /\ Cardinality(cut) < MaxCuts
  /\ LeaveSend(t)
  /\ lock' = IF t = Reader THEN Reader ELSE NoOne
  /\ cut' = cut \union {message_id - 1}
  /\ pending' = "part"
  /\ UNCHANGED <<message_id, requests, conn, wire, answers, reader, handling>>

(* Mutant of TransmitFails: acquire and release without a with block. *)
TransmitFailsLocked(t) ==
  /\ conn = "closed"
  /\ LeaveSend(t)
  /\ reader' = IF t = Reader THEN "crashed" ELSE reader
  /\ handling' = IF t = Reader THEN NoMessage ELSE handling
  /\ UNCHANGED <<message_id, requests, lock, conn, wireVars, answers>>

(* socket.send raises: the lock is released on the way out, and in the     *)
(* reader the exception leaves handle_reply and ends the thread.           *)
TransmitFails(t) ==
  /\ conn = "closed"
  /\ LeaveSend(t)
  /\ lock' = NoOne
  /\ reader' = IF t = Reader THEN "crashed" ELSE reader
  /\ handling' = IF t = Reader THEN NoMessage ELSE handling
  /\ UNCHANGED <<message_id, requests, conn, wireVars, answers>>

(* Mutant of Receive: handle_reply is called outside the with block. *)
ReceiveUnlocked(k) ==
  /\ reader = "recv"
  /\ k \in wire
  /\ answers[k] < MaxAnswers
  /\ answers' = [answers EXCEPT ![k] = @ + 1]
  /\ reader' = "handling"
  /\ handling' = [key |-> k, request |-> requests[requests[k].id]]
  /\ UNCHANGED <<message_id, requests, draft, pc, lock, conn, wireVars>>

(* The reader takes the lock for a reply to request k and looks up the     *)
(* registered request that bears the id k was sent with.                   *)
Receive(k) ==
  /\ reader = "recv"
  /\ MayLock(Reader)
  /\ k \in wire
  /\ answers[k] < MaxAnswers
  /\ lock' = Reader
  /\ answers' = [answers EXCEPT ![k] = @ + 1]
  /\ reader' = "handling"
  /\ handling' = [key |-> k, request |-> requests[requests[k].id]]
  /\ UNCHANGED <<message_id, requests, draft, pc, conn, wireVars>>

(* A message that answers nothing: a call of the server, or a stray reply. *)
ReceiveCall ==
  /\ reader = "recv"
  /\ conn # "none"
  /\ MayLock(Reader)
  /\ lock' = Reader
  /\ reader' = "handling"
  /\ handling' = NoMessage
  /\ UNCHANGED <<message_id, requests, draft, pc, conn, wireVars, answers>>

(* Mutant of EndHandling: an exception leaves the lock taken. *)
EndHandlingLocked(state) ==
  /\ reader = "handling"
  /\ pc[Reader] = "out"
  /\ reader' = state
  /\ lock' = IF state = "recv" THEN NoOne ELSE lock
  /\ handling' = NoMessage
  /\ UNCHANGED <<message_id, requests, draft, pc, conn, wireVars, answers>>

(* The end of handle_reply, at which the with block releases the lock. *)
EndHandling(state) ==
  /\ reader = "handling"
  /\ pc[Reader] = "out"
  /\ reader' = state
  /\ lock' = NoOne
  /\ handling' = NoMessage
  /\ UNCHANGED <<message_id, requests, draft, pc, conn, wireVars, answers>>

(* handle_reply returns and the reader goes back to recv. *)
Return == EndHandling("recv")

(* handle_reply raises: every exception ends the reader, see Deaths. *)
Raise(why) == EndHandling(why)

(* The network: the connection closes; a recv may then raise.  A recv that *)
(* returns an empty chunk instead leaves the reader looping in "recv".     *)
CloseConnection ==
  /\ conn = "up"
  /\ conn' = "closed"
  /\ pending' = "nothing"
  /\ UNCHANGED <<message_id, requests, draft, pc, lock, wire, cut, answers, reader, handling>>

LoseReader ==
  /\ conn = "closed"
  /\ reader = "recv"
  /\ reader' = "lost"
  /\ UNCHANGED <<message_id, requests, draft, pc, lock, conn, wireVars, answers, handling>>

-----------------------------------------------------------------------------

Written(t) == Transmit(t) \/ TransmitPart(t)

EndSend(t) == Written(t) \/ TransmitFails(t)

EndMessage == Return \/ \E why \in Deaths : Raise(why)

RpcNext ==
  \/ Connect
  \/ \E t \in Threads, body \in Bodies : Build(t, body)
  \/ \E t \in Threads : Register(t)
  \/ \E t \in Threads : EndSend(t)
  \/ \E k \in wire : Receive(k)
  \/ ReceiveCall
  \/ EndMessage
  \/ CloseConnection
  \/ LoseReader

RpcSpec == RpcInit /\ [][RpcNext]_rpcVars

(* A blocked socket.send ends when the server drains its buffer, and a     *)
(* thread waiting for the lock gets it in the gaps between two messages.   *)
RpcFairness ==
  /\ \A t \in Threads : SF_rpcVars(Register(t)) /\ WF_rpcVars(EndSend(t))
  /\ WF_rpcVars(EndMessage)

-----------------------------------------------------------------------------

(* The lock protects what its owner does: a thread inside the with block   *)
(* of send owns the lock, and so does the reader while it handles a        *)
(* message.  handle_reply and another thread's critical section therefore  *)
(* never overlap (the docstring's "calls to handle_reply are               *)
(* synchronized"), and nobody else is left owning the lock.                *)
LockDiscipline ==
  /\ \A t \in Threads : pc[t] = "locked" => lock = t
  /\ reader = "handling" <=> lock = Reader
  /\ lock \notin {NoOne, Reader} => pc[lock] = "locked"

(* A reply to any request that reached the server finds some registered    *)
(* request under the id it was sent with, although that id was read before *)
(* the lock was taken: lookups in handle_reply never miss.                 *)
RepliesFindRequest ==
  \A k \in wire : requests[k].id \in DOMAIN requests

(* A thread never sends two requests with the same id; only requests of    *)
(* different threads can collide.                                          *)
CollisionsAcrossThreads ==
  \A k, l \in DOMAIN requests :
    k # l /\ requests[k].id = requests[l].id => requests[k].by # requests[l].by

(* A write that is cut short costs its own request and the one whose line  *)
(* runs into it, and no other: on an open connection the server has        *)
(* received exactly the rest, but for the request being written (the write *)
(* of send, whose result nothing looks at).  The requests are written in   *)
(* the order of their keys, whichever threads send them.                   *)
Damaged == {k \in DOMAIN requests : k \in cut \/ k - 1 \in cut}

InWrite == IF \E t \in Threads : pc[t] = "locked" THEN {message_id - 1} ELSE {}

DamageContained ==
  conn = "up" => wire = DOMAIN requests \ (Damaged \union InWrite)

(* A registered request is never replaced: two sends that built the same   *)
(* id still store their requests under different keys.                     *)
NeverOverwritten ==
  [][\A k \in DOMAIN requests :
       k \in DOMAIN requests' /\ requests'[k] = requests[k]]_rpcVars

(* A thread that has entered send leaves it again: the lock is not leaked  *)
(* by a failed write or by a handler that raised while it held the lock.   *)
SendsEnd == \A t \in Threads : pc[t] = "built" ~> pc[t] = "out"

(* handle_reply's "This is a reply to...": the request the reader looks up *)
(* is the one the server answered.                                         *)
ReplyAttribution ==
  handling.key # 0 => handling.request = requests[handling.key]

=============================================================================
