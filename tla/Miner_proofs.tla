---------------------------- MODULE Miner_proofs ----------------------------
(***************************************************************************)
(* Proofs about the JSON-RPC client, for any set of threads, any requests  *)
(* and any number of them, and then about the miner that is made of it and *)
(* of the jobs, for any number of jobs, any range of nonces and targets,   *)
(* any number of replies to a request and of writes cut short.  The        *)
(* invariants of the client and of the jobs carry over to the composition; *)
(* what is added says who may send what, and when.                         *)
(***************************************************************************)
EXTENDS Miner, Job_proofs, FiniteSetTheorems

-----------------------------------------------------------------------------
(* The client, by itself.                                                  *)

(* The reader sends only while it handles a message, and a thread in send  *)
(* has a request of its own whose id is not newer than the next one and    *)
(* newer than that of every request it registered before.                  *)
SendInv ==
  /\ pc[Reader] # "out" => reader = "handling"
  /\ \A t \in Threads :
       /\ pc[t] # "out" => draft[t] \in Request /\ draft[t].by = t
       /\ pc[t] = "built" =>
            /\ draft[t].id <= message_id
            /\ \A k \in DOMAIN requests :
                 requests[k].by = t => requests[k].id < draft[t].id
       /\ pc[t] = "locked" => message_id > 1

(* An id is read before the key is: it is never newer than the key. *)
IdsNotNewer == \A k \in DOMAIN requests : requests[k].id <= k

RpcInv ==
  /\ RpcTypeOK
  /\ LockDiscipline
  /\ SendInv
  /\ IdsNotNewer
  /\ CollisionsAcrossThreads

-----------------------------------------------------------------------------

(* The invariant holds before the client is connected. *)
LEMMA RpcInvInit == RpcInit => RpcInv
<1> SUFFICES ASSUME RpcInit PROVE RpcInv
  OBVIOUS
<1> USE RpcAssumption DEF RpcInit
<1>1. RpcTypeOK
  BY DEF RpcTypeOK, Message, NoMessage
<1>2. LockDiscipline
  BY DEF LockDiscipline
<1>3. SendInv
  BY DEF SendInv
<1>4. IdsNotNewer /\ CollisionsAcrossThreads
  BY DEF IdsNotNewer, CollisionsAcrossThreads
<1> QED
  BY <1>1, <1>2, <1>3, <1>4 DEF RpcInv

(* The id a registered request was sent with is the key of a request. *)
LEMMA LookupFinds ==
  ASSUME RpcTypeOK, IdsNotNewer, NEW k \in DOMAIN requests
  PROVE  requests[k].id \in DOMAIN requests
BY DEF RpcTypeOK, IdsNotNewer, Request

(* Registering keeps every conjunct: the new key is fresh and not older    *)
(* than the id, and the id differs from the earlier ones of the thread.    *)
LEMMA RegisterKeepsInv ==
  ASSUME RpcInv, NEW t \in Threads, Register(t)
  PROVE  RpcInv'
<1> USE RpcAssumption DEF Register, RpcInv, wireVars
<1>1. /\ message_id \in Nat \ {0}
      /\ DOMAIN requests = 1 .. message_id - 1
      /\ DOMAIN requests' = 1 .. message_id
      /\ draft[t] \in Request
      /\ draft[t].id \in Nat
      /\ draft[t].by = t
      /\ requests'[message_id] = draft[t]
      /\ \A k \in DOMAIN requests : requests'[k] = requests[k]
  BY DEF RpcTypeOK, SendInv, Request
<1>2. RpcTypeOK'
  <2>1. /\ message_id' \in Nat \ {0}
        /\ DOMAIN requests' = 1 .. message_id' - 1
        /\ wire' \subseteq DOMAIN requests'
    BY <1>1 DEF RpcTypeOK
  <2>2. \A k \in DOMAIN requests' : requests'[k] \in Request
    BY <1>1 DEF RpcTypeOK
  <2>3. answers' \in [DOMAIN requests' -> 0 .. MaxAnswers]
    BY <1>1 DEF RpcTypeOK
  <2> QED
    BY <2>1, <2>2, <2>3 DEF RpcTypeOK
<1>3. LockDiscipline'
  BY DEF LockDiscipline, MayLock, RpcTypeOK, SendInv
<1>4. SendInv'
  <2>1. pc'[Reader] # "out" => reader' = "handling"
    BY DEF SendInv, RpcTypeOK
  <2>2. ASSUME NEW u \in Threads
        PROVE  /\ pc'[u] # "out" => draft'[u] \in Request /\ draft'[u].by = u
               /\ pc'[u] = "locked" => message_id' > 1
    BY <1>1 DEF SendInv, RpcTypeOK
  <2>3. ASSUME NEW u \in Threads, pc'[u] = "built"
        PROVE  /\ draft'[u].id <= message_id'
               /\ \A k \in DOMAIN requests' :
                    requests'[k].by = u => requests'[k].id < draft'[u].id
    <3>1. u # t /\ pc[u] = "built" /\ draft[u].id \in Nat /\ draft'[u] = draft[u]
      BY <2>3 DEF SendInv, RpcTypeOK, Request
    <3> QED
      BY <1>1, <3>1 DEF SendInv
  <2> QED
    BY <2>1, <2>2, <2>3 DEF SendInv
<1>5. IdsNotNewer'
  BY <1>1 DEF IdsNotNewer, SendInv
<1>6. CollisionsAcrossThreads'
  <2>1. ASSUME NEW k \in DOMAIN requests, requests[k].by = t
        PROVE  requests[k].id # draft[t].id
    BY <1>1, <2>1 DEF SendInv, RpcTypeOK, Request
  <2> QED
    BY <1>1, <2>1 DEF CollisionsAcrossThreads
<1> QED
  BY <1>2, <1>3, <1>4, <1>5, <1>6

(* Every step keeps the invariant. *)
LEMMA RpcInvNext == RpcInv /\ [RpcNext]_rpcVars => RpcInv'
<1> SUFFICES ASSUME RpcInv, [RpcNext]_rpcVars PROVE RpcInv'
  OBVIOUS
<1> USE RpcAssumption DEF RpcInv, wireVars
<1>1. CASE Connect
  <2> USE <1>1 DEF Connect
  <2>1. RpcTypeOK'
    BY DEF RpcTypeOK
  <2>2. LockDiscipline'
    BY DEF LockDiscipline
  <2>3. SendInv' /\ IdsNotNewer' /\ CollisionsAcrossThreads'
    BY DEF SendInv, IdsNotNewer, CollisionsAcrossThreads
  <2> QED
    BY <2>1, <2>2, <2>3
<1>2. ASSUME NEW t \in Threads, NEW body \in Bodies, Build(t, body)
      PROVE  RpcInv'
  <2> USE <1>2 DEF Build
  <2>1. RpcTypeOK'
    BY DEF RpcTypeOK, Request
  <2>2. LockDiscipline'
    BY DEF LockDiscipline, RpcTypeOK
  <2>3. SendInv'
    <3>1. draft'[t] = [id |-> message_id, by |-> t, body |-> body] /\ pc'[t] = "built"
      BY DEF RpcTypeOK
    <3>2. \A k \in DOMAIN requests : requests[k].id < message_id
      BY DEF RpcTypeOK, IdsNotNewer, Request
    <3> QED
      BY <3>1, <3>2 DEF SendInv, RpcTypeOK, Request
  <2>4. IdsNotNewer' /\ CollisionsAcrossThreads'
    BY DEF IdsNotNewer, CollisionsAcrossThreads
  <2> QED
    BY <2>1, <2>2, <2>3, <2>4
<1>3. ASSUME NEW t \in Threads, Register(t)
      PROVE  RpcInv'
  BY <1>3, RegisterKeepsInv
<1>4. ASSUME NEW t \in Threads, Written(t)
      PROVE  RpcInv'
  <2> USE <1>4 DEF Written, Transmit, TransmitPart, LeaveSend
  <2>1. RpcTypeOK'
    <3>1. message_id - 1 \in DOMAIN requests
      BY DEF RpcTypeOK, SendInv
    <3>2. wire' \subseteq DOMAIN requests /\ cut' \subseteq DOMAIN requests
      BY <3>1 DEF RpcTypeOK
    <3>3. pending' \in {"nothing", "part"}
      OBVIOUS
    <3>4. UNCHANGED <<message_id, requests, conn, answers, reader, handling>>
      OBVIOUS
    <3>5. /\ draft' \in [Threads -> Request \union {NoRequest}]
          /\ pc' \in [Threads -> {"out", "built", "locked"}]
          /\ lock' \in Threads \union {NoOne}
      BY DEF RpcTypeOK
    <3> QED
      BY <3>2, <3>3, <3>4, <3>5 DEF RpcTypeOK
  <2>2. LockDiscipline'
    BY DEF LockDiscipline, RpcTypeOK
  <2>3. SendInv'
    <3>1. /\ pc' = [pc EXCEPT ![t] = "out"] /\ draft' = [draft EXCEPT ![t] = NoRequest]
          /\ UNCHANGED <<message_id, requests, reader>>
      OBVIOUS
    <3>2. DOMAIN pc = Threads /\ DOMAIN draft = Threads
      BY DEF RpcTypeOK
    <3>3. \A q \in Threads :
            pc'[q] # "out" => pc'[q] = pc[q] /\ pc[q] # "out" /\ draft'[q] = draft[q]
      BY <3>1, <3>2
    <3>4. Reader \in Threads
      BY RpcAssumption
    <3> QED
      BY <3>1, <3>3, <3>4 DEF SendInv
  <2>4. IdsNotNewer' /\ CollisionsAcrossThreads'
    BY DEF IdsNotNewer, CollisionsAcrossThreads
  <2> QED
    BY <2>1, <2>2, <2>3, <2>4
<1>5. ASSUME NEW t \in Threads, TransmitFails(t)
      PROVE  RpcInv'
  <2> USE <1>5 DEF TransmitFails, LeaveSend
  <2>1. RpcTypeOK'
    BY DEF RpcTypeOK, Message, NoMessage, Deaths
  <2>2. LockDiscipline'
    BY DEF LockDiscipline, RpcTypeOK
  <2>3. SendInv'
    BY DEF SendInv, RpcTypeOK
  <2>4. IdsNotNewer' /\ CollisionsAcrossThreads'
    BY DEF IdsNotNewer, CollisionsAcrossThreads
  <2> QED
    BY <2>1, <2>2, <2>3, <2>4
<1>6. ASSUME NEW k \in wire, Receive(k)
      PROVE  RpcInv'
  <2> USE <1>6 DEF Receive, MayLock
  <2>1. RpcTypeOK'
    <3>1. k \in DOMAIN requests /\ requests[k].id \in DOMAIN requests
      BY LookupFinds DEF RpcTypeOK
    <3>2. handling' \in Message
      BY <3>1 DEF RpcTypeOK, Message
    <3>3. answers' \in [DOMAIN requests' -> 0 .. MaxAnswers]
      BY <3>1 DEF RpcTypeOK
    <3> QED
      BY <3>2, <3>3 DEF RpcTypeOK
  <2>2. LockDiscipline'
    BY DEF LockDiscipline, RpcTypeOK
  <2>3. SendInv' /\ IdsNotNewer' /\ CollisionsAcrossThreads'
    BY DEF SendInv, IdsNotNewer, CollisionsAcrossThreads
  <2> QED
    BY <2>1, <2>2, <2>3
<1>7. CASE ReceiveCall
  <2> USE <1>7 DEF ReceiveCall, MayLock
  <2>1. RpcTypeOK'
    BY DEF RpcTypeOK, Message, NoMessage
  <2>2. LockDiscipline'
    BY DEF LockDiscipline, RpcTypeOK
  <2>3. SendInv' /\ IdsNotNewer' /\ CollisionsAcrossThreads'
    BY DEF SendInv, IdsNotNewer, CollisionsAcrossThreads
  <2> QED
    BY <2>1, <2>2, <2>3
<1>8. CASE EndMessage
  <2>1. PICK state \in {"recv"} \union Deaths : EndHandling(state)
    BY <1>8 DEF EndMessage, Return, Raise
  <2> USE <2>1 DEF EndHandling, Deaths
  <2>2. RpcTypeOK'
    BY DEF RpcTypeOK, Message, NoMessage
  <2>3. LockDiscipline'
    BY DEF LockDiscipline, RpcTypeOK
  <2>4. SendInv' /\ IdsNotNewer' /\ CollisionsAcrossThreads'
    BY DEF SendInv, IdsNotNewer, CollisionsAcrossThreads
  <2> QED
    BY <2>2, <2>3, <2>4
<1>9. CASE CloseConnection \/ LoseReader
  <2> USE <1>9 DEF CloseConnection, LoseReader
  <2>1. RpcTypeOK'
    BY DEF RpcTypeOK
  <2>2. LockDiscipline'
    BY DEF LockDiscipline
  <2>3. SendInv' /\ IdsNotNewer' /\ CollisionsAcrossThreads'
    BY DEF SendInv, IdsNotNewer, CollisionsAcrossThreads
  <2> QED
    BY <2>1, <2>2, <2>3
<1>10. CASE UNCHANGED rpcVars
  BY <1>10 DEF rpcVars, wireVars, RpcTypeOK, LockDiscipline, SendInv, IdsNotNewer,
               CollisionsAcrossThreads
<1> QED
  BY <1>1, <1>2, <1>3, <1>4, <1>5, <1>6, <1>7, <1>8, <1>9, <1>10
     DEF RpcNext, EndSend

-----------------------------------------------------------------------------

(* The inductive invariant of the client. *)
THEOREM RpcInvariant == RpcSpec => []RpcInv
<1>1. RpcInv /\ [][RpcNext]_rpcVars => []RpcInv
  BY RpcInvNext, PTL
<1> QED
  BY <1>1, RpcInvInit, PTL DEF RpcSpec

(* Type correctness of the client. *)
THEOREM RpcTypeCorrect == RpcSpec => []RpcTypeOK
<1>1. RpcInv => RpcTypeOK
  BY DEF RpcInv
<1> QED
  BY <1>1, RpcInvariant, PTL

(* The lock is owned by the thread in the critical section or by the       *)
(* reader inside handle_reply, and by nobody else.                         *)
THEOREM RpcLockDiscipline == RpcSpec => []LockDiscipline
<1>1. RpcInv => LockDiscipline
  BY DEF RpcInv
<1> QED
  BY <1>1, RpcInvariant, PTL

(* Every reply of the server to a request it received finds a registered   *)
(* request.                                                                *)
THEOREM RpcRepliesFindRequest == RpcSpec => []RepliesFindRequest
<1>1. RpcInv => RepliesFindRequest
  <2> SUFFICES ASSUME RpcInv, NEW k \in wire
               PROVE  requests[k].id \in DOMAIN requests
    BY DEF RepliesFindRequest
  <2>1. k \in DOMAIN requests
    BY DEF RpcInv, RpcTypeOK
  <2> QED
    BY <2>1, LookupFinds DEF RpcInv
<1> QED
  BY <1>1, RpcInvariant, PTL

(* Two requests with the same id come from different threads. *)
THEOREM RpcCollisionsAcrossThreads == RpcSpec => []CollisionsAcrossThreads
<1>1. RpcInv => CollisionsAcrossThreads
  BY DEF RpcInv
<1> QED
  BY <1>1, RpcInvariant, PTL

(* A registered request is never replaced. *)
THEOREM RpcNeverOverwritten == RpcSpec => NeverOverwritten
<1> DEFINE Kept == \A k \in DOMAIN requests :
                     k \in DOMAIN requests' /\ requests'[k] = requests[k]
<1>1. RpcInv /\ [RpcNext]_rpcVars => [Kept]_rpcVars
  <2> SUFFICES ASSUME RpcInv, RpcNext PROVE Kept
    OBVIOUS
  <2>1. CASE \E t \in Threads : Register(t)
    BY <2>1 DEF Register, RpcInv, RpcTypeOK
  <2>2. CASE requests' = requests
    BY <2>2
  <2> QED
    BY <2>1, <2>2
       DEF RpcNext, Connect, Build, EndSend, Written, Transmit, TransmitPart,
           TransmitFails, Receive,
           ReceiveCall, EndMessage, Return, Raise, EndHandling,
           CloseConnection, LoseReader
<1>2. RpcSpec => [][Kept]_rpcVars
  BY <1>1, RpcInvariant, PTL DEF RpcSpec
<1> QED
  BY <1>2 DEF NeverOverwritten

-----------------------------------------------------------------------------
(* What a write that is cut short costs. *)

Writing == \E t \in Threads : pc[t] = "locked"

(* The last request whose write has ended. *)
LastWritten == IF Writing THEN message_id - 2 ELSE message_id - 1

(* DamageContained needs that nothing is written before the client is      *)
(* connected, that the request being written is not cut yet, and that the  *)
(* server is inside a line just when the last write was cut.               *)
WriteInv ==
  /\ reader = "off" <=> conn = "none"
  /\ conn = "none" => /\ message_id = 1 /\ \A t \in Threads : pc[t] = "out"
                      /\ wire = {} /\ cut = {} /\ pending = "nothing"
  /\ cut \intersect InWrite = {}
  /\ conn = "up" => (pending = "part" <=> LastWritten \in cut)
  /\ DamageContained

(* Nothing is written before the client is connected. *)
LEMMA WriteInvInit == RpcInit => WriteInv
BY DEF RpcInit, WriteInv, Writing, InWrite, LastWritten, DamageContained

(* Nobody else writes when a thread may take the lock. *)
LEMMA WriterAlone ==
  ASSUME RpcInv, NEW t \in Threads, pc[t] = "built", MayLock(t)
  PROVE  ~Writing
BY RpcAssumption DEF RpcInv, LockDiscipline, MayLock, Writing

(* Registering moves the request from the draft to the write. *)
LEMMA RegisterKeepsWriteInv ==
  ASSUME RpcInv, WriteInv, NEW t \in Threads, Register(t)
  PROVE  WriteInv'
<1> USE DEF Register, wireVars
<1>1. ~Writing /\ InWrite = {} /\ LastWritten = message_id - 1
  BY WriterAlone DEF Writing, InWrite, LastWritten
<1>2. /\ message_id \in Nat \ {0} /\ message_id' = message_id + 1
      /\ DOMAIN requests = 1 .. message_id - 1
      /\ DOMAIN requests' = 1 .. message_id
      /\ wire \subseteq DOMAIN requests /\ cut \subseteq DOMAIN requests
      /\ UNCHANGED <<wire, cut, pending, conn, reader>>
  BY DEF RpcInv, RpcTypeOK
<1>3. Writing' /\ InWrite' = {message_id} /\ LastWritten' = message_id - 1
  <2>1. pc'[t] = "locked"
    BY DEF RpcInv, RpcTypeOK
  <2> QED
    BY <1>2, <2>1 DEF Writing, InWrite, LastWritten
<1>4. conn # "none"
  BY DEF WriteInv, Writing, RpcInv, SendInv, RpcTypeOK
<1>5. DamageContained'
  BY <1>1, <1>2, <1>3 DEF WriteInv, DamageContained, Damaged
<1> QED
  BY <1>1, <1>2, <1>3, <1>4, <1>5 DEF WriteInv

(* The end of a write: the server has received the request, or has a part  *)
(* of its line, or what it received completes an earlier line.             *)
LEMMA WrittenKeepsWriteInv ==
  ASSUME RpcInv, WriteInv, NEW t \in Threads, Written(t)
  PROVE  WriteInv'
<1> USE DEF Written, Transmit, TransmitPart, LeaveSend
<1>1. /\ pc[t] = "locked" /\ Writing
      /\ InWrite = {message_id - 1} /\ LastWritten = message_id - 2
  BY DEF Writing, InWrite, LastWritten
<1>2. /\ message_id \in Nat /\ message_id > 1
      /\ DOMAIN requests = 1 .. message_id - 1
      /\ wire \subseteq DOMAIN requests /\ cut \subseteq DOMAIN requests
      /\ UNCHANGED <<message_id, requests, conn, reader>>
      /\ conn # "none"
  BY <1>1 DEF RpcInv, RpcTypeOK, SendInv, WriteInv
<1>3. \A u \in Threads : pc'[u] # "locked"
  BY <1>1, RpcAssumption DEF RpcInv, RpcTypeOK, LockDiscipline
<1>4. ~Writing' /\ InWrite' = {} /\ LastWritten' = message_id - 1
  BY <1>2, <1>3 DEF Writing, InWrite, LastWritten
<1>5. message_id - 1 \notin cut /\ message_id - 1 \in DOMAIN requests
  BY <1>1, <1>2 DEF WriteInv
<1>6. CASE Transmit(t)
  <2>1. cut' = cut /\ pending' = "nothing"
    BY <1>6
  <2>2. DamageContained'
    <3> SUFFICES ASSUME conn = "up"
                 PROVE  wire' = DOMAIN requests \ {k \in DOMAIN requests :
                                                     k \in cut \/ k - 1 \in cut}
      BY <1>2, <1>4, <2>1 DEF DamageContained, Damaged
    <3>1. wire = DOMAIN requests \ ({k \in DOMAIN requests :
                                       k \in cut \/ k - 1 \in cut} \union {message_id - 1})
      BY <1>1 DEF WriteInv, DamageContained, Damaged
    <3>2. pending = "nothing" <=> message_id - 2 \notin cut
      BY <1>1 DEF WriteInv, RpcInv, RpcTypeOK
    <3>3. wire' = IF message_id - 2 \notin cut THEN wire \union {message_id - 1} ELSE wire
      BY <1>6, <3>2
    <3> QED
      BY <1>2, <1>5, <3>1, <3>3
  <2> QED
    BY <1>2, <1>4, <1>5, <2>1, <2>2 DEF WriteInv
<1>7. CASE TransmitPart(t)
  <2>1. cut' = cut \union {message_id - 1} /\ pending' = "part" /\ wire' = wire
    BY <1>7
  <2>2. DamageContained'
    BY <1>1, <1>2, <1>4, <1>5, <2>1 DEF WriteInv, DamageContained, Damaged
  <2> QED
    BY <1>2, <1>4, <2>1, <2>2 DEF WriteInv
<1> QED
  BY <1>6, <1>7

(* Every step keeps it. *)
LEMMA WriteInvNext == RpcInv /\ WriteInv /\ [RpcNext]_rpcVars => WriteInv'
<1> SUFFICES ASSUME RpcInv, WriteInv, [RpcNext]_rpcVars PROVE WriteInv'
  OBVIOUS
<1> USE RpcAssumption DEF wireVars
<1>1. CASE Connect
  BY <1>1 DEF Connect, WriteInv, Writing, InWrite, LastWritten, Damaged, DamageContained,
              RpcInv, RpcTypeOK
<1>2. ASSUME NEW t \in Threads, Register(t) PROVE WriteInv'
  BY <1>2, RegisterKeepsWriteInv
<1>3. ASSUME NEW t \in Threads, Written(t) PROVE WriteInv'
  BY <1>3, WrittenKeepsWriteInv
<1>4. ASSUME NEW t \in Threads, TransmitFails(t) PROVE WriteInv'
  <2> USE <1>4 DEF TransmitFails, LeaveSend
  <2>1. \A u \in Threads : pc'[u] # "locked"
    BY DEF RpcInv, RpcTypeOK, LockDiscipline
  <2>2. InWrite' = {} /\ conn' = "closed" /\ reader' # "off"
    BY <2>1 DEF InWrite, WriteInv
  <2> QED
    BY <2>2 DEF WriteInv, DamageContained
<1>5. ASSUME NEW t \in Threads, NEW body \in Bodies, Build(t, body) PROVE WriteInv'
  <2> USE <1>5 DEF Build
  <2>1. Writing' <=> Writing
    BY DEF Writing, RpcInv, RpcTypeOK
  <2>2. InWrite' = InWrite /\ LastWritten' = LastWritten
    BY <2>1 DEF Writing, InWrite, LastWritten
  <2>3. DamageContained'
    BY <2>2 DEF WriteInv, DamageContained, Damaged
  <2> QED
    BY <2>2, <2>3 DEF WriteInv
<1>6. ASSUME /\ UNCHANGED <<message_id, requests, pc, wire, cut>>
             /\ \/ conn' = conn /\ pending' = pending
                \/ conn' = "closed"
             /\ (reader' = "off" <=> reader = "off") /\ (conn' = "none" <=> conn = "none")
      PROVE  WriteInv'
  BY <1>6 DEF WriteInv, Writing, InWrite, LastWritten, DamageContained, Damaged
<1>7. CASE (\E k \in wire : Receive(k)) \/ ReceiveCall
  BY <1>6, <1>7 DEF Receive, ReceiveCall
<1>8. CASE EndMessage
  BY <1>6, <1>8 DEF EndMessage, Return, Raise, EndHandling, Deaths
<1>9. CASE CloseConnection \/ LoseReader
  BY <1>6, <1>9 DEF CloseConnection, LoseReader
<1>10. CASE UNCHANGED rpcVars
  BY <1>6, <1>10 DEF rpcVars
<1> QED
  BY <1>1, <1>2, <1>3, <1>4, <1>5, <1>7, <1>8, <1>9, <1>10 DEF RpcNext, EndSend

(* A write that is cut short costs its own request and the next one, and   *)
(* no other, for any number of threads and of such writes.                 *)
THEOREM RpcDamageContained == RpcSpec => []DamageContained
<1>1. RpcInv /\ WriteInv /\ [RpcNext]_rpcVars => WriteInv'
  BY WriteInvNext
<1>2. RpcSpec => []WriteInv
  BY <1>1, WriteInvInit, RpcInvariant, PTL DEF RpcSpec
<1>3. WriteInv => DamageContained
  BY DEF WriteInv
<1> QED
  BY <1>2, <1>3, PTL

-----------------------------------------------------------------------------
(* The miner: the client and the jobs together.                            *)

AnyJob == \E j \in Jobs : at[j] # "unborn"

BodyBy(t) == {r \in DOMAIN requests : requests[r].by = t}

(* The handshake is made by one thread after the other, each alone with    *)
(* the client: the main thread subscribes under the first id, the reader   *)
(* authorizes, and jobs send only when both have done so.                  *)
SenderInv ==
  /\ main \in {"start", "connected"} => message_id = 1 /\ pc[Main] = "out"
  /\ pc[Main] = "built" => message_id = 1
  /\ message_id = 1 =>
       /\ \A t \in Threads \ {Main} : pc[t] = "out"
       /\ sub_id = None
       /\ handling = NoMessage
  /\ pc[Reader] # "out" => authorizing
  /\ authorizing => reader = "handling" /\ ~AnyJob
  /\ pc[Reader] = "built" =>
       /\ draft[Reader].id = message_id
       /\ \A t \in Threads \ {Reader} : pc[t] = "out"
  /\ AnyJob => sub_id # None
  /\ sub_id # None => pc[Reader] = "built" \/ BodyBy(Reader) # {}
  /\ \A j \in Jobs : pc[j] # "out" => at[j] = "yielded"

(* What each thread sends, and that the last request is the one in a write. *)
BodyInv ==
  /\ pc[Main] # "out" => draft[Main].body = Subscribe
  /\ pc[Reader] # "out" => draft[Reader].body = Authorize
  /\ \A j \in Jobs : pc[j] # "out" =>
       \E w \in {None, Username} : draft[j].body = Submit(j, Cursor(j), w)
  /\ \A t \in Threads : pc[t] = "locked" => requests[message_id - 1] = draft[t]
  /\ \A k \in DOMAIN requests :
       /\ requests[k].by = Main => requests[k].body = Subscribe
       /\ requests[k].by = Reader => requests[k].body = Authorize
       /\ \A j \in Jobs : requests[k].by = j =>
            \E s \in tried[j], w \in {None, Username} :
              requests[k].body = Submit(j, s, w)

(* Only the ids of submissions are older than their keys, and what was     *)
(* registered in between is a submission too.                              *)
KeyInv ==
  /\ \A k \in DOMAIN requests :
       IF requests[k].by \in Jobs THEN requests[requests[k].id].by \in Jobs
                                  ELSE requests[k].id = k
  /\ \A j \in Jobs :
       pc[j] = "built" /\ draft[j].id \in DOMAIN requests
         => requests[draft[j].id].by \in Jobs

(* The message the reader handles is a reply to a request the server has.  *)
HandlingInv ==
  handling # NoMessage =>
    /\ reader = "handling"
    /\ handling.key \in wire
    /\ handling.request = requests[requests[handling.key].id]

(* The handshake is registered in order. *)
HandshakeInv ==
  /\ pc[Reader] = "built" => \E l \in wire : requests[l].by = Main
  /\ \A k \in DOMAIN requests :
       /\ requests[k].by = Reader => \E l \in wire : l < k /\ requests[l].by = Main
       /\ requests[k].by \in Jobs =>
            \E l \in DOMAIN requests : l < k /\ requests[l].by = Reader

(* The requests before one the server has were received or damaged. *)
WireInv ==
  \A k \in wire : \A l \in DOMAIN requests : l < k => l \in wire \union Damaged

(* OneCurrentJob, and that only jobs are stopped. *)
CurrentInv ==
  /\ OneCurrentJob
  /\ \A j \in Jobs : done[j] => at[j] # "unborn"
  /\ job # None => at[job] # "unborn"

(* A share is sent once. *)
ShareInv ==
  \A k \in DOMAIN requests : \A j \in Jobs :
    requests[k].by = j /\ at[j] = "yielded" /\ requests[k].body.share = Cursor(j)
      => pc[j] = "locked" /\ k = message_id - 1

(* AcceptedCounted, and that the reply being handled is the only one not   *)
(* yet counted.                                                            *)
CountInv ==
  /\ \A k \in DOMAIN requests \ wire : answers[k] = 0
  /\ reader \in {"off", "recv", "handling"} =>
       Cardinality(Replies) =
         IF handling.key # 0 /\ IsSubmit(requests[handling.key])
         THEN accepted + 1 ELSE accepted

MinerInv ==
  /\ MinerTypeOK
  /\ RpcInv
  /\ WriteInv
  /\ JobInv
  /\ SenderInv
  /\ BodyInv
  /\ KeyInv
  /\ HandlingInv
  /\ HandshakeInv
  /\ WireInv
  /\ CurrentInv
  /\ ShareInv
  /\ CountInv

-----------------------------------------------------------------------------
(* Steps, by what they do to the client and to the jobs.                   *)

(* A handler that ends and concerns no job. *)
QuietEnd ==
  /\ \E state \in {"recv"} \union Deaths : EndHandling(state)
  /\ ~authorizing'
  /\ UNCHANGED <<jobVars, main, sub_id, job>>

(* A write of thread t ends. *)
Wrote(t) ==
  /\ Written(t)
  /\ UNCHANGED minerVars
  /\ IF t \in Jobs THEN Resume(t) ELSE UNCHANGED jobVars

WriteFailed(t) ==
  /\ TransmitFails(t)
  /\ main' = main \/ (t = Main /\ main' = "exited")
  /\ IF t = Reader THEN ~authorizing' ELSE authorizing' = authorizing
  /\ UNCHANGED <<subscriptionVars, job, accepted>>
  /\ IF t \in Jobs THEN Abandon(t) ELSE UNCHANGED jobVars

(* handle_reply hands over to a new job, answers the subscription, or ends *)
(* quietly.                                                                *)
LEMMA HandlerShapes ==
  ASSUME Handle
  PROVE  \/ \E id \in {None, Subscription} : Subscribed(id)
         \/ \E j \in Jobs : Notify(j)
         \/ NotifyFails
         \/ QuietEnd
<1> USE DEF QuietEnd, Return, Raise, Deaths, Idle, Answers, subscriptionVars
<1>1. CASE \E t \in Targets : SetDifficulty(t)
  BY <1>1 DEF SetDifficulty
<1>2. CASE BadCall
  BY <1>2 DEF BadCall
<1>3. CASE SubscribedReturns
  BY <1>3 DEF SubscribedReturns
<1>4. CASE SubscribeRaises
  BY <1>4 DEF SubscribeRaises
<1>5. CASE Authorized \/ Refused \/ AuthorizedAgain
  BY <1>5 DEF Authorized, Refused, AuthorizedAgain
<1>6. CASE ShareAccepted \/ ShareRejected
  BY <1>6 DEF ShareAccepted, ShareRejected
<1> QED
  BY <1>1, <1>2, <1>3, <1>4, <1>5, <1>6 DEF Handle

(* The steps of the miner by what they do to the client, as the proofs use *)
(* them.                                                                   *)
LEMMA MinerShapes ==
  ASSUME MinerNext
  PROVE  \/ MainConnect
         \/ MainSubscribe
         \/ \E id \in {None, Subscription} : Subscribed(id)
         \/ \E j \in Jobs : SubmitShare(j)
         \/ \E t \in Threads : Lock(t)
         \/ \E t \in Threads : Wrote(t)
         \/ \E t \in Threads : WriteFailed(t)
         \/ Network
         \/ \E j \in Jobs : MineStep(j)
         \/ \E j \in Jobs : Notify(j)
         \/ NotifyFails
         \/ Handle /\ QuietEnd
<1> USE MinerAssumption
<1>1. CASE MainSent \/ AuthorizeSent
  BY <1>1 DEF MainSent, AuthorizeSent, Wrote
<1>2. CASE MainFails \/ AuthorizeFails
  BY <1>2 DEF MainFails, AuthorizeFails, WriteFailed
<1>3. ASSUME NEW j \in Jobs, RunJob(j)
      PROVE  \/ MineStep(j) \/ SubmitShare(j)
             \/ Wrote(j) \/ WriteFailed(j)
  BY <1>3 DEF RunJob, ShareSent, ShareFails, Wrote, WriteFailed, minerVars
<1>4. Jobs \subseteq Threads
  OBVIOUS
<1> QED
  BY <1>1, <1>2, <1>3, <1>4, HandlerShapes DEF MinerNext, Authorizing

-----------------------------------------------------------------------------
(* The client in the composition.                                          *)

(* Every step of the miner is one of the client, or leaves it alone. *)
LEMMA StepsClient ==
  ASSUME JobInv, MinerTypeOK, MinerNext
  PROVE  [RpcNext]_rpcVars
<1> USE MinerAssumption
<1>1. CASE MainConnect
  BY <1>1 DEF MainConnect, RpcNext
<1>2. CASE MainSubscribe
  BY <1>2, BodiesAssumption DEF MainSubscribe, RpcNext
<1>3. CASE \E id \in {None, Subscription} : Subscribed(id)
  BY <1>3, BodiesAssumption DEF Subscribed, RpcNext
<1>4. ASSUME NEW j \in Jobs, SubmitShare(j) PROVE RpcNext
  <2>1. Cursor(j) \in Lane(j) /\ worker_name \in {None, Username}
    BY <1>4 DEF SubmitShare, JobInv, SearchInv, Mining, MinerTypeOK
  <2>2. Submit(j, Cursor(j), worker_name) \in Bodies
    BY <2>1, BodiesAssumption
  <2> QED
    BY <1>4, <2>2 DEF SubmitShare, RpcNext
<1>5. CASE \E t \in Threads : Lock(t)
  BY <1>5 DEF Lock, RpcNext
<1>6. CASE \E t \in Threads : Wrote(t)
  BY <1>6 DEF Wrote, RpcNext, EndSend
<1>7. CASE \E t \in Threads : WriteFailed(t)
  BY <1>7 DEF WriteFailed, RpcNext, EndSend
<1>8. CASE Network
  BY <1>8 DEF Network, RpcNext
<1>9. CASE \E j \in Jobs : MineStep(j)
  BY <1>9 DEF MineStep
<1>10. CASE \E j \in Jobs : Notify(j)
  BY <1>10 DEF Notify, RpcNext, EndMessage
<1>11. CASE NotifyFails
  BY <1>11 DEF NotifyFails, RpcNext, EndMessage, Deaths
<1>12. CASE QuietEnd
  BY <1>12 DEF QuietEnd, RpcNext, EndMessage, Return, Raise
<1> QED
  BY <1>1, <1>2, <1>3, <1>4, <1>5, <1>6, <1>7, <1>8, <1>9, <1>10, <1>11, <1>12,
     MinerShapes

(* A step of the client keeps what is registered, received and damaged. *)
LEMMA ClientGrows ==
  ASSUME RpcInv, [RpcNext]_rpcVars
  PROVE  /\ \A k \in DOMAIN requests : k \in DOMAIN requests' /\ requests'[k] = requests[k]
         /\ wire \subseteq wire'
         /\ cut \subseteq cut'
         /\ Damaged \subseteq Damaged'
<1>1. /\ \A k \in DOMAIN requests : k \in DOMAIN requests' /\ requests'[k] = requests[k]
      /\ wire \subseteq wire' /\ cut \subseteq cut'
  <2>1. CASE \E t \in Threads : Register(t)
    BY <2>1 DEF Register, RpcInv, RpcTypeOK, wireVars
  <2>2. CASE requests' = requests /\ wire \subseteq wire' /\ cut \subseteq cut'
    BY <2>2
  <2> QED
    BY <2>1, <2>2
       DEF RpcNext, Connect, Build, EndSend, Written, Transmit, TransmitPart,
           TransmitFails, Receive, ReceiveCall, EndMessage, Return, Raise,
           EndHandling, CloseConnection, LoseReader, rpcVars, wireVars
<1> QED
  BY <1>1 DEF Damaged

-----------------------------------------------------------------------------
(* The jobs in the composition.                                            *)

(* Handing over to a new job creates it and stops the previous one. *)
LEMMA SpawnKeepsJobInv ==
  ASSUME JobInv, CurrentInv, sub_target \in Targets, job \in Jobs \union {None},
         NEW j \in Jobs, SpawnJobThread(j)
  PROVE  JobInv'
<1> USE DEF SpawnJobThread
<1>1. JobTypeOK'
  BY DEF JobInv, JobTypeOK, Places
<1>2. ASSUME NEW i \in Jobs PROVE SearchInv(i)' /\ LateInv(i)'
  <2>1. SearchInv(i) /\ LateInv(i)
    BY DEF JobInv
  <2>2. Cursor(i)' = Cursor(i) /\ Lane(i)' = Lane(i)
    BY DEF Cursor, Lane
  <2>3. /\ tried'[i] = tried[i] /\ extranonce2'[i] = extranonce2[i] /\ late'[i] = late[i]
        /\ IF i = j THEN at[i] = "unborn" /\ at'[i] = "created" ELSE at'[i] = at[i]
    BY DEF JobInv, JobTypeOK
  <2>4. SearchInv(i)'
    BY <2>1, <2>2, <2>3 DEF SearchInv, Mining
  <2>5. done'[i] = done[i] \/ (i = job /\ i # j /\ done'[i] = TRUE)
    BY DEF JobInv, JobTypeOK, CurrentInv
  <2>6. LateInv(i)'
    BY <2>1, <2>3, <2>5 DEF LateInv
  <2> QED
    BY <2>4, <2>6
<1> QED
  BY <1>1, <1>2 DEF JobInv

(* Every step of the miner keeps the invariant of the jobs. *)
LEMMA StepsKeepJobInv ==
  ASSUME JobInv, MinerTypeOK, CurrentInv, MinerNext
  PROVE  JobInv'
<1> USE MinerAssumption
<1>1. CASE \E j \in Jobs : Notify(j)
  BY <1>1, SpawnKeepsJobInv DEF Notify, MinerTypeOK
<1>2. CASE NotifyFails
  <2>1. Stop(job) /\ job \in Jobs
    BY <1>2 DEF NotifyFails, Stop, CurrentInv, MinerTypeOK
  <2> QED
    BY <2>1, JobInvNext DEF JobNext
<1>3. CASE \E t \in Threads : Wrote(t)
  BY <1>3, JobInvNext DEF Wrote, JobNext
<1>4. CASE \E t \in Threads : WriteFailed(t)
  BY <1>4, JobInvNext DEF WriteFailed, JobNext
<1>5. CASE \E j \in Jobs : MineStep(j)
  BY <1>5, JobInvNext DEF MineStep, JobNext
<1>6. CASE UNCHANGED jobVars
  BY <1>6, JobInvNext
<1> QED
  BY <1>1, <1>2, <1>3, <1>4, <1>5, <1>6, MinerShapes
     DEF MainConnect, MainSubscribe, Subscribed, SubmitShare, Lock, Network, QuietEnd

(* What mining does, seen from outside. *)
LEMMA MineFootprint ==
  ASSUME JobInv, NEW j \in Jobs, Mine(j)
  PROVE  /\ at[j] \notin {"unborn", "yielded"} /\ at'[j] # "unborn"
         /\ \A i \in Jobs \ {j} : at'[i] = at[i] /\ Cursor(i)' = Cursor(i)
         /\ \A i \in Jobs : tried[i] \subseteq tried'[i]
         /\ at'[j] = "yielded" => Cursor(j)' = Cursor(j) /\ Cursor(j) \notin tried[j]
         /\ UNCHANGED <<done, target>>
<1>1. JobTypeOK /\ SearchInv(j)
  BY DEF JobInv
<1>2. at[j] = "hash" => Cursor(j) \notin tried[j]
  <2> SUFFICES ASSUME at[j] = "hash", Cursor(j) \in tried[j] PROVE FALSE
    OBVIOUS
  <2>1. Before(Cursor(j), Cursor(j))
    BY <1>1 DEF SearchInv
  <2> QED
    BY <1>1, <2>1 DEF Before, Cursor, JobTypeOK
<1>3. CASE Begin(j) \/ Check(j)
  BY <1>1, <1>3 DEF Begin, Check, JobTypeOK, Cursor
<1>4. CASE Miss(j)
  BY <1>1, <1>4 DEF Miss, Attempt, Advance, JobTypeOK, Cursor
<1>5. CASE Find(j)
  BY <1>1, <1>2, <1>5 DEF Find, Attempt, JobTypeOK, Cursor
<1> QED
  BY <1>3, <1>4, <1>5 DEF Mine

(* A share is consumed: only its job moves on, and nothing was hashed. *)
LEMMA ConsumeFootprint ==
  ASSUME JobInv, NEW j \in Jobs, Resume(j) \/ Abandon(j)
  PROVE  /\ at[j] = "yielded" /\ at'[j] \notin {"unborn", "yielded", "hash"}
         /\ \A i \in Jobs \ {j} : at'[i] = at[i] /\ Cursor(i)' = Cursor(i)
         /\ UNCHANGED <<done, target, tried>>
BY DEF JobInv, JobTypeOK, Resume, Advance, Abandon, Cursor

-----------------------------------------------------------------------------
(* The handshake and the threads that send.                                *)

(* While the reader handles a message nobody else is in a write, and the   *)
(* main thread is past its subscription when there is a reply to handle.   *)
LEMMA ReaderAlone ==
  ASSUME RpcInv, SenderInv, reader = "handling"
  PROVE  /\ \A t \in Threads \ {Reader} : pc[t] # "locked"
         /\ handling # NoMessage => message_id # 1 /\ pc[Main] = "out"
<1>1. lock = Reader
  BY DEF RpcInv, LockDiscipline
<1>2. \A t \in Threads \ {Reader} : pc[t] # "locked"
  BY <1>1 DEF RpcInv, LockDiscipline
<1> QED
  BY <1>2, MinerAssumption DEF SenderInv, RpcInv, RpcTypeOK

(* The end of a write leaves the thread outside send and the jobs that     *)
(* exist existing.                                                         *)
LEMMA WriteEnds ==
  ASSUME RpcInv, JobInv, NEW t \in Threads, Wrote(t) \/ WriteFailed(t)
  PROVE  /\ pc[t] = "locked" /\ pc'[t] = "out"
         /\ \A u \in Threads \ {t} : pc'[u] = pc[u] /\ draft'[u] = draft[u]
         /\ UNCHANGED <<message_id, requests, sub_id, job>>
         /\ \A j \in Jobs \ {t} : at'[j] = at[j] /\ Cursor(j)' = Cursor(j)
         /\ t \in Jobs => at[t] = "yielded" /\ at'[t] \notin {"unborn", "yielded", "hash"}
         /\ UNCHANGED <<done, target, tried>>
<1>1. /\ pc[t] = "locked" /\ pc'[t] = "out"
      /\ \A u \in Threads \ {t} : pc'[u] = pc[u] /\ draft'[u] = draft[u]
      /\ UNCHANGED <<message_id, requests, sub_id, job>>
  BY DEF Wrote, WriteFailed, Written, Transmit, TransmitPart, TransmitFails,
         LeaveSend, RpcInv, RpcTypeOK, minerVars, subscriptionVars
<1>2. CASE t \in Jobs
  <2>1. Resume(t) \/ Abandon(t)
    BY <1>2 DEF Wrote, WriteFailed
  <2> QED
    BY <1>1, <1>2, <2>1, ConsumeFootprint
<1>3. CASE t \notin Jobs
  <2>1. UNCHANGED jobVars
    BY <1>3 DEF Wrote, WriteFailed
  <2> QED
    BY <1>1, <1>3, <2>1 DEF jobVars, Cursor
<1> QED
  BY <1>2, <1>3

(* Steps that neither send nor touch a job that exists. *)
Aside ==
  \/ MainConnect
  \/ Network
  \/ \E j \in Jobs : Notify(j)
  \/ NotifyFails
  \/ QuietEnd

(* Steps aside from requests and hashing leave both alone, but for a new   *)
(* job.                                                                    *)
LEMMA AsideFootprint ==
  ASSUME RpcInv, JobInv, SenderInv, Aside
  PROVE  /\ UNCHANGED <<message_id, requests, draft, pc, sub_id, wire, cut, tried>>
         /\ \A j \in Jobs : Cursor(j)' = Cursor(j)
         /\ \A j \in Jobs : at[j] # "unborn" => at'[j] = at[j] /\ target'[j] = target[j]
         /\ \A j \in Jobs : at'[j] # at[j] =>
              sub_id # None /\ pc[Reader] = "out" /\ at'[j] = "created"
<1> USE DEF subscriptionVars, jobVars, wireVars, Cursor, EndHandling
<1>1. CASE MainConnect
  BY <1>1 DEF MainConnect, Connect
<1>2. CASE Network
  BY <1>2 DEF Network, Receive, ReceiveCall, CloseConnection, LoseReader, minerVars
<1>3. CASE \E j \in Jobs : Notify(j)
  BY <1>3 DEF Notify, SpawnJobThread, Return, JobInv, JobTypeOK
<1>4. CASE NotifyFails
  BY <1>4 DEF NotifyFails, Raise
<1>5. CASE QuietEnd
  BY <1>5 DEF QuietEnd
<1> QED
  BY <1>1, <1>2, <1>3, <1>4, <1>5 DEF Aside

(* Every step keeps what a thread sends tied to where that thread is. *)
LEMMA SenderInvNext ==
  ASSUME MinerInv, MinerNext
  PROVE  SenderInv'
<1> USE MinerAssumption DEF MinerInv
<1>0. /\ Main \in Threads /\ Reader \in Threads /\ Jobs \subseteq Threads
      /\ Main # Reader /\ Main \notin Jobs /\ Reader \notin Jobs
      /\ message_id \in Nat \ {0} /\ DOMAIN requests = 1 .. message_id - 1
  BY DEF RpcInv, RpcTypeOK
<1>1. CASE MainConnect
  <2>1. reader = "off" /\ ~authorizing
    BY <1>1 DEF MainConnect, Connect, SenderInv
  <2> QED
    BY <1>1, <2>1 DEF MainConnect, Connect, SenderInv, AnyJob, BodyBy, jobVars, subscriptionVars
<1>2. CASE MainSubscribe
  <2>1. /\ main = "connected" /\ main' = "running" /\ message_id = 1
        /\ pc' = [pc EXCEPT ![Main] = "built"]
        /\ UNCHANGED <<message_id, requests, jobVars, sub_id, reader, handling, authorizing>>
    BY <1>2 DEF MainSubscribe, Build, SenderInv, subscriptionVars
  <2>2. \A t \in Threads \ {Main} : pc'[t] = "out"
    BY <1>0, <2>1 DEF SenderInv, RpcInv, RpcTypeOK
  <2> QED
    BY <1>0, <2>1, <2>2 DEF SenderInv, AnyJob, BodyBy, jobVars
<1>3. ASSUME NEW id \in {None, Subscription}, Subscribed(id)
      PROVE  SenderInv'
  <2>1. /\ sub_id = None /\ handling # NoMessage /\ reader = "handling"
        /\ pc' = [pc EXCEPT ![Reader] = "built"] /\ authorizing'
        /\ draft'[Reader].id = message_id
        /\ UNCHANGED <<message_id, requests, jobVars, main, reader, handling>>
    BY <1>0, <1>3 DEF Subscribed, Build, NoMessage, RpcInv, RpcTypeOK
  <2>2. ~AnyJob /\ message_id # 1 /\ \A t \in Threads \ {Reader} : pc[t] = "out"
    BY <1>0, <2>1, ReaderAlone DEF SenderInv, AnyJob, RpcInv, RpcTypeOK
  <2>3. pc'[Reader] = "built" /\ \A t \in Threads \ {Reader} : pc'[t] = "out"
    BY <1>0, <2>1, <2>2 DEF RpcInv, RpcTypeOK
  <2> QED
    BY <1>0, <2>1, <2>2, <2>3 DEF SenderInv, AnyJob, jobVars
<1>4. ASSUME NEW j \in Jobs, SubmitShare(j)
      PROVE  SenderInv'
  <2>1. /\ at[j] = "yielded" /\ pc' = [pc EXCEPT ![j] = "built"]
        /\ UNCHANGED <<message_id, requests, jobVars, minerVars, reader, handling>>
    BY <1>4 DEF SubmitShare, Build
  <2>2. AnyJob /\ sub_id # None /\ message_id # 1 /\ pc[Reader] = "out"
    BY <1>0, <2>1 DEF AnyJob, SenderInv
  <2>3. \A t \in Threads \ {j} : pc'[t] = pc[t]
    BY <2>1 DEF RpcInv, RpcTypeOK
  <2> QED
    BY <1>0, <2>1, <2>2, <2>3
       DEF SenderInv, AnyJob, BodyBy, jobVars, minerVars, subscriptionVars
<1>5. ASSUME NEW t \in Threads, Lock(t)
      PROVE  SenderInv'
  <2>1. /\ pc[t] = "built" /\ pc' = [pc EXCEPT ![t] = "locked"]
        /\ message_id' = message_id + 1
        /\ UNCHANGED <<jobVars, minerVars, draft, reader, handling>>
    BY <1>5 DEF Lock, Register
  <2>2. pc'[t] = "locked" /\ \A u \in Threads \ {t} : pc'[u] = pc[u]
    BY <2>1 DEF RpcInv, RpcTypeOK
  <2>3. main \notin {"start", "connected"} /\ message_id' # 1
    BY <1>0, <2>1 DEF SenderInv
  <2>4. pc'[Main] # "built" /\ pc'[Reader] # "built"
    BY <1>0, <2>1, <2>2 DEF SenderInv
  <2>5. sub_id # None => BodyBy(Reader)' # {}
    <3>1. /\ requests'[message_id] = draft[t] /\ message_id \in DOMAIN requests'
          /\ draft[t].by = t
          /\ \A k \in DOMAIN requests :
               k \in DOMAIN requests' /\ requests'[k] = requests[k]
      BY <1>0, <1>5 DEF Lock, Register, RpcInv, SendInv
    <3> QED
      BY <2>1, <2>2, <3>1 DEF SenderInv, BodyBy
  <2> QED
    BY <1>0, <2>1, <2>2, <2>3, <2>4, <2>5
       DEF SenderInv, AnyJob, jobVars, minerVars, subscriptionVars
<1>6. ASSUME NEW t \in Threads, Wrote(t) \/ WriteFailed(t)
      PROVE  SenderInv'
  <2>1. /\ pc[t] = "locked" /\ pc'[t] = "out"
        /\ \A u \in Threads \ {t} : pc'[u] = pc[u] /\ draft'[u] = draft[u]
        /\ UNCHANGED <<message_id, requests, sub_id>>
        /\ \A j \in Jobs \ {t} : at'[j] = at[j]
        /\ t \in Jobs => at[t] = "yielded" /\ at'[t] # "unborn"
    BY <1>6, WriteEnds
  <2>2. /\ AnyJob' <=> AnyJob
        /\ BodyBy(Reader)' = BodyBy(Reader)
    BY <2>1 DEF AnyJob, BodyBy
  <2>3. /\ main' = main \/ main' = "exited"
        /\ handling' = handling \/ handling' = NoMessage
        /\ authorizing' = authorizing \/ ~authorizing'
        /\ t # Reader => authorizing' = authorizing /\ reader' = reader
        /\ authorizing' => reader' = reader
    BY <1>6 DEF Wrote, WriteFailed, Written, Transmit, TransmitPart, TransmitFails, minerVars
  <2> QED
    BY <1>0, <2>1, <2>2, <2>3 DEF SenderInv
<1>7. CASE Aside
  <2>1. /\ UNCHANGED <<message_id, requests, draft, pc, sub_id>>
        /\ AnyJob' => sub_id # None /\ (AnyJob \/ pc[Reader] = "out")
        /\ \A j \in Jobs : at[j] = "yielded" => at'[j] = at[j]
    BY <1>7, AsideFootprint DEF AnyJob, SenderInv
  <2>2. BodyBy(Reader)' = BodyBy(Reader)
    BY <2>1 DEF BodyBy
  <2>3. /\ main' = main \/ (main = "start" /\ main' = "connected")
        /\ authorizing' => authorizing /\ reader' = reader /\ at' = at
        /\ pc[Reader] # "out" => authorizing'
        /\ handling' = handling \/ handling' = NoMessage \/ wire # {}
    BY <1>7, <1>1 DEF Aside, MainConnect, Network, Notify, NotifyFails, QuietEnd, Idle,
       Return, Raise, EndHandling, Receive, ReceiveCall, CloseConnection,
       LoseReader, Connect, minerVars, jobVars, SenderInv
  <2>4. wire # {} => message_id # 1
    BY <1>0 DEF RpcInv, RpcTypeOK
  <2> QED
    BY <2>1, <2>2, <2>3, <2>4 DEF SenderInv, AnyJob
<1>8. ASSUME NEW j \in Jobs, MineStep(j)
      PROVE  SenderInv'
  <2>1. /\ at[j] \notin {"unborn", "yielded"} /\ at'[j] # "unborn"
        /\ \A i \in Jobs \ {j} : at'[i] = at[i]
        /\ UNCHANGED <<rpcVars, minerVars>>
    BY <1>8, MineFootprint DEF MineStep
  <2>2. AnyJob' <=> AnyJob
    BY <2>1 DEF AnyJob
  <2> QED
    BY <2>1, <2>2 DEF SenderInv, BodyBy, rpcVars, minerVars, subscriptionVars
<1> QED
  BY <1>1, <1>2, <1>3, <1>4, <1>5, <1>6, <1>7, <1>8, MinerShapes DEF Aside

(* Every step of the miner keeps the types, and the invariants of the      *)
(* client and of the jobs.                                                 *)
LEMMA ComponentsNext ==
  ASSUME MinerInv, MinerNext
  PROVE  RpcInv' /\ WriteInv' /\ JobInv'
<1>1. [RpcNext]_rpcVars
  BY StepsClient DEF MinerInv
<1> QED
  BY <1>1, RpcInvNext, WriteInvNext, StepsKeepJobInv DEF MinerInv

(* Every step keeps the types of the miner's own variables. *)
LEMMA MinerTypeNext ==
  ASSUME MinerInv, MinerNext
  PROVE  MinerTypeOK'
<1> DEFINE Locals ==
      /\ main' \in {"start", "connected", "running", "exited"}
      /\ sub_id' \in {None, Subscription}
      /\ worker_name' \in {None, Username}
      /\ sub_target' \in Targets
      /\ job' \in Jobs \union {None}
      /\ accepted' \in Nat
      /\ authorizing' \in BOOLEAN
<1>0. /\ main \in {"start", "connected", "running", "exited"}
      /\ sub_id \in {None, Subscription} /\ worker_name \in {None, Username}
      /\ sub_target \in Targets /\ job \in Jobs \union {None}
      /\ accepted \in Nat /\ authorizing \in BOOLEAN
  BY DEF MinerInv, MinerTypeOK
<1>t. RpcTypeOK' /\ JobTypeOK'
  BY ComponentsNext DEF RpcInv, JobInv
<1> SUFFICES Locals
  BY <1>t DEF MinerTypeOK
<1> USE <1>0 DEF subscriptionVars, minerVars, Idle, Answers
<1>1. CASE MainConnect \/ MainSubscribe \/ MainSent \/ MainFails
  BY <1>1 DEF MainConnect, MainSubscribe, MainSent, MainFails
<1>2. CASE Authorizing
  BY <1>2 DEF Authorizing, AuthorizeSent, AuthorizeFails
<1>3. CASE Handle
  <2>1. CASE \E j \in Jobs : Notify(j)
    BY <2>1 DEF Notify, SpawnJobThread
  <2>2. CASE NotifyFails \/ BadCall \/ \E t \in Targets : SetDifficulty(t)
    BY <2>2 DEF NotifyFails, BadCall, SetDifficulty
  <2>3. CASE \/ \E id \in {None, Subscription} : Subscribed(id)
             \/ SubscribedReturns \/ SubscribeRaises
    BY <2>3 DEF Subscribed, SubscribedReturns, SubscribeRaises
  <2>4. CASE Authorized \/ Refused \/ AuthorizedAgain
    BY <2>4 DEF Authorized, Refused, AuthorizedAgain
  <2>5. CASE ShareAccepted \/ ShareRejected
    BY <2>5 DEF ShareAccepted, ShareRejected
  <2> HIDE DEF Locals
  <2> QED
    BY <1>3, <2>1, <2>2, <2>3, <2>4, <2>5 DEF Handle
<1>4. CASE \E j \in Jobs : RunJob(j)
  BY <1>4 DEF RunJob, MineStep, SubmitShare, ShareSent, ShareFails
<1>5. CASE (\E t \in Threads : Lock(t)) \/ Network
  BY <1>5 DEF Lock, Network
<1> HIDE DEF Locals
<1> QED
  BY <1>1, <1>2, <1>3, <1>4, <1>5 DEF MinerNext

-----------------------------------------------------------------------------
(* What is sent, and under which keys.                                     *)

(* A thread that takes the lock is the only one in a write, and what it    *)
(* registers is its draft, under the next key.                             *)
LEMMA LockFootprint ==
  ASSUME RpcInv, NEW t \in Threads, Lock(t)
  PROVE  /\ pc[t] = "built" /\ pc'[t] = "locked"
         /\ \A u \in Threads \ {t} : pc'[u] = pc[u] /\ pc[u] # "locked"
         /\ message_id' = message_id + 1
         /\ DOMAIN requests = 1 .. message_id - 1
         /\ DOMAIN requests' = 1 .. message_id
         /\ requests'[message_id] = draft[t]
         /\ draft[t] \in Request /\ draft[t].by = t /\ draft[t].id <= message_id
         /\ \A k \in DOMAIN requests :
              requests'[k] = requests[k] /\ answers'[k] = answers[k]
         /\ answers'[message_id] = 0
         /\ UNCHANGED <<draft, wireVars, conn, handling, jobVars, minerVars>>
         /\ reader' = reader
<1>1. pc[t] = "built" /\ \A u \in Threads \ {t} : pc[u] # "locked"
  BY RpcAssumption DEF Lock, Register, MayLock, RpcInv, LockDiscipline
<1>2. /\ message_id \in Nat \ {0} /\ DOMAIN requests = 1 .. message_id - 1
      /\ DOMAIN requests' = 1 .. message_id
  BY DEF Lock, Register, RpcInv, RpcTypeOK
<1>3. pc'[t] = "locked" /\ \A u \in Threads \ {t} : pc'[u] = pc[u]
  BY DEF Lock, Register, RpcInv, RpcTypeOK
<1>4. draft[t] \in Request /\ draft[t].by = t /\ draft[t].id <= message_id
  BY <1>1 DEF RpcInv, SendInv
<1>5. /\ requests'[message_id] = draft[t] /\ answers'[message_id] = 0
      /\ \A k \in DOMAIN requests :
           requests'[k] = requests[k] /\ answers'[k] = answers[k]
  BY <1>2 DEF Lock, Register, RpcInv, RpcTypeOK
<1> QED
  BY <1>1, <1>2, <1>3, <1>4, <1>5 DEF Lock, Register

(* Building a request concerns the thread that builds it. *)
LEMMA BuildFootprint ==
  ASSUME RpcInv, NEW t \in Threads, NEW body, Build(t, body)
  PROVE  /\ conn # "none" /\ pc[t] = "out" /\ pc'[t] = "built"
         /\ draft'[t].body = body /\ draft'[t].id = message_id
         /\ \A u \in Threads \ {t} : pc'[u] = pc[u] /\ draft'[u] = draft[u]
         /\ UNCHANGED <<message_id, requests, wireVars, conn, answers, reader, handling>>
BY DEF Build, RpcInv, RpcTypeOK

(* Every step keeps each request with the thread whose business it is. *)
LEMMA BodyInvNext ==
  ASSUME MinerInv, MinerNext
  PROVE  BodyInv'
<1> USE MinerAssumption DEF MinerInv
<1>0. /\ Main \in Threads /\ Reader \in Threads /\ Jobs \subseteq Threads
      /\ Main # Reader /\ Main \notin Jobs /\ Reader \notin Jobs
      /\ message_id \in Nat \ {0} /\ DOMAIN requests = 1 .. message_id - 1
  BY DEF RpcInv, RpcTypeOK
<1>1. CASE MainSubscribe
  <2>1. /\ pc'[Main] = "built" /\ draft'[Main].body = Subscribe
        /\ \A u \in Threads \ {Main} : pc'[u] = pc[u] /\ draft'[u] = draft[u]
        /\ UNCHANGED <<message_id, requests, jobVars>>
    BY <1>0, <1>1, BuildFootprint DEF MainSubscribe
  <2> QED
    BY <1>0, <2>1 DEF BodyInv, jobVars, Cursor
<1>2. ASSUME NEW id \in {None, Subscription}, Subscribed(id)
      PROVE  BodyInv'
  <2>1. /\ pc'[Reader] = "built" /\ draft'[Reader].body = Authorize
        /\ \A u \in Threads \ {Reader} : pc'[u] = pc[u] /\ draft'[u] = draft[u]
        /\ UNCHANGED <<message_id, requests, jobVars>>
    BY <1>0, <1>2, BuildFootprint DEF Subscribed
  <2> QED
    BY <1>0, <2>1 DEF BodyInv, jobVars, Cursor
<1>3. ASSUME NEW j \in Jobs, SubmitShare(j)
      PROVE  BodyInv'
  <2>1. /\ pc'[j] = "built" /\ draft'[j].body = Submit(j, Cursor(j), worker_name)
        /\ \A u \in Threads \ {j} : pc'[u] = pc[u] /\ draft'[u] = draft[u]
        /\ UNCHANGED <<message_id, requests, jobVars>>
    BY <1>0, <1>3, BuildFootprint DEF SubmitShare
  <2>2. worker_name \in {None, Username} /\ \A i \in Jobs : Cursor(i)' = Cursor(i)
    BY <2>1 DEF MinerTypeOK, jobVars, Cursor
  <2>3. \A i \in Jobs : pc'[i] # "out" =>
          \E w \in {None, Username} : draft'[i].body = Submit(i, Cursor(i), w)
    BY <1>0, <2>1, <2>2 DEF BodyInv
  <2>4. UNCHANGED <<tried, requests, message_id>>
    BY <2>1 DEF jobVars
  <2> QED
    BY <1>0, <2>1, <2>2, <2>3, <2>4 DEF BodyInv
<1>4. ASSUME NEW t \in Threads, Lock(t)
      PROVE  BodyInv'
  <2>1. /\ pc[t] = "built" /\ pc'[t] = "locked"
        /\ \A u \in Threads \ {t} : pc'[u] = pc[u] /\ pc[u] # "locked"
        /\ message_id' = message_id + 1 /\ DOMAIN requests' = 1 .. message_id
        /\ requests'[message_id] = draft[t] /\ draft[t].by = t
        /\ \A k \in DOMAIN requests : requests'[k] = requests[k]
        /\ UNCHANGED <<draft, jobVars>>
    BY <1>4, LockFootprint
  <2>2. \A i \in Jobs : Cursor(i)' = Cursor(i) /\ tried'[i] = tried[i]
    BY <2>1 DEF jobVars, Cursor
  <2>3. t \in Jobs => Cursor(t) \in tried[t]
    BY <2>1 DEF SenderInv, JobInv, SearchInv
  <2>4. ASSUME NEW k \in DOMAIN requests'
        PROVE  /\ requests'[k].by = Main => requests'[k].body = Subscribe
               /\ requests'[k].by = Reader => requests'[k].body = Authorize
               /\ \A j \in Jobs : requests'[k].by = j =>
                    \E s \in tried'[j], w \in {None, Username} :
                      requests'[k].body = Submit(j, s, w)
    <3>1. CASE k = message_id
      BY <1>0, <2>1, <2>2, <2>3, <3>1 DEF BodyInv
    <3>2. CASE k \in DOMAIN requests
      BY <2>1, <2>2, <3>2 DEF BodyInv
    <3> QED
      BY <1>0, <2>1, <3>1, <3>2
  <2>5. \A u \in Threads : pc'[u] = "locked" => requests'[message_id' - 1] = draft'[u]
    BY <1>0, <2>1
  <2>6. /\ pc'[Main] # "out" => draft'[Main].body = Subscribe
        /\ pc'[Reader] # "out" => draft'[Reader].body = Authorize
        /\ \A j \in Jobs : pc'[j] # "out" =>
             \E w \in {None, Username} : draft'[j].body = Submit(j, Cursor(j)', w)
    BY <1>0, <2>1, <2>2 DEF BodyInv
  <2> QED
    BY <2>4, <2>5, <2>6 DEF BodyInv
<1>5. ASSUME NEW t \in Threads, Wrote(t) \/ WriteFailed(t)
      PROVE  BodyInv'
  <2>1. /\ pc'[t] = "out"
        /\ \A u \in Threads \ {t} : pc'[u] = pc[u] /\ draft'[u] = draft[u]
        /\ UNCHANGED <<message_id, requests, tried>>
        /\ \A j \in Jobs \ {t} : Cursor(j)' = Cursor(j)
    BY <1>5, WriteEnds
  <2> QED
    BY <1>0, <2>1 DEF BodyInv
<1>6. CASE Aside
  <2>1. /\ UNCHANGED <<message_id, requests, draft, pc, tried>>
        /\ \A j \in Jobs : Cursor(j)' = Cursor(j)
    BY <1>6, AsideFootprint
  <2> QED
    BY <1>0, <2>1 DEF BodyInv
<1>7. ASSUME NEW j \in Jobs, MineStep(j)
      PROVE  BodyInv'
  <2>1. /\ at[j] # "yielded"
        /\ \A i \in Jobs \ {j} : Cursor(i)' = Cursor(i)
        /\ \A i \in Jobs : tried[i] \subseteq tried'[i]
        /\ UNCHANGED <<message_id, requests, draft, pc>>
    BY <1>7, MineFootprint DEF MineStep, rpcVars
  <2>2. \A i \in Jobs : pc[i] # "out" => Cursor(i)' = Cursor(i)
    BY <2>1 DEF SenderInv
  <2>3. \A i \in Jobs : pc'[i] # "out" =>
          \E w \in {None, Username} : draft'[i].body = Submit(i, Cursor(i)', w)
    BY <2>1, <2>2 DEF BodyInv
  <2>4. \A k \in DOMAIN requests : \A i \in Jobs : requests[k].by = i =>
          \E s \in tried'[i], w \in {None, Username} : requests[k].body = Submit(i, s, w)
    BY <2>1 DEF BodyInv
  <2> QED
    BY <1>0, <2>1, <2>3, <2>4 DEF BodyInv
<1> QED
  BY <1>1, <1>2, <1>3, <1>4, <1>5, <1>6, <1>7, MinerShapes DEF Aside

(* Every step keeps requests, their ids and their keys in step. *)
LEMMA KeyInvNext ==
  ASSUME MinerInv, MinerNext
  PROVE  KeyInv'
<1> USE MinerAssumption DEF MinerInv
<1>0. /\ Main \in Threads /\ Reader \in Threads /\ Jobs \subseteq Threads
      /\ Main # Reader /\ Main \notin Jobs /\ Reader \notin Jobs
      /\ message_id \in Nat \ {0} /\ DOMAIN requests = 1 .. message_id - 1
  BY DEF RpcInv, RpcTypeOK
<1>1. ASSUME /\ UNCHANGED <<message_id, requests>>
             /\ \A j \in Jobs : pc'[j] = "built" =>
                  \/ pc[j] = "built" /\ draft'[j] = draft[j]
                  \/ draft'[j].id = message_id
      PROVE  KeyInv'
  BY <1>0, <1>1 DEF KeyInv
<1>2. CASE MainSubscribe \/ \E id \in {None, Subscription} : Subscribed(id)
  BY <1>0, <1>1, <1>2, BuildFootprint DEF MainSubscribe, Subscribed
<1>3. CASE \E j \in Jobs : SubmitShare(j)
  BY <1>0, <1>1, <1>3, BuildFootprint DEF SubmitShare
<1>4. CASE \E t \in Threads : Wrote(t) \/ WriteFailed(t)
  BY <1>0, <1>1, <1>4, WriteEnds
<1>5. CASE Aside
  BY <1>1, <1>5, AsideFootprint
<1>6. CASE \E j \in Jobs : MineStep(j)
  BY <1>1, <1>6 DEF MineStep, rpcVars
<1>7. ASSUME NEW t \in Threads, Lock(t)
      PROVE  KeyInv'
  <2>1. /\ pc[t] = "built" /\ pc'[t] = "locked"
        /\ \A u \in Threads \ {t} : pc'[u] = pc[u]
        /\ DOMAIN requests' = 1 .. message_id
        /\ requests'[message_id] = draft[t] /\ draft[t].by = t
        /\ draft[t].id \in Nat \ {0} /\ draft[t].id <= message_id
        /\ \A k \in DOMAIN requests : requests'[k] = requests[k]
        /\ draft' = draft
    BY <1>7, LockFootprint DEF Request
  <2>2. t \notin Jobs => draft[t].id = message_id
    BY <1>0, <2>1 DEF SenderInv
  <2>3. t \in Jobs => requests'[draft[t].id].by \in Jobs
    BY <1>0, <2>1 DEF KeyInv
  <2>4. \A k \in DOMAIN requests : requests[k].id \in DOMAIN requests
    BY LookupFinds DEF RpcInv
  <2>5. \A k \in DOMAIN requests' :
          IF requests'[k].by \in Jobs THEN requests'[requests'[k].id].by \in Jobs
                                      ELSE requests'[k].id = k
    <3> SUFFICES ASSUME NEW k \in DOMAIN requests'
                 PROVE  IF requests'[k].by \in Jobs
                        THEN requests'[requests'[k].id].by \in Jobs
                        ELSE requests'[k].id = k
      OBVIOUS
    <3>1. CASE k = message_id
      BY <2>1, <2>2, <2>3, <3>1
    <3>2. CASE k \in DOMAIN requests
      BY <2>1, <2>4, <3>2 DEF KeyInv
    <3> QED
      BY <1>0, <2>1, <3>1, <3>2
  <2>6. ASSUME NEW j \in Jobs, pc'[j] = "built", draft[j].id \in DOMAIN requests'
        PROVE  requests'[draft[j].id].by \in Jobs
    <3>1. j # t /\ pc[j] = "built"
      BY <1>0, <2>1, <2>6
    <3>2. t \in Jobs
      BY <1>0, <2>1, <3>1 DEF SenderInv
    <3> QED
      BY <1>0, <2>1, <2>6, <3>1, <3>2 DEF KeyInv
  <2> QED
    BY <2>1, <2>5, <2>6 DEF KeyInv
<1> QED
  BY <1>2, <1>3, <1>4, <1>5, <1>6, <1>7, MinerShapes DEF Aside

(* What the reader handles changes when it receives a message and when it  *)
(* leaves handle_reply.                                                    *)
LEMMA HandlingInvNext ==
  ASSUME MinerInv, MinerNext
  PROVE  HandlingInv'
<1> USE MinerAssumption DEF MinerInv
<1>1. \A k \in wire : k \in DOMAIN requests /\ requests[k].id \in DOMAIN requests
  BY LookupFinds DEF RpcInv, RpcTypeOK
<1>2. /\ \A k \in DOMAIN requests : k \in DOMAIN requests' /\ requests'[k] = requests[k]
      /\ wire \subseteq wire'
  BY StepsClient, ClientGrows
<1>3. CASE UNCHANGED <<reader, handling>> \/ handling' = NoMessage
  BY <1>1, <1>2, <1>3 DEF HandlingInv
<1>4. CASE \E k \in wire : Receive(k)
  BY <1>1, <1>4 DEF Receive, HandlingInv, wireVars
<1>5. CASE Network
  BY <1>3, <1>4, <1>5
     DEF Network, ReceiveCall, CloseConnection, LoseReader, HandlingInv
<1>6. CASE MainConnect
  BY <1>3, <1>6 DEF MainConnect, Connect, HandlingInv
<1>7. CASE \/ MainSubscribe \/ \E id \in {None, Subscription} : Subscribed(id)
           \/ \E j \in Jobs : SubmitShare(j)
  BY <1>3, <1>7 DEF MainSubscribe, Subscribed, SubmitShare, Build
<1>8. CASE \E t \in Threads : Lock(t)
  BY <1>3, <1>8 DEF Lock, Register
<1>9. CASE \E t \in Threads : Wrote(t) \/ WriteFailed(t)
  BY <1>3, <1>9 DEF Wrote, WriteFailed, Written, Transmit, TransmitPart, TransmitFails
<1>10. CASE (\E j \in Jobs : Notify(j)) \/ NotifyFails \/ QuietEnd
  BY <1>3, <1>10 DEF Notify, NotifyFails, QuietEnd, Return, Raise, EndHandling
<1>11. CASE \E j \in Jobs : MineStep(j)
  BY <1>3, <1>11 DEF MineStep, rpcVars
<1> QED
  BY <1>5, <1>6, <1>7, <1>8, <1>9, <1>10, <1>11, MinerShapes

(* The sender of a request is told by its method. *)
LEMMA SenderByMethod ==
  ASSUME RpcTypeOK, BodyInv, NEW k \in DOMAIN requests
  PROVE  /\ requests[k].body.method = "mining.subscribe" <=> requests[k].by = Main
         /\ requests[k].body.method = "mining.authorize" <=> requests[k].by = Reader
         /\ requests[k].body.method = "mining.submit" <=> requests[k].by \in Jobs
         /\ requests[k].by \in Jobs \union {Main, Reader}
<1>1. requests[k].by \in Jobs \union {Main, Reader}
  BY MinerAssumption DEF RpcTypeOK, Request
<1>2. requests[k].by = Main => requests[k].body.method = "mining.subscribe"
  BY DEF BodyInv, Subscribe
<1>3. requests[k].by = Reader => requests[k].body.method = "mining.authorize"
  BY DEF BodyInv, Authorize
<1>4. ASSUME requests[k].by \in Jobs PROVE requests[k].body.method = "mining.submit"
  <2>1. \E share, w : requests[k].body = Submit(requests[k].by, share, w)
    BY <1>4 DEF BodyInv
  <2> QED
    BY <2>1 DEF Submit
<1> QED
  BY <1>1, <1>2, <1>3, <1>4, MinerAssumption

(* The reply that is handled answers a request of the method it is         *)
(* handled as, although it is looked up under another key than its own.    *)
LEMMA HandledMethod ==
  ASSUME RpcInv, BodyInv, KeyInv, HandlingInv, handling.request # NoRequest
  PROVE  /\ handling.key \in wire
         /\ handling.request.body.method = requests[handling.key].body.method
<1>1. /\ handling.key \in wire /\ handling.key \in DOMAIN requests
      /\ handling.request = requests[requests[handling.key].id]
  BY DEF HandlingInv, NoMessage, RpcInv, RpcTypeOK
<1>2. requests[handling.key].id \in DOMAIN requests
  BY <1>1, LookupFinds DEF RpcInv
<1> QED
  BY <1>1, <1>2, SenderByMethod DEF KeyInv, RpcInv

(* The order of the handshake is that of the replies it waits for. *)
LEMMA HandshakeInvNext ==
  ASSUME MinerInv, MinerNext
  PROVE  HandshakeInv'
<1> USE MinerAssumption DEF MinerInv
<1>0. /\ Main \in Threads /\ Reader \in Threads /\ Jobs \subseteq Threads
      /\ Main # Reader /\ Main \notin Jobs /\ Reader \notin Jobs
      /\ message_id \in Nat \ {0} /\ DOMAIN requests = 1 .. message_id - 1
      /\ wire \subseteq DOMAIN requests
  BY DEF RpcInv, RpcTypeOK
<1>1. wire \subseteq wire'
  BY StepsClient, ClientGrows
<1>2. ASSUME requests' = requests, pc'[Reader] = "built" => pc[Reader] = "built"
      PROVE  HandshakeInv'
  BY <1>1, <1>2 DEF HandshakeInv
<1>3. ASSUME NEW id \in {None, Subscription}, Subscribed(id)
      PROVE  HandshakeInv'
  <2>1. handling.request # NoRequest /\ handling.request.body.method = "mining.subscribe"
    BY <1>3 DEF Subscribed, Subscribe
  <2>2. handling.key \in wire /\ requests[handling.key].by = Main
    BY <1>0, <2>1, HandledMethod, SenderByMethod DEF RpcInv
  <2>3. UNCHANGED requests
    BY <1>3 DEF Subscribed, Build
  <2> QED
    BY <1>1, <2>2, <2>3 DEF HandshakeInv
<1>4. ASSUME NEW t \in Threads, Lock(t)
      PROVE  HandshakeInv'
  <2>1. /\ pc[t] = "built" /\ pc'[t] = "locked"
        /\ \A u \in Threads \ {t} : pc'[u] = pc[u]
        /\ DOMAIN requests' = 1 .. message_id
        /\ requests'[message_id].by = t
        /\ \A k \in DOMAIN requests : requests'[k] = requests[k]
        /\ wire' = wire
    BY <1>4, LockFootprint DEF wireVars
  <2>2. pc'[Reader] = "built" => \E l \in wire : requests'[l].by = Main
    BY <1>0, <2>1 DEF HandshakeInv
  <2>3. t = Reader => \E l \in wire : l < message_id /\ requests'[l].by = Main
    BY <1>0, <2>1 DEF HandshakeInv
  <2>4. ASSUME t \in Jobs
        PROVE  \E l \in DOMAIN requests : l < message_id /\ requests[l].by = Reader
    <3>1. sub_id # None
      BY <2>1, <2>4 DEF SenderInv, AnyJob
    <3>2. pc[Reader] # "built"
      BY <1>0, <2>1, <2>4 DEF SenderInv
    <3>3. BodyBy(Reader) # {}
      BY <3>1, <3>2 DEF SenderInv
    <3> QED
      BY <1>0, <3>3 DEF BodyBy
  <2>5. \A k \in DOMAIN requests' :
          /\ requests'[k].by = Reader => \E l \in wire : l < k /\ requests'[l].by = Main
          /\ requests'[k].by \in Jobs =>
               \E l \in DOMAIN requests' : l < k /\ requests'[l].by = Reader
    <3> SUFFICES ASSUME NEW k \in DOMAIN requests'
                 PROVE  /\ requests'[k].by = Reader =>
                             \E l \in wire : l < k /\ requests'[l].by = Main
                        /\ requests'[k].by \in Jobs =>
                             \E l \in DOMAIN requests' : l < k /\ requests'[l].by = Reader
      OBVIOUS
    <3>1. CASE k = message_id
      BY <1>0, <2>1, <2>3, <2>4, <3>1
    <3>2. CASE k \in DOMAIN requests
      BY <1>0, <2>1, <3>2 DEF HandshakeInv
    <3> QED
      BY <1>0, <2>1, <3>1, <3>2
  <2> QED
    BY <2>1, <2>2, <2>5 DEF HandshakeInv
<1>5. CASE MainSubscribe \/ \E j \in Jobs : SubmitShare(j)
  BY <1>0, <1>2, <1>5, BuildFootprint DEF MainSubscribe, SubmitShare
<1>6. CASE \E t \in Threads : Wrote(t) \/ WriteFailed(t)
  BY <1>0, <1>2, <1>6, WriteEnds
<1>7. CASE Aside
  BY <1>2, <1>7, AsideFootprint
<1>8. CASE \E j \in Jobs : MineStep(j)
  BY <1>2, <1>8 DEF MineStep, rpcVars
<1> QED
  BY <1>3, <1>4, <1>5, <1>6, <1>7, <1>8, MinerShapes DEF Aside

(* A request the server receives is newer than all others: those are       *)
(* damaged or were received before.                                        *)
LEMMA WireInvNext ==
  ASSUME MinerInv, MinerNext
  PROVE  WireInv'
<1> USE MinerAssumption DEF MinerInv
<1>0. /\ message_id \in Nat \ {0} /\ DOMAIN requests = 1 .. message_id - 1
      /\ wire \subseteq DOMAIN requests
  BY DEF RpcInv, RpcTypeOK
<1>1. wire \subseteq wire' /\ Damaged \subseteq Damaged'
  BY StepsClient, ClientGrows
<1>2. ASSUME wire' = wire, requests' = requests
      PROVE  WireInv'
  BY <1>1, <1>2 DEF WireInv
<1>3. ASSUME NEW t \in Threads, Lock(t)
      PROVE  WireInv'
  <2>1. DOMAIN requests' = 1 .. message_id /\ wire' = wire
    BY <1>3, LockFootprint DEF wireVars
  <2> QED
    BY <1>0, <1>1, <2>1 DEF WireInv
<1>4. ASSUME NEW t \in Threads, Written(t)
      PROVE  WireInv'
  <2>0. requests' = requests
    BY <1>4 DEF Written, Transmit, TransmitPart
  <2>1. CASE wire' = wire
    BY <1>2, <2>0, <2>1
  <2>2. CASE wire' # wire
    <3>1. conn = "up" /\ wire' = wire \union {message_id - 1} /\ pc[t] = "locked"
      BY <1>4, <2>2 DEF Written, Transmit, TransmitPart, LeaveSend, wireVars
    <3>2. wire = DOMAIN requests \ (Damaged \union {message_id - 1})
      BY <3>1 DEF WriteInv, DamageContained, InWrite
    <3>3. \A l \in DOMAIN requests : l < message_id - 1 => l \in wire \union Damaged
      BY <1>0, <3>2
    <3> QED
      BY <1>1, <2>0, <3>1, <3>3 DEF WireInv
  <2> QED
    BY <2>1, <2>2
<1>5. CASE \E t \in Threads : WriteFailed(t)
  BY <1>2, <1>5 DEF WriteFailed, TransmitFails, wireVars
<1>6. CASE \/ MainSubscribe \/ \E id \in {None, Subscription} : Subscribed(id)
           \/ \E j \in Jobs : SubmitShare(j)
  BY <1>2, <1>6 DEF MainSubscribe, Subscribed, SubmitShare, Build, wireVars
<1>7. CASE Aside
  BY <1>2, <1>7, AsideFootprint
<1>8. CASE \E j \in Jobs : MineStep(j)
  BY <1>2, <1>8 DEF MineStep, rpcVars, wireVars
<1> QED
  BY <1>3, <1>4, <1>5, <1>6, <1>7, <1>8, MinerShapes DEF Aside, Wrote

(* A job is stopped when the next one takes its place, and is the last     *)
(* when none can.                                                          *)
LEMMA CurrentInvNext ==
  ASSUME MinerInv, MinerNext
  PROVE  CurrentInv'
<1> USE MinerAssumption DEF MinerInv
<1>0. JobTypeOK /\ job \in Jobs \union {None}
  BY DEF JobInv, MinerTypeOK
<1>1. ASSUME UNCHANGED <<done, job>>,
             \A j \in Jobs : at'[j] = "unborn" <=> at[j] = "unborn",
             reader' \in {"recv", "handling"} => reader \in {"recv", "handling"}
      PROVE  CurrentInv'
  BY <1>0, <1>1 DEF CurrentInv, OneCurrentJob
<1>2. CASE MainConnect
  <2>1. ~AnyJob
    BY <1>2 DEF MainConnect, Connect, WriteInv, SenderInv
  <2>2. UNCHANGED <<at, done, job>>
    BY <1>2 DEF MainConnect, jobVars
  <2> QED
    BY <1>0, <2>1, <2>2 DEF AnyJob, CurrentInv, OneCurrentJob
<1>3. CASE \/ MainSubscribe \/ \E id \in {None, Subscription} : Subscribed(id)
           \/ \E j \in Jobs : SubmitShare(j)
  BY <1>1, <1>3 DEF MainSubscribe, Subscribed, SubmitShare, Build, jobVars, minerVars
<1>4. CASE \E t \in Threads : Lock(t)
  BY <1>1, <1>4 DEF Lock, Register, jobVars, minerVars
<1>5. ASSUME NEW t \in Threads, Wrote(t) \/ WriteFailed(t)
      PROVE  CurrentInv'
  <2>1. /\ UNCHANGED <<done, job>>
        /\ \A j \in Jobs \ {t} : at'[j] = at[j]
        /\ t \in Jobs => at[t] = "yielded" /\ at'[t] \notin {"unborn", "yielded", "hash"}
    BY <1>5, WriteEnds
  <2>2. reader' \in {"recv", "handling"} => reader \in {"recv", "handling"}
    BY <1>5 DEF Wrote, WriteFailed, Written, Transmit, TransmitPart, TransmitFails
  <2> QED
    BY <1>1, <2>1, <2>2
<1>6. CASE Network
  BY <1>1, <1>6 DEF Network, Receive, ReceiveCall, CloseConnection, LoseReader,
                    jobVars, minerVars
<1>7. ASSUME NEW j \in Jobs, Notify(j)
      PROVE  CurrentInv'
  <2>1. /\ at[j] = "unborn" /\ job' = j /\ ~done[j]
        /\ at' = [at EXCEPT ![j] = "created"]
        /\ done' = IF job = None THEN done ELSE [done EXCEPT ![job] = TRUE]
        /\ reader = "handling"
    BY <1>7 DEF Notify, SpawnJobThread, Return, EndHandling, CurrentInv
  <2>2. job # None => job \in Jobs /\ at[job] # "unborn"
    BY <1>0 DEF CurrentInv
  <2> QED
    BY <1>0, <2>1, <2>2 DEF JobTypeOK, CurrentInv, OneCurrentJob
<1>8. CASE NotifyFails
  <2>1. /\ job \in Jobs /\ at[job] # "unborn" /\ done' = [done EXCEPT ![job] = TRUE]
        /\ UNCHANGED <<at, job>> /\ reader' = "crashed"
    BY <1>0, <1>8 DEF NotifyFails, Raise, EndHandling, CurrentInv
  <2> QED
    BY <1>0, <2>1 DEF JobTypeOK, CurrentInv, OneCurrentJob
<1>9. CASE QuietEnd
  BY <1>1, <1>9 DEF QuietEnd, EndHandling, jobVars
<1>10. CASE \E j \in Jobs : MineStep(j)
  <2>1. PICK j \in Jobs : MineStep(j)
    BY <1>10
  <2>2. /\ at[j] # "unborn" /\ at'[j] # "unborn" /\ done' = done
        /\ \A i \in Jobs \ {j} : at'[i] = at[i]
        /\ UNCHANGED <<job, reader>>
    BY <2>1, MineFootprint DEF MineStep, rpcVars, minerVars
  <2> QED
    BY <1>1, <2>2
<1> QED
  BY <1>2, <1>3, <1>4, <1>5, <1>6, <1>7, <1>8, <1>9, <1>10, MinerShapes

(* A share that a job holds is not registered before its job registers it, *)
(* for a job never hashes a position twice.                                *)
LEMMA ShareInvNext ==
  ASSUME MinerInv, MinerNext
  PROVE  ShareInv'
<1> USE MinerAssumption DEF MinerInv
<1>0. /\ Jobs \subseteq Threads
      /\ message_id \in Nat \ {0} /\ DOMAIN requests = 1 .. message_id - 1
  BY DEF RpcInv, RpcTypeOK
<1>1. ASSUME UNCHANGED <<requests, message_id>>,
             \A j \in Jobs : at'[j] = "yielded" =>
               at[j] = "yielded" /\ Cursor(j)' = Cursor(j) /\ pc'[j] = pc[j]
      PROVE  ShareInv'
  BY <1>1 DEF ShareInv
<1>2. CASE MainSubscribe \/ \E id \in {None, Subscription} : Subscribed(id)
  BY <1>0, <1>1, <1>2, BuildFootprint DEF MainSubscribe, Subscribed, jobVars, Cursor
<1>3. ASSUME NEW j \in Jobs, SubmitShare(j)
      PROVE  ShareInv'
  <2>1. /\ pc[j] = "out" /\ \A i \in Threads \ {j} : pc'[i] = pc[i]
        /\ UNCHANGED <<requests, message_id, at>>
        /\ \A i \in Jobs : Cursor(i)' = Cursor(i)
    BY <1>0, <1>3, BuildFootprint DEF SubmitShare, jobVars, Cursor
  <2> QED
    BY <1>0, <2>1 DEF ShareInv
<1>4. ASSUME NEW t \in Threads, Lock(t)
      PROVE  ShareInv'
  <2>1. /\ pc[t] = "built" /\ pc'[t] = "locked"
        /\ \A u \in Threads \ {t} : pc'[u] = pc[u] /\ pc[u] # "locked"
        /\ message_id' = message_id + 1 /\ DOMAIN requests' = 1 .. message_id
        /\ requests'[message_id].by = t
        /\ \A k \in DOMAIN requests : requests'[k] = requests[k]
        /\ at' = at /\ \A i \in Jobs : Cursor(i)' = Cursor(i)
    BY <1>4, LockFootprint DEF jobVars, Cursor
  <2> SUFFICES ASSUME NEW k \in DOMAIN requests', NEW j \in Jobs,
                      requests'[k].by = j, at[j] = "yielded",
                      requests'[k].body.share = Cursor(j)
               PROVE  pc'[j] = "locked" /\ k = message_id
    BY <1>0, <2>1 DEF ShareInv
  <2>2. \A u \in Threads : pc[u] # "locked"
    BY <2>1
  <2>3. k \notin DOMAIN requests
    BY <1>0, <2>1, <2>2 DEF ShareInv
  <2> QED
    BY <1>0, <2>1, <2>3
<1>5. ASSUME NEW t \in Threads, Wrote(t) \/ WriteFailed(t)
      PROVE  ShareInv'
  <2>1. /\ \A u \in Threads \ {t} : pc'[u] = pc[u]
        /\ UNCHANGED <<message_id, requests>>
        /\ \A j \in Jobs \ {t} : at'[j] = at[j] /\ Cursor(j)' = Cursor(j)
        /\ t \in Jobs => at'[t] # "yielded"
    BY <1>5, WriteEnds
  <2> QED
    BY <1>0, <1>1, <2>1
<1>6. CASE Aside
  <2>1. /\ UNCHANGED <<message_id, requests, pc>>
        /\ \A j \in Jobs : Cursor(j)' = Cursor(j)
        /\ \A j \in Jobs : at'[j] = at[j] \/ at'[j] = "created"
    BY <1>6, AsideFootprint
  <2> QED
    BY <1>1, <2>1
<1>7. ASSUME NEW j \in Jobs, MineStep(j)
      PROVE  ShareInv'
  <2>1. /\ \A i \in Jobs \ {j} : at'[i] = at[i] /\ Cursor(i)' = Cursor(i)
        /\ at'[j] = "yielded" => Cursor(j)' = Cursor(j) /\ Cursor(j) \notin tried[j]
        /\ UNCHANGED <<message_id, requests, pc>>
    BY <1>7, MineFootprint DEF MineStep, rpcVars
  <2>2. ASSUME NEW k \in DOMAIN requests, requests[k].by = j,
               requests[k].body.share = Cursor(j)
        PROVE  Cursor(j) \in tried[j]
    <3>1. \E s \in tried[j] : \E w : requests[k].body = Submit(j, s, w)
      BY <2>2 DEF BodyInv
    <3> QED
      BY <2>2, <3>1 DEF Submit
  <2> QED
    BY <2>1, <2>2 DEF ShareInv
<1> QED
  BY <1>2, <1>3, <1>4, <1>5, <1>6, <1>7, MinerShapes DEF Aside

-----------------------------------------------------------------------------
(* The count of accepted shares.                                           *)

(* The replies that can be counted are finitely many. *)
LEMMA RepliesFinite ==
  ASSUME RpcTypeOK
  PROVE  IsFiniteSet(Replies)
<1>1. /\ wire \subseteq 1 .. message_id - 1
      /\ message_id - 1 \in Int /\ MaxAnswers \in Int
  BY RpcAssumption DEF RpcTypeOK
<1>2. IsFiniteSet(1 .. message_id - 1) /\ IsFiniteSet(1 .. MaxAnswers)
  BY <1>1, FS_Interval
<1>3. IsFiniteSet(wire)
  BY <1>1, <1>2, FS_Subset
<1>4. IsFiniteSet(wire \X (1 .. MaxAnswers))
  BY <1>2, <1>3, FS_Product
<1> QED
  BY <1>4, FS_Subset DEF Replies

(* Only requests the server has, and the answers to them, count. *)
LEMMA RepliesKept ==
  ASSUME RpcTypeOK,
         \A k \in wire : requests'[k] = requests[k] /\ answers'[k] = answers[k],
         wire' = wire \/ \E k : wire' = wire \union {k} /\ answers'[k] = 0
  PROVE  Replies' = Replies
<1> USE RpcAssumption DEF Replies, IsSubmit
<1>1. Replies \subseteq Replies'
  OBVIOUS
<1>2. Replies' \subseteq Replies
  <2> SUFFICES ASSUME NEW p \in Replies' PROVE p \in Replies
    OBVIOUS
  <2>1. p[1] \in wire' /\ p[2] \in 1 .. MaxAnswers /\ p[2] <= answers'[p[1]]
    OBVIOUS
  <2>2. p[1] \in wire
    <3>1. answers'[p[1]] # 0
      BY <2>1
    <3> QED
      BY <2>1, <3>1
  <2> QED
    BY <2>1, <2>2
<1> QED
  BY <1>1, <1>2

(* An answer to a submission is one more reply, any other is none. *)
LEMMA ReplyReceived ==
  ASSUME RpcTypeOK, NEW k \in wire, Receive(k)
  PROVE  Cardinality(Replies') =
           IF IsSubmit(requests[k]) THEN Cardinality(Replies) + 1
                                    ELSE Cardinality(Replies)
<1> USE RpcAssumption
<1>1. /\ k \in DOMAIN requests /\ answers[k] \in Nat /\ answers[k] < MaxAnswers
      /\ answers'[k] = answers[k] + 1
      /\ \A l \in wire \ {k} : answers'[l] = answers[l]
      /\ \A l \in wire : answers[l] \in Nat
      /\ wire' = wire /\ requests' = requests
  BY DEF Receive, RpcTypeOK, wireVars
<1>2. CASE IsSubmit(requests[k])
  <2> DEFINE new == <<k, answers[k] + 1>>
  <2>1. new \notin Replies
    BY <1>1 DEF Replies
  <2>2. Replies' = Replies \union {new}
    <3>1. ASSUME NEW p \in wire \X (1 .. MaxAnswers)
          PROVE  p[2] <= answers'[p[1]] <=> p[2] <= answers[p[1]] \/ p = new
      BY <1>1
    <3>2. new \in wire \X (1 .. MaxAnswers)
      BY <1>1
    <3>3. Replies' = {p \in wire \X (1 .. MaxAnswers) :
                        IsSubmit(requests[p[1]]) /\ p[2] <= answers'[p[1]]}
      BY <1>1 DEF Replies, IsSubmit
    <3> HIDE DEF new
    <3>4. new[1] = k
      BY DEF new
    <3> QED
      BY <1>2, <3>1, <3>2, <3>3, <3>4 DEF Replies
  <2> HIDE DEF new
  <2> QED
    BY <1>2, <2>1, <2>2, RepliesFinite, FS_AddElement
<1>3. CASE ~IsSubmit(requests[k])
  <2>1. Replies' = Replies
    BY <1>1, <1>3 DEF Replies, IsSubmit
  <2> QED
    BY <1>3, <2>1
<1> QED
  BY <1>2, <1>3

(* The reply being handled is a reply to a submission and not yet counted. *)
Uncounted == handling.key # 0 /\ IsSubmit(requests[handling.key])

(* A handler that returns has counted the reply if it is one to a          *)
(* submission.                                                             *)
LEMMA HandlersCount ==
  ASSUME MinerInv, Handle, reader' \in {"recv", "handling"}
  PROVE  /\ UNCHANGED <<requests, wire, answers>>
         /\ reader = "handling"
         /\ \/ accepted' = accepted /\ (Uncounted' <=> Uncounted)
            \/ accepted' = accepted + 1 /\ Uncounted /\ ~Uncounted'
<1> USE DEF MinerInv, Uncounted, IsSubmit, NoMessage
<1>1. handling.key \in wire \/ handling = NoMessage
  BY DEF HandlingInv
<1>2. wire \subseteq DOMAIN requests /\ \A k \in wire : k # 0
  BY DEF RpcInv, RpcTypeOK
<1>3. ASSUME NEW method, Answers(method)
      PROVE  /\ handling.key \in wire /\ handling.key # 0
             /\ requests[handling.key].body.method = method
  BY <1>2, <1>3, HandledMethod DEF Answers
<1>4. CASE \E j \in Jobs : Notify(j)
  BY <1>4 DEF Notify, Return, EndHandling, wireVars
<1>5. CASE NotifyFails
  BY <1>5 DEF NotifyFails, Raise, EndHandling
<1>6. CASE \E t \in Targets : SetDifficulty(t)
  BY <1>6 DEF SetDifficulty, Return, EndHandling, wireVars
<1>7. CASE BadCall \/ SubscribeRaises \/ Refused \/ AuthorizedAgain \/ ShareRejected
  BY <1>7 DEF BadCall, SubscribeRaises, Refused, AuthorizedAgain, ShareRejected,
              Raise, EndHandling
<1>8. CASE \E id \in {None, Subscription} : Subscribed(id)
  BY <1>8 DEF Subscribed, Build, wireVars
<1>9. CASE SubscribedReturns
  <2>1. \A k \in DOMAIN requests : requests[k].by \notin Jobs
    <3> SUFFICES ASSUME NEW k \in DOMAIN requests, requests[k].by \in Jobs PROVE FALSE
      OBVIOUS
    <3>1. tried[requests[k].by] # {}
      BY DEF BodyInv
    <3> QED
      BY <1>9, <3>1 DEF SubscribedReturns, SenderInv, AnyJob, JobInv, SearchInv
  <2>2. ~Uncounted
    BY <1>1, <1>2, <2>1, SenderByMethod DEF RpcInv
  <2> QED
    BY <1>9, <2>2 DEF SubscribedReturns, Return, EndHandling, wireVars
<1>10. CASE Authorized
  <2>1. requests[handling.key].body.method = "mining.authorize"
    BY <1>3, <1>10 DEF Authorized
  <2> QED
    BY <1>10, <2>1 DEF Authorized, Return, EndHandling, wireVars
<1>11. CASE ShareAccepted
  <2>1. handling.key # 0 /\ requests[handling.key].body.method = "mining.submit"
    BY <1>3, <1>11 DEF ShareAccepted
  <2> QED
    BY <1>11, <2>1 DEF ShareAccepted, Return, EndHandling, wireVars
<1> QED
  BY <1>4, <1>5, <1>6, <1>7, <1>8, <1>9, <1>10, <1>11 DEF Handle

(* Every step keeps the count of the acceptances that were handled. *)
LEMMA CountInvNext ==
  ASSUME MinerInv, MinerNext
  PROVE  CountInv'
<1> USE MinerAssumption DEF MinerInv
<1> DEFINE Counting == {"off", "recv", "handling"}
<1>0. /\ RpcTypeOK /\ message_id \in Nat \ {0}
      /\ DOMAIN requests = 1 .. message_id - 1 /\ wire \subseteq DOMAIN requests
      /\ handling.key \in wire \/ handling = NoMessage
  BY DEF RpcInv, RpcTypeOK, HandlingInv
<1>1. ASSUME UNCHANGED <<requests, wire, answers>>,
             reader' \in Counting =>
               /\ reader \in Counting
               /\ \/ accepted' = accepted /\ (Uncounted' <=> Uncounted)
                  \/ accepted' = accepted + 1 /\ Uncounted /\ ~Uncounted'
      PROVE  CountInv'
  <2>1. Replies' = Replies
    BY <1>0, <1>1, RepliesKept
  <2> QED
    BY <1>1, <2>1 DEF CountInv, Uncounted
<1>2. ASSUME UNCHANGED <<requests, wire, answers, handling, accepted>>,
             reader' \in Counting => reader \in Counting
      PROVE  CountInv'
  BY <1>1, <1>2 DEF Uncounted, IsSubmit
<1>3. CASE MainConnect
  BY <1>2, <1>3 DEF MainConnect, Connect, wireVars
<1>4. CASE MainSubscribe \/ \E id \in {None, Subscription} : Subscribed(id)
  BY <1>2, <1>4 DEF MainSubscribe, Subscribed, Build, wireVars
<1>5. CASE \E j \in Jobs : SubmitShare(j)
  BY <1>2, <1>5 DEF SubmitShare, Build, wireVars, minerVars
<1>6. CASE \E j \in Jobs : MineStep(j)
  BY <1>2, <1>6 DEF MineStep, rpcVars, wireVars, minerVars
<1>8. ASSUME NEW t \in Threads, Lock(t)
      PROVE  CountInv'
  <2>1. /\ DOMAIN requests' = 1 .. message_id
        /\ \A k \in DOMAIN requests :
             requests'[k] = requests[k] /\ answers'[k] = answers[k]
        /\ answers'[message_id] = 0
        /\ wire' = wire /\ handling' = handling /\ accepted' = accepted
        /\ reader' = reader
    BY <1>8, LockFootprint DEF wireVars, minerVars
  <2>2. Replies' = Replies
    BY <1>0, <2>1, RepliesKept
  <2>3. Uncounted' <=> Uncounted
    BY <1>0, <2>1 DEF Uncounted, IsSubmit, NoMessage
  <2> QED
    BY <1>0, <2>1, <2>2, <2>3 DEF CountInv, Uncounted
<1>7. CASE Network
  <2>0. accepted' = accepted
    BY <1>7 DEF Network, minerVars
  <2>1. CASE CloseConnection \/ LoseReader
    BY <1>2, <2>0, <2>1 DEF CloseConnection, LoseReader, wireVars
  <2>2. CASE ReceiveCall
    BY <1>2, <2>0, <2>2 DEF ReceiveCall, HandlingInv, wireVars
  <2>3. ASSUME NEW k \in wire, Receive(k)
        PROVE  CountInv'
    <3>1. /\ handling = NoMessage /\ handling'.key = k /\ k # 0 /\ reader = "recv"
          /\ wire' = wire /\ requests' = requests
      BY <1>0, <2>3 DEF Receive, HandlingInv, wireVars
    <3>2. Cardinality(Replies) = accepted
      BY <3>1 DEF CountInv, NoMessage
    <3>3. \A l \in DOMAIN requests \ wire : answers'[l] = 0
      BY <1>0, <2>3 DEF Receive, RpcTypeOK, CountInv
    <3>4. Uncounted' <=> IsSubmit(requests[k])
      BY <3>1 DEF Uncounted, IsSubmit
    <3> QED
      BY <1>0, <2>0, <2>3, <3>1, <3>2, <3>3, <3>4, ReplyReceived DEF CountInv, Uncounted
  <2> QED
    BY <1>7, <2>1, <2>2, <2>3 DEF Network
<1>9. CASE Handle
  <2>1. reader' \in Counting => reader' \in {"recv", "handling"}
    BY <1>9, HandlerShapes DEF Subscribed, Build, Notify, NotifyFails, QuietEnd, Return,
                               Raise, EndHandling, Deaths
  <2>2. UNCHANGED <<requests, wire, answers>>
    BY <1>9, HandlerShapes DEF Subscribed, Build, Notify, NotifyFails, QuietEnd, Return,
                               Raise, EndHandling, wireVars
  <2> QED
    BY <1>1, <1>9, <2>1, <2>2, HandlersCount
<1>10. ASSUME NEW t \in Threads, Written(t), accepted' = accepted
       PROVE  CountInv'
  <2>1. /\ UNCHANGED <<requests, answers, handling, reader>>
        /\ \/ wire' = wire
           \/ wire' = wire \union {message_id - 1} /\ pc[t] = "locked"
    BY <1>10 DEF Written, Transmit, TransmitPart, LeaveSend, wireVars
  <2>2. CASE wire' = wire
    BY <1>2, <1>10, <2>1, <2>2
  <2>3. CASE wire' = wire \union {message_id - 1} /\ message_id - 1 \in wire
    BY <1>2, <1>10, <2>1, <2>3
  <2>4. CASE /\ wire' = wire \union {message_id - 1} /\ message_id - 1 \notin wire
             /\ pc[t] = "locked"
    <3>1. answers[message_id - 1] = 0
      BY <1>0, <2>4 DEF CountInv, RpcInv, SendInv
    <3>2. Replies' = Replies
      BY <1>0, <2>1, <2>4, <3>1, RepliesKept
    <3>3. Uncounted' <=> Uncounted
      BY <2>1 DEF Uncounted, IsSubmit
    <3> QED
      BY <1>10, <2>1, <2>4, <3>2, <3>3 DEF CountInv, Uncounted
  <2> QED
    BY <2>1, <2>2, <2>3, <2>4
<1>11. CASE \E t \in Threads : Wrote(t)
  BY <1>10, <1>11 DEF Wrote, minerVars
<1>12. CASE \E t \in Threads : WriteFailed(t)
  <2>1. /\ UNCHANGED <<requests, wire, answers, accepted>>
        /\ \/ handling' = handling /\ reader' = reader
           \/ reader' = "crashed"
    BY <1>12 DEF WriteFailed, TransmitFails, wireVars
  <2>2. handling' = handling => (Uncounted' <=> Uncounted)
    BY <2>1 DEF Uncounted, IsSubmit
  <2> QED
    BY <1>1, <2>1, <2>2
<1> HIDE DEF Counting
<1> QED
  BY <1>3, <1>4, <1>5, <1>6, <1>7, <1>8, <1>9, <1>11, <1>12, MinerShapes DEF Handle

-----------------------------------------------------------------------------
(* The inductive invariant.                                                *)

(* Before the main thread starts nothing is sent, mined or counted. *)
LEMMA MinerInvInit == MinerInit => MinerInv
<1> SUFFICES ASSUME MinerInit PROVE MinerInv
  OBVIOUS
<1> USE MinerAssumption DEF MinerInit
<1>1. RpcInv /\ WriteInv /\ JobInv
  BY RpcInvInit, WriteInvInit, JobInvInit
<1>2. MinerTypeOK
  BY <1>1, JobAssumption DEF MinerTypeOK, RpcInv, JobInv
<1>3. SenderInv
  BY DEF SenderInv, RpcInit, JobInit, AnyJob, NoMessage
<1>4. BodyInv /\ KeyInv /\ HandlingInv /\ HandshakeInv /\ WireInv /\ ShareInv
  BY DEF BodyInv, KeyInv, HandlingInv, HandshakeInv, WireInv, ShareInv, RpcInit, NoMessage
<1>5. CurrentInv
  BY DEF CurrentInv, OneCurrentJob, JobInit
<1>6. CountInv
  <2>1. Replies = {}
    BY DEF Replies, RpcInit
  <2> QED
    BY <2>1, FS_EmptySet DEF CountInv, RpcInit, NoMessage
<1> QED
  BY <1>1, <1>2, <1>3, <1>4, <1>5, <1>6 DEF MinerInv

(* Every step keeps every part of the invariant. *)
LEMMA MinerInvNext == MinerInv /\ [MinerNext]_vars => MinerInv'
<1> SUFFICES ASSUME MinerInv, [MinerNext]_vars PROVE MinerInv'
  OBVIOUS
<1>1. CASE MinerNext
  <2>1. MinerTypeOK' /\ RpcInv' /\ WriteInv' /\ JobInv'
    BY <1>1, MinerTypeNext, ComponentsNext
  <2>2. SenderInv' /\ BodyInv' /\ KeyInv' /\ HandlingInv' /\ HandshakeInv' /\ WireInv'
    BY <1>1, SenderInvNext, BodyInvNext, KeyInvNext, HandlingInvNext, HandshakeInvNext,
       WireInvNext
  <2>3. CurrentInv' /\ ShareInv' /\ CountInv'
    BY <1>1, CurrentInvNext, ShareInvNext, CountInvNext
  <2> QED
    BY <2>1, <2>2, <2>3 DEF MinerInv
<1>2. CASE UNCHANGED vars
  <2> USE <1>2 DEF vars, minerVars, subscriptionVars, MinerInv
  <2>1. UNCHANGED rpcVars /\ UNCHANGED jobVars
    OBVIOUS
  <2>2. RpcInv' /\ WriteInv' /\ JobInv'
    BY <2>1, RpcInvNext, WriteInvNext, JobInvNext
  <2>3. MinerTypeOK'
    BY <2>2 DEF MinerTypeOK, RpcInv, JobInv
  <2>4. \A j \in Jobs : Cursor(j)' = Cursor(j)
    BY DEF jobVars, Cursor
  <2> USE DEF rpcVars, wireVars, jobVars
  <2>5. SenderInv'
    BY DEF SenderInv, AnyJob, BodyBy
  <2>6. BodyInv'
    BY <2>4 DEF BodyInv
  <2>7. KeyInv' /\ HandlingInv' /\ HandshakeInv'
    BY DEF KeyInv, HandlingInv, HandshakeInv
  <2>8. WireInv' /\ CurrentInv'
    BY DEF WireInv, Damaged, CurrentInv, OneCurrentJob
  <2>9. ShareInv'
    BY <2>4 DEF ShareInv
  <2>10. CountInv'
    BY DEF CountInv, Replies, IsSubmit
  <2> QED
    BY <2>2, <2>3, <2>5, <2>6, <2>7, <2>8, <2>9, <2>10
<1> QED
  BY <1>1, <1>2

(* The inductive invariant of the miner. *)
THEOREM MinerInvariant == MinerSpec => []MinerInv
<1>1. MinerInv /\ [][MinerNext]_vars => []MinerInv
  BY MinerInvNext, PTL
<1> QED
  BY <1>1, MinerInvInit, PTL DEF MinerSpec

(* Type correctness of the miner. *)
THEOREM MinerTypeCorrect == MinerSpec => []MinerTypeOK
<1>1. MinerInv => MinerTypeOK
  BY DEF MinerInv
<1> QED
  BY <1>1, MinerInvariant, PTL

(* Requests whose ids collide are of the same method, so a reply reaches   *)
(* the branch for its request whichever of them it finds.                  *)
THEOREM MinerMethodAttribution == MinerSpec => []MethodAttribution
<1>1. MinerInv => MethodAttribution
  <2> SUFFICES ASSUME MinerInv, NEW k \in wire
               PROVE  requests[requests[k].id].body.method = requests[k].body.method
    BY DEF MethodAttribution
  <2>1. k \in DOMAIN requests /\ requests[k].id \in DOMAIN requests
    BY LookupFinds DEF MinerInv, RpcInv, RpcTypeOK
  <2> QED
    BY <2>1, SenderByMethod DEF MinerInv, KeyInv, RpcInv
<1> QED
  BY <1>1, MinerInvariant, PTL

(* No share reaches the server before the request for authorization, nor   *)
(* that one before the subscription, unless they were damaged on the way.  *)
THEOREM MinerHandshakeOrder == MinerSpec => []HandshakeOrder
<1>1. MinerInv => HandshakeOrder
  <2> SUFFICES ASSUME MinerInv, NEW k \in wire
               PROVE  /\ requests[k].body.method = "mining.authorize"
                           => WrittenBefore(k, "mining.subscribe")
                      /\ IsSubmit(requests[k]) => WrittenBefore(k, "mining.authorize")
    BY DEF HandshakeOrder
  <2>1. k \in DOMAIN requests /\ wire \subseteq DOMAIN requests
    BY DEF MinerInv, RpcInv, RpcTypeOK
  <2>2. CASE requests[k].by = Reader
    <3>1. PICK l \in wire : l < k /\ requests[l].by = Main
      BY <2>1, <2>2 DEF MinerInv, HandshakeInv
    <3>2. requests[l].body.method = "mining.subscribe"
      BY <2>1, <3>1, SenderByMethod DEF MinerInv, RpcInv
    <3> QED
      BY <2>1, <2>2, <3>1, <3>2, SenderByMethod, MinerAssumption
         DEF MinerInv, RpcInv, WrittenBefore, IsSubmit
  <2>3. CASE requests[k].by \in Jobs
    <3>1. PICK l \in DOMAIN requests : l < k /\ requests[l].by = Reader
      BY <2>1, <2>3 DEF MinerInv, HandshakeInv
    <3>2. requests[l].body.method = "mining.authorize"
      BY <3>1, SenderByMethod DEF MinerInv, RpcInv
    <3>3. l \in wire \union Damaged
      BY <3>1 DEF MinerInv, WireInv
    <3> QED
      BY <2>1, <2>3, <3>1, <3>2, <3>3, SenderByMethod, MinerAssumption
         DEF MinerInv, RpcInv, WrittenBefore, IsSubmit
  <2> QED
    BY <2>1, <2>2, <2>3, SenderByMethod DEF MinerInv, RpcInv, IsSubmit
<1> QED
  BY <1>1, MinerInvariant, PTL

(* Every reply to a submission is counted once. *)
THEOREM MinerAcceptedCounted == MinerSpec => []AcceptedCounted
<1>1. MinerInv => AcceptedCounted
  BY DEF MinerInv, CountInv, HandlingInv, NoMessage, AcceptedCounted
<1> QED
  BY <1>1, MinerInvariant, PTL

(* All jobs but the one the miner holds have been asked to stop. *)
THEOREM MinerOneCurrentJob == MinerSpec => []OneCurrentJob
<1>1. MinerInv => OneCurrentJob
  BY DEF MinerInv, CurrentInv
<1> QED
  BY <1>1, MinerInvariant, PTL

(* The invariants of the client hold in the miner too. *)
THEOREM MinerClient ==
  MinerSpec => [](/\ LockDiscipline
                  /\ RepliesFindRequest
                  /\ CollisionsAcrossThreads
                  /\ DamageContained)
<1>1. MinerInv => /\ LockDiscipline
                  /\ RepliesFindRequest
                  /\ CollisionsAcrossThreads
                  /\ DamageContained
  <2> SUFFICES ASSUME MinerInv PROVE RepliesFindRequest
    BY DEF MinerInv, RpcInv, WriteInv
  <2>1. \A k \in wire : k \in DOMAIN requests
    BY DEF MinerInv, RpcInv, RpcTypeOK
  <2> QED
    BY <2>1, LookupFinds DEF MinerInv, RpcInv, RepliesFindRequest
<1> QED
  BY <1>1, MinerInvariant, PTL

(* The target of a job that exists never changes: a new difficulty applies *)
(* to future work.                                                         *)
THEOREM MinerFutureWorkOnly == MinerSpec => FutureWorkOnly
<1> DEFINE Kept == \A j \in Jobs : at[j] # "unborn" => target'[j] = target[j]
<1>1. MinerInv /\ [MinerNext]_vars => [Kept]_vars
  <2> SUFFICES ASSUME MinerInv, MinerNext PROVE Kept
    OBVIOUS
  <2>1. CASE UNCHANGED jobVars
    BY <2>1 DEF jobVars
  <2>2. CASE \E t \in Threads : Wrote(t) \/ WriteFailed(t)
    BY <2>2, WriteEnds DEF MinerInv
  <2>3. CASE Aside
    BY <2>3, AsideFootprint DEF MinerInv
  <2>4. CASE \E j \in Jobs : MineStep(j)
    BY <2>4, MineFootprint DEF MineStep, MinerInv
  <2> QED
    BY <2>1, <2>2, <2>3, <2>4, MinerShapes
       DEF Aside, MainSubscribe, Subscribed, SubmitShare, Lock
<1>2. MinerSpec => [][Kept]_vars
  BY <1>1, MinerInvariant, PTL DEF MinerSpec
<1> QED
  BY <1>2 DEF FutureWorkOnly

-----------------------------------------------------------------------------
(* What the pool sees: every step of the miner is one that WorkShares      *)
(* allows, or none to the pool.                                            *)

CurrentWork == IF job # None /\ done[job] THEN None ELSE job

KnownWork == {j \in Jobs : at[j] # "unborn"}

(* A job that holds a share or hashes is current, or superseded. *)
LEMMA CurrentOrSuperseded ==
  ASSUME CurrentInv, NEW j \in Jobs, at[j] \in {"hash", "yielded"}
  PROVE  IF done[j] THEN j \in Superseded ELSE CurrentWork = j /\ j # None
BY MinerAssumption DEF CurrentInv, OneCurrentJob, Superseded, CurrentWork

(* A job that has ended its attempt or its share is no longer superseded. *)
LEMMA SupersededEnds ==
  ASSUME NEW j \in Jobs, done' = done, at'[j] \notin {"hash", "yielded"},
         \A i \in Jobs \ {j} : at'[i] = at[i]
  PROVE  Superseded' = Superseded \ {j}
BY DEF Superseded

(* What is registered without being received is not seen. *)
LEMMA SharesKept ==
  ASSUME wire' = wire, \A k \in wire : requests'[k] = requests[k]
  PROVE  SharesOnWire' = SharesOnWire
BY DEF SharesOnWire, IsSubmit

(* The handshake is not seen either. *)
LEMMA HandshakeUnseen ==
  ASSUME requests' = requests, NEW k, wire' = wire \union {k}, ~IsSubmit(requests[k])
  PROVE  SharesOnWire' = SharesOnWire
BY DEF SharesOnWire, IsSubmit

(* A submission that is received adds its share. *)
LEMMA ShareSeen ==
  ASSUME requests' = requests, NEW k, wire' = wire \union {k},
         NEW j, NEW s, NEW w, requests[k].body = Submit(j, s, w)
  PROVE  SharesOnWire' = SharesOnWire \union {<<j, s>>}
<1>1. /\ IsSubmit(requests[k])
      /\ requests[k].body.job = j /\ requests[k].body.share = s
  BY DEF Submit, IsSubmit
<1> QED
  BY <1>1 DEF SharesOnWire, IsSubmit

(* The share that a job writes was not received before. *)
LEMMA ShareIsNew ==
  ASSUME MinerInv, NEW j \in Jobs, pc[j] = "locked", conn = "up"
  PROVE  /\ \E w : requests[message_id - 1].body = Submit(j, Cursor(j), w)
         /\ <<j, Cursor(j)>> \notin SharesOnWire
<1> USE DEF MinerInv
<1>1. \E w : requests[message_id - 1].body = Submit(j, Cursor(j), w)
  BY MinerAssumption DEF BodyInv
<1>2. ASSUME NEW k \in wire, IsSubmit(requests[k]),
             requests[k].body.job = j, requests[k].body.share = Cursor(j)
      PROVE  FALSE
  <2>1. k \in DOMAIN requests /\ requests[k].by \in Jobs
    BY <1>2, SenderByMethod DEF RpcInv, RpcTypeOK, IsSubmit
  <2>2. \E s, w : requests[k].body = Submit(requests[k].by, s, w)
    BY <2>1 DEF BodyInv
  <2>3. requests[k].by = j
    BY <1>2, <2>2 DEF Submit
  <2>4. k = message_id - 1
    BY <1>2, <2>1, <2>3 DEF ShareInv, SenderInv
  <2>5. k \in InWrite
    BY <2>4, MinerAssumption DEF InWrite
  <2> QED
    BY <1>2, <2>5 DEF WriteInv, DamageContained
<1> QED
  BY <1>1, <1>2 DEF SharesOnWire

(* The steps the pool does not see. *)
LEMMA PoolStutters ==
  ASSUME CurrentWork' = CurrentWork, KnownWork' = KnownWork,
         Superseded' = Superseded, SharesOnWire' = SharesOnWire
  PROVE  UNCHANGED Pool!workVars
BY DEF Pool!workVars, CurrentWork, KnownWork

(* Before the first work the pool has handed out none. *)
LEMMA PoolInit == MinerInit => Pool!WorkInit
BY DEF MinerInit, JobInit, RpcInit, Pool!WorkInit, Superseded, SharesOnWire

(* mining.notify is new work. *)
LEMMA NotifyHandsOut ==
  ASSUME MinerInv, NEW j \in Jobs, Notify(j)
  PROVE  Pool!HandOut(j)
<1> USE MinerAssumption DEF MinerInv
<1>1. /\ at[j] = "unborn" /\ at' = [at EXCEPT ![j] = "created"] /\ job' = j /\ ~done[j]
      /\ done' = IF job = None THEN done ELSE [done EXCEPT ![job] = TRUE]
      /\ wire' = wire /\ requests' = requests
  BY DEF Notify, SpawnJobThread, Return, EndHandling, CurrentInv, wireVars
<1>2. JobTypeOK /\ (job # None => job \in Jobs /\ job # j)
  BY <1>1 DEF JobInv, MinerTypeOK, CurrentInv
<1>3. j \notin KnownWork /\ KnownWork' = KnownWork \union {j}
  BY <1>1, <1>2 DEF KnownWork, JobTypeOK
<1>4. CurrentWork' = j
  BY <1>1, <1>2 DEF CurrentWork, JobTypeOK
<1>5. \/ Superseded' = Superseded
      \/ CurrentWork # None /\ Superseded' = Superseded \union {CurrentWork}
  <2>1. CASE job = None
    BY <1>1, <1>2, <2>1 DEF Superseded, JobTypeOK
  <2>2. CASE job # None /\ done[job]
    BY <1>1, <1>2, <2>2 DEF Superseded, JobTypeOK
  <2>3. CASE job # None /\ ~done[job]
    <3>1. CurrentWork = job
      BY <2>3 DEF CurrentWork
    <3>2. \A i \in Jobs \ {job} : i \in Superseded' <=> i \in Superseded
      BY <1>1, <1>2, <2>3 DEF Superseded, JobTypeOK
    <3> QED
      BY <1>2, <2>3, <3>1, <3>2 DEF Superseded
  <2> QED
    BY <2>1, <2>2, <2>3
<1>6. SharesOnWire' = SharesOnWire
  BY <1>1, SharesKept
<1> QED
  BY <1>3, <1>4, <1>5, <1>6 DEF Pool!HandOut, CurrentWork, KnownWork

(* A notification that fails gives the current work up. *)
LEMMA NotifyFailsWithdraws ==
  ASSUME MinerInv, NotifyFails
  PROVE  Pool!Withdraw
<1> USE MinerAssumption DEF MinerInv
<1>1. /\ job # None /\ job \in Jobs /\ job' = job /\ at' = at
      /\ done' = [done EXCEPT ![job] = TRUE]
      /\ wire' = wire /\ requests' = requests
      /\ JobTypeOK /\ ~done[job]
  BY DEF NotifyFails, Raise, EndHandling, CurrentInv, OneCurrentJob, JobInv, MinerTypeOK,
         wireVars
<1>2. CurrentWork = job /\ CurrentWork' = None /\ KnownWork' = KnownWork
  BY <1>1 DEF CurrentWork, KnownWork, JobTypeOK
<1>3. Superseded' \in {Superseded, Superseded \union {job}}
  <2>1. \A i \in Jobs \ {job} : i \in Superseded' <=> i \in Superseded
    BY <1>1 DEF Superseded, JobTypeOK
  <2> QED
    BY <1>1, <2>1 DEF Superseded
<1>4. SharesOnWire' = SharesOnWire
  BY <1>1, SharesKept
<1> QED
  BY <1>1, <1>2, <1>3, <1>4 DEF Pool!Withdraw, CurrentWork, KnownWork

(* A job that mines is not seen, but for the attempt of a superseded job   *)
(* that was no share.                                                      *)
LEMMA MiningInPool ==
  ASSUME MinerInv, NEW j \in Jobs, MineStep(j)
  PROVE  Pool!NoLastShare(j) \/ UNCHANGED Pool!workVars
<1> USE DEF MinerInv
<1>1. /\ at[j] # "unborn" /\ at'[j] # "unborn"
      /\ \A i \in Jobs \ {j} : at'[i] = at[i]
      /\ done' = done /\ job' = job /\ wire' = wire /\ requests' = requests
  BY MineFootprint DEF MineStep, rpcVars, wireVars, minerVars
<1>2. /\ CurrentWork' = CurrentWork /\ KnownWork' = KnownWork
      /\ SharesOnWire' = SharesOnWire
  BY <1>1, SharesKept DEF CurrentWork, KnownWork
<1>3. CASE Superseded' = Superseded
  BY <1>2, <1>3, PoolStutters
<1>4. CASE Begin(j) \/ Check(j)
  <2>1. j \notin Superseded /\ j \notin Superseded'
    BY <1>1, <1>4 DEF Begin, Check, Superseded, JobInv, JobTypeOK
  <2>2. Superseded' = Superseded
    BY <1>1, <2>1 DEF Superseded
  <2> QED
    BY <1>3, <2>2
<1>5. CASE Find(j)
  BY <1>1, <1>3, <1>5 DEF Find, Attempt, Superseded, JobInv, JobTypeOK
<1>6. CASE Miss(j)
  <2>1. at'[j] \notin {"hash", "yielded"}
    BY <1>6 DEF Miss, Attempt, Advance, JobInv, JobTypeOK
  <2>2. Superseded' = Superseded \ {j}
    BY <1>1, <2>1, SupersededEnds
  <2>3. CASE j \in Superseded
    BY <1>2, <2>2, <2>3 DEF Pool!NoLastShare, CurrentWork, KnownWork
  <2>4. CASE j \notin Superseded
    BY <1>3, <2>2, <2>4
  <2> QED
    BY <2>3, <2>4
<1> QED
  BY <1>4, <1>5, <1>6 DEF MineStep, Mine

(* The end of a submission: the pool has one more share of the current     *)
(* work, or the last of superseded work, or the share is lost.             *)
LEMMA SubmissionInPool ==
  ASSUME MinerInv, NEW j \in Jobs, Wrote(j) \/ WriteFailed(j)
  PROVE  \/ Pool!CurrentShare(Cursor(j))
         \/ Pool!LastShare(j, Cursor(j))
         \/ Pool!NoLastShare(j)
         \/ UNCHANGED Pool!workVars
<1> USE MinerAssumption DEF MinerInv
<1>1. /\ pc[j] = "locked" /\ at[j] = "yielded"
      /\ at'[j] \notin {"unborn", "yielded", "hash"}
      /\ \A i \in Jobs \ {j} : at'[i] = at[i]
      /\ UNCHANGED <<done, requests, job>>
  BY WriteEnds
<1>2. Superseded' = Superseded \ {j} /\ (done[j] <=> j \in Superseded)
  BY <1>1, SupersededEnds DEF Superseded
<1>3. CurrentWork' = CurrentWork /\ KnownWork' = KnownWork
  BY <1>1 DEF CurrentWork, KnownWork
<1>4. IF done[j] THEN j \in Superseded ELSE CurrentWork = j /\ j # None
  BY <1>1, CurrentOrSuperseded
<1>5. CASE wire' = wire
  <2>1. SharesOnWire' = SharesOnWire
    BY <1>1, <1>5, SharesKept
  <2>2. CASE done[j]
    BY <1>2, <1>3, <1>4, <2>1, <2>2 DEF Pool!NoLastShare, CurrentWork, KnownWork
  <2>3. CASE ~done[j]
    BY <1>2, <1>3, <2>1, <2>3, PoolStutters
  <2> QED
    BY <2>2, <2>3
<1>6. CASE conn = "up" /\ wire' = wire \union {message_id - 1}
  <2>1. /\ \E w : requests[message_id - 1].body = Submit(j, Cursor(j), w)
        /\ <<j, Cursor(j)>> \notin SharesOnWire
    BY <1>1, <1>6, ShareIsNew
  <2>2. SharesOnWire' = SharesOnWire \union {<<j, Cursor(j)>>}
    BY <1>1, <1>6, <2>1, ShareSeen
  <2>3. CASE done[j]
    BY <1>2, <1>3, <1>4, <2>1, <2>2, <2>3 DEF Pool!LastShare, CurrentWork, KnownWork
  <2>4. CASE ~done[j]
    BY <1>2, <1>3, <1>4, <2>1, <2>2, <2>4 DEF Pool!CurrentShare, CurrentWork, KnownWork
  <2> QED
    BY <2>3, <2>4
<1> QED
  BY <1>5, <1>6
     DEF Wrote, WriteFailed, Written, Transmit, TransmitPart, TransmitFails, wireVars

(* The end of a write of the handshake. *)
LEMMA HandshakeInPool ==
  ASSUME MinerInv, NEW t \in Threads \ Jobs, Wrote(t) \/ WriteFailed(t)
  PROVE  UNCHANGED Pool!workVars
<1> USE MinerAssumption DEF MinerInv
<1>1. UNCHANGED <<at, done, job, requests>> /\ pc[t] = "locked"
  BY WriteEnds DEF Wrote, WriteFailed, jobVars
<1>2. CurrentWork' = CurrentWork /\ KnownWork' = KnownWork /\ Superseded' = Superseded
  BY <1>1 DEF CurrentWork, KnownWork, Superseded
<1>3. ~IsSubmit(requests[message_id - 1])
  BY <1>1 DEF BodyInv, IsSubmit, Subscribe, Authorize
<1>4. wire' = wire \/ wire' = wire \union {message_id - 1}
  BY DEF Wrote, WriteFailed, Written, Transmit, TransmitPart, TransmitFails, wireVars
<1>5. SharesOnWire' = SharesOnWire
  BY <1>1, <1>3, <1>4, SharesKept, HandshakeUnseen
<1> QED
  BY <1>2, <1>5, PoolStutters

(* Every step of the miner, as the pool sees it. *)
LEMMA PoolNext == MinerInv /\ [MinerNext]_vars => [Pool!WorkNext]_(Pool!workVars)
<1> SUFFICES ASSUME MinerInv, [MinerNext]_vars
             PROVE  [Pool!WorkNext]_(Pool!workVars)
  OBVIOUS
<1> USE MinerAssumption
<1>1. ASSUME UNCHANGED <<at, done, job, wire>>, \A k \in wire : requests'[k] = requests[k]
      PROVE  UNCHANGED Pool!workVars
  BY <1>1, SharesKept, PoolStutters DEF CurrentWork, KnownWork, Superseded
<1>2. CASE \/ MainConnect \/ MainSubscribe \/ Network \/ QuietEnd
           \/ \E id \in {None, Subscription} : Subscribed(id)
           \/ \E j \in Jobs : SubmitShare(j)
  <2>1. UNCHANGED <<at, done, job, wire, requests>>
    BY <1>2 DEF MainConnect, Connect, MainSubscribe, Network, QuietEnd, Subscribed,
                SubmitShare, Build, Receive, ReceiveCall, CloseConnection, LoseReader,
                EndHandling, jobVars, minerVars, wireVars
  <2> QED
    BY <1>1, <2>1
<1>3. ASSUME NEW t \in Threads, Lock(t)
      PROVE  UNCHANGED Pool!workVars
  <2>1. /\ \A k \in DOMAIN requests : requests'[k] = requests[k]
        /\ UNCHANGED <<at, done, job, wire>>
    BY <1>3, LockFootprint DEF MinerInv, jobVars, minerVars, wireVars
  <2> QED
    BY <1>1, <2>1 DEF MinerInv, RpcInv, RpcTypeOK
<1>4. ASSUME NEW t \in Threads, Wrote(t) \/ WriteFailed(t)
      PROVE  [Pool!WorkNext]_(Pool!workVars)
  <2>1. CASE t \in Jobs
    <3>1. Cursor(t) \in Positions
      <4>1. Cursor(t) \in Lane(t)
        BY <1>4, <2>1, WriteEnds DEF MinerInv, JobInv, SearchInv, Mining
      <4> QED
        BY <2>1, <4>1 DEF Positions
    <3>2. \/ Pool!CurrentShare(Cursor(t))
          \/ Pool!LastShare(t, Cursor(t))
          \/ Pool!NoLastShare(t)
          \/ UNCHANGED Pool!workVars
      BY <1>4, <2>1, SubmissionInPool
    <3> QED
      BY <2>1, <3>1, <3>2 DEF Pool!WorkNext
  <2>2. CASE t \notin Jobs
    BY <1>4, <2>2, HandshakeInPool
  <2> QED
    BY <2>1, <2>2
<1>5. ASSUME NEW j \in Jobs, MineStep(j)
      PROVE  [Pool!WorkNext]_(Pool!workVars)
  <2>1. Pool!NoLastShare(j) \/ UNCHANGED Pool!workVars
    BY <1>5, MiningInPool
  <2> QED
    BY <2>1 DEF Pool!WorkNext
<1>6. ASSUME NEW j \in Jobs, Notify(j)
      PROVE  Pool!WorkNext
  <2>1. Pool!HandOut(j)
    BY <1>6, NotifyHandsOut
  <2> QED
    BY <2>1 DEF Pool!WorkNext
<1>7. CASE NotifyFails
  BY <1>7, NotifyFailsWithdraws DEF Pool!WorkNext
<1>8. CASE UNCHANGED vars
  BY <1>1, <1>8 DEF vars, rpcVars, wireVars, jobVars, minerVars
<1> QED
  BY <1>2, <1>3, <1>4, <1>5, <1>6, <1>7, <1>8, MinerShapes

(* The miner implements WorkShares: the pool receives each share once,     *)
(* from work it handed out, and at most one of work it has superseded.     *)
THEOREM MinerImplementsWorkShares == MinerSpec => PoolView
<1>1. MinerSpec => Pool!WorkInit /\ [][Pool!WorkNext]_(Pool!workVars)
  BY PoolInit, PoolNext, MinerInvariant, PTL DEF MinerSpec
<1> QED
  BY <1>1 DEF PoolView, Pool!WorkSpec

=============================================================================
