-------------------------- MODULE MCJsonRpcClient --------------------------
(* A reader and two other sending threads of the JSON-RPC client. *)
EXTENDS JsonRpcClient

CONSTANTS
  t1, t2,
  MaxRequests   \* bound on the ids handed out

Senders == {t1, t2}
MCThreads == Senders \union {Reader}

(* No thread enters send once MaxRequests requests are registered. *)
SendsBounded ==
  (\E t \in Threads : pc[t] = "out" /\ pc'[t] = "built")
    => message_id <= MaxRequests

(* The client treats every exception of handle_reply alike: one stands for *)
(* all.                                                                    *)
OneDeath == reader' \notin {"warned", "refused"}

MCNext == RpcNext /\ SendsBounded /\ OneDeath

MCSpec == RpcInit /\ [][MCNext]_rpcVars

MCFairSpec == MCSpec /\ RpcFairness

=============================================================================
