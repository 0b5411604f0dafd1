-------------------------- MODULE SubscriptionFeed --------------------------
(***************************************************************************)
(* The Subscription of pyminer.py behind the reader thread: what it does   *)
(* is what the lines of the server make handle_reply do.  A call is a      *)
(* difficulty, the reply to the subscription, a unit of work, or something *)
(* that makes handle_reply raise whatever the state is.                    *)
(***************************************************************************)
EXTENDS Subscription, LineReader

Difficulty(d) == <<"mining.set_difficulty", d>>
Subscribed(i) == <<"mining.subscribe", i>>
Notify == <<"mining.notify", None>>
Malformed == <<"malformed", None>>

ASSUME FeedAssumption ==
  /\ Calls \subseteq ({Difficulty(d) : d \in Difficulties} \union
                      {Subscribed(i) : i \in Ids} \union {Notify, Malformed})
  /\ Notify \notin Noise \union {Blank}
  /\ \A d \in Difficulties : Difficulty(d) \notin Noise \union {Blank}

feedVars == <<subVars, readerVars>>

-----------------------------------------------------------------------------

FeedInit == SubscriptionInit /\ ReaderInit

HandleDifficulty(d) == HandleLine(Difficulty(d)) /\ SetDifficulty(d)

HandleSubscribed(i) == HandleLine(Subscribed(i)) /\ SetSubscription(i)

(* The job is numbered by its line. *)
HandleNotify == HandleLine(Notify) /\ CreateJob(Len(handled) + 1)

(* The subscription is set, and the send of the authorization raises. *)
AuthorizeRaises(i) == ReaderEnds(Subscribed(i)) /\ SetSubscription(i)

(* "Already subscribed", "Not subscribed", or a malformed message, whose   *)
(* warning cannot be reported: see Deaths in JsonRpcClient.                *)
HandlerRaises ==
  /\ \/ \E i \in Ids : id # None /\ ReaderEnds(Subscribed(i))
     \/ id = None /\ ReaderEnds(Notify)
     \/ ReaderEnds(Malformed)
  /\ UNCHANGED subVars

Handler ==
  \/ \E d \in Difficulties : HandleDifficulty(d)
  \/ \E i \in Ids : HandleSubscribed(i) \/ AuthorizeRaises(i)
  \/ HandleNotify
  \/ HandlerRaises

FeedThread ==
  \/ Handler
  \/ ReaderThread /\ UNCHANGED subVars

FeedNext ==
  \/ FeedThread
  \/ (\E n \in 1 .. ChunkSize : Recv(n)) /\ UNCHANGED subVars
  \/ Cut /\ UNCHANGED subVars

(* Nothing is assumed of recv. *)
FeedSpec == FeedInit /\ [][FeedNext]_feedVars /\ WF_feedVars(FeedThread)

-----------------------------------------------------------------------------

(* The difficulty that is in force before line k of the session. *)
InForce(k) ==
  LET earlier == {i \in 1 .. k - 1 : \E d \in Difficulties : session[i] = Difficulty(d)}
  IN  IF earlier = {} THEN None
      ELSE session[CHOOSE i \in earlier : \A h \in earlier : h <= i][2]

(* "change our difficulty (on all *future* work)": every unit of work that *)
(* was handled became a job of the difficulty last sent before it, however *)
(* the lines of both were cut into chunks, and there are no other jobs.    *)
JobsFollowLines ==
  {<<j.work, j.difficulty>> : j \in jobs}
    = {<<k, InForce(k)>> : k \in {k \in DOMAIN handled : session[k] = Notify}}

=============================================================================
