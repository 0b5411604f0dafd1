----------------------------- MODULE WorkShares -----------------------------
(***************************************************************************)
(* What the miner promises a pool about the shares it receives: each comes *)
(* from work the pool handed out, no share comes twice, and once newer     *)
(* work was handed out at most one more share of the older arrives, the    *)
(* one whose attempt was under way.                                        *)
(***************************************************************************)
CONSTANTS Units, Shares, NoWork

VARIABLES
  current,   \* the newest work
  known,     \* all work handed out
  grace,     \* superseded work that may still send one share
  received   \* the shares the pool received, with the work they solve

workVars == <<current, known, grace, received>>

WorkInit ==
  /\ current = NoWork
  /\ known = {}
  /\ grace = {}
  /\ received = {}

(* New work supersedes the current one, which is allowed a last share when *)
(* one is under way.                                                       *)
HandOut(w) ==
  /\ w \notin known
  /\ known' = known \union {w}
  /\ current' = w
  /\ \/ grace' = grace
     \/ current # NoWork /\ grace' = grace \union {current}
  /\ UNCHANGED received

(* The current work is given up for newer work that never comes. *)
Withdraw ==
  /\ current # NoWork
  /\ current' = NoWork
  /\ grace' \in {grace, grace \union {current}}
  /\ UNCHANGED <<known, received>>

(* A share of the current work. *)
CurrentShare(s) ==
  /\ current # NoWork
  /\ <<current, s>> \notin received
  /\ received' = received \union {<<current, s>>}
  /\ UNCHANGED <<current, known, grace>>

(* The last share of superseded work. *)
LastShare(w, s) ==
  /\ w \in grace
  /\ <<w, s>> \notin received
  /\ received' = received \union {<<w, s>>}
  /\ grace' = grace \ {w}
  /\ UNCHANGED <<current, known>>

(* The attempt under way was no share, or it was lost. *)
NoLastShare(w) ==
  /\ w \in grace
  /\ grace' = grace \ {w}
  /\ UNCHANGED <<current, known, received>>

WorkNext ==
  \/ \E w \in Units : HandOut(w) \/ NoLastShare(w)
  \/ Withdraw
  \/ \E s \in Shares : CurrentShare(s)
  \/ \E w \in Units, s \in Shares : LastShare(w, s)

WorkSpec == WorkInit /\ [][WorkNext]_workVars

=============================================================================
