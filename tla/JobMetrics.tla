----------------------------- MODULE JobMetrics -----------------------------
(***************************************************************************)
(* The hash metrics of a Job, kept along its coroutine: the count of       *)
(* hashes and the time spent mining, from which hashrate is computed.      *)
(* Each coroutine reads the wall clock; an attempt takes one tick and so   *)
(* may a consumer that holds a yielded share, so that the true rate is one *)
(* hash per tick of mining.                                                *)
(***************************************************************************)
EXTENDS Job

CONSTANT MaxWait   \* bound on the ticks a consumer takes

VARIABLES
  hash_count,  \* self._hash_count
  dt,          \* self._dt
  t0,          \* the local t0 of mine
  clock,       \* time.time() as the coroutine sees it
  waited       \* ticks the consumer has taken

metricVars == <<hash_count, dt, t0, clock, waited>>

MetricInit ==
  /\ JobInit
  /\ hash_count = [j \in Jobs |-> 0]
  /\ dt = [j \in Jobs |-> 0]
  /\ t0 = [j \in Jobs |-> 0]
  /\ clock = [j \in Jobs |-> 0]
  /\ waited = [j \in Jobs |-> 0]

StartTimer(j) == t0' = [t0 EXCEPT ![j] = clock[j]]

Count(j) == hash_count' = [hash_count EXCEPT ![j] = @ + 1]

(* self._dt += time.time() - t0 *)
Account(j) == dt' = [dt EXCEPT ![j] = @ + (clock'[j] - t0[j])]

Tick(j) == clock' = [clock EXCEPT ![j] = @ + 1]

MetricBegin(j) ==
  /\ Begin(j)
  /\ StartTimer(j)
  /\ UNCHANGED <<hash_count, dt, clock, waited>>

MetricCheck(j) ==
  /\ Check(j)
  /\ UNCHANGED <<hash_count, t0, clock, waited>>
  /\ IF done[j] THEN Account(j) ELSE dt' = dt

MetricMiss(j) ==
  /\ Miss(j)
  /\ Tick(j)
  /\ Count(j)
  /\ UNCHANGED <<dt, t0, waited>>

MetricFind(j) ==
  /\ Find(j)
  /\ Tick(j)
  /\ Account(j)
  /\ UNCHANGED <<hash_count, t0, waited>>

(* Mutant of MetricResume: the timer is not restarted after the yield. *)
MetricResumeKeepsTimer(j) ==
  /\ Resume(j)
  /\ Count(j)
  /\ UNCHANGED <<dt, t0, clock, waited>>

MetricResume(j) ==
  /\ Resume(j)
  /\ StartTimer(j)
  /\ Count(j)
  /\ UNCHANGED <<dt, clock, waited>>

(* The consumer submits the share while the coroutine is suspended. *)
Wait(j) ==
  /\ at[j] = "yielded"
  /\ waited[j] < MaxWait
  /\ Tick(j)
  /\ waited' = [waited EXCEPT ![j] = @ + 1]
  /\ UNCHANGED <<jobVars, hash_count, dt, t0>>

vars == <<jobVars, metricVars>>

MetricMine(j) ==
  \/ MetricBegin(j)
  \/ MetricCheck(j)
  \/ MetricMiss(j)
  \/ MetricFind(j)

(* The consumer comes back, or gives up. *)
Consume(j) ==
  \/ MetricResume(j)
  \/ Abandon(j) /\ UNCHANGED metricVars

MetricNext ==
  \E j \in Jobs :
    \/ \E t \in Targets : Create(j, t) /\ UNCHANGED metricVars
    \/ Stop(j) /\ UNCHANGED metricVars
    \/ MetricMine(j)
    \/ Consume(j)
    \/ Wait(j)

(* The mining thread runs, and its consumer does not hold a share forever. *)
MetricSpec ==
  /\ MetricInit
  /\ [][MetricNext]_vars
  /\ \A j \in Jobs : WF_vars(MetricMine(j)) /\ WF_vars(Consume(j))

-----------------------------------------------------------------------------

(* The time accounted is the time spent hashing: whenever a share is       *)
(* yielded and when the job is stopped, dt holds one tick for every        *)
(* attempt and none for the consumer, and a stopped job counted every      *)
(* hash; its hashrate is the one of its lifetime.                          *)
TimeAccounted ==
  \A j \in Jobs :
    /\ at[j] \in {"yielded", "stopped"} => dt[j] = Cardinality(tried[j])
    /\ at[j] = "stopped" => hash_count[j] = Cardinality(tried[j])

=============================================================================
