-------------------------- MODULE JobMetrics_proofs -------------------------
(***************************************************************************)
(* Proofs about the metrics of a job: the metrics follow the search, whose *)
(* invariant Job_proofs establishes, and count every attempt once because  *)
(* the search never repeats a position.                                    *)
(***************************************************************************)
EXTENDS JobMetrics, Job_proofs, FiniteSetTheorems

(* While the coroutine runs its timer is open: what is accounted and what  *)
(* has passed since t0 is one tick for each attempt.  While a share is     *)
(* held the timer is closed, and the hash that found it not yet counted.   *)
MetricInv(j) ==
  /\ hash_count[j] \in Nat /\ waited[j] \in Nat
  /\ dt[j] \in Int /\ t0[j] \in Int /\ clock[j] \in Int
  /\ IsFiniteSet(tried[j])
  /\ at[j] \in {"unborn", "created", "failed"} => hash_count[j] = 0 /\ dt[j] = 0
  /\ at[j] \in {"check", "hash"} =>
       /\ dt[j] + (clock[j] - t0[j]) = Cardinality(tried[j])
       /\ hash_count[j] = Cardinality(tried[j])
  /\ at[j] = "yielded" =>
       /\ dt[j] = Cardinality(tried[j])
       /\ hash_count[j] + 1 = Cardinality(tried[j])
  /\ at[j] = "stopped" =>
       /\ dt[j] = Cardinality(tried[j])
       /\ hash_count[j] = Cardinality(tried[j])

MetricTypeOK ==
  /\ hash_count \in [Jobs -> Nat]
  /\ waited \in [Jobs -> Nat]
  /\ dt \in [Jobs -> Int]
  /\ t0 \in [Jobs -> Int]
  /\ clock \in [Jobs -> Int]

MetricsInv ==
  /\ JobInv
  /\ MetricTypeOK
  /\ \A j \in Jobs : MetricInv(j)

(* What a step of one coroutine leaves of the others' metrics. *)
OtherMetrics(j) ==
  \A i \in Jobs \ {j} :
    /\ at'[i] = at[i] /\ tried'[i] = tried[i]
    /\ hash_count'[i] = hash_count[i] /\ waited'[i] = waited[i]
    /\ dt'[i] = dt[i] /\ t0'[i] = t0[i] /\ clock'[i] = clock[i]

-----------------------------------------------------------------------------

(* A position is new when it is hashed: the search never repeats itself. *)
LEMMA AttemptIsNew ==
  ASSUME JobInv, NEW j \in Jobs, at[j] = "hash"
  PROVE  Cursor(j) \notin tried[j]
<1> SUFFICES ASSUME Cursor(j) \in tried[j] PROVE FALSE
  OBVIOUS
<1>1. Before(Cursor(j), Cursor(j))
  BY DEF JobInv, SearchInv
<1> QED
  BY <1>1 DEF Before, Cursor, JobInv, JobTypeOK

(* An attempt adds one to the positions that were tried. *)
LEMMA AttemptAddsOne ==
  ASSUME JobInv, NEW j \in Jobs, Attempt(j), IsFiniteSet(tried[j])
  PROVE  /\ IsFiniteSet(tried'[j])
         /\ Cardinality(tried[j]) \in Nat
         /\ Cardinality(tried'[j]) = Cardinality(tried[j]) + 1
<1>1. tried'[j] = tried[j] \union {Cursor(j)}
  BY DEF Attempt, JobInv, JobTypeOK
<1>2. Cursor(j) \notin tried[j]
  BY AttemptIsNew DEF Attempt
<1> QED
  BY <1>1, <1>2, FS_AddElement, FS_CardinalityType

(* It suffices to look at the coroutine that took the step. *)
LEMMA OthersKeepMetrics ==
  ASSUME MetricsInv, NEW j \in Jobs, OtherMetrics(j), MetricInv(j)', MetricTypeOK', JobInv'
  PROVE  MetricsInv'
BY DEF MetricsInv, MetricTypeOK, OtherMetrics, MetricInv

(* Nothing was hashed and no time accounted at first. *)
LEMMA MetricsInvInit == MetricInit => MetricsInv
<1> SUFFICES ASSUME MetricInit PROVE MetricsInv
  OBVIOUS
<1>1. JobInv
  BY JobInvInit DEF MetricInit
<1>2. \A j \in Jobs : MetricInv(j)
  BY FS_EmptySet DEF MetricInit, JobInit, MetricInv
<1> QED
  BY <1>1, <1>2 DEF MetricInit, MetricsInv, MetricTypeOK

(* Every step of a coroutine, its consumer and stop keeps the invariant. *)
LEMMA MetricsInvNext == MetricsInv /\ [MetricNext]_vars => MetricsInv'
<1> SUFFICES ASSUME MetricsInv, [MetricNext]_vars PROVE MetricsInv'
  OBVIOUS
<1>0. CASE UNCHANGED vars
  <2>1. JobInv'
    BY <1>0, JobInvNext DEF vars, MetricsInv
  <2> QED
    BY <1>0, <2>1 DEF vars, jobVars, metricVars, MetricsInv, MetricTypeOK, MetricInv
<1> SUFFICES ASSUME MetricNext PROVE MetricsInv'
  BY <1>0
<1>j. PICK j \in Jobs :
        \/ \E t \in Targets : Create(j, t) /\ UNCHANGED metricVars
        \/ Stop(j) /\ UNCHANGED metricVars
        \/ MetricMine(j)
        \/ Consume(j)
        \/ Wait(j)
  BY Zenon DEF MetricNext
<1>J. JobInv /\ JobTypeOK /\ SearchInv(j)
  BY DEF MetricsInv, JobInv
<1>T. MetricTypeOK /\ MetricInv(j)
  BY DEF MetricsInv
<1>I. JobInv'
  <2>1. JobNext \/ UNCHANGED jobVars
    BY <1>j DEF MetricMine, Consume, MetricBegin, MetricCheck, MetricMiss,
                MetricFind, MetricResume, Wait, JobNext, Mine
  <2> QED
    BY <1>J, <2>1, JobInvNext
<1>1. ASSUME NEW t \in Targets, Create(j, t), UNCHANGED metricVars
      PROVE  MetricsInv'
  <2> USE <1>1 DEF Create, metricVars
  <2>1. OtherMetrics(j) /\ MetricTypeOK'
    BY <1>J, <1>T DEF JobTypeOK, OtherMetrics, MetricTypeOK
  <2>2. MetricInv(j)'
    BY <1>J, <1>T DEF JobTypeOK, MetricInv
  <2> QED
    BY <1>I, <2>1, <2>2, OthersKeepMetrics
<1>2. CASE Stop(j) /\ UNCHANGED metricVars
  <2> USE <1>2 DEF Stop, metricVars
  <2>1. OtherMetrics(j) /\ MetricTypeOK' /\ MetricInv(j)'
    BY <1>T DEF OtherMetrics, MetricTypeOK, MetricInv
  <2> QED
    BY <1>I, <2>1, OthersKeepMetrics
<1>3. CASE MetricBegin(j)
  <2> USE <1>3 DEF MetricBegin, Begin, StartTimer
  <2>1. OtherMetrics(j) /\ MetricTypeOK'
    BY <1>J, <1>T DEF JobTypeOK, OtherMetrics, MetricTypeOK, MetricInv
  <2>2. tried[j] = {} /\ Cardinality(tried[j]) = 0
    BY <1>J, FS_EmptySet DEF SearchInv
  <2>3. at'[j] \in {"failed", "check", "exhausted"} /\ t0'[j] = clock[j]
    BY <1>J, <1>T DEF JobTypeOK, MetricTypeOK
  <2>4. MetricInv(j)'
    BY <1>T, <2>2, <2>3 DEF MetricInv
  <2> QED
    BY <1>I, <2>1, <2>4, OthersKeepMetrics
<1>4. CASE MetricCheck(j)
  <2> USE <1>4 DEF MetricCheck, Check, Account
  <2>1. OtherMetrics(j) /\ MetricTypeOK'
    BY <1>J, <1>T DEF JobTypeOK, OtherMetrics, MetricTypeOK, MetricInv
  <2>2. IF done[j] THEN at'[j] = "stopped" /\ dt'[j] = dt[j] + (clock[j] - t0[j])
                   ELSE at'[j] = "hash" /\ dt'[j] = dt[j]
    BY <1>J, <1>T DEF JobTypeOK, MetricTypeOK
  <2>3. MetricInv(j)'
    BY <1>T, <2>2 DEF MetricInv
  <2> QED
    BY <1>I, <2>1, <2>3, OthersKeepMetrics
<1>5. CASE MetricMiss(j)
  <2> USE <1>5 DEF MetricMiss, Miss, Tick, Count
  <2>1. OtherMetrics(j) /\ MetricTypeOK'
    BY <1>J, <1>T DEF JobTypeOK, OtherMetrics, MetricTypeOK, MetricInv, Attempt, Advance
  <2>2. at[j] = "hash" /\ at'[j] \in {"check", "exhausted"}
    BY <1>J DEF JobTypeOK, Attempt, Advance
  <2>3. /\ IsFiniteSet(tried'[j]) /\ Cardinality(tried[j]) \in Nat
        /\ Cardinality(tried'[j]) = Cardinality(tried[j]) + 1
    BY <1>J, <1>T, AttemptAddsOne DEF MetricInv
  <2>4. /\ clock'[j] = clock[j] + 1 /\ hash_count'[j] = hash_count[j] + 1
        /\ dt'[j] = dt[j] /\ t0'[j] = t0[j] /\ waited'[j] = waited[j]
    BY <1>T DEF MetricTypeOK
  <2>5. MetricInv(j)'
    BY <1>T, <2>2, <2>3, <2>4 DEF MetricInv
  <2> QED
    BY <1>I, <2>1, <2>5, OthersKeepMetrics
<1>6. CASE MetricFind(j)
  <2> USE <1>6 DEF MetricFind, Find, Tick, Account
  <2>1. /\ clock'[j] = clock[j] + 1 /\ dt'[j] = dt[j] + (clock'[j] - t0[j])
        /\ hash_count' = hash_count /\ t0' = t0 /\ waited' = waited
    BY <1>T DEF MetricTypeOK
  <2>2. OtherMetrics(j) /\ MetricTypeOK'
    BY <1>J, <1>T, <2>1 DEF JobTypeOK, OtherMetrics, MetricTypeOK, MetricInv, Attempt
  <2>3. at[j] = "hash" /\ at'[j] = "yielded"
    BY <1>J DEF JobTypeOK, Attempt
  <2>4. /\ IsFiniteSet(tried'[j]) /\ Cardinality(tried[j]) \in Nat
        /\ Cardinality(tried'[j]) = Cardinality(tried[j]) + 1
    BY <1>J, <1>T, AttemptAddsOne DEF MetricInv
  <2>5. MetricInv(j)'
    BY <1>T, <2>1, <2>3, <2>4 DEF MetricInv
  <2> QED
    BY <1>I, <2>2, <2>5, OthersKeepMetrics
<1>7. CASE MetricResume(j)
  <2> USE <1>7 DEF MetricResume, Resume, StartTimer, Count
  <2>1. /\ t0'[j] = clock[j] /\ hash_count'[j] = hash_count[j] + 1
        /\ clock' = clock /\ dt' = dt /\ waited' = waited /\ tried' = tried
    BY <1>T DEF MetricTypeOK
  <2>2. OtherMetrics(j) /\ MetricTypeOK'
    BY <1>J, <1>T DEF JobTypeOK, OtherMetrics, MetricTypeOK, MetricInv, Advance
  <2>3. at[j] = "yielded" /\ at'[j] \in {"check", "exhausted"}
    BY <1>J DEF JobTypeOK, Advance
  <2>4. MetricInv(j)'
    BY <1>T, <2>1, <2>3 DEF MetricInv
  <2> QED
    BY <1>I, <2>2, <2>4, OthersKeepMetrics
<1>8. CASE Abandon(j) /\ UNCHANGED metricVars
  <2> USE <1>8 DEF Abandon, metricVars
  <2>1. OtherMetrics(j) /\ MetricTypeOK'
    BY <1>J, <1>T DEF JobTypeOK, OtherMetrics, MetricTypeOK
  <2>2. MetricInv(j)'
    BY <1>J, <1>T DEF JobTypeOK, MetricInv
  <2> QED
    BY <1>I, <2>1, <2>2, OthersKeepMetrics
<1>9. CASE Wait(j)
  <2> USE <1>9 DEF Wait, Tick, jobVars
  <2>1. OtherMetrics(j) /\ MetricTypeOK'
    BY <1>T DEF OtherMetrics, MetricTypeOK, MetricInv
  <2>2. MetricInv(j)'
    BY <1>T DEF MetricTypeOK, MetricInv
  <2> QED
    BY <1>I, <2>1, <2>2, OthersKeepMetrics
<1> QED
  BY <1>j, <1>1, <1>2, <1>3, <1>4, <1>5, <1>6, <1>7, <1>8, <1>9 DEF MetricMine, Consume

-----------------------------------------------------------------------------

(* The inductive invariant of the metrics and the search together. *)
THEOREM MetricsInvariant == MetricSpec => []MetricsInv
<1>1. MetricsInv /\ [][MetricNext]_vars => []MetricsInv
  BY MetricsInvNext, PTL
<1> QED
  BY <1>1, MetricsInvInit, PTL DEF MetricSpec

(* Whenever it yields and when it is stopped, a job has accounted for the  *)
(* time of its attempts until then and for none of the time its consumer   *)
(* took; by the time it is stopped every hash is counted.                  *)
THEOREM MetricsTimeAccounted == MetricSpec => []TimeAccounted
<1>1. MetricsInv => TimeAccounted
  BY DEF MetricsInv, MetricInv, TimeAccounted
<1> QED
  BY <1>1, MetricsInvariant, PTL

(* Job.mine with its metrics is still the search of Job: whatever is       *)
(* proved of the search alone holds of it there.                           *)
THEOREM MetricsKeepSearch ==
  MetricSpec => [](JobTypeOK /\ NoRetry /\ LaneCovered /\ LanesDisjoint /\ StopAfterCurrent)
<1>1. MetricInit => JobInit
  BY DEF MetricInit
<1>2. [MetricNext]_vars => [JobNext]_jobVars
  BY DEF MetricNext, MetricMine, Consume, MetricBegin, MetricCheck, MetricMiss,
         MetricFind, MetricResume, Wait, JobNext, Mine, vars
<1>3. MetricSpec => JobSpec
  BY <1>1, <1>2, PTL DEF MetricSpec, JobSpec
<1> QED
  BY <1>3, JobTypeCorrect, JobNoRetry, JobLaneCovered, JobLanesDisjoint,
     JobStopAfterCurrent, PTL

=============================================================================
