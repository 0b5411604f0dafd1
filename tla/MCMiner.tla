------------------------------ MODULE MCMiner ------------------------------
(* A miner that is given two jobs. *)
EXTENDS Miner, TLC

CONSTANTS
  j1, j2,
  T1,
  MaxShares   \* bound on the shares found in all

MCJobs == {j1, j2}
MCThreads == MCJobs \union {Main, Reader}
MCStart == [j \in MCJobs |-> 0]

MCPositions == IF MaxNonce = None THEN {}
               ELSE (0 .. MaxNonce - 1) \X (0 .. MaxNonce - 1)

MCBodies == {Subscribe, Authorize} \union
            {Submit(j, s, w) : j \in MCJobs, s \in MCPositions, w \in {None, Username}}

JobSymmetry == Permutations(MCJobs)

(* Shares found: those registered, and those not yet. *)
Found == Cardinality({k \in DOMAIN requests : IsSubmit(requests[k])})
         + Cardinality({j \in Jobs : at[j] = "yielded" /\ pc[j] # "locked"})

SharesBounded == Found <= MaxShares

MCNext == MinerNext /\ SharesBounded'

MCSpec == MinerInit /\ [][MCNext]_vars

MCFairSpec == MCSpec /\ MinerFairness

=============================================================================
