---------------------------- MODULE MCJobMetrics ----------------------------
(* Two processes that share the nonces with stride two, as the docstring   *)
(* of mine proposes.                                                       *)
EXTENDS JobMetrics, TLC

CONSTANTS p0, p1, T

MCJobs == {p0, p1}
MCStart == (p0 :> 0) @@ (p1 :> 1)

=============================================================================
