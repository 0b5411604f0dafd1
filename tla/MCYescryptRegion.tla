-------------------------- MODULE MCYescryptRegion --------------------------
(* Three threads, of which one may end while another computes, and one      *)
(* block more than there are threads.                                       *)
EXTENDS YescryptRegion
=============================================================================
