----------------------------- MODULE MCViewport ------------------------------
(* Instances of ViewportCPU for TLC. *)
EXTENDS ViewportCPU

(* range_num_samples of a session without a sample range, as all viewports. *)
NoRange == -1
=============================================================================
