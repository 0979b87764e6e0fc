---------------------------- MODULE MCViewportGPU ----------------------------
(* Instances of ViewportGPU for TLC. *)
EXTENDS ViewportGPU

(* range_num_samples of a session without a sample range, as all viewports. *)
NoRange == -1
=============================================================================
