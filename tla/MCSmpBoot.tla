----------------------------- MODULE MCSmpBoot -----------------------------
(* Instances of SmpBoot: the sets of processors and the latecomers are given *)
(* in the configurations as sets of model values.                            *)
EXTENDS SmpBoot
=============================================================================
