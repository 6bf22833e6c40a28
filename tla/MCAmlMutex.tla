----------------------------- MODULE MCAmlMutex -----------------------------
(* Instances of AmlMutex; the configurations give the constants. *)
EXTENDS AmlMutex
=============================================================================
