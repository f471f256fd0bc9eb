------------------------------ MODULE Processes ------------------------------
(* The emilyos processes that share the files of the modelled components. *)
CONSTANT Proc
=============================================================================
