---------------------------- MODULE MCFsCommand ----------------------------
(* Model-checking instance of FsCommand. *)
EXTENDS FsCommand, TLC

MCWhat == [verb : Verb \cup {"roles"}, path : Path \cup {NoPath}]
ProcSymmetry == Permutations(Proc)
=============================================================================
