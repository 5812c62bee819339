----------------------------- MODULE MCRpaQueue -----------------------------
(***************************************************************************)
(* Instances of RpaQueue for TLC.  A thread may belong to several of the   *)
(* sets Producers, Consumers and Controllers.                              *)
(***************************************************************************)
EXTENDS RpaQueue, TLC

(* Elements are copied, never compared: they are interchangeable. *)
Symmetry == Permutations(Values)
=============================================================================
