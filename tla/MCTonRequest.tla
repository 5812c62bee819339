---------------------------- MODULE MCTonRequest ----------------------------
(***************************************************************************)
(* Instances of TonRequest for TLC.                                        *)
(***************************************************************************)
EXTENDS TonRequest, TLC

(* Requests differ only in what happens to them. *)
Symmetry == Permutations(Requests)
=============================================================================
