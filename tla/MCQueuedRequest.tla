--------------------------- MODULE MCQueuedRequest ---------------------------
(***************************************************************************)
(* Instances of QueuedRequest for TLC, with a narrow int.                  *)
(***************************************************************************)
EXTENDS QueuedRequest, TLC

(* No wait, for ever, bounded (with and without whole seconds, the second  *)
(* carried or not), negative, and two that do not fit: one becomes -1.     *)
MCTimeouts == {0, -1, 500, 1500, -1500, 2 * IntLimit - 1, IntLimit + 7}

(* 500 and 1500 milliseconds after the second fill up a second exactly.    *)
MCClocks ==
  {[sec |-> 7, nsec |-> 0], [sec |-> 7, nsec |-> 500000000], [sec |-> 7, nsec |-> Second - 1]}
=============================================================================
