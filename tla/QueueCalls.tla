----------------------------- MODULE QueueCalls -----------------------------
(***************************************************************************)
(* The vocabulary of the calls on an rpa_queue_t, shared by the abstract   *)
(* queue (BoundedQueue) and the code's ring (RpaQueue).                    *)
(***************************************************************************)
EXTENDS Integers, FiniteSets

CONSTANTS
  Producers,    (* threads that push: the SDK's, in response_queueing_handler *)
  Consumers,    (* threads that pop: the PHP thread, in ton_request_next      *)
  Controllers,  (* threads that call interrupt_all and term                   *)
  Values,       (* the pointers that travel through the queue                 *)
  Capacity,     (* queue_capacity, the field bounds                           *)
  Nobody,       (* the owner of a free mutex                                  *)
  NoValue       (* what a call without an element carries, an unset slot      *)

Threads == Producers \cup Consumers \cup Controllers

ASSUME QueueAssumption ==
  /\ Capacity \in Nat \ {0}
  /\ IsFiniteSet(Threads)
  /\ Nobody \notin Threads
  /\ NoValue \notin Values

(* RPA_WAIT_NONE, a wait of some milliseconds, RPA_WAIT_FOREVER. *)
Waits == {"none", "timed", "forever"}

(* The operation a thread is in, how long it may wait, the element it      *)
(* pushes or has popped, and what the operation returns.                   *)
Ops == {"none", "push", "pop", "interrupt_all", "term"}
Frames == [op: Ops, wait: Waits, arg: Values \cup {NoValue}, ret: BOOLEAN]
NoCall == [op |-> "none", wait |-> "none", arg |-> NoValue, ret |-> FALSE]

(* The calls thread t may make. *)
Calls(t) ==
  {c \in Frames :
     /\ c.ret = FALSE
     /\ \/ c.op = "push" /\ t \in Producers /\ c.arg \in Values
        \/ c.op = "pop" /\ t \in Consumers /\ c.arg = NoValue
        \/ /\ c.op \in {"interrupt_all", "term"} /\ t \in Controllers
           /\ c.wait = "none" /\ c.arg = NoValue}
=============================================================================
