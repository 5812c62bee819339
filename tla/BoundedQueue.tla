---------------------------- MODULE BoundedQueue ----------------------------
(***************************************************************************)
(* What rpa_queue.h promises its callers: a bounded FIFO queue whose       *)
(* operations take effect at one instant between their call and their      *)
(* return.  A call that returns true put or took exactly one element at    *)
(* that instant, a call that returns false changed nothing.  Once the      *)
(* queue is terminated a new push or pop may be refused at once, whatever  *)
(* is in the queue.                                                        *)
(*                                                                         *)
(* The abstraction has no ring, no mutex and no condition variable; the    *)
(* module RpaQueue is shown to implement it.                               *)
(***************************************************************************)
EXTENDS QueueCalls, Sequences

VARIABLES
  items,        (* the elements, oldest first                              *)
  terminated,   (* no more elements ever again                             *)
  status,       (* per thread: "idle", "pending" or "done"                 *)
  call          (* per thread: operation, wait mode, element, result       *)

vars == <<items, terminated, status, call>>

Init ==
  /\ items = <<>>
  /\ terminated = FALSE
  /\ status = [t \in Threads |-> "idle"]
  /\ call = [t \in Threads |-> NoCall]

(* The queue has no room for a push, no element for a pop. *)
Refused(t) ==
  \/ call[t].op = "push" /\ Len(items) = Capacity
  \/ call[t].op = "pop" /\ items = <<>>

Invoke(t) ==
  /\ status[t] = "idle"
  /\ \E c \in Calls(t) : call' = [call EXCEPT ![t] = c]
  /\ status' = [status EXCEPT ![t] = "pending"]
  /\ UNCHANGED <<items, terminated>>

Reject(t) ==
  /\ status[t] = "idle" /\ terminated
  /\ \E c \in Calls(t) : /\ c.op \in {"push", "pop"}
                         /\ call' = [call EXCEPT ![t] = c]
  /\ status' = [status EXCEPT ![t] = "done"]
  /\ UNCHANGED <<items, terminated>>

Put(t) ==
  /\ status[t] = "pending" /\ call[t].op = "push" /\ Len(items) < Capacity
  /\ items' = Append(items, call[t].arg)
  /\ call' = [call EXCEPT ![t].ret = TRUE]
  /\ status' = [status EXCEPT ![t] = "done"]
  /\ UNCHANGED terminated

Get(t) ==
  /\ status[t] = "pending" /\ call[t].op = "pop" /\ items # <<>>
  /\ items' = Tail(items)
  /\ call' = [call EXCEPT ![t].arg = Head(items), ![t].ret = TRUE]
  /\ status' = [status EXCEPT ![t] = "done"]
  /\ UNCHANGED terminated

(* Only a call with a deadline may fail while the queue could serve it. *)
Refuse(t) ==
  /\ status[t] = "pending" /\ call[t].op \in {"push", "pop"}
  /\ call[t].wait = "timed" \/ Refused(t)
  /\ status' = [status EXCEPT ![t] = "done"]
  /\ UNCHANGED <<items, terminated, call>>

(* rpa_queue_term goes on as rpa_queue_interrupt_all. *)
Terminate(t) ==
  /\ status[t] = "pending" /\ call[t].op = "term"
  /\ terminated' = TRUE
  /\ call' = [call EXCEPT ![t].op = "interrupt_all"]
  /\ UNCHANGED <<items, status>>

Interrupt(t) ==
  /\ status[t] = "pending" /\ call[t].op = "interrupt_all"
  /\ call' = [call EXCEPT ![t].ret = TRUE]
  /\ status' = [status EXCEPT ![t] = "done"]
  /\ UNCHANGED <<items, terminated>>

Return(t) ==
  /\ status[t] = "done"
  /\ status' = [status EXCEPT ![t] = "idle"]
  /\ call' = [call EXCEPT ![t] = NoCall]
  /\ UNCHANGED <<items, terminated>>

Next ==
  \E t \in Threads : \/ Invoke(t) \/ Reject(t) \/ Put(t) \/ Get(t) \/ Refuse(t)
                     \/ Terminate(t) \/ Interrupt(t) \/ Return(t)

Spec == Init /\ [][Next]_vars
=============================================================================
