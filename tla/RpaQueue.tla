------------------------------ MODULE RpaQueue ------------------------------
(***************************************************************************)
(* rpa_queue.c: a ring of void pointers behind one mutex, with the         *)
(* condition variables not_empty and not_full and a count of the threads   *)
(* that wait on each.  A thread runs one call at a time; pc says where:    *)
(*                                                                         *)
(*   idle     outside the queue                                            *)
(*   lock     about to lock one_big_mutex                                  *)
(*   test     holds it, about to look at the queue                         *)
(*   wait     asleep in pthread_cond_(timed)wait, mutex released           *)
(*   woken    taken off the condition variable, must lock again (rv = 0)   *)
(*   expired  the same with rv # 0: the deadline passed                    *)
(*   copy     holds the mutex, about to store or fetch                     *)
(*   drop     holds it: terminated is set, interrupt_all still to be called *)
(*   unlock   holds it, about to unlock and return                         *)
(*   return   refused by the unlocked look at terminated                   *)
(*                                                                         *)
(* The pthread calls on a live mutex and condition variable do not fail;   *)
(* a timed wait may end with ETIMEDOUT (or EINVAL for a bad deadline).     *)
(* POSIX lets one that times out consume a signal sent at the same moment. *)
(***************************************************************************)
EXTENDS QueueCalls, Sequences

CONSTANTS
  SpuriousWakeups,  (* may pthread_cond_wait return without a signal?       *)
  LateTimeouts      (* may a wait that was signalled still time out?        *)

ASSUME SpuriousAssumption ==
  SpuriousWakeups \in BOOLEAN /\ LateTimeouts \in BOOLEAN

VARIABLES
  data, nelts, in, out,  (* the ring                                       *)
  waiters,               (* full_waiters ("push"), empty_waiters ("pop")   *)
  terminated,
  owner,                 (* of one_big_mutex                               *)
  pc, call               (* per thread                                     *)

ring == <<data, nelts, in, out>>
vars == <<data, nelts, in, out, waiters, terminated, owner, pc, call>>

Slots == 0 .. Capacity - 1

(* An index moved forward, where the ring starts again. *)
WrapLate(i) == IF i > Capacity THEN i - Capacity ELSE i
Wrap(i) == IF i >= Capacity THEN i - Capacity ELSE i

(* The size a full ring has. *)
FullOffByOne == nelts = Capacity + 1
Full == nelts = Capacity
Empty == nelts = 0

(* The queue has no room for t's push, no element for t's pop. *)
Refused(t) == IF call[t].op = "push" THEN Full ELSE Empty

(* A refused call sleeps unless it must not block or the queue is over. *)
MayWaitOnTerminated(t) == call[t].wait # "none"
MayWaitWithoutBlocking(t) == ~terminated
MayWait(t) == call[t].wait # "none" /\ ~terminated

Asleep == {t \in Threads : pc[t] = "wait"}
BlockedOn(op) == {t \in Asleep : call[t].op = op}

Init ==
  /\ data = [i \in Slots |-> NoValue]
  /\ nelts = 0 /\ in = 0 /\ out = 0
  /\ waiters = [op \in {"push", "pop"} |-> 0]
  /\ terminated = FALSE
  /\ owner = Nobody
  /\ pc = [t \in Threads |-> "idle"]
  /\ call = [t \in Threads |-> NoCall]

-----------------------------------------------------------------------------
(* Entering a call.  push and pop look at terminated before they lock. *)

Enter(t) ==
  /\ pc[t] = "idle"
  /\ \E c \in Calls(t) :
       /\ call' = [call EXCEPT ![t] = c]
       /\ pc' = [pc EXCEPT ![t] =
                   IF terminated /\ c.op \in {"push", "pop"} THEN "return" ELSE "lock"]
  /\ UNCHANGED <<ring, waiters, terminated, owner>>

MutexIgnored == TRUE
MutexFree == owner = Nobody

Lock(t) ==
  /\ pc[t] = "lock" /\ MutexFree
  /\ owner' = t
  /\ pc' = [pc EXCEPT ![t] = "test"]
  /\ UNCHANGED <<ring, waiters, terminated, call>>

(* push and pop under the mutex: go on, sleep, or give up. *)
Accept(t) ==
  /\ pc[t] = "test" /\ call[t].op \in {"push", "pop"}
  /\ ~Refused(t)
  /\ pc' = [pc EXCEPT ![t] = "copy"]
  /\ UNCHANGED <<ring, waiters, terminated, owner, call>>

Sleep(t) ==
  /\ pc[t] = "test" /\ call[t].op \in {"push", "pop"}
  /\ Refused(t) /\ MayWait(t)
  /\ waiters' = [waiters EXCEPT ![call[t].op] = @ + 1]
  /\ pc' = [pc EXCEPT ![t] = "wait"]
  /\ owner' = Nobody
  /\ UNCHANGED <<ring, terminated, call>>

GiveUp(t) ==
  /\ pc[t] = "test" /\ call[t].op \in {"push", "pop"}
  /\ Refused(t) /\ ~MayWait(t)
  /\ pc' = [pc EXCEPT ![t] = "unlock"]
  /\ UNCHANGED <<ring, waiters, terminated, owner, call>>

(* The ways out of pthread_cond_wait besides a signal or a broadcast. *)
MayExpire == IF LateTimeouts THEN {"wait", "woken"} ELSE {"wait"}

Timeout(t) ==
  /\ pc[t] \in MayExpire /\ call[t].wait = "timed"
  /\ pc' = [pc EXCEPT ![t] = "expired"]
  /\ UNCHANGED <<ring, waiters, terminated, owner, call>>

SpuriousWake(t) ==
  /\ SpuriousWakeups
  /\ pc[t] = "wait"
  /\ pc' = [pc EXCEPT ![t] = "woken"]
  /\ UNCHANGED <<ring, waiters, terminated, owner, call>>

(* Locking again at the end of the wait: the caller leaves the waiters,    *)
(* fails if its deadline passed, and looks at the queue once more, not in  *)
(* a loop.                                                                 *)
LeaveUnlessExpired(t) ==
  IF pc[t] = "expired" THEN waiters ELSE [waiters EXCEPT ![call[t].op] = @ - 1]
LeaveWaiters(t) == [waiters EXCEPT ![call[t].op] = @ - 1]

TrustTheWakeup(t) == pc[t] = "woken"
Served(t) == pc[t] = "woken" /\ ~Refused(t)

Reacquire(t) ==
  /\ pc[t] \in {"woken", "expired"} /\ MutexFree
  /\ owner' = t
  /\ waiters' = LeaveWaiters(t)
  /\ pc' = [pc EXCEPT ![t] = IF Served(t) THEN "copy" ELSE "unlock"]
  /\ UNCHANGED <<ring, terminated, call>>

-----------------------------------------------------------------------------
(* The ring.  A waiter of the other side is signalled if there is one: the *)
(* counter decides whether to signal, the condition variable whom it       *)
(* wakes, and a signal nobody sleeps for is lost.                          *)
HasOtherWaiters(op) == waiters[op] > 1
HasWaiters(op) == waiters[op] > 0

SignalAndUnlock(t, op) ==
  IF HasWaiters(op) /\ BlockedOn(op) # {}
    THEN \E u \in BlockedOn(op) :
           pc' = [pc EXCEPT ![t] = "unlock", ![u] = "woken"]
    ELSE pc' = [pc EXCEPT ![t] = "unlock"]

Store(t) ==
  /\ pc[t] = "copy" /\ call[t].op = "push"
  /\ data' = [data EXCEPT ![in] = call[t].arg]
  /\ in' = Wrap(in + 1)
  /\ nelts' = nelts + 1
  /\ call' = [call EXCEPT ![t].ret = TRUE]
  /\ SignalAndUnlock(t, "pop")
  /\ UNCHANGED <<out, waiters, terminated, owner>>

Fetch(t) ==
  /\ pc[t] = "copy" /\ call[t].op = "pop"
  /\ call' = [call EXCEPT ![t].arg = data[out], ![t].ret = TRUE]
  /\ nelts' = nelts - 1
  /\ out' = Wrap(out + 1)
  /\ SignalAndUnlock(t, "push")
  /\ UNCHANGED <<data, in, waiters, terminated, owner>>

-----------------------------------------------------------------------------
(* rpa_queue_term sets terminated in one critical section and wakes        *)
(* everybody in another, the one of rpa_queue_interrupt_all.               *)

SetTerminated(t) ==
  /\ pc[t] = "test" /\ call[t].op = "term"
  /\ terminated' = TRUE
  /\ call' = [call EXCEPT ![t].op = "interrupt_all"]
  /\ pc' = [pc EXCEPT ![t] = "drop"]
  /\ UNCHANGED <<ring, waiters, owner>>

Drop(t) ==
  /\ pc[t] = "drop"
  /\ owner' = Nobody
  /\ pc' = [pc EXCEPT ![t] = "lock"]
  /\ UNCHANGED <<ring, waiters, terminated, call>>

PoppersOnly == BlockedOn("pop")
Awakened == Asleep

Broadcast(t) ==
  /\ pc[t] = "test" /\ call[t].op = "interrupt_all"
  /\ pc' = [u \in Threads |-> IF u = t THEN "unlock"
                              ELSE IF u \in Awakened THEN "woken" ELSE pc[u]]
  /\ call' = [call EXCEPT ![t].ret = TRUE]
  /\ UNCHANGED <<ring, waiters, terminated, owner>>

Unlock(t) ==
  /\ pc[t] = "unlock"
  /\ owner' = Nobody
  /\ pc' = [pc EXCEPT ![t] = "idle"]
  /\ call' = [call EXCEPT ![t] = NoCall]
  /\ UNCHANGED <<ring, waiters, terminated>>

Return(t) ==
  /\ pc[t] = "return"
  /\ pc' = [pc EXCEPT ![t] = "idle"]
  /\ call' = [call EXCEPT ![t] = NoCall]
  /\ UNCHANGED <<ring, waiters, terminated, owner>>

-----------------------------------------------------------------------------
(* The steps a running thread takes without waiting for anyone. *)
Step(t) ==
  \/ Accept(t) \/ Sleep(t) \/ GiveUp(t) \/ Store(t) \/ Fetch(t)
  \/ SetTerminated(t) \/ Drop(t) \/ Broadcast(t) \/ Unlock(t) \/ Return(t)

Next ==
  \E t \in Threads :
    Enter(t) \/ Lock(t) \/ Reacquire(t) \/ Step(t) \/ Timeout(t) \/ SpuriousWake(t)

Spec == Init /\ [][Next]_vars

(* A scheduled thread goes on, a deadline passes, and a thread that wants  *)
(* the mutex again and again when it is free gets it.  Nobody has to call. *)
Fairness ==
  \A t \in Threads : /\ WF_vars(Step(t)) /\ WF_vars(Timeout(t))
                     /\ SF_vars(Lock(t)) /\ SF_vars(Reacquire(t))

FairSpec == Spec /\ Fairness

-----------------------------------------------------------------------------
(* Properties *)

PCs == {"idle", "lock", "test", "wait", "woken", "expired", "copy", "drop",
        "unlock", "return"}

(* The fields of the struct and of the calls have the types the code gives *)
(* them; the indices never leave the allocated array.                      *)
TypeOK ==
  /\ data \in [Slots -> Values \cup {NoValue}]
  /\ nelts \in 0 .. Capacity /\ in \in Slots /\ out \in Slots
  /\ waiters \in [{"push", "pop"} -> Nat]
  /\ terminated \in BOOLEAN
  /\ owner \in Threads \cup {Nobody}
  /\ pc \in [Threads -> PCs]
  /\ call \in [Threads -> Frames]

(* The elements, oldest first: nelts slots from out on, around the ring.   *)
Items == [i \in 1 .. nelts |-> data[Wrap(out + i - 1)]]

(* The three numbers kept apart by rpa_queue.c:235-240 and :363-369 agree  *)
(* whatever the interleaving of pushes and pops: in is nelts slots after   *)
(* out, and no occupied slot is unset.                                     *)
RingConsistent ==
  /\ in = Wrap(out + nelts)
  /\ \A i \in 1 .. nelts : Items[i] \in Values

(* A thread that passed the test of rpa_queue.c:204 or :332, at once or    *)
(* after a wait, still finds room or an element when it copies: nobody     *)
(* comes between the test and the copy.                                    *)
CopyIsServed == \A t \in Threads : pc[t] = "copy" => ~Refused(t)

(* full_waiters and empty_waiters count the threads between going to sleep *)
(* and having locked again, so that "if (queue->empty_waiters)" never      *)
(* skips the signal a sleeper needs (rpa_queue.c:206, :214, :334, :342).   *)
InWait(op) == {t \in Threads : /\ pc[t] \in {"wait", "woken", "expired"}
                               /\ call[t].op = op}
WaitersCounted ==
  \A op \in {"push", "pop"} : waiters[op] = Cardinality(InWait(op))

(* "If there are no items available, it will block until one becomes       *)
(* available" (rpa_queue.c:306): while a popper sleeps, every element in   *)
(* the queue is claimed by a popper already on its way to it, and while a  *)
(* pusher sleeps every free slot is claimed by a pusher on its way (the    *)
(* signals of rpa_queue.c:242 and :370, one per element although many may  *)
(* sleep).                                                                 *)
Claims(op) == {t \in Threads : pc[t] \in {"woken", "copy"} /\ call[t].op = op}
NoLostWakeup ==
  /\ BlockedOn("pop") # {} => nelts <= Cardinality(Claims("pop"))
  /\ BlockedOn("push") # {} => Capacity - nelts <= Cardinality(Claims("push"))

(* Nobody sleeps through rpa_queue_term: once terminated is set, a thread  *)
(* is asleep only while the broadcast of interrupt_all is still to come    *)
(* (the comment at rpa_queue.c:451).                                       *)
Interrupting(t) ==
  call[t].op = "interrupt_all" /\ pc[t] \in {"drop", "lock", "test"}
NoSleepPastTerm ==
  terminated /\ Asleep # {} => \E t \in Threads : Interrupting(t)

(* The ring implements the bounded FIFO queue of rpa_queue.h: each call    *)
(* takes effect at once between call and return, elements come out in the  *)
(* order they went in, and a call that returns false changed nothing.      *)
Status == [t \in Threads |->
             IF pc[t] = "idle" THEN "idle"
             ELSE IF pc[t] \in {"unlock", "return"} THEN "done" ELSE "pending"]
BQ == INSTANCE BoundedQueue WITH items <- Items, status <- Status
ImplementsBoundedQueue == BQ!Spec

(* After rpa_queue_term every call in progress returns, whatever it waited *)
(* for.                                                                    *)
TermReleasesEverybody ==
  \A t \in Threads : (terminated /\ pc[t] # "idle") ~> (pc[t] = "idle")

(* A call that may not block (trypush, trypop) or has a deadline returns.  *)
BoundedCallsReturn ==
  \A t \in Threads :
    (pc[t] # "idle" /\ call[t].wait # "forever") ~> (pc[t] = "idle")

(* A queue does not hold elements in front of sleeping poppers, nor room   *)
(* in front of sleeping pushers, for ever.                                 *)
NoStandstill ==
  /\ (nelts > 0 /\ BlockedOn("pop") # {}) ~> (nelts = 0 \/ BlockedOn("pop") = {})
  /\ (~Full /\ BlockedOn("push") # {}) ~> (Full \/ BlockedOn("push") = {})
=============================================================================
