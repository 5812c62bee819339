------------------------- MODULE QueuedRequestProofs -------------------------
(***************************************************************************)
(* Theorems about QueuedRequest for any capacity, any number of events,    *)
(* any timeouts and any clock: the deadlines of its waits, the quiet       *)
(* release of the request, and its types.                                  *)
(***************************************************************************)
EXTENDS QueuedRequest, RangeLemmas, TLAPS

(* What is proved about the queue alone holds for the queue in a request.  *)
P == INSTANCE RpaQueueRefinement WITH
       Producers <- {Sdk}, Consumers <- {Php}, Controllers <- {Php}, Values <- Events

(* The two threads may make the same calls under both names of the queue.  *)
LEMMA SameCalls == ASSUME NEW t PROVE Q!Calls(t) = P!Calls(t)
BY DEF Q!Calls, P!Calls, Q!Frames, P!Frames, Q!Ops, P!Ops, Q!Waits, P!Waits

(* Every action of the queue is the action its proofs are about.           *)
LEMMA SameActions ==
  ASSUME NEW t \in {Sdk, Php}
  PROVE  /\ Q!Enter(t) => P!Enter(t)
         /\ Q!Lock(t) => P!Lock(t)
         /\ Q!Accept(t) => P!Accept(t)
         /\ Q!Sleep(t) => P!Sleep(t)
         /\ Q!GiveUp(t) => P!GiveUp(t)
         /\ Q!Timeout(t) => P!Timeout(t)
         /\ Q!SpuriousWake(t) => P!SpuriousWake(t)
         /\ Q!Reacquire(t) => P!Reacquire(t)
         /\ Q!Store(t) => P!Store(t)
         /\ Q!Fetch(t) => P!Fetch(t)
         /\ Q!SetTerminated(t) => P!SetTerminated(t)
         /\ Q!Drop(t) => P!Drop(t)
         /\ Q!Broadcast(t) => P!Broadcast(t)
         /\ Q!Unlock(t) => P!Unlock(t)
         /\ Q!Return(t) => P!Return(t)
<1> USE DEF Q!ring, P!ring
<1>1. Q!Enter(t) => P!Enter(t)
  BY SameCalls DEF Q!Enter, P!Enter
<1>2. Q!Lock(t) => P!Lock(t)
  BY DEF Q!Lock, P!Lock, Q!MutexFree, P!MutexFree
<1>3. Q!Refused(t) = P!Refused(t)
  BY DEF Q!Refused, P!Refused, Q!Full, P!Full, Q!Empty, P!Empty
<1>4. Q!MayWait(t) = P!MayWait(t)
  BY DEF Q!MayWait, P!MayWait
<1>5. Q!Accept(t) => P!Accept(t)
  BY <1>3 DEF Q!Accept, P!Accept
<1>6. Q!Sleep(t) => P!Sleep(t)
  BY <1>3, <1>4 DEF Q!Sleep, P!Sleep
<1>7. Q!GiveUp(t) => P!GiveUp(t)
  BY <1>3, <1>4 DEF Q!GiveUp, P!GiveUp
<1>8. Q!Timeout(t) => P!Timeout(t)
  BY DEF Q!Timeout, Q!MayExpire, P!Timeout, P!MayExpire
<1>9. Q!SpuriousWake(t) => P!SpuriousWake(t)
  BY DEF Q!SpuriousWake, P!SpuriousWake
<1>10. Q!Reacquire(t) => P!Reacquire(t)
  BY <1>3 DEF Q!Reacquire, P!Reacquire, Q!MutexFree, P!MutexFree,
              Q!LeaveWaiters, P!LeaveWaiters, Q!Served, P!Served
<1>11. \A i : Q!Wrap(i) = P!Wrap(i)
  BY DEF Q!Wrap, P!Wrap
<1>12. \A op : Q!SignalAndUnlock(t, op) => P!SignalAndUnlock(t, op)
  BY DEF Q!SignalAndUnlock, P!SignalAndUnlock, Q!HasWaiters, P!HasWaiters,
         Q!BlockedOn, P!BlockedOn, Q!Asleep, P!Asleep, Q!Threads, P!Threads
<1>13. Q!Store(t) => P!Store(t)
  BY <1>11, <1>12 DEF Q!Store, P!Store
<1>14. Q!Fetch(t) => P!Fetch(t)
  BY <1>11, <1>12 DEF Q!Fetch, P!Fetch
<1>15. Q!SetTerminated(t) => P!SetTerminated(t)
  BY DEF Q!SetTerminated, P!SetTerminated
<1>16. Q!Drop(t) => P!Drop(t)
  BY DEF Q!Drop, P!Drop
<1>17. Q!Broadcast(t) => P!Broadcast(t)
  BY DEF Q!Broadcast, P!Broadcast, Q!Awakened, P!Awakened, Q!Asleep, P!Asleep,
         Q!Threads, P!Threads
<1>18. (Q!Unlock(t) => P!Unlock(t)) /\ (Q!Return(t) => P!Return(t))
  BY DEF Q!Unlock, P!Unlock, Q!NoCall, P!NoCall, Q!Return, P!Return
<1>19. QED
  BY <1>1, <1>2, <1>5, <1>6, <1>7, <1>8, <1>9, <1>10, <1>13, <1>14, <1>15,
     <1>16, <1>17, <1>18

(* A step of the request is a step of its queue, or leaves the queue alone.  *)
LEMMA StepOfQueue == [Next]_vars => [P!Next]_P!vars
<1> SUFFICES ASSUME [Next]_vars PROVE [P!Next]_P!vars
  OBVIOUS
<1>t. P!Threads = {Sdk, Php}
  BY DEF P!Threads
<1>0. CASE UNCHANGED ring
  BY <1>0 DEF ring, P!vars
<1>1. ASSUME NEW t \in {Sdk, Php},
             \/ Q!Enter(t) \/ Q!Lock(t) \/ Q!Accept(t) \/ Q!Sleep(t) \/ Q!GiveUp(t)
             \/ Q!Timeout(t) \/ Q!SpuriousWake(t) \/ Q!Reacquire(t) \/ Q!Store(t)
             \/ Q!Fetch(t) \/ Q!SetTerminated(t) \/ Q!Drop(t) \/ Q!Broadcast(t)
             \/ Q!Unlock(t) \/ Q!Return(t)
      PROVE  P!Next
  BY <1>1, <1>t, SameActions DEF P!Next, P!Step
<1>2. ASSUME NEW t \in {Sdk, Php}, Running(t) \/ Sleep(t) \/ SpuriousWake(t)
      PROVE  P!Next
  BY <1>1, <1>2 DEF Running, Sleep, SpuriousWake
<1>3. CASE Callback \/ Resolve \/ Flag
  BY <1>0, <1>3 DEF Callback, Resolve, Flag
<1>4. CASE Push_Enter \/ Push_Store \/ Push_Leave
  BY <1>1, <1>4 DEF Push_Enter, Push_Store, Push_Leave, Leave
<1>5. CASE Next_Enter \/ Next_Fetch \/ Next_Leave
  BY <1>1, <1>5 DEF Next_Enter, Next_Fetch, Next_Leave, Leave
<1>6. CASE Term_Enter \/ Term_Leave \/ Drain_Enter \/ Drain_Leave
  BY <1>1, <1>6 DEF Term_Enter, Term_Leave, Drain_Enter, Drain_Leave, Leave
<1>7. CASE Start \/ IsFinished_Size \/ IsFinished_Flag \/ Close \/ Destroy
  BY <1>0, <1>7 DEF Start, IsFinished_Size, IsFinished_Flag, Close, Destroy
<1>8. CASE UNCHANGED vars
  BY <1>0, <1>8 DEF vars
<1>9. QED
  BY <1>2, <1>3, <1>4, <1>5, <1>6, <1>7, <1>8 DEF Next, Handle, Engine, Script

(* The queue in a request starts as rpa_queue_create leaves it. *)
LEMMA InitOfQueue == Init => P!Init
BY DEF Init, Q!Init, P!Init, Q!Slots, P!Slots, Q!Threads, P!Threads, Q!NoCall, P!NoCall

(* What the queue assumes of its threads and values. *)
LEMMA AssumptionsOfQueue ==
  /\ SpuriousWakeups \in BOOLEAN /\ LateTimeouts \in BOOLEAN
  /\ Capacity \in Nat \ {0}
  /\ P!IsFiniteSet(P!Threads)
  /\ Nobody \notin P!Threads
  /\ NoValue \notin Events
<1>1. P!Threads = {Sdk, Php}
  BY DEF P!Threads
<1>2. P!IsFiniteSet({Sdk, Php})
  <2>1. <<Sdk, Php>> \in Seq({Sdk, Php})
    OBVIOUS
  <2>2. \A t \in {Sdk, Php} : \E n \in 1 .. Len(<<Sdk, Php>>) : <<Sdk, Php>>[n] = t
    OBVIOUS
  <2>3. QED
    BY <2>1, <2>2 DEF P!IsFiniteSet
<1>3. QED
  BY <1>1, <1>2, QueuedAssumption, ValueAssumption

(* The queue in a request keeps the invariant of the queue alone: what its *)
(* callers in ton_client.c do to it is what any thread may do.             *)
THEOREM QueueInvariant == Spec => []P!Inv
<1>1. Spec => P!Spec
  BY InitOfQueue, StepOfQueue, PTL DEF Spec, P!Spec
<1>2. P!Spec => []P!Inv
  BY P!InvHolds, AssumptionsOfQueue
<1>3. QED
  BY <1>1, <1>2, PTL

-----------------------------------------------------------------------------
(* Deadlines. *)

(* A timeout that an int holds is passed on as it is. *)
LEMMA NarrowKeeps == ASSUME NEW n \in Ints PROVE Narrow(n) = n
<1>1. n + IntLimit \in 0 .. 2 * IntLimit - 1
  BY IntAssumption DEF Ints
<1>2. ASSUME NEW m \in Nat, NEW k \in 0 .. m - 1 PROVE k % m = k
  BY <1>2
<1>3. (n + IntLimit) % (2 * IntLimit) = n + IntLimit
  BY <1>1, <1>2, IntAssumption
<1>4. QED
  BY <1>3, IntAssumption DEF Narrow, Ints

(* A second has 10^9 nanoseconds. *)
LEMMA SecondValue == Second \in Nat /\ Second = 1000000000
BY SMT DEF Second

(* get_future_timespec is exact for every int, and its result normalised   *)
(* for a wait that is not negative.                                        *)
THEOREM FutureIsExact ==
  ASSUME NEW now \in Timespecs, NEW ms \in Int
  PROVE  /\ IsAfter(get_future_timespec(now, ms), now, ms)
         /\ ms >= 0 => get_future_timespec(now, ms) \in Timespecs
<1> DEFINE q == Quotient(ms, 1000)
           r == Remainder(ms, 1000)
           sec == now.sec + q
           nsec == now.nsec + r * 1000000
           due == get_future_timespec(now, ms)
<1>1. /\ q \in Int /\ r \in Int
      /\ ms = 1000 * q + r
      /\ ms >= 0 => 0 <= r /\ r < 1000
  BY SMT DEF Quotient, Remainder
<1>2. now.sec \in Int /\ now.nsec \in Int /\ 0 <= now.nsec /\ now.nsec < Second
  <2>1. now.sec \in Int /\ now.nsec \in 0 .. Second - 1
    BY SMT DEF Timespecs
  <2>2. Second \in Nat
    BY SecondValue, SMT
  <2>3. QED
    BY <2>1, <2>2
<1>3. due = IF nsec >= Second THEN [sec |-> sec + 1, nsec |-> nsec - Second]
                              ELSE [sec |-> sec, nsec |-> nsec]
  BY SMT DEF get_future_timespec, Carries
<1>4. /\ sec \in Int /\ nsec \in Int
      /\ ms >= 0 => 0 <= nsec /\ nsec < 2 * Second
  BY <1>1, <1>2, SecondValue, SMT
<1>5. IsAfter([sec |-> sec, nsec |-> nsec], now, ms)
  BY <1>1, <1>2, SMT DEF IsAfter
<1>6. IsAfter([sec |-> sec + 1, nsec |-> nsec - Second], now, ms)
  BY <1>1, <1>2, SecondValue, SMT DEF IsAfter
<1> HIDE DEF q, r, sec, nsec, due
<1>7. ASSUME NEW s \in Int, NEW n \in Int, 0 <= n, n < Second
      PROVE  [sec |-> s, nsec |-> n] \in Timespecs
  <2>1. Second \in Nat
    BY SecondValue, SMT
  <2>2. n \in 0 .. Second - 1
    BY <1>7, <2>1
  <2>3. QED
    BY <2>2 DEF Timespecs
<1>8. CASE nsec >= Second
  <2>1. ms >= 0 => 0 <= nsec - Second /\ nsec - Second < Second
    BY <1>4, <1>8, SecondValue, SMT
  <2>2. sec + 1 \in Int /\ nsec - Second \in Int
    BY <1>4, SecondValue, SMT
  <2>3. QED
    BY <1>3, <1>6, <1>7, <1>8, <2>1, <2>2 DEF due
<1>9. CASE ~(nsec >= Second)
  <2>1. nsec < Second
    BY <1>4, <1>9, SecondValue, SMT
  <2>2. QED
    BY <1>3, <1>4, <1>5, <1>7, <1>9, <2>1 DEF due
<1>10. QED
  BY <1>8, <1>9

(* The deadline of a sleeping pop is the one computed from its timeout. *)
DeadlineKept ==
  /\ asked \in Int
  /\ pc[Php] = "wait" /\ call[Php].wait = "timed" =>
       /\ abstime.now \in Timespecs
       /\ abstime.due = get_future_timespec(abstime.now, Narrow(asked))

(* A step that neither puts the PHP thread to sleep nor touches its call   *)
(* while it sleeps keeps the deadline.                                     *)
LEMMA DeadlineStays ==
  ASSUME DeadlineKept, asked' = asked, UNCHANGED abstime,
         pc'[Php] = "wait" => pc[Php] = "wait" /\ call'[Php] = call[Php]
  PROVE  DeadlineKept'
BY DEF DeadlineKept

(* Every step of the two threads keeps the deadline. *)
LEMMA NextDeadlineKept == P!Inv /\ DeadlineKept /\ [Next]_vars => DeadlineKept'
<1> SUFFICES ASSUME P!Inv, DeadlineKept, [Next]_vars PROVE DeadlineKept'
  OBVIOUS
<1>t. /\ DOMAIN pc = {Sdk, Php} /\ DOMAIN call = {Sdk, Php}
      /\ P!Threads = {Sdk, Php} /\ Q!Threads = {Sdk, Php}
  BY DEF P!Inv, P!TypeOK, P!Threads, Q!Threads
<1>1. ASSUME NEW t \in {Sdk, Php}, Running(t) PROVE DeadlineKept'
  <2>1. asked' = asked /\ UNCHANGED abstime
    BY <1>1 DEF Running, engine
  <2>2. CASE Q!Lock(t) \/ Q!Accept(t) \/ Q!GiveUp(t) \/ Q!Timeout(t) \/ Q!Reacquire(t)
    <3>1. call' = call /\ pc' = [pc EXCEPT ![t] = pc'[t]] /\ pc'[t] # "wait"
      BY <2>2, <1>t DEF Q!Lock, Q!Accept, Q!GiveUp, Q!Timeout, Q!MayExpire, Q!Reacquire
    <3>2. QED
      BY <2>1, <3>1, <1>t, DeadlineStays
  <2>3. CASE Q!SetTerminated(t) \/ Q!Drop(t)
    <3>1. /\ pc'[t] # "wait"
          /\ \A u \in {Sdk, Php} : u # t => pc'[u] = pc[u] /\ call'[u] = call[u]
      BY <2>3, <1>t DEF Q!SetTerminated, Q!Drop
    <3>2. QED
      BY <2>1, <3>1, <1>t, DeadlineStays
  <2>4. CASE Q!Broadcast(t)
    <3>1. \A u \in {Sdk, Php} : pc'[u] # "wait"
      BY <2>4, <1>t DEF Q!Broadcast, Q!Awakened, Q!Asleep
    <3>2. QED
      BY <2>1, <3>1, DeadlineStays
  <2>5. QED
    BY <1>1, <2>2, <2>3, <2>4 DEF Running
<1>2. ASSUME NEW t \in {Sdk, Php}, Sleep(t) PROVE DeadlineKept'
  <2>1. /\ asked' = asked /\ call' = call
        /\ pc' = [pc EXCEPT ![t] = "wait"]
    BY <1>2 DEF Sleep, Q!Sleep
  <2>2. CASE call[t].wait = "timed"
    <3>1. PICK now \in Clocks :
            abstime' = [now |-> now, due |-> get_future_timespec(now, Narrow(asked))]
      BY <1>2, <2>2 DEF Sleep
    <3>2. now \in Timespecs
      BY QueuedAssumption
    <3>3. abstime'.now = now /\ abstime'.due = get_future_timespec(now, Narrow(asked))
      BY <3>1
    <3>4. QED
      BY <2>1, <3>2, <3>3 DEF DeadlineKept, get_future_timespec, Narrow, Quotient,
                              Remainder, Carries
  <2>3. CASE call[t].wait # "timed"
    <3>1. UNCHANGED abstime
      BY <1>2, <2>3 DEF Sleep
    <3>2. QED
      BY <2>1, <2>3, <3>1, <1>t DEF DeadlineKept, get_future_timespec, Narrow
  <2>4. QED
    BY <2>2, <2>3
<1>3. ASSUME NEW t \in {Sdk, Php}, SpuriousWake(t) PROVE DeadlineKept'
  <2>1. /\ asked' = asked /\ UNCHANGED abstime /\ call' = call
        /\ pc' = [pc EXCEPT ![t] = "woken"]
    BY <1>3 DEF SpuriousWake, Q!SpuriousWake, engine
  <2>2. QED
    BY <2>1, <1>t, DeadlineStays
<1>4. CASE Push_Enter \/ Push_Leave \/ Term_Enter \/ Term_Leave \/ Drain_Enter \/ Drain_Leave
  <2>1. PICK t \in {Sdk, Php} : Q!Enter(t) \/ Q!Unlock(t) \/ Q!Return(t)
    BY <1>4 DEF Push_Enter, Push_Leave, Term_Enter, Term_Leave, Drain_Enter,
                Drain_Leave, Leave
  <2>2. asked' = asked /\ UNCHANGED abstime
    BY <1>4 DEF Push_Enter, Push_Leave, Term_Enter, Term_Leave, Drain_Enter,
                Drain_Leave, engine
  <2>3. /\ pc[t] # "wait" /\ pc'[t] # "wait"
        /\ pc' = [pc EXCEPT ![t] = pc'[t]] /\ call' = [call EXCEPT ![t] = call'[t]]
    BY <2>1, <1>t DEF Q!Enter, Q!Unlock, Q!Return
  <2>4. QED
    BY <2>2, <2>3, <1>t, DeadlineStays
<1>5. CASE Push_Store \/ Next_Fetch
  <2>1. PICK t \in {Sdk, Php}, op \in {"push", "pop"} :
          /\ pc[t] = "copy" /\ Q!SignalAndUnlock(t, op)
          /\ call' = [call EXCEPT ![t] = call'[t]]
    BY <1>5, <1>t DEF Push_Store, Next_Fetch, Q!Store, Q!Fetch
  <2>2. asked' = asked /\ UNCHANGED abstime
    BY <1>5 DEF Push_Store, Next_Fetch, engine
  <2>3. \A u \in {Sdk, Php} : pc'[u] = "wait" => u # t /\ pc[u] = "wait"
    BY <2>1, <1>t DEF Q!SignalAndUnlock, Q!BlockedOn, Q!Asleep
  <2>4. QED
    BY <2>1, <2>2, <2>3, <1>t, DeadlineStays
<1>6. CASE Next_Enter \/ Next_Leave
  <2>0. asked' \in Int
    <3>1. asked' \in Timeouts \/ asked' = 0
      BY <1>6 DEF Next_Enter, Next_Leave
    <3>2. Timeouts \subseteq Int /\ 0 \in Int
      BY QueuedAssumption
    <3>3. QED
      BY <3>1, <3>2
  <2>1. Q!Enter(Php) \/ Q!Unlock(Php) \/ Q!Return(Php)
    BY <1>6 DEF Next_Enter, Next_Leave, Leave
  <2>2. pc'[Php] # "wait"
    BY <2>1, <1>t DEF Q!Enter, Q!Unlock, Q!Return
  <2>3. QED
    BY <2>0, <2>2 DEF DeadlineKept
<1>7. CASE \/ Callback \/ Resolve \/ Flag \/ UNCHANGED vars
           \/ Start \/ IsFinished_Size \/ IsFinished_Flag \/ Close \/ Destroy
  BY <1>7, DeadlineStays DEF Callback, Resolve, Flag, Start, IsFinished_Size,
           IsFinished_Flag, Close, Destroy, ring, engine, vars
<1>8. QED
  BY <1>1, <1>2, <1>3, <1>4, <1>5, <1>6, <1>7 DEF Next, Handle, Engine, Script

(* Any timeout that fits an int is kept to the millisecond, whatever the   *)
(* clock shows and whatever the handler does meanwhile.                    *)
THEOREM DeadlinesExact == Spec => []DeadlineExact
<1>1. Init => DeadlineKept
  BY DEF Init, Q!Init, DeadlineKept, Q!Threads
<1>2. DeadlineKept => DeadlineExact
  BY NarrowKeeps, FutureIsExact DEF DeadlineKept, DeadlineExact, Ints
<1>3. QED
  BY <1>1, <1>2, NextDeadlineKept, QueueInvariant, PTL DEF Spec

-----------------------------------------------------------------------------
(* The release: when the PHP thread destroys the queue, the SDK's thread   *)
(* has left it and nothing is in it.  No lock and no flag says so.  The    *)
(* argument is the order of events: the script lets go after the last      *)
(* event, that event was stored under the mutex, and to fetch it the PHP   *)
(* thread needs the mutex, which the SDK's thread gives up in its last     *)
(* step inside rpa_queue_push.                                             *)

Items == P!Items

(* Each thread is inside the queue only from the places its caller calls   *)
(* it, the handler to push the event it has in hand.                       *)
Places ==
  /\ pc[Sdk] # "idle" => /\ handler = "push"
                         /\ call[Sdk].op = "push" /\ call[Sdk].arg = Event
  /\ pc[Php] # "idle" => php \in {"next", "term", "drain"}
  /\ php # "idle" => mem = "live"

(* The event in hand is younger than all others: than those in the queue   *)
(* until it is stored, than those received until the handler is through.   *)
Younger ==
  /\ \A i \in 1 .. Len(Items) :
       /\ Items[i].n <= sent
       /\ handler # "idle" /\ pc[Sdk] # "unlock" => Items[i].n < sent
  /\ \A n \in Range(got) : n <= sent /\ (handler # "idle" => n < sent)

(* Events are queued in the order of their numbers. *)
Sorted ==
  \A i, j \in 1 .. Len(Items) : i < j => Items[i].n < Items[j].n

(* Nothing is behind the youngest event. *)
Drained == sent \in Range(got) => Items = <<>>

(* The PHP thread lets go of the request only after the last event. *)
LetGo == php \in {"term", "drain", "destroy", "mark"} \/ mem = "freed"
Kept == LetGo => Received

ReleaseInv == Places /\ Younger /\ Sorted /\ Drained /\ Kept

(* Sizes of what the numbers are compared with. *)
Counts ==
  /\ sent \in 0 .. MaxEvents /\ got \in Seq(1 .. MaxEvents)
  /\ php \in {"idle", "next", "sized", "term", "drain", "destroy", "mark"}
  /\ handler \in {"idle", "resolve", "flag", "push"}

(* The two names of the queue mean the same elements and threads. *)
LEMMA SameQueue == P!Threads = {Sdk, Php} /\ Q!Threads = {Sdk, Php}
BY DEF P!Threads, Q!Threads

(* What is in the queue of a request is a sequence of its events. *)
LEMMA ItemsAreEvents ==
  ASSUME P!Inv
  PROVE  /\ Items \in Seq(Events) /\ Len(Items) = nelts
         /\ DOMAIN pc = {Sdk, Php} /\ DOMAIN call = {Sdk, Php}
<1>1. Items \in Seq(Events) /\ Len(Items) = nelts
  BY P!ItemsSeq, AssumptionsOfQueue DEF Items, P!Inv
<1>2. QED
  BY <1>1, SameQueue DEF P!Inv, P!TypeOK

(* The number of an event is a number. *)
LEMMA EventNumbers ==
  ASSUME Items \in Seq(Events)
  PROVE  \A i \in 1 .. Len(Items) : Items[i] \in Events /\ Items[i].n \in 1 .. MaxEvents
<1>1. \A i \in 1 .. Len(Items) : Items[i] \in Events
  OBVIOUS
<1>2. \A e \in Events : e.n \in 1 .. MaxEvents
  BY DEF Events
<1>3. QED
  BY <1>1, <1>2

(* A step inside a queue function that moves no element changes neither    *)
(* the elements nor what the threads call, and nobody enters or leaves.    *)
LEMMA RunningKeeps ==
  ASSUME P!Inv, Places, NEW t \in {Sdk, Php},
         Running(t) \/ Sleep(t) \/ SpuriousWake(t)
  PROVE  /\ Items' = Items
         /\ \A u \in {Sdk, Php} : /\ pc'[u] = "idle" <=> pc[u] = "idle"
                                  /\ pc[u] = "unlock" => pc'[u] = "unlock"
         /\ pc[Sdk] # "idle" => call'[Sdk].op = "push" /\ call'[Sdk].arg = call[Sdk].arg
         /\ UNCHANGED <<finished, sdk, mem, php, got>>
<1>t. DOMAIN pc = {Sdk, Php} /\ DOMAIN call = {Sdk, Php} /\ Q!Threads = {Sdk, Php}
  BY ItemsAreEvents, SameQueue
<1>1. UNCHANGED <<finished, sdk, mem, php, got>>
  BY DEF Running, Sleep, SpuriousWake, sdk, engine
<1>2. PICK q : q = t /\
        \/ Q!Lock(q) \/ Q!Accept(q) \/ Q!GiveUp(q) \/ Q!Timeout(q) \/ Q!Reacquire(q)
        \/ Q!SetTerminated(q) \/ Q!Drop(q) \/ Q!Broadcast(q) \/ Q!Sleep(q)
        \/ Q!SpuriousWake(q)
  BY DEF Running, Sleep, SpuriousWake
<1>3. UNCHANGED <<data, nelts, in, out>>
  BY <1>2 DEF Q!Lock, Q!Accept, Q!GiveUp, Q!Timeout, Q!MayExpire, Q!Reacquire, Q!SetTerminated,
              Q!Drop, Q!Broadcast, Q!Sleep, Q!SpuriousWake, Q!ring
<1>4. Items' = Items
  BY <1>3 DEF Items, P!Items, P!Wrap
<1>5. CASE Q!Broadcast(t)
  <2>1. /\ call[t].op = "interrupt_all" /\ pc[t] = "test"
        /\ call' = [call EXCEPT ![t].ret = TRUE]
        /\ pc'[t] = "unlock"
        /\ \A u \in {Sdk, Php} \ {t} : pc'[u] = pc[u] \/ (pc[u] = "wait" /\ pc'[u] = "woken")
    BY <1>5, <1>t DEF Q!Broadcast, Q!Awakened, Q!Asleep
  <2>2. pc[Sdk] # "idle" => t # Sdk
    BY <2>1 DEF Places
  <2>3. QED
    BY <1>1, <1>4, <1>t, <2>1, <2>2 DEF Places
<1>6. CASE Q!SetTerminated(t) \/ Q!Drop(t)
  <2>1. /\ call' = call \/ (call[t].op = "term" /\ \A u \in {Sdk, Php} \ {t} : call'[u] = call[u])
        /\ pc[t] \in {"test", "drop"} /\ pc'[t] \in {"drop", "lock"}
        /\ \A u \in {Sdk, Php} \ {t} : pc'[u] = pc[u]
    BY <1>6, <1>t DEF Q!SetTerminated, Q!Drop
  <2>2. QED
    BY <1>1, <1>4, <1>t, <2>1 DEF Places
<1>7. CASE \/ Q!Lock(t) \/ Q!Accept(t) \/ Q!GiveUp(t) \/ Q!Timeout(t) \/ Q!Reacquire(t)
           \/ Q!Sleep(t) \/ Q!SpuriousWake(t)
  <2>1. /\ call' = call /\ pc[t] \notin {"idle", "unlock"} /\ pc'[t] # "idle"
        /\ \A u \in {Sdk, Php} \ {t} : pc'[u] = pc[u]
    BY <1>7, <1>t DEF Q!Lock, Q!Accept, Q!GiveUp, Q!Timeout, Q!MayExpire, Q!Reacquire, Q!Sleep,
                      Q!SpuriousWake
  <2>2. QED
    BY <1>1, <1>4, <1>t, <2>1 DEF Places
<1>8. QED
  BY <1>2, <1>5, <1>6, <1>7

(* A step of one thread outside the queue functions: the elements stay,    *)
(* and nobody is at work in the queue in between.                          *)
LEMMA OutsideKeeps == ASSUME UNCHANGED ring PROVE Items' = Items
BY DEF ring, Items, P!Items, P!Wrap

(* While the PHP thread fetches, the SDK's thread is not between storing   *)
(* its event and unlocking: it would hold the mutex.                       *)
LEMMA FetchExcludes ==
  ASSUME P!Inv, pc[Php] = "copy"
  PROVE  pc[Sdk] # "unlock"
BY QueuedAssumption, SameQueue DEF P!Inv, P!MutexHeld, P!Holding

(* The mutex is free when nobody is in the queue. *)
LEMMA NobodyHolds ==
  ASSUME P!Inv, pc[Sdk] = "idle", pc[Php] = "idle"
  PROVE  owner = Nobody
BY SameQueue DEF P!Inv, P!MutexHeld, P!Holding, P!TypeOK

(* Every step of the two threads keeps what the release rests on. *)
LEMMA NextRelease ==
  ASSUME P!Inv, Counts, ReleaseInv, [Next]_vars
  PROVE  ReleaseInv'
<1>0. /\ Items \in Seq(Events) /\ Len(Items) = nelts
      /\ DOMAIN pc = {Sdk, Php} /\ DOMAIN call = {Sdk, Php}
      /\ \A i \in 1 .. Len(Items) : Items[i] \in Events /\ Items[i].n \in 1 .. MaxEvents
      /\ P!Threads = {Sdk, Php}
  BY ItemsAreEvents, EventNumbers, SameQueue
<1>m. MaxEvents \in Nat /\ sent \in Nat /\ Sdk # Php
  BY QueuedAssumption DEF Counts
<1>g. got \in Seq(1 .. MaxEvents) /\ \A n \in Range(got) : n \in 1 .. MaxEvents
  BY RangeOfSeq DEF Counts
<1>1. ASSUME NEW t \in {Sdk, Php}, Running(t) \/ Sleep(t) \/ SpuriousWake(t)
      PROVE  ReleaseInv'
  <2>1. /\ Items' = Items
        /\ \A u \in {Sdk, Php} : /\ pc'[u] = "idle" <=> pc[u] = "idle"
                                 /\ pc[u] = "unlock" => pc'[u] = "unlock"
        /\ pc[Sdk] # "idle" => call'[Sdk].op = "push" /\ call'[Sdk].arg = call[Sdk].arg
        /\ UNCHANGED <<finished, sdk, mem, php, got>>
    BY <1>1, RunningKeeps DEF ReleaseInv
  <2>2. Event' = Event
    BY <2>1 DEF Event, sdk
  <2>3. Places'
    BY <2>1, <2>2 DEF ReleaseInv, Places, sdk
  <2>4. Younger'
    BY <2>1 DEF ReleaseInv, Younger, sdk
  <2>5. Sorted' /\ Drained' /\ Kept'
    BY <2>1 DEF ReleaseInv, Sorted, Drained, Kept, LetGo, Received, sdk
  <2>6. QED
    BY <2>3, <2>4, <2>5 DEF ReleaseInv
<1>2. CASE Callback
  <2>1. /\ handler = "idle" /\ ~final /\ sent' = sent + 1 /\ handler' = "resolve"
        /\ Items' = Items /\ pc' = pc /\ call' = call /\ UNCHANGED <<php, mem, got>>
    BY <1>2, OutsideKeeps DEF Callback, engine, ring
  <2>2. pc[Sdk] = "idle" /\ ~Received
    BY <2>1 DEF ReleaseInv, Places, Received
  <2>3. Places'
    BY <2>1, <2>2 DEF ReleaseInv, Places
  <2>4. Younger'
    BY <1>0, <1>m, <1>g, <2>1 DEF ReleaseInv, Younger
  <2>5. sent' \notin Range(got)
    BY <1>m, <1>g, <2>1 DEF ReleaseInv, Younger
  <2>6. Sorted' /\ Drained' /\ Kept'
    BY <2>1, <2>2, <2>5 DEF ReleaseInv, Sorted, Drained, Kept, LetGo
  <2>7. QED
    BY <2>3, <2>4, <2>6 DEF ReleaseInv
<1>3. CASE Resolve \/ Flag
  <2>1. /\ handler \in {"resolve", "flag"} /\ handler' \in {"flag", "push"}
        /\ Items' = Items /\ pc' = pc /\ call' = call
        /\ UNCHANGED <<sent, final, php, mem, got>>
    BY <1>3, OutsideKeeps DEF Resolve, Flag, engine, ring
  <2>2. pc[Sdk] = "idle"
    BY <2>1 DEF ReleaseInv, Places
  <2>3. Places' /\ Younger'
    BY <2>1, <2>2 DEF ReleaseInv, Places, Younger
  <2>4. Sorted' /\ Drained' /\ Kept'
    BY <2>1 DEF ReleaseInv, Sorted, Drained, Kept, LetGo, Received
  <2>5. QED
    BY <2>3, <2>4 DEF ReleaseInv
<1>4. CASE Push_Enter
  <2>1. /\ handler = "push" /\ pc[Sdk] = "idle" /\ Q!Enter(Sdk)
        /\ call'[Sdk] = [op |-> "push", wait |-> "forever", arg |-> Event, ret |-> FALSE]
        /\ UNCHANGED <<sent, final, handler, php, mem, got>>
    BY <1>4 DEF Push_Enter, sdk, engine, Q!Enter
  <2>2. /\ pc'[Sdk] \in {"return", "lock"} /\ pc'[Php] = pc[Php] /\ Items' = Items
        /\ Event' = Event
    BY <1>0, <1>m, <2>1 DEF Q!Enter, Q!ring, Items, P!Items, P!Wrap, Event
  <2>3. Places' /\ Younger'
    BY <2>1, <2>2 DEF ReleaseInv, Places, Younger
  <2>4. Sorted' /\ Drained' /\ Kept'
    BY <2>1, <2>2 DEF ReleaseInv, Sorted, Drained, Kept, LetGo, Received
  <2>5. QED
    BY <2>3, <2>4 DEF ReleaseInv
<1>5. CASE Push_Store
  <2>1. /\ Q!Store(Sdk) /\ pc[Sdk] = "copy" /\ UNCHANGED <<sent, final, handler, php, mem, got>>
        /\ Q!SignalAndUnlock(Sdk, "pop") /\ call' = [call EXCEPT ![Sdk].ret = TRUE]
    BY <1>5 DEF Push_Store, Q!Store, sdk, engine
  <2>2. /\ handler = "push" /\ call[Sdk].op = "push" /\ call[Sdk].arg = Event
    BY <2>1 DEF ReleaseInv, Places
  <2>3. Items' = Append(Items, Event)
    <3>1. P!Store(Sdk)
      BY <2>1, SameActions
    <3>2. P!Items' = Append(P!Items, call[Sdk].arg)
      BY <1>0, <3>1, P!StoreAppends, AssumptionsOfQueue
    <3>3. QED
      BY <2>2, <3>2 DEF Items
  <2>4. /\ pc'[Sdk] = "unlock" /\ (pc'[Php] = "idle" <=> pc[Php] = "idle")
        /\ call'[Sdk].op = "push" /\ call'[Sdk].arg = Event /\ Event' = Event
    BY <1>0, <1>m, <2>1, <2>2, SameQueue DEF Q!SignalAndUnlock, Q!BlockedOn, Q!Asleep, Event
  <2>5. Places'
    BY <2>1, <2>2, <2>4 DEF ReleaseInv, Places
  <2>6. /\ Len(Items') = Len(Items) + 1
        /\ \A i \in 1 .. Len(Items) : Items'[i] = Items[i]
        /\ Items'[Len(Items) + 1] = Event
    <3>1. \A e : /\ Len(Append(Items, e)) = Len(Items) + 1
                 /\ \A i \in 1 .. Len(Items) : Append(Items, e)[i] = Items[i]
                 /\ Append(Items, e)[Len(Items) + 1] = e
      BY <1>0
    <3>2. QED
      BY <2>3, <3>1
  <2>7. \A i \in 1 .. Len(Items) : Items[i].n < sent
    BY <2>1, <2>2 DEF ReleaseInv, Younger
  <2>8. Event.n = sent /\ Len(Items) \in Nat
    BY <1>0 DEF Event
  <2>9. Younger'
    BY <1>m, <2>1, <2>4, <2>6, <2>7, <2>8 DEF ReleaseInv, Younger
  <2>10. Sorted'
    BY <1>0, <1>m, <2>6, <2>7, <2>8 DEF ReleaseInv, Sorted
  <2>11. sent \notin Range(got)
    BY <1>m, <2>2 DEF ReleaseInv, Younger
  <2>12. Drained' /\ Kept'
    BY <2>1, <2>11 DEF ReleaseInv, Drained, Kept, LetGo, Received
  <2>13. QED
    BY <2>5, <2>9, <2>10, <2>12 DEF ReleaseInv
<1>6. CASE Push_Leave
  <2>1. /\ pc'[Sdk] = "idle" /\ pc'[Php] = pc[Php] /\ handler' = "idle" /\ Items' = Items
        /\ UNCHANGED <<sent, final, php, mem, got>>
    BY <1>6, <1>0, <1>m
    DEF Push_Leave, Leave, Q!Unlock, Q!Return, Q!ring, Items, P!Items, P!Wrap, engine
  <2>2. Places' /\ Younger'
    BY <2>1 DEF ReleaseInv, Places, Younger
  <2>3. Sorted' /\ Drained' /\ Kept'
    BY <2>1 DEF ReleaseInv, Sorted, Drained, Kept, LetGo, Received
  <2>4. QED
    BY <2>2, <2>3 DEF ReleaseInv
<1>7. CASE Next_Fetch
  <2>1. /\ Q!Fetch(Php) /\ pc[Php] = "copy" /\ UNCHANGED <<sent, final, handler, php, mem>>
        /\ Q!SignalAndUnlock(Php, "push") /\ got' = Append(got, data[out].n)
        /\ call'[Sdk] = call[Sdk]
    <3>1. Q!Fetch(Php) /\ UNCHANGED <<sdk, php, mem>> /\ got' = Append(got, data[out].n)
      BY <1>7 DEF Next_Fetch
    <3>2. /\ pc[Php] = "copy" /\ Q!SignalAndUnlock(Php, "push")
          /\ call' = [call EXCEPT ![Php].arg = data[out], ![Php].ret = TRUE]
      BY <3>1 DEF Q!Fetch
    <3>3. call'[Sdk] = call[Sdk]
      BY <1>0, <1>m, <3>2
    <3>4. QED
      BY <3>1, <3>2, <3>3 DEF sdk
  <2>2. Items # <<>> /\ data[out] = Head(Items) /\ Items' = Tail(Items)
    <3>1. P!Fetch(Php)
      BY <2>1, SameActions
    <3>2. QED
      BY <1>0, <3>1, P!FetchTakes, AssumptionsOfQueue DEF Items
  <2>3. /\ pc'[Php] = "unlock" /\ pc[Sdk] # "unlock" /\ pc'[Sdk] # "unlock"
        /\ pc'[Sdk] = "idle" <=> pc[Sdk] = "idle"
        /\ Event' = Event
    BY <1>0, <1>m, <2>1, SameQueue, FetchExcludes
    DEF Q!SignalAndUnlock, Q!BlockedOn, Q!Asleep, Event
  <2>4. Places'
    BY <2>1, <2>3 DEF ReleaseInv, Places
  <2>5. /\ 1 \in 1 .. Len(Items) /\ Len(Items) \in Nat \ {0}
        /\ Head(Items) = Items[1] /\ Len(Items') = Len(Items) - 1
        /\ \A i \in 1 .. Len(Items') : Items'[i] = Items[i + 1] /\ i + 1 \in 1 .. Len(Items)
    <3>1. /\ 1 \in 1 .. Len(Items) /\ Len(Items) \in Nat \ {0}
          /\ Head(Items) = Items[1] /\ Len(Tail(Items)) = Len(Items) - 1
          /\ \A i \in 1 .. Len(Items) - 1 : Tail(Items)[i] = Items[i + 1]
      BY <1>0, <2>2
    <3>2. QED
      BY <2>2, <3>1
  <2>6. /\ Items[1].n \in 1 .. MaxEvents /\ Items[1].n <= sent
        /\ handler # "idle" => Items[1].n < sent
    BY <1>0, <2>3, <2>5 DEF ReleaseInv, Younger
  <2>7. Range(got') = Range(got) \cup {Items[1].n}
    <3>1. got' = Append(got, Items[1].n)
      BY <2>1, <2>2, <2>5
    <3>2. Range(Append(got, Items[1].n)) = Range(got) \cup {Items[1].n}
      <4>1. \A s \in Seq(1 .. MaxEvents), e \in 1 .. MaxEvents :
              Range(Append(s, e)) = Range(s) \cup {e}
        BY RangeAppend
      <4>2. QED
        BY <1>g, <2>6, <4>1
    <3>3. QED
      BY <3>1, <3>2
  <2>8. Younger'
    <3>1. \A i \in 1 .. Len(Items') :
            Items'[i].n <= sent /\ (handler # "idle" => Items'[i].n < sent)
      BY <2>3, <2>5 DEF ReleaseInv, Younger
    <3>2. \A n \in Range(got') : n <= sent /\ (handler # "idle" => n < sent)
      BY <2>6, <2>7 DEF ReleaseInv, Younger
    <3>3. QED
      BY <2>1, <3>1, <3>2 DEF Younger
  <2>9. Sorted'
    BY <1>0, <2>5 DEF ReleaseInv, Sorted
  <2>10. Drained'
    <3>1. CASE sent \in Range(got)
      BY <2>2, <3>1 DEF ReleaseInv, Drained
    <3>2. CASE Items[1].n = sent
      <4>1. \A i \in 1 .. Len(Items') : Items[1].n < Items[i + 1].n /\ Items[i + 1].n <= sent
        BY <1>0, <2>5 DEF ReleaseInv, Sorted, Younger
      <4>2. \A i \in 1 .. Len(Items') : FALSE
        BY <1>0, <1>m, <2>5, <3>2, <4>1
      <4>3. Len(Items') = 0
        BY <2>5, <4>2
      <4>4. Items' = <<>>
        BY <1>0, <2>2, <4>3
      <4>5. QED
        BY <4>4 DEF Drained
    <3>3. QED
      BY <2>1, <2>7, <3>1, <3>2 DEF Drained
  <2>11. Kept'
    BY <2>1, <2>7 DEF ReleaseInv, Kept, LetGo, Received
  <2>12. QED
    BY <2>4, <2>8, <2>9, <2>10, <2>11 DEF ReleaseInv
<1>8. CASE Next_Enter \/ Term_Enter \/ Drain_Enter
  <2>1. /\ Q!Enter(Php) /\ UNCHANGED <<sent, final, handler, mem, got>>
        /\ mem = "live"
        /\ \/ php \in {"term", "drain"} /\ php' = php
           \/ php = "idle" /\ php' = "next"
    BY <1>8 DEF Next_Enter, Term_Enter, Drain_Enter, sdk, engine, ReleaseInv, Places
  <2>2. /\ pc'[Sdk] = pc[Sdk] /\ call'[Sdk] = call[Sdk] /\ Items' = Items /\ Event' = Event
    BY <1>0, <1>m, <2>1 DEF Q!Enter, Q!ring, Items, P!Items, P!Wrap, Event
  <2>3. Places' /\ Younger'
    BY <2>1, <2>2 DEF ReleaseInv, Places, Younger
  <2>4. Sorted' /\ Drained' /\ Kept'
    BY <2>1, <2>2 DEF ReleaseInv, Sorted, Drained, Kept, LetGo, Received
  <2>5. QED
    BY <2>3, <2>4 DEF ReleaseInv
<1>9. CASE Next_Leave \/ Term_Leave \/ Drain_Leave
  <2>1. /\ Leave(Php) /\ UNCHANGED <<sent, final, handler, mem, got>>
        /\ \/ php = "next" /\ php' = "idle"
           \/ php \in {"term", "drain"} /\ php' \in {"drain", "destroy"}
    BY <1>9 DEF Next_Leave, Term_Leave, Drain_Leave, sdk
  <2>2. /\ pc'[Sdk] = pc[Sdk] /\ call'[Sdk] = call[Sdk] /\ Items' = Items /\ Event' = Event
        /\ pc'[Php] = "idle"
    BY <1>0, <1>m, <2>1
    DEF Leave, Q!Unlock, Q!Return, Q!ring, Items, P!Items, P!Wrap, Event
  <2>3. Places' /\ Younger'
    BY <2>1, <2>2 DEF ReleaseInv, Places, Younger
  <2>4. Sorted' /\ Drained' /\ Kept'
    BY <2>1, <2>2 DEF ReleaseInv, Sorted, Drained, Kept, LetGo, Received
  <2>5. QED
    BY <2>3, <2>4 DEF ReleaseInv
<1>10. CASE Start \/ IsFinished_Size \/ IsFinished_Flag \/ Close \/ Destroy \/ UNCHANGED vars
  <2>1. Items' = Items /\ UNCHANGED <<pc, call, sent, final, handler, got>>
    BY <1>10, OutsideKeeps
    DEF Start, IsFinished_Size, IsFinished_Flag, Close, Destroy, vars, ring, sdk, engine
  <2>2. Event' = Event
    BY <2>1 DEF Event
  <2>3. /\ \/ php' = php \/ pc[Php] = "idle"
        /\ php' # "idle" => mem' = "live"
        /\ LetGo' => LetGo \/ Received
    BY <1>10
    DEF Start, IsFinished_Size, IsFinished_Flag, Close, Destroy, vars, sdk, engine, LetGo,
        ReleaseInv, Places
  <2>4. Places' /\ Younger'
    BY <2>1, <2>2, <2>3 DEF ReleaseInv, Places, Younger
  <2>5. Sorted' /\ Drained' /\ Kept'
    BY <2>1, <2>3 DEF ReleaseInv, Sorted, Drained, Kept, Received
  <2>6. QED
    BY <2>4, <2>5 DEF ReleaseInv
<1>11. QED
  BY <1>1, <1>2, <1>3, <1>4, <1>5, <1>6, <1>7, <1>8, <1>9, <1>10
  DEF Next, Handle, Engine, Script

(* Before the request is created there is nothing to release. *)
LEMMA InitRelease == Init => ReleaseInv
<1> SUFFICES ASSUME Init PROVE ReleaseInv
  OBVIOUS
<1>1. /\ pc[Sdk] = "idle" /\ pc[Php] = "idle" /\ nelts = 0
      /\ handler = "idle" /\ php = "idle" /\ mem = "none" /\ got = <<>>
  BY DEF Init, Q!Init, Q!Threads
<1>2. Items = <<>> /\ Len(Items) = 0
  BY <1>1 DEF Items, P!Items
<1>3. Range(got) = {}
  BY <1>1 DEF Range
<1>4. QED
  BY <1>1, <1>2, <1>3
  DEF ReleaseInv, Places, Younger, Sorted, Drained, Kept, LetGo

(* Nothing has been sent or received at first. *)
LEMMA InitCounts == Init => Counts
<1> SUFFICES ASSUME Init PROVE Counts
  OBVIOUS
<1>1. sent = 0 /\ got = <<>> /\ php = "idle" /\ handler = "idle" /\ MaxEvents \in Nat
  BY QueuedAssumption DEF Init
<1>2. <<>> \in Seq(1 .. MaxEvents)
  OBVIOUS
<1>3. QED
  BY <1>1, <1>2 DEF Counts

(* Every step keeps the numbers of the events in their range. *)
LEMMA NextCounts ==
  ASSUME P!Inv, Counts, [Next]_vars
  PROVE  Counts'
<1>1. CASE Callback
  <2>1. sent' = sent + 1 /\ sent < MaxEvents /\ handler' = "resolve" /\ UNCHANGED <<php, got>>
    BY <1>1 DEF Callback, engine
  <2>2. QED
    BY <2>1, QueuedAssumption DEF Counts
<1>2. CASE Next_Fetch
  <2>1. /\ Q!Fetch(Php) /\ got' = Append(got, data[out].n) /\ UNCHANGED <<sent, handler, php>>
    BY <1>2 DEF Next_Fetch, sdk
  <2>2. P!Fetch(Php) /\ Php \in P!Threads
    BY <2>1, SameActions, SameQueue
  <2>3. Items # <<>> /\ data[out] = Head(Items)
    BY <2>2, P!FetchTakes, AssumptionsOfQueue DEF Items
  <2>4. Items \in Seq(Events)
    BY ItemsAreEvents
  <2>5. Head(Items) \in Events
    BY <2>3, <2>4
  <2>6. data[out].n \in 1 .. MaxEvents
    BY <2>3, <2>5 DEF Events
  <2>7. Append(got, data[out].n) \in Seq(1 .. MaxEvents)
    BY <2>6 DEF Counts
  <2>8. QED
    BY <2>1, <2>7 DEF Counts
<1>3. ASSUME UNCHANGED <<sent, got>>,
             php' \in {php, "idle", "next", "sized", "term", "drain", "destroy", "mark"},
             handler' \in {handler, "idle", "flag", "push"}
      PROVE  Counts'
  BY <1>3 DEF Counts
<1>4. ASSUME NEW t \in {Sdk, Php}, Running(t) \/ Sleep(t) \/ SpuriousWake(t) PROVE Counts'
  BY <1>3, <1>4 DEF Running, Sleep, SpuriousWake, sdk, engine
<1>5. CASE Resolve \/ Flag \/ Push_Enter \/ Push_Store \/ Push_Leave
  BY <1>3, <1>5 DEF Resolve, Flag, Push_Enter, Push_Store, Push_Leave, sdk, engine
<1>6. CASE Start \/ Next_Enter \/ Next_Leave \/ IsFinished_Size \/ IsFinished_Flag
  BY <1>3, <1>6 DEF Start, Next_Enter, Next_Leave, IsFinished_Size, IsFinished_Flag, sdk
<1>7. CASE Close \/ Term_Enter \/ Term_Leave \/ Drain_Enter \/ Drain_Leave \/ Destroy
  BY <1>3, <1>7 DEF Close, Term_Enter, Term_Leave, Drain_Enter, Drain_Leave, Destroy,
                    sdk, engine
<1>8. CASE UNCHANGED vars
  BY <1>3, <1>8 DEF vars, sdk, engine
<1>9. QED
  BY <1>1, <1>2, <1>4, <1>5, <1>6, <1>7, <1>8 DEF Next, Handle, Engine, Script

(* What the release rests on makes it quiet. *)
LEMMA ReleaseIsQuiet ==
  ASSUME P!Inv, Counts, ReleaseInv
  PROVE  QueueReleasedQuiet
<1> SUFFICES ASSUME mem = "freed" \/ php = "destroy"
             PROVE  /\ handler = "idle" /\ \A t \in {Sdk, Php} : pc[t] = "idle"
                    /\ owner = Nobody /\ nelts = 0
  BY DEF QueueReleasedQuiet
<1>1. final /\ sent \in Range(got)
  BY DEF ReleaseInv, Kept, LetGo, Received
<1>2. handler = "idle" /\ pc[Sdk] = "idle"
  BY <1>1 DEF ReleaseInv, Younger, Places, Counts
<1>3. pc[Php] = "idle"
  BY DEF ReleaseInv, Places
<1>4. owner = Nobody
  BY <1>2, <1>3, NobodyHolds
<1>5. Items = <<>> /\ Len(Items) = nelts
  BY <1>1, ItemsAreEvents DEF ReleaseInv, Drained
<1>6. QED
  BY <1>2, <1>3, <1>4, <1>5

(* When rpa_queue_destroy and free take the queue away, no thread is       *)
(* inside a queue function, the mutex is free and no element is left.      *)
THEOREM ReleasedQuiet == Spec => []QueueReleasedQuiet
<1>1. Init => Counts /\ ReleaseInv
  BY InitCounts, InitRelease
<1>2. P!Inv /\ Counts /\ ReleaseInv /\ [Next]_vars => Counts' /\ ReleaseInv'
  BY NextCounts, NextRelease
<1>3. P!Inv /\ Counts /\ ReleaseInv => QueueReleasedQuiet
  BY ReleaseIsQuiet
<1>4. QED
  BY <1>1, <1>2, <1>3, QueueInvariant, PTL DEF Spec

-----------------------------------------------------------------------------
(* What a deadline looks like, whatever the timeout. *)
LEMMA DeadlineType ==
  ASSUME NEW now \in Timespecs, NEW ms \in Int
  PROVE  get_future_timespec(now, ms) \in [sec : Int, nsec : Int]
<1>1. now.sec \in Int /\ now.nsec \in Int
  BY DEF Timespecs
<1>2. ms \div 1000 \in Int /\ (-ms) \div 1000 \in Int
  BY SMT
<1>3. Quotient(ms, 1000) \in Int
  BY <1>2, SMT DEF Quotient
<1>4. Remainder(ms, 1000) \in Int
  BY <1>3, SMT DEF Remainder
<1>5. Second \in Int
  BY SecondValue
<1>6. QED
  BY <1>1, <1>3, <1>4, <1>5, SMT DEF get_future_timespec

(* So does the one that stands for no deadline. *)
LEMMA NoDeadlineType == NoDeadline \in [now : Timespecs, due : [sec : Int, nsec : Int]]
<1>1. \A n \in Nat : n # 0 => 0 \in 0 .. n - 1
  OBVIOUS
<1>2. Second \in Nat /\ Second # 0
  BY SecondValue, SMT
<1>3. 0 \in 0 .. Second - 1
  BY <1>1, <1>2
<1>4. QED
  BY <1>3 DEF NoDeadline, Timespecs

(* The fields beside the queue; and once the handler has set the flag of   *)
(* the last event, finished is true, so that the script never finds the    *)
(* request it lets go of unfinished.                                       *)
FieldsTyped ==
  /\ mem \in {"none", "live", "freed"} /\ finished \in BOOLEAN /\ final \in BOOLEAN
  /\ abstime \in [now : Timespecs, due : [sec : Int, nsec : Int]]
  /\ told \in BOOLEAN /\ slept \in SUBSET {Sdk, Php}
  /\ final /\ handler \in {"idle", "push"} => finished
  /\ php # "mark"

(* The fields have their types at first. *)
LEMMA InitFields == Init => FieldsTyped
<1> SUFFICES ASSUME Init PROVE FieldsTyped
  OBVIOUS
<1>1. NoDeadline \in [now : Timespecs, due : [sec : Int, nsec : Int]]
  BY NoDeadlineType
<1>2. QED
  BY <1>1 DEF Init, FieldsTyped

(* Every step keeps the types of the fields. *)
LEMMA NextFields ==
  ASSUME P!Inv, Counts, ReleaseInv, DeadlineKept, FieldsTyped, [Next]_vars
  PROVE  FieldsTyped'
<1> DEFINE Deadlines == [now : Timespecs, due : [sec : Int, nsec : Int]]
<1>1. ASSUME UNCHANGED <<finished, final, handler, told>>, mem' \in {"none", "live", "freed"},
             abstime' \in Deadlines, slept' \in SUBSET {Sdk, Php}, php' # "mark"
      PROVE  FieldsTyped'
  BY <1>1 DEF FieldsTyped
<1>2. ASSUME NEW t \in {Sdk, Php}, Running(t) \/ SpuriousWake(t) PROVE FieldsTyped'
  BY <1>2, <1>1 DEF Running, SpuriousWake, sdk, engine, FieldsTyped
<1>3. ASSUME NEW t \in {Sdk, Php}, Sleep(t) PROVE FieldsTyped'
  <2>1. /\ UNCHANGED <<finished, final, handler, told, mem, php>> /\ slept' = slept \cup {t}
    BY <1>3 DEF Sleep, sdk
  <2>2. abstime' \in Deadlines
    <3>1. CASE call[t].wait = "timed"
      <4>1. PICK now \in Clocks :
              abstime' = [now |-> now, due |-> get_future_timespec(now, Narrow(asked))]
        BY <1>3, <3>1 DEF Sleep
      <4>2. now \in Timespecs
        BY QueuedAssumption
      <4>3. Narrow(asked) \in Int
        BY IntAssumption, SMT DEF DeadlineKept, Narrow
      <4>4. get_future_timespec(now, Narrow(asked)) \in [sec : Int, nsec : Int]
        BY <4>2, <4>3, DeadlineType
      <4>5. QED
        BY <4>1, <4>2, <4>4
    <3>2. CASE call[t].wait # "timed"
      BY <1>3, <3>2 DEF Sleep, FieldsTyped
    <3>3. QED
      BY <3>1, <3>2
  <2>3. QED
    BY <1>1, <2>1, <2>2 DEF FieldsTyped
<1>4. CASE Callback \/ Resolve
  BY <1>4 DEF Callback, Resolve, engine, FieldsTyped
<1>5. CASE Flag
  BY <1>5 DEF Flag, engine, FieldsTyped
<1>6. CASE Push_Enter \/ Push_Store
  BY <1>6, <1>1 DEF Push_Enter, Push_Store, sdk, engine, FieldsTyped
<1>7. CASE Push_Leave
  <2>1. /\ pc[Sdk] # "idle" /\ handler' = "idle" /\ slept' \subseteq slept
        /\ UNCHANGED <<finished, final, told, mem, abstime, php>>
    BY <1>7 DEF Push_Leave, Leave, Q!Unlock, Q!Return, engine
  <2>2. handler = "push"
    BY <2>1 DEF ReleaseInv, Places
  <2>3. QED
    BY <2>1, <2>2 DEF FieldsTyped
<1>8. CASE Next_Enter \/ Next_Fetch \/ Term_Enter \/ Drain_Enter
  BY <1>8, <1>1 DEF Next_Enter, Next_Fetch, Term_Enter, Drain_Enter, sdk, engine, FieldsTyped
<1>9. CASE Next_Leave \/ Term_Leave \/ Drain_Leave
  <2>1. /\ UNCHANGED <<finished, final, handler, told, mem>> /\ slept' \subseteq slept
        /\ abstime' = abstime \/ abstime' = NoDeadline
        /\ php' # "mark"
    BY <1>9 DEF Next_Leave, Term_Leave, Drain_Leave, Leave, sdk
  <2>2. NoDeadline \in Deadlines
    BY NoDeadlineType
  <2>3. QED
    BY <1>1, <2>1, <2>2 DEF FieldsTyped
<1>10. CASE Close
  <2>1. final /\ sent \in Range(got) /\ UNCHANGED <<finished, final, handler, told, mem, abstime, slept>>
    BY <1>10 DEF Close, Received, sdk
  <2>2. handler = "idle"
    BY <2>1 DEF ReleaseInv, Younger, Counts
  <2>3. finished
    BY <2>1, <2>2 DEF FieldsTyped
  <2>4. php' # "mark"
    BY <1>10, <2>3 DEF Close
  <2>5. QED
    BY <1>1, <2>1, <2>4 DEF FieldsTyped
<1>11. CASE Start \/ IsFinished_Size \/ Destroy
  BY <1>11, <1>1 DEF Start, IsFinished_Size, Destroy, sdk, FieldsTyped
<1>12. CASE IsFinished_Flag
  BY <1>12 DEF IsFinished_Flag, sdk, FieldsTyped
<1>13. CASE UNCHANGED vars
  BY <1>13, <1>1 DEF vars, sdk, engine, FieldsTyped
<1>14. QED
  BY <1>2, <1>3, <1>4, <1>5, <1>6, <1>7, <1>8, <1>9, <1>10, <1>11, <1>12, <1>13
  DEF Next, Handle, Engine, Script

(* Queue, handler and script keep their types together, each thread is     *)
(* inside the queue only where its caller waits for it, and the request a  *)
(* careful script lets go of is finished.                                  *)
THEOREM QueuedTypeCorrect == Spec => []TypeOK
<1>1. Init => Counts /\ ReleaseInv /\ DeadlineKept /\ FieldsTyped
  <2>1. Init => DeadlineKept
    BY DEF Init, Q!Init, DeadlineKept, Q!Threads
  <2>2. QED
    BY <2>1, InitCounts, InitRelease, InitFields
<1>2. P!Inv /\ Counts /\ ReleaseInv /\ DeadlineKept /\ FieldsTyped /\ [Next]_vars
      => Counts' /\ ReleaseInv' /\ DeadlineKept' /\ FieldsTyped'
  BY NextCounts, NextRelease, NextDeadlineKept, NextFields
<1>3. P!Inv /\ Counts /\ ReleaseInv /\ DeadlineKept /\ FieldsTyped => TypeOK
  <2>1. P!TypeOK <=> Q!TypeOK
    BY DEF P!TypeOK, Q!TypeOK, P!Slots, Q!Slots, P!Threads, Q!Threads, P!PCs, Q!PCs,
           P!Frames, Q!Frames, P!Ops, Q!Ops, P!Waits, Q!Waits
  <2>2. QED
    BY <2>1 DEF P!Inv, Counts, ReleaseInv, Places, DeadlineKept, FieldsTyped, TypeOK
<1>4. QED
  BY <1>1, <1>2, <1>3, QueueInvariant, PTL DEF Spec
=============================================================================
