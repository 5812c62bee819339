--------------------------- MODULE RpaQueueProofs ---------------------------
(***************************************************************************)
(* Theorems about RpaQueue for any number of threads and any capacity.     *)
(***************************************************************************)
EXTENDS RpaQueue, FiniteSetTheorems, TLAPS

(* The program counters at which a thread holds one_big_mutex. *)
Holding == {"test", "copy", "drop", "unlock"}

MutexHeld == \A t \in Threads : pc[t] \in Holding <=> owner = t

(* What a thread is calling, seen from where it is. *)
CallsInStep ==
  \A t \in Threads :
    /\ pc[t] \in {"wait", "woken", "expired", "copy"} => call[t].op \in {"push", "pop"}
    /\ pc[t] = "drop" => call[t].op = "interrupt_all"
    /\ pc[t] = "expired" => call[t].wait = "timed"
    /\ pc[t] \in {"lock", "test"} => call[t].op # "none"
    /\ pc[t] \notin {"unlock", "return"} => call[t].ret = FALSE
    /\ call[t].op = "push" => call[t].arg \in Values

Inv ==
  /\ TypeOK /\ MutexHeld /\ CallsInStep
  /\ CopyIsServed /\ RingConsistent /\ WaitersCounted

(* A call a thread may make is a well-formed frame without a result yet.   *)
LEMMA CallsFrames ==
  ASSUME NEW t \in Threads, NEW c \in Calls(t)
  PROVE  /\ c \in Frames
         /\ c.op # "none" /\ c.ret = FALSE
         /\ c.op = "push" => c.arg \in Values
BY DEF Calls, Frames

(* No call is a frame like any other.                                      *)
LEMMA NoCallFrame ==
  /\ NoCall \in Frames
  /\ NoCall.op = "none" /\ NoCall.ret = FALSE
BY DEF NoCall, Frames, Ops, Waits

(* The frame of a pop that has its element. *)
LEMMA FrameServed ==
  ASSUME NEW f \in [Threads -> Frames], NEW t \in Threads,
         NEW v \in Values \cup {NoValue}
  PROVE  [f EXCEPT ![t].arg = v, ![t].ret = TRUE] \in [Threads -> Frames]
<1>1. [f[t] EXCEPT !.arg = v] \in Frames
  BY DEF Frames
<1>2. [f[t] EXCEPT !.arg = v, !.ret = TRUE] \in Frames
  BY <1>1 DEF Frames
<1>3. QED
  BY <1>1, <1>2

(* Wrap brings an index of less than two turns back into the array.        *)
LEMMA WrapSlots ==
  ASSUME NEW i \in 0 .. 2 * Capacity - 1
  PROVE  /\ Wrap(i) \in Slots
         /\ i < Capacity => Wrap(i) = i
         /\ i >= Capacity => Wrap(i) = i - Capacity
BY QueueAssumption DEF Wrap, Slots

(* Going around the ring in two steps is going around it in one. *)
LEMMA WrapTwice ==
  ASSUME NEW i \in Slots, NEW j \in Slots
  PROVE  /\ Wrap(Wrap(i + 1) + j) = Wrap(i + j + 1)
         /\ Wrap(Wrap(i + j) + 1) = Wrap(i + j + 1)
BY QueueAssumption DEF Wrap, Slots

(* Less than a whole turn apart are different slots. *)
LEMMA WrapApart ==
  ASSUME NEW i \in Slots, NEW j \in Slots, NEW k \in Slots, j # k
  PROVE  Wrap(i + j) # Wrap(i + k)
BY QueueAssumption DEF Wrap, Slots

(* rpa_queue_create makes a queue that satisfies the invariant.            *)
LEMMA InitInv == Init => Inv
<1> SUFFICES ASSUME Init PROVE Inv
  OBVIOUS
<1> USE QueueAssumption DEF Init
<1>1. NoCall \in Frames /\ NoCall.ret = FALSE /\ NoCall.op = "none"
  BY NoCallFrame
<1>2. TypeOK
  <2>1. data \in [Slots -> Values \cup {NoValue}] /\ 0 \in Slots
    BY DEF Slots
  <2>2. waiters \in [{"push", "pop"} -> Nat]
    OBVIOUS
  <2>3. pc \in [Threads -> PCs]
    BY DEF PCs
  <2>4. call \in [Threads -> Frames]
    BY <1>1
  <2>5. nelts \in 0 .. Capacity /\ in \in Slots /\ out \in Slots
    BY <2>1
  <2>6. terminated \in BOOLEAN /\ owner \in Threads \cup {Nobody}
    OBVIOUS
  <2> HIDE DEF Init
  <2>7. QED
    BY <2>1, <2>2, <2>3, <2>4, <2>5, <2>6 DEF TypeOK
<1>3. MutexHeld /\ CallsInStep /\ CopyIsServed
  BY <1>1 DEF MutexHeld, CallsInStep, CopyIsServed, Holding
<1>4. RingConsistent
  BY DEF RingConsistent, Wrap
<1>5. WaitersCounted
  <2>1. \A op : InWait(op) = {}
    BY DEF InWait
  <2>2. QED
    BY <2>1, FS_EmptySet DEF WaitersCounted
<1>6. QED
  BY <1>2, <1>3, <1>4, <1>5 DEF Inv

(* A step that leaves the ring alone keeps it consistent. *)
LEMMA RingStays ==
  ASSUME RingConsistent, UNCHANGED ring
  PROVE  RingConsistent'
BY DEF RingConsistent, Items, Wrap, ring

(* A step that takes nobody into a wait or out of one keeps the count. *)
LEMMA WaitersStay ==
  ASSUME WaitersCounted, UNCHANGED waiters,
         \A t \in Threads :
           /\ pc'[t] \in {"wait", "woken", "expired"} <=> pc[t] \in {"wait", "woken", "expired"}
           /\ pc[t] \in {"wait", "woken", "expired"} => call'[t].op = call[t].op
  PROVE  WaitersCounted'
<1>1. \A op \in {"push", "pop"} : InWait(op)' = InWait(op)
  BY DEF InWait
<1>2. QED
  BY <1>1 DEF WaitersCounted

(* The waiters are finitely many, so that they can be counted.             *)
LEMMA InWaitFinite == ASSUME NEW op PROVE IsFiniteSet(InWait(op))
BY QueueAssumption, FS_Subset DEF InWait

(* Every step of every call keeps the invariant, one action after another. *)
LEMMA NextInv == Inv /\ [Next]_vars => Inv'
<1> SUFFICES ASSUME Inv, [Next]_vars PROVE Inv'
  OBVIOUS
<1> USE DEF Inv
<1>1. ASSUME NEW t \in Threads, Enter(t) PROVE Inv'
  <2>1. PICK c \in Calls(t) :
          /\ call' = [call EXCEPT ![t] = c]
          /\ pc' = [pc EXCEPT ![t] =
                      IF terminated /\ c.op \in {"push", "pop"} THEN "return" ELSE "lock"]
    BY <1>1 DEF Enter
  <2>2. c \in Frames /\ c.op # "none" /\ c.ret = FALSE
        /\ (c.op = "push" => c.arg \in Values)
    BY CallsFrames
  <2>3. pc[t] = "idle" /\ UNCHANGED <<ring, waiters, terminated, owner>>
    BY <1>1 DEF Enter
  <2>4. TypeOK'
    BY <2>1, <2>2, <2>3 DEF TypeOK, PCs, ring
  <2>5. MutexHeld'
    BY <2>1, <2>3, QueueAssumption DEF TypeOK, MutexHeld, Holding
  <2>6. CallsInStep'
    BY <2>1, <2>2, <2>3 DEF TypeOK, CallsInStep
  <2>7. CopyIsServed'
    BY <2>1, <2>3 DEF TypeOK, CopyIsServed, Refused, Full, Empty, ring
  <2>8. RingConsistent'
    BY <2>3, RingStays
  <2>9. WaitersCounted'
    BY <2>1, <2>3, WaitersStay DEF TypeOK, ring
  <2>10. QED
    BY <2>4, <2>5, <2>6, <2>7, <2>8, <2>9
<1>2. ASSUME NEW t \in Threads, Lock(t) PROVE Inv'
  <2>1. TypeOK'
    BY <1>2 DEF Lock, TypeOK, PCs, ring
  <2>2. MutexHeld'
    BY <1>2, QueueAssumption DEF Lock, TypeOK, MutexHeld, Holding, MutexFree
  <2>3. CallsInStep'
    BY <1>2 DEF Lock, TypeOK, CallsInStep
  <2>4. CopyIsServed'
    BY <1>2 DEF Lock, TypeOK, CopyIsServed, Refused, Full, Empty, ring
  <2>5. RingConsistent'
    BY <1>2, RingStays DEF Lock, ring
  <2>6. WaitersCounted'
    BY <1>2, WaitersStay DEF Lock, TypeOK
  <2>7. QED
    BY <2>1, <2>2, <2>3, <2>4, <2>5, <2>6
<1>3. ASSUME NEW t \in Threads, Accept(t) PROVE Inv'
  <2>1. TypeOK'
    BY <1>3 DEF Accept, TypeOK, PCs, ring
  <2>2. MutexHeld'
    BY <1>3, QueueAssumption DEF Accept, TypeOK, MutexHeld, Holding, MutexFree
  <2>3. CallsInStep'
    BY <1>3 DEF Accept, TypeOK, CallsInStep
  <2>4. CopyIsServed'
    BY <1>3 DEF Accept, TypeOK, CopyIsServed, Refused, Full, Empty, ring
  <2>5. RingConsistent'
    BY <1>3, RingStays DEF Accept, ring
  <2>6. WaitersCounted'
    BY <1>3, WaitersStay DEF Accept, TypeOK
  <2>7. QED
    BY <2>1, <2>2, <2>3, <2>4, <2>5, <2>6
<1>4. ASSUME NEW t \in Threads, Sleep(t) PROVE Inv'
  <2>1. TypeOK'
    BY <1>4 DEF Sleep, TypeOK, PCs, ring
  <2>2. MutexHeld'
    BY <1>4, QueueAssumption DEF Sleep, TypeOK, MutexHeld, Holding, MutexFree
  <2>3. CallsInStep'
    BY <1>4 DEF Sleep, TypeOK, CallsInStep
  <2>4. CopyIsServed'
    BY <1>4 DEF Sleep, TypeOK, CopyIsServed, Refused, Full, Empty, ring
  <2>5. RingConsistent'
    BY <1>4, RingStays DEF Sleep, ring
  <2>6. WaitersCounted'
    <3> PICK o \in {"push", "pop"} : o = call[t].op
      BY <1>4 DEF Sleep
    <3>1. /\ pc[t] = "test"
          /\ waiters' = [waiters EXCEPT ![o] = @ + 1]
          /\ pc' = [pc EXCEPT ![t] = "wait"] /\ call' = call
      BY <1>4 DEF Sleep
    <3>2. /\ InWait(o)' = InWait(o) \cup {t} /\ t \notin InWait(o)
          /\ \A op \in {"push", "pop"} \ {o} : InWait(op)' = InWait(op)
      BY <3>1 DEF InWait, TypeOK
    <3>3. Cardinality(InWait(o) \cup {t}) = Cardinality(InWait(o)) + 1
      BY <3>2, InWaitFinite, FS_AddElement
    <3>4. QED
      BY <3>1, <3>2, <3>3 DEF WaitersCounted, TypeOK
  <2>7. QED
    BY <2>1, <2>2, <2>3, <2>4, <2>5, <2>6
<1>5. ASSUME NEW t \in Threads, GiveUp(t) PROVE Inv'
  <2>1. TypeOK'
    BY <1>5 DEF GiveUp, TypeOK, PCs, ring
  <2>2. MutexHeld'
    BY <1>5, QueueAssumption DEF GiveUp, TypeOK, MutexHeld, Holding, MutexFree
  <2>3. CallsInStep'
    BY <1>5 DEF GiveUp, TypeOK, CallsInStep
  <2>4. CopyIsServed'
    BY <1>5 DEF GiveUp, TypeOK, CopyIsServed, Refused, Full, Empty, ring
  <2>5. RingConsistent'
    BY <1>5, RingStays DEF GiveUp, ring
  <2>6. WaitersCounted'
    BY <1>5, WaitersStay DEF GiveUp, TypeOK
  <2>7. QED
    BY <2>1, <2>2, <2>3, <2>4, <2>5, <2>6
<1>6. ASSUME NEW t \in Threads, Timeout(t) PROVE Inv'
  <2>1. TypeOK'
    BY <1>6 DEF Timeout, MayExpire, TypeOK, PCs, ring
  <2>2. MutexHeld'
    BY <1>6, QueueAssumption DEF Timeout, MayExpire, TypeOK, MutexHeld, Holding, MutexFree
  <2>3. CallsInStep'
    BY <1>6 DEF Timeout, MayExpire, TypeOK, CallsInStep
  <2>4. CopyIsServed'
    BY <1>6 DEF Timeout, MayExpire, TypeOK, CopyIsServed, Refused, Full, Empty, ring
  <2>5. RingConsistent'
    BY <1>6, RingStays DEF Timeout, ring
  <2>6. WaitersCounted'
    BY <1>6, WaitersStay DEF Timeout, MayExpire, TypeOK
  <2>7. QED
    BY <2>1, <2>2, <2>3, <2>4, <2>5, <2>6
<1>7. ASSUME NEW t \in Threads, SpuriousWake(t) PROVE Inv'
  <2>1. TypeOK'
    BY <1>7 DEF SpuriousWake, TypeOK, PCs, ring
  <2>2. MutexHeld'
    BY <1>7, QueueAssumption DEF SpuriousWake, TypeOK, MutexHeld, Holding, MutexFree
  <2>3. CallsInStep'
    BY <1>7 DEF SpuriousWake, TypeOK, CallsInStep
  <2>4. CopyIsServed'
    BY <1>7 DEF SpuriousWake, TypeOK, CopyIsServed, Refused, Full, Empty, ring
  <2>5. RingConsistent'
    BY <1>7, RingStays DEF SpuriousWake, ring
  <2>6. WaitersCounted'
    BY <1>7, WaitersStay DEF SpuriousWake, TypeOK
  <2>7. QED
    BY <2>1, <2>2, <2>3, <2>4, <2>5, <2>6
<1>8. ASSUME NEW t \in Threads, Reacquire(t) PROVE Inv'
  <2> PICK o \in {"push", "pop"} : o = call[t].op
    BY <1>8 DEF Reacquire, CallsInStep
  <2>1. /\ pc[t] \in {"woken", "expired"} /\ t \in InWait(o)
        /\ waiters' = [waiters EXCEPT ![o] = @ - 1]
        /\ pc' \in [Threads -> PCs] /\ pc'[t] \in {"copy", "unlock"}
        /\ \A u \in Threads \ {t} : pc'[u] = pc[u]
        /\ call' = call
    BY <1>8 DEF Reacquire, LeaveWaiters, InWait, TypeOK, PCs
  <2>2. /\ Cardinality(InWait(o) \ {t}) = Cardinality(InWait(o)) - 1
        /\ Cardinality(InWait(o) \ {t}) \in Nat
    BY <2>1, InWaitFinite, FS_RemoveElement, FS_CardinalityType
  <2>3. TypeOK'
    <3>1. waiters[o] - 1 \in Nat
      BY <2>1, <2>2 DEF WaitersCounted
    <3>2. QED
      BY <1>8, <2>1, <3>1 DEF Reacquire, TypeOK, ring
  <2>4. MutexHeld'
    BY <1>8, QueueAssumption DEF Reacquire, TypeOK, MutexHeld, Holding, MutexFree
  <2>5. CallsInStep'
    BY <1>8 DEF Reacquire, TypeOK, CallsInStep
  <2>6. CopyIsServed'
    BY <1>8 DEF Reacquire, TypeOK, CopyIsServed, Refused, Served, Full, Empty, ring
  <2>7. RingConsistent'
    BY <1>8, RingStays DEF Reacquire, ring
  <2>8. WaitersCounted'
    <3>1. /\ InWait(o)' = InWait(o) \ {t}
          /\ \A op \in {"push", "pop"} \ {o} : InWait(op)' = InWait(op)
      BY <2>1 DEF InWait, TypeOK
    <3>2. QED
      BY <2>1, <2>2, <3>1 DEF WaitersCounted, TypeOK
  <2>9. QED
    BY <2>3, <2>4, <2>5, <2>6, <2>7, <2>8
<1>9. ASSUME NEW t \in Threads, SetTerminated(t) PROVE Inv'
  <2>1. TypeOK'
    <3>1. call' \in [Threads -> Frames]
      BY <1>9 DEF SetTerminated, TypeOK, Frames, Ops
    <3>2. terminated' \in BOOLEAN
      BY <1>9 DEF SetTerminated
    <3>3. pc' \in [Threads -> PCs]
      BY <1>9 DEF SetTerminated, TypeOK, PCs
    <3>4. QED
      <4>1. UNCHANGED <<data, nelts, in, out, waiters, owner>>
        BY <1>9 DEF SetTerminated, ring
      <4>2. QED
        BY <3>1, <3>2, <3>3, <4>1 DEF TypeOK
  <2>2. MutexHeld'
    BY <1>9, QueueAssumption DEF SetTerminated, TypeOK, MutexHeld, Holding
  <2>3. CallsInStep'
    BY <1>9 DEF SetTerminated, TypeOK, CallsInStep
  <2>4. CopyIsServed'
    BY <1>9 DEF SetTerminated, TypeOK, CopyIsServed, Refused, Full, Empty, ring
  <2>5. RingConsistent'
    BY <1>9, RingStays DEF SetTerminated, ring
  <2>6. WaitersCounted'
    BY <1>9, WaitersStay DEF SetTerminated, TypeOK
  <2>7. QED
    BY <2>1, <2>2, <2>3, <2>4, <2>5, <2>6
<1>10. ASSUME NEW t \in Threads, Drop(t) PROVE Inv'
  <2>1. TypeOK'
    BY <1>10 DEF Drop, TypeOK, PCs, ring
  <2>2. MutexHeld'
    BY <1>10, QueueAssumption DEF Drop, TypeOK, MutexHeld, Holding, MutexFree
  <2>3. CallsInStep'
    BY <1>10 DEF Drop, TypeOK, CallsInStep
  <2>4. CopyIsServed'
    BY <1>10 DEF Drop, TypeOK, CopyIsServed, Refused, Full, Empty, ring
  <2>5. RingConsistent'
    BY <1>10, RingStays DEF Drop, ring
  <2>6. WaitersCounted'
    BY <1>10, WaitersStay DEF Drop, TypeOK
  <2>7. QED
    BY <2>1, <2>2, <2>3, <2>4, <2>5, <2>6
<1>11. ASSUME NEW t \in Threads, Broadcast(t) PROVE Inv'
  <2>1. TypeOK'
    BY <1>11 DEF Broadcast, TypeOK, PCs, ring, Frames
  <2>2. MutexHeld'
    BY <1>11, QueueAssumption DEF Broadcast, TypeOK, MutexHeld, Holding, MutexFree, Awakened, Asleep
  <2>3. CallsInStep'
    BY <1>11 DEF Broadcast, TypeOK, CallsInStep, Awakened, Asleep
  <2>4. CopyIsServed'
    BY <1>11 DEF Broadcast, TypeOK, CopyIsServed, Refused, Awakened, Asleep, Full, Empty, ring
  <2>5. RingConsistent'
    BY <1>11, RingStays DEF Broadcast, ring
  <2>6. WaitersCounted'
    BY <1>11, WaitersStay DEF Broadcast, TypeOK, Awakened, Asleep
  <2>7. QED
    BY <2>1, <2>2, <2>3, <2>4, <2>5, <2>6
<1>12. ASSUME NEW t \in Threads, Unlock(t) PROVE Inv'
  <2>1. TypeOK'
    BY <1>12, NoCallFrame DEF Unlock, TypeOK, PCs, ring
  <2>2. MutexHeld'
    BY <1>12, QueueAssumption DEF Unlock, TypeOK, MutexHeld, Holding
  <2>3. CallsInStep'
    BY <1>12, NoCallFrame DEF Unlock, TypeOK, CallsInStep
  <2>4. CopyIsServed'
    BY <1>12 DEF Unlock, TypeOK, CopyIsServed, Refused, Full, Empty, ring
  <2>5. RingConsistent'
    BY <1>12, RingStays DEF Unlock, ring
  <2>6. WaitersCounted'
    BY <1>12, WaitersStay DEF Unlock, TypeOK
  <2>7. QED
    BY <2>1, <2>2, <2>3, <2>4, <2>5, <2>6
<1>13. ASSUME NEW t \in Threads, Return(t) PROVE Inv'
  <2>1. TypeOK'
    BY <1>13, NoCallFrame DEF Return, TypeOK, PCs, ring
  <2>2. MutexHeld'
    BY <1>13, QueueAssumption DEF Return, TypeOK, MutexHeld, Holding
  <2>3. CallsInStep'
    BY <1>13, NoCallFrame DEF Return, TypeOK, CallsInStep
  <2>4. CopyIsServed'
    BY <1>13 DEF Return, TypeOK, CopyIsServed, Refused, Full, Empty, ring
  <2>5. RingConsistent'
    BY <1>13, RingStays DEF Return, ring
  <2>6. WaitersCounted'
    BY <1>13, WaitersStay DEF Return, TypeOK
  <2>7. QED
    BY <2>1, <2>2, <2>3, <2>4, <2>5, <2>6
<1>14. ASSUME NEW t \in Threads, Store(t) PROVE Inv'
  <2>1. /\ pc[t] = "copy" /\ call[t].op = "push" /\ call[t].arg \in Values
        /\ nelts \in 0 .. Capacity - 1
    BY <1>14, QueueAssumption
    DEF Store, TypeOK, CopyIsServed, Refused, Full, CallsInStep
  <2>2. pc' \in [Threads -> PCs]
    BY <1>14 DEF Store, SignalAndUnlock, BlockedOn, Asleep, TypeOK, PCs
  <2>3. /\ pc'[t] = "unlock"
        /\ \A u \in Threads \ {t} : pc'[u] = pc[u] \/ (pc[u] = "wait" /\ pc'[u] = "woken")
    BY <1>14, <2>1 DEF Store, SignalAndUnlock, BlockedOn, Asleep, TypeOK
  <2>4. TypeOK'
    <3>1. Wrap(in + 1) \in Slots
      BY WrapSlots, QueueAssumption DEF TypeOK, Slots
    <3>2. data' \in [Slots -> Values \cup {NoValue}]
      BY <1>14, <2>1 DEF Store, TypeOK
    <3>3. call' \in [Threads -> Frames]
      BY <1>14 DEF Store, TypeOK, Frames
    <3>4. nelts' \in 0 .. Capacity
      BY <1>14, <2>1, QueueAssumption DEF Store
    <3>5. QED
      BY <1>14, <2>2, <3>1, <3>2, <3>3, <3>4 DEF Store, TypeOK
  <2>5. MutexHeld'
    BY <1>14, <2>1, <2>3 DEF Store, MutexHeld, Holding
  <2>6. CallsInStep'
    BY <1>14, <2>1, <2>3 DEF Store, TypeOK, CallsInStep
  <2>7. CopyIsServed'
    <3>1. \A u \in Threads : pc'[u] # "copy"
      BY <2>1, <2>3 DEF MutexHeld, Holding
    <3>2. QED
      BY <3>1 DEF CopyIsServed
  <2>8. RingConsistent'
    <3>1. /\ in = Wrap(out + nelts) /\ in' = Wrap(in + 1)
          /\ nelts' = nelts + 1 /\ out' = out
          /\ data' = [data EXCEPT ![in] = call[t].arg]
      BY <1>14 DEF Store, RingConsistent
    <3>2. nelts \in Slots /\ out \in Slots /\ in \in Slots
      BY <2>1 DEF Slots, TypeOK
    <3>3. in' = Wrap(out' + nelts')
      BY <3>1, <3>2, WrapTwice DEF Slots
    <3>4. ASSUME NEW i \in 1 .. nelts'
          PROVE  data'[Wrap(out + i - 1)] \in Values
      <4>1. CASE i = nelts + 1
        BY <4>1, <3>1, <3>2, <2>1 DEF TypeOK, Slots
      <4>2. CASE i \in 1 .. nelts
        <5>1. i - 1 \in Slots /\ i - 1 # nelts /\ out + i - 1 \in 0 .. 2 * Capacity - 1
          BY <4>2, <3>2, QueueAssumption DEF Slots
        <5>2. Wrap(out + (i - 1)) # in /\ out + (i - 1) = out + i - 1
          BY <5>1, <3>1, <3>2, WrapApart DEF Slots
        <5>3. Wrap(out + i - 1) \in Slots
          BY <5>1, WrapSlots
        <5>4. data[Wrap(out + i - 1)] \in Values
          BY <4>2 DEF RingConsistent, Items
        <5>5. QED
          BY <5>2, <5>3, <5>4, <3>1 DEF TypeOK
      <4>3. QED
        BY <4>1, <4>2, <3>1, <3>2 DEF Slots
    <3>5. Items' = [i \in 1 .. nelts' |-> data'[Wrap(out + i - 1)]]
      BY <3>1 DEF Items, Wrap
    <3>6. QED
      BY <3>3, <3>4, <3>5 DEF RingConsistent, Wrap
  <2>9. WaitersCounted'
    BY <1>14, <2>1, <2>3, WaitersStay DEF Store, TypeOK
  <2>10. QED
    BY <2>4, <2>5, <2>6, <2>7, <2>8, <2>9
<1>15. ASSUME NEW t \in Threads, Fetch(t) PROVE Inv'
  <2>1. /\ pc[t] = "copy" /\ call[t].op = "pop"
        /\ nelts \in 1 .. Capacity
    BY <1>15, QueueAssumption DEF Fetch, TypeOK, CopyIsServed, Refused, Empty
  <2>2. pc' \in [Threads -> PCs]
    BY <1>15 DEF Fetch, SignalAndUnlock, BlockedOn, Asleep, TypeOK, PCs
  <2>3. /\ pc'[t] = "unlock"
        /\ \A u \in Threads \ {t} : pc'[u] = pc[u] \/ (pc[u] = "wait" /\ pc'[u] = "woken")
    BY <1>15, <2>1 DEF Fetch, SignalAndUnlock, BlockedOn, Asleep, TypeOK
  <2>4. TypeOK'
    <3>1. Wrap(out + 1) \in Slots
      BY WrapSlots, QueueAssumption DEF TypeOK, Slots
    <3>2. call' \in [Threads -> Frames]
      <4>1. data[out] \in Values \cup {NoValue}
        BY DEF TypeOK
      <4>2. QED
        BY <1>15, <4>1, FrameServed DEF Fetch, TypeOK
    <3>3. nelts' \in 0 .. Capacity
      BY <1>15, <2>1, QueueAssumption DEF Fetch
    <3>4. QED
      BY <1>15, <2>2, <3>1, <3>2, <3>3 DEF Fetch, TypeOK
  <2>5. MutexHeld'
    BY <1>15, <2>1, <2>3 DEF Fetch, MutexHeld, Holding
  <2>6. CallsInStep'
    BY <1>15, <2>1, <2>3 DEF Fetch, TypeOK, CallsInStep
  <2>7. CopyIsServed'
    <3>1. \A u \in Threads : pc'[u] # "copy"
      BY <2>1, <2>3 DEF MutexHeld, Holding
    <3>2. QED
      BY <3>1 DEF CopyIsServed
  <2>8. RingConsistent'
    <3>1. /\ in = Wrap(out + nelts) /\ in' = in
          /\ nelts' = nelts - 1 /\ out' = Wrap(out + 1)
          /\ data' = data
      BY <1>15 DEF Fetch, RingConsistent
    <3>2. nelts - 1 \in Slots /\ out \in Slots /\ nelts \in Int /\ Capacity \in Int
      BY <2>1, QueueAssumption DEF Slots, TypeOK
    <3>3. in' = Wrap(out' + nelts')
      <4>1. Wrap(Wrap(out + 1) + (nelts - 1)) = Wrap(out + (nelts - 1) + 1)
        BY <3>2, WrapTwice
      <4>2. out + (nelts - 1) + 1 = out + nelts
        BY <3>2, <2>1 DEF Slots
      <4>3. QED
        BY <4>1, <4>2, <3>1
    <3>4. ASSUME NEW i \in 1 .. nelts'
          PROVE  data[Wrap(out' + i - 1)] = Items[i + 1] /\ i + 1 \in 1 .. nelts
      <4>1. i - 1 \in Slots /\ i + 1 \in 1 .. nelts
        BY <3>1, <3>2 DEF Slots
      <4>2. Wrap(Wrap(out + 1) + (i - 1)) = Wrap(out + (i - 1) + 1)
        BY <4>1, <3>2, WrapTwice
      <4>3. /\ out + (i - 1) + 1 = out + (i + 1) - 1
            /\ out' \in Int /\ out' + (i - 1) = out' + i - 1
        BY <3>1, <3>2 DEF Slots, Wrap
      <4>4. QED
        BY <4>1, <4>2, <4>3, <3>1 DEF Items
    <3>5. Items' = [i \in 1 .. nelts' |-> data[Wrap(out' + i - 1)]]
      BY <3>1 DEF Items, Wrap
    <3>6. QED
      BY <3>3, <3>4, <3>5 DEF RingConsistent, Wrap
  <2>9. WaitersCounted'
    BY <1>15, <2>1, <2>3, WaitersStay DEF Fetch, TypeOK
  <2>10. QED
    BY <2>4, <2>5, <2>6, <2>7, <2>8, <2>9
<1>16. CASE UNCHANGED vars
  <2>1. TypeOK' /\ MutexHeld' /\ CallsInStep' /\ CopyIsServed'
    BY <1>16 DEF vars, TypeOK, MutexHeld, CallsInStep, CopyIsServed, Refused, Full, Empty
  <2>2. RingConsistent'
    BY <1>16, RingStays DEF vars, ring
  <2>3. WaitersCounted'
    BY <1>16, WaitersStay DEF vars
  <2>4. QED
    BY <2>1, <2>2, <2>3
<1>17. QED
  BY <1>1, <1>2, <1>3, <1>4, <1>5, <1>6, <1>7, <1>8, <1>9, <1>10, <1>11, <1>12,
     <1>13, <1>14, <1>15, <1>16 DEF Next, Step

(* The inductive invariant holds in every reachable state; the theorems    *)
(* below read off its parts.                                               *)
THEOREM InvHolds == Spec => []Inv
<1>1. Init => Inv
  BY InitInv
<1>2. Inv /\ [Next]_vars => Inv'
  BY NextInv
<1>3. QED
  BY <1>1, <1>2, PTL DEF Spec

(* The indices never leave the allocated array and the counters never      *)
(* wrap below zero, for any number of threads and any capacity.            *)
THEOREM TypeCorrect == Spec => []TypeOK
BY InvHolds, PTL DEF Inv

(* in, out and nelts describe the same ring, and every slot they call      *)
(* occupied was filled by a push.                                          *)
THEOREM RingCorrect == Spec => []RingConsistent
BY InvHolds, PTL DEF Inv

(* The room or the element a thread found is still there when it copies.   *)
THEOREM CopyCorrect == Spec => []CopyIsServed
BY InvHolds, PTL DEF Inv

(* The counters that decide whether to signal are exact.                   *)
THEOREM WaitersCorrect == Spec => []WaitersCounted
BY InvHolds, PTL DEF Inv

-----------------------------------------------------------------------------
(* Termination: nobody falls asleep once terminated is set, and those who  *)
(* were asleep before are woken by the broadcast that is still to come.    *)

(* No step puts a thread to sleep on a terminated queue unless the         *)
(* broadcast of interrupt_all is still to come.                            *)
LEMMA NextNoSleepPastTerm ==
  Inv /\ NoSleepPastTerm /\ [Next]_vars => NoSleepPastTerm'
<1> SUFFICES ASSUME Inv, NoSleepPastTerm, [Next]_vars PROVE NoSleepPastTerm'
  OBVIOUS
<1> USE DEF NoSleepPastTerm, Interrupting, Asleep
<1>0. TypeOK /\ CallsInStep
  BY DEF Inv
<1>1. ASSUME NEW t \in Threads, Enter(t) PROVE NoSleepPastTerm'
  BY <1>0, <1>1 DEF Enter, TypeOK
<1>2. ASSUME NEW t \in Threads, Lock(t) PROVE NoSleepPastTerm'
  BY <1>0, <1>2 DEF Lock, TypeOK
<1>3. ASSUME NEW t \in Threads, Accept(t) PROVE NoSleepPastTerm'
  BY <1>0, <1>3 DEF Accept, TypeOK
<1>4. ASSUME NEW t \in Threads, Sleep(t) PROVE NoSleepPastTerm'
  BY <1>0, <1>4 DEF Sleep, MayWait
<1>5. ASSUME NEW t \in Threads, GiveUp(t) PROVE NoSleepPastTerm'
  BY <1>0, <1>5 DEF GiveUp, TypeOK
<1>6. ASSUME NEW t \in Threads, Timeout(t) PROVE NoSleepPastTerm'
  BY <1>0, <1>6 DEF Timeout, MayExpire, TypeOK
<1>7. ASSUME NEW t \in Threads, SpuriousWake(t) PROVE NoSleepPastTerm'
  BY <1>0, <1>7 DEF SpuriousWake, TypeOK
<1>8. ASSUME NEW t \in Threads, Reacquire(t) PROVE NoSleepPastTerm'
  BY <1>0, <1>8 DEF Reacquire, TypeOK
<1>9. ASSUME NEW t \in Threads, SetTerminated(t) PROVE NoSleepPastTerm'
  BY <1>0, <1>9 DEF SetTerminated, TypeOK, Frames, Ops
<1>10. ASSUME NEW t \in Threads, Drop(t) PROVE NoSleepPastTerm'
  BY <1>0, <1>10 DEF Drop, TypeOK
<1>11. ASSUME NEW t \in Threads, Broadcast(t) PROVE NoSleepPastTerm'
  <2>1. Asleep' = {}
    BY <1>11 DEF Broadcast, Awakened
  <2>2. QED
    BY <2>1
<1>12. ASSUME NEW t \in Threads, Unlock(t) PROVE NoSleepPastTerm'
  BY <1>0, <1>12 DEF Unlock, TypeOK
<1>13. ASSUME NEW t \in Threads, Return(t) PROVE NoSleepPastTerm'
  BY <1>0, <1>13 DEF Return, TypeOK
<1>14. ASSUME NEW t \in Threads, Store(t) PROVE NoSleepPastTerm'
  <2>1. \A u \in Threads : pc'[u] = "wait" => pc[u] = "wait"
    BY <1>0, <1>14 DEF Store, SignalAndUnlock, BlockedOn, TypeOK
  <2>2. \A u \in Threads : Interrupting(u) => Interrupting(u)'
    BY <1>0, <1>14 DEF Store, SignalAndUnlock, BlockedOn, TypeOK
  <2>3. QED
    BY <1>14, <2>1, <2>2 DEF Store
<1>15. ASSUME NEW t \in Threads, Fetch(t) PROVE NoSleepPastTerm'
  <2>1. \A u \in Threads : pc'[u] = "wait" => pc[u] = "wait"
    BY <1>0, <1>15 DEF Fetch, SignalAndUnlock, BlockedOn, TypeOK
  <2>2. \A u \in Threads : Interrupting(u) => Interrupting(u)'
    BY <1>0, <1>15 DEF Fetch, SignalAndUnlock, BlockedOn, TypeOK
  <2>3. QED
    BY <1>15, <2>1, <2>2 DEF Fetch
<1>16. CASE UNCHANGED vars
  BY <1>16 DEF vars
<1>17. QED
  BY <1>1, <1>2, <1>3, <1>4, <1>5, <1>6, <1>7, <1>8, <1>9, <1>10, <1>11, <1>12,
     <1>13, <1>14, <1>15, <1>16 DEF Next, Step

(* Nobody sleeps through rpa_queue_term.                                   *)
THEOREM NobodySleepsPastTerm == Spec => []NoSleepPastTerm
<1>1. Init => NoSleepPastTerm
  BY DEF Init, NoSleepPastTerm
<1>2. Inv /\ NoSleepPastTerm /\ [Next]_vars => NoSleepPastTerm'
  BY NextNoSleepPastTerm
<1>3. QED
  BY <1>1, <1>2, InvHolds, PTL DEF Spec

-----------------------------------------------------------------------------
(* No lost wakeup, one side of the queue at a time: Demand(op) elements or *)
(* free slots wait for callers of op, and while one of those sleeps there  *)
(* are enough others awake to take them all.                               *)
Demand(op) == IF op = "pop" THEN nelts ELSE Capacity - nelts
Covered(op) == BlockedOn(op) # {} => Demand(op) <= Cardinality(Claims(op))

(* No lost wakeup is one statement about each side of the queue.           *)
LEMMA CoveredBothSides ==
  NoLostWakeup <=> \A op \in {"push", "pop"} : Covered(op)
BY DEF NoLostWakeup, Covered, Demand

(* The claims are finitely many, so that they can be counted.              *)
LEMMA ClaimsFinite ==
  ASSUME NEW op
  PROVE  IsFiniteSet(Claims(op)) /\ Cardinality(Claims(op)) \in Nat
BY QueueAssumption, FS_Subset, FS_CardinalityType DEF Claims

(* Nobody falls asleep, no claim is given up, nothing new is on offer. *)
LEMMA CoveredStays ==
  ASSUME TypeOK, NEW op \in {"push", "pop"}, Covered(op),
         BlockedOn(op)' \subseteq BlockedOn(op), Claims(op)' = Claims(op),
         nelts' = nelts
  PROVE  Covered(op)'
BY DEF Covered, Demand

(* What follows from the types alone for a thread that moves without       *)
(* touching sleepers and claims.                                           *)
LEMMA CoveredAside ==
  ASSUME TypeOK, NEW op \in {"push", "pop"}, Covered(op), nelts' = nelts,
         \A u \in Threads : \/ pc'[u] = pc[u] /\ call'[u] = call[u]
                            \/ /\ pc[u] \notin {"wait", "woken", "copy"}
                               /\ pc'[u] \notin {"wait", "woken", "copy"}
  PROVE  Covered(op)'
<1>1. BlockedOn(op)' = BlockedOn(op) /\ Claims(op)' = Claims(op)
  BY DEF BlockedOn, Asleep, Claims
<1>2. QED
  BY <1>1, CoveredStays

(* More claims never hurt. *)
LEMMA CoveredByMore ==
  ASSUME TypeOK, NEW op \in {"push", "pop"}, Covered(op), nelts' = nelts,
         BlockedOn(op)' \subseteq BlockedOn(op), Claims(op) \subseteq Claims(op)',
         IsFiniteSet(Claims(op)')
  PROVE  Covered(op)'
<1>1. Cardinality(Claims(op)) <= Cardinality(Claims(op)')
  BY FS_Subset
<1>2. Cardinality(Claims(op)) \in Nat /\ Cardinality(Claims(op)') \in Nat
  BY FS_CardinalityType, ClaimsFinite
<1>3. Demand(op)' = Demand(op) /\ Demand(op) \in Int
  BY QueueAssumption DEF Demand, TypeOK
<1>4. QED
  BY <1>1, <1>2, <1>3 DEF Covered

(* The same after a step.                                                  *)
LEMMA ClaimsFiniteNext == ASSUME NEW op PROVE IsFiniteSet(Claims(op)')
BY QueueAssumption, FS_Subset DEF Claims

(* Every step keeps the demand of one side covered by its claims.          *)
LEMMA NextCovered ==
  ASSUME Inv, [Next]_vars, ~LateTimeouts, NEW op \in {"push", "pop"}, Covered(op)
  PROVE  Covered(op)'
<1>0. TypeOK /\ CallsInStep /\ CopyIsServed /\ WaitersCounted
  BY DEF Inv
<1>1. ASSUME NEW t \in Threads, Enter(t) PROVE Covered(op)'
  BY <1>0, <1>1, CoveredAside DEF Enter, TypeOK, ring
<1>2. ASSUME NEW t \in Threads, Lock(t) PROVE Covered(op)'
  BY <1>0, <1>2, CoveredAside DEF Lock, TypeOK, ring
<1>3. ASSUME NEW t \in Threads, Accept(t) PROVE Covered(op)'
  <2>1. BlockedOn(op)' \subseteq BlockedOn(op) /\ Claims(op) \subseteq Claims(op)'
    BY <1>0, <1>3 DEF Accept, BlockedOn, Asleep, Claims, TypeOK
  <2>2. QED
    BY <1>0, <1>3, <2>1, CoveredByMore, ClaimsFiniteNext DEF Accept, ring
<1>4. ASSUME NEW t \in Threads, Sleep(t) PROVE Covered(op)'
  <2>1. CASE call[t].op = op
    <3>1. Demand(op)' = 0
      BY <1>0, <1>4, <2>1, QueueAssumption DEF Sleep, Refused, Full, Empty, Demand, ring, TypeOK
    <3>2. Claims(op)' = Claims(op)
      BY <1>0, <1>4 DEF Sleep, Claims, TypeOK
    <3>3. QED
      BY <3>1, <3>2, ClaimsFinite DEF Covered
  <2>2. CASE call[t].op # op
    <3>1. BlockedOn(op)' = BlockedOn(op) /\ Claims(op)' = Claims(op)
      BY <1>0, <1>4, <2>2 DEF Sleep, BlockedOn, Asleep, Claims, TypeOK
    <3>2. QED
      BY <1>0, <1>4, <3>1, CoveredStays DEF Sleep, ring
  <2>3. QED
    BY <2>1, <2>2
<1>5. ASSUME NEW t \in Threads, GiveUp(t) PROVE Covered(op)'
  BY <1>0, <1>5, CoveredAside DEF GiveUp, TypeOK, ring
<1>6. ASSUME NEW t \in Threads, Timeout(t) PROVE Covered(op)'
  <2>1. BlockedOn(op)' \subseteq BlockedOn(op) /\ Claims(op)' = Claims(op)
    BY <1>0, <1>6 DEF Timeout, MayExpire, BlockedOn, Asleep, Claims, TypeOK
  <2>2. QED
    BY <1>0, <1>6, <2>1, CoveredStays DEF Timeout, ring
<1>7. ASSUME NEW t \in Threads, SpuriousWake(t) PROVE Covered(op)'
  <2>1. BlockedOn(op)' \subseteq BlockedOn(op) /\ Claims(op) \subseteq Claims(op)'
    BY <1>0, <1>7 DEF SpuriousWake, BlockedOn, Asleep, Claims, TypeOK
  <2>2. QED
    BY <1>0, <1>7, <2>1, CoveredByMore, ClaimsFiniteNext DEF SpuriousWake, ring
<1>8. ASSUME NEW t \in Threads, Reacquire(t) PROVE Covered(op)'
  <2>1. /\ pc[t] \in {"woken", "expired"} /\ nelts' = nelts /\ call' = call
        /\ pc' = [pc EXCEPT ![t] = IF Served(t) THEN "copy" ELSE "unlock"]
    BY <1>8 DEF Reacquire, ring
  <2>2. BlockedOn(op)' = BlockedOn(op)
    BY <1>0, <2>1 DEF BlockedOn, Asleep, TypeOK
  <2>3. CASE pc[t] = "woken" /\ call[t].op = op /\ Refused(t)
    <3>1. Demand(op)' = 0
      BY <1>0, <2>1, <2>3, QueueAssumption DEF Refused, Full, Empty, Demand, TypeOK
    <3>2. QED
      BY <3>1, ClaimsFiniteNext, FS_CardinalityType DEF Covered
  <2>4. CASE ~(pc[t] = "woken" /\ call[t].op = op /\ Refused(t))
    <3>1. Claims(op)' = Claims(op)
      BY <1>0, <2>1, <2>4 DEF Claims, Served, TypeOK
    <3>2. QED
      BY <1>0, <2>1, <2>2, <3>1, CoveredStays
  <2>5. QED
    BY <2>3, <2>4
<1>9. ASSUME NEW t \in Threads, SetTerminated(t) PROVE Covered(op)'
  BY <1>0, <1>9, CoveredAside DEF SetTerminated, TypeOK, ring
<1>10. ASSUME NEW t \in Threads, Drop(t) PROVE Covered(op)'
  BY <1>0, <1>10, CoveredAside DEF Drop, TypeOK, ring
<1>11. ASSUME NEW t \in Threads, Broadcast(t) PROVE Covered(op)'
  <2>1. BlockedOn(op)' = {}
    BY <1>11 DEF Broadcast, Awakened, Asleep, BlockedOn
  <2>2. QED
    BY <2>1 DEF Covered
<1>12. ASSUME NEW t \in Threads, Unlock(t) PROVE Covered(op)'
  BY <1>0, <1>12, CoveredAside DEF Unlock, TypeOK, ring
<1>13. ASSUME NEW t \in Threads, Return(t) PROVE Covered(op)'
  BY <1>0, <1>13, CoveredAside DEF Return, TypeOK, ring
<1>14. ASSUME NEW t \in Threads, Store(t) PROVE Covered(op)'
  <2>1. /\ pc[t] = "copy" /\ call[t].op = "push" /\ nelts' = nelts + 1
        /\ \A u \in Threads : call'[u].op = call[u].op
    BY <1>0, <1>14 DEF Store, TypeOK
  <2>2. CASE op = "push"
    <3>1. /\ BlockedOn(op)' = BlockedOn(op)
          /\ Claims(op)' = Claims(op) \ {t} /\ t \in Claims(op)
      BY <1>0, <1>14, <2>1, <2>2
      DEF Store, SignalAndUnlock, BlockedOn, Asleep, Claims, TypeOK
    <3>2. Cardinality(Claims(op)') = Cardinality(Claims(op)) - 1
      BY <3>1, ClaimsFinite, FS_RemoveElement
    <3>3. Demand(op)' = Demand(op) - 1 /\ Demand(op) \in Int
      BY <1>0, <2>1, <2>2, QueueAssumption DEF Demand, TypeOK
    <3>4. QED
      BY <3>1, <3>2, <3>3, ClaimsFinite DEF Covered
  <2>3. CASE op = "pop"
    <3>1. CASE BlockedOn("pop") = {}
      <4>1. BlockedOn(op)' = {}
        BY <1>0, <1>14, <2>1, <2>3, <3>1
        DEF Store, SignalAndUnlock, BlockedOn, Asleep, TypeOK
      <4>2. QED
        BY <4>1 DEF Covered
    <3>2. CASE BlockedOn("pop") # {}
      <4>1. HasWaiters("pop")
        <5>1. InWait("pop") # {}
          BY <3>2 DEF InWait, BlockedOn, Asleep
        <5>2. Cardinality(InWait("pop")) # 0 /\ Cardinality(InWait("pop")) \in Nat
          BY <5>1, InWaitFinite, FS_EmptySet, FS_CardinalityType
        <5>3. QED
          BY <1>0, <5>2 DEF HasWaiters, WaitersCounted
      <4>2. PICK u \in BlockedOn("pop") :
              pc' = [pc EXCEPT ![t] = "unlock", ![u] = "woken"]
        BY <1>14, <3>2, <4>1 DEF Store, SignalAndUnlock
      <4>3. Claims(op)' = Claims(op) \cup {u} /\ u \notin Claims(op)
        BY <1>0, <2>1, <2>3, <4>2 DEF Claims, BlockedOn, Asleep, TypeOK
      <4>4. Cardinality(Claims(op)') = Cardinality(Claims(op)) + 1
        BY <4>3, ClaimsFinite, FS_AddElement
      <4>5. Demand(op) <= Cardinality(Claims(op))
        BY <2>3, <3>2 DEF Covered
      <4>6. Demand(op)' = Demand(op) + 1 /\ Demand(op) \in Int
        BY <1>0, <2>1, <2>3 DEF Demand, TypeOK
      <4>7. QED
        BY <4>4, <4>5, <4>6, ClaimsFinite DEF Covered
    <3>3. QED
      BY <3>1, <3>2
  <2>4. QED
    BY <2>2, <2>3
<1>15. ASSUME NEW t \in Threads, Fetch(t) PROVE Covered(op)'
  <2>1. /\ pc[t] = "copy" /\ call[t].op = "pop" /\ nelts' = nelts - 1
        /\ \A u \in Threads : call'[u].op = call[u].op
    BY <1>0, <1>15 DEF Fetch, TypeOK
  <2>2. CASE op = "pop"
    <3>1. /\ BlockedOn(op)' = BlockedOn(op)
          /\ Claims(op)' = Claims(op) \ {t} /\ t \in Claims(op)
      BY <1>0, <1>15, <2>1, <2>2
      DEF Fetch, SignalAndUnlock, BlockedOn, Asleep, Claims, TypeOK
    <3>2. Cardinality(Claims(op)') = Cardinality(Claims(op)) - 1
      BY <3>1, ClaimsFinite, FS_RemoveElement
    <3>3. Demand(op)' = Demand(op) - 1 /\ Demand(op) \in Int
      BY <1>0, <2>1, <2>2 DEF Demand, TypeOK
    <3>4. QED
      BY <3>1, <3>2, <3>3, ClaimsFinite DEF Covered
  <2>3. CASE op = "push"
    <3>1. CASE BlockedOn("push") = {}
      <4>1. BlockedOn(op)' = {}
        BY <1>0, <1>15, <2>1, <2>3, <3>1
        DEF Fetch, SignalAndUnlock, BlockedOn, Asleep, TypeOK
      <4>2. QED
        BY <4>1 DEF Covered
    <3>2. CASE BlockedOn("push") # {}
      <4>1. HasWaiters("push")
        <5>1. InWait("push") # {}
          BY <3>2 DEF InWait, BlockedOn, Asleep
        <5>2. Cardinality(InWait("push")) # 0 /\ Cardinality(InWait("push")) \in Nat
          BY <5>1, InWaitFinite, FS_EmptySet, FS_CardinalityType
        <5>3. QED
          BY <1>0, <5>2 DEF HasWaiters, WaitersCounted
      <4>2. PICK u \in BlockedOn("push") :
              pc' = [pc EXCEPT ![t] = "unlock", ![u] = "woken"]
        BY <1>15, <3>2, <4>1 DEF Fetch, SignalAndUnlock
      <4>3. Claims(op)' = Claims(op) \cup {u} /\ u \notin Claims(op)
        BY <1>0, <2>1, <2>3, <4>2 DEF Claims, BlockedOn, Asleep, TypeOK
      <4>4. Cardinality(Claims(op)') = Cardinality(Claims(op)) + 1
        BY <4>3, ClaimsFinite, FS_AddElement
      <4>5. Demand(op) <= Cardinality(Claims(op))
        BY <2>3, <3>2 DEF Covered
      <4>6. Demand(op)' = Demand(op) + 1 /\ Demand(op) \in Int
        BY <1>0, <2>1, <2>3, QueueAssumption DEF Demand, TypeOK
      <4>7. QED
        BY <4>4, <4>5, <4>6, ClaimsFinite DEF Covered
    <3>3. QED
      BY <3>1, <3>2
  <2>4. QED
    BY <2>2, <2>3
<1>16. CASE UNCHANGED vars
  BY <1>0, <1>16, CoveredAside DEF vars
<1>17. QED
  BY <1>1, <1>2, <1>3, <1>4, <1>5, <1>6, <1>7, <1>8, <1>9, <1>10, <1>11, <1>12,
     <1>13, <1>14, <1>15, <1>16 DEF Next, Step

(* One signal per element and per free slot is enough: an element is never *)
(* left to a popper that sleeps, nor room to a pusher that sleeps, unless  *)
(* a wait that was signalled can time out and take its signal with it.     *)
THEOREM NoWakeupIsLost == ASSUME ~LateTimeouts PROVE Spec => []NoLostWakeup
<1>1. Init => NoLostWakeup
  BY DEF Init, NoLostWakeup, BlockedOn, Asleep
<1>2. Inv /\ NoLostWakeup /\ [Next]_vars => NoLostWakeup'
  <2> SUFFICES ASSUME Inv, NoLostWakeup, [Next]_vars PROVE NoLostWakeup'
    OBVIOUS
  <2>1. \A op \in {"push", "pop"} : Covered(op)'
    BY NextCovered, CoveredBothSides
  <2>2. QED
    BY <2>1 DEF NoLostWakeup, Covered, Demand
<1>3. QED
  BY <1>1, <1>2, InvHolds, PTL DEF Spec
=============================================================================
