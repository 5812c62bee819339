------------------------- MODULE RpaQueueRefinement -------------------------
(***************************************************************************)
(* RpaQueue implements BoundedQueue, for any number of threads and any     *)
(* capacity: under the mapping of RpaQueue (items <- Items, status <-      *)
(* Status) a step of the code's ring is a step of the abstract queue or    *)
(* leaves it as it is.                                                     *)
(***************************************************************************)
EXTENDS RpaQueueProofs, SequenceTheorems

(* The two modules speak of the same calls. *)
LEMMA SameVocabulary ==
  /\ BQ!Threads = Threads /\ BQ!NoCall = NoCall
  /\ \A t : BQ!Calls(t) = Calls(t)
BY DEF BQ!Threads, Threads, BQ!NoCall, NoCall, BQ!Calls, Calls, BQ!Frames, Frames,
       BQ!Ops, Ops, BQ!Waits, Waits

(* The elements of a consistent ring are a sequence as long as nelts says. *)
LEMMA ItemsSeq ==
  ASSUME TypeOK, RingConsistent
  PROVE  Items \in Seq(Values) /\ Len(Items) = nelts /\ DOMAIN Items = 1 .. nelts
<1>1. nelts \in Nat
  BY QueueAssumption DEF TypeOK
<1>2. \A i \in 1 .. nelts : Items[i] \in Values
  BY DEF RingConsistent
<1>3. Items = [i \in 1 .. nelts |-> Items[i]]
  BY DEF Items
<1>4. Items \in [1 .. nelts -> Values]
  BY <1>2, <1>3
<1>5. QED
  BY <1>1, <1>4, SeqDef, LenProperties

(* A push appends its element (rpa_queue.c:235-240). *)
LEMMA StoreAppends ==
  ASSUME Inv, NEW t \in Threads, Store(t)
  PROVE  nelts < Capacity /\ Items' = Append(Items, call[t].arg)
<1> DEFINE v == call[t].arg
<1>1. /\ nelts \in 0 .. Capacity - 1 /\ v \in Values /\ in = Wrap(out + nelts)
      /\ out \in Slots /\ in \in Slots
  BY QueueAssumption
  DEF Inv, Store, TypeOK, CallsInStep, CopyIsServed, Refused, Full, RingConsistent
<1>2. /\ data' = [data EXCEPT ![in] = v] /\ nelts' = nelts + 1 /\ out' = out
  BY DEF Store
<1>3. Items \in Seq(Values) /\ Len(Items) = nelts
  BY ItemsSeq DEF Inv
<1>4. /\ Append(Items, v) \in Seq(Values) /\ Len(Append(Items, v)) = nelts + 1
      /\ \A i \in 1 .. nelts : Append(Items, v)[i] = Items[i]
      /\ Append(Items, v)[nelts + 1] = v
  BY <1>1, <1>3, AppendProperties
<1>5. Items' = [i \in 1 .. nelts + 1 |-> data'[Wrap(out + i - 1)]]
  BY <1>2 DEF Items, Wrap
<1>6. ASSUME NEW i \in 1 .. nelts + 1
      PROVE  data'[Wrap(out + i - 1)] = Append(Items, v)[i]
  <2>1. CASE i = nelts + 1
    <3>1. Wrap(out + i - 1) = in
      BY <1>1, <2>1
    <3>2. QED
      BY <1>1, <1>2, <1>4, <2>1, <3>1 DEF Inv, TypeOK
  <2>2. CASE i \in 1 .. nelts
    <3>1. /\ i - 1 \in Slots /\ nelts \in Slots /\ i - 1 # nelts
          /\ out + i - 1 = out + (i - 1)
      BY <1>1, <2>2, QueueAssumption DEF Slots
    <3>2. Wrap(out + i - 1) # in
      BY <1>1, <3>1, WrapApart
    <3>3. data'[Wrap(out + i - 1)] = data[Wrap(out + i - 1)]
      BY <1>1, <1>2, <3>2 DEF Inv, TypeOK
    <3>4. QED
      BY <1>4, <2>2, <3>3 DEF Items
  <2>3. i = nelts + 1 \/ i \in 1 .. nelts
    <3>1. nelts \in Nat
      BY <1>1, QueueAssumption
    <3>2. QED
      BY <3>1
  <2>4. QED
    BY <2>1, <2>2, <2>3
<1>7. Append(Items, v) = [i \in 1 .. nelts + 1 |-> Append(Items, v)[i]]
  BY <1>1, <1>4, LenProperties
<1>8. Items' = Append(Items, v)
  BY <1>5, <1>6, <1>7
<1>9. nelts < Capacity
  BY <1>1, QueueAssumption
<1>10. QED
  BY <1>8, <1>9

(* A pop takes the oldest element (rpa_queue.c:363-369). *)
LEMMA FetchTakes ==
  ASSUME Inv, NEW t \in Threads, Fetch(t)
  PROVE  Items # <<>> /\ data[out] = Head(Items) /\ Items' = Tail(Items)
<1>1. nelts \in 1 .. Capacity /\ out \in Slots
  BY QueueAssumption
  DEF Inv, Fetch, TypeOK, CallsInStep, CopyIsServed, Refused, Empty
<1>2. data' = data /\ nelts' = nelts - 1 /\ out' = Wrap(out + 1)
  BY DEF Fetch
<1>3. Items \in Seq(Values) /\ Len(Items) = nelts
  BY ItemsSeq DEF Inv
<1>4. Items # <<>>
  BY <1>1, <1>3, EmptySeq
<1>5. /\ Head(Items) = Items[1] /\ Tail(Items) \in Seq(Values)
      /\ Len(Tail(Items)) = nelts - 1
      /\ \A i \in 1 .. nelts - 1 : Tail(Items)[i] = Items[i + 1]
  BY <1>1, <1>3, <1>4, HeadTailProperties
<1>6. data[out] = Items[1]
  <2>1. out + 1 - 1 = out /\ Wrap(out) = out
    BY <1>1, QueueAssumption DEF Wrap, Slots
  <2>2. QED
    BY <1>1, <2>1 DEF Items
<1>7. Items' = [i \in 1 .. nelts - 1 |-> data[Wrap(out' + i - 1)]]
  BY <1>2 DEF Items, Wrap
<1>8. ASSUME NEW i \in 1 .. nelts - 1
      PROVE  data[Wrap(out' + i - 1)] = Tail(Items)[i]
  <2>1. /\ i - 1 \in Slots /\ i + 1 \in 1 .. nelts
        /\ out' + i - 1 = out' + (i - 1) /\ out + (i - 1) + 1 = out + (i + 1) - 1
    BY <1>1, <1>2, WrapSlots, QueueAssumption DEF Slots
  <2>2. Wrap(out' + (i - 1)) = Wrap(out + (i - 1) + 1)
    BY <1>1, <1>2, <2>1, WrapTwice
  <2>3. QED
    BY <1>5, <2>1, <2>2 DEF Items
<1>9. Tail(Items) = [i \in 1 .. nelts - 1 |-> Tail(Items)[i]]
  BY <1>1, <1>5, LenProperties
<1>10. QED
  BY <1>4, <1>5, <1>6, <1>7, <1>8, <1>9

(* A step that leaves the ring alone leaves the elements alone. *)
LEMMA ItemsStay == ASSUME UNCHANGED ring PROVE Items' = Items
BY DEF Items, Wrap, ring

(* rpa_queue_create makes an empty queue nobody calls. *)
LEMMA InitRefines == Init => BQ!Init
<1> SUFFICES ASSUME Init PROVE BQ!Init
  OBVIOUS
<1>1. Items = <<>>
  BY DEF Init, Items
<1>2. Status = [t \in Threads |-> "idle"]
  BY DEF Init, Status
<1>3. QED
  BY <1>1, <1>2, SameVocabulary DEF Init, BQ!Init

(* Each step of the ring is a step of the abstract queue or none. *)
LEMMA StepRefines == Inv /\ [Next]_vars => [BQ!Next]_(BQ!vars)
<1> SUFFICES ASSUME Inv, [Next]_vars PROVE BQ!Next \/ UNCHANGED BQ!vars
  BY DEF BQ!vars
<1> DEFINE StatusOf(place) ==
      IF place = "idle" THEN "idle"
      ELSE IF place \in {"unlock", "return"} THEN "done" ELSE "pending"
<1>0. /\ Status = [t \in Threads |-> StatusOf(pc[t])]
      /\ Status' = [t \in Threads |-> StatusOf(pc'[t])]
  BY DEF Status
<1> HIDE DEF StatusOf
<1>a. /\ StatusOf("idle") = "idle" /\ StatusOf("unlock") = "done" /\ StatusOf("return") = "done"
      /\ \A p \in PCs \ {"idle", "unlock", "return"} : StatusOf(p) = "pending"
  BY DEF StatusOf
<1>b. /\ pc \in [Threads -> PCs] /\ call \in [Threads -> Frames]
      /\ Items \in Seq(Values) /\ Len(Items) = nelts
  BY ItemsSeq DEF Inv, TypeOK
<1>c. ASSUME NEW p \in [Threads -> PCs], pc' = p,
             \A u \in Threads : StatusOf(p[u]) = StatusOf(pc[u])
      PROVE  Status' = Status
  BY <1>0, <1>c
<1>1. ASSUME NEW t \in Threads, Enter(t) PROVE BQ!Next
  <2>1. PICK c \in Calls(t) :
          /\ call' = [call EXCEPT ![t] = c]
          /\ pc' = [pc EXCEPT ![t] =
                      IF terminated /\ c.op \in {"push", "pop"} THEN "return" ELSE "lock"]
    BY <1>1 DEF Enter
  <2>2. /\ pc[t] = "idle" /\ UNCHANGED terminated /\ Items' = Items
    BY <1>1, ItemsStay DEF Enter
  <2>3. Status[t] = "idle"
    BY <1>0, <1>a, <2>2
  <2>4. CASE terminated /\ c.op \in {"push", "pop"}
    <3>1. Status' = [Status EXCEPT ![t] = "done"]
      BY <1>0, <1>a, <1>b, <2>1, <2>4
    <3>2. BQ!Reject(t)
      BY <2>1, <2>2, <2>3, <2>4, <3>1, SameVocabulary DEF BQ!Reject
    <3>3. QED
      BY <3>2, SameVocabulary DEF BQ!Next
  <2>5. CASE ~(terminated /\ c.op \in {"push", "pop"})
    <3>1. Status' = [Status EXCEPT ![t] = "pending"]
      BY <1>0, <1>a, <1>b, <2>1, <2>5 DEF PCs
    <3>2. BQ!Invoke(t)
      BY <2>1, <2>2, <2>3, <3>1, SameVocabulary DEF BQ!Invoke
    <3>3. QED
      BY <3>2, SameVocabulary DEF BQ!Next
  <2>6. QED
    BY <2>4, <2>5
<1>2. ASSUME NEW t \in Threads,
             Lock(t) \/ Accept(t) \/ Sleep(t) \/ Timeout(t) \/ SpuriousWake(t) \/ Drop(t)
      PROVE  UNCHANGED BQ!vars
  <2>1. UNCHANGED <<ring, terminated, call>>
    BY <1>2 DEF Lock, Accept, Sleep, Timeout, SpuriousWake, Drop
  <2>2. PICK q \in PCs \ {"idle", "unlock", "return"} :
          pc' = [pc EXCEPT ![t] = q] /\ pc[t] \in PCs \ {"idle", "unlock", "return"}
    BY <1>2, <1>b DEF Lock, Accept, Sleep, Timeout, MayExpire, SpuriousWake, Drop, PCs
  <2>3. Status' = Status
    BY <1>0, <1>a, <1>b, <2>2
  <2>4. QED
    BY <2>1, <2>3, ItemsStay DEF BQ!vars
<1>3. ASSUME NEW t \in Threads,
             \/ GiveUp(t)
             \/ Reacquire(t) /\ ~Served(t)
      PROVE  BQ!Next
  <2>1. /\ pc' = [pc EXCEPT ![t] = "unlock"] /\ UNCHANGED <<ring, terminated, call>>
        /\ pc[t] \in {"test", "woken", "expired"} /\ call[t].op \in {"push", "pop"}
        /\ Refused(t) \/ pc[t] = "expired"
    BY <1>3 DEF GiveUp, Reacquire, Served, Inv, CallsInStep
  <2>2. call[t].wait = "timed" \/ BQ!Refused(t)
    <3>1. CASE pc[t] = "expired"
      BY <3>1 DEF Inv, CallsInStep
    <3>2. CASE Refused(t)
      <4>1. nelts = 0 => Items = <<>>
        BY <1>b, EmptySeq
      <4>2. QED
        BY <1>b, <2>1, <3>2, <4>1 DEF Refused, Full, Empty, BQ!Refused
    <3>3. QED
      BY <2>1, <3>1, <3>2
  <2>3. Status[t] = "pending" /\ Status' = [Status EXCEPT ![t] = "done"]
    BY <1>0, <1>a, <1>b, <2>1 DEF PCs
  <2>4. BQ!Refuse(t)
    BY <2>1, <2>2, <2>3, ItemsStay DEF BQ!Refuse
  <2>5. QED
    BY <2>4, SameVocabulary DEF BQ!Next
<1>4. ASSUME NEW t \in Threads, Reacquire(t), Served(t) PROVE UNCHANGED BQ!vars
  <2>1. /\ pc' = [pc EXCEPT ![t] = "copy"] /\ pc[t] = "woken"
        /\ UNCHANGED <<ring, terminated, call>>
    BY <1>4 DEF Reacquire, Served
  <2>2. Status' = Status
    BY <1>0, <1>a, <1>b, <2>1 DEF PCs
  <2>3. QED
    BY <2>1, <2>2, ItemsStay DEF BQ!vars
<1>5. ASSUME NEW t \in Threads, NEW op, pc[t] = "copy", SignalAndUnlock(t, op)
      PROVE  Status[t] = "pending" /\ Status' = [Status EXCEPT ![t] = "done"]
  <2>1. CASE pc' = [pc EXCEPT ![t] = "unlock"]
    BY <1>0, <1>a, <1>b, <1>5, <2>1 DEF PCs
  <2>2. ASSUME NEW u \in BlockedOn(op), pc' = [pc EXCEPT ![t] = "unlock", ![u] = "woken"]
        PROVE  Status' = [Status EXCEPT ![t] = "done"]
    <3>1. u \in Threads /\ pc[u] = "wait" /\ u # t
      BY <1>5 DEF BlockedOn, Asleep
    <3>2. QED
      BY <1>0, <1>a, <1>b, <2>2, <3>1 DEF PCs
  <2>3. Status[t] = "pending"
    BY <1>0, <1>a, <1>b, <1>5 DEF PCs
  <2>4. QED
    BY <1>5, <2>1, <2>2, <2>3 DEF SignalAndUnlock
<1>6. ASSUME NEW t \in Threads, Store(t) PROVE BQ!Next
  <2>1. /\ pc[t] = "copy" /\ call[t].op = "push" /\ SignalAndUnlock(t, "pop")
        /\ call' = [call EXCEPT ![t].ret = TRUE] /\ UNCHANGED terminated
    BY <1>6 DEF Store
  <2>2. BQ!Put(t)
    BY <1>5, <1>6, <1>b, <2>1, StoreAppends DEF BQ!Put
  <2>3. QED
    BY <2>2, SameVocabulary DEF BQ!Next
<1>7. ASSUME NEW t \in Threads, Fetch(t) PROVE BQ!Next
  <2>1. /\ pc[t] = "copy" /\ call[t].op = "pop" /\ SignalAndUnlock(t, "push")
        /\ call' = [call EXCEPT ![t].arg = data[out], ![t].ret = TRUE]
        /\ UNCHANGED terminated
    BY <1>7 DEF Fetch
  <2>2. BQ!Get(t)
    BY <1>5, <1>7, <2>1, FetchTakes DEF BQ!Get
  <2>3. QED
    BY <2>2, SameVocabulary DEF BQ!Next
<1>8. ASSUME NEW t \in Threads, SetTerminated(t) PROVE BQ!Next
  <2>1. /\ pc' = [pc EXCEPT ![t] = "drop"] /\ pc[t] = "test" /\ call[t].op = "term"
        /\ terminated' = TRUE /\ call' = [call EXCEPT ![t].op = "interrupt_all"]
        /\ UNCHANGED ring
    BY <1>8 DEF SetTerminated
  <2>2. Status[t] = "pending" /\ Status' = Status
    BY <1>0, <1>a, <1>b, <2>1 DEF PCs
  <2>3. BQ!Terminate(t)
    BY <2>1, <2>2, ItemsStay DEF BQ!Terminate
  <2>4. QED
    BY <2>3, SameVocabulary DEF BQ!Next
<1>9. ASSUME NEW t \in Threads, Broadcast(t) PROVE BQ!Next
  <2>1. /\ pc[t] = "test" /\ call[t].op = "interrupt_all"
        /\ call' = [call EXCEPT ![t].ret = TRUE] /\ UNCHANGED <<ring, terminated>>
    BY <1>9 DEF Broadcast
  <2>2. /\ pc' \in [Threads -> PCs] /\ pc'[t] = "unlock"
        /\ \A u \in Threads \ {t} :
              pc'[u] = pc[u] \/ (pc[u] = "wait" /\ pc'[u] = "woken")
    BY <1>9, <1>b DEF Broadcast, Awakened, Asleep, PCs
  <2>3. \A u \in Threads \ {t} : StatusOf(pc'[u]) = StatusOf(pc[u])
    BY <1>a, <2>2 DEF PCs
  <2>4. Status[t] = "pending" /\ Status' = [Status EXCEPT ![t] = "done"]
    BY <1>0, <1>a, <1>b, <2>1, <2>2, <2>3 DEF PCs
  <2>5. BQ!Interrupt(t)
    BY <2>1, <2>4, ItemsStay DEF BQ!Interrupt
  <2>6. QED
    BY <2>5, SameVocabulary DEF BQ!Next
<1>10. ASSUME NEW t \in Threads, Unlock(t) \/ Return(t) PROVE BQ!Next
  <2>1. /\ pc[t] \in {"unlock", "return"} /\ pc' = [pc EXCEPT ![t] = "idle"]
        /\ call' = [call EXCEPT ![t] = NoCall] /\ UNCHANGED <<ring, terminated>>
    BY <1>10 DEF Unlock, Return
  <2>2. Status[t] = "done" /\ Status' = [Status EXCEPT ![t] = "idle"]
    BY <1>0, <1>a, <1>b, <2>1 DEF PCs
  <2>3. BQ!Return(t)
    BY <2>1, <2>2, ItemsStay, SameVocabulary DEF BQ!Return
  <2>4. QED
    BY <2>3, SameVocabulary DEF BQ!Next
<1>11. ASSUME UNCHANGED vars PROVE UNCHANGED BQ!vars
  BY <1>11, <1>0, ItemsStay DEF vars, ring, BQ!vars
<1>12. QED
  BY <1>1, <1>2, <1>3, <1>4, <1>6, <1>7, <1>8, <1>9, <1>10, <1>11 DEF Next, Step

(* The code's queue is a bounded FIFO queue: every call takes effect at    *)
(* one instant between its call and its return, elements come out in the   *)
(* order they went in, and a call that returns false has changed nothing.  *)
THEOREM QueueImplements == Spec => ImplementsBoundedQueue
<1>1. Spec => []Inv
  BY InvHolds
<1>2. Init => BQ!Init
  BY InitRefines
<1>3. Inv /\ [Next]_vars => [BQ!Next]_(BQ!vars)
  BY StepRefines
<1>4. QED
  BY <1>1, <1>2, <1>3, PTL DEF Spec, ImplementsBoundedQueue, BQ!Spec
=============================================================================
