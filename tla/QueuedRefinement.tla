-------------------------- MODULE QueuedRefinement --------------------------
(***************************************************************************)
(* QueuedRequest implements TonRequest, for any capacity and any number of *)
(* events: although a push and a pop are many steps of rpa_queue.c, with   *)
(* the steps of the other thread in between, handler and script behave as  *)
(* if each were one step.                                                  *)
(*                                                                         *)
(* HandlerPlace and PhpPlace say where the step is.  A push or a pop takes *)
(* effect when it stores or fetches, when it goes to sleep, and when it    *)
(* gives up after it slept; everything else a queue function does leaves   *)
(* both places and the request as they are.                                *)
(***************************************************************************)
EXTENDS QueuedRequestProofs

(* What the places need besides: the handler waits for ever; the PHP       *)
(* thread makes the call its function makes; nobody terminates a queue the *)
(* handler still uses; and slept is right about the present call.          *)
Within ==
  /\ pc[Sdk] # "idle" => call[Sdk].wait = "forever"
  /\ pc[Php] # "idle" =>
       call[Php].op \in IF php = "term" THEN {"term", "interrupt_all"} ELSE {"pop"}
  /\ terminated => LetGo
  /\ handler # "idle" => mem # "none"

Slept ==
  \A t \in {Sdk, Php} :
    /\ pc[t] \in {"wait", "woken", "expired"} => t \in slept
    /\ pc[t] \in {"idle", "lock", "test", "drop", "return"} => t \notin slept

(* A step of a thread t inside the queue that wakes nobody: only its own   *)
(* place in the queue changes.                                             *)
Alone(t) ==
  \/ Q!Lock(t) \/ Q!Accept(t) \/ Q!GiveUp(t) \/ Q!Timeout(t) \/ Q!Reacquire(t)
  \/ Q!SetTerminated(t) \/ Q!Drop(t)

(* Nobody has slept in a queue nobody uses. *)
LEMMA InitWithin == Init => Within /\ Slept
BY DEF Init, Q!Init, Q!Threads, Within, Slept, LetGo

(* The functions of a thread in the queue. *)
LEMMA Domains ==
  ASSUME P!Inv
  PROVE  /\ DOMAIN pc = {Sdk, Php} /\ DOMAIN call = {Sdk, Php}
         /\ Q!Threads = {Sdk, Php} /\ Sdk # Php
BY QueuedAssumption, SameQueue DEF P!Inv, P!TypeOK

(* Waking the others leaves the caller at "unlock" and the other thread    *)
(* where it was, or woken.                                                 *)
LEMMA SignalOne ==
  ASSUME P!Inv, NEW t \in {Sdk, Php}, NEW op, Q!SignalAndUnlock(t, op), t \notin Q!BlockedOn(op)
  PROVE  /\ pc'[t] = "unlock"
         /\ \A u \in {Sdk, Php} \ {t} :
              pc'[u] = pc[u] \/ (pc[u] = "wait" /\ call[u].op = op /\ pc'[u] = "woken")
BY Domains DEF Q!SignalAndUnlock, Q!BlockedOn, Q!Asleep

(* Every step keeps slept right.                                           *)
LEMMA NextSlept ==
  ASSUME P!Inv, Slept, [Next]_vars
  PROVE  Slept'
<1>t. /\ DOMAIN pc = {Sdk, Php} /\ DOMAIN call = {Sdk, Php}
      /\ Q!Threads = {Sdk, Php} /\ Sdk # Php
  BY Domains
<1>a. ASSUME NEW t \in {Sdk, Php}, slept' = slept,
             \A u \in {Sdk, Php} \ {t} : pc'[u] = pc[u] \/ (pc[u] = "wait" /\ pc'[u] = "woken"),
             pc'[t] \in {"wait", "woken", "expired"} => t \in slept,
             pc'[t] \in {"idle", "lock", "test", "drop", "return"} => t \notin slept
      PROVE  Slept'
  BY <1>a DEF Slept
<1>1. ASSUME NEW t \in {Sdk, Php}, Running(t) \/ SpuriousWake(t) PROVE Slept'
  <2>1. slept' = slept
    BY <1>1 DEF Running, SpuriousWake
  <2>2. CASE Alone(t)
    <3>1. /\ \A u \in {Sdk, Php} \ {t} : pc'[u] = pc[u]
          /\ \/ pc[t] \in {"lock", "test", "drop"}
                  /\ pc'[t] \in {"lock", "test", "drop", "copy", "unlock"}
             \/ pc[t] \in {"wait", "woken"} /\ pc'[t] = "expired"
             \/ pc[t] \in {"woken", "expired"} /\ pc'[t] \in {"copy", "unlock"}
      BY <2>2, <1>t
      DEF Alone, Q!Lock, Q!Accept, Q!GiveUp, Q!Timeout, Q!MayExpire, Q!Reacquire, Q!SetTerminated, Q!Drop
    <3>2. QED
      BY <1>a, <2>1, <3>1 DEF Slept
  <2>3. CASE Q!Broadcast(t)
    <3>1. /\ pc'[t] = "unlock"
          /\ \A u \in {Sdk, Php} \ {t} : pc'[u] = pc[u] \/ (pc[u] = "wait" /\ pc'[u] = "woken")
      BY <2>3, <1>t DEF Q!Broadcast, Q!Awakened, Q!Asleep
    <3>2. QED
      BY <1>a, <2>1, <3>1
  <2>4. CASE SpuriousWake(t)
    <3>1. /\ \A u \in {Sdk, Php} \ {t} : pc'[u] = pc[u]
          /\ pc[t] = "wait" /\ pc'[t] = "woken"
      BY <2>4, <1>t DEF SpuriousWake, Q!SpuriousWake
    <3>2. QED
      BY <1>a, <2>1, <3>1 DEF Slept
  <2>5. QED
    BY <1>1, <2>2, <2>3, <2>4 DEF Running, Alone
<1>2. ASSUME NEW t \in {Sdk, Php}, Sleep(t) PROVE Slept'
  <2>1. /\ slept' = slept \cup {t} /\ pc'[t] = "wait"
        /\ \A u \in {Sdk, Php} \ {t} : pc'[u] = pc[u]
    BY <1>2, <1>t DEF Sleep, Q!Sleep
  <2>2. QED
    BY <2>1 DEF Slept
<1>3. ASSUME NEW t \in {Sdk, Php}, Leave(t) PROVE Slept'
  <2>1. /\ slept' = slept \ {t} /\ pc'[t] = "idle"
        /\ \A u \in {Sdk, Php} \ {t} : pc'[u] = pc[u]
    BY <1>3, <1>t DEF Leave, Q!Unlock, Q!Return
  <2>2. QED
    BY <2>1 DEF Slept
<1>4. ASSUME NEW t \in {Sdk, Php}, Q!Enter(t), slept' = slept PROVE Slept'
  <2>1. /\ pc[t] = "idle" /\ pc'[t] \in {"return", "lock"}
        /\ \A u \in {Sdk, Php} \ {t} : pc'[u] = pc[u]
    BY <1>4, <1>t DEF Q!Enter
  <2>2. QED
    BY <1>a, <1>4, <2>1 DEF Slept
<1>5. CASE Push_Store
  <2>1. /\ pc[Sdk] = "copy" /\ Q!SignalAndUnlock(Sdk, "pop") /\ slept' = slept
    BY <1>5 DEF Push_Store, Q!Store
  <2>2. Sdk \notin Q!BlockedOn("pop")
    BY <2>1 DEF Q!BlockedOn, Q!Asleep
  <2>3. QED
    BY <1>a, <2>1, <2>2, SignalOne
<1>6. CASE Next_Fetch
  <2>1. /\ pc[Php] = "copy" /\ Q!SignalAndUnlock(Php, "push") /\ slept' = slept
    BY <1>6 DEF Next_Fetch, Q!Fetch
  <2>2. Php \notin Q!BlockedOn("push")
    BY <2>1 DEF Q!BlockedOn, Q!Asleep
  <2>3. QED
    BY <1>a, <2>1, <2>2, SignalOne
<1>7. CASE UNCHANGED <<pc, slept>>
  BY <1>7 DEF Slept
<1>8. CASE Callback \/ Resolve \/ Flag \/ Start \/ IsFinished_Size \/ IsFinished_Flag
  BY <1>7, <1>8 DEF Callback, Resolve, Flag, Start, IsFinished_Size, IsFinished_Flag, ring, engine
<1>9. CASE Close \/ Destroy \/ UNCHANGED vars
  BY <1>7, <1>9 DEF Close, Destroy, vars, ring
<1>10. CASE Push_Leave \/ Next_Leave \/ Term_Leave \/ Drain_Leave
  BY <1>3, <1>10 DEF Push_Leave, Next_Leave, Term_Leave, Drain_Leave
<1>11. CASE Push_Enter \/ Next_Enter \/ Term_Enter \/ Drain_Enter
  BY <1>4, <1>11 DEF Push_Enter, Next_Enter, Term_Enter, Drain_Enter
<1>12. QED
  BY <1>1, <1>2, <1>5, <1>6, <1>8, <1>9, <1>10, <1>11 DEF Next, Handle, Engine, Script

(* Every step keeps the threads within the calls of their functions.       *)
LEMMA NextWithin ==
  ASSUME P!Inv, Counts, ReleaseInv, FieldsTyped, Within, [Next]_vars
  PROVE  Within'
<1>t. /\ DOMAIN pc = {Sdk, Php} /\ DOMAIN call = {Sdk, Php}
      /\ Q!Threads = {Sdk, Php} /\ Sdk # Php
  BY Domains
<1>p. /\ pc[Sdk] # "idle" => call[Sdk].op = "push"
      /\ pc[Php] # "idle" => php \in {"next", "term", "drain"}
      /\ php # "idle" => mem = "live"
  BY DEF ReleaseInv, Places
<1>a. ASSUME UNCHANGED <<mem, php, handler>>, terminated' => terminated \/ LetGo,
             pc'[Sdk] # "idle" => pc[Sdk] # "idle" /\ call'[Sdk].wait = call[Sdk].wait,
             pc'[Php] # "idle" => pc[Php] # "idle" /\
                (call'[Php].op = call[Php].op \/ (php = "term" /\ call'[Php].op = "interrupt_all"))
      PROVE  Within'
  BY <1>a DEF Within, LetGo
<1>1. ASSUME NEW t \in {Sdk, Php}, Running(t) \/ Sleep(t) \/ SpuriousWake(t) PROVE Within'
  <2>1. UNCHANGED <<mem, php, handler>>
    BY <1>1 DEF Running, Sleep, SpuriousWake, sdk, engine
  <2>2. ASSUME \/ Q!Lock(t) \/ Q!Accept(t) \/ Q!GiveUp(t) \/ Q!Timeout(t) \/ Q!Reacquire(t)
               \/ Q!Sleep(t) \/ Q!SpuriousWake(t) \/ Q!Drop(t)
        PROVE  Within'
    <3>1. /\ call' = call /\ terminated' = terminated /\ pc[t] # "idle"
          /\ \A u \in {Sdk, Php} \ {t} : pc'[u] = pc[u]
      BY <2>2, <1>t DEF Q!Lock, Q!Accept, Q!GiveUp, Q!Timeout, Q!MayExpire, Q!Reacquire, Q!Sleep,
                        Q!SpuriousWake, Q!Drop
    <3>2. QED
      BY <1>a, <2>1, <3>1
  <2>3. CASE Q!SetTerminated(t)
    <3>1. /\ pc[t] = "test" /\ call[t].op = "term" /\ call' = [call EXCEPT ![t].op = "interrupt_all"]
          /\ \A u \in {Sdk, Php} \ {t} : pc'[u] = pc[u]
      BY <2>3, <1>t DEF Q!SetTerminated
    <3>2. t = Php /\ php = "term"
      BY <3>1, <1>p DEF Within
    <3>3. call'[Php].op = "interrupt_all" /\ call'[Sdk] = call[Sdk]
      BY <1>t, <3>1, <3>2
    <3>4. QED
      BY <1>a, <2>1, <3>1, <3>2, <3>3 DEF LetGo
  <2>4. CASE Q!Broadcast(t)
    <3>1. /\ call' = [call EXCEPT ![t].ret = TRUE] /\ terminated' = terminated /\ pc[t] # "idle"
          /\ \A u \in {Sdk, Php} \ {t} : pc'[u] # "idle" => pc[u] # "idle"
      BY <2>4, <1>t DEF Q!Broadcast, Q!Awakened, Q!Asleep
    <3>2. \A u \in {Sdk, Php} : call'[u].op = call[u].op /\ call'[u].wait = call[u].wait
      BY <1>t, <3>1
    <3>3. QED
      BY <1>a, <2>1, <3>1, <3>2
  <2>5. QED
    BY <1>1, <2>2, <2>3, <2>4 DEF Running, Sleep, SpuriousWake
<1>2. CASE Callback \/ Resolve \/ Flag
  <2>1. /\ UNCHANGED <<pc, call, terminated, mem, php>> /\ mem = "live"
    BY <1>2 DEF Callback, Resolve, Flag, ring, engine
  <2>2. QED
    BY <2>1 DEF Within, LetGo
<1>3. CASE Push_Enter
  <2>1. /\ mem = "live" /\ UNCHANGED <<terminated, mem, php, handler>>
        /\ call'[Sdk] = [op |-> "push", wait |-> "forever", arg |-> Event, ret |-> FALSE]
    BY <1>3 DEF Push_Enter, Q!Enter, sdk, engine
  <2>2. pc'[Php] = pc[Php] /\ call'[Php] = call[Php]
    BY <1>3, <1>t DEF Push_Enter, Q!Enter
  <2>3. QED
    BY <2>1, <2>2 DEF Within, LetGo
<1>4. CASE Push_Store \/ Next_Fetch
  <2>1. PICK t \in {Sdk, Php} :
          /\ pc[t] = "copy" /\ \E op : Q!SignalAndUnlock(t, op)
          /\ \A u \in {Sdk, Php} : call'[u].op = call[u].op /\ call'[u].wait = call[u].wait
          /\ UNCHANGED <<terminated, mem, php, handler>>
    <3>1. CASE Push_Store
      <4>1. /\ pc[Sdk] = "copy" /\ Q!SignalAndUnlock(Sdk, "pop")
            /\ call' = [call EXCEPT ![Sdk].ret = TRUE]
            /\ UNCHANGED <<terminated, mem, php, handler>>
        BY <3>1 DEF Push_Store, Q!Store, sdk, engine
      <4>2. QED
        BY <1>t, <4>1
    <3>2. CASE Next_Fetch
      <4>1. /\ pc[Php] = "copy" /\ Q!SignalAndUnlock(Php, "push")
            /\ call' = [call EXCEPT ![Php].arg = data[out], ![Php].ret = TRUE]
            /\ UNCHANGED <<terminated, mem, php, handler>>
        BY <3>2 DEF Next_Fetch, Q!Fetch, sdk
      <4>2. QED
        BY <1>t, <4>1
    <3>3. QED
      BY <1>4, <3>1, <3>2
  <2>2. PICK op : Q!SignalAndUnlock(t, op)
    BY <2>1
  <2>3. t \notin Q!BlockedOn(op)
    BY <2>1 DEF Q!BlockedOn, Q!Asleep
  <2>4. \A u \in {Sdk, Php} : pc'[u] # "idle" => pc[u] # "idle"
    BY <2>1, <2>2, <2>3, SignalOne
  <2>5. QED
    BY <1>a, <2>1, <2>4
<1>5. CASE Push_Leave
  <2>1. /\ pc'[Sdk] = "idle" /\ pc'[Php] = pc[Php] /\ call'[Php] = call[Php]
        /\ handler' = "idle" /\ UNCHANGED <<terminated, mem, php>>
    BY <1>5, <1>t DEF Push_Leave, Leave, Q!Unlock, Q!Return, engine
  <2>2. QED
    BY <2>1 DEF Within, LetGo
<1>6. CASE Next_Enter \/ Term_Enter \/ Drain_Enter
  <2>1. /\ Q!Enter(Php) /\ UNCHANGED <<terminated, handler, mem>>
        /\ \/ php = "idle" /\ mem = "live" /\ php' = "next" /\ call'[Php].op = "pop"
           \/ php = "term" /\ php' = php /\ call'[Php].op = "term"
           \/ php = "drain" /\ php' = php /\ call'[Php].op = "pop"
    BY <1>6 DEF Next_Enter, Term_Enter, Drain_Enter, PopCall, Q!Enter, sdk, engine
  <2>2. pc'[Sdk] = pc[Sdk] /\ call'[Sdk] = call[Sdk]
    BY <2>1, <1>t DEF Q!Enter
  <2>3. QED
    BY <2>1, <2>2 DEF Within, LetGo
<1>7. CASE Next_Leave \/ Term_Leave \/ Drain_Leave
  <2>1. /\ Leave(Php) /\ UNCHANGED <<handler, mem>>
        /\ \/ php = "next" /\ php' = "idle"
           \/ php \in {"term", "drain"} /\ php' \in {"drain", "destroy"}
    BY <1>7 DEF Next_Leave, Term_Leave, Drain_Leave, sdk
  <2>2. /\ pc'[Php] = "idle" /\ pc'[Sdk] = pc[Sdk] /\ call'[Sdk] = call[Sdk]
        /\ terminated' = terminated
    BY <2>1, <1>t DEF Leave, Q!Unlock, Q!Return
  <2>3. QED
    BY <2>1, <2>2 DEF Within, LetGo
<1>8. CASE Start \/ IsFinished_Size \/ IsFinished_Flag \/ Close \/ Destroy \/ UNCHANGED vars
  <2>1. UNCHANGED <<pc, call, terminated, handler>>
    BY <1>8 DEF Start, IsFinished_Size, IsFinished_Flag, Close, Destroy, vars, ring, sdk
  <2>2. /\ php' = php \/ pc[Php] = "idle"
        /\ LetGo => LetGo'
        /\ mem # "none" => mem' # "none"
    BY <1>8, <1>p
    DEF Start, IsFinished_Size, IsFinished_Flag, Close, Destroy, vars, engine, LetGo
  <2>3. QED
    BY <2>1, <2>2 DEF Within
<1>9. QED
  BY <1>1, <1>2, <1>3, <1>4, <1>5, <1>6, <1>7, <1>8 DEF Next, Handle, Engine, Script

-----------------------------------------------------------------------------
(* The steps of TonRequest, seen from here. *)

(* The two names of the queue list the same elements. *)
LEMMA SameItems == Q!Items = Items /\ Q!Items' = Items'
BY DEF Q!Items, Items, P!Items, Q!Wrap, P!Wrap

(* A step that moves neither place and changes nothing of the request is   *)
(* no step of TonRequest.                                                  *)
LEMMA Stutter ==
  ASSUME Items' = Items, HandlerPlace' = HandlerPlace, PhpPlace' = PhpPlace,
         Open' <=> Open, UNCHANGED <<mem, finished, sent, final, got, told>>
  PROVE  UNCHANGED T!vars
BY SameItems DEF T!vars, T!shared, T!sdk, T!engine, T!script

(* The handler moves on, alone. *)
LEMMA HandlerSteps ==
  ASSUME Items' = Items, PhpPlace' = PhpPlace, Open' <=> Open, mem = "live",
         UNCHANGED <<mem, got, told>>
  PROVE  /\ /\ HandlerPlace = "idle" /\ HandlerPlace' = "resolve" /\ ~final
            /\ sent < MaxEvents /\ sent' = sent + 1 /\ final' \in BOOLEAN
            /\ finished' = finished
            => T!Callback(request)
         /\ /\ HandlerPlace = "resolve" /\ HandlerPlace' = "flag"
            /\ UNCHANGED <<finished, sent, final>>
            => T!Resolve(request)
         /\ /\ HandlerPlace = "flag" /\ HandlerPlace' = "push"
            /\ finished' = final /\ UNCHANGED <<sent, final>>
            => T!Flag(request)
         /\ /\ HandlerPlace = "blocked" /\ HandlerPlace' = "woken" /\ SpuriousWakeups
            /\ UNCHANGED <<finished, sent, final>>
            => T!SpuriousPushWake(request)
<1> USE SameItems, QueuedAssumption DEF T!shared, T!engine, T!script, T!Live
<1>1. ASSUME HandlerPlace = "idle", HandlerPlace' = "resolve", ~final,
             sent < MaxEvents, sent' = sent + 1, final' \in BOOLEAN, finished' = finished
      PROVE  T!Callback(request)
  BY <1>1 DEF T!Callback
<1>2. ASSUME HandlerPlace = "resolve", HandlerPlace' = "flag",
             UNCHANGED <<finished, sent, final>>
      PROVE  T!Resolve(request)
  BY <1>2 DEF T!Resolve
<1>3. ASSUME HandlerPlace = "flag", HandlerPlace' = "push", finished' = final,
             UNCHANGED <<sent, final>>
      PROVE  T!Flag(request)
  BY <1>3 DEF T!Flag, T!SetFinished
<1>4. ASSUME HandlerPlace = "blocked", HandlerPlace' = "woken", SpuriousWakeups,
             UNCHANGED <<finished, sent, final>>
      PROVE  T!SpuriousPushWake(request)
  BY <1>4 DEF T!SpuriousPushWake
<1>5. QED
  BY <1>1, <1>2, <1>3, <1>4

(* A push: it appends its event and wakes a script that waits, or it finds *)
(* no room and sleeps, or gives up if it has slept.                        *)
LEMMA PushSteps ==
  ASSUME HandlerPlace \in {"push", "woken"}, mem = "live", Open' <=> Open,
         UNCHANGED <<mem, finished, sent, final, got, told>>,
         \/ /\ Len(Items) < Capacity /\ Items' = Append(Items, Event)
            /\ HandlerPlace' = "idle"
            /\ PhpPlace' = IF PhpPlace = "wait" THEN "woken" ELSE PhpPlace
         \/ /\ ~(Len(Items) < Capacity) /\ Items' = Items /\ PhpPlace' = PhpPlace
            /\ HandlerPlace' = IF HandlerPlace = "push" THEN "blocked" ELSE "idle"
  PROVE  T!Push(request)
BY SameItems, QueuedAssumption
DEF T!Push, T!Live, T!HasRoom, T!Event, Event, T!Queued, T!Quiet, T!NotQueued, T!script

(* The script waits and wakes. *)
LEMMA WaitSteps ==
  ASSUME Items' = Items, HandlerPlace' = HandlerPlace, Open' <=> Open,
         UNCHANGED <<mem, finished, sent, final, got, told>>
  PROVE  /\ PhpPlace = "idle" /\ PhpPlace' \in {"wait", "timed"} /\ Open /\ Items = <<>>
            => T!Next_Wait(request)
         /\ PhpPlace = "timed" /\ PhpPlace' = "idle" => T!Next_TimedOut
         /\ PhpPlace = "woken" /\ PhpPlace' = "idle" /\ Items = <<>> => T!Next_Woken
         /\ PhpPlace = "wait" /\ PhpPlace' = "woken" /\ SpuriousWakeups
            => T!SpuriousNextWake
<1> USE SameItems, QueuedAssumption DEF T!shared, T!sdk, T!script, T!Idle
<1>1. ASSUME PhpPlace = "idle", PhpPlace' \in {"wait", "timed"}, Open, Items = <<>>
      PROVE  T!Next_Wait(request)
  BY <1>1 DEF T!Next_Wait
<1>2. ASSUME PhpPlace = "timed", PhpPlace' = "idle" PROVE T!Next_TimedOut
  BY <1>2 DEF T!Next_TimedOut
<1>3. ASSUME PhpPlace = "woken", PhpPlace' = "idle", Items = <<>> PROVE T!Next_Woken
  BY <1>3 DEF T!Next_Woken
<1>4. ASSUME PhpPlace = "wait", PhpPlace' = "woken", SpuriousWakeups
      PROVE  T!SpuriousNextWake
  BY <1>4 DEF T!SpuriousNextWake
<1>5. QED
  BY <1>1, <1>2, <1>3, <1>4

(* A pop takes the oldest event and lets in a handler that waits. *)
LEMMA PopSteps ==
  ASSUME Items # <<>>, Items \in Seq(Events), mem = "live", Open' <=> Open, Open,
         Items' = Tail(Items), got' = Append(got, Head(Items).n),
         HandlerPlace' = IF HandlerPlace = "blocked" THEN "woken" ELSE HandlerPlace,
         PhpPlace \in {"idle", "woken", "timed"}, PhpPlace' = "idle",
         UNCHANGED <<mem, finished, sent, final, told>>
  PROVE  T!Next_Pop(request) \/ T!Next_Woken \/ T!Next_InTime
<1>1. Head(Items).data = request
  <2>1. Head(Items) \in Events
    OBVIOUS
  <2>2. QED
    BY <2>1 DEF Events
<1>2. T!BlockedAt(request) = IF HandlerPlace = "blocked" THEN {request} ELSE {}
  BY DEF T!BlockedAt
<1>3. T!LetOneIn(request)
  BY <1>2, QueuedAssumption DEF T!LetOneIn
<1>4. T!Pop(request)
  BY <1>1, <1>3, SameItems, QueuedAssumption
  DEF T!Pop, T!FirstElement, T!OtherElements, T!Live
<1>5. CASE PhpPlace = "idle"
  BY <1>4, <1>5 DEF T!Next_Pop
<1>6. CASE PhpPlace = "woken"
  BY <1>4, <1>6 DEF T!Next_Woken, T!Idle
<1>7. CASE PhpPlace = "timed"
  BY <1>4, <1>7 DEF T!Next_InTime, T!Idle
<1>8. QED
  BY <1>5, <1>6, <1>7

(* The script starts, asks and lets go. *)
LEMMA ScriptSteps ==
  ASSUME Items' = Items, HandlerPlace' = HandlerPlace,
         UNCHANGED <<finished, sent, final, got>>
  PROVE  /\ /\ PhpPlace = "idle" /\ PhpPlace' = "idle" /\ mem = "none" /\ mem' = "live"
            /\ Open' /\ told' = told
            => T!Start(request)
         /\ /\ PhpPlace = "idle" /\ PhpPlace' = "sized" /\ Open /\ Open' /\ Items = <<>>
            /\ mem' = mem /\ told' = told
            => T!IsFinished_Size(request)
         /\ /\ PhpPlace = "sized" /\ PhpPlace' = "idle" /\ (Open' <=> Open)
            /\ mem' = mem /\ (told' <=> told \/ finished)
            => T!IsFinished_Flag
         /\ /\ PhpPlace = "idle" /\ PhpPlace' = "free" /\ Open /\ ~Open' /\ finished
            /\ Received /\ mem' = mem /\ told' = told
            => T!Close(request)
         /\ /\ PhpPlace = "free" /\ PhpPlace' = "idle" /\ (Open' <=> Open) /\ finished
            /\ HandlerPlace = "idle" /\ mem' = "freed" /\ told' = told
            => T!Release
<1> USE SameItems, QueuedAssumption DEF T!shared, T!sdk, T!script, T!Idle
<1>1. ASSUME PhpPlace = "idle", PhpPlace' = "idle", mem = "none", mem' = "live", Open',
             told' = told
      PROVE  T!Start(request)
  BY <1>1 DEF T!Start, Open
<1>2. ASSUME PhpPlace = "idle", PhpPlace' = "sized", Open, Open', Items = <<>>, mem' = mem,
             told' = told
      PROVE  T!IsFinished_Size(request)
  BY <1>2 DEF T!IsFinished_Size
<1>3. ASSUME PhpPlace = "sized", PhpPlace' = "idle", Open' <=> Open, mem' = mem,
             told' <=> told \/ finished
      PROVE  T!IsFinished_Flag
  BY <1>3 DEF T!IsFinished_Flag
<1>4. ASSUME PhpPlace = "idle", PhpPlace' = "free", Open, ~Open', finished, Received,
             mem' = mem, told' = told
      PROVE  T!Close(request)
  BY <1>4 DEF T!Close, T!MayClose, T!Received, Received, T!Range, Range
<1>5. ASSUME PhpPlace = "free", PhpPlace' = "idle", Open' <=> Open, finished,
             HandlerPlace = "idle", mem' = "freed", told' = told
      PROVE  T!Release
  <2>1. T!BlockedAt(request) = {}
    BY <1>5 DEF T!BlockedAt
  <2>2. QED
    BY <1>5, <2>1 DEF T!Release, T!Free
<1>6. QED
  BY <1>1, <1>2, <1>3, <1>4, <1>5

-----------------------------------------------------------------------------
(* The steps of QueuedRequest. *)

RefInv == P!Inv /\ Counts /\ ReleaseInv /\ FieldsTyped /\ Within /\ Slept

(* While the handler works, the request is live and the queue not          *)
(* terminated: the script lets go only after the last event, which the     *)
(* handler still has in hand.                                              *)
LEMMA HandlerKeepsRequest ==
  ASSUME RefInv, handler # "idle"
  PROVE  mem = "live" /\ ~terminated /\ ~LetGo
<1>1. sent \notin Range(got)
  <2>1. sent \in Nat
    BY QueuedAssumption DEF RefInv, Counts
  <2>2. sent \in Range(got) => sent < sent
    BY DEF RefInv, ReleaseInv, Younger
  <2>3. QED
    BY <2>1, <2>2
<1>2. ~LetGo
  BY <1>1 DEF RefInv, ReleaseInv, Kept, Received
<1>3. QED
  BY <1>2 DEF RefInv, Within, LetGo, FieldsTyped

(* Where a thread is inside the queue, and in which call. *)
LEMMA Calling ==
  ASSUME RefInv
  PROVE  /\ pc[Sdk] # "idle" =>
              /\ handler = "push" /\ call[Sdk].op = "push" /\ call[Sdk].wait = "forever"
              /\ call[Sdk].arg = Event
              /\ mem = "live" /\ ~terminated /\ php \notin {"term", "drain", "destroy"}
         /\ pc[Php] # "idle" =>
              /\ php \in {"next", "term", "drain"} /\ mem = "live"
              /\ call[Php].op # "push"
              /\ php = "next" => call[Php].op = "pop"
         /\ pc[Sdk] # "expired"
         /\ \A t \in {Sdk, Php} :
              pc[t] \in {"wait", "woken", "expired", "copy"} => call[t].op \in {"push", "pop"}
<1>1. pc[Sdk] # "idle" =>
        /\ handler = "push" /\ call[Sdk].op = "push" /\ call[Sdk].wait = "forever"
        /\ call[Sdk].arg = Event
  BY DEF RefInv, ReleaseInv, Places, Within
<1>2. pc[Sdk] # "idle" => mem = "live" /\ ~terminated /\ php \notin {"term", "drain", "destroy"}
  BY <1>1, HandlerKeepsRequest DEF LetGo
<1>3. pc[Php] # "idle" => php \in {"next", "term", "drain"} /\ mem = "live"
  BY DEF RefInv, ReleaseInv, Places
<1>4. pc[Php] # "idle" => /\ call[Php].op # "push"
                          /\ php = "next" => call[Php].op = "pop"
  BY DEF RefInv, Within
<1>5. \A t \in {Sdk, Php} :
        /\ pc[t] \in {"wait", "woken", "expired", "copy"} => call[t].op \in {"push", "pop"}
        /\ pc[t] = "expired" => call[t].wait = "timed"
  BY SameQueue DEF RefInv, P!Inv, P!CallsInStep
<1>6. pc[Sdk] # "expired"
  BY <1>1, <1>5
<1>7. QED
  BY <1>1, <1>2, <1>3, <1>4, <1>5, <1>6

(* A thread that sleeps is one that the waiters of its side count. *)
LEMMA SleeperCounted ==
  ASSUME RefInv, NEW t \in {Sdk, Php}, pc[t] = "wait"
  PROVE  waiters[call[t].op] > 0 /\ Q!BlockedOn(call[t].op) # {}
<1>1. call[t].op \in {"push", "pop"}
  BY Calling
<1>2. t \in P!InWait(call[t].op)
  BY SameQueue DEF P!InWait
<1>3. P!Cardinality(P!InWait(call[t].op)) > 0
  <2>1. P!IsFiniteSet(P!InWait(call[t].op))
    BY P!InWaitFinite, AssumptionsOfQueue
  <2>2. P!Cardinality(P!InWait(call[t].op)) # 0
    BY <1>2, <2>1, P!FS_EmptySet, AssumptionsOfQueue
  <2>3. P!Cardinality(P!InWait(call[t].op)) \in Nat
    BY <2>1, P!FS_CardinalityType, AssumptionsOfQueue
  <2>4. QED
    BY <2>2, <2>3
<1>4. QED
  BY <1>1, <1>3, SameQueue DEF RefInv, P!Inv, P!WaitersCounted, Q!BlockedOn, Q!Asleep

(* A step of the SDK's thread inside the queue is a push that finds no     *)
(* room, a spurious wakeup, or nothing.                                    *)
LEMMA SdkInside ==
  ASSUME RefInv, Running(Sdk) \/ Sleep(Sdk) \/ SpuriousWake(Sdk)
  PROVE  T!Next \/ UNCHANGED T!vars
<1>t. /\ DOMAIN pc = {Sdk, Php} /\ DOMAIN call = {Sdk, Php}
      /\ Q!Threads = {Sdk, Php} /\ Sdk # Php
  BY Domains DEF RefInv
<1>1. PICK u : u = Sdk /\
        \/ Q!Lock(u) \/ Q!Accept(u) \/ Q!GiveUp(u) \/ Q!Timeout(u) \/ Q!Reacquire(u)
        \/ Q!SetTerminated(u) \/ Q!Drop(u) \/ Q!Broadcast(u) \/ Q!Sleep(u) \/ Q!SpuriousWake(u)
  BY DEF Running, Sleep, SpuriousWake
<1>2. pc[Sdk] # "idle"
  BY <1>1 DEF Q!Lock, Q!Accept, Q!GiveUp, Q!Timeout, Q!MayExpire, Q!Reacquire, Q!SetTerminated, Q!Drop,
              Q!Broadcast, Q!Sleep, Q!SpuriousWake
<1>3. /\ handler = "push" /\ call[Sdk].op = "push" /\ call[Sdk].wait = "forever"
      /\ mem = "live" /\ ~terminated /\ pc[Sdk] # "expired"
  BY <1>2, Calling
<1>4. ~Q!SetTerminated(Sdk) /\ ~Q!Drop(Sdk) /\ ~Q!Broadcast(Sdk)
  BY <1>3, SameQueue
  DEF Q!SetTerminated, Q!Drop, Q!Broadcast, RefInv, P!Inv, P!CallsInStep
<1>5. ~Q!GiveUp(Sdk) /\ ~Q!Timeout(Sdk)
  BY <1>3 DEF Q!GiveUp, Q!Timeout, Q!MayExpire, Q!MayWait
<1>6. /\ Items' = Items /\ (Open' <=> Open) /\ handler' = handler
      /\ UNCHANGED <<mem, finished, sent, final, got, told>>
  <2>1. Items' = Items /\ UNCHANGED <<finished, sdk, mem, php, got>>
    BY RunningKeeps DEF RefInv, ReleaseInv
  <2>2. told' = told
    BY DEF Running, Sleep, SpuriousWake, engine
  <2>3. QED
    BY <2>1, <2>2 DEF sdk, Open
<1>7. /\ pc'[Php] = pc[Php] /\ call' = call /\ php' = php
      /\ (Php \in slept' <=> Php \in slept)
  <2>1. pc'[Php] = pc[Php] /\ call' = call
    BY <1>1, <1>4, <1>5, <1>t
    DEF Q!Lock, Q!Accept, Q!Reacquire, Q!Sleep, Q!SpuriousWake
  <2>2. php' = php /\ (Php \in slept' <=> Php \in slept)
    BY <1>t DEF Running, Sleep, SpuriousWake, engine
  <2>3. QED
    BY <2>1, <2>2
<1>8. PhpPlace' = PhpPlace
  BY <1>7 DEF PhpPlace
<1>9. Len(Items) = nelts /\ nelts \in Nat /\ Capacity \in Nat
  BY ItemsAreEvents, QueuedAssumption DEF RefInv, P!Inv, P!TypeOK
<1>10. CASE Q!Lock(Sdk) \/ Q!Accept(Sdk)
  <2>1. /\ pc[Sdk] \in {"lock", "test"} /\ pc'[Sdk] \in {"test", "copy"} /\ slept' = slept
    BY <1>10, <1>t DEF Q!Lock, Q!Accept, Running, Sleep, SpuriousWake, Q!Sleep, Q!SpuriousWake
  <2>2. Sdk \notin slept
    BY <2>1 DEF RefInv, Slept
  <2>3. HandlerPlace = "push" /\ HandlerPlace' = "push"
    BY <1>3, <1>6, <2>1, <2>2 DEF HandlerPlace
  <2>4. QED
    BY <1>6, <1>8, <2>3, Stutter
<1>11. CASE Q!Reacquire(Sdk)
  <2>1. /\ pc[Sdk] = "woken" /\ slept' = slept /\ Sdk \in slept
        /\ pc'[Sdk] = IF Q!Served(Sdk) THEN "copy" ELSE "unlock"
    BY <1>3, <1>11, <1>t
    DEF Q!Reacquire, Running, Sleep, SpuriousWake, Q!Sleep, Q!SpuriousWake, RefInv, Slept
  <2>2. HandlerPlace = "woken"
    BY <1>3, <2>1 DEF HandlerPlace
  <2>3. CASE Q!Served(Sdk)
    <3>1. HandlerPlace' = "woken"
      BY <1>3, <1>6, <2>1, <2>3 DEF HandlerPlace
    <3>2. QED
      BY <1>6, <1>8, <2>2, <3>1, Stutter
  <2>4. CASE ~Q!Served(Sdk)
    <3>1. HandlerPlace' = "idle"
      BY <1>3, <1>6, <2>1, <2>4 DEF HandlerPlace
    <3>2. ~(Len(Items) < Capacity)
      BY <1>3, <1>9, <2>1, <2>4 DEF Q!Served, Q!Refused, Q!Full
    <3>3. T!Push(request)
      BY <1>3, <1>6, <1>8, <2>2, <3>1, <3>2, PushSteps
    <3>4. QED
      BY <3>3 DEF T!Next, T!Handle
  <2>5. QED
    BY <2>3, <2>4
<1>12. CASE Q!Sleep(Sdk)
  <2>1. pc[Sdk] = "test" /\ pc'[Sdk] = "wait" /\ Sdk \notin slept
    BY <1>12, <1>t DEF Q!Sleep, RefInv, Slept
  <2>2. HandlerPlace = "push" /\ HandlerPlace' = "blocked"
    BY <1>3, <1>6, <2>1 DEF HandlerPlace
  <2>3. ~(Len(Items) < Capacity)
    BY <1>3, <1>9, <1>12 DEF Q!Sleep, Q!Refused, Q!Full
  <2>4. T!Push(request)
    BY <1>3, <1>6, <1>8, <2>2, <2>3, PushSteps
  <2>5. QED
    BY <2>4 DEF T!Next, T!Handle
<1>13. CASE Q!SpuriousWake(Sdk)
  <2>1. pc[Sdk] = "wait" /\ pc'[Sdk] = "woken" /\ SpuriousWakeups
    BY <1>13, <1>t DEF Q!SpuriousWake
  <2>2. HandlerPlace = "blocked" /\ HandlerPlace' = "woken"
    BY <1>3, <1>6, <2>1 DEF HandlerPlace
  <2>3. T!SpuriousPushWake(request)
    BY <1>3, <1>6, <1>8, <2>1, <2>2, HandlerSteps
  <2>4. QED
    BY <2>3 DEF T!Next
<1>14. QED
  BY <1>1, <1>4, <1>5, <1>10, <1>11, <1>12, <1>13

(* A step of the PHP thread inside the queue is a wait of the script, the  *)
(* end of one, or nothing.                                                 *)
LEMMA PhpInside ==
  ASSUME RefInv, Running(Php) \/ Sleep(Php) \/ SpuriousWake(Php)
  PROVE  T!Next \/ UNCHANGED T!vars
<1>t. /\ DOMAIN pc = {Sdk, Php} /\ DOMAIN call = {Sdk, Php}
      /\ Q!Threads = {Sdk, Php} /\ Sdk # Php
  BY Domains DEF RefInv
<1>1. PICK u : u = Php /\
        \/ Q!Lock(u) \/ Q!Accept(u) \/ Q!GiveUp(u) \/ Q!Timeout(u) \/ Q!Reacquire(u)
        \/ Q!SetTerminated(u) \/ Q!Drop(u) \/ Q!Broadcast(u) \/ Q!Sleep(u) \/ Q!SpuriousWake(u)
  BY DEF Running, Sleep, SpuriousWake
<1>2. pc[Php] # "idle"
  BY <1>1 DEF Q!Lock, Q!Accept, Q!GiveUp, Q!Timeout, Q!MayExpire, Q!Reacquire, Q!SetTerminated, Q!Drop,
              Q!Broadcast, Q!Sleep, Q!SpuriousWake
<1>3. /\ php \in {"next", "term", "drain"} /\ mem = "live" /\ call[Php].op # "push"
      /\ php = "next" => call[Php].op = "pop"
      /\ php \in {"term", "drain"} => pc[Sdk] = "idle"
  BY <1>2, Calling
<1>4. php = "next" => ~Q!SetTerminated(Php) /\ ~Q!Drop(Php) /\ ~Q!Broadcast(Php)
  BY <1>3, SameQueue
  DEF Q!SetTerminated, Q!Drop, Q!Broadcast, RefInv, P!Inv, P!CallsInStep
<1>6. /\ Items' = Items /\ (Open' <=> Open) /\ handler' = handler /\ php' = php
      /\ UNCHANGED <<mem, finished, sent, final, got, told>>
      /\ (Sdk \in slept' <=> Sdk \in slept)
  <2>1. Items' = Items /\ UNCHANGED <<finished, sdk, mem, php, got>>
    BY RunningKeeps DEF RefInv, ReleaseInv
  <2>2. told' = told /\ (Sdk \in slept' <=> Sdk \in slept)
    BY <1>t DEF Running, Sleep, SpuriousWake, engine
  <2>3. QED
    BY <2>1, <2>2 DEF sdk, Open
<1>7. pc'[Sdk] = pc[Sdk]
  <2>1. CASE Q!Broadcast(Php)
    <3>1. pc[Sdk] = "idle"
      BY <1>3, <1>4, <2>1
    <3>2. QED
      BY <1>t, <2>1, <3>1 DEF Q!Broadcast, Q!Awakened, Q!Asleep
  <2>2. CASE ~Q!Broadcast(Php)
    BY <1>1, <1>t, <2>2
    DEF Q!Lock, Q!Accept, Q!GiveUp, Q!Timeout, Q!MayExpire, Q!Reacquire, Q!SetTerminated, Q!Drop,
        Q!Sleep, Q!SpuriousWake
  <2>3. QED
    BY <2>1, <2>2
<1>8. HandlerPlace' = HandlerPlace
  BY <1>6, <1>7 DEF HandlerPlace
<1>9. nelts = 0 => Items = <<>>
  BY ItemsAreEvents DEF RefInv
<1>10. CASE php # "next"
  <2>1. PhpPlace = "free" /\ PhpPlace' = "free"
    <3>1. php \in {"term", "drain", "destroy"} /\ php' \in {"term", "drain", "destroy"}
      BY <1>3, <1>6, <1>10
    <3>2. QED
      BY <3>1 DEF PhpPlace
  <2>2. QED
    BY <1>6, <1>8, <2>1, Stutter
<1>11. ASSUME php = "next", Q!Lock(Php) \/ Q!Accept(Php) \/ Q!GiveUp(Php)
       PROVE  T!Next \/ UNCHANGED T!vars
  <2>1. /\ pc[Php] \in {"lock", "test"} /\ pc'[Php] \in {"test", "copy", "unlock"}
        /\ slept' = slept
    BY <1>11, <1>t
    DEF Q!Lock, Q!Accept, Q!GiveUp, Running, Sleep, SpuriousWake, Q!Sleep, Q!SpuriousWake
  <2>2. Php \notin slept
    BY <2>1 DEF RefInv, Slept
  <2>3. PhpPlace = "idle" /\ PhpPlace' = "idle"
    BY <1>6, <1>11, <2>1, <2>2 DEF PhpPlace
  <2>4. QED
    BY <1>6, <1>8, <2>3, Stutter
<1>12. ASSUME php = "next", Q!Timeout(Php) PROVE T!Next \/ UNCHANGED T!vars
  <2>1. pc[Php] \in {"wait", "woken"} /\ call[Php].wait = "timed" /\ pc'[Php] = "expired"
    BY <1>12, <1>t DEF Q!Timeout, Q!MayExpire
  <2>2. PhpPlace = "timed" /\ PhpPlace' = "idle"
    BY <1>6, <1>12, <2>1 DEF PhpPlace
  <2>3. T!Next_TimedOut
    BY <1>6, <1>8, <2>2, WaitSteps
  <2>4. QED
    BY <2>3 DEF T!Next, T!Engine
<1>13. ASSUME php = "next", Q!Reacquire(Php) PROVE T!Next \/ UNCHANGED T!vars
  <2>1. /\ pc[Php] \in {"woken", "expired"} /\ slept' = slept /\ Php \in slept
        /\ call' = call
        /\ pc'[Php] = IF Q!Served(Php) THEN "copy" ELSE "unlock"
    BY <1>13, <1>t
    DEF Q!Reacquire, Running, Sleep, SpuriousWake, Q!Sleep, Q!SpuriousWake, RefInv, Slept
  <2>2. CASE Q!Served(Php)
    <3>1. pc[Php] = "woken" /\ pc'[Php] = "copy"
      BY <2>1, <2>2 DEF Q!Served
    <3>2. PhpPlace' = PhpPlace
      BY <1>6, <1>13, <2>1, <3>1 DEF PhpPlace
    <3>3. QED
      BY <1>6, <1>8, <3>2, Stutter
  <2>3. CASE ~Q!Served(Php) /\ pc[Php] = "expired"
    <3>1. PhpPlace = "idle" /\ PhpPlace' = "idle"
      BY <1>6, <1>13, <2>1, <2>3 DEF PhpPlace
    <3>2. QED
      BY <1>6, <1>8, <3>1, Stutter
  <2>4. CASE ~Q!Served(Php) /\ pc[Php] = "woken"
    <3>1. PhpPlace \in {"woken", "timed"} /\ PhpPlace' = "idle"
      BY <1>6, <1>13, <2>1, <2>4 DEF PhpPlace
    <3>2. Items = <<>>
      BY <1>3, <1>9, <2>4 DEF Q!Served, Q!Refused, Q!Empty
    <3>3. T!Next_Woken \/ T!Next_TimedOut
      BY <1>6, <1>8, <3>1, <3>2, WaitSteps
    <3>4. QED
      BY <3>3 DEF T!Next, T!Engine
  <2>5. QED
    BY <2>1, <2>2, <2>3, <2>4
<1>14. ASSUME php = "next", Q!Sleep(Php) PROVE T!Next \/ UNCHANGED T!vars
  <2>1. /\ pc[Php] = "test" /\ pc'[Php] = "wait" /\ Php \notin slept /\ Q!Refused(Php)
    BY <1>14, <1>t DEF Q!Sleep, RefInv, Slept
  <2>2. PhpPlace = "idle" /\ PhpPlace' \in {"wait", "timed"}
    BY <1>6, <1>14, <2>1 DEF PhpPlace
  <2>3. Items = <<>>
    BY <1>3, <1>9, <2>1 DEF Q!Refused, Q!Empty
  <2>4. Open
    BY <1>3, <1>14 DEF Open
  <2>5. T!Next_Wait(request)
    BY <1>6, <1>8, <2>2, <2>3, <2>4, WaitSteps
  <2>6. QED
    BY <2>5 DEF T!Next, T!Script
<1>15. ASSUME php = "next", Q!SpuriousWake(Php) PROVE T!Next \/ UNCHANGED T!vars
  <2>1. pc[Php] = "wait" /\ pc'[Php] = "woken" /\ SpuriousWakeups /\ call' = call
    BY <1>15, <1>t DEF Q!SpuriousWake
  <2>2. CASE call[Php].wait = "timed"
    <3>1. PhpPlace = "timed" /\ PhpPlace' = "timed"
      BY <1>6, <1>15, <2>1, <2>2 DEF PhpPlace
    <3>2. QED
      BY <1>6, <1>8, <3>1, Stutter
  <2>3. CASE call[Php].wait # "timed"
    <3>1. PhpPlace = "wait" /\ PhpPlace' = "woken"
      BY <1>6, <1>15, <2>1, <2>3 DEF PhpPlace
    <3>2. T!SpuriousNextWake
      BY <1>6, <1>8, <2>1, <3>1, WaitSteps
    <3>3. QED
      BY <3>2 DEF T!Next
  <2>4. QED
    BY <2>2, <2>3
<1>16. QED
  BY <1>1, <1>4, <1>10, <1>11, <1>12, <1>13, <1>14, <1>15

(* Storing the event is the push, and wakes the script if it waits. *)
LEMMA StorePushes ==
  ASSUME RefInv, Push_Store
  PROVE  T!Push(request)
<1>t. /\ DOMAIN pc = {Sdk, Php} /\ DOMAIN call = {Sdk, Php}
      /\ Q!Threads = {Sdk, Php} /\ Sdk # Php
  BY Domains DEF RefInv
<1>1. /\ Q!Store(Sdk) /\ pc[Sdk] = "copy" /\ Q!SignalAndUnlock(Sdk, "pop")
      /\ call' = [call EXCEPT ![Sdk].ret = TRUE]
      /\ UNCHANGED <<finished, sent, final, handler, mem, php, got, told, slept>>
  BY DEF Push_Store, Q!Store, sdk, engine
<1>2. handler = "push" /\ call[Sdk].arg = Event /\ mem = "live"
  BY <1>1, Calling
<1>3. Len(Items) < Capacity /\ Items' = Append(Items, Event)
  <2>1. P!Store(Sdk)
    BY <1>1, SameActions
  <2>2. nelts < Capacity /\ P!Items' = Append(P!Items, call[Sdk].arg)
    BY <2>1, P!StoreAppends, AssumptionsOfQueue, SameQueue DEF RefInv
  <2>3. QED
    BY <1>2, <2>2, ItemsAreEvents DEF Items, RefInv
<1>4. HandlerPlace \in {"push", "woken"}
  BY <1>1, <1>2 DEF HandlerPlace
<1>5. Sdk \notin Q!BlockedOn("pop")
  BY <1>1 DEF Q!BlockedOn, Q!Asleep
<1>6. HandlerPlace' = "idle"
  <2>1. pc'[Sdk] = "unlock"
    BY <1>1, <1>5, SignalOne DEF RefInv
  <2>2. QED
    BY <1>1, <1>2, <2>1 DEF HandlerPlace
<1>7. PhpPlace' = IF PhpPlace = "wait" THEN "woken" ELSE PhpPlace
  <2>1. call'[Php] = call[Php]
    BY <1>1, <1>t
  <2>2. CASE php = "next" /\ pc[Php] = "wait"
    <3>1. call[Php].op = "pop"
      BY <2>2, Calling
    <3>2. waiters["pop"] > 0 /\ Q!BlockedOn("pop") # {}
      BY <2>2, <3>1, SleeperCounted
    <3>3. PICK u \in Q!BlockedOn("pop") : pc' = [pc EXCEPT ![Sdk] = "unlock", ![u] = "woken"]
      BY <1>1, <3>2 DEF Q!SignalAndUnlock, Q!HasWaiters
    <3>4. u = Php
      BY <1>5, <1>t, <3>3 DEF Q!BlockedOn, Q!Asleep
    <3>5. pc'[Php] = "woken"
      BY <1>t, <3>3, <3>4
    <3>6. PhpPlace = IF call[Php].wait = "timed" THEN "timed" ELSE "wait"
      BY <2>2 DEF PhpPlace
    <3>7. PhpPlace' = IF call[Php].wait = "timed" THEN "timed" ELSE "woken"
      BY <1>1, <2>1, <2>2, <3>5 DEF PhpPlace
    <3>8. QED
      BY <3>6, <3>7
  <2>3. CASE ~(php = "next" /\ pc[Php] = "wait")
    <3>1. php # "next" \/ pc'[Php] = pc[Php]
      BY <1>1, <1>5, <1>t, <2>3, SignalOne DEF RefInv
    <3>2. PhpPlace' = PhpPlace
      BY <1>1, <2>1, <3>1 DEF PhpPlace
    <3>3. PhpPlace # "wait"
      <4>1. php \in {"idle", "next", "sized", "term", "drain", "destroy", "mark"}
        BY DEF RefInv, Counts
      <4>2. QED
        BY <2>3, <4>1 DEF PhpPlace
    <3>4. QED
      BY <3>2, <3>3
  <2>4. QED
    BY <2>2, <2>3
<1>8. Open' <=> Open
  BY <1>1 DEF Open
<1>9. QED
  BY <1>1, <1>2, <1>3, <1>4, <1>6, <1>7, <1>8, PushSteps

(* Fetching the oldest event is the pop, at once or after a wait, and lets *)
(* in the handler if it waits.  The loop of the release fetches nothing.   *)
LEMMA FetchPops ==
  ASSUME RefInv, Next_Fetch
  PROVE  T!Next_Pop(request) \/ T!Next_Woken \/ T!Next_InTime
<1>t. /\ DOMAIN pc = {Sdk, Php} /\ DOMAIN call = {Sdk, Php}
      /\ Q!Threads = {Sdk, Php} /\ Sdk # Php
  BY Domains DEF RefInv
<1>1. /\ Q!Fetch(Php) /\ pc[Php] = "copy" /\ Q!SignalAndUnlock(Php, "push")
      /\ got' = Append(got, data[out].n)
      /\ UNCHANGED <<finished, sent, final, handler, mem, php, told, slept>>
  BY DEF Next_Fetch, Q!Fetch, sdk
<1>2. Items # <<>> /\ data[out] = Head(Items) /\ Items' = Tail(Items) /\ Items \in Seq(Events)
  <2>1. P!Fetch(Php)
    BY <1>1, SameActions
  <2>2. QED
    BY <2>1, P!FetchTakes, AssumptionsOfQueue, SameQueue, ItemsAreEvents DEF Items, RefInv
<1>3. php = "next" /\ mem = "live"
  <2>1. php \in {"next", "term", "drain"} /\ mem = "live"
    BY <1>1, Calling
  <2>2. ~LetGo
    BY <1>2 DEF RefInv, ReleaseInv, Kept, Received, Drained
  <2>3. QED
    BY <2>1, <2>2 DEF LetGo
<1>4. Open /\ (Open' <=> Open)
  BY <1>1, <1>3 DEF Open
<1>5. Php \notin Q!BlockedOn("push")
  BY <1>1 DEF Q!BlockedOn, Q!Asleep
<1>6. PhpPlace \in {"idle", "woken", "timed"} /\ PhpPlace' = "idle"
  <2>1. pc'[Php] = "unlock"
    BY <1>1, <1>5, SignalOne DEF RefInv
  <2>2. QED
    BY <1>1, <1>3, <2>1 DEF PhpPlace
<1>7. HandlerPlace' = IF HandlerPlace = "blocked" THEN "woken" ELSE HandlerPlace
  <2>1. CASE handler = "push" /\ pc[Sdk] = "wait"
    <3>1. call[Sdk].op = "push"
      BY <2>1, Calling
    <3>2. waiters["push"] > 0 /\ Q!BlockedOn("push") # {}
      BY <2>1, <3>1, SleeperCounted
    <3>3. PICK u \in Q!BlockedOn("push") : pc' = [pc EXCEPT ![Php] = "unlock", ![u] = "woken"]
      BY <1>1, <3>2 DEF Q!SignalAndUnlock, Q!HasWaiters
    <3>4. u = Sdk
      BY <1>5, <1>t, <3>3 DEF Q!BlockedOn, Q!Asleep
    <3>5. pc'[Sdk] = "woken"
      BY <1>t, <3>3, <3>4
    <3>6. HandlerPlace = "blocked" /\ HandlerPlace' = "woken"
      BY <1>1, <2>1, <3>5 DEF HandlerPlace
    <3>7. QED
      BY <3>6
  <2>2. CASE ~(handler = "push" /\ pc[Sdk] = "wait")
    <3>1. handler # "push" \/ pc'[Sdk] = pc[Sdk]
      BY <1>1, <1>5, <1>t, <2>2, SignalOne DEF RefInv
    <3>2. HandlerPlace' = HandlerPlace
      BY <1>1, <3>1 DEF HandlerPlace
    <3>3. HandlerPlace # "blocked"
      <4>1. handler \in {"idle", "resolve", "flag", "push"}
        BY DEF RefInv, Counts
      <4>2. QED
        BY <2>2, <4>1 DEF HandlerPlace
    <3>4. QED
      BY <3>2, <3>3
  <2>3. QED
    BY <2>1, <2>2
<1>8. QED
  BY <1>1, <1>2, <1>3, <1>4, <1>6, <1>7, PopSteps

(* Each step of handler and script outside the queue is the step of the    *)
(* same name, or none.                                                     *)
LEMMA OutsideSteps ==
  ASSUME RefInv,
         \/ Callback \/ Resolve \/ Flag \/ Start \/ IsFinished_Size \/ IsFinished_Flag
         \/ Close \/ Destroy
  PROVE  T!Next
<1>1. Items' = Items /\ pc' = pc /\ call' = call /\ slept' = slept
  BY OutsideKeeps
  DEF Callback, Resolve, Flag, Start, IsFinished_Size, IsFinished_Flag, Close, Destroy,
      ring, engine
<1>2. CASE Callback \/ Resolve \/ Flag
  <2>1. /\ PhpPlace' = PhpPlace /\ (Open' <=> Open) /\ mem = "live"
        /\ UNCHANGED <<mem, got, told>>
    BY <1>1, <1>2 DEF Callback, Resolve, Flag, engine, PhpPlace, Open
  <2>2. handler # "push" => pc[Sdk] = "idle"
    BY Calling
  <2>3. CASE Callback
    <3>1. HandlerPlace = "idle" /\ HandlerPlace' = "resolve"
      BY <1>1, <2>3 DEF Callback, HandlerPlace
    <3>2. T!Callback(request)
      BY <1>1, <2>1, <2>3, <3>1, HandlerSteps DEF Callback
    <3>3. QED
      BY <3>2 DEF T!Next
  <2>4. CASE Resolve
    <3>1. HandlerPlace = "resolve" /\ HandlerPlace' = "flag"
      BY <1>1, <2>4 DEF Resolve, HandlerPlace
    <3>2. T!Resolve(request)
      BY <1>1, <2>1, <2>4, <3>1, HandlerSteps DEF Resolve
    <3>3. QED
      BY <3>2 DEF T!Next, T!Handle
  <2>5. CASE Flag
    <3>1. HandlerPlace = "flag" /\ HandlerPlace' = "push"
      BY <1>1, <2>2, <2>5 DEF Flag, HandlerPlace
    <3>2. T!Flag(request)
      BY <1>1, <2>1, <2>5, <3>1, HandlerSteps DEF Flag
    <3>3. QED
      BY <3>2 DEF T!Next, T!Handle
  <2>6. QED
    BY <1>2, <2>3, <2>4, <2>5
<1>3. CASE Start \/ IsFinished_Size \/ IsFinished_Flag \/ Close \/ Destroy
  <2>1. UNCHANGED <<finished, sent, final, handler, got>>
    BY <1>3 DEF Start, IsFinished_Size, IsFinished_Flag, Close, Destroy, sdk
  <2>2. HandlerPlace' = HandlerPlace
    BY <1>1, <2>1 DEF HandlerPlace
  <2>3. Received => finished /\ HandlerPlace = "idle"
    <3>1. Received => handler = "idle"
      <4>1. sent \in Nat
        BY QueuedAssumption DEF RefInv, Counts
      <4>2. QED
        BY <4>1 DEF RefInv, ReleaseInv, Younger, Received
    <3>2. QED
      BY <3>1 DEF Received, RefInv, FieldsTyped, HandlerPlace
  <2>4. CASE Start
    <3>1. /\ PhpPlace = "idle" /\ PhpPlace' = "idle" /\ mem = "none" /\ mem' = "live"
          /\ Open' /\ told' = told
      BY <1>1, <2>4 DEF Start, PhpPlace, Open
    <3>2. T!Start(request)
      BY <1>1, <2>1, <2>2, <3>1, ScriptSteps
    <3>3. QED
      BY <3>2 DEF T!Next, T!Script
  <2>5. CASE IsFinished_Size
    <3>1. /\ PhpPlace = "idle" /\ PhpPlace' = "sized" /\ Open /\ Open' /\ nelts = 0
          /\ mem' = mem /\ told' = told
      BY <1>1, <2>5 DEF IsFinished_Size, PhpPlace, Open
    <3>2. Items = <<>>
      BY <3>1, ItemsAreEvents DEF RefInv
    <3>3. T!IsFinished_Size(request)
      BY <1>1, <2>1, <2>2, <3>1, <3>2, ScriptSteps
    <3>4. QED
      BY <3>3 DEF T!Next, T!Script
  <2>6. CASE IsFinished_Flag
    <3>1. /\ PhpPlace = "sized" /\ PhpPlace' = "idle" /\ (Open' <=> Open)
          /\ mem' = mem /\ (told' <=> told \/ finished)
      BY <1>1, <2>6 DEF IsFinished_Flag, PhpPlace, Open
    <3>2. T!IsFinished_Flag
      BY <1>1, <2>1, <2>2, <3>1, ScriptSteps
    <3>3. QED
      BY <3>2 DEF T!Next, T!Engine
  <2>7. CASE Close
    <3>1. /\ PhpPlace = "idle" /\ Open /\ Received /\ mem' = mem /\ told' = told
          /\ php' = IF finished THEN "term" ELSE "mark"
      BY <1>1, <2>7 DEF Close, PhpPlace, Open
    <3>2. finished /\ PhpPlace' = "free" /\ ~Open'
      BY <2>3, <3>1 DEF PhpPlace, Open
    <3>3. T!Close(request)
      BY <1>1, <2>1, <2>2, <3>1, <3>2, ScriptSteps
    <3>4. QED
      BY <3>3 DEF T!Next, T!Script
  <2>8. CASE Destroy
    <3>1. Received
      BY <2>8 DEF Destroy, RefInv, ReleaseInv, Kept, LetGo
    <3>2. /\ PhpPlace = "free" /\ PhpPlace' = "idle" /\ (Open' <=> Open)
          /\ mem' = "freed" /\ told' = told
      BY <1>1, <2>8 DEF Destroy, PhpPlace, Open
    <3>3. T!Release
      BY <1>1, <2>1, <2>2, <2>3, <3>1, <3>2, ScriptSteps
    <3>4. QED
      BY <3>3 DEF T!Next, T!Engine
  <2>9. QED
    BY <1>3, <2>4, <2>5, <2>6, <2>7, <2>8
<1>4. QED
  BY <1>2, <1>3

(* Entering a queue function, and leaving it, is no step of TonRequest.    *)
LEMMA DoorsStutter ==
  ASSUME RefInv,
         \/ Push_Enter \/ Push_Leave \/ Next_Enter \/ Next_Leave
         \/ Term_Enter \/ Term_Leave \/ Drain_Enter \/ Drain_Leave
  PROVE  UNCHANGED T!vars
<1>t. /\ DOMAIN pc = {Sdk, Php} /\ DOMAIN call = {Sdk, Php}
      /\ Q!Threads = {Sdk, Php} /\ Sdk # Php
  BY Domains DEF RefInv
<1>1. Items' = Items /\ UNCHANGED <<mem, finished, sent, final, got, told>>
  <2>1. UNCHANGED <<data, nelts, out>>
    BY DEF Push_Enter, Push_Leave, Next_Enter, Next_Leave, Term_Enter, Term_Leave, Drain_Enter,
           Drain_Leave, Leave, Q!Enter, Q!Unlock, Q!Return, Q!ring
  <2>2. UNCHANGED <<mem, finished, sent, final, got, told>>
    BY DEF Push_Enter, Push_Leave, Next_Enter, Next_Leave, Term_Enter, Term_Leave, Drain_Enter,
           Drain_Leave, sdk, engine
  <2>3. QED
    BY <2>1, <2>2 DEF Items, P!Items, P!Wrap
<1>2. CASE Push_Enter \/ Push_Leave
  <2>1. /\ pc'[Php] = pc[Php] /\ call'[Php] = call[Php] /\ php' = php
        /\ Php \in slept' <=> Php \in slept
    BY <1>2, <1>t DEF Push_Enter, Push_Leave, Leave, Q!Enter, Q!Unlock, Q!Return, engine
  <2>2. PhpPlace' = PhpPlace /\ (Open' <=> Open)
    BY <1>1, <2>1 DEF PhpPlace, Open
  <2>3. CASE Push_Enter
    <3>1. /\ handler = "push" /\ handler' = "push" /\ pc[Sdk] = "idle"
          /\ pc'[Sdk] = IF terminated /\ call'[Sdk].op \in {"push", "pop"} THEN "return" ELSE "lock"
      BY <2>3, <1>t DEF Push_Enter, Q!Enter, sdk
    <3>2. pc'[Sdk] = "lock"
      BY <3>1, HandlerKeepsRequest
    <3>3. HandlerPlace = "push" /\ HandlerPlace' = "push"
      BY <3>1, <3>2 DEF HandlerPlace
    <3>4. QED
      BY <1>1, <2>2, <3>3, Stutter
  <2>4. CASE Push_Leave
    <3>1. pc[Sdk] \in {"unlock", "return"} /\ handler' = "idle"
      BY <2>4 DEF Push_Leave, Leave, Q!Unlock, Q!Return
    <3>2. handler = "push"
      BY <3>1, Calling
    <3>3. HandlerPlace = "idle" /\ HandlerPlace' = "idle"
      BY <3>1, <3>2 DEF HandlerPlace
    <3>4. QED
      BY <1>1, <2>2, <3>3, Stutter
  <2>5. QED
    BY <1>2, <2>3, <2>4
<1>3. CASE \/ Next_Enter \/ Next_Leave
           \/ Term_Enter \/ Term_Leave \/ Drain_Enter \/ Drain_Leave
  <2>1. /\ pc'[Sdk] = pc[Sdk] /\ handler' = handler
        /\ Sdk \in slept' <=> Sdk \in slept
    BY <1>3, <1>t
    DEF Next_Enter, Next_Leave, Term_Enter, Term_Leave, Drain_Enter, Drain_Leave, Leave,
        Q!Enter, Q!Unlock, Q!Return, sdk, engine
  <2>2. HandlerPlace' = HandlerPlace
    BY <2>1 DEF HandlerPlace
  <2>3. /\ pc[Php] \in {"idle", "unlock", "return"} /\ pc'[Php] \in {"idle", "lock", "return"}
        /\ \/ php \in {"idle", "next"} /\ php' \in {"idle", "next"}
           \/ php \in {"term", "drain"} /\ php' \in {"term", "drain", "destroy"}
    BY <1>3, <1>t
    DEF Next_Enter, Next_Leave, Term_Enter, Term_Leave, Drain_Enter, Drain_Leave, Leave,
        Q!Enter, Q!Unlock, Q!Return, engine
  <2>4. PhpPlace' = PhpPlace
    BY <2>3 DEF PhpPlace
  <2>5. Open' <=> Open
    BY <1>1, <2>3 DEF Open
  <2>6. QED
    BY <1>1, <2>2, <2>4, <2>5, Stutter
<1>4. QED
  BY <1>2, <1>3

(* Each step of the request is a step of TonRequest or none. *)
LEMMA StepImplements == RefInv /\ [Next]_vars => [T!Next]_(T!vars)
<1> SUFFICES ASSUME RefInv, [Next]_vars PROVE T!Next \/ UNCHANGED T!vars
  OBVIOUS
<1>1. CASE \/ Callback \/ Resolve \/ Flag \/ Start \/ IsFinished_Size \/ IsFinished_Flag
           \/ Close \/ Destroy
  BY <1>1, OutsideSteps
<1>2. CASE \/ Push_Enter \/ Push_Leave \/ Next_Enter \/ Next_Leave
           \/ Term_Enter \/ Term_Leave \/ Drain_Enter \/ Drain_Leave
  BY <1>2, DoorsStutter
<1>3. CASE Push_Store
  BY <1>3, StorePushes DEF T!Next, T!Handle
<1>4. CASE Next_Fetch
  BY <1>4, FetchPops DEF T!Next, T!Engine, T!Script
<1>5. ASSUME NEW t \in {Sdk, Php}, Running(t) \/ Sleep(t) \/ SpuriousWake(t)
      PROVE  T!Next \/ UNCHANGED T!vars
  <2>1. CASE t = Sdk
    BY <1>5, <2>1, SdkInside
  <2>2. CASE t = Php
    BY <1>5, <2>2, PhpInside
  <2>3. QED
    BY <2>1, <2>2
<1>6. CASE UNCHANGED vars
  <2>1. UNCHANGED ring /\ UNCHANGED <<handler, php, slept, mem, finished, sent, final, got, told>>
    BY <1>6 DEF vars, sdk, engine
  <2>2. Items' = Items
    BY <2>1, OutsideKeeps
  <2>3. HandlerPlace' = HandlerPlace /\ PhpPlace' = PhpPlace /\ (Open' <=> Open)
    BY <2>1 DEF HandlerPlace, PhpPlace, Open, ring
  <2>4. QED
    BY <2>1, <2>2, <2>3, Stutter
<1>7. QED
  BY <1>1, <1>2, <1>3, <1>4, <1>5, <1>6 DEF Next, Handle, Engine, Script

(* Before the request is created TonRequest has none either. *)
LEMMA InitImplements == Init => T!Init
<1> SUFFICES ASSUME Init PROVE T!Init
  OBVIOUS
<1>1. /\ nelts = 0 /\ handler = "idle" /\ php = "idle" /\ mem = "none" /\ finished = FALSE
      /\ sent = 0 /\ final = FALSE /\ got = <<>> /\ told = FALSE
  BY DEF Init, Q!Init
<1>2. Q!Items = <<>>
  BY <1>1 DEF Q!Items
<1>3. HandlerPlace = "idle" /\ PhpPlace = "idle" /\ ~Open
  BY <1>1 DEF HandlerPlace, PhpPlace, Open
<1>4. QED
  BY <1>1, <1>2, <1>3 DEF T!Init, T!Quiet, T!Idle

(* With the steps of rpa_queue.c inside, and those of the other thread in  *)
(* between, the request behaves as if each push and each pop were one      *)
(* step, which is what TonRequest takes for granted.                       *)
THEOREM QueuedImplements == Spec => ImplementsTonRequest
<1>1. Init => Counts /\ ReleaseInv /\ DeadlineKept /\ FieldsTyped /\ Within /\ Slept
  <2>1. Init => DeadlineKept
    BY DEF Init, Q!Init, DeadlineKept, Q!Threads
  <2>2. QED
    BY <2>1, InitCounts, InitRelease, InitFields, InitWithin
<1>2. /\ P!Inv /\ Counts /\ ReleaseInv /\ DeadlineKept /\ FieldsTyped /\ Within /\ Slept
      /\ [Next]_vars
      => Counts' /\ ReleaseInv' /\ DeadlineKept' /\ FieldsTyped' /\ Within' /\ Slept'
  BY NextCounts, NextRelease, NextDeadlineKept, NextFields, NextWithin, NextSlept
<1>3. /\ P!Inv /\ Counts /\ ReleaseInv /\ FieldsTyped /\ Within /\ Slept /\ [Next]_vars
      => [T!Next]_(T!vars)
  BY StepImplements DEF RefInv
<1>4. QED
  BY <1>1, <1>2, <1>3, InitImplements, QueueInvariant, PTL
  DEF Spec, ImplementsTonRequest, T!Spec
=============================================================================
