---------------------------- MODULE QueuedRequest ----------------------------
(***************************************************************************)
(* One request with the queue inside it: response_queueing_handler on an   *)
(* SDK thread and the functions of ton_client.c on the PHP thread, calling *)
(* rpa_queue.c step by step.  RpaQueue is the queue; this module is its    *)
(* two callers, and adds the deadline of a bounded wait and the release of *)
(* the request in full.  TonRequest, where a queue operation is one step,  *)
(* is shown to be implemented by it.                                       *)
(*                                                                         *)
(* The script asks for events until it has received the last one and then  *)
(* lets go of the request.                                                 *)
(***************************************************************************)
EXTENDS Deadline, Sequences, Functions

CONSTANTS
  Sdk, Php,     (* the two threads                                          *)
  request,      (* the request                                              *)
  Capacity,     (* CALLBACK_QUEUE_CAPACITY                                  *)
  MaxEvents,    (* bounds the events                                        *)
  Timeouts,     (* what the script passes to ton_request_next; -1, the      *)
                (* default, stands for a call without a timeout             *)
  Clocks,       (* what get_current_timespec may return                     *)
  SpuriousWakeups, LateTimeouts, Nobody, NoValue, NULL

ASSUME QueuedAssumption ==
  /\ Capacity \in Nat \ {0} /\ MaxEvents \in Nat
  /\ SpuriousWakeups \in BOOLEAN /\ LateTimeouts \in BOOLEAN
  /\ Sdk # Php /\ Nobody \notin {Sdk, Php} /\ request # NULL
  /\ Timeouts \subseteq Int /\ Clocks \subseteq Timespecs

VARIABLES
  data, nelts, in, out, waiters, terminated, owner, pc, call,  (* the queue *)
  mem, finished,  (* the request data                                       *)
  sent, final,    (* what the SDK has delivered to the handler              *)
  handler,        (* "idle", "resolve", "flag" or "push"                    *)
  php,            (* the function the PHP thread is in                      *)
  asked,          (* the timeout of the present ton_request_next            *)
  abstime,        (* the deadline of its wait and when it was computed      *)
  got,            (* the numbers of the events the script has received      *)
  told,           (* has is_ton_request_finished returned true?             *)
  slept           (* history: threads whose present queue call has slept    *)

Events == [data : {request}, n : 1 .. MaxEvents, finished : BOOLEAN]
ASSUME ValueAssumption == NoValue \notin Events

Q == INSTANCE RpaQueue WITH
       Producers <- {Sdk}, Consumers <- {Php}, Controllers <- {Php}, Values <- Events

ring == <<data, nelts, in, out, waiters, terminated, owner, pc, call>>
sdk == <<sent, final, handler>>
engine == <<mem, php, asked, abstime, got, told>>
vars == <<ring, finished, sdk, engine, slept>>

NoDeadline == [now |-> [sec |-> 0, nsec |-> 0], due |-> [sec |-> 0, nsec |-> 0]]

Init ==
  /\ Q!Init
  /\ mem = "none" /\ finished = FALSE
  /\ sent = 0 /\ final = FALSE /\ handler = "idle"
  /\ php = "idle" /\ asked = 0 /\ abstime = NoDeadline
  /\ got = <<>> /\ told = FALSE /\ slept = {}

-----------------------------------------------------------------------------
(* Inside a queue function.  Returning from it is left to its caller.      *)

Running(t) ==
  /\ \/ Q!Lock(t) \/ Q!Accept(t) \/ Q!GiveUp(t) \/ Q!Timeout(t) \/ Q!Reacquire(t)
     \/ Q!SetTerminated(t) \/ Q!Drop(t) \/ Q!Broadcast(t)
  /\ UNCHANGED <<finished, sdk, engine, slept>>

SpuriousWake(t) ==
  /\ Q!SpuriousWake(t)
  /\ UNCHANGED <<finished, sdk, engine, slept>>

(* A pop with a bounded wait reads the clock as it goes to sleep; a push   *)
(* of the handler waits for ever.                                          *)
Sleep(t) ==
  /\ Q!Sleep(t)
  /\ slept' = slept \cup {t}
  /\ IF call[t].wait = "timed"
       THEN \E now \in Clocks :
              abstime' = [now |-> now, due |-> get_future_timespec(now, Narrow(asked))]
       ELSE UNCHANGED abstime
  /\ UNCHANGED <<finished, sdk, mem, php, asked, got, told>>

Leave(t) == (Q!Unlock(t) \/ Q!Return(t)) /\ slept' = slept \ {t}

-----------------------------------------------------------------------------
(* response_queueing_handler. *)

Callback ==
  /\ handler = "idle" /\ mem = "live"
  /\ ~final /\ sent < MaxEvents
  /\ sent' = sent + 1
  /\ final' \in BOOLEAN
  /\ handler' = "resolve"
  /\ UNCHANGED <<ring, finished, engine, slept>>

Resolve ==
  /\ handler = "resolve" /\ mem = "live"
  /\ handler' = "flag"
  /\ UNCHANGED <<ring, finished, sent, final, engine, slept>>

Flag ==
  /\ handler = "flag" /\ mem = "live"
  /\ finished' = final
  /\ handler' = "push"
  /\ UNCHANGED <<ring, sent, final, engine, slept>>

Event == [data |-> request, n |-> sent, finished |-> final]

Push_Enter ==
  /\ handler = "push" /\ mem = "live"
  /\ Q!Enter(Sdk)
  /\ call'[Sdk] = [op |-> "push", wait |-> "forever", arg |-> Event, ret |-> FALSE]
  /\ UNCHANGED <<finished, sdk, engine, slept>>

Push_Store ==
  /\ Q!Store(Sdk)
  /\ UNCHANGED <<finished, sdk, engine, slept>>

Push_Leave ==
  /\ Leave(Sdk)
  /\ handler' = "idle"
  /\ UNCHANGED <<finished, sent, final, engine>>

-----------------------------------------------------------------------------
(* The script, on the PHP thread. *)

Start ==
  /\ php = "idle" /\ mem = "none"
  /\ mem' = "live"
  /\ UNCHANGED <<ring, finished, sdk, php, asked, abstime, got, told, slept>>

Open == mem = "live" /\ php \in {"idle", "next", "sized"}
Received == final /\ sent \in Range(got)

PopCall(wait) == [op |-> "pop", wait |-> wait, arg |-> NoValue, ret |-> FALSE]

Next_Enter ==
  /\ php = "idle" /\ mem = "live"
  /\ asked' \in Timeouts
  /\ Q!Enter(Php)
  /\ call'[Php] = PopCall(WaitFor(Narrow(asked')))
  /\ php' = "next"
  /\ UNCHANGED <<mem, finished, sdk, abstime, got, told, slept>>

Next_Fetch ==
  /\ Q!Fetch(Php)
  /\ got' = Append(got, data[out].n)
  /\ UNCHANGED <<mem, finished, sdk, php, asked, abstime, told, slept>>

Next_Leave ==
  /\ php = "next"
  /\ Leave(Php)
  /\ php' = "idle" /\ asked' = 0 /\ abstime' = NoDeadline
  /\ UNCHANGED <<mem, finished, sdk, got, told>>

(* is_ton_request_finished reads the size without the mutex. *)
IsFinished_Size ==
  /\ php = "idle" /\ mem = "live"
  /\ nelts = 0
  /\ php' = "sized"
  /\ UNCHANGED <<ring, finished, sdk, mem, asked, abstime, got, told, slept>>

IsFinished_Flag ==
  /\ php = "sized"
  /\ told' = (told \/ finished)
  /\ php' = "idle"
  /\ UNCHANGED <<ring, finished, sdk, mem, asked, abstime, got, slept>>

-----------------------------------------------------------------------------
(* ton_resource_destructor, for a request that is finished: terminate the  *)
(* queue, pop until a pop fails, destroy, free.                            *)

Close ==
  /\ php = "idle" /\ mem = "live"
  /\ Received
  /\ php' = IF finished THEN "term" ELSE "mark"
  /\ UNCHANGED <<ring, finished, sdk, mem, asked, abstime, got, told, slept>>

Term_Enter ==
  /\ php = "term"
  /\ Q!Enter(Php)
  /\ call'[Php] = [op |-> "term", wait |-> "none", arg |-> NoValue, ret |-> FALSE]
  /\ UNCHANGED <<finished, sdk, engine, slept>>

Term_Leave ==
  /\ php = "term"
  /\ Leave(Php)
  /\ php' = "drain"
  /\ UNCHANGED <<mem, finished, sdk, asked, abstime, got, told>>

Drain_Enter ==
  /\ php = "drain"
  /\ Q!Enter(Php)
  /\ call'[Php] = PopCall("none")
  /\ UNCHANGED <<finished, sdk, engine, slept>>

Drain_Leave ==
  /\ php = "drain"
  /\ php' = IF call[Php].ret THEN "drain" ELSE "destroy"
  /\ Leave(Php)
  /\ UNCHANGED <<mem, finished, sdk, asked, abstime, got, told>>

Destroy ==
  /\ php = "destroy"
  /\ mem' = "freed"
  /\ php' = "idle"
  /\ UNCHANGED <<ring, finished, sdk, asked, abstime, got, told, slept>>

-----------------------------------------------------------------------------
Handle == Resolve \/ Flag \/ Push_Enter \/ Push_Store \/ Push_Leave

Engine ==
  \/ Next_Fetch \/ Next_Leave \/ IsFinished_Flag
  \/ Term_Enter \/ Term_Leave \/ Drain_Enter \/ Drain_Leave \/ Destroy

Script == Start \/ Next_Enter \/ IsFinished_Size \/ Close

Next ==
  \/ Callback \/ Handle \/ Engine \/ Script
  \/ \E t \in {Sdk, Php} : Running(t) \/ Sleep(t) \/ SpuriousWake(t)

Spec == Init /\ [][Next]_vars

(* Both threads are scheduled and get the mutex if they keep asking for    *)
(* it, a deadline passes, and the script goes on asking for events besides *)
(* whatever else it does.                                                  *)
Fairness ==
  /\ WF_vars(Handle) /\ WF_vars(Engine) /\ SF_vars(Next_Enter)
  /\ \A t \in {Sdk, Php} : SF_vars(Running(t)) /\ WF_vars(Sleep(t))

FairSpec == Spec /\ Fairness

-----------------------------------------------------------------------------
(* Properties *)

(* The queue keeps its types under these callers, a careful script never   *)
(* finds the request it lets go of unfinished (php = "mark"), and each     *)
(* thread is inside the queue only where its caller waits for it.          *)
TypeOK ==
  /\ Q!TypeOK
  /\ mem \in {"none", "live", "freed"} /\ finished \in BOOLEAN
  /\ sent \in 0 .. MaxEvents /\ final \in BOOLEAN
  /\ handler \in {"idle", "resolve", "flag", "push"}
  /\ php \in {"idle", "next", "sized", "term", "drain", "destroy"}
  /\ asked \in Int
  /\ abstime \in [now : Timespecs, due : [sec : Int, nsec : Int]]
  /\ got \in Seq(1 .. MaxEvents) /\ told \in BOOLEAN
  /\ slept \in SUBSET {Sdk, Php}
  /\ pc[Sdk] # "idle" => handler = "push"
  /\ pc[Php] # "idle" => php \in {"next", "term", "drain"}

(* When rpa_queue_destroy and free take the queue away (ton_client.c:87),  *)
(* no thread is inside a queue function, the mutex is free, and no element *)
(* is left: the SDK thread that pushed the last event is out of            *)
(* rpa_queue_push although nothing but the mutex made the script wait.     *)
QueueReleasedQuiet ==
  mem = "freed" \/ php = "destroy" =>
    /\ handler = "idle" /\ \A t \in {Sdk, Php} : pc[t] = "idle"
    /\ owner = Nobody /\ nelts = 0

(* A timeout an int holds is kept to the millisecond: the deadline of a    *)
(* bounded wait is that long after the clock was read, and one that is not *)
(* negative gives a timespec that pthread_cond_timedwait accepts           *)
(* (get_future_timespec, with the carry at rpa_queue.c:104).               *)
DeadlineExact ==
  pc[Php] = "wait" /\ call[Php].wait = "timed" /\ asked \in Ints =>
    /\ IsAfter(abstime.due, abstime.now, asked)
    /\ asked >= 0 => abstime.due \in Timespecs

(* Where TonRequest says the two threads are.  A push or a pop takes       *)
(* effect under the mutex: it stores or fetches, goes to sleep, or fails   *)
(* after it slept.                                                         *)
HandlerPlace ==
  IF handler # "push" THEN handler
  ELSE IF pc[Sdk] = "wait" THEN "blocked"
  ELSE IF pc[Sdk] = "woken" \/ (pc[Sdk] = "copy" /\ Sdk \in slept) THEN "woken"
  ELSE IF pc[Sdk] \in {"unlock", "return"} THEN "idle"
  ELSE "push"

PhpPlace ==
  IF php \in {"term", "drain", "destroy"} THEN "free"
  ELSE IF php # "next" THEN php
  ELSE IF pc[Php] \notin {"wait", "woken"} /\ ~(pc[Php] = "copy" /\ Php \in slept)
    THEN "idle"
  ELSE IF call[Php].wait = "timed" THEN "timed"
  ELSE IF pc[Php] = "wait" THEN "wait" ELSE "woken"

(* With the queue's own steps in between, the request still behaves as if  *)
(* each push and each pop were one step: what TonRequest takes for granted *)
(* of rpa_queue.c.                                                         *)
T == INSTANCE TonRequest WITH
       Requests <- {request}, Policy <- {"ask", "block"}, TonDebug <- FALSE,
       mem <- [r \in {request} |-> mem],
       finished <- [r \in {request} |-> finished],
       unused <- [r \in {request} |-> FALSE],
       joined_to <- [r \in {request} |-> NULL],
       queue <- [r \in {request} |-> Q!Items],
       sent <- [r \in {request} |-> sent],
       final <- [r \in {request} |-> final],
       handler <- [r \in {request} |->
                     [pc |-> HandlerPlace,
                      data |-> IF HandlerPlace = "idle" THEN NULL ELSE request]],
       open <- IF Open THEN {request} ELSE {},
       unused_requests <- {}, nodes <- {},
       php <- [pc |-> PhpPlace, request |-> IF PhpPlace = "idle" THEN NULL ELSE request],
       phase <- "script",
       got <- [r \in {request} |-> got],
       told <- IF told THEN {request} ELSE {}
ImplementsTonRequest == T!Spec

(* An event queued while the script is anywhere between its test for an   *)
(* empty queue and the end of its wait still reaches it: the handler's     *)
(* signal (rpa_queue.c:242) finds it asleep, or its test finds the event.  *)
EventsReachScript ==
  \A e \in Events : (e \in Range(Q!Items)) ~> (e.n \in Range(got))
=============================================================================
