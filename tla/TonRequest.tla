----------------------------- MODULE TonRequest -----------------------------
(***************************************************************************)
(* ton_client.c in a non-thread-safe build: one PHP thread runs scripts    *)
(* one after another; the SDK delivers the events of a request by calling  *)
(* response_queueing_handler on a thread of its own, one call at a time    *)
(* per request, the last one with finished = true.  Both sides share the   *)
(* ton_request_data_t of the request without a lock; only the queue inside *)
(* it has one (module RpaQueue), so each queue operation is one step here. *)
(*                                                                         *)
(* A step that would follow a pointer to released memory, or NULL, has no  *)
(* successor: HandlerSafe, ElementsSafe and CleanupSafe say that none is   *)
(* ever next.                                                              *)
(*                                                                         *)
(* last_status, written beside finished and only handed on to PHP, and the *)
(* JSON of an event are left out.                                          *)
(***************************************************************************)
EXTENDS Integers, FiniteSets, Sequences, Functions

CONSTANTS
  Requests,         (* the requests the scripts may start                   *)
  Capacity,         (* CALLBACK_QUEUE_CAPACITY                              *)
  MaxEvents,        (* bounds the events of one request                     *)
  Policy,           (* what the scripts do: "join", "disconnect", "ask"     *)
                    (* (call is_ton_request_finished), "poll" (close when   *)
                    (* it says so), "abandon" (close at any time), "leave"  *)
                    (* (end with resources still open), "block" (wait       *)
                    (* without a timeout)                                   *)
  SpuriousWakeups,  (* may pthread_cond_wait return without a signal?       *)
  TonDebug,         (* is TON_DEBUG defined?                                *)
  NULL

ASSUME RequestAssumption ==
  /\ Capacity \in Nat \ {0} /\ MaxEvents \in Nat
  /\ IsFiniteSet(Requests) /\ NULL \notin Requests
  /\ SpuriousWakeups \in BOOLEAN /\ TonDebug \in BOOLEAN

VARIABLES
  (* the request data, shared *)
  mem,              (* "none", "live" or "freed"                            *)
  finished, unused, joined_to, queue,
  (* the SDK and the handler it calls *)
  sent,             (* events delivered to the handler                      *)
  final,            (* was the last of them the last of all?                *)
  handler,          (* where the handler is, and whose data it works on     *)
  (* the PHP thread *)
  open,             (* the resources the script holds                       *)
  unused_requests,  (* what the list leads to                               *)
  nodes,            (* the requests whose node in the list is allocated     *)
  php,              (* where the thread is, and in which request            *)
  phase,            (* "script", "cleaning" (RSHUTDOWN) or "closing"        *)
  (* what the script has been told *)
  got,              (* numbers of the events received, per request          *)
  told              (* requests is_ton_request_finished returned true for   *)

shared == <<mem, finished, unused, joined_to, queue>>
sdk == <<sent, final, handler>>
engine == <<open, unused_requests, nodes, php, phase>>
script == <<got, told>>
vars == <<shared, sdk, engine, script>>

Quiet == [pc |-> "idle", data |-> NULL]
Idle == [pc |-> "idle", request |-> NULL]

Init ==
  /\ mem = [r \in Requests |-> "none"]
  /\ finished = [r \in Requests |-> FALSE]
  /\ unused = [r \in Requests |-> FALSE]
  /\ joined_to = [r \in Requests |-> NULL]
  /\ queue = [r \in Requests |-> <<>>]
  /\ sent = [r \in Requests |-> 0]
  /\ final = [r \in Requests |-> FALSE]
  /\ handler = [r \in Requests |-> Quiet]
  /\ open = {} /\ unused_requests = {} /\ nodes = {}
  /\ php = Idle /\ phase = "script"
  /\ got = [r \in Requests |-> <<>>]
  /\ told = {}

Live(r) == r # NULL /\ mem[r] = "live"

-----------------------------------------------------------------------------
(* response_queueing_handler, called for request r.  It looks at unused    *)
(* once, at the start.                                                     *)

Callback(r) ==
  /\ handler[r].pc = "idle" /\ Live(r)
  /\ ~final[r] /\ sent[r] < MaxEvents
  /\ sent' = [sent EXCEPT ![r] = @ + 1]
  /\ \E last \in BOOLEAN : final' = [final EXCEPT ![r] = last]
  /\ handler' = [handler EXCEPT ![r] =
                   [pc |-> IF unused[r] THEN "discard" ELSE "resolve", data |-> r]]
  /\ UNCHANGED <<shared, engine, script>>

(* The handler writes what the SDK said into the data it works on. *)
SetFinishedUnlessUnused(r) ==
  finished' = IF unused[r] THEN finished
              ELSE [finished EXCEPT ![handler[r].data] = final[r]]
SetFinished(r) == finished' = [finished EXCEPT ![handler[r].data] = final[r]]

Discard(r) ==
  /\ handler[r].pc = "discard" /\ Live(r)
  /\ SetFinished(r)
  /\ handler' = [handler EXCEPT ![r] = Quiet]
  /\ UNCHANGED <<mem, unused, joined_to, queue, sent, final, engine, script>>

(* "if (data->joined_to) data = data->joined_to": the second read is a     *)
(* step of its own, which an optimising compiler may leave out.            *)
Resolve(r) ==
  /\ handler[r].pc = "resolve" /\ Live(r)
  /\ handler' = [handler EXCEPT ![r] =
                   IF joined_to[r] = NULL THEN [pc |-> "flag", data |-> r]
                   ELSE [pc |-> "follow", data |-> joined_to[r]]]
  /\ UNCHANGED <<shared, sent, final, engine, script>>

Follow(r) ==
  /\ handler[r].pc = "follow" /\ Live(r)
  /\ \E d \in {handler[r].data, joined_to[r]} :
       handler' = [handler EXCEPT ![r] = [pc |-> "flag", data |-> d]]
  /\ UNCHANGED <<shared, sent, final, engine, script>>

(* finished is set before the event that carries it is in the queue. *)
Flag(r) ==
  /\ handler[r].pc = "flag" /\ Live(handler[r].data)
  /\ SetFinished(r)
  /\ handler' = [handler EXCEPT ![r].pc = "push"]
  /\ UNCHANGED <<mem, unused, joined_to, queue, sent, final, engine, script>>

Event(r) == [data |-> r, n |-> sent[r], finished |-> final[r]]

HasRoomForOneMore(q) == Len(queue[q]) <= Capacity
HasRoom(q) == Len(queue[q]) < Capacity

(* Once the event is queued the handler returns without another look at    *)
(* the data, except that a debug build prints the size of the queue.       *)
QueuedThenFinished(r) == [handler EXCEPT ![r] = [pc |-> "discard", data |-> r]]
Queued(r) ==
  IF TonDebug THEN [handler EXCEPT ![r].pc = "report"] ELSE [handler EXCEPT ![r] = Quiet]

(* A push that finds no room sleeps; when it is woken and finds none       *)
(* again, it fails, and nobody looks at its result.                        *)
NotQueuedNotWaiting(r) == [handler EXCEPT ![r] = Quiet]
NotQueued(r) ==
  IF handler[r].pc = "push" THEN [handler EXCEPT ![r].pc = "blocked"]
  ELSE [handler EXCEPT ![r] = Quiet]

Push(r) ==
  LET q == handler[r].data IN
  /\ handler[r].pc \in {"push", "woken"} /\ Live(q)
  /\ \/ /\ HasRoom(q)
        /\ queue' = [queue EXCEPT ![q] = Append(@, Event(r))]
        /\ handler' = Queued(r)
        /\ php' = IF php.pc = "wait" /\ php.request = q
                    THEN [php EXCEPT !.pc = "woken"] ELSE php
     \/ /\ ~HasRoom(q)
        /\ handler' = NotQueued(r)
        /\ UNCHANGED <<queue, php>>
  /\ UNCHANGED <<mem, finished, unused, joined_to, sent, final,
                 open, unused_requests, nodes, phase, script>>

Report(r) ==
  /\ handler[r].pc = "report" /\ Live(handler[r].data)
  /\ handler' = [handler EXCEPT ![r] = Quiet]
  /\ UNCHANGED <<shared, sent, final, engine, script>>

SpuriousPushWake(r) ==
  /\ SpuriousWakeups
  /\ handler[r].pc = "blocked"
  /\ handler' = [handler EXCEPT ![r].pc = "woken"]
  /\ UNCHANGED <<shared, sent, final, engine, script>>

-----------------------------------------------------------------------------
(* The functions a script calls. *)

Start(r) ==
  /\ php.pc = "idle" /\ phase = "script"
  /\ mem[r] = "none"
  /\ mem' = [mem EXCEPT ![r] = "live"]
  /\ open' = open \cup {r}
  /\ UNCHANGED <<finished, unused, joined_to, queue, sdk,
                 unused_requests, nodes, php, phase, script>>

(* ton_request_next takes the oldest element and lets in one of the        *)
(* handlers that wait for room.                                            *)
BlockedAt(q) == {r \in Requests : handler[r].pc = "blocked" /\ handler[r].data = q}

LetNobodyIn(q) == UNCHANGED handler
LetOneIn(q) ==
  IF BlockedAt(q) = {} THEN UNCHANGED handler
  ELSE \E r \in BlockedAt(q) : handler' = [handler EXCEPT ![r].pc = "woken"]

NewestElement(q) == queue[q][Len(queue[q])]
FirstElement(q) == Head(queue[q])
AllElements(q) == queue[q]
OtherElements(q) == Tail(queue[q])

Pop(q) ==
  LET e == FirstElement(q) IN
  /\ queue[q] # <<>>
  /\ Live(e.data)
  /\ got' = [got EXCEPT ![e.data] = Append(@, e.n)]
  /\ queue' = [queue EXCEPT ![q] = OtherElements(q)]
  /\ LetOneIn(q)
  /\ UNCHANGED <<mem, finished, unused, joined_to, sent, final,
                 open, unused_requests, nodes, phase, told>>

Next_Pop(r) ==
  /\ php.pc = "idle" /\ phase = "script" /\ r \in open
  /\ Pop(r)
  /\ UNCHANGED php

Next_Wait(r) ==
  /\ php.pc = "idle" /\ phase = "script" /\ r \in open
  /\ queue[r] = <<>>
  /\ \E mode \in IF "block" \in Policy THEN {"wait", "timed"} ELSE {"timed"} :
       php' = [pc |-> mode, request |-> r]
  /\ UNCHANGED <<shared, sdk, open, unused_requests, nodes, phase, script>>

(* A bounded wait ends with an element or without one, also without the    *)
(* one that came in the moment the deadline passed.                        *)
Next_InTime ==
  /\ php.pc = "timed"
  /\ php' = Idle
  /\ Pop(php.request)

Next_TimedOut ==
  /\ php.pc = "timed"
  /\ php' = Idle
  /\ UNCHANGED <<shared, sdk, open, unused_requests, nodes, phase, script>>

Next_Woken ==
  /\ php.pc = "woken"
  /\ php' = Idle
  /\ \/ Pop(php.request)
     \/ /\ queue[php.request] = <<>>
        /\ UNCHANGED <<shared, sdk, open, unused_requests, nodes, phase, script>>

SpuriousNextWake ==
  /\ SpuriousWakeups
  /\ php.pc = "wait"
  /\ php' = [php EXCEPT !.pc = "woken"]
  /\ UNCHANGED <<shared, sdk, open, unused_requests, nodes, phase, script>>

(* is_ton_request_finished reads the size, then finished. *)
IsFinished_Size(r) ==
  /\ Policy \cap {"ask", "poll"} # {}
  /\ php.pc = "idle" /\ phase = "script" /\ r \in open
  /\ queue[r] = <<>>
  /\ php' = [pc |-> "sized", request |-> r]
  /\ UNCHANGED <<shared, sdk, open, unused_requests, nodes, phase, script>>

IsFinished_Flag ==
  /\ php.pc = "sized"
  /\ told' = IF finished[php.request] THEN told \cup {php.request} ELSE told
  /\ php' = Idle
  /\ UNCHANGED <<shared, sdk, open, unused_requests, nodes, phase, got>>

(* ton_request_join(a, b): the events of b go to a. *)
Join(a, b) ==
  /\ "join" \in Policy
  /\ php.pc = "idle" /\ phase = "script" /\ {a, b} \subseteq open
  /\ joined_to[b] = NULL
  /\ joined_to' = [joined_to EXCEPT ![b] = a]
  /\ UNCHANGED <<mem, finished, unused, queue, sdk, engine, script>>

Disconnect(a, b) ==
  /\ "disconnect" \in Policy
  /\ php.pc = "idle" /\ phase = "script" /\ {a, b} \subseteq open
  /\ joined_to[b] = a
  /\ joined_to' = [joined_to EXCEPT ![b] = NULL]
  /\ UNCHANGED <<mem, finished, unused, queue, sdk, engine, script>>

-----------------------------------------------------------------------------
(* The end of a request: ton_resource_destructor for its resource, and     *)
(* RSHUTDOWN for those that were not finished by then.  The list of these  *)
(* is a static, but made with persistent = 0 (ton_client.c:495): its nodes *)
(* are on the heap PHP gives a script, and gone when the script is.        *)

(* The script has seen the event with finished = true. *)
Received(r) == final[r] /\ sent[r] \in Range(got[r])

(* When the scripts let go of a request: a careful one when it has         *)
(* received everything that r, and whatever is joined to r, will deliver.  *)
MayClose(r) ==
  \/ "abandon" \in Policy
  \/ "poll" \in Policy /\ r \in told
  \/ /\ Received(r)
     /\ \A b \in Requests : joined_to[b] = r => Received(b)

Close(r) ==
  /\ php.pc = "idle" /\ phase \in {"script", "closing"} /\ r \in open
  /\ MayClose(r)
  /\ open' = open \ {r}
  /\ php' = [pc |-> IF finished[r] THEN "free" ELSE "mark", request |-> r]
  /\ UNCHANGED <<shared, sdk, unused_requests, nodes, phase, script>>

(* A node is linked to the last one, and the list is walked from the first *)
(* one on: neither may be gone.                                            *)
ListIntact == unused_requests \subseteq nodes

MarkUnused ==
  LET r == php.request IN
  /\ php.pc = "mark" /\ ListIntact
  /\ unused' = [unused EXCEPT ![r] = TRUE]
  /\ unused_requests' = unused_requests \cup {r}
  /\ nodes' = nodes \cup {r}
  /\ php' = Idle
  /\ UNCHANGED <<mem, finished, joined_to, queue, sdk, open, phase, script>>

(* ton_request_data_free: nothing for a request that is not finished.      *)
(* Otherwise rpa_queue_term wakes the handlers in the queue, the loop      *)
(* around rpa_queue_trypop finds the queue terminated and ends at once     *)
(* with the elements still inside, and the memory is released.             *)
Free(r) ==
  IF finished[r]
    THEN /\ mem' = [mem EXCEPT ![r] = "freed"]
         /\ handler' = [h \in Requests |-> IF h \in BlockedAt(r)
                                            THEN [handler[h] EXCEPT !.pc = "woken"]
                                            ELSE handler[h]]
    ELSE UNCHANGED <<mem, handler>>

Release ==
  /\ php.pc = "free"
  /\ Free(php.request)
  /\ php' = Idle
  /\ UNCHANGED <<finished, unused, joined_to, queue, sent, final,
                 open, unused_requests, nodes, phase, script>>

(* PHP destroys what a script leaves open after RSHUTDOWN. *)
MayEnd == IF "leave" \in Policy THEN \A r \in open : MayClose(r) ELSE open = {}

EndScript ==
  /\ php.pc = "idle" /\ phase = "script"
  /\ MayEnd
  /\ phase' = "cleaning"
  /\ UNCHANGED <<shared, sdk, open, unused_requests, nodes, php, script>>

StillListed(r) == IF finished[r] THEN unused_requests ELSE unused_requests \ {r}
Unlisted(r) == unused_requests \ {r}

RShutdown_Clean(r) ==
  /\ phase = "cleaning" /\ r \in unused_requests /\ ListIntact
  /\ Free(r)
  /\ unused_requests' = Unlisted(r)
  /\ nodes' = nodes \ {r}
  /\ UNCHANGED <<finished, unused, joined_to, queue, sent, final,
                 open, php, phase, script>>

RShutdown_Done ==
  /\ phase = "cleaning" /\ unused_requests = {}
  /\ phase' = "closing"
  /\ UNCHANGED <<shared, sdk, open, unused_requests, nodes, php, script>>

(* The heap is given back: the head and the tail of the list stay. *)
NextScript ==
  /\ phase = "closing" /\ php.pc = "idle" /\ open = {}
  /\ phase' = "script"
  /\ nodes' = {}
  /\ UNCHANGED <<shared, sdk, open, unused_requests, php, script>>

-----------------------------------------------------------------------------
Handle(r) ==
  Discard(r) \/ Resolve(r) \/ Follow(r) \/ Flag(r) \/ Push(r) \/ Report(r)

(* What the PHP thread does once it is inside a function of the extension. *)
Engine ==
  \/ Next_InTime \/ Next_TimedOut \/ Next_Woken \/ IsFinished_Flag \/ MarkUnused \/ Release
  \/ RShutdown_Done \/ \E r \in Requests : RShutdown_Clean(r)

(* What is still open after RSHUTDOWN is closed by PHP itself. *)
CloseRest == phase = "closing" /\ \E r \in Requests : Close(r)

Script ==
  \/ \E r \in Requests : \/ Start(r) \/ Next_Pop(r) \/ Next_Wait(r)
                         \/ IsFinished_Size(r) \/ Close(r)
  \/ \E a, b \in Requests : Join(a, b) \/ Disconnect(a, b)
  \/ EndScript \/ NextScript

Next ==
  \/ \E r \in Requests : Callback(r) \/ Handle(r) \/ SpuriousPushWake(r)
  \/ Engine \/ Script \/ SpuriousNextWake

Spec == Init /\ [][Next]_vars

(* The SDK's threads and the PHP thread are scheduled; the SDK need not    *)
(* call.  The script goes on asking every request it holds for events and  *)
(* does not only poll.                                                     *)
Fairness ==
  /\ \A r \in Requests : /\ WF_vars(Handle(r))
                         /\ SF_vars(Next_Pop(r))
  /\ WF_vars(Engine) /\ WF_vars(CloseRest)

FairSpec == Spec /\ Fairness

-----------------------------------------------------------------------------
(* Properties *)

HandlerPCs ==
  {"idle", "discard", "resolve", "follow", "flag", "push", "blocked", "woken",
   "report"}
Handlers == [pc : HandlerPCs, data : Requests \cup {NULL}]
PhpPCs == {"idle", "wait", "timed", "woken", "sized", "mark", "free"}
Events == [data : Requests, n : 1 .. MaxEvents, finished : BOOLEAN]

(* The fields have the types the code gives them, and no queue holds more  *)
(* than its capacity although several handlers may push to it.             *)
TypeOK ==
  /\ mem \in [Requests -> {"none", "live", "freed"}]
  /\ finished \in [Requests -> BOOLEAN]
  /\ unused \in [Requests -> BOOLEAN]
  /\ joined_to \in [Requests -> Requests \cup {NULL}]
  /\ queue \in [Requests -> Seq(Events)]
  /\ \A r \in Requests : Len(queue[r]) <= Capacity
  /\ sent \in [Requests -> 0 .. MaxEvents]
  /\ final \in [Requests -> BOOLEAN]
  /\ handler \in [Requests -> Handlers]
  /\ open \in SUBSET Requests
  /\ unused_requests \in SUBSET Requests /\ nodes \in SUBSET Requests
  /\ php \in [pc : PhpPCs, request : Requests \cup {NULL}]
  /\ phase \in {"script", "cleaning", "closing"}
  /\ got \in [Requests -> Seq(1 .. MaxEvents)]
  /\ told \in SUBSET Requests

(* The handler never follows a pointer to a request that was released, or  *)
(* NULL, and the SDK never calls it for one: freeing in                    *)
(* ton_resource_destructor and RSHUTDOWN against the handler of            *)
(* ton_client.c:110-140 on another thread.                                 *)
HandlerSafe ==
  \A r \in Requests :
    /\ handler[r].pc \in {"discard", "resolve", "follow"} => Live(r)
    /\ handler[r].pc \in {"flag", "push", "blocked", "woken", "report"} => Live(handler[r].data)
    /\ mem[r] = "freed" => final[r]

(* An element the script may still pop names a request that is not         *)
(* released: ton_request_next reads e->data->id (ton_client.c:332).        *)
ElementsSafe ==
  \A q \in open : \A e \in Range(queue[q]) : Live(e.data)

(* No request data is released twice or listed while its resource is open, *)
(* by any of the ways into ton_request_data_free, and the list never leads *)
(* to a node whose heap is gone.                                           *)
ReleasedOnce ==
  /\ php.pc \in {"free", "mark"} =>
       Live(php.request) /\ php.request \notin open \cup unused_requests
  /\ \A r \in open \cup unused_requests : Live(r)
  /\ open \cap unused_requests = {}
  /\ ListIntact

(* "cleaning up unused requests" (ton_client.c:474): what RSHUTDOWN walks,  *)
(* and what a destructor adds to, is a list whose nodes are there.         *)
CleanupSafe == phase = "cleaning" \/ php.pc = "mark" => ListIntact

(* Every event is in one place only, in one queue or with the script, also *)
(* when queues are joined and disconnected under way.                      *)
Places(r, n) ==
  {<<"got", i>> : i \in {i \in DOMAIN got[r] : got[r][i] = n}} \cup
  UNION {{<<q, i>> : i \in {i \in DOMAIN queue[q] :
                             queue[q][i].data = r /\ queue[q][i].n = n}} : q \in Requests}
EventsOnce ==
  \A r \in Requests : \A n \in 1 .. sent[r] : Cardinality(Places(r, n)) <= 1

(* finished, written by the handler and read by the destructor without a   *)
(* lock, is what the SDK said last, once the handler has written it.  So   *)
(* data is released only after the SDK's last call has begun, and a        *)
(* finished request on the list of unused ones is not passed over.         *)
FinishedIsFinal ==
  \A r \in Requests :
    /\ finished[r] => final[r]
    /\ final[r] /\ handler[r].pc \notin {"discard", "resolve", "follow", "flag"}
         => finished[r]

(* "freeing queue for request" (ton_client.c:81): no element is left in a  *)
(* queue that is destroyed, where the loop of ton_client.c:84 would not    *)
(* find it.  Scripts that read to the end leave none.                      *)
NothingLeftBehind ==
  \A r \in Requests : mem[r] = "freed" => queue[r] = <<>>

(* "request is not finished yet. Possible cause of segfault. Skipping"     *)
(* (ton_client.c:95): a request released because it is finished is one no  *)
(* handler works on.                                                       *)
ReleasedAfterHandler ==
  \A r \in Requests : mem[r] = "freed" => \A h \in Requests : handler[h].data # r

(* "true if request has been finished" (README.md:186).                    *)
ToldOnlyIfFinal == \A r \in told : final[r]

(* A script that reads to the end receives every event exactly once and in *)
(* order, and closes a request only after its last event.                  *)
Status == [r \in Requests |-> IF mem[r] = "none" THEN "new"
                              ELSE IF r \in open THEN "open" ELSE "closed"]
ES == INSTANCE EventStream WITH status <- Status
ImplementsEventStream == ES!Spec

(* Every event the SDK delivers reaches the script.                        *)
EventsArrive ==
  \A r \in Requests : \A n \in 1 .. MaxEvents :
    (sent[r] >= n) ~> (n \in Range(got[r]))

(* A handler waits for room only as long as the request it delivers to is  *)
(* held by the script: it goes on when the script reads.                   *)
HandlerReturns ==
  \A r \in Requests :
    (handler[r].pc # "idle") ~> (handler[r].pc = "idle" \/ handler[r].data \notin open)
=============================================================================
