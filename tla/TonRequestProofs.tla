--------------------------- MODULE TonRequestProofs ---------------------------
(***************************************************************************)
(* Theorems about TonRequest for any number of requests, any capacity and  *)
(* any number of events.                                                   *)
(***************************************************************************)
EXTENDS TonRequest, RangeLemmas, TLAPS

(* A handler at work has an event in hand, the PHP thread inside a         *)
(* function of the extension a request.                                    *)
Busy ==
  /\ \A r \in Requests : handler[r].pc # "idle" => sent[r] >= 1
  /\ php.pc # "idle" => php.request \in Requests

TypeInv == TypeOK /\ Busy

(* Before the first script everything has its type.                        *)
LEMMA InitType == Init => TypeInv
BY RequestAssumption DEF Init, TypeInv, TypeOK, Busy, Quiet, Idle, Handlers, HandlerPCs, PhpPCs

(* A handler that only moves on keeps the type of handler.                 *)
LEMMA HandlerMoves ==
  ASSUME handler \in [Requests -> Handlers], NEW r \in Requests, NEW p \in HandlerPCs
  PROVE  [handler EXCEPT ![r].pc = p] \in [Requests -> Handlers]
BY DEF Handlers

(* What a pop does to the types. *)
LEMMA PopType ==
  ASSUME TypeInv, NEW q \in Requests, Pop(q)
  PROVE  /\ queue' \in [Requests -> Seq(Events)]
         /\ \A r \in Requests : Len(queue'[r]) <= Capacity
         /\ got' \in [Requests -> Seq(1 .. MaxEvents)]
         /\ handler' \in [Requests -> Handlers]
         /\ \A r \in Requests : handler'[r].pc # "idle" => sent[r] >= 1
         /\ UNCHANGED <<mem, finished, unused, joined_to, sent, final,
                        open, unused_requests, nodes, phase, told>>
<1> USE RequestAssumption DEF TypeInv, TypeOK, Busy
<1>1. queue[q] \in Seq(Events) /\ queue[q] # <<>> /\ Len(queue[q]) <= Capacity
  BY DEF Pop
<1>2. Head(queue[q]) \in Events /\ Tail(queue[q]) \in Seq(Events)
      /\ Len(Tail(queue[q])) <= Capacity
  BY <1>1
<1>3. queue' = [queue EXCEPT ![q] = Tail(@)]
  BY DEF Pop, OtherElements
<1>4. got' \in [Requests -> Seq(1 .. MaxEvents)]
  <2>1. got' = [got EXCEPT ![Head(queue[q]).data] = Append(@, Head(queue[q]).n)]
    BY DEF Pop, FirstElement
  <2>2. Head(queue[q]).data \in Requests /\ Head(queue[q]).n \in 1 .. MaxEvents
    BY <1>2 DEF Events
  <2>3. QED
    BY <2>1, <2>2
<1>5. /\ handler' \in [Requests -> Handlers]
      /\ \A r \in Requests : handler'[r].pc # "idle" => sent[r] >= 1
  <2>1. CASE BlockedAt(q) = {}
    BY <2>1 DEF Pop, LetOneIn
  <2>2. CASE BlockedAt(q) # {}
    <3>1. PICK h \in Requests : /\ handler[h].pc = "blocked"
                              /\ handler' = [handler EXCEPT ![h].pc = "woken"]
      BY <2>2 DEF Pop, LetOneIn, BlockedAt
    <3>2. handler' \in [Requests -> Handlers]
      BY <3>1, HandlerMoves DEF HandlerPCs
    <3>3. QED
      BY <3>1, <3>2
  <2>3. QED
    BY <2>1, <2>2
<1>6. queue' \in [Requests -> Seq(Events)] /\ \A r \in Requests : Len(queue'[r]) <= Capacity
  BY <1>2, <1>3
<1>7. UNCHANGED <<mem, finished, unused, joined_to, sent, final,
                open, unused_requests, nodes, phase, told>>
  BY DEF Pop
<1> HIDE DEF TypeInv, TypeOK, Busy
<1>8. QED
  BY <1>4, <1>5, <1>6, <1>7

(* What ton_request_data_free does to the types. *)
LEMMA FreeType ==
  ASSUME TypeInv, NEW q \in Requests, Free(q)
  PROVE  /\ mem' \in [Requests -> {"none", "live", "freed"}]
         /\ handler' \in [Requests -> Handlers]
         /\ \A r \in Requests : handler'[r].pc # "idle" => sent[r] >= 1
<1> USE DEF TypeInv, TypeOK, Busy
<1>1. CASE finished[q]
  <2>1. mem' = [mem EXCEPT ![q] = "freed"]
    BY <1>1 DEF Free
  <2>2. handler' = [h \in Requests |-> IF h \in BlockedAt(q)
                                       THEN [handler[h] EXCEPT !.pc = "woken"]
                                       ELSE handler[h]]
    BY <1>1 DEF Free
  <2>3. handler' \in [Requests -> Handlers]
    <3>1. ASSUME NEW r \in Requests
          PROVE  handler[r] \in Handlers /\ [handler[r] EXCEPT !.pc = "woken"] \in Handlers
      <4>1. handler[r] \in Handlers
        OBVIOUS
      <4>2. QED
        BY <4>1 DEF Handlers, HandlerPCs
    <3> HIDE DEF TypeInv, TypeOK, Busy
    <3>2. QED
      BY <2>2, <3>1
  <2>4. \A r \in BlockedAt(q) : handler[r].pc # "idle"
    BY DEF BlockedAt
  <2>5. QED
    BY <2>1, <2>2, <2>3, <2>4
<1>2. CASE ~finished[q]
  BY <1>2 DEF Free
<1>3. QED
  BY <1>1, <1>2

(* Every step of the scripts, the engine and the handlers keeps the types. *)
LEMMA NextType == TypeInv /\ [Next]_vars => TypeInv'
<1> SUFFICES ASSUME TypeInv, [Next]_vars PROVE TypeInv'
  OBVIOUS
<1> USE RequestAssumption DEF TypeInv, TypeOK, Busy, shared, sdk, engine, script, PhpPCs, Quiet, Idle
<1>1. ASSUME NEW r \in Requests, Callback(r) PROVE TypeInv'
  BY <1>1 DEF Callback, Handlers, HandlerPCs, Live
<1>2. ASSUME NEW r \in Requests, Discard(r) PROVE TypeInv'
  BY <1>2 DEF Discard, Handlers, HandlerPCs, SetFinished, Live
<1>3. ASSUME NEW r \in Requests, Resolve(r) PROVE TypeInv'
  BY <1>3 DEF Resolve, Handlers, HandlerPCs, Live
<1>4. ASSUME NEW r \in Requests, Follow(r) PROVE TypeInv'
  BY <1>4 DEF Follow, Handlers, HandlerPCs, Live
<1>5. ASSUME NEW r \in Requests, Flag(r) PROVE TypeInv'
  <2>1. handler[r].data \in Requests /\ final[r] \in BOOLEAN
    BY <1>5 DEF Flag, Live, Handlers
  <2>2. finished' \in [Requests -> BOOLEAN]
    BY <1>5, <2>1 DEF Flag, SetFinished
  <2>3. /\ handler' \in [Requests -> Handlers]
        /\ \A h \in Requests : handler'[h].pc # "idle" => handler[h].pc # "idle"
    <3>1. handler' = [handler EXCEPT ![r].pc = "push"] /\ handler[r].pc = "flag"
      BY <1>5 DEF Flag
    <3>2. handler' \in [Requests -> Handlers]
      BY <3>1, HandlerMoves DEF HandlerPCs
    <3>3. QED
      BY <3>1, <3>2
  <2>4. UNCHANGED <<mem, unused, joined_to, queue, sent, final, engine, script>>
    BY <1>5 DEF Flag
  <2>5. QED
    BY <2>2, <2>3, <2>4
<1>6. ASSUME NEW r \in Requests, Push(r) PROVE TypeInv'
  <2> DEFINE q == handler[r].data
  <2>1. /\ q \in Requests /\ handler[r].pc # "idle"
        /\ UNCHANGED <<mem, finished, unused, joined_to, sent, final,
                       open, unused_requests, nodes, phase, script>>
    BY <1>6 DEF Push, Live, Handlers
  <2>2. Event(r) \in Events
    BY <2>1 DEF Event, Events
  <2>3. queue' \in [Requests -> Seq(Events)] /\ \A s \in Requests : Len(queue'[s]) <= Capacity
    <3>1. CASE HasRoom(q)
      <4>1. queue' = [queue EXCEPT ![q] = Append(@, Event(r))]
        BY <1>6, <3>1 DEF Push
      <4>2. /\ Append(queue[q], Event(r)) \in Seq(Events)
            /\ Len(Append(queue[q], Event(r))) <= Capacity
        BY <2>1, <2>2, <3>1 DEF HasRoom
      <4>3. QED
        BY <2>1, <4>1, <4>2
    <3>2. CASE ~HasRoom(q)
      BY <1>6, <3>2 DEF Push
    <3>3. QED
      BY <3>1, <3>2
  <2>4. /\ handler' \in [Requests -> Handlers]
        /\ \A h \in Requests : handler'[h].pc # "idle" => handler[h].pc # "idle"
    <3>1. Quiet \in Handlers /\ {"report", "blocked"} \subseteq HandlerPCs
      BY DEF Handlers, HandlerPCs
    <3>2. \/ handler' = [handler EXCEPT ![r] = Quiet]
          \/ handler' = [handler EXCEPT ![r].pc = "report"]
          \/ handler' = [handler EXCEPT ![r].pc = "blocked"]
      BY <1>6 DEF Push, Queued, NotQueued
    <3>3. CASE handler' = [handler EXCEPT ![r] = Quiet]
      <4>1. handler' \in [Requests -> Handlers]
        BY <3>1, <3>3
      <4>2. \A h \in Requests : h # r => handler'[h] = handler[h]
        BY <3>3
      <4>3. QED
        BY <2>1, <4>1, <4>2
    <3>4. CASE handler' = [handler EXCEPT ![r].pc = "report"]
      <4>1. handler' \in [Requests -> Handlers]
        BY <3>1, <3>4, HandlerMoves
      <4>2. QED
        BY <2>1, <3>4, <4>1
    <3>5. CASE handler' = [handler EXCEPT ![r].pc = "blocked"]
      <4>1. handler' \in [Requests -> Handlers]
        BY <3>1, <3>5, HandlerMoves
      <4>2. QED
        BY <2>1, <3>5, <4>1
    <3>6. QED
      BY <3>2, <3>3, <3>4, <3>5
  <2>5. /\ php' \in [pc : PhpPCs, request : Requests \cup {NULL}]
        /\ php'.pc # "idle" => php'.request \in Requests
    <3>1. \/ php' = php
          \/ php' = [php EXCEPT !.pc = "woken"] /\ php.pc = "wait"
      BY <1>6 DEF Push
    <3>2. QED
      BY <3>1
  <2>6. QED
    BY <2>1, <2>3, <2>4, <2>5
<1>7. ASSUME NEW r \in Requests, Report(r) PROVE TypeInv'
  BY <1>7 DEF Report, Handlers, HandlerPCs, Live
<1>8. ASSUME NEW r \in Requests, SpuriousPushWake(r) PROVE TypeInv'
  <2>1. /\ handler' \in [Requests -> Handlers]
        /\ \A h \in Requests : handler'[h].pc # "idle" => handler[h].pc # "idle"
    BY <1>8, HandlerMoves DEF SpuriousPushWake, HandlerPCs
  <2>2. QED
    BY <1>8, <2>1 DEF SpuriousPushWake
<1>9. ASSUME NEW r \in Requests, Start(r) PROVE TypeInv'
  BY <1>9 DEF Start
<1>10. ASSUME NEW r \in Requests, Next_Pop(r) PROVE TypeInv'
  BY <1>10, PopType DEF Next_Pop
<1>11. ASSUME NEW r \in Requests, Next_Wait(r) PROVE TypeInv'
  BY <1>11 DEF Next_Wait
<1>12. ASSUME Next_InTime \/ Next_TimedOut PROVE TypeInv'
  <2>1. php.request \in Requests
    BY <1>12 DEF Next_InTime, Next_TimedOut
  <2>2. CASE Next_InTime
    BY <2>1, <2>2, PopType DEF Next_InTime
  <2>3. CASE Next_TimedOut
    BY <2>3 DEF Next_TimedOut
  <2>4. QED
    BY <1>12, <2>2, <2>3
<1>13. ASSUME Next_Woken PROVE TypeInv'
  <2>1. php.request \in Requests
    BY <1>13 DEF Next_Woken
  <2>2. CASE Pop(php.request)
    BY <1>13, <2>1, <2>2, PopType DEF Next_Woken
  <2>3. CASE ~Pop(php.request)
    BY <1>13, <2>3 DEF Next_Woken
  <2>4. QED
    BY <2>2, <2>3
<1>14. ASSUME SpuriousNextWake PROVE TypeInv'
  BY <1>14 DEF SpuriousNextWake
<1>15. ASSUME NEW r \in Requests, IsFinished_Size(r) PROVE TypeInv'
  BY <1>15 DEF IsFinished_Size
<1>16. ASSUME IsFinished_Flag PROVE TypeInv'
  BY <1>16 DEF IsFinished_Flag
<1>17. ASSUME NEW a \in Requests, NEW b \in Requests, Join(a, b) PROVE TypeInv'
  BY <1>17 DEF Join
<1>18. ASSUME NEW a \in Requests, NEW b \in Requests, Disconnect(a, b) PROVE TypeInv'
  BY <1>18 DEF Disconnect
<1>19. ASSUME NEW r \in Requests, Close(r) PROVE TypeInv'
  BY <1>19 DEF Close
<1>20. ASSUME MarkUnused PROVE TypeInv'
  BY <1>20 DEF MarkUnused
<1>21. ASSUME Release PROVE TypeInv'
  <2>1. php.request \in Requests /\ Free(php.request)
    BY <1>21 DEF Release
  <2>2. QED
    BY <1>21, <2>1, FreeType DEF Release
<1>22. ASSUME EndScript PROVE TypeInv'
  BY <1>22 DEF EndScript
<1>23. ASSUME NEW r \in Requests, RShutdown_Clean(r) PROVE TypeInv'
  <2>1. Free(r) /\ {unused_requests', nodes'} \subseteq SUBSET Requests
    BY <1>23 DEF RShutdown_Clean, Unlisted
  <2>2. QED
    BY <1>23, <2>1, FreeType DEF RShutdown_Clean
<1>24. ASSUME RShutdown_Done PROVE TypeInv'
  BY <1>24 DEF RShutdown_Done
<1>25. ASSUME NextScript PROVE TypeInv'
  BY <1>25 DEF NextScript
<1>26. CASE UNCHANGED vars
  BY <1>26 DEF vars
<1>27. QED
  BY <1>1, <1>2, <1>3, <1>4, <1>5, <1>6, <1>7, <1>8, <1>9, <1>10, <1>11, <1>12, <1>13, <1>14, <1>15, <1>16, <1>17, <1>18, <1>19, <1>20, <1>21, <1>22, <1>23, <1>24, <1>25, <1>26
     DEF Next, Handle, Engine, Script

(* Whatever the scripts do, the fields keep their types and no queue grows *)
(* beyond its capacity.                                                    *)
THEOREM TypeCorrect == Spec => []TypeOK
<1>1. Init => TypeInv
  BY InitType
<1>2. TypeInv /\ [Next]_vars => TypeInv'
  BY NextType
<1>3. TypeInv => TypeOK
  BY DEF TypeInv
<1>4. QED
  BY <1>1, <1>2, <1>3, PTL DEF Spec

-----------------------------------------------------------------------------
(* The lifetime of the request data under scripts that read every request  *)
(* to its end and do not join: when the event with finished = true was     *)
(* popped, the handler is done with the data and the SDK will not call it  *)
(* again, because the event was the last thing it put into the queue.      *)

Careful == Policy \cap {"join", "poll", "abandon"} = {} /\ ~TonDebug

OwnData ==
  \A r \in Requests :
    /\ joined_to[r] = NULL
    /\ handler[r].pc \notin {"follow", "report"}
    /\ handler[r].pc # "idle" => handler[r].data = r /\ mem[r] = "live"

(* The event a handler has in hand is younger than all others. *)
Younger ==
  \A r \in Requests :
    /\ \A e \in Range(queue[r]) :
         /\ e.data = r /\ e.n <= sent[r]
         /\ handler[r].pc # "idle" => e.n < sent[r]
    /\ \A n \in Range(got[r]) :
         /\ n <= sent[r]
         /\ handler[r].pc # "idle" => n < sent[r]

LetGo(r) == r \notin open /\ mem[r] # "none"

Kept ==
  /\ \A r \in Requests : /\ r \in open => mem[r] = "live"
                         /\ LetGo(r) => Received(r)
  /\ php.pc \in {"free", "mark"} => LetGo(php.request)
  /\ \A r \in unused_requests : LetGo(r)

LifeInv == OwnData /\ Younger /\ Kept

(* A step that only moves the PHP thread. *)
LEMMA LifeAside ==
  ASSUME LifeInv, php'.pc \notin {"free", "mark"},
         UNCHANGED <<mem, joined_to, queue, sent, final, handler, open,
                     unused_requests, got>>
  PROVE  LifeInv'
BY DEF LifeInv, OwnData, Younger, Kept, LetGo, Received

(* Nobody is at work on a request that was let go. *)
LEMMA LetGoIsDone ==
  ASSUME TypeInv, LifeInv, NEW r \in Requests, LetGo(r)
  PROVE  final[r] /\ handler[r].pc = "idle" /\ BlockedAt(r) = {}
<1>1. final[r] /\ sent[r] \in Range(got[r])
  BY DEF LifeInv, Kept, Received
<1>2. handler[r].pc = "idle"
  BY <1>1 DEF LifeInv, Younger, TypeInv, TypeOK
<1>3. QED
  BY <1>1, <1>2 DEF BlockedAt, LifeInv, OwnData

(* Releasing a request that was let go disturbs nobody else.               *)
LEMMA LifeFree ==
  ASSUME TypeInv, LifeInv, NEW r \in Requests, LetGo(r), Free(r),
         php' = php \/ php' = Idle, unused_requests' \subseteq unused_requests,
         UNCHANGED <<joined_to, queue, sent, final, open, got>>
  PROVE  LifeInv'
<1>1. handler' = handler
  <2>1. handler \in [Requests -> Handlers] /\ BlockedAt(r) = {}
    BY LetGoIsDone DEF TypeInv, TypeOK
  <2>2. QED
    BY <2>1 DEF Free
<1>2. \A q \in Requests : q # r => mem'[q] = mem[q]
  BY DEF Free, TypeInv, TypeOK
<1>3. mem'[r] # "none" /\ mem \in [Requests -> {"none", "live", "freed"}]
  BY DEF Free, LetGo, TypeInv, TypeOK
<1>4. handler[r].pc = "idle"
  BY LetGoIsDone
<1>5. OwnData' /\ Younger'
  BY <1>1, <1>2, <1>4 DEF LifeInv, OwnData, Younger
<1>6. \A q \in Requests : LetGo(q)' <=> LetGo(q)
  BY <1>2, <1>3 DEF LetGo
<1>7. Kept'
  <2>1. \A q \in Requests : q \in open => mem'[q] = "live"
    BY <1>2 DEF LifeInv, Kept, LetGo
  <2>2. \A q \in Requests : LetGo(q)' => Received(q)'
    BY <1>6 DEF LifeInv, Kept, Received
  <2>3. php'.pc \in {"free", "mark"} => LetGo(php.request)'
    BY <1>6 DEF LifeInv, Kept, Idle, TypeInv, Busy
  <2>4. \A q \in unused_requests' : LetGo(q)'
    BY <1>6 DEF LifeInv, Kept, TypeInv, TypeOK
  <2>5. QED
    BY <2>1, <2>2, <2>3, <2>4 DEF Kept, LetGo
<1>8. QED
  BY <1>5, <1>7 DEF LifeInv

(* Handing an event to the script keeps what is known of each request.     *)
LEMMA LifePop ==
  ASSUME TypeInv, LifeInv, NEW q \in Requests, Pop(q), php'.pc \notin {"free", "mark"}
  PROVE  LifeInv'
<1>1. /\ queue[q] \in Seq(Events) /\ queue[q] # <<>>
      /\ got[q] \in Seq(1 .. MaxEvents)
  BY DEF Pop, TypeInv, TypeOK
<1>2. /\ Range(Tail(queue[q])) \subseteq Range(queue[q])
      /\ Head(queue[q]) \in Range(queue[q]) /\ Head(queue[q]) \in Events
  BY <1>1, RangeTail
<1>3. Head(queue[q]).data = q /\ Head(queue[q]).n \in 1 .. MaxEvents
  BY <1>2 DEF LifeInv, Younger, Events
<1>4. /\ queue' = [queue EXCEPT ![q] = Tail(@)]
      /\ got' = [got EXCEPT ![q] = Append(@, Head(queue[q]).n)]
      /\ UNCHANGED <<mem, joined_to, sent, final, open, unused_requests>>
  BY <1>3 DEF Pop, FirstElement, OtherElements
<1>5. Range(got'[q]) = Range(got[q]) \cup {Head(queue[q]).n}
  <2>1. got'[q] = Append(got[q], Head(queue[q]).n)
    BY <1>4 DEF TypeInv, TypeOK
  <2>2. \A n \in 1 .. MaxEvents : Range(Append(got[q], n)) = Range(got[q]) \cup {n}
    BY <1>1, RangeAppend
  <2>3. QED
    BY <1>3, <2>1, <2>2, Zenon
<1>6. \A r \in Requests : /\ handler'[r].pc = "idle" <=> handler[r].pc = "idle"
                          /\ handler'[r].data = handler[r].data
                          /\ handler'[r].pc \in {"follow", "report"} => handler[r].pc \in {"follow", "report"}
  <2>1. handler \in [Requests -> Handlers]
    BY DEF TypeInv, TypeOK
  <2>2. \/ handler' = handler
        \/ \E h \in Requests : /\ handler[h].pc = "blocked"
                               /\ handler' = [handler EXCEPT ![h].pc = "woken"]
    BY DEF Pop, LetOneIn, BlockedAt
  <2>3. QED
    BY <2>1, <2>2 DEF Handlers
<1>7. OwnData'
  BY <1>4, <1>6 DEF LifeInv, OwnData
<1>8. Younger'
  <2>1. ASSUME NEW r \in Requests, r # q
        PROVE  queue'[r] = queue[r] /\ got'[r] = got[r]
    BY <1>4, <2>1 DEF TypeInv, TypeOK
  <2>2. queue'[q] = Tail(queue[q])
    BY <1>4 DEF TypeInv, TypeOK
  <2>3. QED
    BY <1>2, <1>4, <1>5, <1>6, <2>1, <2>2 DEF LifeInv, Younger
<1>9. Kept'
  <2>1. \A r \in Requests : Range(got[r]) \subseteq Range(got'[r])
    BY <1>4, <1>5 DEF TypeInv, TypeOK
  <2>2. QED
    BY <1>4, <2>1 DEF LifeInv, Kept, LetGo, Received
<1>10. QED
  BY <1>7, <1>8, <1>9 DEF LifeInv

(* Every step of a careful script, and every step of a handler, keeps the  *)
(* relation between requests, handlers and queues.                         *)
LEMMA NextLife ==
  ASSUME Careful, TypeInv, LifeInv, [Next]_vars
  PROVE  LifeInv'
<1> USE DEF shared, sdk, engine, script
<1>1. ASSUME NEW r \in Requests, Callback(r) PROVE LifeInv'
  <2>1. /\ handler[r].pc = "idle" /\ mem[r] = "live" /\ ~final[r]
        /\ sent' = [sent EXCEPT ![r] = @ + 1]
        /\ \A q \in Requests : q # r => final'[q] = final[q] /\ handler'[q] = handler[q]
        /\ handler'[r].data = r /\ handler'[r].pc \in {"discard", "resolve"}
        /\ UNCHANGED <<shared, engine, script>>
    BY <1>1 DEF Callback, Live, TypeInv, TypeOK
  <2>2. sent'[r] = sent[r] + 1 /\ \A q \in Requests : q # r => sent'[q] = sent[q]
    BY <2>1 DEF TypeInv, TypeOK
  <2>3. sent \in [Requests -> Int]
    BY DEF TypeInv, TypeOK
  <2>4. OwnData'
    BY <2>1 DEF LifeInv, OwnData
  <2>5. Younger'
    <3>1. ASSUME NEW q \in Requests
          PROVE  /\ \A e \in Range(queue[q]) : e.n \in Int
                 /\ \A n \in Range(got[q]) : n \in Int
      <4>1. queue[q] \in Seq(Events) /\ got[q] \in Seq(1 .. MaxEvents)
        BY DEF TypeInv, TypeOK
      <4>2. Range(queue[q]) \subseteq Events /\ Range(got[q]) \subseteq 1 .. MaxEvents
        BY <4>1, RangeOfSeq
      <4>3. QED
        BY <4>2 DEF Events
    <3>2. QED
      BY <2>1, <2>2, <2>3, <3>1 DEF LifeInv, Younger
  <2>6. ~LetGo(r)
    BY <2>1 DEF LifeInv, Kept, Received
  <2>7. Kept'
    BY <2>1, <2>2, <2>6 DEF LifeInv, Kept, LetGo, Received
  <2>8. QED
    BY <2>4, <2>5, <2>7 DEF LifeInv
<1>2. ASSUME NEW r \in Requests, Discard(r) PROVE LifeInv'
  BY <1>2 DEF Discard, TypeInv, TypeOK, LifeInv, OwnData, Younger, Kept, LetGo, Received, Quiet
<1>3. ASSUME NEW r \in Requests, Resolve(r) PROVE LifeInv'
  BY <1>3 DEF Resolve, Live, TypeInv, TypeOK, LifeInv, OwnData, Younger, Kept, LetGo, Received
<1>4. ASSUME NEW r \in Requests, Follow(r) PROVE LifeInv'
  BY <1>4 DEF Follow, LifeInv, OwnData
<1>5. ASSUME NEW r \in Requests, Flag(r) PROVE LifeInv'
  BY <1>5 DEF Flag, TypeInv, TypeOK, LifeInv, OwnData, Younger, Kept, LetGo, Received
<1>6. ASSUME NEW r \in Requests, Push(r) PROVE LifeInv'
  <2>1. /\ handler[r].pc \in {"push", "woken"} /\ handler[r].data = r /\ mem[r] = "live"
        /\ handler \in [Requests -> Handlers]
        /\ UNCHANGED <<mem, finished, unused, joined_to, sent, final,
                       open, unused_requests, nodes, phase, script>>
        /\ php'.pc \in {"free", "mark"} => php' = php
    BY <1>6 DEF Push, LifeInv, OwnData, TypeInv, TypeOK
  <2>2. /\ \A q \in Requests : q # r => handler'[q] = handler[q]
        /\ \/ handler'[r] = Quiet
           \/ handler'[r] = [handler[r] EXCEPT !.pc = "blocked"]
    BY <1>6, <2>1 DEF Push, Queued, NotQueued, Careful
  <2>3. OwnData'
    BY <2>1, <2>2 DEF LifeInv, OwnData, Quiet, Handlers
  <2>4. Kept'
    BY <2>1 DEF LifeInv, Kept, LetGo, Received
  <2>5. Younger'
    <3>1. CASE HasRoom(r)
      <4>1. /\ queue' = [queue EXCEPT ![r] = Append(@, Event(r))]
            /\ handler' = [handler EXCEPT ![r] = Quiet]
        BY <1>6, <2>1, <3>1 DEF Push, Queued, Careful
      <4>2. Event(r).data = r /\ Event(r).n = sent[r] /\ sent[r] \in Int
        BY DEF Event, TypeInv, TypeOK
      <4>3. Event(r) \in Events /\ queue[r] \in Seq(Events)
        <5>1. sent[r] \in 1 .. MaxEvents /\ final[r] \in BOOLEAN
          BY <2>1 DEF TypeInv, TypeOK, Busy
        <5>2. Event(r) \in Events
          BY <5>1 DEF Event, Events
        <5>3. QED
          BY <5>2 DEF TypeInv, TypeOK
      <4>4. Range(queue'[r]) = Range(queue[r]) \cup {Event(r)}
        <5>1. queue'[r] = Append(queue[r], Event(r))
          BY <4>1 DEF TypeInv, TypeOK
        <5>2. Range(Append(queue[r], Event(r))) = Range(queue[r]) \cup {Event(r)}
          BY <4>3, RangeAppend
        <5>3. QED
          BY <5>1, <5>2, Zenon
      <4>5. \A q \in Requests : q # r => queue'[q] = queue[q]
        BY <4>1 DEF TypeInv, TypeOK
      <4>6. handler'[r].pc = "idle"
        BY <2>1, <4>1 DEF Quiet
      <4>7. QED
        BY <2>1, <2>2, <4>2, <4>4, <4>5, <4>6 DEF LifeInv, Younger
    <3>2. CASE ~HasRoom(r)
      <4>1. queue' = queue
        BY <1>6, <2>1, <3>2 DEF Push
      <4>2. QED
        BY <2>1, <2>2, <4>1 DEF LifeInv, Younger
    <3>3. QED
      BY <3>1, <3>2
  <2>6. QED
    BY <2>3, <2>4, <2>5 DEF LifeInv
<1>7. ASSUME NEW r \in Requests, Report(r) PROVE LifeInv'
  BY <1>7 DEF Report, LifeInv, OwnData
<1>8. ASSUME NEW r \in Requests, SpuriousPushWake(r) PROVE LifeInv'
  BY <1>8 DEF SpuriousPushWake, TypeInv, TypeOK, LifeInv, OwnData, Younger, Kept, LetGo, Received
<1>9. ASSUME NEW r \in Requests, Start(r) PROVE LifeInv'
  BY <1>9 DEF Start, TypeInv, TypeOK, LifeInv, OwnData, Younger, Kept, LetGo, Received
<1>10. ASSUME NEW r \in Requests, Next_Pop(r) PROVE LifeInv'
  BY <1>10, LifePop DEF Next_Pop
<1>11. ASSUME NEW r \in Requests, Next_Wait(r) PROVE LifeInv'
  BY <1>11, LifeAside DEF Next_Wait
<1>12. ASSUME Next_InTime \/ Next_TimedOut PROVE LifeInv'
  <2>1. php.request \in Requests /\ php'.pc = "idle"
    BY <1>12 DEF Next_InTime, Next_TimedOut, TypeInv, Busy, Idle
  <2>2. CASE Next_InTime
    BY <2>1, <2>2, LifePop DEF Next_InTime
  <2>3. CASE Next_TimedOut
    BY <2>1, <2>3, LifeAside DEF Next_TimedOut
  <2>4. QED
    BY <1>12, <2>2, <2>3
<1>13. ASSUME Next_Woken PROVE LifeInv'
  <2>1. php.request \in Requests /\ php'.pc = "idle"
    BY <1>13 DEF Next_Woken, TypeInv, Busy, Idle
  <2>2. CASE Pop(php.request)
    BY <2>1, <2>2, LifePop
  <2>3. CASE ~Pop(php.request)
    BY <1>13, <2>1, <2>3, LifeAside DEF Next_Woken
  <2>4. QED
    BY <2>2, <2>3
<1>14. ASSUME SpuriousNextWake PROVE LifeInv'
  BY <1>14, LifeAside DEF SpuriousNextWake, TypeInv, TypeOK
<1>15. ASSUME NEW r \in Requests, IsFinished_Size(r) PROVE LifeInv'
  BY <1>15, LifeAside DEF IsFinished_Size
<1>16. ASSUME IsFinished_Flag PROVE LifeInv'
  BY <1>16, LifeAside DEF IsFinished_Flag, Idle
<1>17. ASSUME NEW a \in Requests, NEW b \in Requests, Join(a, b) PROVE LifeInv'
  BY <1>17 DEF Join, Careful
<1>18. ASSUME NEW a \in Requests, NEW b \in Requests, Disconnect(a, b) PROVE LifeInv'
  BY <1>18, RequestAssumption DEF Disconnect, LifeInv, OwnData
<1>19. ASSUME NEW r \in Requests, Close(r) PROVE LifeInv'
  BY <1>19 DEF Close, MayClose, Careful, LifeInv, OwnData, Younger, Kept, LetGo, Received
<1>20. ASSUME MarkUnused PROVE LifeInv'
  BY <1>20 DEF MarkUnused, LifeInv, OwnData, Younger, Kept, LetGo, Received, Idle
<1>21. ASSUME Release PROVE LifeInv'
  <2>1. LetGo(php.request) /\ php.request \in Requests
    BY <1>21 DEF Release, LifeInv, Kept, TypeInv, Busy
  <2>2. QED
    BY <1>21, <2>1, LifeFree DEF Release
<1>22. ASSUME EndScript PROVE LifeInv'
  BY <1>22, LifeAside DEF EndScript
<1>23. ASSUME NEW r \in Requests, RShutdown_Clean(r) PROVE LifeInv'
  <2>1. LetGo(r)
    BY <1>23 DEF RShutdown_Clean, LifeInv, Kept
  <2>2. QED
    BY <1>23, <2>1, LifeFree DEF RShutdown_Clean, Unlisted
<1>24. ASSUME RShutdown_Done PROVE LifeInv'
  BY <1>24 DEF RShutdown_Done, LifeInv, OwnData, Younger, Kept, LetGo, Received
<1>25. ASSUME NextScript PROVE LifeInv'
  BY <1>25, LifeAside DEF NextScript
<1>26. CASE UNCHANGED vars
  BY <1>26 DEF vars, LifeInv, OwnData, Younger, Kept, LetGo, Received
<1>27. QED
  BY <1>1, <1>2, <1>3, <1>4, <1>5, <1>6, <1>7, <1>8, <1>9, <1>10, <1>11, <1>12, <1>13, <1>14, <1>15, <1>16, <1>17, <1>18, <1>19, <1>20, <1>21, <1>22, <1>23, <1>24, <1>25, <1>26
     DEF Next, Handle, Engine, Script

(* Before the first script no request is started.                          *)
LEMMA InitLife == Init => LifeInv
BY DEF Init, LifeInv, OwnData, Younger, Kept, LetGo, Range, Quiet, Idle

(* The relation is strong enough: no handler works on a released request.  *)
LEMMA LifeIsSafe == TypeInv /\ LifeInv => HandlerSafe
BY RequestAssumption
DEF LifeInv, OwnData, Kept, LetGo, Received, HandlerSafe, Live, TypeInv, TypeOK

(* The handler never works on released request data, and none is released  *)
(* that the SDK may still call for, as long as scripts read every request  *)
(* to its end before they let go of it and do not join: for any number of  *)
(* requests and events, any capacity, with spurious wakeups.               *)
THEOREM HandlerAlwaysSafe ==
  ASSUME Careful
  PROVE  Spec => []HandlerSafe
<1>1. Init => TypeInv /\ LifeInv
  BY InitType, InitLife
<1>2. TypeInv /\ LifeInv /\ [Next]_vars => (TypeInv /\ LifeInv)'
  BY NextType, NextLife
<1>3. TypeInv /\ LifeInv => HandlerSafe
  BY LifeIsSafe
<1>4. QED
  BY <1>1, <1>2, <1>3, PTL DEF Spec
-----------------------------------------------------------------------------
(* The two operations on a queue, for whoever argues about its elements.   *)

(* A push appends the handler's event to the queue of the request it       *)
(* delivers to, or leaves every queue as it is.                            *)
LEMMA PushEffect ==
  ASSUME TypeInv, NEW r \in Requests, Push(r), NEW q, q = handler[r].data
  PROVE  /\ q \in Requests /\ mem[q] = "live" /\ handler[r].pc \in {"push", "woken"}
         /\ Event(r) \in Events /\ Event(r).data = r /\ Event(r).n = sent[r]
         /\ \/ /\ HasRoom(q)
               /\ queue'[q] = Append(queue[q], Event(r))
               /\ \A p \in Requests : p # q => queue'[p] = queue[p]
               /\ handler'[r].pc \in {"idle", "report"}
            \/ /\ ~HasRoom(q) /\ queue' = queue
               /\ handler'[r].pc = IF handler[r].pc = "push" THEN "blocked" ELSE "idle"
         /\ handler'[r].pc # "idle" => handler'[r].data = q
         /\ handler'[r].pc = "report" => TonDebug
         /\ \A h \in Requests : h # r => handler'[h] = handler[h]
         /\ php' = php \/ php'.pc = "woken"
         /\ UNCHANGED <<mem, finished, unused, joined_to, sent, final,
                        open, unused_requests, nodes, phase, script>>
<1> USE DEF TypeInv, TypeOK
<1>1. /\ q \in Requests /\ mem[q] = "live" /\ handler[r].pc \in {"push", "woken"}
      /\ UNCHANGED <<mem, finished, unused, joined_to, sent, final,
                     open, unused_requests, nodes, phase, script>>
  BY DEF Push, Live, Handlers
<1>2. Event(r) \in Events /\ Event(r).data = r /\ Event(r).n = sent[r]
  <2>1. sent[r] \in 1 .. MaxEvents /\ final[r] \in BOOLEAN
    BY <1>1 DEF Busy
  <2>2. QED
    BY <2>1 DEF Event, Events
<1>3. \/ /\ HasRoom(q)
         /\ queue' = [queue EXCEPT ![q] = Append(@, Event(r))]
         /\ handler' = Queued(r)
      \/ /\ ~HasRoom(q) /\ queue' = queue
         /\ handler' = NotQueued(r)
  BY DEF Push
<1>4. CASE HasRoom(q)
  <2>1. /\ queue'[q] = Append(queue[q], Event(r))
        /\ \A p \in Requests : p # q => queue'[p] = queue[p]
    BY <1>1, <1>3, <1>4
  <2>2. /\ handler'[r].pc \in {"idle", "report"}
        /\ handler'[r].pc # "idle" => handler'[r].data = q
        /\ handler'[r].pc = "report" => TonDebug
        /\ \A h \in Requests : h # r => handler'[h] = handler[h]
    BY <1>3, <1>4 DEF Queued, Quiet, Handlers
  <2>3. php' = php \/ php'.pc = "woken"
    BY DEF Push
  <2>4. QED
    BY <1>1, <1>2, <1>4, <2>1, <2>2, <2>3
<1>5. CASE ~HasRoom(q)
  <2>1. /\ handler'[r].pc = IF handler[r].pc = "push" THEN "blocked" ELSE "idle"
        /\ handler'[r].pc # "idle" => handler'[r].data = q
        /\ \A h \in Requests : h # r => handler'[h] = handler[h]
    BY <1>3, <1>5 DEF NotQueued, Quiet, Handlers
  <2>2. queue' = queue /\ (php' = php \/ php'.pc = "woken")
    BY <1>3, <1>5 DEF Push
  <2>3. QED
    BY <1>1, <1>2, <1>5, <2>1, <2>2
<1>6. QED
  BY <1>4, <1>5

(* What a pop does: it moves the first element of a queue to the end of    *)
(* what the script has of its request, and may wake one handler at that    *)
(* queue.                                                                  *)
Popped(q, e) ==
  /\ queue[q] # <<>> /\ e \in Events /\ e \in Range(queue[q]) /\ mem[e.data] = "live"
  /\ queue'[q] = Tail(queue[q])
  /\ \A p \in Requests : p # q => queue'[p] = queue[p]
  /\ got'[e.data] = Append(got[e.data], e.n)
  /\ \A p \in Requests : p # e.data => got'[p] = got[p]
  /\ \A h \in Requests :
       \/ handler'[h] = handler[h]
       \/ /\ h \in BlockedAt(q)
          /\ handler'[h].pc = "woken" /\ handler'[h].data = handler[h].data
  /\ UNCHANGED <<mem, finished, unused, joined_to, sent, final,
                 open, unused_requests, nodes, phase, told>>

(* Pop does that.                                                          *)
LEMMA PopEffect ==
  ASSUME TypeInv, NEW q \in Requests, Pop(q)
  PROVE  Popped(q, queue[q][1])
<1> DEFINE e == queue[q][1]
<1> USE DEF TypeInv, TypeOK
<1>1. queue[q] \in Seq(Events) /\ queue[q] # <<>>
  BY DEF Pop
<1>2. Head(queue[q]) = e /\ e \in Events /\ e \in Range(queue[q])
  BY <1>1, TailElements, RangeTail
<1>3. /\ queue' = [queue EXCEPT ![q] = Tail(@)]
      /\ got' = [got EXCEPT ![e.data] = Append(@, e.n)]
      /\ mem[e.data] = "live" /\ LetOneIn(q)
      /\ UNCHANGED <<mem, finished, unused, joined_to, sent, final,
                     open, unused_requests, nodes, phase, told>>
  BY <1>2 DEF Pop, FirstElement, OtherElements, Live
<1>4. e.data \in Requests
  BY <1>2 DEF Events
<1>5. \A h \in Requests :
        \/ handler'[h] = handler[h]
        \/ /\ h \in BlockedAt(q)
           /\ handler'[h].pc = "woken" /\ handler'[h].data = handler[h].data
  <2>1. CASE handler' = handler
    BY <2>1
  <2>2. ASSUME NEW h \in BlockedAt(q), handler' = [handler EXCEPT ![h].pc = "woken"]
        PROVE  /\ handler'[h].pc = "woken" /\ handler'[h].data = handler[h].data
               /\ \A g \in Requests : g # h => handler'[g] = handler[g]
    BY <2>2 DEF BlockedAt, Handlers
  <2>3. QED
    BY <1>3, <2>1, <2>2 DEF LetOneIn
<1>6. QED
  BY <1>1, <1>2, <1>3, <1>4, <1>5 DEF Popped

-----------------------------------------------------------------------------
(* finished as the destructor reads it, for any script that does not join. *)

Unjoined ==
  \A r \in Requests :
    /\ joined_to[r] = NULL /\ handler[r].pc # "follow"
    /\ handler[r].pc # "idle" => handler[r].data = r

FlagInv == Unjoined /\ FinishedIsFinal

(* Moving a handler without passing the place where it writes finished.    *)
LEMMA FlagAside ==
  ASSUME FlagInv, UNCHANGED <<finished, joined_to, final>>,
         \A r \in Requests :
           /\ \/ handler'[r].pc = handler[r].pc
              \/ /\ handler'[r].pc \in {"idle", "blocked", "woken", "report"}
                 /\ handler[r].pc \in {"push", "blocked", "woken", "report"}
           /\ handler'[r].pc # "idle" => handler'[r].data = handler[r].data
  PROVE  FlagInv'
BY DEF FlagInv, Unjoined, FinishedIsFinal

(* Letting a handler in or waking it by term moves it on in its push.      *)
LEMMA WokenAside ==
  ASSUME TypeInv, FlagInv, NEW q \in Requests, LetOneIn(q) \/ Free(q),
         UNCHANGED <<finished, joined_to, final>>
  PROVE  FlagInv'
<1>1. handler \in [Requests -> Handlers]
  BY DEF TypeInv, TypeOK
<1>2. ASSUME NEW r \in Requests
      PROVE  \/ handler'[r] = handler[r]
             \/ /\ handler[r].pc = "blocked" /\ handler'[r].pc = "woken"
                /\ handler'[r].data = handler[r].data
  BY <1>1 DEF LetOneIn, Free, BlockedAt, Handlers
<1>3. QED
  BY <1>2, FlagAside

(* Every step keeps finished true to what the SDK said.                    *)
LEMMA NextFlag ==
  ASSUME "join" \notin Policy, TypeInv, FlagInv, [Next]_vars
  PROVE  FlagInv'
<1> USE DEF shared, sdk, engine, script
<1>1. ASSUME NEW r \in Requests, Callback(r) PROVE FlagInv'
  <2>1. ~finished[r]
    BY <1>1 DEF Callback, FlagInv, FinishedIsFinal
  <2>2. QED
    BY <1>1, <2>1 DEF Callback, FlagInv, Unjoined, FinishedIsFinal, TypeInv, TypeOK
<1>2. ASSUME NEW r \in Requests, Discard(r) PROVE FlagInv'
  BY <1>2 DEF Discard, SetFinished, Quiet, FlagInv, Unjoined, FinishedIsFinal, TypeInv, TypeOK
<1>3. ASSUME NEW r \in Requests, Resolve(r) PROVE FlagInv'
  BY <1>3 DEF Resolve, FlagInv, Unjoined, FinishedIsFinal, TypeInv, TypeOK
<1>4. ASSUME NEW r \in Requests, Follow(r) PROVE FlagInv'
  BY <1>4 DEF Follow, FlagInv, Unjoined
<1>5. ASSUME NEW r \in Requests, Flag(r) PROVE FlagInv'
  <2>1. handler[r].data = r
    BY <1>5 DEF Flag, FlagInv, Unjoined
  <2>2. /\ finished' = [finished EXCEPT ![r] = final[r]]
        /\ handler' = [handler EXCEPT ![r].pc = "push"]
        /\ UNCHANGED <<joined_to, final>>
    BY <1>5, <2>1 DEF Flag, SetFinished
  <2>3. QED
    BY <2>1, <2>2 DEF FlagInv, Unjoined, FinishedIsFinal, TypeInv, TypeOK, Handlers
<1>6. ASSUME NEW r \in Requests, Push(r) \/ Report(r) \/ SpuriousPushWake(r) PROVE FlagInv'
  <2>1. handler \in [Requests -> Handlers]
    BY DEF TypeInv, TypeOK
  <2>2. UNCHANGED <<finished, joined_to, final>>
    BY <1>6 DEF Push, Report, SpuriousPushWake
  <2>3. \A h \in Requests : h # r => handler'[h] = handler[h]
    BY <1>6, <2>1 DEF Push, Queued, NotQueued, Report, SpuriousPushWake
  <2>4. /\ handler[r].pc \in {"push", "blocked", "woken", "report"}
        /\ handler'[r].pc \in {"idle", "blocked", "woken", "report"}
        /\ handler'[r].pc # "idle" => handler'[r].data = handler[r].data
    BY <1>6, <2>1 DEF Push, Queued, NotQueued, Report, SpuriousPushWake, Quiet, Handlers
  <2>5. QED
    BY <2>2, <2>3, <2>4, FlagAside
<1>7. ASSUME NEW r \in Requests,
             Start(r) \/ Next_Wait(r) \/ IsFinished_Size(r) \/ Close(r)
      PROVE  FlagInv'
  BY <1>7, FlagAside DEF Start, Next_Wait, IsFinished_Size, Close
<1>8. ASSUME NEW r \in Requests, Pop(r) PROVE FlagInv'
  BY <1>8, WokenAside DEF Pop
<1>9. ASSUME NEW r \in Requests, Next_Pop(r) PROVE FlagInv'
  BY <1>8, <1>9 DEF Next_Pop
<1>10. ASSUME Next_InTime \/ Next_Woken PROVE FlagInv'
  <2>1. php.request \in Requests
    BY <1>10 DEF Next_InTime, Next_Woken, TypeInv, Busy
  <2>2. QED
    BY <1>8, <1>10, <2>1, FlagAside DEF Next_InTime, Next_Woken
<1>11. ASSUME Next_TimedOut \/ SpuriousNextWake \/ IsFinished_Flag \/ MarkUnused \/ EndScript
              \/ RShutdown_Done \/ NextScript
       PROVE  FlagInv'
  BY <1>11, FlagAside
     DEF Next_TimedOut, SpuriousNextWake, IsFinished_Flag, MarkUnused, EndScript,
         RShutdown_Done, NextScript
<1>12. ASSUME NEW a \in Requests, NEW b \in Requests, Join(a, b) \/ Disconnect(a, b)
       PROVE  FlagInv'
  BY <1>12, RequestAssumption DEF Join, Disconnect, FlagInv, Unjoined
<1>13. ASSUME Release PROVE FlagInv'
  <2>1. php.request \in Requests
    BY <1>13 DEF Release, TypeInv, Busy
  <2>2. QED
    BY <1>13, <2>1, WokenAside DEF Release
<1>14. ASSUME NEW r \in Requests, RShutdown_Clean(r) PROVE FlagInv'
  BY <1>14, WokenAside DEF RShutdown_Clean
<1>15. CASE UNCHANGED vars
  BY <1>15, FlagAside DEF vars
<1>16. QED
  BY <1>1, <1>2, <1>3, <1>4, <1>5, <1>6, <1>7, <1>9, <1>10, <1>11, <1>12, <1>13, <1>14, <1>15
     DEF Next, Handle, Engine, Script

(* As long as scripts do not join, the flag the destructor reads is what   *)
(* the SDK said last, however early they close a request, with spurious    *)
(* wakeups and in debug builds.                                            *)
THEOREM FlagCorrect ==
  ASSUME "join" \notin Policy
  PROVE  Spec => []FinishedIsFinal
<1>1. Init => TypeInv /\ FlagInv
  BY InitType DEF Init, FlagInv, Unjoined, FinishedIsFinal, Quiet
<1>2. TypeInv /\ FlagInv /\ [Next]_vars => (TypeInv /\ FlagInv)'
  BY NextType, NextFlag
<1>3. FlagInv => FinishedIsFinal
  BY DEF FlagInv
<1>4. QED
  BY <1>1, <1>2, <1>3, PTL DEF Spec

-----------------------------------------------------------------------------
(* Every way into ton_request_data_free, for scripts that let go of their  *)
(* requests before they end, or read to the end those they leave.          *)

Tidy == "leave" \notin Policy \/ Careful

(* Nothing is added to the list once RSHUTDOWN has begun, so that all of   *)
(* its nodes are freed before the heap they are on.                        *)
CleanedInTime ==
  /\ phase # "script" => php.pc # "mark"
  /\ phase = "closing" => unused_requests = {}
  /\ phase # "script" /\ "leave" \notin Policy => open = {}

ReadToEnd == Careful => LifeInv /\ FlagInv

OwnerInv == TypeInv /\ ReleasedOnce /\ CleanedInTime /\ ReadToEnd

(* A step that neither moves a request between its owners nor releases one *)
(* keeps the ownership.                                                    *)
LEMMA OwnedAside ==
  ASSUME ReleasedOnce, UNCHANGED <<mem, open, unused_requests, nodes>>,
         php'.pc \in {"free", "mark"} => php' = php
  PROVE  ReleasedOnce'
BY DEF ReleasedOnce, ListIntact, Live

(* Releasing a request that nobody lists keeps the ownership of the rest.  *)
LEMMA OwnedFree ==
  ASSUME TypeInv, ReleasedOnce, NEW r \in Requests, Free(r),
         r \notin open \cup unused_requests',
         unused_requests' \subseteq unused_requests, open' = open, ListIntact',
         php'.pc \in {"free", "mark"} => php' = php /\ php.request # r
  PROVE  ReleasedOnce'
<1>1. \A q \in Requests : q # r => mem'[q] = mem[q]
  BY DEF Free, TypeInv, TypeOK
<1>2. php.pc \in {"free", "mark"} => php.request \in Requests
  BY DEF TypeInv, Busy
<1>3. open \subseteq Requests /\ unused_requests \subseteq Requests
  BY DEF TypeInv, TypeOK
<1>4. QED
  BY <1>1, <1>2, <1>3 DEF ReleasedOnce, Live

(* Every step hands a request from one owner to the next: the script, the  *)
(* destructor, the list of unused ones.                                    *)
LEMMA NextOwned ==
  TypeInv /\ ReleasedOnce /\ CleanedInTime /\ [Next]_vars => ReleasedOnce'
<1> SUFFICES ASSUME TypeInv, ReleasedOnce, CleanedInTime, [Next]_vars PROVE ReleasedOnce'
  OBVIOUS
<1> USE DEF shared, sdk, engine, script
<1>1. ASSUME NEW r \in Requests, Callback(r) \/ Discard(r) \/ Resolve(r) \/ Follow(r) \/ Flag(r)
             \/ Report(r) \/ SpuriousPushWake(r)
      PROVE  ReleasedOnce'
  BY <1>1, OwnedAside DEF Callback, Discard, Resolve, Follow, Flag, Report, SpuriousPushWake
<1>2. ASSUME NEW r \in Requests, Push(r) PROVE ReleasedOnce'
  BY <1>2, OwnedAside DEF Push, TypeInv, TypeOK
<1>3. ASSUME NEW r \in Requests, Start(r) PROVE ReleasedOnce'
  <2>1. /\ r \notin open \cup unused_requests
        /\ php.pc \in {"free", "mark"} => php.request # r
    BY <1>3 DEF Start, ReleasedOnce, Live
  <2>2. /\ mem' = [mem EXCEPT ![r] = "live"] /\ open' = open \cup {r}
        /\ UNCHANGED <<unused_requests, nodes, php>>
    BY <1>3 DEF Start
  <2>3. /\ mem'[r] = "live"
        /\ \A q \in Requests : q # r => mem'[q] = mem[q]
    BY <2>2 DEF TypeInv, TypeOK
  <2>4. /\ open \cup unused_requests \subseteq Requests
        /\ php.pc \in {"free", "mark"} => php.request \in Requests
    BY DEF TypeInv, TypeOK, Busy
  <2>5. QED
    BY <2>1, <2>2, <2>3, <2>4, RequestAssumption DEF ReleasedOnce, ListIntact, Live
<1>4. ASSUME NEW r \in Requests, Next_Pop(r) \/ Next_Wait(r) \/ IsFinished_Size(r)
      PROVE  ReleasedOnce'
  BY <1>4, OwnedAside DEF Next_Pop, Pop, Next_Wait, IsFinished_Size
<1>5. ASSUME \/ Next_InTime \/ Next_TimedOut \/ Next_Woken \/ SpuriousNextWake
             \/ IsFinished_Flag
      PROVE  ReleasedOnce'
  BY <1>5, OwnedAside
     DEF Next_InTime, Next_TimedOut, Next_Woken, Pop, SpuriousNextWake, IsFinished_Flag, Idle, TypeInv, TypeOK
<1>6. ASSUME NEW a \in Requests, NEW b \in Requests, Join(a, b) \/ Disconnect(a, b)
      PROVE  ReleasedOnce'
  BY <1>6, OwnedAside DEF Join, Disconnect
<1>7. ASSUME NEW r \in Requests, Close(r) PROVE ReleasedOnce'
  BY <1>7 DEF Close, ReleasedOnce, ListIntact, Live
<1>8. ASSUME MarkUnused PROVE ReleasedOnce'
  BY <1>8 DEF MarkUnused, ReleasedOnce, ListIntact, Live, Idle
<1>9. ASSUME Release PROVE ReleasedOnce'
  <2>1. php.request \in Requests /\ php.request \notin open \cup unused_requests
    BY <1>9 DEF Release, ReleasedOnce, TypeInv, Busy
  <2>2. ListIntact'
    BY <1>9 DEF Release, ReleasedOnce, ListIntact
  <2>3. QED
    BY <1>9, <2>1, <2>2, OwnedFree DEF Release, Idle
<1>10. ASSUME NEW r \in Requests, RShutdown_Clean(r) PROVE ReleasedOnce'
  <2>1. /\ r \notin open \cup unused_requests' /\ unused_requests' \subseteq unused_requests
        /\ php.pc \in {"free", "mark"} => php.request # r
        /\ ListIntact'
    BY <1>10 DEF RShutdown_Clean, Unlisted, ReleasedOnce, ListIntact
  <2>2. QED
    BY <1>10, <2>1, OwnedFree DEF RShutdown_Clean
<1>11. ASSUME EndScript \/ RShutdown_Done \/ NextScript PROVE ReleasedOnce'
  <2>1. CASE EndScript \/ RShutdown_Done
    BY <2>1, OwnedAside DEF EndScript, RShutdown_Done
  <2>2. CASE NextScript
    BY <2>2 DEF NextScript, CleanedInTime, ReleasedOnce, ListIntact, Live
  <2>3. QED
    BY <1>11, <2>1, <2>2
<1>12. CASE UNCHANGED vars
  BY <1>12, OwnedAside DEF vars
<1>13. QED
  BY <1>1, <1>2, <1>3, <1>4, <1>5, <1>6, <1>7, <1>8, <1>9, <1>10, <1>11, <1>12
     DEF Next, Handle, Engine, Script

(* A careful script has read what it closes to the end, and then finished  *)
(* is set.                                                                 *)
LEMMA CarefulCloseFrees ==
  ASSUME OwnerInv, Careful, NEW r \in Requests, Close(r)
  PROVE  php'.pc = "free"
<1>1. final[r] /\ sent[r] \in Range(got[r])
  BY DEF Close, MayClose, Careful, Received
<1>2. handler[r].pc = "idle"
  BY <1>1 DEF OwnerInv, ReadToEnd, LifeInv, Younger, TypeInv, TypeOK
<1>3. finished[r]
  BY <1>1, <1>2 DEF OwnerInv, ReadToEnd, FlagInv, FinishedIsFinal
<1>4. QED
  BY <1>3 DEF Close

(* A step that neither begins nor ends a script, nor closes a request.     *)
LEMMA CleanedAside ==
  ASSUME CleanedInTime, UNCHANGED <<phase, unused_requests>>, open' \subseteq open,
         php'.pc = "mark" => php.pc = "mark"
  PROVE  CleanedInTime'
BY DEF CleanedInTime

(* The list is empty by the time RSHUTDOWN is through, and stays so.       *)
LEMMA NextCleaned ==
  ASSUME Tidy, OwnerInv, [Next]_vars
  PROVE  CleanedInTime'
<1> USE DEF shared, sdk, engine, script
<1>0. CleanedInTime /\ TypeInv
  BY DEF OwnerInv
<1>1. ASSUME NEW r \in Requests, Callback(r) \/ Discard(r) \/ Resolve(r) \/ Follow(r) \/ Flag(r)
             \/ Report(r) \/ SpuriousPushWake(r)
      PROVE  CleanedInTime'
  BY <1>0, <1>1, CleanedAside
     DEF Callback, Discard, Resolve, Follow, Flag, Report, SpuriousPushWake
<1>2. ASSUME NEW r \in Requests, Push(r) PROVE CleanedInTime'
  BY <1>0, <1>2, CleanedAside DEF Push, TypeInv, TypeOK
<1>3. ASSUME NEW r \in Requests, Start(r) PROVE CleanedInTime'
  BY <1>0, <1>3 DEF Start, CleanedInTime
<1>4. ASSUME NEW r \in Requests, Next_Pop(r) \/ Next_Wait(r) \/ IsFinished_Size(r)
      PROVE  CleanedInTime'
  BY <1>0, <1>4, CleanedAside DEF Next_Pop, Pop, Next_Wait, IsFinished_Size
<1>5. ASSUME \/ Next_InTime \/ Next_TimedOut \/ Next_Woken \/ SpuriousNextWake
             \/ IsFinished_Flag
      PROVE  CleanedInTime'
  BY <1>0, <1>5, CleanedAside
     DEF Next_InTime, Next_TimedOut, Next_Woken, Pop, SpuriousNextWake, IsFinished_Flag, Idle,
         TypeInv, TypeOK
<1>6. ASSUME NEW a \in Requests, NEW b \in Requests, Join(a, b) \/ Disconnect(a, b)
      PROVE  CleanedInTime'
  BY <1>0, <1>6, CleanedAside DEF Join, Disconnect
<1>7. ASSUME NEW r \in Requests, Close(r) PROVE CleanedInTime'
  <2>1. /\ phase' = phase /\ unused_requests' = unused_requests
        /\ open' \subseteq open /\ r \in open
    BY <1>7 DEF Close
  <2>2. CASE Careful
    BY <1>0, <1>7, <2>1, <2>2, CarefulCloseFrees, CleanedAside
  <2>3. CASE "leave" \notin Policy
    <3>1. phase = "script"
      BY <1>0, <2>1, <2>3 DEF CleanedInTime
    <3>2. QED
      BY <2>1, <3>1 DEF CleanedInTime
  <2>4. QED
    BY <2>2, <2>3 DEF Tidy
<1>8. ASSUME MarkUnused PROVE CleanedInTime'
  BY <1>0, <1>8 DEF MarkUnused, CleanedInTime, TypeInv, TypeOK, Idle
<1>9. ASSUME Release PROVE CleanedInTime'
  BY <1>0, <1>9, CleanedAside DEF Release, Idle
<1>10. ASSUME NEW r \in Requests, RShutdown_Clean(r) PROVE CleanedInTime'
  BY <1>0, <1>10 DEF RShutdown_Clean, CleanedInTime
<1>11. ASSUME EndScript \/ RShutdown_Done \/ NextScript PROVE CleanedInTime'
  BY <1>0, <1>11 DEF EndScript, MayEnd, RShutdown_Done, NextScript, CleanedInTime
<1>12. CASE UNCHANGED vars
  BY <1>0, <1>12, CleanedAside DEF vars
<1>13. QED
  BY <1>1, <1>2, <1>3, <1>4, <1>5, <1>6, <1>7, <1>8, <1>9, <1>10, <1>11, <1>12
     DEF Next, Handle, Engine, Script

(* For scripts that let go of every request before they end, whenever and  *)
(* in whatever state, or read it to the end: request data is released at   *)
(* most once, when neither a resource nor the list of unused requests      *)
(* holds it, and no RSHUTDOWN and no destructor meets a node of the list   *)
(* that went with the heap of an earlier script.                           *)
THEOREM OwnershipCorrect ==
  ASSUME Tidy
  PROVE  Spec => []ReleasedOnce
<1>1. Init => OwnerInv
  BY InitType, InitLife
     DEF Init, OwnerInv, ReleasedOnce, ListIntact, CleanedInTime, ReadToEnd, Idle,
         FlagInv, Unjoined, FinishedIsFinal, Quiet
<1>2. OwnerInv /\ [Next]_vars => OwnerInv'
  <2> SUFFICES ASSUME OwnerInv, [Next]_vars PROVE OwnerInv'
    OBVIOUS
  <2>1. TypeInv' /\ ReleasedOnce'
    BY NextType, NextOwned DEF OwnerInv
  <2>2. CleanedInTime'
    BY NextCleaned
  <2>3. ReadToEnd'
    <3>1. CASE Careful
      <4>1. "join" \notin Policy
        BY <3>1 DEF Careful
      <4>2. QED
        BY <3>1, <4>1, NextLife, NextFlag DEF OwnerInv, ReadToEnd
    <3>2. CASE ~Careful
      BY <3>2 DEF ReadToEnd
    <3>3. QED
      BY <3>1, <3>2
  <2>4. QED
    BY <2>1, <2>2, <2>3 DEF OwnerInv
<1>3. OwnerInv => ReleasedOnce
  BY DEF OwnerInv
<1>4. QED
  BY <1>1, <1>2, <1>3, PTL DEF Spec
=============================================================================
