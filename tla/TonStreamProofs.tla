---------------------------- MODULE TonStreamProofs ----------------------------
(***************************************************************************)
(* What a script that reads every request to its end gets out of it, for   *)
(* any number of requests and events and any capacity: nothing is left in  *)
(* a queue that is destroyed, and, as long as no wait returns without a    *)
(* signal, each request is the stream of events that EventStream promises. *)
(***************************************************************************)
EXTENDS TonRequestProofs

(* The events of a request are queued in the order they were delivered,    *)
(* and there is nothing behind the youngest.                               *)
Sorted ==
  \A r \in Requests : \A i, j \in DOMAIN queue[r] : i < j => queue[r][i].n < queue[r][j].n
Drained == \A r \in Requests : sent[r] \in Range(got[r]) => queue[r] = <<>>

(* The numbers in use are numbers. *)
LEMMA NumbersAreInt ==
  ASSUME TypeInv, NEW r \in Requests
  PROVE  /\ queue[r] \in Seq(Events) /\ got[r] \in Seq(1 .. MaxEvents)
         /\ sent[r] \in Nat /\ MaxEvents \in Nat /\ Capacity \in Nat \ {0}
         /\ Len(queue[r]) \in Nat /\ DOMAIN queue[r] = 1 .. Len(queue[r])
         /\ Len(got[r]) \in Nat /\ DOMAIN got[r] = 1 .. Len(got[r])
         /\ \A i \in DOMAIN queue[r] :
              /\ queue[r][i] \in Events /\ queue[r][i] \in Range(queue[r])
              /\ queue[r][i].n \in Nat
         /\ \A n \in Range(got[r]) : n \in Nat
<1> USE RequestAssumption
<1>1. queue[r] \in Seq(Events) /\ got[r] \in Seq(1 .. MaxEvents) /\ sent[r] \in 0 .. MaxEvents
  BY DEF TypeInv, TypeOK
<1>2. /\ Len(queue[r]) \in Nat /\ DOMAIN queue[r] = 1 .. Len(queue[r])
      /\ Len(got[r]) \in Nat /\ DOMAIN got[r] = 1 .. Len(got[r])
      /\ \A i \in DOMAIN queue[r] : queue[r][i] \in Events
  BY <1>1
<1>3. \A i \in DOMAIN queue[r] : queue[r][i] \in Range(queue[r]) /\ queue[r][i].n \in Nat
  BY <1>2 DEF Range, Events
<1>4. \A n \in Range(got[r]) : n \in 1 .. MaxEvents
  BY <1>1, RangeOfSeq
<1>5. QED
  BY <1>1, <1>2, <1>3, <1>4

(* Each step of a careful script, and of a handler, keeps the queues in    *)
(* order.                                                                  *)
LEMMA NextSorted ==
  ASSUME Careful, TypeInv, LifeInv, Sorted, Drained, [Next]_vars
  PROVE  Sorted' /\ Drained'
<1> USE DEF shared, sdk, engine, script
<1>1. CASE UNCHANGED <<queue, sent, got>>
  BY <1>1 DEF Sorted, Drained
<1>2. ASSUME NEW r \in Requests, Callback(r) PROVE Sorted' /\ Drained'
  <2>1. /\ sent'[r] = sent[r] + 1 /\ \A q \in Requests : q # r => sent'[q] = sent[q]
        /\ UNCHANGED <<queue, got>>
    BY <1>2 DEF Callback, TypeInv, TypeOK
  <2>2. \A n \in Range(got[r]) : n \in Nat /\ n <= sent[r]
    BY NumbersAreInt DEF LifeInv, Younger
  <2>3. sent'[r] \notin Range(got[r])
    BY <2>1, <2>2, NumbersAreInt
  <2>4. QED
    BY <2>1, <2>3 DEF Sorted, Drained
<1>3. ASSUME NEW r \in Requests, Push(r) PROVE Sorted' /\ Drained'
  <2>1. handler[r].data = r
    BY <1>3 DEF Push, LifeInv, OwnData
  <2>2. /\ Event(r) \in Events /\ Event(r).n = sent[r] /\ handler[r].pc # "idle"
        /\ \/ /\ queue'[r] = Append(queue[r], Event(r))
              /\ \A p \in Requests : p # r => queue'[p] = queue[p]
           \/ queue' = queue
        /\ UNCHANGED <<sent, got>>
    BY <1>3, <2>1, PushEffect
  <2>3. CASE queue' = queue
    BY <1>1, <2>2, <2>3
  <2>4. CASE /\ queue'[r] = Append(queue[r], Event(r))
             /\ \A p \in Requests : p # r => queue'[p] = queue[p]
    <3> DEFINE s == queue[r]
    <3>1. /\ Len(s) \in Nat /\ DOMAIN s = 1 .. Len(s) /\ DOMAIN queue'[r] = 1 .. Len(s) + 1
          /\ \A i \in 1 .. Len(s) : queue'[r][i] = s[i]
          /\ queue'[r][Len(s) + 1] = Event(r)
      BY <2>2, <2>4, AppendElements, NumbersAreInt
    <3>2. \A i \in 1 .. Len(s) : s[i].n < sent[r]
      BY <2>2, <3>1, NumbersAreInt DEF LifeInv, Younger
    <3>3. \A i, j \in DOMAIN queue'[r] : i < j => queue'[r][i].n < queue'[r][j].n
      <4>1. ASSUME NEW i \in 1 .. Len(s) + 1, NEW j \in 1 .. Len(s) + 1, i < j
            PROVE  queue'[r][i].n < queue'[r][j].n
        <5>1. CASE j = Len(s) + 1
          BY <2>2, <3>1, <3>2, <4>1, <5>1
        <5>2. CASE j # Len(s) + 1
          <6>1. i \in 1 .. Len(s) /\ j \in 1 .. Len(s)
            BY <3>1, <4>1, <5>2
          <6>2. QED
            BY <3>1, <4>1, <6>1 DEF Sorted
        <5>3. QED
          BY <5>1, <5>2
      <4>2. QED
        BY <3>1, <4>1
    <3>4. sent[r] \notin Range(got[r])
      <4>1. \A n \in Range(got[r]) : n \in Nat /\ n < sent[r]
        BY <2>2, NumbersAreInt DEF LifeInv, Younger
      <4>2. QED
        BY <4>1, NumbersAreInt
    <3>5. QED
      BY <2>2, <2>4, <3>3, <3>4 DEF Sorted, Drained
  <2>5. QED
    BY <2>2, <2>3, <2>4
<1>4. ASSUME NEW q \in Requests, Pop(q) PROVE Sorted' /\ Drained'
  <2> DEFINE e == queue[q][1]
             s == queue[q]
  <2>1. /\ s # <<>> /\ e \in Events /\ e \in Range(s)
        /\ queue'[q] = Tail(s)
        /\ \A p \in Requests : p # q => queue'[p] = queue[p]
        /\ got'[e.data] = Append(got[e.data], e.n)
        /\ \A p \in Requests : p # e.data => got'[p] = got[p]
        /\ UNCHANGED sent
    BY <1>4, PopEffect DEF Popped
  <2>2. e.data = q /\ e.n \in 1 .. MaxEvents
    BY <2>1 DEF LifeInv, Younger, Events
  <2>3. /\ Len(s) \in Nat /\ Len(s) >= 1 /\ Len(Tail(s)) = Len(s) - 1
        /\ DOMAIN s = 1 .. Len(s) /\ DOMAIN queue'[q] = 1 .. Len(s) - 1
        /\ \A i \in 1 .. Len(s) - 1 : queue'[q][i] = s[i + 1]
    BY <2>1, TailElements, NumbersAreInt
  <2>4. \A i, j \in DOMAIN queue'[q] : i < j => queue'[q][i].n < queue'[q][j].n
    <3>1. ASSUME NEW i \in 1 .. Len(s) - 1, NEW j \in 1 .. Len(s) - 1, i < j
          PROVE  queue'[q][i].n < queue'[q][j].n
      <4>1. i + 1 \in DOMAIN s /\ j + 1 \in DOMAIN s /\ i + 1 < j + 1
        BY <2>3, <3>1
      <4>2. s[i + 1].n < s[j + 1].n
        BY <4>1 DEF Sorted
      <4>3. QED
        BY <2>3, <4>2
    <3>2. QED
      BY <2>3, <3>1
  <2>5. sent'[q] \in Range(got'[q]) => queue'[q] = <<>>
    <3>1. Range(got'[q]) = Range(got[q]) \cup {e.n}
      <4>1. \A n \in 1 .. MaxEvents : Range(Append(got[q], n)) = Range(got[q]) \cup {n}
        BY NumbersAreInt, RangeAppend
      <4>2. QED
        BY <2>1, <2>2, <4>1
    <3>2. CASE sent[q] \in Range(got[q])
      BY <2>1, <3>2 DEF Drained
    <3>3. CASE sent[q] = e.n
      <4>1. \A i \in 1 .. Len(s) : s[i].n \in Nat /\ s[i].n <= sent[q]
        BY <2>3, NumbersAreInt DEF LifeInv, Younger
      <4>2. \A i \in 1 .. Len(s) : i > 1 => e.n < s[i].n
        BY <2>3 DEF Sorted
      <4>3. Len(s) = 1
        <5>1. SUFFICES ASSUME Len(s) # 1 PROVE FALSE
          OBVIOUS
        <5>2. 2 \in 1 .. Len(s)
          BY <2>3, <5>1, \A l \in Nat : l >= 1 /\ l # 1 => 2 \in 1 .. l
        <5>3. s[2].n \in Nat /\ s[2].n <= sent[q] /\ e.n < s[2].n
          BY <4>1, <4>2, <5>2
        <5>4. QED
          BY <2>2, <3>3, <5>3
      <4>4. QED
        BY <2>1, <4>3, TailOfOne, NumbersAreInt
    <3>4. QED
      BY <2>1, <3>1, <3>2, <3>3
  <2>6. QED
    BY <2>1, <2>2, <2>4, <2>5 DEF Sorted, Drained
<1>5. ASSUME NEW r \in Requests, Next_Pop(r) PROVE Sorted' /\ Drained'
  BY <1>4, <1>5 DEF Next_Pop
<1>6. ASSUME Next_InTime \/ Next_Woken PROVE Sorted' /\ Drained'
  BY <1>1, <1>4, <1>6 DEF Next_InTime, Next_Woken, TypeInv, Busy
<1>7. ASSUME NEW r \in Requests,
             \/ Discard(r) \/ Resolve(r) \/ Follow(r) \/ Flag(r) \/ Report(r) \/ SpuriousPushWake(r)
             \/ Start(r) \/ Next_Wait(r) \/ IsFinished_Size(r) \/ Close(r) \/ RShutdown_Clean(r)
      PROVE  Sorted' /\ Drained'
  BY <1>1, <1>7 DEF Discard, Resolve, Follow, Flag, Report, SpuriousPushWake, Start, Next_Wait,
                    IsFinished_Size, Close, RShutdown_Clean
<1>8. ASSUME \/ Next_TimedOut \/ SpuriousNextWake \/ IsFinished_Flag \/ MarkUnused \/ Release
             \/ EndScript \/ RShutdown_Done \/ NextScript
      PROVE  Sorted' /\ Drained'
  BY <1>1, <1>8 DEF Next_TimedOut, SpuriousNextWake, IsFinished_Flag, MarkUnused, Release,
                    EndScript, RShutdown_Done, NextScript
<1>9. ASSUME NEW a \in Requests, NEW b \in Requests, Join(a, b) \/ Disconnect(a, b)
      PROVE  Sorted' /\ Drained'
  BY <1>1, <1>9 DEF Join, Disconnect
<1>10. CASE UNCHANGED vars
  BY <1>1, <1>10 DEF vars
<1>11. QED
  BY <1>2, <1>3, <1>5, <1>6, <1>7, <1>8, <1>9, <1>10 DEF Next, Handle, Engine, Script

(* A request is released after its last event was received, and then       *)
(* nothing is behind it.                                                   *)
LEMMA DrainedIsEnough == TypeInv /\ LifeInv /\ Drained => NothingLeftBehind
BY DEF LifeInv, Kept, LetGo, Received, Drained, NothingLeftBehind, TypeInv, TypeOK

(* A script that reads every request to its end and does not join leaves   *)
(* no element in a queue that is destroyed, although the loop that is to   *)
(* free them pops nothing once the queue is terminated; also with spurious *)
(* wakeups.                                                                *)
THEOREM NothingIsLeftBehind ==
  ASSUME Careful
  PROVE  Spec => []NothingLeftBehind
<1>1. Init => TypeInv /\ LifeInv /\ Sorted /\ Drained
  <2>1. Init => Sorted /\ Drained
    BY DEF Init, Sorted, Drained
  <2>2. QED
    BY <2>1, InitType, InitLife
<1>2. TypeInv /\ LifeInv /\ Sorted /\ Drained /\ [Next]_vars
        => (TypeInv /\ LifeInv /\ Sorted /\ Drained)'
  BY NextType, NextLife, NextSorted
<1>3. TypeInv /\ LifeInv /\ Sorted /\ Drained => NothingLeftBehind
  BY DrainedIsEnough
<1>4. QED
  BY <1>1, <1>2, <1>3, PTL DEF Spec

-----------------------------------------------------------------------------
(* The stream.  A wait that returns without a signal breaks it: the push   *)
(* finds the queue still full, fails, and the event is lost.               *)

Taken(r) == Len(got[r])
Held(r) == Len(queue[r])

(* The events received, those in the queue and the one in hand are all     *)
(* events so far, in this order.                                           *)
InOrder ==
  \A r \in Requests :
    /\ \A i \in DOMAIN got[r] : got[r][i] = i
    /\ \A i \in DOMAIN queue[r] : queue[r][i].n = Taken(r) + i
    /\ sent[r] = Taken(r) + Held(r) + (IF handler[r].pc = "idle" THEN 0 ELSE 1)

(* A handler is woken for room that nobody else takes, and none is called  *)
(* for a request that was marked unused.                                   *)
Smooth ==
  \A r \in Requests :
    /\ handler[r].pc # "discard" /\ (unused[r] => LetGo(r))
    /\ handler[r].pc = "woken" => Held(r) < Capacity

Reading == php.pc \in {"wait", "timed", "woken", "sized"} => php.request \in open

StreamInv == InOrder /\ Smooth /\ Reading

(* Counting is in natural numbers.                                         *)
LEMMA Counts ==
  ASSUME TypeInv, NEW r \in Requests
  PROVE  /\ Taken(r) \in Nat /\ DOMAIN got[r] = 1 .. Taken(r)
         /\ Held(r) \in Nat /\ DOMAIN queue[r] = 1 .. Held(r) /\ Held(r) <= Capacity
         /\ (queue[r] = <<>> <=> Held(r) = 0)
         /\ sent[r] \in Nat /\ Capacity \in Nat \ {0}
<1>1. queue[r] = <<>> <=> Len(queue[r]) = 0
  <2>1. \A s \in Seq(Events) : s = <<>> <=> Len(s) = 0
    OBVIOUS
  <2>2. QED
    BY <2>1, NumbersAreInt
<1>2. QED
  BY <1>1, NumbersAreInt DEF Taken, Held, TypeInv, TypeOK

(* A step that delivers, queues and receives nothing. *)
LEMMA StreamAside ==
  ASSUME StreamInv, Reading', UNCHANGED <<sent, queue, got, unused>>,
         \A r \in Requests :
           /\ handler'[r].pc = "idle" <=> handler[r].pc = "idle"
           /\ handler'[r].pc \in {"woken", "discard"} => handler'[r].pc = handler[r].pc
           /\ LetGo(r) => LetGo(r)'
  PROVE  StreamInv'
<1>1. \A r \in Requests : Taken(r)' = Taken(r) /\ Held(r)' = Held(r)
  BY DEF Taken, Held
<1>2. InOrder'
  BY <1>1 DEF StreamInv, InOrder
<1>3. Smooth'
  BY <1>1 DEF StreamInv, Smooth
<1>4. QED
  BY <1>2, <1>3 DEF StreamInv

(* What a pop takes is the next event.                                     *)
LEMMA PopIsNext ==
  ASSUME Careful, TypeInv, LifeInv, StreamInv, NEW q \in Requests, Pop(q)
  PROVE  /\ Taken(q) < sent[q]
         /\ got' = [got EXCEPT ![q] = Append(@, Taken(q) + 1)]
<1> DEFINE e == queue[q][1]
<1>1. queue[q] # <<>> /\ e \in Range(queue[q])
  BY PopEffect DEF Popped
<1>2. e.data = q
  BY <1>1 DEF LifeInv, Younger
<1>3. Held(q) \in Nat /\ Held(q) # 0 /\ 1 \in DOMAIN queue[q]
  BY <1>1, Counts
<1>4. e.n = Taken(q) + 1
  BY <1>3 DEF StreamInv, InOrder
<1>5. Taken(q) < sent[q]
  BY <1>3, Counts DEF StreamInv, InOrder
<1>6. Head(queue[q]) = e
  BY <1>1, TailElements, NumbersAreInt
<1>7. got' = [got EXCEPT ![q] = Append(@, Taken(q) + 1)]
  BY <1>2, <1>4, <1>6 DEF Pop, FirstElement
<1>8. QED
  BY <1>5, <1>7

(* A pop keeps the order. *)
LEMMA StreamPop ==
  ASSUME Careful, TypeInv, LifeInv, StreamInv, NEW q \in Requests, Pop(q), Reading'
  PROVE  StreamInv'
<1> DEFINE s == queue[q]
<1>1. /\ s # <<>> /\ queue'[q] = Tail(s)
      /\ \A p \in Requests : p # q => queue'[p] = queue[p]
      /\ \A h \in Requests :
           \/ handler'[h] = handler[h]
           \/ h \in BlockedAt(q) /\ handler'[h].pc = "woken"
      /\ UNCHANGED <<sent, unused, mem, open>>
  BY PopEffect DEF Popped
<1>2. /\ got'[q] = Append(got[q], Taken(q) + 1)
      /\ \A p \in Requests : p # q => got'[p] = got[p]
  BY PopIsNext DEF TypeInv, TypeOK
<1>3. /\ Held(q) \in Nat /\ Held(q) >= 1 /\ Held(q) <= Capacity
      /\ Held(q)' = Held(q) - 1 /\ DOMAIN queue'[q] = 1 .. Held(q) - 1
      /\ \A i \in 1 .. Held(q) - 1 : queue'[q][i] = queue[q][i + 1] /\ i + 1 \in DOMAIN queue[q]
  <2>1. /\ Len(Tail(s)) = Len(s) - 1 /\ DOMAIN Tail(s) = 1 .. Len(s) - 1
        /\ \A i \in 1 .. Len(s) - 1 : Tail(s)[i] = s[i + 1]
    BY <1>1, TailElements, NumbersAreInt
  <2>2. /\ Held(q)' = Held(q) - 1 /\ DOMAIN queue'[q] = 1 .. Held(q) - 1
        /\ \A i \in 1 .. Held(q) - 1 : queue'[q][i] = queue[q][i + 1]
    BY <1>1, <2>1 DEF Held
  <2>3. Held(q) \in Nat /\ Held(q) # 0 /\ DOMAIN queue[q] = 1 .. Held(q)
    BY <1>1, Counts
  <2>4. QED
    BY <2>2, <2>3, Counts
<1>4. /\ Taken(q) \in Nat /\ Taken(q)' = Taken(q) + 1 /\ DOMAIN got'[q] = 1 .. Taken(q) + 1
      /\ \A i \in 1 .. Taken(q) : got'[q][i] = got[q][i] /\ i \in DOMAIN got[q]
      /\ got'[q][Taken(q) + 1] = Taken(q) + 1
  <2>1. got[q] \in Seq(Nat) /\ Taken(q) + 1 \in Nat
    BY NumbersAreInt, Counts
  <2>2. /\ Len(got'[q]) = Len(got[q]) + 1 /\ DOMAIN got'[q] = 1 .. Len(got[q]) + 1
        /\ \A i \in 1 .. Len(got[q]) : got'[q][i] = got[q][i]
        /\ got'[q][Len(got[q]) + 1] = Taken(q) + 1
    BY <1>2, <2>1, AppendElements
  <2>3. QED
    BY <2>2, Counts DEF Taken
<1>5. \A p \in Requests : p # q => Taken(p)' = Taken(p) /\ Held(p)' = Held(p)
  BY <1>1, <1>2 DEF Taken, Held
<1>6. \A h \in Requests : /\ handler'[h].pc = "idle" <=> handler[h].pc = "idle"
                          /\ h # q => handler'[h] = handler[h]
                          /\ handler'[h].pc = "discard" => handler[h].pc = "discard"
  BY <1>1 DEF BlockedAt, LifeInv, OwnData
<1>7. InOrder'
  <2>1. ASSUME NEW p \in Requests, p # q
        PROVE  /\ \A i \in DOMAIN got'[p] : got'[p][i] = i
               /\ \A i \in DOMAIN queue'[p] : queue'[p][i].n = Taken(p)' + i
               /\ sent'[p] = Taken(p)' + Held(p)' + (IF handler'[p].pc = "idle" THEN 0 ELSE 1)
    BY <1>1, <1>2, <1>5, <1>6, <2>1 DEF StreamInv, InOrder
  <2>2. \A i \in DOMAIN got'[q] : got'[q][i] = i
    BY <1>4 DEF StreamInv, InOrder
  <2>3. \A i \in DOMAIN queue'[q] : queue'[q][i].n = Taken(q)' + i
    <3>1. ASSUME NEW i \in 1 .. Held(q) - 1 PROVE queue'[q][i].n = Taken(q)' + i
      <4>1. queue[q][i + 1].n = Taken(q) + (i + 1)
        BY <1>3 DEF StreamInv, InOrder
      <4>2. QED
        BY <1>3, <1>4, <4>1
    <3>2. QED
      BY <1>3, <3>1
  <2>4. sent'[q] = Taken(q)' + Held(q)' + (IF handler'[q].pc = "idle" THEN 0 ELSE 1)
    BY <1>1, <1>3, <1>4, <1>6, Counts DEF StreamInv, InOrder
  <2>5. QED
    BY <2>1, <2>2, <2>3, <2>4 DEF InOrder
<1>8. Smooth'
  <2>1. Held(q)' < Capacity
    BY <1>3, Counts
  <2>2. \A p \in Requests : LetGo(p)' <=> LetGo(p)
    BY <1>1 DEF LetGo
  <2>3. QED
    BY <1>1, <1>5, <1>6, <2>1, <2>2 DEF StreamInv, Smooth
<1>9. QED
  BY <1>7, <1>8 DEF StreamInv

(* A push that finds room puts the event in hand behind the others.        *)
LEMMA StreamPush ==
  ASSUME Careful, TypeInv, LifeInv, StreamInv, NEW r \in Requests, Push(r)
  PROVE  StreamInv'
<1> DEFINE s == queue[r]
<1>1. handler[r].data = r
  BY DEF Push, LifeInv, OwnData
<1>2. /\ handler[r].pc \in {"push", "woken"} /\ Event(r) \in Events /\ Event(r).n = sent[r]
      /\ \/ /\ HasRoom(r)
            /\ queue'[r] = Append(s, Event(r))
            /\ \A p \in Requests : p # r => queue'[p] = queue[p]
            /\ handler'[r].pc \in {"idle", "report"}
         \/ /\ ~HasRoom(r) /\ queue' = queue
            /\ handler'[r].pc = IF handler[r].pc = "push" THEN "blocked" ELSE "idle"
      /\ handler'[r].pc # "report"
      /\ \A h \in Requests : h # r => handler'[h] = handler[h]
      /\ php' = php \/ php'.pc = "woken"
      /\ UNCHANGED <<sent, unused, mem, open, got>>
  BY <1>1, PushEffect DEF Careful, script
<1>3. Reading'
  <2>1. php'.pc = "woken" =>
          \/ php' = php
          \/ php.pc = "wait" /\ php'.request = php.request
    BY DEF Push, TypeInv, TypeOK
  <2>2. QED
    BY <1>2, <2>1 DEF StreamInv, Reading
<1>4. \A p \in Requests : (LetGo(p)' <=> LetGo(p)) /\ Taken(p)' = Taken(p)
  BY <1>2 DEF LetGo, Taken
<1>5. CASE HasRoom(r)
  <2>1. /\ handler'[r].pc = "idle" /\ queue'[r] = Append(s, Event(r))
        /\ \A p \in Requests : p # r => queue'[p] = queue[p] /\ Held(p)' = Held(p)
    BY <1>2, <1>5 DEF Held
  <2>2. /\ Held(r)' = Held(r) + 1 /\ DOMAIN queue'[r] = 1 .. Held(r) + 1
        /\ \A i \in 1 .. Held(r) : queue'[r][i] = queue[r][i]
        /\ queue'[r][Held(r) + 1] = Event(r)
    <3>1. s \in Seq(Events)
      BY NumbersAreInt
    <3>2. /\ Len(queue'[r]) = Len(s) + 1 /\ DOMAIN queue'[r] = 1 .. Len(s) + 1
          /\ \A i \in 1 .. Len(s) : queue'[r][i] = s[i]
          /\ queue'[r][Len(s) + 1] = Event(r)
      BY <1>2, <2>1, <3>1, AppendElements
    <3>3. QED
      BY <3>2 DEF Held
  <2>3. sent[r] = Taken(r) + Held(r) + 1
    BY <1>2 DEF StreamInv, InOrder
  <2>4. \A i \in DOMAIN queue'[r] : queue'[r][i].n = Taken(r) + i
    <3>1. ASSUME NEW i \in 1 .. Held(r) + 1 PROVE queue'[r][i].n = Taken(r) + i
      <4>1. CASE i = Held(r) + 1
        BY <1>2, <2>2, <2>3, <4>1, Counts
      <4>2. CASE i # Held(r) + 1
        <5>1. i \in 1 .. Held(r) /\ i \in DOMAIN queue[r]
          BY <4>2, Counts
        <5>2. QED
          BY <2>2, <5>1 DEF StreamInv, InOrder
      <4>3. QED
        BY <4>1, <4>2
    <3>2. QED
      BY <2>2, <3>1
  <2>5. sent'[r] = Taken(r)' + Held(r)' + (IF handler'[r].pc = "idle" THEN 0 ELSE 1)
    BY <1>2, <1>4, <2>1, <2>2, <2>3, Counts
  <2>6. InOrder'
    BY <1>2, <1>4, <2>1, <2>4, <2>5 DEF StreamInv, InOrder
  <2>7. Smooth'
    BY <1>2, <1>4, <2>1 DEF StreamInv, Smooth
  <2>8. QED
    BY <1>3, <2>6, <2>7 DEF StreamInv
<1>6. CASE ~HasRoom(r)
  <2>1. handler[r].pc = "push"
    BY <1>2, <1>6 DEF StreamInv, Smooth, HasRoom, Held
  <2>2. handler'[r].pc = "blocked" /\ queue' = queue
    BY <1>2, <1>6, <2>1
  <2>3. QED
    BY <1>2, <1>3, <1>4, <2>1, <2>2, StreamAside
<1>7. QED
  BY <1>5, <1>6

(* Every step of a careful script and of the handlers keeps the stream.    *)
LEMMA NextStream ==
  ASSUME Careful, ~SpuriousWakeups, TypeInv, LifeInv, StreamInv, [Next]_vars
  PROVE  StreamInv'
<1> USE DEF shared, sdk, engine, script
<1>1. ASSUME NEW r \in Requests, Callback(r) PROVE StreamInv'
  <2>1. ~unused[r]
    BY <1>1, LetGoIsDone DEF Callback, StreamInv, Smooth
  <2>2. /\ handler[r].pc = "idle" /\ handler'[r].pc = "resolve"
        /\ \A h \in Requests : h # r => handler'[h] = handler[h] /\ sent'[h] = sent[h]
        /\ sent'[r] = sent[r] + 1
        /\ UNCHANGED <<shared, engine, script>>
    BY <1>1, <2>1 DEF Callback, TypeInv, TypeOK
  <2>3. \A h \in Requests : Taken(h)' = Taken(h) /\ Held(h)' = Held(h) /\ (LetGo(h)' <=> LetGo(h))
    BY <2>2 DEF Taken, Held, LetGo
  <2>4. sent'[r] = Taken(r)' + Held(r)' + (IF handler'[r].pc = "idle" THEN 0 ELSE 1)
    <3>1. sent[r] = Taken(r) + Held(r)
      BY <2>2, Counts DEF StreamInv, InOrder
    <3>2. QED
      BY <2>2, <2>3, <3>1
  <2>5. InOrder'
    BY <2>2, <2>3, <2>4 DEF StreamInv, InOrder
  <2>6. Smooth'
    BY <2>2, <2>3 DEF StreamInv, Smooth
  <2>7. QED
    BY <2>2, <2>5, <2>6 DEF StreamInv, Reading
<1>2. ASSUME NEW r \in Requests, Discard(r) \/ Follow(r) \/ Report(r) \/ SpuriousPushWake(r)
      PROVE  StreamInv'
  BY <1>2 DEF Discard, Follow, Report, SpuriousPushWake, StreamInv, Smooth, LifeInv, OwnData
<1>3. ASSUME NEW r \in Requests, Resolve(r) \/ Flag(r) PROVE StreamInv'
  <2>1. /\ handler[r].pc \in {"resolve", "flag"}
        /\ handler'[r].pc \in {"flag", "follow", "push"}
        /\ \A h \in Requests : h # r => handler'[h] = handler[h]
        /\ UNCHANGED <<mem, unused, queue, sent, engine, script>>
    BY <1>3 DEF Resolve, Flag, TypeInv, TypeOK, Handlers
  <2>2. \A h \in Requests : LetGo(h) => LetGo(h)'
    BY <2>1 DEF LetGo
  <2>3. Reading'
    BY <2>1 DEF StreamInv, Reading
  <2>4. QED
    BY <2>1, <2>2, <2>3, StreamAside
<1>4. ASSUME NEW r \in Requests, Push(r) PROVE StreamInv'
  BY <1>4, StreamPush
<1>5. ASSUME NEW r \in Requests, Next_Pop(r) PROVE StreamInv'
  <2>1. Pop(r) /\ Reading'
    BY <1>5 DEF Next_Pop, Pop, StreamInv, Reading
  <2>2. QED
    BY <2>1, StreamPop
<1>6. ASSUME Next_InTime \/ Next_Woken PROVE StreamInv'
  <2>1. php.request \in Requests /\ Reading'
    BY <1>6 DEF Next_InTime, Next_Woken, TypeInv, Busy, Reading, Idle
  <2>2. CASE Pop(php.request)
    BY <2>1, <2>2, StreamPop
  <2>3. CASE ~Pop(php.request)
    <3>1. UNCHANGED <<sent, queue, got, unused, handler, mem, open>>
      BY <1>6, <2>3 DEF Next_InTime, Next_Woken
    <3>2. \A h \in Requests : LetGo(h) => LetGo(h)'
      BY <3>1 DEF LetGo
    <3>3. QED
      BY <2>1, <3>1, <3>2, StreamAside
  <2>4. QED
    BY <2>2, <2>3
<1>7. ASSUME \/ Next_TimedOut \/ IsFinished_Flag \/ SpuriousNextWake
             \/ EndScript \/ RShutdown_Done \/ NextScript
             \/ \E r \in Requests :
                  Next_Wait(r) \/ IsFinished_Size(r) \/ Start(r) \/ Close(r)
      PROVE  StreamInv'
  <2>1. UNCHANGED <<sent, queue, got, unused, handler>>
    BY <1>7 DEF Next_TimedOut, IsFinished_Flag, SpuriousNextWake, EndScript, RShutdown_Done,
                NextScript, Next_Wait, IsFinished_Size, Start, Close
  <2>2. \A h \in Requests : LetGo(h) => LetGo(h)'
    BY <1>7 DEF Next_TimedOut, IsFinished_Flag, SpuriousNextWake, EndScript, RShutdown_Done,
                NextScript, Next_Wait, IsFinished_Size, Start, Close, LetGo, TypeInv, TypeOK
  <2>3. Reading'
    BY <1>7 DEF Next_TimedOut, IsFinished_Flag, SpuriousNextWake, EndScript, RShutdown_Done,
                NextScript, Next_Wait, IsFinished_Size, Start, Close, Idle, StreamInv, Reading
  <2>4. QED
    BY <2>1, <2>2, <2>3, StreamAside
<1>8. ASSUME MarkUnused PROVE StreamInv'
  <2>1. /\ php.request \in Requests /\ LetGo(php.request)
        /\ unused' = [unused EXCEPT ![php.request] = TRUE] /\ php' = Idle
        /\ UNCHANGED <<mem, queue, sdk, open, script>>
    BY <1>8 DEF MarkUnused, LifeInv, Kept, TypeInv, Busy
  <2>2. \A h \in Requests : Taken(h)' = Taken(h) /\ Held(h)' = Held(h) /\ (LetGo(h)' <=> LetGo(h))
    BY <2>1 DEF Taken, Held, LetGo
  <2>3. InOrder'
    BY <2>1, <2>2 DEF StreamInv, InOrder
  <2>4. Smooth'
    BY <2>1, <2>2 DEF StreamInv, Smooth, TypeInv, TypeOK
  <2>5. QED
    BY <2>1, <2>3, <2>4 DEF StreamInv, Reading, Idle
<1>9. ASSUME NEW r \in Requests, LetGo(r), Free(r), Reading',
             UNCHANGED <<sent, queue, got, unused, open>>
      PROVE  StreamInv'
  <2>1. handler' = handler
    BY <1>9, LetGoIsDone DEF Free, TypeInv, TypeOK
  <2>2. \A h \in Requests : LetGo(h) => LetGo(h)'
    BY <1>9 DEF Free, LetGo, TypeInv, TypeOK
  <2>3. QED
    BY <1>9, <2>1, <2>2, StreamAside
<1>10. ASSUME Release PROVE StreamInv'
  <2>1. /\ php.request \in Requests /\ LetGo(php.request) /\ Free(php.request) /\ Reading'
        /\ UNCHANGED <<sent, queue, got, unused, open>>
    BY <1>10 DEF Release, LifeInv, Kept, TypeInv, Busy, Reading, Idle
  <2>2. QED
    BY <1>9, <2>1
<1>11. ASSUME NEW r \in Requests, RShutdown_Clean(r) PROVE StreamInv'
  <2>1. /\ LetGo(r) /\ Free(r) /\ Reading' /\ UNCHANGED <<sent, queue, got, unused, open>>
    BY <1>11 DEF RShutdown_Clean, LifeInv, Kept, StreamInv, Reading
  <2>2. QED
    BY <1>9, <2>1
<1>12. ASSUME NEW a \in Requests, NEW b \in Requests, Join(a, b) \/ Disconnect(a, b)
       PROVE  StreamInv'
  BY <1>12, RequestAssumption DEF Join, Disconnect, Careful, LifeInv, OwnData
<1>13. CASE UNCHANGED vars
  BY <1>13, StreamAside DEF vars, StreamInv, Reading, LetGo
<1>14. QED
  BY <1>1, <1>2, <1>3, <1>4, <1>5, <1>6, <1>7, <1>8, <1>10, <1>11, <1>12, <1>13
     DEF Next, Handle, Engine, Script

(* What the requests and the script look like to the abstract stream.      *)
LEMMA StatusKept ==
  ASSUME UNCHANGED open,
         \A r \in Requests : mem'[r] = "none" <=> mem[r] = "none"
  PROVE  Status' = Status
BY DEF Status

(* Each step is a step of the stream, or none it can see.                  *)
LEMMA StepStreams ==
  ASSUME Careful, TypeInv, LifeInv, StreamInv, [Next]_vars
  PROVE  ES!Next \/ UNCHANGED ES!vars
<1> USE DEF shared, sdk, engine, script
<1>1. ASSUME UNCHANGED <<open, sent, final, got>>,
             \A r \in Requests : mem'[r] = "none" <=> mem[r] = "none"
      PROVE  UNCHANGED ES!vars
  BY <1>1, StatusKept DEF ES!vars
<1>2. ASSUME NEW r \in Requests, r \in open PROVE Status[r] = "open" /\ mem[r] = "live"
  BY <1>2 DEF Status, LifeInv, Kept
<1>3. ASSUME NEW r \in Requests, Callback(r) PROVE ES!Next
  <2>1. r \in open
    BY <1>3, LetGoIsDone DEF Callback, LetGo, Live
  <2>2. Status' = Status
    BY <1>3, StatusKept DEF Callback
  <2>3. ES!Deliver(r)
    BY <1>2, <1>3, <2>1, <2>2 DEF Callback, ES!Deliver
  <2>4. QED
    BY <2>3 DEF ES!Next
<1>4. ASSUME NEW r \in Requests, Start(r) PROVE ES!Next
  <2>1. Status[r] = "new"
    BY <1>4 DEF Start, Status
  <2>2. /\ mem'[r] = "live" /\ r \in open'
        /\ \A q \in Requests : q # r => mem'[q] = mem[q] /\ (q \in open' <=> q \in open)
    BY <1>4 DEF Start, TypeInv, TypeOK
  <2>3. Status' = [Status EXCEPT ![r] = "open"]
    BY <2>2 DEF Status
  <2>4. ES!Start(r)
    BY <1>4, <2>1, <2>3 DEF Start, ES!Start
  <2>5. QED
    BY <2>4 DEF ES!Next
<1>5. ASSUME NEW r \in Requests, Close(r) PROVE ES!Next
  <2>1. Status[r] = "open" /\ mem[r] # "none"
    BY <1>2, <1>5 DEF Close
  <2>2. /\ r \notin open' /\ UNCHANGED mem
        /\ \A q \in Requests : q # r => (q \in open' <=> q \in open)
    BY <1>5 DEF Close
  <2>3. Status' = [Status EXCEPT ![r] = "closed"]
    BY <2>1, <2>2 DEF Status
  <2>4. final[r] /\ sent[r] \in Range(got[r])
    BY <1>5 DEF Close, MayClose, Careful, Received
  <2>5. sent[r] <= Taken(r)
    <3>1. PICK i \in DOMAIN got[r] : got[r][i] = sent[r]
      BY <2>4 DEF Range
    <3>2. got[r][i] = i
      BY <3>1 DEF StreamInv, InOrder
    <3>3. QED
      BY <3>1, <3>2, Counts
  <2>6. Taken(r) = sent[r]
    <3>1. Taken(r) <= sent[r]
      BY Counts DEF StreamInv, InOrder
    <3>2. QED
      BY <2>5, <3>1, Counts
  <2>7. ES!Close(r)
    BY <1>5, <2>1, <2>3, <2>4, <2>6 DEF Close, ES!Close, Taken
  <2>8. QED
    BY <2>7 DEF ES!Next
<1>6. ASSUME NEW r \in Requests, r \in open, Pop(r) PROVE ES!Next
  <2>1. Status' = Status /\ UNCHANGED <<sent, final>>
    BY <1>6, StatusKept DEF Pop
  <2>2. Len(got[r]) < sent[r] /\ got' = [got EXCEPT ![r] = Append(@, Len(@) + 1)]
    BY <1>6, PopIsNext DEF Taken
  <2>3. ES!Receive(r)
    BY <1>2, <1>6, <2>1, <2>2 DEF ES!Receive
  <2>4. QED
    BY <2>3 DEF ES!Next
<1>7. ASSUME Next_InTime \/ Next_Woken PROVE ES!Next \/ UNCHANGED ES!vars
  <2>1. php.request \in Requests /\ php.request \in open
    BY <1>7 DEF Next_InTime, Next_Woken, StreamInv, Reading, TypeInv, Busy
  <2>2. CASE Pop(php.request)
    BY <1>6, <2>1, <2>2
  <2>3. CASE ~Pop(php.request)
    BY <1>1, <1>7, <2>3 DEF Next_InTime, Next_Woken
  <2>4. QED
    BY <2>2, <2>3
<1>8. ASSUME NEW r \in Requests, Next_Pop(r) PROVE ES!Next
  BY <1>6, <1>8 DEF Next_Pop
<1>9. ASSUME NEW r \in Requests, LetGo(r), Free(r), UNCHANGED <<open, sent, final, got>>
      PROVE  UNCHANGED ES!vars
  <2>1. \A q \in Requests : mem'[q] = "none" <=> mem[q] = "none"
    BY <1>9 DEF Free, LetGo, TypeInv, TypeOK
  <2>2. QED
    BY <1>1, <1>9, <2>1
<1>10. ASSUME Release PROVE UNCHANGED ES!vars
  <2>1. /\ php.request \in Requests /\ LetGo(php.request) /\ Free(php.request)
        /\ UNCHANGED <<open, sent, final, got>>
    BY <1>10 DEF Release, LifeInv, Kept, TypeInv, Busy
  <2>2. QED
    BY <1>9, <2>1
<1>11. ASSUME NEW r \in Requests, RShutdown_Clean(r) PROVE UNCHANGED ES!vars
  <2>1. LetGo(r) /\ Free(r) /\ UNCHANGED <<open, sent, final, got>>
    BY <1>11 DEF RShutdown_Clean, LifeInv, Kept
  <2>2. QED
    BY <1>9, <2>1
<1>12. ASSUME NEW r \in Requests,
              \/ Discard(r) \/ Resolve(r) \/ Follow(r) \/ Flag(r) \/ Push(r) \/ Report(r)
              \/ SpuriousPushWake(r) \/ Next_Wait(r) \/ IsFinished_Size(r)
       PROVE  UNCHANGED ES!vars
  BY <1>1, <1>12 DEF Discard, Resolve, Follow, Flag, Push, Report, SpuriousPushWake, Next_Wait,
                     IsFinished_Size
<1>13. ASSUME \/ Next_TimedOut \/ IsFinished_Flag \/ SpuriousNextWake \/ MarkUnused
              \/ EndScript \/ RShutdown_Done \/ NextScript
              \/ \E a, b \in Requests : Join(a, b) \/ Disconnect(a, b)
       PROVE  UNCHANGED ES!vars
  BY <1>1, <1>13 DEF Next_TimedOut, IsFinished_Flag, SpuriousNextWake, MarkUnused, EndScript,
                     RShutdown_Done, NextScript, Join, Disconnect
<1>14. CASE UNCHANGED vars
  BY <1>1, <1>14 DEF vars
<1>15. QED
  BY <1>3, <1>4, <1>5, <1>7, <1>8, <1>10, <1>11, <1>12, <1>13, <1>14
     DEF Next, Handle, Engine, Script

(* Before the first script every stream is new and empty.                  *)
LEMMA InitStream == Init => StreamInv /\ ES!Init
<1> SUFFICES ASSUME Init PROVE StreamInv /\ ES!Init
  OBVIOUS
<1>1. \A r \in Requests : Taken(r) = 0 /\ Held(r) = 0
  BY DEF Init, Taken, Held
<1>2. StreamInv
  BY <1>1 DEF Init, StreamInv, InOrder, Smooth, Reading, Quiet, Idle
<1>3. Status = [r \in Requests |-> "new"]
  BY DEF Init, Status
<1>4. QED
  BY <1>2, <1>3 DEF Init, ES!Init

(* A script that reads every request to its end and does not join receives *)
(* each event exactly once and in the order the SDK delivered it, whatever *)
(* the interleaving, as long as pthread_cond_wait returns only when it is  *)
(* signalled: the asynchronous part of ton_client.c implements the stream. *)
THEOREM RequestsAreStreams ==
  ASSUME Careful, ~SpuriousWakeups
  PROVE  Spec => ImplementsEventStream
<1> DEFINE I == TypeInv /\ LifeInv /\ StreamInv
<1>1. Init => I /\ ES!Init
  BY InitType, InitLife, InitStream
<1>2. I /\ [Next]_vars => I'
  BY NextType, NextLife, NextStream
<1>3. I /\ [Next]_vars => [ES!Next]_(ES!vars)
  BY StepStreams
<1> HIDE DEF I
<1>4. QED
  BY <1>1, <1>2, <1>3, PTL DEF Spec, ImplementsEventStream, ES!Spec
=============================================================================
