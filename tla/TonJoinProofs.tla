---------------------------- MODULE TonJoinProofs ----------------------------
(***************************************************************************)
(* Theorems about requests that are joined: their handlers deliver to the  *)
(* queues of others.                                                       *)
(***************************************************************************)
EXTENDS TonRequestProofs, FiniteSetTheorems

-----------------------------------------------------------------------------
(* Every event is in one place only, whatever the scripts do.              *)

(* While a handler has an event in hand, that one is younger than all      *)
(* others of its request, wherever they are.                               *)
Delivering(r) == handler[r].pc \notin {"idle", "report"}
Older(r, n) == n <= sent[r] /\ (Delivering(r) => n < sent[r])

Fresh ==
  /\ \A q \in Requests : \A e \in Range(queue[q]) : Older(e.data, e.n)
  /\ \A r \in Requests : \A n \in Range(got[r]) : Older(r, n)

(* No event is queued twice, queued and received, or received twice.       *)
Apart ==
  \A p, q \in Requests : \A i \in DOMAIN queue[p], j \in DOMAIN queue[q] :
    /\ queue[p][i].data = queue[q][j].data
    /\ queue[p][i].n = queue[q][j].n
    => p = q /\ i = j
Unread == \A q \in Requests : \A e \in Range(queue[q]) : e.n \notin Range(got[e.data])
GotOnce == \A r \in Requests : IsInjective(got[r])

OnceInv == Fresh /\ Apart /\ Unread /\ GotOnce

(* The elements of the queues and the numbers of events have their types.  *)
LEMMA QueueElements ==
  ASSUME TypeInv, NEW q \in Requests
  PROVE  /\ queue[q] \in Seq(Events) /\ got[q] \in Seq(1 .. MaxEvents) /\ sent[q] \in Nat
         /\ Len(queue[q]) \in Nat /\ DOMAIN queue[q] = 1 .. Len(queue[q])
         /\ Len(got[q]) \in Nat /\ DOMAIN got[q] = 1 .. Len(got[q])
         /\ \A i \in DOMAIN queue[q] : queue[q][i] \in Range(queue[q])
         /\ \A e \in Range(queue[q]) :
              e \in Events /\ e.data \in Requests /\ e.n \in 1 .. MaxEvents /\ e.n \in Nat
         /\ \A i \in DOMAIN got[q] : got[q][i] \in Range(got[q])
         /\ \A n \in Range(got[q]) : n \in Nat
<1>1. queue[q] \in Seq(Events) /\ got[q] \in Seq(1 .. MaxEvents) /\ sent[q] \in Nat
  BY RequestAssumption DEF TypeInv, TypeOK
<1>2. /\ Len(queue[q]) \in Nat /\ DOMAIN queue[q] = 1 .. Len(queue[q])
      /\ Len(got[q]) \in Nat /\ DOMAIN got[q] = 1 .. Len(got[q])
  BY <1>1
<1>3. Range(queue[q]) \subseteq Events /\ Range(got[q]) \subseteq 1 .. MaxEvents
  BY <1>1, RangeOfSeq
<1>4. /\ \A i \in DOMAIN queue[q] : queue[q][i] \in Range(queue[q])
      /\ \A i \in DOMAIN got[q] : got[q][i] \in Range(got[q])
  BY DEF Range
<1>5. \A e \in Range(queue[q]) :
        e \in Events /\ e.data \in Requests /\ e.n \in 1 .. MaxEvents /\ e.n \in Nat
  BY <1>3, RequestAssumption DEF Events
<1>6. \A n \in Range(got[q]) : n \in Nat
  BY <1>3
<1>7. QED
  BY <1>1, <1>2, <1>4, <1>5, <1>6

(* A step that delivers, queues and receives nothing. *)
LEMMA OnceAside ==
  ASSUME OnceInv, UNCHANGED <<queue, got, sent>>,
         \A r \in Requests : Delivering(r)' => Delivering(r),
         TypeInv
  PROVE  OnceInv'
<1>1. \A r \in Requests, n \in Nat : Older(r, n) => Older(r, n)'
  BY DEF Older
<1>2. Fresh'
  BY <1>1, QueueElements DEF OnceInv, Fresh
<1>3. Apart' /\ Unread' /\ GotOnce'
  BY DEF OnceInv, Apart, Unread, GotOnce
<1>4. QED
  BY <1>2, <1>3 DEF OnceInv

(* A handler that takes an event in hand. *)
LEMMA OnceCallback ==
  ASSUME TypeInv, OnceInv, NEW r \in Requests, Callback(r)
  PROVE  OnceInv'
<1>1. /\ sent'[r] = sent[r] + 1
      /\ \A q \in Requests : q # r => sent'[q] = sent[q] /\ handler'[q] = handler[q]
      /\ UNCHANGED <<queue, got>>
  BY DEF Callback, TypeInv, TypeOK, shared, script
<1>2. ASSUME NEW q \in Requests, NEW n \in Nat, Older(q, n) PROVE Older(q, n)'
  BY <1>1, <1>2, QueueElements DEF Older, Delivering
<1>3. Fresh'
  BY <1>1, <1>2, QueueElements DEF OnceInv, Fresh
<1>4. Apart' /\ Unread' /\ GotOnce'
  BY <1>1 DEF OnceInv, Apart, Unread, GotOnce
<1>5. QED
  BY <1>3, <1>4 DEF OnceInv

(* An event that is appended is nowhere else, because it is the youngest.  *)
LEMMA OnceAppend ==
  ASSUME TypeInv, OnceInv, NEW r \in Requests, NEW q \in Requests,
         Delivering(r), Event(r) \in Events, Event(r).data = r, Event(r).n = sent[r],
         queue'[q] = Append(queue[q], Event(r)),
         \A p \in Requests : p # q => queue'[p] = queue[p],
         ~Delivering(r)',
         \A h \in Requests : h # r => handler'[h] = handler[h],
         UNCHANGED <<sent, got>>
  PROVE  OnceInv'
<1> DEFINE m == Len(queue[q]) + 1
<1>1. /\ m \in Nat /\ DOMAIN queue'[q] = 1 .. m /\ queue'[q][m] = Event(r)
      /\ \A i \in DOMAIN queue'[q] : i # m => i \in DOMAIN queue[q] /\ queue'[q][i] = queue[q][i]
      /\ Range(queue'[q]) = Range(queue[q]) \cup {Event(r)}
  <2>1. /\ Len(queue[q]) \in Nat /\ DOMAIN queue'[q] = 1 .. Len(queue[q]) + 1
        /\ DOMAIN queue[q] = 1 .. Len(queue[q])
        /\ \A i \in 1 .. Len(queue[q]) : queue'[q][i] = queue[q][i]
        /\ queue'[q][Len(queue[q]) + 1] = Event(r)
    BY AppendElements, QueueElements
  <2>2. \A l \in Nat : \A i \in 1 .. l + 1 : i # l + 1 => i \in 1 .. l
    OBVIOUS
  <2>3. \A i \in DOMAIN queue'[q] : i # m => i \in DOMAIN queue[q] /\ queue'[q][i] = queue[q][i]
    BY <2>1, <2>2
  <2>4. Range(queue'[q]) = Range(queue[q]) \cup {Event(r)}
    <3>1. \A s \in Seq(Events), e \in Events : Range(Append(s, e)) = Range(s) \cup {e}
      BY RangeAppend
    <3>2. QED
      BY <3>1, QueueElements
  <2>5. QED
    BY <2>1, <2>3, <2>4
<1>2. \A p \in Requests : \A e \in Range(queue[p]) : e.data = r => e.n < sent[r]
  BY DEF OnceInv, Fresh, Older
<1>3. \A n \in Range(got[r]) : n < sent[r]
  BY DEF OnceInv, Fresh, Older
<1>4. \A h \in Requests, n \in Nat : Older(h, n) => Older(h, n)'
  BY DEF Older, Delivering
<1>5. Fresh'
  <2>1. \A p \in Requests : \A e \in Range(queue'[p]) : Older(e.data, e.n)'
    <3>1. Older(r, sent[r])'
      BY QueueElements DEF Older
    <3>2. ASSUME NEW p \in Requests, NEW e \in Range(queue[p]) PROVE Older(e.data, e.n)'
      BY <1>4, QueueElements DEF OnceInv, Fresh
    <3>3. ASSUME NEW p \in Requests, NEW e \in Range(queue'[p])
          PROVE  e \in Range(queue[p]) \/ e = Event(r)
      <4>1. CASE p = q
        BY <1>1, <3>3, <4>1
      <4>2. CASE p # q
        <5>1. queue'[p] = queue[p]
          BY <4>2
        <5>2. QED
          BY <3>3, <5>1
      <4>3. QED
        BY <4>1, <4>2
    <3>4. QED
      BY <3>1, <3>2, <3>3
  <2>2. QED
    BY <1>4, <2>1, QueueElements DEF OnceInv, Fresh
<1>6. Apart'
  <2>1. ASSUME NEW p1 \in Requests, NEW p2 \in Requests,
               NEW i \in DOMAIN queue'[p1], NEW j \in DOMAIN queue'[p2],
               queue'[p1][i].data = queue'[p2][j].data, queue'[p1][i].n = queue'[p2][j].n
        PROVE  p1 = p2 /\ i = j
    <3>1. CASE (p1 = q /\ i = m) /\ (p2 = q /\ j = m)
      BY <3>1
    <3>2. CASE (p1 = q /\ i = m) /\ ~(p2 = q /\ j = m)
      <4>1. queue'[p2][j] \in Range(queue[p2])
        BY <1>1, <3>2, QueueElements
      <4>2. queue'[p2][j].data = r /\ queue'[p2][j].n = sent[r]
        BY <1>1, <2>1, <3>2
      <4>3. QED
        BY <1>2, <4>1, <4>2, QueueElements
    <3>3. CASE ~(p1 = q /\ i = m) /\ (p2 = q /\ j = m)
      <4>1. queue'[p1][i] \in Range(queue[p1])
        BY <1>1, <3>3, QueueElements
      <4>2. queue'[p1][i].data = r /\ queue'[p1][i].n = sent[r]
        BY <1>1, <2>1, <3>3
      <4>3. QED
        BY <1>2, <4>1, <4>2, QueueElements
    <3>4. CASE ~(p1 = q /\ i = m) /\ ~(p2 = q /\ j = m)
      <4>1. /\ i \in DOMAIN queue[p1] /\ queue'[p1][i] = queue[p1][i]
            /\ j \in DOMAIN queue[p2] /\ queue'[p2][j] = queue[p2][j]
        BY <1>1, <3>4
      <4>2. QED
        BY <2>1, <4>1 DEF OnceInv, Apart
    <3>5. QED
      BY <3>1, <3>2, <3>3, <3>4
  <2>2. QED
    BY <2>1 DEF Apart
<1>7. Unread'
  <2>1. sent[r] \notin Range(got[r])
    BY <1>3, QueueElements
  <2>2. QED
    BY <1>1, <2>1 DEF OnceInv, Unread
<1>8. GotOnce'
  BY DEF OnceInv, GotOnce
<1>9. QED
  BY <1>5, <1>6, <1>7, <1>8 DEF OnceInv

(* The first element of a queue becomes the last the script has of its     *)
(* request.                                                                *)
LEMMA OncePop ==
  ASSUME TypeInv, OnceInv, NEW q \in Requests, Pop(q)
  PROVE  OnceInv'
<1> DEFINE e == queue[q][1]
           m == Len(got[e.data]) + 1
           From(p, i) == IF p = q THEN i + 1 ELSE i
<1>1. /\ queue[q] # <<>> /\ e \in Events /\ e \in Range(queue[q])
      /\ queue'[q] = Tail(queue[q])
      /\ \A p \in Requests : p # q => queue'[p] = queue[p]
      /\ got'[e.data] = Append(got[e.data], e.n)
      /\ \A p \in Requests : p # e.data => got'[p] = got[p]
      /\ \A h \in Requests : \/ handler'[h] = handler[h]
                             \/ h \in BlockedAt(q) /\ handler'[h].pc = "woken"
      /\ UNCHANGED sent
  BY PopEffect DEF Popped
<1>2. e.data \in Requests /\ e.n \in 1 .. MaxEvents /\ e.n \in Nat
  BY <1>1, QueueElements
<1>3. ASSUME NEW p \in Requests, NEW i \in DOMAIN queue'[p]
      PROVE  /\ From(p, i) \in DOMAIN queue[p] /\ queue'[p][i] = queue[p][From(p, i)]
             /\ i \in Nat /\ (p = q => From(p, i) # 1) /\ 1 \in DOMAIN queue[q]
  <2>1. /\ Len(queue[q]) \in Nat /\ Len(queue[q]) >= 1 /\ DOMAIN queue[q] = 1 .. Len(queue[q])
        /\ DOMAIN queue'[q] = 1 .. Len(queue[q]) - 1
        /\ \A k \in 1 .. Len(queue[q]) - 1 : queue'[q][k] = queue[q][k + 1]
    BY <1>1, TailElements, QueueElements
  <2>2. 1 \in DOMAIN queue[q]
    BY <2>1, \A l \in Nat : l >= 1 => 1 \in 1 .. l
  <2>3. CASE p = q
    <3>1. \A l \in Nat : \A k \in 1 .. l - 1 : k + 1 \in 1 .. l /\ k \in Nat /\ k + 1 # 1
      OBVIOUS
    <3>2. i + 1 \in DOMAIN queue[q] /\ i \in Nat /\ i + 1 # 1
      BY <2>1, <2>3, <3>1
    <3>3. QED
      BY <2>1, <2>2, <2>3, <3>2
  <2>4. CASE p # q
    <3>1. i \in DOMAIN queue[p] /\ queue'[p][i] = queue[p][i]
      BY <1>1, <1>3, <2>4
    <3>2. i \in Nat
      BY <3>1, QueueElements
    <3>3. QED
      BY <2>2, <2>4, <3>1, <3>2
  <2>5. QED
    BY <2>3, <2>4
<1>4. ASSUME NEW p \in Requests, NEW d \in Range(queue'[p])
      PROVE  /\ d \in Range(queue[p]) /\ d \in Events /\ d.data \in Requests /\ d.n \in Nat
             /\ ~(d.data = e.data /\ d.n = e.n)
  <2>1. PICK i \in DOMAIN queue'[p] : queue'[p][i] = d
    BY DEF Range
  <2>2. From(p, i) \in DOMAIN queue[p] /\ d = queue[p][From(p, i)]
    BY <1>3, <2>1
  <2>3. d \in Range(queue[p])
    BY <2>2, QueueElements
  <2>4. d.data = e.data /\ d.n = e.n => p = q /\ From(p, i) = 1
    BY <1>3, <2>2 DEF OnceInv, Apart
  <2>5. p = q => From(p, i) # 1
    BY <1>3, <2>1
  <2>6. ~(d.data = e.data /\ d.n = e.n)
    BY <2>4, <2>5
  <2>7. QED
    BY <2>3, <2>6, QueueElements
<1>5. \A h \in Requests : Delivering(h)' <=> Delivering(h)
  BY <1>1 DEF Delivering, BlockedAt
<1>6. \A h \in Requests, n \in Nat : Older(h, n) => Older(h, n)'
  BY <1>1, <1>5 DEF Older
<1>7. Range(got'[e.data]) = Range(got[e.data]) \cup {e.n}
  <2>1. \A s \in Seq(1 .. MaxEvents), n \in 1 .. MaxEvents : Range(Append(s, n)) = Range(s) \cup {n}
    BY RangeAppend
  <2>2. QED
    BY <1>1, <1>2, <2>1, QueueElements
<1>8. Fresh'
  <2>1. \A p \in Requests : \A d \in Range(queue'[p]) : Older(d.data, d.n)'
    BY <1>4, <1>6 DEF OnceInv, Fresh
  <2>2. Older(e.data, e.n)
    BY <1>1 DEF OnceInv, Fresh
  <2>3. ASSUME NEW r \in Requests, NEW n \in Range(got'[r]) PROVE Older(r, n)'
    <3>1. n \in Range(got[r]) \/ (r = e.data /\ n = e.n)
      BY <1>1, <1>7, <2>3
    <3>2. Older(r, n) /\ n \in Nat
      BY <1>2, <2>2, <3>1, QueueElements DEF OnceInv, Fresh
    <3>3. QED
      BY <1>6, <3>2
  <2>4. QED
    BY <2>1, <2>3 DEF Fresh
<1>9. Apart'
  <2>1. ASSUME NEW p1 \in Requests, NEW p2 \in Requests,
               NEW i \in DOMAIN queue'[p1], NEW j \in DOMAIN queue'[p2],
               queue'[p1][i].data = queue'[p2][j].data, queue'[p1][i].n = queue'[p2][j].n
        PROVE  p1 = p2 /\ i = j
    <3>1. /\ From(p1, i) \in DOMAIN queue[p1] /\ queue'[p1][i] = queue[p1][From(p1, i)]
          /\ From(p2, j) \in DOMAIN queue[p2] /\ queue'[p2][j] = queue[p2][From(p2, j)]
          /\ i \in Nat /\ j \in Nat
      BY <1>3
    <3>2. p1 = p2 /\ From(p1, i) = From(p2, j)
      BY <2>1, <3>1 DEF OnceInv, Apart
    <3>3. CASE p1 = q
      BY <3>1, <3>2, <3>3
    <3>4. CASE p1 # q
      BY <3>1, <3>2, <3>4
    <3>5. QED
      BY <3>2, <3>3, <3>4
  <2>2. QED
    BY <2>1 DEF Apart
<1>10. Unread'
  <2>1. ASSUME NEW p \in Requests, NEW d \in Range(queue'[p])
        PROVE  d.n \notin Range(got'[d.data])
    <3>1. d.n \notin Range(got[d.data])
      BY <1>4 DEF OnceInv, Unread
    <3>2. CASE d.data = e.data
      <4>1. d.n # e.n
        BY <1>4, <3>2
      <4>2. QED
        BY <1>7, <3>1, <3>2, <4>1
    <3>3. CASE d.data # e.data
      <4>1. got'[d.data] = got[d.data]
        BY <1>1, <1>4, <3>3
      <4>2. QED
        BY <3>1, <4>1
    <3>4. QED
      BY <3>2, <3>3
  <2>2. QED
    BY <2>1 DEF Unread
<1>11. GotOnce'
  <2>1. e.n \notin Range(got[e.data])
    BY <1>1 DEF OnceInv, Unread
  <2>2. IsInjective(got[e.data])
    BY <1>2 DEF OnceInv, GotOnce
  <2>3. IsInjective(got'[e.data])
    <3>1. got[e.data] \in Seq(1 .. MaxEvents)
      BY <1>2, QueueElements
    <3>2. IsInjective(Append(got[e.data], e.n))
      BY <1>2, <2>1, <2>2, <3>1, AppendNew
    <3>3. QED
      BY <1>1, <3>2
  <2>4. QED
    BY <1>1, <2>3 DEF OnceInv, GotOnce
<1>12. QED
  BY <1>8, <1>9, <1>10, <1>11 DEF OnceInv

(* Every step of any script and of any handler keeps the events apart.     *)
LEMMA NextOnce == TypeInv /\ OnceInv /\ [Next]_vars => OnceInv'
<1> SUFFICES ASSUME TypeInv, OnceInv, [Next]_vars PROVE OnceInv'
  OBVIOUS
<1> USE DEF shared, sdk, engine, script
<1>1. ASSUME NEW r \in Requests, Callback(r) PROVE OnceInv'
  BY <1>1, OnceCallback
<1>2. ASSUME NEW r \in Requests, Push(r) PROVE OnceInv'
  <2> DEFINE q == handler[r].data
  <2>1. /\ q \in Requests /\ handler[r].pc \in {"push", "woken"}
        /\ Event(r) \in Events /\ Event(r).data = r /\ Event(r).n = sent[r]
        /\ \/ /\ queue'[q] = Append(queue[q], Event(r))
              /\ \A p \in Requests : p # q => queue'[p] = queue[p]
              /\ handler'[r].pc \in {"idle", "report"}
           \/ queue' = queue
        /\ \A h \in Requests : h # r => handler'[h] = handler[h]
        /\ UNCHANGED <<sent, got>>
    BY <1>2, PushEffect
  <2>2. Delivering(r)
    BY <2>1 DEF Delivering
  <2>3. CASE queue' = queue
    <3>1. \A h \in Requests : Delivering(h)' => Delivering(h)
      BY <2>1, <2>2 DEF Delivering
    <3>2. QED
      BY <2>1, <2>3, <3>1, OnceAside
  <2>4. CASE /\ queue'[q] = Append(queue[q], Event(r))
             /\ \A p \in Requests : p # q => queue'[p] = queue[p]
             /\ handler'[r].pc \in {"idle", "report"}
    <3>1. ~Delivering(r)'
      BY <2>4 DEF Delivering
    <3>2. QED
      BY <2>1, <2>2, <2>4, <3>1, OnceAppend
  <2>5. QED
    BY <2>1, <2>3, <2>4
<1>3. ASSUME NEW r \in Requests, Next_Pop(r) PROVE OnceInv'
  BY <1>3, OncePop DEF Next_Pop
<1>4. ASSUME Next_InTime \/ Next_Woken PROVE OnceInv'
  <2>1. php.request \in Requests
    BY <1>4 DEF Next_InTime, Next_Woken, TypeInv, Busy
  <2>2. CASE Pop(php.request)
    BY <2>1, <2>2, OncePop
  <2>3. CASE ~Pop(php.request)
    BY <1>4, <2>3, OnceAside DEF Next_InTime, Next_Woken, Delivering
  <2>4. QED
    BY <2>2, <2>3
<1>5. ASSUME NEW r \in Requests,
             Discard(r) \/ Resolve(r) \/ Follow(r) \/ Flag(r) \/ Report(r) \/ SpuriousPushWake(r)
      PROVE  OnceInv'
  <2>1. UNCHANGED <<queue, got, sent>>
    BY <1>5 DEF Discard, Resolve, Follow, Flag, Report, SpuriousPushWake
  <2>2. /\ \A h \in Requests : h # r => handler'[h] = handler[h]
        /\ handler'[r].pc = "idle" \/ handler[r].pc \notin {"idle", "report"}
    BY <1>5 DEF Discard, Resolve, Follow, Flag, Report, SpuriousPushWake, Quiet, TypeInv, TypeOK
  <2>3. \A h \in Requests : Delivering(h)' => Delivering(h)
    BY <2>2 DEF Delivering
  <2>4. QED
    BY <2>1, <2>3, OnceAside
<1>6. ASSUME NEW r \in Requests, Free(r), UNCHANGED <<queue, got, sent>> PROVE OnceInv'
  <2>1. \A h \in Requests : \/ handler'[h] = handler[h]
                            \/ h \in BlockedAt(r)
    BY <1>6 DEF Free, TypeInv, TypeOK
  <2>2. \A h \in Requests : Delivering(h)' => Delivering(h)
    BY <2>1 DEF Delivering, BlockedAt
  <2>3. QED
    BY <1>6, <2>2, OnceAside
<1>7. ASSUME Release PROVE OnceInv'
  BY <1>6, <1>7 DEF Release, TypeInv, Busy
<1>8. ASSUME NEW r \in Requests, RShutdown_Clean(r) PROVE OnceInv'
  BY <1>6, <1>8 DEF RShutdown_Clean
<1>9. CASE UNCHANGED <<queue, got, sent, handler>>
  BY <1>9, OnceAside DEF Delivering
<1>10. ASSUME NEW r \in Requests, Start(r) \/ Next_Wait(r) \/ IsFinished_Size(r) \/ Close(r)
       PROVE  OnceInv'
  BY <1>9, <1>10 DEF Start, Next_Wait, IsFinished_Size, Close
<1>11. ASSUME NEW a \in Requests, NEW b \in Requests, Join(a, b) \/ Disconnect(a, b)
       PROVE  OnceInv'
  BY <1>9, <1>11 DEF Join, Disconnect
<1>12. ASSUME \/ Next_TimedOut \/ IsFinished_Flag \/ SpuriousNextWake \/ MarkUnused
              \/ EndScript \/ RShutdown_Done \/ NextScript
       PROVE  OnceInv'
  BY <1>9, <1>12 DEF Next_TimedOut, IsFinished_Flag, SpuriousNextWake, MarkUnused,
                     EndScript, RShutdown_Done, NextScript
<1>13. CASE UNCHANGED vars
  BY <1>9, <1>13 DEF vars
<1>14. QED
  BY <1>1, <1>2, <1>3, <1>4, <1>5, <1>7, <1>8, <1>10, <1>11, <1>12, <1>13
     DEF Next, Handle, Engine, Script

(* Events that are apart are in one place each. *)
LEMMA OnceIsEnough == TypeInv /\ OnceInv => EventsOnce
<1> SUFFICES ASSUME TypeInv, OnceInv, NEW r \in Requests, NEW n \in 1 .. sent[r]
             PROVE  Cardinality(Places(r, n)) <= 1
  BY DEF EventsOnce
<1>1. ASSUME NEW x \in Places(r, n)
      PROVE  \/ \E i \in DOMAIN got[r] : got[r][i] = n /\ x = <<"got", i>>
             \/ \E q \in Requests : \E i \in DOMAIN queue[q] :
                  queue[q][i].data = r /\ queue[q][i].n = n /\ x = <<q, i>>
  BY <1>1 DEF Places
<1>2. ASSUME NEW x \in Places(r, n), NEW y \in Places(r, n) PROVE x = y
  <2>1. CASE \E i \in DOMAIN got[r] : got[r][i] = n
    <3>1. n \in Range(got[r])
      BY <2>1, QueueElements
    <3>2. \A q \in Requests : \A i \in DOMAIN queue[q] : ~(queue[q][i].data = r /\ queue[q][i].n = n)
      BY <3>1, QueueElements DEF OnceInv, Unread
    <3>3. PICK i \in DOMAIN got[r] : got[r][i] = n /\ x = <<"got", i>>
      BY <1>1, <3>2
    <3>4. PICK j \in DOMAIN got[r] : got[r][j] = n /\ y = <<"got", j>>
      BY <1>1, <3>2
    <3>5. i = j
      BY <3>3, <3>4 DEF OnceInv, GotOnce, IsInjective
    <3>6. QED
      BY <3>3, <3>4, <3>5
  <2>2. CASE ~\E i \in DOMAIN got[r] : got[r][i] = n
    <3>1. PICK p \in Requests : \E i \in DOMAIN queue[p] :
            queue[p][i].data = r /\ queue[p][i].n = n /\ x = <<p, i>>
      BY <1>1, <2>2
    <3>2. PICK q \in Requests : \E j \in DOMAIN queue[q] :
            queue[q][j].data = r /\ queue[q][j].n = n /\ y = <<q, j>>
      BY <1>1, <2>2
    <3>3. PICK i \in DOMAIN queue[p] : queue[p][i].data = r /\ queue[p][i].n = n /\ x = <<p, i>>
      BY <3>1
    <3>4. PICK j \in DOMAIN queue[q] : queue[q][j].data = r /\ queue[q][j].n = n /\ y = <<q, j>>
      BY <3>2
    <3>5. p = q /\ i = j
      BY <3>3, <3>4 DEF OnceInv, Apart
    <3>6. QED
      BY <3>3, <3>4, <3>5
  <2>3. QED
    BY <2>1, <2>2
<1>3. CASE Places(r, n) = {}
  BY <1>3, FS_EmptySet
<1>4. CASE Places(r, n) # {}
  <2>1. PICK x \in Places(r, n) : TRUE
    BY <1>4
  <2>2. Places(r, n) = {x}
    BY <1>2, <2>1
  <2>3. Cardinality(Places(r, n)) = 1
    BY <2>2, FS_Singleton
  <2>4. QED
    BY <2>3
<1>5. QED
  BY <1>3, <1>4

(* Before the first script there are no events. *)
LEMMA InitOnce == Init => OnceInv
BY DEF Init, OnceInv, Fresh, Apart, Unread, GotOnce, IsInjective, Range

(* However scripts join, disconnect and close requests, no event is ever   *)
(* queued or received twice, for any number of requests and events, with   *)
(* spurious wakeups and in debug builds.                                   *)
THEOREM EventsAreNotRepeated == Spec => []EventsOnce
<1>1. Init => TypeInv /\ OnceInv
  BY InitOnce, InitType
<1>2. TypeInv /\ OnceInv /\ [Next]_vars => (TypeInv /\ OnceInv)'
  BY NextType, NextOnce
<1>3. TypeInv /\ OnceInv => EventsOnce
  BY OnceIsEnough
<1>4. QED
  BY <1>1, <1>2, <1>3, PTL DEF Spec

-----------------------------------------------------------------------------
(* Released memory, when requests are joined.                              *)

(* Scripts that join requests for good, and let go of one when it and      *)
(* everything joined to it has been read to the end.                       *)
Patient == Policy \cap {"disconnect", "poll", "abandon"} = {} /\ ~TonDebug

Resolved == {"flag", "push", "blocked", "woken"}

(* A handler works on its own request or on the one that is joined to.     *)
OwnOrJoined ==
  \A b \in Requests :
    /\ handler[b].pc # "report"
    /\ handler[b].pc # "idle" =>
         mem[b] # "none" /\ handler[b].data \in Requests \cap {b, joined_to[b]}
    /\ handler[b].pc = "follow" => handler[b].data = joined_to[b]
    /\ joined_to[b] # NULL => mem[b] # "none" /\ mem[joined_to[b]] # "none"

(* What is let go has been read to the end, with all that is joined to it. *)
Exhausted(r) == Received(r) /\ \A b \in Requests : joined_to[b] = r => Received(b)

KeptWhileJoined ==
  /\ \A r \in Requests : /\ r \in open => mem[r] = "live"
                         /\ LetGo(r) => Exhausted(r)
  /\ php.pc \in {"free", "mark"} => LetGo(php.request)
  /\ \A r \in unused_requests : LetGo(r)

(* In one queue the events of a request are in order.  Those that went to  *)
(* another request's queue came after those in its own, and while one is   *)
(* there the last event has not been received.                             *)
Increasing ==
  \A q \in Requests : \A i, j \in DOMAIN queue[q] :
    i < j /\ queue[q][i].data = queue[q][j].data => queue[q][i].n < queue[q][j].n
Elsewhere ==
  \A q \in Requests : \A e \in Range(queue[q]) :
    e.data # q =>
      /\ joined_to[e.data] = q
      /\ \A d \in Range(queue[e.data]) : d.data = e.data => d.n < e.n
      /\ sent[e.data] \notin Range(got[e.data])

(* A handler that goes to its own request's queue has left none elsewhere. *)
NoneElsewhere ==
  \A r \in Requests :
    handler[r].pc \in Resolved /\ handler[r].data = r =>
      \A q \in Requests : \A e \in Range(queue[q]) : q # r => e.data # r

JoinInv == OwnOrJoined /\ KeptWhileJoined /\ Increasing /\ Elsewhere /\ NoneElsewhere

(* A request whose handler is at work has not been read to the end.        *)
LEMMA BusyIsNotReceived ==
  ASSUME TypeInv, OnceInv, JoinInv, NEW r \in Requests, handler[r].pc # "idle"
  PROVE  Delivering(r) /\ sent[r] \notin Range(got[r]) /\ ~Received(r)
<1>1. Delivering(r)
  BY DEF JoinInv, OwnOrJoined, Delivering
<1>2. \A n \in Range(got[r]) : n < sent[r]
  BY <1>1 DEF OnceInv, Fresh, Older
<1>3. QED
  BY <1>1, <1>2, QueueElements DEF Received

(* Steps that add nothing to a queue and start no handler on its way.      *)
LEMMA HandlersAside ==
  ASSUME TypeInv, JoinInv, UNCHANGED joined_to,
         \A r \in Requests :
           /\ mem[r] # "none" => mem'[r] # "none"
           /\ Range(queue'[r]) \subseteq Range(queue[r])
           /\ \/ handler'[r] = handler[r] \/ handler'[r].pc = "idle"
              \/ /\ {handler[r].pc, handler'[r].pc} \subseteq Resolved
                 /\ handler'[r].data = handler[r].data
  PROVE  OwnOrJoined' /\ NoneElsewhere'
<1>1. OwnOrJoined'
  <2>1. \A b \in Requests : joined_to[b] # NULL => joined_to[b] \in Requests
    BY DEF TypeInv, TypeOK
  <2>2. QED
    BY <2>1 DEF JoinInv, OwnOrJoined, Resolved
<1>2. NoneElsewhere'
  BY DEF JoinInv, NoneElsewhere, Resolved
<1>3. QED
  BY <1>1, <1>2

(* Steps that neither start nor let go of a request.                       *)
LEMMA KeptAside ==
  ASSUME JoinInv, UNCHANGED <<mem, joined_to, sent, final, open, unused_requests>>,
         \A r \in Requests : Range(got[r]) \subseteq Range(got'[r]),
         php'.pc \in {"free", "mark"} => php' = php
  PROVE  KeptWhileJoined'
<1>1. \A r \in Requests : (Received(r) => Received(r)') /\ (LetGo(r)' <=> LetGo(r))
  BY DEF Received, LetGo
<1>2. \A r \in Requests : Exhausted(r) => Exhausted(r)'
  BY <1>1 DEF Exhausted
<1>3. QED
  BY <1>1, <1>2 DEF JoinInv, KeptWhileJoined, LetGo

(* Steps that leave the queues alone. *)
LEMMA QueuesAside ==
  ASSUME JoinInv, UNCHANGED <<queue, got, sent, joined_to>>
  PROVE  Increasing' /\ Elsewhere'
BY DEF JoinInv, Increasing, Elsewhere

(* A step that moves only the PHP thread. *)
LEMMA JoinAside ==
  ASSUME TypeInv, JoinInv, php'.pc \in {"free", "mark"} => php' = php,
         UNCHANGED <<mem, joined_to, queue, sent, final, handler, open, unused_requests, got>>
  PROVE  JoinInv'
<1>1. OwnOrJoined' /\ NoneElsewhere'
  BY HandlersAside
<1>2. KeptWhileJoined'
  BY KeptAside
<1>3. QED
  BY <1>1, <1>2, QueuesAside DEF JoinInv

(* The SDK calls only for requests that are not read to the end.           *)
LEMMA JoinCallback ==
  ASSUME TypeInv, OnceInv, JoinInv, NEW r \in Requests, Callback(r)
  PROVE  JoinInv'
<1>1. /\ mem[r] = "live" /\ ~final[r] /\ sent'[r] = sent[r] + 1
      /\ handler'[r].data = r /\ handler'[r].pc \in {"discard", "resolve"}
      /\ \A h \in Requests : h # r => /\ handler'[h] = handler[h]
                                      /\ sent'[h] = sent[h] /\ final'[h] = final[h]
      /\ UNCHANGED <<mem, joined_to, queue, open, unused_requests, php, got>>
  BY DEF Callback, Live, TypeInv, TypeOK, shared, engine, script
<1>2. OwnOrJoined'
  BY <1>1 DEF JoinInv, OwnOrJoined
<1>3. NoneElsewhere'
  BY <1>1 DEF JoinInv, NoneElsewhere, Resolved
<1>4. KeptWhileJoined'
  <2>1. \A q \in Requests : Received(q) => Received(q)'
    BY <1>1 DEF Received
  <2>2. \A q \in Requests : Exhausted(q) => Exhausted(q)'
    BY <1>1, <2>1 DEF Exhausted
  <2>3. QED
    BY <1>1, <2>2 DEF JoinInv, KeptWhileJoined, LetGo
<1>5. Increasing'
  BY <1>1 DEF JoinInv, Increasing
<1>6. Elsewhere'
  <2>1. \A n \in Range(got[r]) : n \in Nat /\ n <= sent[r]
    BY QueueElements DEF OnceInv, Fresh, Older
  <2>2. sent'[r] \notin Range(got[r])
    BY <1>1, <2>1, QueueElements
  <2>3. \A b \in Requests : sent[b] \notin Range(got[b]) => sent'[b] \notin Range(got'[b])
    BY <1>1, <2>2
  <2>4. \A q \in Requests : \A e \in Range(queue[q]) : e.data \in Requests
    BY QueueElements
  <2>5. QED
    BY <1>1, <2>3, <2>4 DEF JoinInv, Elsewhere
<1>7. QED
  BY <1>2, <1>3, <1>4, <1>5, <1>6 DEF JoinInv

(* A handler that has found out where to deliver. *)
LEMMA JoinResolve ==
  ASSUME TypeInv, JoinInv, NEW r \in Requests, Resolve(r) \/ Follow(r) \/ Flag(r)
  PROVE  JoinInv'
<1>1. /\ \A h \in Requests : h # r => handler'[h] = handler[h]
      /\ UNCHANGED <<mem, joined_to, queue, sent, final, open, unused_requests, php, got>>
  BY DEF Resolve, Follow, Flag, shared, engine, script, TypeInv, TypeOK
<1>2. KeptWhileJoined' /\ Increasing' /\ Elsewhere'
  BY <1>1, KeptAside, QueuesAside
<1>3. joined_to[r] # NULL => joined_to[r] \in Requests
  BY DEF TypeInv, TypeOK
<1>4. CASE Flag(r)
  <2>1. /\ handler[r].pc = "flag" /\ handler'[r].pc = "push"
        /\ handler'[r].data = handler[r].data
    BY <1>4 DEF Flag, TypeInv, TypeOK, Handlers
  <2>2. OwnOrJoined' /\ NoneElsewhere'
    BY <1>1, <2>1, HandlersAside DEF Resolved
  <2>3. QED
    BY <1>2, <2>2 DEF JoinInv
<1>5. CASE Resolve(r) \/ Follow(r)
  <2>1. /\ handler[r].pc \in {"resolve", "follow"}
        /\ \/ /\ joined_to[r] = NULL /\ handler'[r] = [pc |-> "flag", data |-> r]
           \/ /\ joined_to[r] # NULL
              /\ handler'[r] \in [pc : {"flag", "follow"}, data : {joined_to[r]}]
    BY <1>3, <1>5, RequestAssumption DEF Resolve, Follow, TypeInv, TypeOK, JoinInv, OwnOrJoined
  <2>2. OwnOrJoined'
    BY <1>1, <1>3, <2>1 DEF JoinInv, OwnOrJoined
  <2>3. NoneElsewhere'
    <3>1. handler'[r].data = r => joined_to[r] \in {NULL, r}
      BY <2>1
    <3>2. handler'[r].data = r => \A q \in Requests : \A e \in Range(queue[q]) : q # r => e.data # r
      BY <3>1, RequestAssumption DEF JoinInv, Elsewhere
    <3>3. QED
      BY <1>1, <3>2 DEF JoinInv, NoneElsewhere
  <2>4. QED
    BY <1>2, <2>2, <2>3 DEF JoinInv
<1>6. QED
  BY <1>4, <1>5

(* An event that is queued at another request came after those in its own  *)
(* queue, and an event queued at its own request has none before it        *)
(* elsewhere.                                                              *)
LEMMA JoinAppend ==
  ASSUME TypeInv, OnceInv, JoinInv, NEW r \in Requests, NEW q \in Requests,
         Delivering(r), handler[r].pc \in Resolved, handler[r].data = q,
         Event(r) \in Events, Event(r).data = r, Event(r).n = sent[r],
         queue'[q] = Append(queue[q], Event(r)),
         \A p \in Requests : p # q => queue'[p] = queue[p],
         handler'[r].pc = "idle",
         \A h \in Requests : h # r => handler'[h] = handler[h],
         UNCHANGED <<mem, joined_to, sent, got>>
  PROVE  OwnOrJoined' /\ NoneElsewhere' /\ Increasing' /\ Elsewhere'
<1> DEFINE m == Len(queue[q]) + 1
<1>1. OwnOrJoined'
  <2>1. OwnOrJoined
    BY DEF JoinInv
  <2>2. \A b \in Requests : handler'[b].pc # "idle" => handler'[b] = handler[b]
    OBVIOUS
  <2>3. handler'[r].pc \notin {"report", "follow"}
    OBVIOUS
  <2>4. QED
    BY <2>1, <2>2, <2>3 DEF OwnOrJoined
<1>2. q \in {r, joined_to[r]}
  BY DEF JoinInv, OwnOrJoined, Resolved
<1>3. ASSUME NEW p \in Requests, NEW e \in Range(queue'[p])
      PROVE  \/ e \in Range(queue[p])
             \/ p = q /\ e = Event(r)
  <2>1. Range(queue'[q]) = Range(queue[q]) \cup {Event(r)}
    <3>1. \A s \in Seq(Events), d \in Events : Range(Append(s, d)) = Range(s) \cup {d}
      BY RangeAppend
    <3>2. QED
      BY <3>1, QueueElements
  <2>2. CASE p = q
    BY <1>3, <2>1, <2>2
  <2>3. CASE p # q
    <3>1. queue'[p] = queue[p]
      BY <2>3
    <3>2. QED
      BY <1>3, <3>1
  <2>4. QED
    BY <2>2, <2>3
<1>4. \A p \in Requests : \A e \in Range(queue[p]) : e.data = r => e.n < sent[r]
  BY DEF OnceInv, Fresh, Older
<1>5. sent[r] \notin Range(got[r])
  BY BusyIsNotReceived, QueueElements DEF Delivering
<1>6. NoneElsewhere'
  <2>1. ASSUME NEW h \in Requests, handler'[h].pc \in Resolved, handler'[h].data = h,
               NEW p \in Requests, p # h, NEW e \in Range(queue'[p])
        PROVE  e.data # h
    <3>1. h # r /\ handler'[h] = handler[h]
      BY <2>1 DEF Resolved
    <3>2. CASE e \in Range(queue[p])
      BY <2>1, <3>1, <3>2 DEF JoinInv, NoneElsewhere
    <3>3. CASE e = Event(r)
      BY <3>1, <3>3
    <3>4. QED
      BY <1>3, <3>2, <3>3
  <2>2. QED
    BY <2>1 DEF NoneElsewhere
<1>7. Increasing'
  <2>1. /\ m \in Nat /\ DOMAIN queue'[q] = 1 .. m /\ queue'[q][m] = Event(r)
        /\ \A i \in DOMAIN queue'[q] : i # m => i \in DOMAIN queue[q] /\ queue'[q][i] = queue[q][i]
    BY AppendPlaces, QueueElements
  <2>2. ASSUME NEW i \in DOMAIN queue'[q], NEW j \in DOMAIN queue'[q],
               i < j, queue'[q][i].data = queue'[q][j].data
        PROVE  queue'[q][i].n < queue'[q][j].n
    <3>1. i # m
      BY <2>1, <2>2, \A l \in Nat : \A k \in 1 .. l : ~(l < k)
    <3>2. i \in DOMAIN queue[q] /\ queue'[q][i] = queue[q][i] /\ queue[q][i] \in Range(queue[q])
      BY <2>1, <3>1, QueueElements
    <3>3. CASE j = m
      BY <1>4, <2>1, <2>2, <3>2, <3>3
    <3>4. CASE j # m
      BY <2>1, <2>2, <3>2, <3>4 DEF JoinInv, Increasing
    <3>5. QED
      BY <3>3, <3>4
  <2>3. ASSUME NEW p \in Requests, p # q,
               NEW i \in DOMAIN queue'[p], NEW j \in DOMAIN queue'[p],
               i < j, queue'[p][i].data = queue'[p][j].data
        PROVE  queue'[p][i].n < queue'[p][j].n
    <3>1. queue'[p] = queue[p]
      BY <2>3
    <3>2. Increasing
      BY DEF JoinInv
    <3>3. QED
      BY <2>3, <3>1, <3>2 DEF Increasing
  <2>4. QED
    BY <2>2, <2>3 DEF Increasing
<1>8. Elsewhere'
  <2>1. ASSUME NEW p \in Requests, NEW e \in Range(queue'[p]), e.data # p
        PROVE  /\ joined_to[e.data] = p
               /\ \A d \in Range(queue'[e.data]) : d.data = e.data => d.n < e.n
               /\ sent[e.data] \notin Range(got[e.data])
    <3>1. CASE p = q /\ e = Event(r)
      <4>1. r # q /\ joined_to[r] = p
        BY <1>2, <2>1, <3>1
      <4>2. queue'[r] = queue[r]
        BY <4>1
      <4>3. QED
        BY <1>4, <1>5, <3>1, <4>1, <4>2
    <3>2. CASE e \in Range(queue[p])
      <4>1. e.data \in Requests
        BY <3>2, QueueElements
      <4>2. ASSUME NEW d \in Range(queue'[e.data]), d.data = e.data
            PROVE  d.n < e.n
        <5>1. CASE d \in Range(queue[e.data])
          BY <2>1, <3>2, <4>2, <5>1 DEF JoinInv, Elsewhere
        <5>2. CASE e.data = q /\ d = Event(r)
          <6>1. e.data = r /\ q = r
            BY <4>2, <5>2
          <6>2. QED
            BY <2>1, <3>2, <6>1 DEF JoinInv, NoneElsewhere
        <5>3. QED
          BY <1>3, <4>1, <5>1, <5>2
      <4>3. QED
        BY <2>1, <3>2, <4>2 DEF JoinInv, Elsewhere
    <3>3. QED
      BY <1>3, <3>1, <3>2
  <2>2. QED
    BY <2>1 DEF Elsewhere
<1>9. QED
  BY <1>1, <1>6, <1>7, <1>8

(* The script receives the events of a request in order, although they     *)
(* come from two queues.                                                   *)
LEMMA JoinPop ==
  ASSUME TypeInv, OnceInv, JoinInv, NEW q \in Requests, Pop(q),
         php'.pc \in {"free", "mark"} => php' = php
  PROVE  JoinInv'
<1> DEFINE e == queue[q][1]
<1>1. /\ queue[q] # <<>> /\ e \in Events /\ e \in Range(queue[q])
      /\ queue'[q] = Tail(queue[q])
      /\ \A p \in Requests : p # q => queue'[p] = queue[p]
      /\ got'[e.data] = Append(got[e.data], e.n)
      /\ \A p \in Requests : p # e.data => got'[p] = got[p]
      /\ UNCHANGED <<mem, joined_to, sent, final, open, unused_requests>>
  BY PopEffect DEF Popped
<1>h. \A h \in Requests : \/ handler'[h] = handler[h]
                          \/ /\ h \in BlockedAt(q)
                             /\ handler'[h].pc = "woken" /\ handler'[h].data = handler[h].data
  BY PopEffect DEF Popped
<1>2. e.data \in Requests /\ e.n \in 1 .. MaxEvents /\ e.n \in Nat
  BY <1>1, QueueElements
<1>3. /\ Len(queue[q]) \in Nat /\ Len(queue[q]) >= 1 /\ DOMAIN queue[q] = 1 .. Len(queue[q])
      /\ DOMAIN queue'[q] = 1 .. Len(queue[q]) - 1
      /\ \A i \in 1 .. Len(queue[q]) - 1 : queue'[q][i] = queue[q][i + 1]
  BY <1>1, TailElements, QueueElements
<1>4. \A i \in DOMAIN queue'[q] :
        i \in Nat /\ i >= 1 /\ i + 1 \in DOMAIN queue[q] /\ queue'[q][i] = queue[q][i + 1]
  <2>1. \A l \in Nat : \A i \in 1 .. l - 1 : i \in Nat /\ i >= 1 /\ i + 1 \in 1 .. l
    OBVIOUS
  <2>2. QED
    BY <1>3, <2>1
<1>5. \A p \in Requests : Range(queue'[p]) \subseteq Range(queue[p])
  <2>1. Range(Tail(queue[q])) \subseteq Range(queue[q])
    BY <1>1, RangeTail, QueueElements
  <2>2. QED
    BY <1>1, <2>1
<1>6. Range(got'[e.data]) = Range(got[e.data]) \cup {e.n}
  <2>1. \A s \in Seq(1 .. MaxEvents), n \in 1 .. MaxEvents : Range(Append(s, n)) = Range(s) \cup {n}
    BY RangeAppend
  <2>2. QED
    BY <1>1, <1>2, <2>1, QueueElements
<1>7. OwnOrJoined' /\ NoneElsewhere'
  <2>1. \A h \in BlockedAt(q) : handler[h].pc \in Resolved
    BY DEF BlockedAt, Resolved
  <2>2. "woken" \in Resolved
    BY DEF Resolved
  <2>3. QED
    BY <1>1, <1>h, <1>5, <2>1, <2>2, HandlersAside
<1>8. KeptWhileJoined'
  <2>1. \A p \in Requests : Range(got[p]) \subseteq Range(got'[p])
    BY <1>1, <1>6
  <2>2. QED
    BY <1>1, <2>1, KeptAside
<1>9. Increasing'
  <2>1. ASSUME NEW p \in Requests, NEW i \in DOMAIN queue'[p], NEW j \in DOMAIN queue'[p],
               i < j, queue'[p][i].data = queue'[p][j].data
        PROVE  queue'[p][i].n < queue'[p][j].n
    <3>1. CASE p = q
      <4>1. i + 1 < j + 1
        BY <1>4, <2>1, <3>1
      <4>2. QED
        BY <1>4, <2>1, <3>1, <4>1 DEF JoinInv, Increasing
    <3>2. CASE p # q
      <4>1. queue'[p] = queue[p]
        BY <1>1, <3>2
      <4>2. QED
        BY <2>1, <4>1 DEF JoinInv, Increasing
    <3>3. QED
      BY <3>1, <3>2
  <2>2. QED
    BY <2>1 DEF Increasing
<1>10. Elsewhere'
  <2>1. ASSUME NEW p \in Requests, NEW x \in Range(queue'[p]), x.data # p
        PROVE  /\ joined_to[x.data] = p
               /\ \A d \in Range(queue'[x.data]) : d.data = x.data => d.n < x.n
               /\ sent[x.data] \notin Range(got'[x.data])
    <3>1. x \in Range(queue[p]) /\ x.data \in Requests /\ x.n \in Nat /\ x.n <= sent[x.data]
      BY <1>5, <2>1, QueueElements DEF OnceInv, Fresh, Older
    <3>2. /\ joined_to[x.data] = p
          /\ \A d \in Range(queue'[x.data]) : d.data = x.data => d.n < x.n
          /\ sent[x.data] \notin Range(got[x.data])
      BY <1>5, <2>1, <3>1 DEF JoinInv, Elsewhere
    <3>3. e.data = x.data => e.n < x.n
      <4>1. SUFFICES ASSUME e.data = x.data PROVE e.n < x.n
        OBVIOUS
      <4>2. CASE e.data = q
        BY <1>1, <2>1, <3>1, <4>1, <4>2 DEF JoinInv, Elsewhere
      <4>3. CASE e.data # q
        <5>1. p = q
          BY <1>1, <3>2, <4>1, <4>3 DEF JoinInv, Elsewhere
        <5>2. PICK i \in DOMAIN queue'[q] : queue'[q][i] = x
          BY <2>1, <5>1 DEF Range
        <5>3. i + 1 \in DOMAIN queue[q] /\ x = queue[q][i + 1] /\ 1 < i + 1 /\ 1 \in DOMAIN queue[q]
          BY <1>3, <1>4, <5>2, \A l \in Nat : l >= 1 => 1 \in 1 .. l
        <5>4. QED
          BY <4>1, <5>3 DEF JoinInv, Increasing
      <4>4. QED
        BY <4>2, <4>3
    <3>4. e.data = x.data => sent[x.data] # e.n
      BY <1>2, <3>1, <3>3, QueueElements
    <3>5. sent[x.data] \notin Range(got'[x.data])
      BY <1>1, <1>6, <3>1, <3>2, <3>4
    <3>6. QED
      BY <3>2, <3>5
  <2>2. QED
    BY <1>1, <2>1 DEF Elsewhere
<1>11. QED
  BY <1>7, <1>8, <1>9, <1>10 DEF JoinInv

(* Releasing what was let go disturbs no handler: none is on its way there. *)
LEMMA JoinFree ==
  ASSUME TypeInv, JoinInv, NEW r \in Requests, LetGo(r), Free(r),
         unused_requests' \subseteq unused_requests,
         php'.pc \in {"free", "mark"} => php' = php,
         UNCHANGED <<joined_to, queue, sent, final, open, got>>
  PROVE  JoinInv'
<1>1. /\ \A q \in Requests : /\ q # r => mem'[q] = mem[q]
                             /\ mem'[q] = "none" <=> mem[q] = "none"
      /\ \A h \in Requests : \/ handler'[h] = handler[h]
                             \/ /\ h \in BlockedAt(r)
                                /\ handler'[h].pc = "woken" /\ handler'[h].data = handler[h].data
  <2>1. CASE finished[r]
    <3>1. /\ mem' = [mem EXCEPT ![r] = "freed"]
          /\ \A h \in Requests :
               handler'[h] = IF h \in BlockedAt(r) THEN [handler[h] EXCEPT !.pc = "woken"]
                             ELSE handler[h]
      BY <2>1 DEF Free
    <3>2. \A h \in Requests : /\ [handler[h] EXCEPT !.pc = "woken"].pc = "woken"
                              /\ [handler[h] EXCEPT !.pc = "woken"].data = handler[h].data
      BY DEF TypeInv, TypeOK, Handlers
    <3>3. QED
      BY <3>1, <3>2 DEF LetGo, TypeInv, TypeOK
  <2>2. CASE ~finished[r]
    BY <2>2 DEF Free
  <2>3. QED
    BY <2>1, <2>2
<1>2. OwnOrJoined' /\ NoneElsewhere'
  <2>1. \A h \in BlockedAt(r) : handler[h].pc \in Resolved
    BY DEF BlockedAt, Resolved
  <2>2. "woken" \in Resolved
    BY DEF Resolved
  <2>3. QED
    BY <1>1, <2>1, <2>2, HandlersAside
<1>3. KeptWhileJoined'
  <2>1. \A q \in Requests : (LetGo(q)' <=> LetGo(q)) /\ (Exhausted(q)' <=> Exhausted(q))
    BY <1>1 DEF LetGo, Exhausted, Received
  <2>2. \A q \in Requests : q \in open => mem'[q] = "live"
    BY <1>1 DEF JoinInv, KeptWhileJoined, LetGo
  <2>3. php'.pc \in {"free", "mark"} => LetGo(php.request)'
    <3>1. php.pc \in {"free", "mark"} => php.request \in Requests /\ LetGo(php.request)
      BY DEF JoinInv, KeptWhileJoined, TypeInv, Busy
    <3>2. QED
      BY <2>1, <3>1
  <2>4. \A q \in unused_requests' : LetGo(q)'
    BY <2>1 DEF JoinInv, KeptWhileJoined, TypeInv, TypeOK
  <2>5. \A q \in Requests : LetGo(q)' => Exhausted(q)'
    BY <2>1 DEF JoinInv, KeptWhileJoined
  <2>6. QED
    BY <2>2, <2>3, <2>4, <2>5 DEF KeptWhileJoined, LetGo
<1>4. QED
  BY <1>2, <1>3, QueuesAside DEF JoinInv

(* Every step of scripts that join, and of the handlers, keeps it.         *)
LEMMA NextJoin ==
  ASSUME Patient, TypeInv, OnceInv, JoinInv, [Next]_vars
  PROVE  JoinInv'
<1> USE DEF shared, sdk, engine, script
<1>1. ASSUME NEW r \in Requests, Callback(r) PROVE JoinInv'
  BY <1>1, JoinCallback
<1>2. ASSUME NEW r \in Requests, Resolve(r) \/ Follow(r) \/ Flag(r) PROVE JoinInv'
  BY <1>2, JoinResolve
<1>3. ASSUME NEW r \in Requests, Report(r) PROVE JoinInv'
  BY <1>3 DEF Report, JoinInv, OwnOrJoined
<1>4. ASSUME NEW r \in Requests, Discard(r) \/ SpuriousPushWake(r) PROVE JoinInv'
  <2>1. /\ UNCHANGED <<mem, joined_to, queue, sent, final, open, unused_requests, php, got>>
        /\ \A h \in Requests : h # r => handler'[h] = handler[h]
    <3>1. CASE Discard(r)
      BY <3>1 DEF Discard, TypeInv, TypeOK
    <3>2. CASE SpuriousPushWake(r)
      BY <3>2 DEF SpuriousPushWake, TypeInv, TypeOK
    <3>3. QED
      BY <1>4, <3>1, <3>2
  <2>2. \/ handler'[r].pc = "idle"
        \/ /\ handler[r].pc = "blocked" /\ handler'[r].pc = "woken"
           /\ handler'[r].data = handler[r].data
    BY <1>4 DEF Discard, SpuriousPushWake, Quiet, TypeInv, TypeOK, Handlers
  <2>3. OwnOrJoined' /\ NoneElsewhere'
    BY <2>1, <2>2, HandlersAside DEF Resolved
  <2>4. QED
    BY <2>1, <2>3, KeptAside, QueuesAside DEF JoinInv
<1>5. ASSUME NEW r \in Requests, Push(r) PROVE JoinInv'
  <2> DEFINE q == handler[r].data
  <2>1. /\ q \in Requests /\ handler[r].pc \in {"push", "woken"}
        /\ Event(r) \in Events /\ Event(r).data = r /\ Event(r).n = sent[r]
        /\ \/ /\ queue'[q] = Append(queue[q], Event(r))
              /\ \A p \in Requests : p # q => queue'[p] = queue[p]
              /\ handler'[r].pc = "idle"
           \/ queue' = queue /\ handler'[r].pc \in {"idle", "blocked"}
        /\ handler'[r].pc # "idle" => handler'[r].data = q
        /\ \A h \in Requests : h # r => handler'[h] = handler[h]
    BY <1>5, PushEffect DEF Patient
  <2>2. /\ php' = php \/ php'.pc = "woken"
        /\ UNCHANGED <<mem, joined_to, sent, final, open, unused_requests, got>>
    BY <1>5, PushEffect
  <2>3. KeptWhileJoined'
    BY <2>2, KeptAside
  <2>4. CASE queue' = queue /\ handler'[r].pc \in {"idle", "blocked"}
    <3>1. OwnOrJoined' /\ NoneElsewhere'
      BY <2>1, <2>2, <2>4, HandlersAside DEF Resolved
    <3>2. QED
      BY <2>2, <2>3, <2>4, <3>1, QueuesAside DEF JoinInv
  <2>5. CASE /\ queue'[q] = Append(queue[q], Event(r))
             /\ \A p \in Requests : p # q => queue'[p] = queue[p]
             /\ handler'[r].pc = "idle"
    <3>1. Delivering(r) /\ handler[r].pc \in Resolved
      BY <2>1 DEF Delivering, Resolved
    <3>2. OwnOrJoined' /\ NoneElsewhere' /\ Increasing' /\ Elsewhere'
      BY <2>1, <2>2, <2>5, <3>1, JoinAppend
    <3>3. QED
      BY <2>3, <3>2 DEF JoinInv
  <2>6. QED
    BY <2>1, <2>4, <2>5
<1>6. ASSUME NEW r \in Requests, Start(r) PROVE JoinInv'
  <2>1. /\ mem[r] = "none" /\ mem'[r] = "live" /\ open' = open \cup {r}
        /\ \A q \in Requests : q # r => mem'[q] = mem[q]
        /\ UNCHANGED <<joined_to, queue, sent, final, handler, unused_requests, php, got>>
    BY <1>6 DEF Start, TypeInv, TypeOK
  <2>2. OwnOrJoined' /\ NoneElsewhere'
    BY <2>1, HandlersAside
  <2>3. KeptWhileJoined'
    <3>1. \A q \in Requests : (LetGo(q)' <=> LetGo(q)) /\ (Exhausted(q)' <=> Exhausted(q))
      BY <2>1 DEF LetGo, Exhausted, Received, JoinInv, KeptWhileJoined
    <3>2. php.pc \in {"free", "mark"} => php.request \in Requests
      BY DEF TypeInv, Busy
    <3>3. \A q \in Requests : q \in open' => mem'[q] = "live"
      BY <2>1 DEF JoinInv, KeptWhileJoined
    <3>4. php'.pc \in {"free", "mark"} => LetGo(php.request)'
      BY <2>1, <3>1, <3>2 DEF JoinInv, KeptWhileJoined
    <3>5. \A q \in unused_requests' : LetGo(q)'
      BY <2>1, <3>1 DEF JoinInv, KeptWhileJoined, TypeInv, TypeOK
    <3>6. \A q \in Requests : LetGo(q)' => Exhausted(q)'
      BY <3>1 DEF JoinInv, KeptWhileJoined
    <3>7. QED
      BY <3>3, <3>4, <3>5, <3>6 DEF KeptWhileJoined, LetGo
  <2>4. QED
    BY <2>1, <2>2, <2>3, QueuesAside DEF JoinInv
<1>7. ASSUME NEW r \in Requests, Next_Pop(r) PROVE JoinInv'
  BY <1>7, JoinPop DEF Next_Pop
<1>8. ASSUME Next_InTime \/ Next_Woken PROVE JoinInv'
  <2>1. php.request \in Requests /\ php'.pc = "idle"
    BY <1>8 DEF Next_InTime, Next_Woken, TypeInv, Busy, Idle
  <2>2. CASE Pop(php.request)
    BY <2>1, <2>2, JoinPop
  <2>3. CASE ~Pop(php.request)
    BY <1>8, <2>1, <2>3, JoinAside DEF Next_InTime, Next_Woken
  <2>4. QED
    BY <2>2, <2>3
<1>9. ASSUME NEW r \in Requests, Next_Wait(r) \/ IsFinished_Size(r) PROVE JoinInv'
  BY <1>9, JoinAside DEF Next_Wait, IsFinished_Size
<1>10. ASSUME \/ Next_TimedOut \/ IsFinished_Flag \/ SpuriousNextWake
              \/ EndScript \/ RShutdown_Done \/ NextScript
       PROVE  JoinInv'
  BY <1>10, JoinAside DEF Next_TimedOut, IsFinished_Flag, SpuriousNextWake, EndScript,
                          RShutdown_Done, NextScript, Idle, TypeInv, TypeOK
<1>11. ASSUME NEW a \in Requests, NEW b \in Requests, Join(a, b) PROVE JoinInv'
  <2>1. /\ {a, b} \subseteq open /\ joined_to[b] = NULL /\ joined_to'[b] = a
        /\ \A h \in Requests : h # b => joined_to'[h] = joined_to[h]
        /\ UNCHANGED <<mem, queue, sent, final, handler, open, unused_requests, php, got>>
    BY <1>11 DEF Join, TypeInv, TypeOK
  <2>2. OwnOrJoined'
    BY <2>1, RequestAssumption DEF JoinInv, OwnOrJoined, KeptWhileJoined
  <2>3. KeptWhileJoined'
    <3>1. \A q \in Requests : LetGo(q) /\ Exhausted(q) => Exhausted(q)'
      BY <2>1 DEF LetGo, Exhausted, Received
    <3>2. QED
      BY <2>1, <3>1 DEF JoinInv, KeptWhileJoined, LetGo
  <2>4. NoneElsewhere'
    BY <2>1 DEF JoinInv, NoneElsewhere
  <2>5. Increasing'
    BY <2>1 DEF JoinInv, Increasing
  <2>6. Elsewhere'
    <3>1. ASSUME NEW q \in Requests, NEW e \in Range(queue[q]), e.data # q
          PROVE  joined_to'[e.data] = q
      <4>1. e.data \in Requests /\ joined_to[e.data] = q
        BY <3>1, QueueElements DEF JoinInv, Elsewhere
      <4>2. QED
        BY <2>1, <4>1, RequestAssumption
    <3>2. QED
      BY <2>1, <3>1 DEF JoinInv, Elsewhere
  <2>7. QED
    BY <2>2, <2>3, <2>4, <2>5, <2>6 DEF JoinInv
<1>12. ASSUME NEW a \in Requests, NEW b \in Requests, Disconnect(a, b) PROVE JoinInv'
  BY <1>12 DEF Disconnect, Patient
<1>13. ASSUME NEW r \in Requests, Close(r) PROVE JoinInv'
  <2>1. /\ Exhausted(r) /\ r \in open /\ open' = open \ {r} /\ php'.request = r
        /\ UNCHANGED <<mem, joined_to, queue, sent, final, handler, unused_requests, got>>
    BY <1>13 DEF Close, MayClose, Patient, Exhausted
  <2>2. OwnOrJoined' /\ NoneElsewhere'
    BY <2>1, HandlersAside
  <2>3. KeptWhileJoined'
    <3>1. mem[r] = "live"
      BY <2>1 DEF JoinInv, KeptWhileJoined
    <3>2. \A q \in Requests : Exhausted(q)' <=> Exhausted(q)
      BY <2>1 DEF Exhausted, Received
    <3>3. QED
      BY <2>1, <3>1, <3>2 DEF JoinInv, KeptWhileJoined, LetGo
  <2>4. QED
    BY <2>1, <2>2, <2>3, QueuesAside DEF JoinInv
<1>14. ASSUME MarkUnused PROVE JoinInv'
  <2>1. /\ php.request \in Requests /\ LetGo(php.request)
        /\ unused_requests' = unused_requests \cup {php.request} /\ php'.pc = "idle"
        /\ UNCHANGED <<mem, joined_to, queue, sent, final, handler, open, got>>
    BY <1>14 DEF MarkUnused, JoinInv, KeptWhileJoined, TypeInv, Busy, Idle
  <2>2. OwnOrJoined' /\ NoneElsewhere'
    BY <2>1, HandlersAside
  <2>3. KeptWhileJoined'
    <3>1. \A q \in Requests : Exhausted(q)' <=> Exhausted(q)
      BY <2>1 DEF Exhausted, Received
    <3>2. QED
      BY <2>1, <3>1 DEF JoinInv, KeptWhileJoined, LetGo
  <2>4. QED
    BY <2>1, <2>2, <2>3, QueuesAside DEF JoinInv
<1>15. ASSUME Release PROVE JoinInv'
  <2>1. php.request \in Requests /\ LetGo(php.request)
    BY <1>15 DEF Release, JoinInv, KeptWhileJoined, TypeInv, Busy
  <2>2. QED
    BY <1>15, <2>1, JoinFree DEF Release, Idle
<1>16. ASSUME NEW r \in Requests, RShutdown_Clean(r) PROVE JoinInv'
  <2>1. LetGo(r)
    BY <1>16 DEF RShutdown_Clean, JoinInv, KeptWhileJoined
  <2>2. QED
    BY <1>16, <2>1, JoinFree DEF RShutdown_Clean, Unlisted
<1>17. CASE UNCHANGED vars
  BY <1>17, JoinAside DEF vars
<1>18. QED
  BY <1>1, <1>2, <1>3, <1>4, <1>5, <1>6, <1>7, <1>8, <1>9, <1>10, <1>11, <1>12, <1>13, <1>14, <1>15, <1>16, <1>17
     DEF Next, Handle, Engine, Script

(* Before the first script nothing is joined. *)
LEMMA InitJoin == Init => TypeInv /\ OnceInv /\ JoinInv
<1>1. Init => JoinInv
  BY DEF Init, JoinInv, OwnOrJoined, KeptWhileJoined, Increasing, Elsewhere, NoneElsewhere,
         LetGo, Range, Quiet, Idle, Resolved
<1>2. QED
  BY <1>1, InitOnce, InitType

(* Both handlers and scripts then only meet requests that are live.        *)
LEMMA JoinIsSafe ==
  ASSUME TypeInv, OnceInv, JoinInv
  PROVE  HandlerSafe /\ ElementsSafe
<1>1. ASSUME NEW r \in Requests, mem[r] # "none", ~Received(r) PROVE Live(r)
  BY <1>1, RequestAssumption DEF JoinInv, KeptWhileJoined, LetGo, Exhausted, Live
<1>2. ASSUME NEW r \in Requests, handler[r].pc # "idle"
      PROVE  Live(r) /\ Live(handler[r].data)
  <2>1. mem[r] # "none" /\ ~Received(r) /\ handler[r].data \in Requests \cap {r, joined_to[r]}
    BY <1>2, BusyIsNotReceived DEF JoinInv, OwnOrJoined
  <2>2. Live(r)
    BY <1>1, <2>1
  <2>3. ASSUME handler[r].data = r PROVE Live(handler[r].data)
    BY <2>2, <2>3
  <2>4. ASSUME handler[r].data = joined_to[r] PROVE Live(handler[r].data)
    <3>1. /\ joined_to[r] \in Requests /\ mem[joined_to[r]] # "none"
      BY <2>1, <2>4, RequestAssumption DEF JoinInv, OwnOrJoined
    <3>2. ~LetGo(joined_to[r])
      BY <2>1, <3>1 DEF JoinInv, KeptWhileJoined, Exhausted
    <3>3. QED
      BY <2>4, <3>1, <3>2, RequestAssumption DEF JoinInv, KeptWhileJoined, LetGo, Live
  <2>5. handler[r].data = r \/ handler[r].data = joined_to[r]
    BY <2>1
  <2>6. Live(handler[r].data)
    BY <2>3, <2>4, <2>5
  <2>7. QED
    BY <2>2, <2>6
<1>3. ASSUME NEW r \in Requests, mem[r] = "freed" PROVE final[r]
  BY <1>3 DEF JoinInv, KeptWhileJoined, LetGo, Exhausted, Received
<1>4. HandlerSafe
  BY <1>2, <1>3 DEF HandlerSafe
<1>5. ASSUME NEW q \in open, NEW e \in Range(queue[q]) PROVE Live(e.data)
  <2>1. q \in Requests /\ e.data \in Requests
    BY <1>5, QueueElements DEF TypeInv, TypeOK
  <2>2. CASE e.data = q
    BY <1>5, <2>1, <2>2, RequestAssumption DEF JoinInv, KeptWhileJoined, Live
  <2>3. CASE e.data # q
    <3>1. joined_to[e.data] = q /\ ~Received(e.data)
      BY <1>5, <2>1, <2>3 DEF JoinInv, Elsewhere, Received
    <3>2. mem[e.data] # "none"
      BY <2>1, <3>1, RequestAssumption DEF JoinInv, OwnOrJoined
    <3>3. QED
      BY <1>1, <2>1, <3>1, <3>2
  <2>4. QED
    BY <2>2, <2>3
<1>6. ElementsSafe
  BY <1>5 DEF ElementsSafe
<1>7. QED
  BY <1>4, <1>6

(* All three together hold from the start and for ever.                    *)
LEMMA JoinInvHolds ==
  ASSUME Patient
  PROVE  Spec => [](TypeInv /\ OnceInv /\ JoinInv)
<1>1. TypeInv /\ OnceInv /\ JoinInv /\ [Next]_vars => (TypeInv /\ OnceInv /\ JoinInv)'
  BY NextType, NextOnce, NextJoin
<1>2. QED
  BY <1>1, InitJoin, PTL DEF Spec

(* Also when requests are joined, in any number, in chains, in rings or to *)
(* themselves, the handler never works on released request data, as long   *)
(* as scripts read a request and all that is joined to it to the end and   *)
(* do not disconnect.                                                      *)
THEOREM HandlerSafeWhenJoined ==
  ASSUME Patient
  PROVE  Spec => []HandlerSafe
<1>1. TypeInv /\ OnceInv /\ JoinInv => HandlerSafe
  BY JoinIsSafe
<1>2. QED
  BY <1>1, JoinInvHolds, PTL

(* And no element that such a script may still pop names a request that    *)
(* was released: ton_request_next reads its id.                            *)
THEOREM ElementsSafeWhenJoined ==
  ASSUME Patient
  PROVE  Spec => []ElementsSafe
<1>1. TypeInv /\ OnceInv /\ JoinInv => ElementsSafe
  BY JoinIsSafe
<1>2. QED
  BY <1>1, JoinInvHolds, PTL
=============================================================================
