----------------------------- MODULE ZtsRequests -----------------------------
(***************************************************************************)
(* ton_client.c in a thread-safe (ZTS) build: several PHP threads run      *)
(* scripts at once and share two statics without a lock, the counter       *)
(* TON_REQUEST_NEXT_ID and the list unused_requests (ton_client.c:27-28).  *)
(* Two accesses of a thread to a static are two steps, as the build may    *)
(* make them.  A request belongs to the thread that started it; of what    *)
(* TonRequest says about one request, only its release is kept.            *)
(*                                                                         *)
(* zend_llist is PHP's: a doubly linked list whose head and tail are in    *)
(* the static.  A request is put on it at most once, so a request stands   *)
(* for its element too.                                                    *)
(***************************************************************************)
EXTENDS Integers

CONSTANTS
  Workers,    (* the PHP threads                                            *)
  Requests,   (* the requests they may start                                *)
  NULL        (* the pointer of an empty list, not a request                *)

VARIABLES
  TON_REQUEST_NEXT_ID,
  head, tail, next,  (* unused_requests                                     *)
  element,           (* of it: "none", "listed" or "freed"                  *)
  id, mem, finished, (* the request data                                    *)
  open,              (* the resources the script of a worker holds          *)
  worker             (* where each thread is, and what it has read          *)

list == <<head, tail, next, element>>
datas == <<id, mem, finished>>
vars == <<TON_REQUEST_NEXT_ID, list, datas, open, worker>>

Idle == [pc |-> "idle", request |-> NULL, id |-> 0, last |-> NULL]

Init ==
  /\ TON_REQUEST_NEXT_ID = 1
  /\ head = NULL /\ tail = NULL
  /\ next = [r \in Requests |-> NULL]
  /\ element = [r \in Requests |-> "none"]
  /\ id = [r \in Requests |-> 0]
  /\ mem = [r \in Requests |-> "none"]
  /\ finished = [r \in Requests |-> FALSE]
  /\ open = [w \in Workers |-> {}]
  /\ worker = [w \in Workers |-> Idle]

At(w, place) == worker[w].pc = place
Goto(w, place) == worker' = [worker EXCEPT ![w].pc = place]
Return(w) == worker' = [worker EXCEPT ![w] = Idle]

-----------------------------------------------------------------------------
(* ton_request_start: data->id = TON_REQUEST_NEXT_ID++ reads and writes. *)

Start_Read(w, r) ==
  /\ At(w, "idle") /\ mem[r] = "none"
  /\ mem' = [mem EXCEPT ![r] = "live"]
  /\ worker' = [worker EXCEPT ![w] =
                  [@ EXCEPT !.pc = "start", !.request = r, !.id = TON_REQUEST_NEXT_ID]]
  /\ UNCHANGED <<TON_REQUEST_NEXT_ID, list, id, finished, open>>

Start_Write(w) ==
  /\ At(w, "start")
  /\ TON_REQUEST_NEXT_ID' = worker[w].id + 1
  /\ id' = [id EXCEPT ![worker[w].request] = worker[w].id]
  /\ open' = [open EXCEPT ![w] = @ \cup {worker[w].request}]
  /\ Return(w)
  /\ UNCHANGED <<list, mem, finished>>

(* The SDK's last call for a request. *)
Finish(r) ==
  /\ mem[r] = "live" /\ id[r] # 0 /\ ~finished[r]
  /\ finished' = [finished EXCEPT ![r] = TRUE]
  /\ UNCHANGED <<TON_REQUEST_NEXT_ID, list, id, mem, open, worker>>

-----------------------------------------------------------------------------
(* ton_resource_destructor: free, or put on the list. *)

Close(w, r) ==
  /\ At(w, "idle") /\ r \in open[w]
  /\ open' = [open EXCEPT ![w] = @ \ {r}]
  /\ IF finished[r]
       THEN mem' = [mem EXCEPT ![r] = "freed"] /\ UNCHANGED worker
       ELSE /\ worker' = [worker EXCEPT ![w].pc = "add", ![w].request = r]
            /\ UNCHANGED mem
  /\ UNCHANGED <<TON_REQUEST_NEXT_ID, list, id, finished>>

(* zend_llist_add_element: after the last element, or as the first. *)
Add_Read(w) ==
  /\ At(w, "add")
  /\ worker' = [worker EXCEPT ![w].pc = "link", ![w].last = tail]
  /\ UNCHANGED <<TON_REQUEST_NEXT_ID, list, datas, open>>

Add_Link(w) ==
  LET r == worker[w].request
      last == worker[w].last
  IN /\ At(w, "link")
     /\ element' = [element EXCEPT ![r] = "listed"]
     /\ IF last = NULL THEN head' = r /\ UNCHANGED next
                       ELSE next' = [next EXCEPT ![last] = r] /\ UNCHANGED head
     /\ Goto(w, "tail")
     /\ UNCHANGED <<TON_REQUEST_NEXT_ID, tail, datas, open>>

Add_Tail(w) ==
  /\ At(w, "tail")
  /\ tail' = worker[w].request
  /\ Return(w)
  /\ UNCHANGED <<TON_REQUEST_NEXT_ID, head, next, element, datas, open>>

-----------------------------------------------------------------------------
(* RSHUTDOWN: zend_llist_clean walks from head, gives each element to      *)
(* ton_free_unused_request_data, which frees what is finished, and frees   *)
(* the element; then the list is empty.                                    *)

Clean_Begin(w) ==
  /\ At(w, "idle") /\ open[w] = {}
  /\ worker' = [worker EXCEPT ![w].pc = "clean", ![w].request = head]
  /\ UNCHANGED <<TON_REQUEST_NEXT_ID, list, datas, open>>

Clean_Element(w) ==
  LET r == worker[w].request IN
  /\ At(w, "clean") /\ r # NULL
  /\ element[r] = "listed" /\ mem[r] = "live"
  /\ mem' = IF finished[r] THEN [mem EXCEPT ![r] = "freed"] ELSE mem
  /\ element' = [element EXCEPT ![r] = "freed"]
  /\ worker' = [worker EXCEPT ![w].request = next[r]]
  /\ UNCHANGED <<TON_REQUEST_NEXT_ID, head, tail, next, id, finished, open>>

Clean_End(w) ==
  /\ At(w, "clean") /\ worker[w].request = NULL
  /\ head' = NULL /\ tail' = NULL
  /\ Return(w)
  /\ UNCHANGED <<TON_REQUEST_NEXT_ID, next, element, datas, open>>

-----------------------------------------------------------------------------
Next ==
  \/ \E r \in Requests : Finish(r)
  \/ \E w \in Workers :
       \/ Start_Write(w) \/ Add_Read(w) \/ Add_Link(w) \/ Add_Tail(w)
       \/ Clean_Begin(w) \/ Clean_Element(w) \/ Clean_End(w)
       \/ \E r \in Requests : Start_Read(w, r) \/ Close(w, r)

Spec == Init /\ [][Next]_vars

-----------------------------------------------------------------------------
(* Properties *)

(* "Request unique identifier." (README.md:101, of ton_request_id): no two *)
(* requests have the same id.                                              *)
IdsUnique ==
  \A r, s \in Requests : id[r] # 0 /\ r # s => id[r] # id[s]

(* "Extension is supposed to work in both Thread-Safe and Non-Thread safe  *)
(* environments." (README.md:195): a thread that cleans up meets only      *)
(* elements and request data that nobody has released.                     *)
CleansOnce ==
  \A w \in Workers :
    LET r == worker[w].request IN
    At(w, "clean") /\ r # NULL => element[r] = "listed" /\ mem[r] = "live"
=============================================================================
