----------------------------- MODULE EventStream -----------------------------
(***************************************************************************)
(* What the extension promises a script that reads every request to its    *)
(* end: each request is a stream of events, of which the script receives   *)
(* each exactly once and in the order the SDK delivered them, and nothing  *)
(* is delivered to a request that is closed.                               *)
(*                                                                         *)
(* No memory, no queue and no threads; the module TonRequest is shown to   *)
(* implement it.                                                           *)
(***************************************************************************)
EXTENDS Integers, Sequences

CONSTANTS Requests, MaxEvents

VARIABLES
  status,   (* per request: "new", "open" or "closed"                       *)
  sent,     (* how many events the SDK has delivered                        *)
  final,    (* the last of them was the last of all                         *)
  got       (* the numbers of the events the script has received            *)

vars == <<status, sent, final, got>>

Init ==
  /\ status = [r \in Requests |-> "new"]
  /\ sent = [r \in Requests |-> 0]
  /\ final = [r \in Requests |-> FALSE]
  /\ got = [r \in Requests |-> <<>>]

Start(r) ==
  /\ status[r] = "new"
  /\ status' = [status EXCEPT ![r] = "open"]
  /\ UNCHANGED <<sent, final, got>>

Deliver(r) ==
  /\ status[r] = "open" /\ ~final[r] /\ sent[r] < MaxEvents
  /\ sent' = [sent EXCEPT ![r] = @ + 1]
  /\ \E last \in BOOLEAN : final' = [final EXCEPT ![r] = last]
  /\ UNCHANGED <<status, got>>

Receive(r) ==
  /\ status[r] = "open" /\ Len(got[r]) < sent[r]
  /\ got' = [got EXCEPT ![r] = Append(@, Len(@) + 1)]
  /\ UNCHANGED <<status, sent, final>>

Close(r) ==
  /\ status[r] = "open" /\ final[r] /\ Len(got[r]) = sent[r]
  /\ status' = [status EXCEPT ![r] = "closed"]
  /\ UNCHANGED <<sent, final, got>>

Next == \E r \in Requests : Start(r) \/ Deliver(r) \/ Receive(r) \/ Close(r)

Spec == Init /\ [][Next]_vars
=============================================================================
