------------------------------ MODULE Deadline ------------------------------
(***************************************************************************)
(* How long ton_request_next waits: the timeout a script gives becomes an  *)
(* int (ton_client.c:315), the int chooses how to wait (rpa_queue.h:24)    *)
(* and, for a bounded wait, the deadline get_future_timespec computes for  *)
(* pthread_cond_timedwait.                                                 *)
(***************************************************************************)
EXTENDS Integers

CONSTANT IntLimit  (* 2^31: a C int runs from -IntLimit to IntLimit - 1 *)

ASSUME IntAssumption == IntLimit \in Nat \ {0, 1}

Ints == -IntLimit .. IntLimit - 1

(* The conversion (int) of a wider integer keeps the low bits. *)
Narrow(timeout) == ((timeout + IntLimit) % (2 * IntLimit)) - IntLimit

(* rpa_queue_timedpop(ms): RPA_WAIT_NONE, RPA_WAIT_FOREVER, or a deadline. *)
WaitFor(ms) == CASE ms = 0 -> "none" [] ms = -1 -> "forever" [] OTHER -> "timed"

(* Division in C goes towards zero, and % has the sign of the dividend. *)
Quotient(a, b) == IF a >= 0 THEN a \div b ELSE -((-a) \div b)
Remainder(a, b) == a - b * Quotient(a, b)

Second == 1000000000  (* in nanoseconds *)

CarriesLate(nsec) == nsec > Second
Carries(nsec) == nsec >= Second

get_future_timespec(now, ms) ==
  LET sec == now.sec + Quotient(ms, 1000)
      nsec == now.nsec + Remainder(ms, 1000) * 1000000
  IN  IF Carries(nsec) THEN [sec |-> sec + 1, nsec |-> nsec - Second]
                       ELSE [sec |-> sec, nsec |-> nsec]

(* What pthread_cond_timedwait accepts; it answers EINVAL otherwise. *)
Timespecs == [sec : Int, nsec : 0 .. Second - 1]

(* due is ms milliseconds after now. *)
IsAfter(due, now, ms) ==
  due.nsec - now.nsec = (ms - 1000 * (due.sec - now.sec)) * 1000000
=============================================================================
