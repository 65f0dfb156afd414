--------------------------- MODULE HaReservation ----------------------------
(***************************************************************************)
(* What the Coordinator promises: Home Assistant has at most one user at a *)
(* time, an ordinary Apply or one project job, and only the present user   *)
(* changes it.  A job stays the user through failures and restarts of      *)
(* Import until somebody frees the reservation.                            *)
(***************************************************************************)
CONSTANTS
  Users,    (* Ordinary Apply and every project job there may be.          *)
  Nobody

VARIABLES
  user,     (* Who may change HA, or Nobody.                               *)
  last      (* Who changed HA last, or Nobody.                             *)

Init == user = Nobody /\ last = Nobody

Acquire(u) == user = Nobody /\ user' = u /\ last' = last

Change == user # Nobody /\ last' = user /\ user' = user

Free == user # Nobody /\ user' = Nobody /\ last' = last

Next == (\E u \in Users : Acquire(u)) \/ Change \/ Free

Spec == Init /\ [][Next]_<<user, last>>
=============================================================================
