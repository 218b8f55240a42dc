----------------------------- MODULE LeasePromise -----------------------------
(***************************************************************************)
(* What the worker lease promises, without clocks, statements or boots.    *)
(* It is taken only when it is free, lapsed or one's own, and given up     *)
(* only by its holder; a worker serves only after the lease was granted to *)
(* it since it came up; only the holder renews it; and a worker is demoted *)
(* only when it is not the holder.  Nothing is promised about how many     *)
(* serve at a time: a holder that is late still serves when another one    *)
(* has taken the lapsed lease.                                             *)
(***************************************************************************)
CONSTANTS Worker, NoOwner

VARIABLES
  holder,   \* whose the lease is
  valid,    \* it has not lapsed
  role      \* "out", "granted", "serving" or "demoted"

vars == <<holder, valid, role>>

Takes(w, to) == role' = [role EXCEPT ![w] = to]
LeaseKept == UNCHANGED <<holder, valid>>

Init == holder = NoOwner /\ valid = TRUE /\ role = [w \in Worker |-> "out"]

Takeable(w) == holder \in {NoOwner, w} \/ ~valid

(* A grant whose answer is lost takes the lease and grants nothing *)
Take(w) ==
  /\ role[w] = "out" /\ Takeable(w)
  /\ holder' = w /\ valid' = TRUE
  /\ Takes(w, "granted") \/ UNCHANGED role

DropLapsed(w) == role[w] = "out" /\ ~valid /\ holder' = NoOwner /\ valid' = TRUE /\ UNCHANGED role

Serve(w) == role[w] = "granted" /\ Takes(w, "serving") /\ LeaseKept

Renew(w) == role[w] = "serving" /\ holder = w /\ valid' = TRUE /\ UNCHANGED <<holder, role>>

Demote(w) == role[w] = "serving" /\ holder # w /\ Takes(w, "demoted") /\ LeaseKept

Quit(w) == role[w] # "out" /\ Takes(w, "out") /\ LeaseKept

GiveUp(w) ==
  /\ role[w] = "out" /\ holder = w
  /\ holder' = NoOwner /\ valid' = TRUE /\ UNCHANGED role

Lapse == holder # NoOwner /\ valid' = FALSE /\ UNCHANGED <<holder, role>>

Next ==
  \/ \E w \in Worker : \/ Take(w) \/ DropLapsed(w) \/ Serve(w) \/ Renew(w) \/ Demote(w)
                       \/ Quit(w) \/ GiveUp(w)
  \/ Lapse

Spec == Init /\ [][Next]_vars

=============================================================================
