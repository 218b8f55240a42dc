---------------------------- MODULE WorkerAuthority ----------------------------
(***************************************************************************)
(* Which worker process may act: the lease in worker_locks, acquired by    *)
(* boot.ts, renewed by the heartbeat of live-supervisor.ts, and the        *)
(* authority flag of fencing.ts that a lost lease takes away.              *)
(*                                                                         *)
(* Both ways of expiry in the code (expires_at passed, heartbeat_at older  *)
(* than twice the TTL) are decided by the time since the last renewal,     *)
(* because the two columns are only written together: the age of the       *)
(* lease.  Time is counted in ticks; it cannot pass over a heartbeat that  *)
(* is due, except as an incident.  The fencing epoch is left out: nothing  *)
(* compares it.                                                            *)
(***************************************************************************)
EXTENDS Integers

CONSTANTS
  Worker,        \* processes, by WORKER_ID
  NoOwner,       \* there is no row
  Ttl,           \* LOCK_TTL_SECONDS (8 s), in ticks
  Beat,          \* HEARTBEAT_INTERVAL_MS (10 s), in ticks
  MaxIncidents   \* bound: deploys, crashes, failed starts, statements and timers

ASSUME AuthorityAssumption ==
  /\ NoOwner \notin Worker
  /\ Ttl \in Nat \ {0} /\ Beat \in Nat \ {0} /\ MaxIncidents \in Nat

VARIABLES
  owner, age,    \* the row of worker_locks: owner_id, ticks since heartbeat_at
  st,            \* where each process is
  strikes,       \* LiveSupervisor.lockLostStrikes
  beat,          \* ticks since the heartbeat timer fired
  gap,           \* history: ticks for which a live worker has not had the row
  incidents

lease == <<owner, age>>
process == <<st, strikes, beat, gap>>
vars == <<lease, process, incidents>>

Incident == incidents < MaxIncidents /\ incidents' = incidents + 1
NoIncident == UNCHANGED incidents
Goes(w, to) == st' = [st EXCEPT ![w] = to]
Timers == UNCHANGED <<strikes, beat, gap>>

Init ==
  /\ owner = NoOwner /\ age = 0
  /\ st = [w \in Worker |-> "down"]
  /\ strikes = [w \in Worker |-> 0] /\ beat = [w \in Worker |-> 0]
  /\ gap = [w \in Worker |-> 0]
  /\ incidents = 0

Expired == age > Ttl

(* Slip: DELETE FROM worker_locks, whoever owns it *)
ReleasedAny(w) == owner' = NoOwner /\ age' = 0

(* DELETE FROM worker_locks WHERE owner_id *)
Released(w) == IF owner = w THEN owner' = NoOwner /\ age' = 0 ELSE UNCHANGED lease

-----------------------------------------------------------------------------
(* boot.ts *)

Boot(w) ==
  /\ st[w] = "down" /\ Goes(w, "waiting")
  /\ NoIncident /\ Timers /\ UNCHANGED lease

(* acquireWorkerLock drops an expired row (a failure is ignored) ...       *)
DropExpired(w) ==
  /\ st[w] = "waiting" /\ Goes(w, "inserting")
  /\ \/ /\ IF Expired THEN owner' = NoOwner /\ age' = 0 ELSE UNCHANGED lease
        /\ NoIncident
     \/ UNCHANGED lease /\ Incident
  /\ Timers

(* Slip: an UPDATE alone, which needs a row *)
FreeRow(w) == owner = w \/ (owner # NoOwner /\ Expired)

Free(w) == owner \in {NoOwner, w} \/ Expired

(* Slip: a row of another owner is taken for one's own *)
InsertRegardless(w) ==
  LET taken == IF Free(w) THEN owner' = w /\ age' = 0 ELSE UNCHANGED lease IN
  /\ st[w] = "inserting"
  /\ \/ taken /\ Goes(w, "starting") /\ NoIncident
     \/ (taken \/ UNCHANGED lease) /\ Goes(w, "failing") /\ Incident
  /\ Timers

(* ... and inserts its own, or takes over the row that is there; without   *)
(* success it waits and tries again.  When the statement fails the boot    *)
(* is cleaned up and begins anew.                                          *)
Insert(w) ==
  LET taken == IF Free(w) THEN owner' = w /\ age' = 0 ELSE UNCHANGED lease IN
  /\ st[w] = "inserting"
  /\ \/ taken /\ Goes(w, IF Free(w) THEN "starting" ELSE "waiting") /\ NoIncident
     \/ (taken \/ UNCHANGED lease) /\ Goes(w, "failing") /\ Incident
  /\ Timers

(* Slip: a restarted process goes on counting *)
StartedCounting(w) ==
  /\ st[w] = "starting" /\ Goes(w, "live")
  /\ beat' = [beat EXCEPT ![w] = 0] /\ gap' = [gap EXCEPT ![w] = 0]
  /\ NoIncident /\ UNCHANGED <<lease, strikes>>

(* Signing, the cooldown and the history are ready: supervisor, dispatcher *)
(* subscriber and poll worker are started.  No heartbeat before.           *)
Started(w) ==
  /\ st[w] = "starting" /\ Goes(w, "live")
  /\ strikes' = [strikes EXCEPT ![w] = 0] /\ beat' = [beat EXCEPT ![w] = 0]
  /\ gap' = [gap EXCEPT ![w] = 0]
  /\ NoIncident /\ UNCHANGED lease

StartFails(w) ==
  /\ st[w] = "starting" /\ Goes(w, "failing")
  /\ Incident /\ Timers /\ UNCHANGED lease

(* The failed boot releases its lease and is tried again *)
CleanUp(w) ==
  /\ st[w] = "failing" /\ Goes(w, "waiting")
  /\ \/ Released(w) /\ NoIncident
     \/ UNCHANGED lease /\ Incident
  /\ Timers

-----------------------------------------------------------------------------
(* live-supervisor.ts, fencing.ts *)

(* Slip: the strike of a process is not kept from one beat to the next *)
HeartbeatForgets(w) ==
  /\ st[w] = "live" /\ beat[w] = Beat
  /\ beat' = [beat EXCEPT ![w] = 0]
  /\ IF owner = w THEN age' = 0 /\ UNCHANGED <<owner, strikes>>
     ELSE strikes' = [strikes EXCEPT ![w] = 1] /\ UNCHANGED lease
  /\ NoIncident /\ UNCHANGED <<st, gap>>

(* The heartbeat renews the row it owns, expired or not.  The second       *)
(* consecutive one that finds another owner, or none, takes the authority  *)
(* away and stops the timers.                                              *)
Heartbeat(w) ==
  /\ st[w] = "live" /\ beat[w] = Beat
  /\ beat' = [beat EXCEPT ![w] = 0]
  /\ IF owner = w
     THEN /\ age' = 0 /\ strikes' = [strikes EXCEPT ![w] = 0]
          /\ UNCHANGED <<owner, st>>
     ELSE /\ strikes' = [strikes EXCEPT ![w] = @ + 1]
          /\ IF strikes[w] + 1 >= 2 THEN Goes(w, "demoted") ELSE UNCHANGED st
          /\ UNCHANGED lease
  /\ NoIncident /\ UNCHANGED gap

(* Slip: a statement that fails is a strike *)
HeartbeatFailsHard(w) ==
  /\ st[w] = "live" /\ beat[w] = Beat
  /\ beat' = [beat EXCEPT ![w] = 0]
  /\ strikes' = [strikes EXCEPT ![w] = @ + 1]
  /\ IF strikes[w] + 1 >= 2 THEN Goes(w, "demoted") ELSE UNCHANGED st
  /\ Incident /\ UNCHANGED <<lease, gap>>

(* A statement that fails is no strike, whether it renewed the row or not *)
HeartbeatFails(w) ==
  /\ st[w] = "live" /\ beat[w] = Beat
  /\ beat' = [beat EXCEPT ![w] = 0]
  /\ age' \in {age, IF owner = w THEN 0 ELSE age}
  /\ Incident /\ UNCHANGED <<owner, st, strikes, gap>>

-----------------------------------------------------------------------------
(* The end of a process *)

(* SIGTERM: a started worker gives up its authority, then its lease; one   *)
(* that is not started yet just exits.                                     *)
Stop(w) ==
  /\ st[w] # "down"
  /\ Goes(w, IF st[w] \in {"live", "demoted"} THEN "leaving" ELSE "down")
  /\ Incident /\ Timers /\ UNCHANGED lease

Leave(w) ==
  /\ st[w] = "leaving" /\ Goes(w, "down")
  /\ \/ Released(w) /\ NoIncident
     \/ UNCHANGED lease /\ Incident
  /\ Timers

Crash(w) ==
  /\ st[w] # "down" /\ Goes(w, "down")
  /\ Incident /\ Timers /\ UNCHANGED lease

-----------------------------------------------------------------------------
(* Time.  Counters stop where nothing looks further.                       *)

Upto(n, max) == IF n < max THEN n + 1 ELSE max

Passes ==
  /\ age' = Upto(age, Ttl + 1) /\ UNCHANGED <<owner, st, strikes>>
  /\ beat' = [w \in Worker |-> IF st[w] = "live" THEN Upto(beat[w], Beat) ELSE beat[w]]
  /\ gap' = [w \in Worker |-> IF st[w] = "live" /\ owner # w THEN Upto(gap[w], 2 * Beat + 1)
                              ELSE gap[w]]

Due == {w \in Worker : st[w] = "live" /\ beat[w] = Beat}

Tick == Due = {} /\ Passes /\ NoIncident
TimerLate == Due # {} /\ Passes /\ Incident

Step(w) ==
  \/ Boot(w) \/ DropExpired(w) \/ Insert(w) \/ Started(w) \/ CleanUp(w)
  \/ Heartbeat(w) \/ Leave(w)

Trouble(w) == StartFails(w) \/ HeartbeatFails(w) \/ Stop(w) \/ Crash(w)

Next == (\E w \in Worker : Step(w) \/ Trouble(w)) \/ Tick \/ TimerLate

(* The platform restarts processes, the loops retry, timers fire, time     *)
(* passes.                                                                 *)
Fairness == WF_vars(Tick) /\ \A w \in Worker : WF_vars(Step(w))

Spec == Init /\ [][Next]_vars /\ Fairness

-----------------------------------------------------------------------------
(* Properties *)

Serving(w) == st[w] = "live"

(* Every variable keeps its shape; a live worker has at most one strike,   *)
(* a process that is not started has no claim to a timer.                  *)
TypeOK ==
  /\ owner \in Worker \cup {NoOwner} /\ age \in 0 .. Ttl + 1
  /\ st \in [Worker -> {"down", "waiting", "inserting", "starting", "failing", "live",
                        "demoted", "leaving"}]
  /\ strikes \in [Worker -> 0 .. 2] /\ \A w \in Worker : Serving(w) => strikes[w] < 2
  /\ beat \in [Worker -> 0 .. Beat] /\ gap \in [Worker -> 0 .. 2 * Beat + 1]
  /\ incidents \in 0 .. MaxIncidents

(* A lease that has not expired is only lost by its own process giving it  *)
(* up: no boot, no shutdown and no clean-up of another worker takes it.    *)
TakeoverProvesExpiry ==
  [][\A w \in Worker : owner = w /\ ~Expired /\ owner' # w => st[w] \in {"failing", "leaving"}]_vars

(* A worker that was demoted does not hold the lease, so it blocks nobody *)
DemotedHoldsNothing == \A w \in Worker : st[w] = "demoted" => owner # w

(* A live worker whose lease was taken goes on for at most two heartbeat   *)
(* intervals when its heartbeats are answered.                             *)
OverlapIsShort ==
  \A w \in Worker : Serving(w) /\ incidents = 0 => gap[w] <= 2 * Beat

(* What the lease promises, LeasePromise, is kept by every statement that  *)
(* inserts, renews or deletes the row and every boot that fails between.   *)
Role(s) == CASE s = "starting" -> "granted"
             [] s = "live"     -> "serving"
             [] s = "demoted"  -> "demoted"
             [] OTHER          -> "out"

Lease == INSTANCE LeasePromise
  WITH holder <- owner, valid <- owner = NoOwner \/ ~Expired,
       role <- [w \in Worker |-> Role(st[w])]

ImplementsLease == Lease!Spec

(* Some worker serves again and again: takeovers, failed starts and        *)
(* demotions (which last as long as the process) never leave the system    *)
(* with none.                                                              *)
SomeoneServes == []<>(\E w \in Worker : Serving(w))

(* "Distributed single-writer lock (P0)" *)
SingleWriter == \A v, w \in Worker : Serving(v) /\ Serving(w) => v = w

=============================================================================
