----------------------- MODULE NotificationOutbox_proofs -----------------------
(***************************************************************************)
(* Theorems about the notification outbox for every set of signals and     *)
(* results, every limit of attempts, and any number of failed statements,  *)
(* lost replies, crashes and operator retries.                             *)
(***************************************************************************)
EXTENDS NotificationOutbox, TLAPS

(* A row the code has sent once more than it had cause to is in a place    *)
(* from which it cannot be sent again without a doubt: its acceptance is   *)
(* about to be recorded, nothing will claim it, or every claim of it is    *)
(* refused, as its target has started.                                     *)
Unclaimable(r) == Settled(r) \/ r \in late \/ r \in dbBegun

Paid(r) ==
  /\ copies[r] <= doubts[r] + 1
  /\ copies[r] > doubts[r] =>
       \/ At(r, "accepted") /\ row[r].status # "pending"
       \/ (job[r] = Idle \/ At(r, "suppressed")) /\ Unclaimable(r)
       \/ r \in dbBegun /\ ~At(r, "claimed") /\ ~At(r, "sending")
  /\ (At(r, "claimed") \/ At(r, "sending")) /\ row[r].status = "pending" =>
       copies[r] < doubts[r]
  /\ At(r, "accepted") => copies[r] > 0

(* Only a finalize statement whose reply was lost leaves a delivered row   *)
(* with a dispatch that does not know of it.                               *)
DeliveredIsOver(r) ==
  row[r].status = "delivered" /\ job[r] # Idle =>
    At(r, "failed") /\ doubts[r] > 0 /\ faults > 0

(* An attempt above the limit is charged to a fault; a delivered result    *)
(* whose finalize was refused stays inflight, late; a claim that was       *)
(* refused never is.                                                       *)
Charged(r) ==
  /\ row[r].attempts <= MaxAttempts + faults
  /\ \/ row[r].status = "pending"
     \/ row[r].status = "inflight" /\ job[r] = Idle
     => row[r].attempts < MaxAttempts + faults \/ r \in late
  /\ job[r] # Idle => row[r].status # "none" /\ row[r].attempts <= job[r].n
  /\ At(r, "refused") => row[r].status # "inflight"

RowInv(r) == Paid(r) /\ DeliveredIsOver(r) /\ Charged(r)

(* One dispatch at a time in each lane *)
Lanes ==
  /\ loop.pc = "wait" => \A s \in Signal : job[s] = Idle
  /\ \A s, z \in Signal : job[s] # Idle /\ job[z] # Idle => s = z
  /\ bg = "claim" => \A v \in Result : job[v] = Idle

(* The operator's retry and a crash apart, the filter forgets a signal     *)
(* only when it is delivered or killed; a kill is the registry's.          *)
Remembered ==
  /\ killing \subseteq begun
  /\ ~restarted => killed \subseteq begun
  /\ faults = 0 /\ retries = 0 =>
       \A s \in Signal \ (unannounced \cup killed) :
         row[s].status \in {"none", "delivered"} \/ s \in filter

IInv == TypeOK /\ Lanes /\ Remembered /\ \A r \in Row : RowInv(r)

(* One row as the promise sees it *)
Seen(r) == [fate |-> Fate(row[r].status), copies |-> copies[r], doubts |-> doubts[r]]

Kept(r) ==
  /\ Promise!MayShow(Seen(r), Seen(r)')
  /\ Promise!MayDoubt(Seen(r), Seen(r)')
  /\ Promise!MayMove(Seen(r), Seen(r)')

-----------------------------------------------------------------------------
(* Lemmas *)

LEMMA Faults ==
  ASSUME TypeOK, Fault \/ NoFault
  PROVE  /\ faults' \in 0 .. MaxFaults /\ retries' \in 0 .. MaxRetries
         /\ faults <= faults' /\ retries' = retries
         /\ Fault => faults' = faults + 1
         /\ NoFault => faults' = faults
         /\ faults \in Nat /\ retries \in Nat /\ faults' \in Nat
  BY OutboxAssumption DEF TypeOK, Fault, NoFault, budget

LEMMA RowTypes ==
  ASSUME TypeOK, NEW r \in Row
  PROVE  /\ row[r].status \in {"none", "pending", "inflight", "delivered", "dead_letter"}
         /\ row[r].due \in BOOLEAN /\ row[r].attempts \in Nat
         /\ job[r].at \in Stages /\ job[r].n \in Nat
         /\ copies[r] \in Nat /\ doubts[r] \in Nat
         /\ job[r] # Idle => job[r].at # "none" \/ job[r].n # 0
         /\ MaxAttempts \in Nat /\ MaxAttempts > 0 /\ faults \in Nat
  BY OutboxAssumption DEF TypeOK, Idle

(* Nothing happens to this row *)
LEMMA Untouched ==
  ASSUME TypeOK, NEW r \in Row, RowInv(r),
         row'[r] = row[r] \/ (row'[r].status = row[r].status /\ row'[r].attempts = row[r].attempts),
         job'[r] = job[r], copies'[r] = copies[r], doubts'[r] = doubts[r],
         late \subseteq late', dbBegun \subseteq dbBegun', faults' \in Nat, faults <= faults'
  PROVE  RowInv(r)' /\ Kept(r)
  <1>1. row'[r].status = row[r].status /\ row'[r].attempts = row[r].attempts
    OBVIOUS
  <1>2. RowInv(r)'
    BY <1>1, RowTypes, OutboxAssumption
       DEF RowInv, Paid, DeliveredIsOver, Charged, Unclaimable, Settled, At
  <1>3. Kept(r)
    BY <1>1 DEF Kept, Seen, Promise!MayShow, Promise!MayDoubt, Promise!MayMove
  <1> QED
    BY <1>2, <1>3

(* What a gate does to the dispatches *)
LEMMA GateShape ==
  ASSUME TypeOK, NEW r \in Row, Gate(r)
  PROVE  /\ \A q \in Row \ {r} : job'[q] = job[q]
         /\ job[r].at \in {"claimed", "refused"}
         /\ \/ job'[r] = Idle
            \/ job'[r].at \in {"expiring", "missing"} /\ job'[r].n = job[r].n
            \/ /\ At(r, "claimed") /\ r \notin begun
               /\ job'[r].at = "sending" /\ job'[r].n = job[r].n
         /\ job' \in [Row -> [at : Stages, n : 0 .. MaxAttempts + MaxFaults]]
  <1>1. job \in [Row -> [at : Stages, n : 0 .. MaxAttempts + MaxFaults]]
    BY DEF TypeOK
  <1>2. job[r].at \in {"claimed", "refused"}
    BY DEF Gate, At
  <1>3. CASE End(r)
    BY <1>1, <1>2, <1>3, OutboxAssumption DEF End, Idle, Stages
  <1>4. CASE Go(r, "expiring") \/ Go(r, "missing")
    BY <1>1, <1>2, <1>4 DEF Go, Stages
  <1>5. CASE r \notin begun /\ At(r, "claimed") /\ Go(r, "sending")
    BY <1>1, <1>2, <1>5 DEF Go, Stages
  <1> QED
    BY <1>3, <1>4, <1>5 DEF Gate

(* What a failing statement does to them: its own dispatch is over or      *)
(* failed, and results that are only claimed may be dropped.               *)
LEMMA JobErrorShape ==
  ASSUME TypeOK, NEW r \in Row, JobError(r)
  PROVE  /\ \A q \in Row :
              \/ job'[q] = job[q]
              \/ /\ job'[q] = Idle
                 /\ \/ q = r /\ job[q].at \in {"suppressed", "failed"}
                    \/ q \in Result /\ At(q, "claimed")
              \/ /\ q = r /\ job[q].at \in {"missing", "expiring", "rejected"}
                 /\ job'[q].at = "failed" /\ job'[q].n = job[q].n
         /\ \/ loop' = loop
            \/ /\ loop' = [loop EXCEPT !.pc = "wait", !.normal = FALSE]
               /\ r \in Signal /\ job[r] # Idle /\ job'[r] = Idle
         /\ job' \in [Row -> [at : Stages, n : 0 .. MaxAttempts + MaxFaults]]
  <1>1. job \in [Row -> [at : Stages, n : 0 .. MaxAttempts + MaxFaults]]
    BY DEF TypeOK
  <1>2. CASE /\ job[r].at \in {"missing", "expiring", "rejected"} /\ Go(r, "failed")
             /\ loop' = loop
    BY <1>1, <1>2 DEF Go, Stages
  <1>3. CASE job[r].at = "suppressed" /\ End(r) /\ loop' = loop
    BY <1>1, <1>3, OutboxAssumption DEF End, Idle, Stages
  <1>4. ASSUME NEW left \in SUBSET Unbegun(r), job[r].at = "failed",
               job' = [q \in Row |-> IF q \in {r} \cup left THEN Idle ELSE job[q]],
               loop' = IF r \in Signal THEN [loop EXCEPT !.pc = "wait", !.normal = FALSE]
                       ELSE loop
        PROVE  /\ \A q \in Row :
                    \/ job'[q] = job[q]
                    \/ /\ job'[q] = Idle
                       /\ \/ q = r /\ job[q].at \in {"suppressed", "failed"}
                          \/ q \in Result /\ At(q, "claimed")
               /\ \/ loop' = loop
                  \/ /\ loop' = [loop EXCEPT !.pc = "wait", !.normal = FALSE]
                     /\ r \in Signal /\ job[r] # Idle /\ job'[r] = Idle
               /\ job' \in [Row -> [at : Stages, n : 0 .. MaxAttempts + MaxFaults]]
    <2>1. Idle \in [at : Stages, n : 0 .. MaxAttempts + MaxFaults]
      BY OutboxAssumption DEF Idle, Stages
    <2>2. job[r] # Idle /\ job'[r] = Idle
      BY <1>4 DEF Idle
    <2> QED
      BY <1>1, <1>4, <2>1, <2>2 DEF Unbegun
  <1> QED
    BY <1>2, <1>3, <1>4 DEF JobError, At

-----------------------------------------------------------------------------
(* Types *)

LEMMA TypeStep ==
  ASSUME IInv, [Next]_vars
  PROVE  TypeOK'
  <1>1. ASSUME NEW s \in Signal, Persist(s) PROVE TypeOK'
    BY <1>1, Faults, OutboxAssumption
       DEF IInv, TypeOK, Persist, Idle, Stages, Row, NoFault, Fault, table, memory, worker, history, budget
  <1>2. ASSUME NEW s \in Signal, Announce(s) PROVE TypeOK'
    BY <1>2, Faults, OutboxAssumption
       DEF IInv, TypeOK, Announce, Idle, Stages, Row, NoFault, Fault, table, memory, worker, history, budget
  <1>3. ASSUME NEW s \in Signal, RoundStarted(s) PROVE TypeOK'
    BY <1>3, Faults, OutboxAssumption
       DEF IInv, TypeOK, RoundStarted, Idle, Stages, Row, NoFault, Fault, table, memory, worker, history, budget
  <1>4. ASSUME NEW s \in Signal, BgKill(s) PROVE TypeOK'
    BY <1>4, Faults, OutboxAssumption
       DEF IInv, TypeOK, BgKill, Status, Idle, Stages, Row, NoFault, Fault, table, memory, worker, history, budget
  <1>5. ASSUME NEW s \in Signal, BgKillFails(s) PROVE TypeOK'
    BY <1>5, Faults, OutboxAssumption
       DEF IInv, TypeOK, BgKillFails, Status, Idle, Stages, Row, NoFault, Fault, table, memory, worker, history, budget
  <1>6. ASSUME NEW s \in Signal, LearnStart(s) PROVE TypeOK'
    BY <1>6, Faults, OutboxAssumption
       DEF IInv, TypeOK, LearnStart, Idle, Stages, Row, NoFault, Fault, table, memory, worker, history, budget
  <1>7. ASSUME NEW v \in Result, PersistResult(v) PROVE TypeOK'
    <2>1. latch' \in SUBSET {"prediction", "normal"} /\ (Fault \/ NoFault)
      BY <1>7 DEF PersistResult, IInv, TypeOK
    <2>2. row' = [row EXCEPT ![v] = [status |-> "pending", due |-> FALSE, attempts |-> 0]]
          /\ v \in Row
      BY <1>7 DEF PersistResult, Row
    <2> QED
      BY <1>7, <2>1, <2>2, Faults, OutboxAssumption
         DEF IInv, TypeOK, PersistResult, memory, history
  <1>8. ASSUME NEW r \in Row, BecomeDue(r) PROVE TypeOK'
    <2>1. latch' \in SUBSET {"prediction", "normal"}
      BY <1>8 DEF BecomeDue, IInv, TypeOK
    <2> QED
      BY <1>8, <2>1, Faults, OutboxAssumption
         DEF IInv, TypeOK, BecomeDue, memory, history
  <1>9. ASSUME NEW r \in Row, Expire(r) PROVE TypeOK'
    BY <1>9, Faults, OutboxAssumption
       DEF IInv, TypeOK, Expire, Idle, Stages, Row, NoFault, Fault, table, memory, worker, history, budget
  <1>10. ASSUME NEW r \in Row, Gate(r) PROVE TypeOK'
    BY <1>10, GateShape, Faults DEF IInv, TypeOK, Gate, JobFrame
  <1>11. ASSUME NEW r \in Row, Send(r) PROVE TypeOK'
    BY <1>11, Faults, OutboxAssumption
       DEF IInv, TypeOK, Send, JobFrame, At, Go, End, Doubted, Idle, Stages, Row, NoFault, Fault, table, memory, worker, history, budget
  <1>12. ASSUME NEW r \in Row, Finalize(r) PROVE TypeOK'
    <2>1. job' \in [Row -> [at : Stages, n : 0 .. MaxAttempts + MaxFaults]]
      <3>1. Go(r, "suppressed") \/ End(r)
        BY <1>12 DEF Finalize
      <3>2. job \in [Row -> [at : Stages, n : 0 .. MaxAttempts + MaxFaults]]
        BY DEF IInv, TypeOK
      <3>3. CASE Go(r, "suppressed")
        BY <3>2, <3>3 DEF Go, Stages
      <3>4. CASE End(r)
        BY <3>2, <3>4, OutboxAssumption DEF End, Idle, Stages
      <3> QED
        BY <3>1, <3>3, <3>4
    <2>2. row' = row \/ row' = Status({r}, "delivered")
      BY <1>12 DEF Finalize
    <2>3. row' \in [Row -> [status : {"none", "pending", "inflight", "delivered", "dead_letter"},
                           due : BOOLEAN, attempts : 0 .. MaxAttempts + MaxFaults]]
      BY <2>2 DEF IInv, TypeOK, Status
    <2>4. filter' \in SUBSET Signal
      BY <1>12 DEF IInv, TypeOK, Finalize
    <2> QED
      BY <1>12, <2>1, <2>3, <2>4, Faults DEF IInv, TypeOK, Finalize, JobFrame
  <1>13. ASSUME NEW r \in Row, FinalizeFails(r) PROVE TypeOK'
    <2>1. job' \in [Row -> [at : Stages, n : 0 .. MaxAttempts + MaxFaults]]
      BY <1>13 DEF IInv, TypeOK, FinalizeFails, Go, Stages
    <2>2. row' = row \/ row' = Status({r}, "delivered")
      BY <1>13 DEF FinalizeFails
    <2>3. row' \in [Row -> [status : {"none", "pending", "inflight", "delivered", "dead_letter"},
                           due : BOOLEAN, attempts : 0 .. MaxAttempts + MaxFaults]]
      BY <2>2 DEF IInv, TypeOK, Status
    <2>4. doubts' \in [Row -> Nat]
      BY <1>13 DEF IInv, TypeOK, FinalizeFails, Doubted
    <2> QED
      BY <1>13, <2>1, <2>3, <2>4, Faults DEF IInv, TypeOK, FinalizeFails, JobFrame
  <1>14. ASSUME NEW r \in Row, Miss(r) PROVE TypeOK'
    BY <1>14, Faults, OutboxAssumption
       DEF IInv, TypeOK, Miss, JobFrame, At, Go, End, Status, Idle, Stages, Row, NoFault, Fault, table, memory, worker, history, budget
  <1>15. ASSUME NEW r \in Row, DeadLetter(r) PROVE TypeOK'
    BY <1>15, Faults, OutboxAssumption
       DEF IInv, TypeOK, DeadLetter, JobFrame, At, Go, End, Status, Idle, Stages, Row, NoFault, Fault, table, memory, worker, history, budget
  <1>16. ASSUME NEW r \in Row, HandleFailure(r) PROVE TypeOK'
    BY <1>16, Faults, OutboxAssumption
       DEF IInv, TypeOK, HandleFailure, JobFrame, At, Go, End, Status, Idle, Stages, Row, NoFault, Fault, table, memory, worker, history, budget
  <1>17. ASSUME NEW r \in Row, JobError(r) PROVE TypeOK'
    <2>1. loop' \in [pc : {"lane", "wait"}, tick : 0 .. Period - 1, normal : BOOLEAN]
      <3>1. loop \in [pc : {"lane", "wait"}, tick : 0 .. Period - 1, normal : BOOLEAN]
        BY DEF IInv, TypeOK
      <3>2. loop' = loop \/ loop' = [loop EXCEPT !.pc = "wait", !.normal = FALSE]
        BY <1>17, JobErrorShape DEF IInv
      <3> QED
        BY <3>1, <3>2
    <2> QED
      BY <1>17, <2>1, JobErrorShape, Faults DEF IInv, TypeOK, JobError, JobFrame
  <1>18. ASSUME ClaimSignal PROVE TypeOK'
    BY <1>18, Faults, OutboxAssumption
       DEF IInv, TypeOK, ClaimSignal, Iterate, Runs, NextTick, Claimable, Idle, Stages, Row, NoFault, Fault, table, memory, worker, history, budget
  <1>19. ASSUME ClaimNothing PROVE TypeOK'
    <2>0. (Iterate("lane") \/ Iterate("wait")) /\ (Fault \/ NoFault)
      BY <1>19 DEF ClaimNothing
    <2>1. /\ latch' = {} /\ (Fault \/ NoFault)
          /\ loop' \in [pc : {"lane", "wait"}, tick : 0 .. Period - 1, normal : BOOLEAN]
      <3>1. NextTick \in 0 .. Period - 1
        BY OutboxAssumption DEF NextTick, IInv, TypeOK
      <3>2. \E pc \in {"lane", "wait"}, normal \in BOOLEAN :
              loop' = [pc |-> pc, tick |-> NextTick, normal |-> normal]
        BY <2>0, Zenon DEF Iterate
      <3> QED
        BY <2>0, <3>1, <3>2 DEF Iterate
    <2> QED
      BY <1>19, <2>1, Faults DEF IInv, TypeOK, ClaimNothing, table, memory, history
  <1>20. ASSUME LoopRest PROVE TypeOK'
    BY <1>20, Faults, OutboxAssumption
       DEF IInv, TypeOK, LoopRest, bgRunning, Idle, Stages, Row, NoFault, Fault, table, memory, worker, history, budget
  <1>21. ASSUME ClaimResults PROVE TypeOK'
    <2>1. PICK old \in SUBSET {s \in Signal : Live(s)} :
            LET free == {v \in Result : Claimable(v) /\
                           \A s \in Signal \ old : <<s, v>> \in Gates => ~Live(s)} IN
            /\ row' = [r \in Row |-> IF r \in free
                 THEN [row[r] EXCEPT !.status = "inflight", !.attempts = @ + 1] ELSE row[r]]
            /\ \/ /\ job' = [r \in Row |-> IF r \in free
                         THEN [at |-> "claimed", n |-> row'[r].attempts] ELSE job[r]]
                  /\ NoFault
               \/ Fault /\ UNCHANGED job
      BY <1>21 DEF ClaimResults
    <2> DEFINE free == {v \in Result : Claimable(v) /\
                           \A s \in Signal \ old : <<s, v>> \in Gates => ~Live(s)}
    <2>2. ASSUME NEW r \in free PROVE row[r].attempts + 1 \in 0 .. MaxAttempts + MaxFaults
      BY OutboxAssumption DEF IInv, TypeOK, RowInv, Charged, Claimable, Row
    <2>3. row' \in [Row -> [status : {"none", "pending", "inflight", "delivered", "dead_letter"},
                            due : BOOLEAN, attempts : 0 .. MaxAttempts + MaxFaults]]
      BY <2>1, <2>2 DEF IInv, TypeOK
    <2>4. job' \in [Row -> [at : Stages, n : 0 .. MaxAttempts + MaxFaults]]
      <3>1. \A r \in Row : row'[r].attempts \in 0 .. MaxAttempts + MaxFaults
        BY <2>3
      <3>2. CASE UNCHANGED job
        BY <3>2 DEF IInv, TypeOK
      <3>3. CASE job' = [r \in Row |-> IF r \in free
                   THEN [at |-> "claimed", n |-> row'[r].attempts] ELSE job[r]]
        BY <3>1, <3>3 DEF IInv, TypeOK, Stages
      <3> QED
        BY <2>1, <3>2, <3>3
    <2> HIDE DEF free
    <2> QED
      BY <1>21, <2>1, <2>3, <2>4, Faults DEF IInv, TypeOK, ClaimResults, memory, history
  <1>22. ASSUME Sweep PROVE TypeOK'
    BY <1>22, Faults, OutboxAssumption
       DEF IInv, TypeOK, Sweep, RecoverFrame, Status, Overdue, Begun, Idle, Stages, Row, NoFault, Fault, table, memory, worker, history, budget
  <1>23. ASSUME ResetInflight PROVE TypeOK'
    <2>1. PICK S \in SUBSET {r \in Row : row[r].status = "inflight"} :
            /\ row' = Requeue(S)
            /\ doubts' = Doubted({r \in S : job[r] # Idle})
            /\ Fault \/ NoFault
      BY <1>23 DEF ResetInflight
    <2>2. doubts' \in [Row -> Nat]
      BY <2>1 DEF Doubted, IInv, TypeOK
    <2>3. row' \in [Row -> [status : {"none", "pending", "inflight", "delivered", "dead_letter"},
                            due : BOOLEAN, attempts : 0 .. MaxAttempts + MaxFaults]]
      <3>1. \A r \in Row : row[r] \in
              [status : {"none", "pending", "inflight", "delivered", "dead_letter"},
               due : BOOLEAN, attempts : 0 .. MaxAttempts + MaxFaults]
        BY DEF IInv, TypeOK
      <3>2. \A r \in Row : [row[r] EXCEPT !.status = "pending", !.due = TRUE] \in
              [status : {"none", "pending", "inflight", "delivered", "dead_letter"},
               due : BOOLEAN, attempts : 0 .. MaxAttempts + MaxFaults]
        BY <3>1
      <3> QED
        BY <2>1, <3>1, <3>2 DEF Requeue
    <2> QED
      BY <1>23, <2>1, <2>2, <2>3, Faults DEF IInv, TypeOK, ResetInflight, RecoverFrame, memory
  <1>24. ASSUME OperatorRetry PROVE TypeOK'
    BY <1>24, Faults, OutboxAssumption
       DEF IInv, TypeOK, OperatorRetry, Doubted, Idle, Stages, Row, NoFault, Fault, table, memory, worker, history, budget
  <1>25. ASSUME Crash PROVE TypeOK'
    BY <1>25, Faults, OutboxAssumption
       DEF IInv, TypeOK, Crash, Start, FirstWake, Doubted, Idle, Stages, Row, NoFault, Fault, table, memory, worker, history, budget
  <1>26. CASE UNCHANGED vars
    BY <1>26 DEF IInv, TypeOK, vars, table, memory, worker, history, budget
  <1> QED
    BY <1>1, <1>2, <1>3, <1>4, <1>5, <1>6, <1>7, <1>8, <1>9, <1>10, <1>11, <1>12, <1>13, <1>14, <1>15, <1>16, <1>17, <1>18, <1>19, <1>20, <1>21, <1>22, <1>23, <1>24, <1>25, <1>26 DEF Next, JobStep, Loop, Recover

-----------------------------------------------------------------------------
(* Every row keeps what makes the promise true, and takes a step of it *)

LEMMA RowStep ==
  ASSUME IInv, [Next]_vars, NEW z \in Row
  PROVE  RowInv(z)' /\ Kept(z)
  <1> USE OutboxAssumption, Faults, RowTypes
      DEF IInv, TypeOK, RowInv, Paid, DeliveredIsOver, Charged, Unclaimable, Settled, At, Idle, Row
  <1>1. ASSUME NEW s \in Signal, Persist(s) PROVE RowInv(z)' /\ Kept(z)
    <2>1. CASE z # s
      BY <1>1, <2>1, Untouched DEF Persist, NoFault, memory, worker,
         history, budget
    <2>2. CASE z = s
      <3>1. RowInv(s)'
        BY <1>1 DEF Persist, NoFault, memory, worker, history,
           budget
      <3>2. Kept(s)
        BY <1>1 DEF Kept, Seen, Fate, Promise!MayShow,
           Promise!MayDoubt, Promise!MayMove, Persist, NoFault,
           memory, worker, history, budget
      <3> QED
        BY <2>2, <3>1, <3>2
    <2> QED
      BY <2>1, <2>2
  <1>2. ASSUME NEW s \in Signal, Announce(s) PROVE RowInv(z)' /\ Kept(z)
    BY <1>2, Untouched DEF Announce, NoFault, Fault, history, budget
  <1>3. ASSUME NEW s \in Signal, RoundStarted(s) PROVE RowInv(z)' /\ Kept(z)
    BY <1>3, Untouched DEF RoundStarted, NoFault, table, worker,
       history, budget
  <1>4. ASSUME NEW s \in Signal, BgKill(s) PROVE RowInv(z)' /\ Kept(z)
    <2>1. CASE z # s
      BY <1>4, <2>1, Untouched DEF BgKill, Live, Status, NoFault,
         worker, budget
    <2>2. CASE z = s
      <3>1. RowInv(s)'
        BY <1>4 DEF BgKill, Live, Status, NoFault, worker, budget
      <3>2. Kept(s)
        BY <1>4 DEF Kept, Seen, Fate, Promise!MayShow,
           Promise!MayDoubt, Promise!MayMove, BgKill, Live, Status,
           NoFault, worker, budget
      <3> QED
        BY <2>2, <3>1, <3>2
    <2> QED
      BY <2>1, <2>2
  <1>5. ASSUME NEW s \in Signal, BgKillFails(s) PROVE RowInv(z)' /\ Kept(z)
    <2>1. CASE z # s
      BY <1>5, <2>1, Untouched DEF BgKillFails, Fault, Live, Status,
         worker, history
    <2>2. CASE z = s
      <3>1. RowInv(s)'
        BY <1>5 DEF BgKillFails, Fault, Live, Status, worker,
           history
      <3>2. Kept(s)
        BY <1>5 DEF Kept, Seen, Fate, Promise!MayShow,
           Promise!MayDoubt, Promise!MayMove, BgKillFails, Fault,
           Live, Status, worker, history
      <3> QED
        BY <2>2, <3>1, <3>2
    <2> QED
      BY <2>1, <2>2
  <1>6. ASSUME NEW s \in Signal, LearnStart(s) PROVE RowInv(z)' /\ Kept(z)
    BY <1>6, Untouched DEF LearnStart, Live, NoFault, memory, worker,
       history, budget
  <1>7. ASSUME NEW v \in Result, PersistResult(v) PROVE RowInv(z)' /\ Kept(z)
    <2>1. CASE z # v
      BY <1>7, <2>1, Untouched DEF PersistResult, NoFault, Fault,
         memory, history, budget
    <2>2. CASE z = v
      <3>1. RowInv(v)'
        BY <1>7 DEF PersistResult, NoFault, Fault, memory, history,
           budget
      <3>2. Kept(v)
        BY <1>7 DEF Kept, Seen, Fate, Promise!MayShow,
           Promise!MayDoubt, Promise!MayMove, PersistResult,
           NoFault, Fault, memory, history, budget
      <3> QED
        BY <2>2, <3>1, <3>2
    <2> QED
      BY <2>1, <2>2
  <1>8. ASSUME NEW r \in Row, BecomeDue(r) PROVE RowInv(z)' /\ Kept(z)
    BY <1>8, Untouched DEF BecomeDue, NoFault, memory, history, budget
  <1>9. ASSUME NEW r \in Row, Expire(r) PROVE RowInv(z)' /\ Kept(z)
    BY <1>9, Untouched DEF Expire, Live, NoFault, memory, worker,
       history, budget
  <1>10. ASSUME NEW r \in Row, Gate(r) PROVE RowInv(z)' /\ Kept(z)
    <2>1. /\ row' = row /\ late' = late /\ dbBegun' = dbBegun
          /\ copies' = copies /\ doubts' = doubts /\ NoFault
      BY <1>10 DEF Gate, JobFrame
    <2>2. CASE z # r
      BY <1>10, <2>1, <2>2, GateShape, Untouched
    <2>3. CASE z = r
      <3>1. Kept(r)
        BY <2>1 DEF Kept, Seen, Promise!MayShow, Promise!MayDoubt, Promise!MayMove
      <3>2. /\ job[r].at \in {"claimed", "refused"}
            /\ \/ job'[r] = Idle /\ At(r, "refused")
               \/ /\ job'[r].at \in {"expiring", "missing", "sending"} /\ job'[r].n = job[r].n
                  /\ job'[r].at = "sending" => At(r, "claimed")
        BY <1>10, GateShape DEF Gate, End, Go
      <3>3. Paid(r)'
        BY <2>1, <3>2
      <3>4. DeliveredIsOver(r)'
        BY <2>1, <3>2
      <3>5. Charged(r)'
        <4>1. /\ row[r].attempts <= MaxAttempts + faults /\ row[r].status # "none"
              /\ row[r].attempts <= job[r].n /\ faults' = faults
          BY <2>1, <3>2
        <4>2. row[r].status \in {"pending", "inflight"} /\ job'[r] = Idle =>
                row[r].attempts < MaxAttempts + faults \/ r \in late
          <5>1. At(r, "refused") => row[r].status = "pending" \/ Settled(r)
            BY <3>2, <4>1, RowTypes DEF Settled
          <5> QED
            BY <3>2, <5>1 DEF Settled
        <4> QED
          BY <2>1, <3>2, <4>1, <4>2
      <3> QED
        BY <2>3, <3>1, <3>3, <3>4, <3>5
    <2> QED
      BY <2>2, <2>3
  <1>11. ASSUME NEW r \in Row, Send(r) PROVE RowInv(z)' /\ Kept(z)
    <2>1. CASE z # r
      <3>1. Fault \/ NoFault
        BY <1>11 DEF Send
      <3>2. job'[z] = job[z] /\ copies'[z] = copies[z] /\ doubts'[z] = doubts[z]
        BY <1>11, <2>1 DEF Send, Go, Doubted
      <3>3. row' = row /\ late' = late /\ dbBegun' = dbBegun
        BY <1>11 DEF Send, JobFrame
      <3> QED
        BY <3>1, <3>2, <3>3, Untouched
    <2>2. CASE z = r
      <3>1. RowInv(r)'
        <4>1. At(r, "sending")
          BY <1>11 DEF Send
        <4>2. \/ \E stage \in {"failed", "rejected", "accepted"} :
                   /\ Go(r, stage) /\ UNCHANGED doubts /\ NoFault
                   /\ IF stage = "accepted" THEN copies' = [copies EXCEPT ![r] = @ + 1]
                                            ELSE UNCHANGED copies
              \/ /\ Go(r, "failed") /\ Fault
                 /\ copies' = [copies EXCEPT ![r] = @ + 1] /\ doubts' = Doubted({r})
          BY <1>11 DEF Send
        <4>3. job'[r].at \in {"failed", "rejected", "accepted"} /\ job'[r] # Idle
              /\ job'[r].n = job[r].n
          BY <4>2 DEF Go
        <4>4. row' = row /\ late' = late /\ dbBegun' = dbBegun
          BY <1>11 DEF Send, JobFrame
        <4>5. /\ copies[r] <= doubts[r] /\ row[r].status # "delivered" /\ job[r] # Idle
              /\ row[r].status = "pending" => copies[r] < doubts[r]
          BY <4>1
        <4>6. \/ copies'[r] = copies[r] /\ doubts'[r] = doubts[r]
              \/ copies'[r] = copies[r] + 1 /\ doubts'[r] = doubts[r] + 1
              \/ copies'[r] = copies[r] + 1 /\ doubts'[r] = doubts[r] /\ job'[r].at = "accepted"
          BY <4>2 DEF Go, Doubted
        <4>7. copies[r] \in Nat /\ doubts[r] \in Nat /\ (Fault \/ NoFault)
          BY <4>2
        <4>8. Paid(r)'
          <5>1. row'[r].status = row[r].status
            BY <4>4
          <5>2. /\ ~At(r, "claimed")' /\ ~At(r, "sending")' /\ ~At(r, "suppressed")'
                /\ job'[r] # Idle
            BY <4>3
          <5>3. copies'[r] <= doubts'[r] + 1
            BY <4>5, <4>6, <4>7
          <5>4. copies'[r] > doubts'[r] => At(r, "accepted")' /\ row'[r].status # "pending"
            BY <4>5, <4>6, <4>7, <5>1
          <5>5. At(r, "accepted")' => copies'[r] > 0
            BY <4>2, <4>7 DEF Go
          <5> QED
            BY <5>2, <5>3, <5>4, <5>5
        <4>9. DeliveredIsOver(r)' /\ Charged(r)'
          BY <4>3, <4>4, <4>5, <4>7
        <4> QED
          BY <4>8, <4>9
      <3>2. Kept(r)
        BY <1>11 DEF Kept, Seen, Fate, Promise!MayShow,
           Promise!MayDoubt, Promise!MayMove, Send, Go, NoFault,
           Doubted, Fault, JobFrame, budget
      <3> QED
        BY <2>2, <3>1, <3>2
    <2> QED
      BY <2>1, <2>2
  <1>12. ASSUME NEW r \in Row, Finalize(r) PROVE RowInv(z)' /\ Kept(z)
    <2>1. CASE z # r
      BY <1>12, <2>1, Untouched DEF Finalize, Finalizable, Status,
         End, Go, NoFault, JobFrame, budget
    <2>2. CASE z = r
      <3>1. RowInv(r)'
        BY <1>12 DEF Finalize, Finalizable, Status, End, Go,
           NoFault, JobFrame, budget
      <3>2. Kept(r)
        BY <1>12 DEF Kept, Seen, Fate, Promise!MayShow,
           Promise!MayDoubt, Promise!MayMove, Finalize, Finalizable,
           Status, End, Go, NoFault, JobFrame, budget
      <3> QED
        BY <2>2, <3>1, <3>2
    <2> QED
      BY <2>1, <2>2
  <1>13. ASSUME NEW r \in Row, FinalizeFails(r) PROVE RowInv(z)' /\ Kept(z)
    <2>1. CASE z # r
      <3>1. /\ Fault /\ job'[z] = job[z] /\ copies'[z] = copies[z] /\ doubts'[z] = doubts[z]
            /\ row'[z] = row[z]
        BY <1>13, <2>1 DEF FinalizeFails, Go, Doubted, Status
      <3>2. late' = late /\ dbBegun' = dbBegun
        BY <1>13 DEF FinalizeFails, JobFrame
      <3> QED
        BY <3>1, <3>2, Untouched
    <2>2. CASE z = r
      <3>1. RowInv(r)'
        <4>1. /\ row'[r] = row[r] \/ (row[r].status = "inflight"
                /\ row'[r] = [row[r] EXCEPT !.status = "delivered"])
              /\ job'[r] = [job[r] EXCEPT !.at = "failed"] /\ doubts'[r] = doubts[r] + 1
          BY <1>13 DEF FinalizeFails, Finalizable, Status, Go, Doubted
        <4>2. /\ At(r, "accepted") /\ faults' = faults + 1
              /\ late' = late /\ dbBegun' = dbBegun /\ copies' = copies
          BY <1>13 DEF FinalizeFails, JobFrame
        <4> QED
          BY <4>1, <4>2
      <3>2. Kept(r)
        BY <1>13 DEF Kept, Seen, Fate, Promise!MayShow,
           Promise!MayDoubt, Promise!MayMove, FinalizeFails, Fault,
           Finalizable, Status, Go, Doubted, JobFrame
      <3> QED
        BY <2>2, <3>1, <3>2
    <2> QED
      BY <2>1, <2>2
  <1>14. ASSUME NEW r \in Row, Miss(r) PROVE RowInv(z)' /\ Kept(z)
    <2>1. CASE z # r
      BY <1>14, <2>1, Untouched DEF Miss, End, Status, NoFault,
         JobFrame, budget
    <2>2. CASE z = r
      <3>1. RowInv(r)'
        BY <1>14 DEF Miss, End, Status, NoFault, JobFrame, budget
      <3>2. Kept(r)
        BY <1>14 DEF Kept, Seen, Fate, Promise!MayShow,
           Promise!MayDoubt, Promise!MayMove, Miss, End, Status,
           NoFault, JobFrame, budget
      <3> QED
        BY <2>2, <3>1, <3>2
    <2> QED
      BY <2>1, <2>2
  <1>15. ASSUME NEW r \in Row, DeadLetter(r) PROVE RowInv(z)' /\ Kept(z)
    <2>1. CASE z # r
      BY <1>15, <2>1, Untouched DEF DeadLetter, End, Status, NoFault,
         JobFrame, budget
    <2>2. CASE z = r
      <3>1. RowInv(r)'
        BY <1>15 DEF DeadLetter, End, Status, NoFault, JobFrame,
           budget
      <3>2. Kept(r)
        BY <1>15 DEF Kept, Seen, Fate, Promise!MayShow,
           Promise!MayDoubt, Promise!MayMove, DeadLetter, End,
           Status, NoFault, JobFrame, budget
      <3> QED
        BY <2>2, <3>1, <3>2
    <2> QED
      BY <2>1, <2>2
  <1>16. ASSUME NEW r \in Row, HandleFailure(r) PROVE RowInv(z)' /\ Kept(z)
    <2>1. CASE z # r
      BY <1>16, <2>1, Untouched DEF HandleFailure, Status, End,
         NoFault, JobFrame, budget
    <2>2. CASE z = r
      <3>1. RowInv(r)'
        BY <1>16 DEF HandleFailure, Status, End, NoFault, JobFrame,
           budget
      <3>2. Kept(r)
        BY <1>16 DEF Kept, Seen, Fate, Promise!MayShow,
           Promise!MayDoubt, Promise!MayMove, HandleFailure, Status,
           End, NoFault, JobFrame, budget
      <3> QED
        BY <2>2, <3>1, <3>2
    <2> QED
      BY <2>1, <2>2
  <1>17. ASSUME NEW r \in Row, JobError(r) PROVE RowInv(z)' /\ Kept(z)
    <2>1. /\ row' = row /\ late' = late /\ dbBegun' = dbBegun
          /\ copies' = copies /\ doubts' = doubts /\ Fault
      BY <1>17 DEF JobError, JobFrame
    <2>2. CASE job'[z] = job[z]
      BY <2>1, <2>2, Untouched
    <2>3. CASE job'[z] # job[z]
      <3>1. Kept(z)
        BY <2>1 DEF Kept, Seen, Promise!MayShow, Promise!MayDoubt, Promise!MayMove
      <3>2. \/ /\ job'[z] = Idle
               /\ job[z].at \in {"suppressed", "failed", "claimed"}
            \/ /\ job[z].at \in {"missing", "expiring", "rejected"}
               /\ job'[z].at = "failed" /\ job'[z].n = job[z].n
        BY <1>17, <2>3, JobErrorShape
      <3>3. Paid(z)'
        BY <2>1, <3>2
      <3>4. DeliveredIsOver(z)' /\ Charged(z)'
        BY <2>1, <3>2
      <3> QED
        BY <3>1, <3>3, <3>4
    <2> QED
      BY <2>2, <2>3
  <1>18. ASSUME ClaimSignal PROVE RowInv(z)' /\ Kept(z)
    <2>1. RowInv(z)'
      BY <1>18 DEF ClaimSignal, Iterate, Claimable, NoFault, Fault,
         memory, history, budget
    <2>2. Kept(z)
      BY <1>18 DEF Kept, Seen, Fate, Promise!MayShow,
         Promise!MayDoubt, Promise!MayMove, ClaimSignal, Iterate,
         Claimable, NoFault, Fault, memory, history, budget
    <2> QED
      BY <2>1, <2>2
  <1>19. ASSUME ClaimNothing PROVE RowInv(z)' /\ Kept(z)
    BY <1>19, Untouched DEF ClaimNothing, Iterate, Claimable, NoFault,
       Fault, table, memory, history, budget
  <1>20. ASSUME LoopRest PROVE RowInv(z)' /\ Kept(z)
    BY <1>20, Untouched DEF LoopRest, bgRunning, NoFault, table, memory,
       history, budget
  <1>21. ASSUME ClaimResults PROVE RowInv(z)' /\ Kept(z)
    <2>1. PICK old \in SUBSET {s \in Signal : Live(s)} :
            LET free == {v \in Result : Claimable(v) /\
                           \A s \in Signal \ old : <<s, v>> \in Gates => ~Live(s)} IN
            /\ row' = [r \in Row |-> IF r \in free
                 THEN [row[r] EXCEPT !.status = "inflight", !.attempts = @ + 1] ELSE row[r]]
            /\ \/ /\ job' = [r \in Row |-> IF r \in free
                         THEN [at |-> "claimed", n |-> row'[r].attempts] ELSE job[r]]
                  /\ NoFault
               \/ Fault /\ UNCHANGED job
      BY <1>21 DEF ClaimResults
    <2> DEFINE free == {v \in Result : Claimable(v) /\
                           \A s \in Signal \ old : <<s, v>> \in Gates => ~Live(s)}
    <2>2. /\ late' = late /\ dbBegun' = dbBegun /\ copies' = copies /\ doubts' = doubts
          /\ Fault \/ NoFault
      BY <1>21, <2>1 DEF ClaimResults, history
    <2>3. CASE z \notin free
      <3>1. row'[z] = row[z] /\ job'[z] = job[z]
        BY <2>1, <2>3
      <3> QED
        BY <2>2, <3>1, Untouched
    <2>4. CASE z \in free
      <3>1. /\ z \in Result /\ row[z].status = "pending" /\ z \notin late
            /\ job[z] = Idle
        BY <1>21, <2>4 DEF ClaimResults, Lanes, Claimable
      <3>2. /\ row'[z].status = "inflight" /\ row'[z].attempts = row[z].attempts + 1
            /\ \/ job'[z] = [at |-> "claimed", n |-> row[z].attempts + 1] /\ NoFault
               \/ job'[z] = job[z] /\ Fault
        <4>1. row'[z] = [row[z] EXCEPT !.status = "inflight", !.attempts = @ + 1]
          BY <2>1, <2>4
        <4>2. /\ row'[z].status = "inflight" /\ row'[z].attempts = row[z].attempts + 1
          BY <4>1
        <4>3. \/ job'[z] = [at |-> "claimed", n |-> row'[z].attempts] /\ NoFault
              \/ job'[z] = job[z] /\ Fault
          BY <2>1, <2>4
        <4> QED
          BY <4>2, <4>3
      <3>3. z \notin dbBegun
        BY <3>1
      <3>4. copies[z] <= doubts[z]
        BY <3>1, <3>3
      <3>5. RowInv(z)'
        BY <2>2, <3>1, <3>2, <3>4
      <3>6. Kept(z)
        BY <2>2, <3>1, <3>2
           DEF Kept, Seen, Fate, Promise!MayShow, Promise!MayDoubt, Promise!MayMove
      <3> QED
        BY <3>5, <3>6
    <2> QED
      BY <2>3, <2>4
  <1>22. ASSUME Sweep PROVE RowInv(z)' /\ Kept(z)
    <2>1. RowInv(z)'
      BY <1>22 DEF Sweep, Status, Overdue, Begun, NoFault, Fault,
         RecoverFrame, Live, budget, memory
    <2>2. Kept(z)
      BY <1>22 DEF Kept, Seen, Fate, Promise!MayShow,
         Promise!MayDoubt, Promise!MayMove, Sweep, Status, Overdue,
         Begun, NoFault, Fault, RecoverFrame, Live, budget, memory
    <2> QED
      BY <2>1, <2>2
  <1>23. ASSUME ResetInflight PROVE RowInv(z)' /\ Kept(z)
    <2>1. PICK S \in SUBSET {r \in Row : row[r].status = "inflight"} :
            LET working == {r \in S : job[r] # Idle} IN
            /\ row' = Requeue(S) /\ doubts' = Doubted(working)
            /\ IF working = {} THEN NoFault ELSE Fault
      BY <1>23 DEF ResetInflight
    <2>2. /\ job' = job /\ late' = late /\ dbBegun' = dbBegun /\ copies' = copies
          /\ Fault \/ NoFault
      BY <1>23, <2>1 DEF ResetInflight, RecoverFrame
    <2>3. CASE z \notin S
      <3>1. row'[z] = row[z] /\ doubts'[z] = doubts[z]
        BY <2>1, <2>3 DEF Requeue, Doubted
      <3> QED
        BY <2>2, <3>1, Untouched
    <2>4. CASE z \in S
      <3>0. row'[z] = [row[z] EXCEPT !.status = "pending", !.due = TRUE]
        BY <2>1, <2>4 DEF Requeue
      <3>1. /\ row[z].status = "inflight" /\ row'[z].status = "pending"
            /\ row'[z].attempts = row[z].attempts
        BY <2>4, <3>0
      <3>2. CASE job[z] = Idle
        <4>1. doubts'[z] = doubts[z]
          BY <2>1, <3>2 DEF Doubted
        <4>2. RowInv(z)'
          BY <2>2, <3>1, <3>2, <4>1
        <4>3. Kept(z)
          BY <2>2, <3>1, <4>1
             DEF Kept, Seen, Fate, Promise!MayShow, Promise!MayDoubt, Promise!MayMove
        <4> QED
          BY <4>2, <4>3
      <3>3. CASE job[z] # Idle
        <4>1. doubts'[z] = doubts[z] + 1 /\ Fault
          BY <2>1, <2>4, <3>3 DEF Doubted
        <4>2. RowInv(z)'
          BY <2>2, <3>1, <3>3, <4>1
        <4>3. Kept(z)
          BY <2>2, <3>1, <4>1
             DEF Kept, Seen, Fate, Promise!MayShow, Promise!MayDoubt, Promise!MayMove
        <4> QED
          BY <4>2, <4>3
      <3> QED
        BY <3>2, <3>3
    <2> QED
      BY <2>3, <2>4
  <1>24. ASSUME OperatorRetry PROVE RowInv(z)' /\ Kept(z)
    <2>1. RowInv(z)'
      BY <1>24 DEF OperatorRetry, Doubted, memory, worker
    <2>2. Kept(z)
      BY <1>24 DEF Kept, Seen, Fate, Promise!MayShow,
         Promise!MayDoubt, Promise!MayMove, OperatorRetry, Doubted,
         memory, worker
    <2> QED
      BY <2>1, <2>2
  <1>25. ASSUME Crash PROVE RowInv(z)' /\ Kept(z)
    <2>1. RowInv(z)'
      BY <1>25 DEF Crash, Fault, Doubted, Live
    <2>2. Kept(z)
      BY <1>25 DEF Kept, Seen, Fate, Promise!MayShow,
         Promise!MayDoubt, Promise!MayMove, Crash, Fault, Doubted,
         Live
    <2> QED
      BY <2>1, <2>2
  <1>26. CASE UNCHANGED vars
    BY <1>26, Untouched DEF vars, table, worker, history, budget
  <1> QED
    BY <1>1, <1>2, <1>3, <1>4, <1>5, <1>6, <1>7, <1>8, <1>9, <1>10,
       <1>11, <1>12, <1>13, <1>14, <1>15, <1>16, <1>17, <1>18, <1>19,
       <1>20, <1>21, <1>22, <1>23, <1>24, <1>25, <1>26 DEF Next,
       JobStep, Loop, Recover

-----------------------------------------------------------------------------
(* One dispatch at a time in each lane *)

LEMMA LanesStep ==
  ASSUME IInv, [Next]_vars
  PROVE  Lanes'
  <1> USE OutboxAssumption DEF IInv, TypeOK, Lanes, At, Idle, Row
  <1>1. ASSUME NEW s \in Signal, Persist(s) PROVE Lanes'
    BY <1>1 DEF Persist, NoFault, memory, worker, history, budget
  <1>2. ASSUME NEW s \in Signal, Announce(s) PROVE Lanes'
    BY <1>2 DEF Announce, NoFault, Fault, history, budget
  <1>3. ASSUME NEW s \in Signal, RoundStarted(s) PROVE Lanes'
    BY <1>3 DEF RoundStarted, NoFault, table, worker, history, budget
  <1>4. ASSUME NEW s \in Signal, BgKill(s) PROVE Lanes'
    BY <1>4 DEF BgKill, Live, Status, NoFault, worker, budget
  <1>5. ASSUME NEW s \in Signal, BgKillFails(s) PROVE Lanes'
    BY <1>5 DEF BgKillFails, Fault, Live, Status, worker, history
  <1>6. ASSUME NEW s \in Signal, LearnStart(s) PROVE Lanes'
    BY <1>6 DEF LearnStart, Live, NoFault, memory, worker, history,
       budget
  <1>7. ASSUME NEW v \in Result, PersistResult(v) PROVE Lanes'
    BY <1>7 DEF PersistResult, NoFault, Fault, memory, history, budget
  <1>8. ASSUME NEW r \in Row, BecomeDue(r) PROVE Lanes'
    BY <1>8 DEF BecomeDue, NoFault, memory, history, budget
  <1>9. ASSUME NEW r \in Row, Expire(r) PROVE Lanes'
    BY <1>9 DEF Expire, Live, NoFault, memory, worker, history, budget
  <1>10. ASSUME NEW r \in Row, Gate(r) PROVE Lanes'
    <2>1. /\ \A q \in Row : job'[q] = job[q] \/ job[q] # Idle
          /\ loop' = loop /\ bg' = bg
      BY <1>10, GateShape DEF Gate, JobFrame
    <2> QED
      BY <2>1
  <1>11. ASSUME NEW r \in Row, Send(r) PROVE Lanes'
    BY <1>11 DEF Send, Go, NoFault, Doubted, Fault, JobFrame, budget
  <1>12. ASSUME NEW r \in Row, Finalize(r) PROVE Lanes'
    BY <1>12 DEF Finalize, Finalizable, Status, End, Go, NoFault,
       JobFrame, budget
  <1>13. ASSUME NEW r \in Row, FinalizeFails(r) PROVE Lanes'
    BY <1>13 DEF FinalizeFails, Fault, Finalizable, Status, Go, Doubted,
       JobFrame
  <1>14. ASSUME NEW r \in Row, Miss(r) PROVE Lanes'
    BY <1>14 DEF Miss, End, Status, NoFault, JobFrame, budget
  <1>15. ASSUME NEW r \in Row, DeadLetter(r) PROVE Lanes'
    BY <1>15 DEF DeadLetter, End, Status, NoFault, JobFrame, budget
  <1>16. ASSUME NEW r \in Row, HandleFailure(r) PROVE Lanes'
    BY <1>16 DEF HandleFailure, Status, End, NoFault, JobFrame, budget
  <1>17. ASSUME NEW r \in Row, JobError(r) PROVE Lanes'
    <2>1. /\ \A q \in Row : job'[q] = job[q] \/ job[q] # Idle
          /\ bg' = bg
      BY <1>17, JobErrorShape DEF JobError, JobFrame
    <2>2. CASE loop' = loop
      BY <2>1, <2>2
    <2>3. CASE r \in Signal /\ job[r] # Idle /\ job'[r] = Idle
      <3>1. \A s \in Signal : job'[s] = Idle
        BY <2>1, <2>3
      <3> QED
        BY <2>1, <3>1
    <2> QED
      BY <1>17, <2>2, <2>3, JobErrorShape
  <1>18. ASSUME ClaimSignal PROVE Lanes'
    BY <1>18 DEF ClaimSignal, Iterate, Claimable, NoFault, Fault,
       memory, history, budget
  <1>19. ASSUME ClaimNothing PROVE Lanes'
    BY <1>19 DEF ClaimNothing, Iterate, Claimable, NoFault, Fault,
       table, memory, history, budget
  <1>20. ASSUME LoopRest PROVE Lanes'
    BY <1>20 DEF LoopRest, bgRunning, NoFault, table, memory, history,
       budget
  <1>21. ASSUME ClaimResults PROVE Lanes'
    <2>1. /\ loop' = loop /\ bg' = "idle" /\ \A s \in Signal : job'[s] = job[s]
      BY <1>21 DEF ClaimResults
    <2> QED
      BY <2>1
  <1>22. ASSUME Sweep PROVE Lanes'
    BY <1>22 DEF Sweep, Status, Overdue, Begun, NoFault, Fault,
       RecoverFrame, Live, budget, memory
  <1>23. ASSUME ResetInflight PROVE Lanes'
    BY <1>23 DEF ResetInflight, Requeue, Doubted, NoFault, Fault,
       RecoverFrame, budget, memory
  <1>24. ASSUME OperatorRetry PROVE Lanes'
    BY <1>24 DEF OperatorRetry, Doubted, memory, worker
  <1>25. ASSUME Crash PROVE Lanes'
    BY <1>25 DEF Crash, Fault, Doubted, Live
  <1>26. CASE UNCHANGED vars
    BY <1>26 DEF vars, table, memory, worker, history, budget
  <1> QED
    BY <1>1, <1>2, <1>3, <1>4, <1>5, <1>6, <1>7, <1>8, <1>9, <1>10,
       <1>11, <1>12, <1>13, <1>14, <1>15, <1>16, <1>17, <1>18, <1>19,
       <1>20, <1>21, <1>22, <1>23, <1>24, <1>25, <1>26 DEF Next,
       JobStep, Loop, Recover

-----------------------------------------------------------------------------
(* A step that leaves the memory of the process alone, and every signal that *)
(* is not in the table or was delivered *)
LEMMA KeepsFilter ==
  ASSUME IInv, UNCHANGED <<unannounced, begun, killing, filter, killed, restarted>>,
         Fault \/ NoFault,
         \A s \in Signal : row[s].status \in {"none", "delivered"} => row'[s].status = row[s].status
  PROVE  Remembered'
  BY Faults, OutboxAssumption DEF IInv, Remembered

-----------------------------------------------------------------------------
(* What the filter and the registry remember *)

LEMMA RememberedStep ==
  ASSUME IInv, [Next]_vars
  PROVE  Remembered'
  <1> USE OutboxAssumption, Faults DEF IInv, TypeOK, Remembered, RowInv, DeliveredIsOver, At, Idle, Row, Stages, Settled
  <1>1. ASSUME NEW s \in Signal, Persist(s) PROVE Remembered'
    BY <1>1 DEF Persist, NoFault, memory, worker, history, budget
  <1>2. ASSUME NEW s \in Signal, Announce(s) PROVE Remembered'
    BY <1>2 DEF Announce, NoFault, Fault, history, budget
  <1>3. ASSUME NEW s \in Signal, RoundStarted(s) PROVE Remembered'
    BY <1>3 DEF RoundStarted, NoFault, table, worker, history, budget
  <1>4. ASSUME NEW s \in Signal, BgKill(s) PROVE Remembered'
    BY <1>4 DEF BgKill, Live, Status, NoFault, worker, budget
  <1>5. ASSUME NEW s \in Signal, BgKillFails(s) PROVE Remembered'
    BY <1>5 DEF BgKillFails, Fault, Live, Status, worker, history
  <1>6. ASSUME NEW s \in Signal, LearnStart(s) PROVE Remembered'
    BY <1>6 DEF LearnStart, Live, NoFault, memory, worker, history,
       budget
  <1>7. ASSUME NEW v \in Result, PersistResult(v) PROVE Remembered'
    BY <1>7 DEF PersistResult, NoFault, Fault, memory, history, budget
  <1>8. ASSUME NEW r \in Row, BecomeDue(r) PROVE Remembered'
    BY <1>8 DEF BecomeDue, NoFault, memory, history, budget
  <1>9. ASSUME NEW r \in Row, Expire(r) PROVE Remembered'
    BY <1>9 DEF Expire, Live, NoFault, memory, worker, history, budget
  <1>10. ASSUME NEW r \in Row, Gate(r) PROVE Remembered'
    BY <1>10, GateShape DEF Gate, NoFault, JobFrame, budget
  <1>11. ASSUME NEW r \in Row, Send(r) PROVE Remembered'
    BY <1>11 DEF Send, Go, NoFault, Doubted, Fault, JobFrame, budget
  <1>12. ASSUME NEW r \in Row, Finalize(r) PROVE Remembered'
    BY <1>12 DEF Finalize, Finalizable, Status, End, Go, NoFault,
       JobFrame, budget
  <1>13. ASSUME NEW r \in Row, FinalizeFails(r) PROVE Remembered'
    BY <1>13 DEF FinalizeFails, Fault, Finalizable, Status, Go, Doubted,
       JobFrame
  <1>14. ASSUME NEW r \in Row, Miss(r) PROVE Remembered'
    BY <1>14 DEF Miss, End, Status, NoFault, JobFrame, budget
  <1>15. ASSUME NEW r \in Row, DeadLetter(r) PROVE Remembered'
    <2>1. At(r, "expiring") /\ \A s \in Signal \ {r} : row'[s].status = row[s].status
      BY <1>15 DEF DeadLetter, Status
    <2>2. row[r].status \notin {"none", "delivered"}
      BY <2>1 DEF Charged
    <2> QED
      BY <1>15, <2>1, <2>2, KeepsFilter DEF DeadLetter, NoFault, JobFrame, budget
  <1>16. ASSUME NEW r \in Row, HandleFailure(r) PROVE Remembered'
    <2>1. \A s \in Signal \ {r} : row'[s].status = row[s].status
      BY <1>16 DEF HandleFailure, Status
    <2>2. At(r, "failed") \/ At(r, "rejected")
      BY <1>16 DEF HandleFailure
    <2>3. row[r].status # "none" /\ (row[r].status = "delivered" => faults > 0)
      BY <2>2 DEF Charged
    <2>4. UNCHANGED <<unannounced, begun, killing, filter, killed, restarted, retries, faults>>
      BY <1>16 DEF HandleFailure, NoFault, JobFrame, budget
    <2> QED
      BY <2>1, <2>3, <2>4
  <1>17. ASSUME NEW r \in Row, JobError(r) PROVE Remembered'
    BY <1>17, JobErrorShape DEF JobError, Fault, JobFrame
  <1>18. ASSUME ClaimSignal PROVE Remembered'
    BY <1>18 DEF ClaimSignal, Iterate, Claimable, NoFault, Fault,
       memory, history, budget
  <1>19. ASSUME ClaimNothing PROVE Remembered'
    BY <1>19 DEF ClaimNothing, Iterate, Claimable, NoFault, Fault,
       table, memory, history, budget
  <1>20. ASSUME LoopRest PROVE Remembered'
    BY <1>20 DEF LoopRest, bgRunning, NoFault, table, memory, history,
       budget
  <1>21. ASSUME ClaimResults PROVE Remembered'
    <2>1. \A s \in Signal : row'[s].status = row[s].status
      BY <1>21 DEF ClaimResults
    <2>2. UNCHANGED <<unannounced, begun, killing, filter, killed, restarted>> /\ (Fault \/ NoFault)
      BY <1>21 DEF ClaimResults, memory, history
    <2> QED
      BY <2>1, <2>2, KeepsFilter
  <1>22. ASSUME Sweep PROVE Remembered'
    BY <1>22 DEF Sweep, Status, Overdue, Begun, NoFault, Fault,
       RecoverFrame, Live, budget, memory
  <1>23. ASSUME ResetInflight PROVE Remembered'
    <2>1. \A s \in Signal : row'[s].status = row[s].status \/ row[s].status = "inflight"
      <3>1. PICK S \in SUBSET {r \in Row : row[r].status = "inflight"} : row' = Requeue(S)
        BY <1>23 DEF ResetInflight
      <3>2. \A s \in Signal : IF s \in S THEN row[s].status = "inflight" ELSE row'[s] = row[s]
        BY <3>1 DEF Requeue
      <3> QED
        BY <3>2
    <2>2. UNCHANGED <<unannounced, begun, killing, filter, killed, restarted>> /\ (Fault \/ NoFault)
      BY <1>23 DEF ResetInflight, RecoverFrame, memory
    <2> QED
      BY <2>1, <2>2, KeepsFilter
  <1>24. ASSUME OperatorRetry PROVE Remembered'
    BY <1>24 DEF OperatorRetry, Doubted, memory, worker
  <1>25. ASSUME Crash PROVE Remembered'
    BY <1>25 DEF Crash, Fault, Doubted, Live
  <1>26. CASE UNCHANGED vars
    BY <1>26 DEF vars, table, memory, worker, history, budget
  <1> QED
    BY <1>1, <1>2, <1>3, <1>4, <1>5, <1>6, <1>7, <1>8, <1>9, <1>10,
       <1>11, <1>12, <1>13, <1>14, <1>15, <1>16, <1>17, <1>18, <1>19,
       <1>20, <1>21, <1>22, <1>23, <1>24, <1>25, <1>26 DEF Next,
       JobStep, Loop, Recover

-----------------------------------------------------------------------------
(* Only the gate lets a claimed row be sent *)

LEMMA OnlyGateSends ==
  ASSUME IInv, [Next]_vars, NEW z \in Row, At(z, "claimed"), job'[z].at = "sending"
  PROVE  z \notin begun
  <1> USE OutboxAssumption DEF IInv, TypeOK, At, Idle, Row
  <1>1. ASSUME NEW s \in Signal, Persist(s) PROVE z \notin begun
    BY <1>1 DEF Persist, NoFault, memory, worker, history, budget
  <1>2. ASSUME NEW s \in Signal, Announce(s) PROVE z \notin begun
    BY <1>2 DEF Announce, NoFault, Fault, history, budget
  <1>3. ASSUME NEW s \in Signal, RoundStarted(s) PROVE z \notin begun
    BY <1>3 DEF RoundStarted, NoFault, table, worker, history, budget
  <1>4. ASSUME NEW s \in Signal, BgKill(s) PROVE z \notin begun
    BY <1>4 DEF BgKill, Live, Status, NoFault, worker, budget
  <1>5. ASSUME NEW s \in Signal, BgKillFails(s) PROVE z \notin begun
    BY <1>5 DEF BgKillFails, Fault, Live, Status, worker, history
  <1>6. ASSUME NEW s \in Signal, LearnStart(s) PROVE z \notin begun
    BY <1>6 DEF LearnStart, Live, NoFault, memory, worker, history,
       budget
  <1>7. ASSUME NEW v \in Result, PersistResult(v) PROVE z \notin begun
    BY <1>7 DEF PersistResult, NoFault, Fault, memory, history, budget
  <1>8. ASSUME NEW r \in Row, BecomeDue(r) PROVE z \notin begun
    BY <1>8 DEF BecomeDue, NoFault, memory, history, budget
  <1>9. ASSUME NEW r \in Row, Expire(r) PROVE z \notin begun
    BY <1>9 DEF Expire, Live, NoFault, memory, worker, history, budget
  <1>10. ASSUME NEW r \in Row, Gate(r) PROVE z \notin begun
    BY <1>10, GateShape DEF Gate, NoFault, JobFrame, budget
  <1>11. ASSUME NEW r \in Row, Send(r) PROVE z \notin begun
    BY <1>11 DEF Send, Go, NoFault, Doubted, Fault, JobFrame, budget
  <1>12. ASSUME NEW r \in Row, Finalize(r) PROVE z \notin begun
    BY <1>12 DEF Finalize, Finalizable, Status, End, Go, NoFault,
       JobFrame, budget
  <1>13. ASSUME NEW r \in Row, FinalizeFails(r) PROVE z \notin begun
    BY <1>13 DEF FinalizeFails, Fault, Finalizable, Status, Go, Doubted,
       JobFrame
  <1>14. ASSUME NEW r \in Row, Miss(r) PROVE z \notin begun
    BY <1>14 DEF Miss, End, Status, NoFault, JobFrame, budget
  <1>15. ASSUME NEW r \in Row, DeadLetter(r) PROVE z \notin begun
    BY <1>15 DEF DeadLetter, End, Status, NoFault, JobFrame, budget
  <1>16. ASSUME NEW r \in Row, HandleFailure(r) PROVE z \notin begun
    BY <1>16 DEF HandleFailure, Status, End, NoFault, JobFrame, budget
  <1>17. ASSUME NEW r \in Row, JobError(r) PROVE z \notin begun
    BY <1>17, JobErrorShape DEF JobError, Fault, JobFrame
  <1>18. ASSUME ClaimSignal PROVE z \notin begun
    BY <1>18 DEF ClaimSignal, Iterate, Claimable, NoFault, Fault,
       memory, history, budget
  <1>19. ASSUME ClaimNothing PROVE z \notin begun
    BY <1>19 DEF ClaimNothing, Iterate, Claimable, NoFault, Fault,
       table, memory, history, budget
  <1>20. ASSUME LoopRest PROVE z \notin begun
    BY <1>20 DEF LoopRest, bgRunning, NoFault, table, memory, history,
       budget
  <1>21. ASSUME ClaimResults PROVE z \notin begun
    BY <1>21 DEF ClaimResults, Live, Claimable, NoFault, Fault, memory,
       history, budget
  <1>22. ASSUME Sweep PROVE z \notin begun
    BY <1>22 DEF Sweep, Status, Overdue, Begun, NoFault, Fault,
       RecoverFrame, Live, budget, memory
  <1>23. ASSUME ResetInflight PROVE z \notin begun
    BY <1>23 DEF ResetInflight, Requeue, Doubted, NoFault, Fault,
       RecoverFrame, budget, memory
  <1>24. ASSUME OperatorRetry PROVE z \notin begun
    BY <1>24 DEF OperatorRetry, Doubted, memory, worker
  <1>25. ASSUME Crash PROVE z \notin begun
    BY <1>25 DEF Crash, Fault, Doubted, Live
  <1>26. CASE UNCHANGED vars
    BY <1>26 DEF vars, table, memory, worker, history, budget
  <1> QED
    BY <1>1, <1>2, <1>3, <1>4, <1>5, <1>6, <1>7, <1>8, <1>9, <1>10,
       <1>11, <1>12, <1>13, <1>14, <1>15, <1>16, <1>17, <1>18, <1>19,
       <1>20, <1>21, <1>22, <1>23, <1>24, <1>25, <1>26 DEF Next,
       JobStep, Loop, Recover

-----------------------------------------------------------------------------
(* Theorems *)

LEMMA InitInv == Init => IInv
  <1> SUFFICES ASSUME Init PROVE IInv
    OBVIOUS
  <1>1. TypeOK
    <2>1. /\ row \in [Row -> [status : {"none", "pending", "inflight", "delivered", "dead_letter"},
                            due : BOOLEAN, attempts : 0 .. MaxAttempts + MaxFaults]]
          /\ job \in [Row -> [at : Stages, n : 0 .. MaxAttempts + MaxFaults]]
      BY OutboxAssumption DEF Init, Idle, Stages
    <2>2. loop \in [pc : {"lane", "wait"}, tick : 0 .. Period - 1, normal : BOOLEAN]
      BY OutboxAssumption DEF Init, Start
    <2>3. copies \in [Row -> Nat] /\ doubts \in [Row -> Nat]
      BY DEF Init
    <2>4. faults \in 0 .. MaxFaults /\ retries \in 0 .. MaxRetries
      BY OutboxAssumption DEF Init
    <2>5. latch \in SUBSET {"prediction", "normal"}
      BY DEF Init, FirstWake
    <2> QED
      BY <2>1, <2>2, <2>3, <2>4, <2>5 DEF Init, TypeOK
  <1>2. Lanes /\ Remembered
    BY DEF Init, Lanes, Remembered, Row
  <1>3. \A r \in Row : RowInv(r)
    BY OutboxAssumption
       DEF Init, RowInv, Paid, DeliveredIsOver, Charged, At, Idle, Unclaimable, Settled
  <1> QED
    BY <1>1, <1>2, <1>3 DEF IInv

LEMMA StepInv == IInv /\ [Next]_vars => IInv'
  <1> SUFFICES ASSUME IInv, [Next]_vars PROVE IInv'
    OBVIOUS
  <1>1. \A r \in Row : RowInv(r)'
    BY RowStep
  <1> QED
    BY <1>1, TypeStep, LanesStep, RememberedStep DEF IInv

(* The invariant of all the steps of the outbox. *)
THEOREM OutboxInvariant == Spec => []IInv
  BY InitInv, StepInv, PTL DEF Spec

(* Every variable keeps its shape, and the limit of attempts holds up to   *)
(* one attempt for each fault.                                             *)
THEOREM OutboxTypes == Spec => []TypeOK
  <1>1. IInv => TypeOK
    BY DEF IInv
  <1> QED
    BY <1>1, OutboxInvariant, PTL

(* Whatever claims, sends, kills, sweeps, retries and crashes race on a    *)
(* row, it keeps the promise: it is shown again only after a doubt, counts *)
(* as delivered only after a copy was shown, and leaves that state only    *)
(* after a doubt.                                                          *)
THEOREM OutboxKeepsPromise == Spec => ImplementsPromise
  <1>1. Init => Promise!Init
    BY DEF Init, Promise!Init, Promise!New, Fate
  <1>2. IInv /\ [Next]_vars => Promise!Next
    BY RowStep DEF Promise!Next, Kept, Seen
  <1> QED
    BY <1>1, <1>2, OutboxInvariant, PTL DEF Spec, ImplementsPromise, Promise!Spec

(* The consequence for the reader of the chat: no more copies of a row     *)
(* than one, and one for each time the code could not know of a send.      *)
THEOREM DuplicatesHaveCauses == Spec => []Promise!CopiesHaveCauses
  <1>1. IInv => Promise!CopiesHaveCauses
    BY DEF IInv, RowInv, Paid, Promise!CopiesHaveCauses
  <1> QED
    BY <1>1, OutboxInvariant, PTL

(* Every doubt about a row is one of the troubles that are counted: one    *)
(* statement may doubt several rows, but each of them once.                *)
DoubtsCounted == \A r \in Row : doubts[r] <= faults + retries

LEMMA DoubtsStep ==
  ASSUME TypeOK, DoubtsCounted, [Next]_vars
  PROVE  DoubtsCounted'
  <1>1. /\ \A r \in Row : doubts[r] \in Nat
        /\ faults \in Nat /\ retries \in Nat
    BY OutboxAssumption DEF TypeOK
  <1>2. ASSUME NEW S, doubts' = Doubted(S),
               \/ Fault
               \/ faults' = faults /\ retries' = retries + 1
        PROVE  DoubtsCounted'
    BY <1>1, <1>2 DEF Doubted, Fault, DoubtsCounted
  <1>3. ASSUME doubts' = doubts, Fault \/ NoFault
        PROVE  DoubtsCounted'
    BY <1>1, <1>3 DEF Fault, NoFault, budget, DoubtsCounted
  <1>4. ASSUME NEW r \in Row, JobStep(r)
        PROVE  DoubtsCounted'
    <2>1. \/ doubts' = doubts /\ (Fault \/ NoFault)
          \/ doubts' = Doubted({r}) /\ Fault
      BY <1>4 DEF JobStep, Gate, Send, Finalize, FinalizeFails, Miss, DeadLetter, HandleFailure,
                  JobError
    <2> QED
      BY <1>2, <1>3, <2>1
  <1>5. CASE Recover
    <2>1. CASE Sweep
      BY <1>3, <2>1 DEF Sweep
    <2>2. CASE ResetInflight
      <3>1. PICK S \in SUBSET Row : /\ doubts' = Doubted({r \in S : job[r] # Idle})
                                   /\ IF {r \in S : job[r] # Idle} = {} THEN NoFault ELSE Fault
        BY <2>2 DEF ResetInflight
      <3>2. CASE {r \in S : job[r] # Idle} = {}
        <4>1. Doubted({}) = doubts
          BY DEF Doubted, TypeOK
        <4> QED
          BY <1>3, <3>1, <3>2, <4>1
      <3>3. CASE {r \in S : job[r] # Idle} # {}
        BY <1>2, <3>1, <3>3
      <3> QED
        BY <3>2, <3>3
    <2> QED
      BY <1>5, <2>1, <2>2 DEF Recover
  <1>6. CASE OperatorRetry
    BY <1>2, <1>6 DEF OperatorRetry
  <1>7. CASE Crash
    BY <1>2, <1>7 DEF Crash
  <1>8. ASSUME NEW s \in Signal, \/ Persist(s) \/ Announce(s) \/ RoundStarted(s) \/ BgKill(s)
                                \/ BgKillFails(s) \/ LearnStart(s)
        PROVE  DoubtsCounted'
    BY <1>3, <1>8 DEF Persist, Announce, RoundStarted, BgKill, BgKillFails, LearnStart, history
  <1>9. ASSUME NEW r \in Row, BecomeDue(r) \/ Expire(r) \/ PersistResult(r)
        PROVE  DoubtsCounted'
    BY <1>3, <1>9 DEF BecomeDue, Expire, PersistResult, history
  <1>10. CASE Loop \/ ClaimResults \/ UNCHANGED vars
    BY <1>3, <1>10 DEF Loop, ClaimSignal, ClaimNothing, LoopRest, ClaimResults, vars, history,
                       NoFault
  <1> QED
    BY <1>4, <1>5, <1>6, <1>7, <1>8, <1>9, <1>10 DEF Next, Row

(* Without trouble a row is shown once, and each trouble adds one copy at  *)
(* most: the claims, requeues and recoveries add none of their own.        *)
THEOREM OneCopyWithoutTrouble == Spec => []OneCopyUnlessTrouble
  <1>1. Init => DoubtsCounted
    BY DEF Init, DoubtsCounted
  <1>2. TypeOK /\ DoubtsCounted /\ [Next]_vars => DoubtsCounted'
    BY DoubtsStep
  <1>3. IInv /\ DoubtsCounted => OneCopyUnlessTrouble
    BY OutboxAssumption
       DEF IInv, TypeOK, RowInv, Paid, DoubtsCounted, OneCopyUnlessTrouble
  <1> QED
    BY <1>1, <1>2, <1>3, OutboxInvariant, OutboxTypes, PTL DEF Spec

(* A signal killed by the BG frame of its target is not sent again by the  *)
(* process that killed it.                                                 *)
THEOREM KilledStaysUnsent == Spec => KilledNeverSentAgain
  <1>1. ASSUME IInv, [Next]_vars, NEW s \in killed, At(s, "claimed"), job'[s].at = "sending"
        PROVE  restarted
    <2>1. s \in Row
      BY <1>1 DEF IInv, TypeOK, Row
    <2>2. s \notin begun
      BY <1>1, <2>1, OnlyGateSends
    <2> QED
      BY <1>1, <2>2 DEF IInv, Remembered
  <1>2. IInv /\ [Next]_vars =>
          [\A s \in killed : At(s, "claimed") /\ job'[s].at = "sending" => restarted]_vars
    BY <1>1
  <1> QED
    BY <1>2, OutboxInvariant, PTL DEF Spec, KilledNeverSentAgain

(* The filter that lets the BG handler skip its kill knows every announced *)
(* signal that is still undelivered.                                       *)
THEOREM FilterIsComplete == Spec => []FilterSeesSignals
  <1>1. IInv => FilterSeesSignals
    BY OutboxAssumption DEF IInv, TypeOK, Remembered, FilterSeesSignals, Live
  <1> QED
    BY <1>1, OutboxInvariant, PTL

-----------------------------------------------------------------------------
(* The wakes *)

(* Before the first retry a row that has been claimed has an attempt, and a *)
(* signal without one is due.                                               *)
Fresh ==
  retries = 0 =>
    /\ \A r \in Row : row[r].status = "inflight" \/ job[r] # Idle => row[r].attempts > 0
    /\ \A s \in Signal : row[s].status = "pending" /\ row[s].attempts = 0 => row[s].due

(* A signal nobody has tried is latched, unless it shares its wake *)
Woken ==
  faults = 0 /\ retries = 0 =>
    \A s \in Signal : Claimable(s) /\ row[s].attempts = 0 /\ s \notin unannounced =>
      "prediction" \in latch \/ \E z \in Signal \ {s} : row[z].status # "none"

WInv == IInv /\ Fresh /\ Woken

(* What recoverStale does to one row *)
LEMMA ResetShape ==
  ASSUME TypeOK, ResetInflight, NEW r \in Row
  PROVE  \/ row'[r] = row[r]
         \/ /\ row[r].status = "inflight" /\ row'[r].status = "pending"
            /\ row'[r].due /\ row'[r].attempts = row[r].attempts
  <1>1. PICK S \in SUBSET {z \in Row : row[z].status = "inflight"} : row' = Requeue(S)
    BY DEF ResetInflight
  <1> DEFINE new == [row[r] EXCEPT !.status = "pending", !.due = TRUE]
  <1>2. new.status = "pending" /\ new.due /\ new.attempts = row[r].attempts
    <2>1. row[r] \in [status : {"none", "pending", "inflight", "delivered", "dead_letter"},
                      due : BOOLEAN, attempts : 0 .. MaxAttempts + MaxFaults]
      BY DEF TypeOK
    <2> QED
      BY <2>1
  <1>3. IF r \in S THEN row[r].status = "inflight" /\ row'[r] = new ELSE row'[r] = row[r]
    BY <1>1 DEF Requeue
  <1> QED
    BY <1>2, <1>3

LEMMA FreshStep ==
  ASSUME WInv, [Next]_vars
  PROVE  Fresh'
  <1> USE OutboxAssumption, Faults DEF WInv, IInv, TypeOK, Fresh, At, Idle, Row, RowInv, Charged
  <1>1. ASSUME NEW s \in Signal, Persist(s) PROVE Fresh'
    BY <1>1 DEF Persist, NoFault, memory, worker, history, budget
  <1>2. ASSUME NEW s \in Signal, Announce(s) PROVE Fresh'
    BY <1>2 DEF Announce, NoFault, Fault, history, budget
  <1>3. ASSUME NEW s \in Signal, RoundStarted(s) PROVE Fresh'
    BY <1>3 DEF RoundStarted, NoFault, table, worker, history, budget
  <1>4. ASSUME NEW s \in Signal, BgKill(s) PROVE Fresh'
    BY <1>4 DEF BgKill, Live, Status, NoFault, worker, budget
  <1>5. ASSUME NEW s \in Signal, BgKillFails(s) PROVE Fresh'
    BY <1>5 DEF BgKillFails, Fault, Live, Status, worker, history
  <1>6. ASSUME NEW s \in Signal, LearnStart(s) PROVE Fresh'
    BY <1>6 DEF LearnStart, Live, NoFault, memory, worker, history,
       budget
  <1>7. ASSUME NEW v \in Result, PersistResult(v) PROVE Fresh'
    BY <1>7 DEF PersistResult, NoFault, Fault, memory, history, budget
  <1>8. ASSUME NEW r \in Row, BecomeDue(r) PROVE Fresh'
    BY <1>8 DEF BecomeDue, NoFault, memory, history, budget
  <1>9. ASSUME NEW r \in Row, Expire(r) PROVE Fresh'
    BY <1>9 DEF Expire, Live, NoFault, memory, worker, history, budget
  <1>10. ASSUME NEW r \in Row, Gate(r) PROVE Fresh'
    <2>1. /\ \A q \in Row : job'[q] = job[q] \/ job[q] # Idle
          /\ row' = row /\ retries' = retries
      BY <1>10, GateShape DEF Gate, NoFault, JobFrame, budget
    <2> QED
      BY <2>1
  <1>11. ASSUME NEW r \in Row, Send(r) PROVE Fresh'
    BY <1>11 DEF Send, Go, NoFault, Doubted, Fault, JobFrame, budget
  <1>12. ASSUME NEW r \in Row, Finalize(r) PROVE Fresh'
    BY <1>12 DEF Finalize, Finalizable, Status, End, Go, NoFault,
       JobFrame, budget
  <1>13. ASSUME NEW r \in Row, FinalizeFails(r) PROVE Fresh'
    BY <1>13 DEF FinalizeFails, Fault, Finalizable, Status, Go, Doubted,
       JobFrame
  <1>14. ASSUME NEW r \in Row, Miss(r) PROVE Fresh'
    BY <1>14 DEF Miss, End, Status, NoFault, JobFrame, budget
  <1>15. ASSUME NEW r \in Row, DeadLetter(r) PROVE Fresh'
    BY <1>15 DEF DeadLetter, End, Status, NoFault, JobFrame, budget
  <1>16. ASSUME NEW r \in Row, HandleFailure(r) PROVE Fresh'
    BY <1>16 DEF HandleFailure, Status, End, NoFault, JobFrame, budget
  <1>17. ASSUME NEW r \in Row, JobError(r) PROVE Fresh'
    <2>1. /\ \A q \in Row : job'[q] = job[q] \/ job[q] # Idle
          /\ row' = row /\ retries' = retries
      BY <1>17, JobErrorShape DEF JobError, Fault, JobFrame
    <2> QED
      BY <2>1
  <1>18. ASSUME ClaimSignal PROVE Fresh'
    BY <1>18 DEF ClaimSignal, Iterate, Claimable, NoFault, Fault,
       memory, history, budget
  <1>19. ASSUME ClaimNothing PROVE Fresh'
    BY <1>19 DEF ClaimNothing, Iterate, Claimable, NoFault, Fault,
       table, memory, history, budget
  <1>20. ASSUME LoopRest PROVE Fresh'
    BY <1>20 DEF LoopRest, bgRunning, NoFault, table, memory, history,
       budget
  <1>21. ASSUME ClaimResults PROVE Fresh'
    <2>1. PICK old \in SUBSET {s \in Signal : Live(s)} :
            LET free == {v \in Result : Claimable(v) /\
                           \A s \in Signal \ old : <<s, v>> \in Gates => ~Live(s)} IN
            /\ row' = [r \in Row |-> IF r \in free
                 THEN [row[r] EXCEPT !.status = "inflight", !.attempts = @ + 1] ELSE row[r]]
            /\ \/ job' = [r \in Row |-> IF r \in free
                         THEN [at |-> "claimed", n |-> row'[r].attempts] ELSE job[r]]
               \/ UNCHANGED job
      BY <1>21 DEF ClaimResults
    <2>2. \A s \in Signal : row'[s] = row[s]
      BY <2>1
    <2>3. \A r \in Row : \/ row'[r] = row[r] /\ job'[r] = job[r]
                         \/ row'[r].attempts = row[r].attempts + 1
      <3> SUFFICES ASSUME NEW r \in Row
                   PROVE  \/ row'[r] = row[r] /\ job'[r] = job[r]
                          \/ row'[r].attempts = row[r].attempts + 1
        OBVIOUS
      <3> DEFINE new == [row[r] EXCEPT !.status = "inflight", !.attempts = @ + 1]
      <3>1. new.attempts = row[r].attempts + 1
        OBVIOUS
      <3>2. \/ row'[r] = row[r] /\ job'[r] = job[r]
            \/ row'[r] = new
        BY <2>1
      <3> QED
        BY <3>1, <3>2
    <2>4. Fault \/ NoFault
      BY <1>21 DEF ClaimResults
    <2> QED
      BY <2>2, <2>3, <2>4
  <1>22. ASSUME Sweep PROVE Fresh'
    BY <1>22 DEF Sweep, Status, Overdue, Begun, NoFault, Fault,
       RecoverFrame, Live, budget, memory
  <1>23. ASSUME ResetInflight PROVE Fresh'
    <2>3. \A r \in Row : \/ row'[r] = row[r]
                         \/ /\ row[r].status = "inflight" /\ row'[r].status = "pending"
                            /\ row'[r].due /\ row'[r].attempts = row[r].attempts
      BY <1>23, ResetShape
    <2>4. job' = job /\ (Fault \/ NoFault)
      BY <1>23 DEF ResetInflight, RecoverFrame
    <2> QED
      BY <2>3, <2>4
  <1>24. ASSUME OperatorRetry PROVE Fresh'
    BY <1>24 DEF OperatorRetry, Doubted, memory, worker
  <1>25. ASSUME Crash PROVE Fresh'
    BY <1>25 DEF Crash, Fault, Doubted, Live
  <1>26. CASE UNCHANGED vars
    BY <1>26 DEF vars, table, memory, worker, history, budget
  <1> QED
    BY <1>1, <1>2, <1>3, <1>4, <1>5, <1>6, <1>7, <1>8, <1>9, <1>10,
       <1>11, <1>12, <1>13, <1>14, <1>15, <1>16, <1>17, <1>18, <1>19,
       <1>20, <1>21, <1>22, <1>23, <1>24, <1>25, <1>26 DEF Next,
       JobStep, Loop, Recover

LEMMA WokenStep ==
  ASSUME WInv, [Next]_vars
  PROVE  Woken'
  <1> USE OutboxAssumption, Faults DEF WInv, IInv, TypeOK, Fresh, Woken, At, Idle, Row, Claimable, RowInv, Charged
  <1>1. ASSUME NEW s \in Signal, Persist(s) PROVE Woken'
    BY <1>1 DEF Persist, NoFault, memory, worker, history, budget
  <1>2. ASSUME NEW s \in Signal, Announce(s) PROVE Woken'
    BY <1>2 DEF Announce, NoFault, Fault, history, budget
  <1>3. ASSUME NEW s \in Signal, RoundStarted(s) PROVE Woken'
    BY <1>3 DEF RoundStarted, NoFault, table, worker, history, budget
  <1>4. ASSUME NEW s \in Signal, BgKill(s) PROVE Woken'
    BY <1>4 DEF BgKill, Live, Status, NoFault, worker, budget
  <1>5. ASSUME NEW s \in Signal, BgKillFails(s) PROVE Woken'
    BY <1>5 DEF BgKillFails, Fault, Live, Status, worker, history
  <1>6. ASSUME NEW s \in Signal, LearnStart(s) PROVE Woken'
    BY <1>6 DEF LearnStart, Live, NoFault, memory, worker, history,
       budget
  <1>7. ASSUME NEW v \in Result, PersistResult(v) PROVE Woken'
    BY <1>7 DEF PersistResult, NoFault, Fault, memory, history, budget
  <1>8. ASSUME NEW r \in Row, BecomeDue(r) PROVE Woken'
    BY <1>8 DEF BecomeDue, NoFault, memory, history, budget
  <1>9. ASSUME NEW r \in Row, Expire(r) PROVE Woken'
    BY <1>9 DEF Expire, Live, NoFault, memory, worker, history, budget
  <1>10. ASSUME NEW r \in Row, Gate(r) PROVE Woken'
    BY <1>10, GateShape DEF Gate, NoFault, JobFrame, budget
  <1>11. ASSUME NEW r \in Row, Send(r) PROVE Woken'
    BY <1>11 DEF Send, Go, NoFault, Doubted, Fault, JobFrame, budget
  <1>12. ASSUME NEW r \in Row, Finalize(r) PROVE Woken'
    BY <1>12 DEF Finalize, Finalizable, Status, End, Go, NoFault,
       JobFrame, budget
  <1>13. ASSUME NEW r \in Row, FinalizeFails(r) PROVE Woken'
    BY <1>13 DEF FinalizeFails, Fault, Finalizable, Status, Go, Doubted,
       JobFrame
  <1>14. ASSUME NEW r \in Row, Miss(r) PROVE Woken'
    BY <1>14 DEF Miss, End, Status, NoFault, JobFrame, budget
  <1>15. ASSUME NEW r \in Row, DeadLetter(r) PROVE Woken'
    BY <1>15 DEF DeadLetter, End, Status, NoFault, JobFrame, budget
  <1>16. ASSUME NEW r \in Row, HandleFailure(r) PROVE Woken'
    BY <1>16 DEF HandleFailure, Status, End, NoFault, JobFrame, budget
  <1>17. ASSUME NEW r \in Row, JobError(r) PROVE Woken'
    BY <1>17, JobErrorShape DEF JobError, Fault, JobFrame
  <1>18. ASSUME ClaimSignal PROVE Woken'
    BY <1>18 DEF ClaimSignal, Iterate, Claimable, NoFault, Fault,
       memory, history, budget
  <1>19. ASSUME ClaimNothing PROVE Woken'
    <2>1. /\ UNCHANGED <<row, late, unannounced>> /\ (Fault \/ NoFault)
      BY <1>19 DEF ClaimNothing, table
    <2>2. NoFault => ("prediction" \in latch => \A s \in Signal : ~Claimable(s))
      BY <1>19 DEF ClaimNothing, Runs, NoFault, Fault, budget
    <2> QED
      BY <2>1, <2>2
  <1>20. ASSUME LoopRest PROVE Woken'
    BY <1>20 DEF LoopRest, bgRunning, NoFault, table, memory, history,
       budget
  <1>21. ASSUME ClaimResults PROVE Woken'
    <2>1. \A s \in Signal : row'[s] = row[s]
      BY <1>21 DEF ClaimResults
    <2>2. /\ UNCHANGED <<late, latch, unannounced>> /\ (Fault \/ NoFault)
      BY <1>21 DEF ClaimResults
    <2> QED
      BY <2>1, <2>2
  <1>22. ASSUME Sweep PROVE Woken'
    BY <1>22 DEF Sweep, Status, Overdue, Begun, NoFault, Fault,
       RecoverFrame, Live, budget, memory
  <1>23. ASSUME ResetInflight PROVE Woken'
    <2>3. \A r \in Row : \/ row'[r] = row[r]
                         \/ /\ row[r].status = "inflight" /\ row'[r].status = "pending"
                            /\ row'[r].due /\ row'[r].attempts = row[r].attempts
      BY <1>23, ResetShape
    <2>4. /\ UNCHANGED <<late, latch, unannounced>> /\ (Fault \/ NoFault)
      BY <1>23 DEF ResetInflight, RecoverFrame
    <2> QED
      BY <2>3, <2>4
  <1>24. ASSUME OperatorRetry PROVE Woken'
    BY <1>24 DEF OperatorRetry, Doubted, memory, worker
  <1>25. ASSUME Crash PROVE Woken'
    BY <1>25 DEF Crash, Fault, Doubted, Live
  <1>26. CASE UNCHANGED vars
    BY <1>26 DEF vars, table, memory, worker, history, budget
  <1> QED
    BY <1>1, <1>2, <1>3, <1>4, <1>5, <1>6, <1>7, <1>8, <1>9, <1>10,
       <1>11, <1>12, <1>13, <1>14, <1>15, <1>16, <1>17, <1>18, <1>19,
       <1>20, <1>21, <1>22, <1>23, <1>24, <1>25, <1>26 DEF Next,
       JobStep, Loop, Recover

(* No wake is lost between the drain and the wait. *)
THEOREM NoWakeIsLost == Spec => []WakeNotLost
  <1>1. Init => WInv
    BY InitInv DEF Init, WInv, Fresh, Woken, Claimable, Row
  <1>2. WInv /\ [Next]_vars => WInv'
    BY StepInv, FreshStep, WokenStep DEF WInv
  <1>3. WInv => WakeNotLost
    BY DEF WInv, Woken, WakeNotLost
  <1> QED
    BY <1>1, <1>2, <1>3, PTL DEF Spec

===============================================================================
