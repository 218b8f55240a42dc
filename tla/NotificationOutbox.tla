-------------------------- MODULE NotificationOutbox --------------------------
(***************************************************************************)
(* src/lib/prediction/live/notification-worker.ts with outbox-wake.ts and  *)
(* outbox-pending-targets.ts: the notification_outbox table, the loop that *)
(* claims its rows and sends them to Telegram, the handler of the target's *)
(* BG frame that kills a signal, the recovery sweeps and the operator's    *)
(* retry.  Signals are the rows of type 'prediction', one per target round *)
(* (migrations 0045 and 0046), so a signal also stands for its target.     *)
(*                                                                         *)
(* An action is the code between two awaits, or one SQL statement with the *)
(* code that only touches the loop's own variables before it.  Time        *)
(* is the set late of rows past their deadline; a row that is two minutes  *)
(* old is treated as late too.  The age of an inflight row is arbitrary.   *)
(* Left out: overlapping recovery sweeps, loss of worker authority, the    *)
(* legacy claim in two statements, secondary chats, forensics, a pass of   *)
(* the normal lane beside the sends that a failed pass left under way.     *)
(***************************************************************************)
EXTENDS Naturals, FiniteSets

CONSTANTS
  Signal,        \* rows of type prediction
  Result,        \* rows of the normal lane
  Gates,         \* pairs <<s, v>>: signal s was issued on the round v reports
  MaxAttempts,   \* MAX_ATTEMPTS (5 in the source)
  Period,        \* loop ticks between recoveries (50 in the source)
  MaxFaults,     \* bound: failed statements, lost replies, crashes
  MaxRetries     \* bound: operator retries

Row == Signal \cup Result

ASSUME OutboxAssumption ==
  /\ Signal \cap Result = {}
  /\ Gates \subseteq Signal \X Result
  /\ MaxAttempts \in Nat \ {0} /\ Period \in Nat \ {0}
  /\ MaxFaults \in Nat /\ MaxRetries \in Nat

VARIABLES
  row,          \* notification_outbox: status, next_attempt_at passed, attempt_count
  late,         \* rows past telegram_deadline_at
  dbBegun,      \* targets the database knows as started or crashed
  unannounced,  \* rows inserted whose producer has not seen the reply
  begun,        \* targets in the live-round registry
  killing,      \* targets whose BG handler awaits its kill statement
  filter,       \* outbox-pending-targets: targets with an undelivered signal
  latch,        \* outbox-wake: wakePending
  loop,         \* drainLoop: where it is, loopTick modulo Period, runNormal
  bg,           \* the detached pass of the normal lane
  rec,          \* recoverStale: the statement it is about to run
  job,          \* the dispatch of each claimed row, with its attempt_count
  faults, retries,
  copies,       \* history: messages Telegram accepted for a row
  doubts,       \* history: times the code could not know whether it had sent
  killed,       \* history: signals a BG kill found undelivered
  restarted     \* history: the process has crashed

table == <<row, late, dbBegun, unannounced>>
memory == <<begun, killing, filter>>
worker == <<latch, loop, bg, rec, job>>
history == <<copies, doubts, killed, restarted>>
budget == <<faults, retries>>
vars == <<table, memory, worker, history, budget>>

Live(r) == row[r].status \in {"pending", "inflight"}
Settled(r) == row[r].status \in {"delivered", "dead_letter"}
Idle == [at |-> "none", n |-> 0]

Claimable(r) == row[r].status = "pending" /\ row[r].due /\ r \notin late
Status(rs, s) == [r \in Row |-> IF r \in rs THEN [row[r] EXCEPT !.status = s] ELSE row[r]]
Requeue(rs) == [r \in Row |-> IF r \in rs THEN [row[r] EXCEPT !.status = "pending", !.due = TRUE]
                              ELSE row[r]]
Doubted(rs) == [r \in Row |-> IF r \in rs THEN doubts[r] + 1 ELSE doubts[r]]
Fault == faults < MaxFaults /\ faults' = faults + 1 /\ UNCHANGED retries
NoFault == UNCHANGED budget

(* The first iteration runs both lanes without a wake *)
Start == [pc |-> "wait", tick |-> 0, normal |-> FALSE]
FirstWake == {"prediction", "normal"}

Init ==
  /\ row = [r \in Row |-> [status |-> "none", due |-> FALSE, attempts |-> 0]]
  /\ late = {} /\ dbBegun = {} /\ unannounced = {}
  /\ begun = {} /\ killing = {} /\ filter = {}
  /\ latch = FirstWake /\ loop = Start /\ bg = "idle" /\ rec = "idle"
  /\ job = [r \in Row |-> Idle]
  /\ faults = 0 /\ retries = 0
  /\ copies = [r \in Row |-> 0] /\ doubts = [r \in Row |-> 0]
  /\ killed = {} /\ restarted = FALSE

-----------------------------------------------------------------------------
(* Producers and time *)

(* The predictor's compound insert of a signal *)
Persist(s) ==
  /\ row[s].status = "none"
  /\ row' = [row EXCEPT ![s] = [status |-> "pending", due |-> TRUE, attempts |-> 0]]
  /\ unannounced' = unannounced \cup {s}
  /\ NoFault /\ UNCHANGED <<late, dbBegun, memory, worker, history>>

(* Its reply arrives: note the target, wake the lane.  Or it is lost.      *)
Announce(s) ==
  /\ s \in unannounced
  /\ unannounced' = unannounced \ {s}
  /\ \/ filter' = filter \cup {s} /\ latch' = latch \cup {"prediction"} /\ NoFault
     \/ UNCHANGED <<filter, latch>> /\ Fault
  /\ UNCHANGED <<row, late, dbBegun, begun, killing, loop, bg, rec, job, history>>

(* The validator's insert of a result, held back for                       *)
(* VALIDATION_DISPATCH_DELAY_MS, and its wake (lost with the reply).       *)
PersistResult(v) ==
  /\ row[v].status = "none"
  /\ row' = [row EXCEPT ![v] = [status |-> "pending", due |-> FALSE, attempts |-> 0]]
  /\ \/ latch' = latch \cup {"normal"} /\ NoFault
     \/ UNCHANGED latch /\ Fault
  /\ UNCHANGED <<late, dbBegun, unannounced, memory, loop, bg, rec, job, history>>

(* next_attempt_at passes, or the validator of the source round releases   *)
(* its signals and wakes their lane.                                       *)
BecomeDue(r) ==
  /\ row[r].status = "pending" /\ ~row[r].due
  /\ row' = [row EXCEPT ![r].due = TRUE]
  /\ latch' \in {latch} \cup {latch \cup {"prediction"} : s \in {r} \cap Signal}
  /\ NoFault
  /\ UNCHANGED <<late, dbBegun, unannounced, memory, loop, bg, rec, job, history>>

(* (of a settled row it does not matter) *)
Expire(r) ==
  /\ Live(r) /\ r \notin late
  /\ late' = late \cup {r}
  /\ NoFault /\ UNCHANGED <<row, dbBegun, unannounced, memory, worker, history>>

-----------------------------------------------------------------------------
(* The target round starts *)

(* BG(target): the registry is written at once; the kill is skipped when   *)
(* the filter knows of no undelivered signal (shouldSkipBgTemporalKillDb). *)
RoundStarted(s) ==
  /\ s \notin begun
  /\ begun' = begun \cup {s}
  /\ killing' = killing \cup ({s} \cap filter)
  /\ NoFault /\ UNCHANGED <<table, filter, worker, history>>

BgKill(s) ==
  /\ s \in killing
  /\ killing' = killing \ {s}
  /\ row' = IF Live(s) THEN Status({s}, "dead_letter") ELSE row
  /\ filter' = IF Live(s) THEN filter \ {s} ELSE filter
  /\ killed' = IF Live(s) THEN killed \cup {s} ELSE killed
  /\ NoFault
  /\ UNCHANGED <<late, dbBegun, unannounced, begun, worker, copies, doubts, restarted>>

(* Both tries fail; whether the first one had run is not known *)
BgKillFails(s) ==
  /\ s \in killing /\ Fault
  /\ killing' = killing \ {s}
  /\ row' \in {row, IF Live(s) THEN Status({s}, "dead_letter") ELSE row}
  /\ UNCHANGED <<late, dbBegun, unannounced, begun, filter, worker, history>>

(* live_round_state or crash_rounds is written: the detached leg of the BG *)
(* handler, the ED handler or the poll worker.  Only a live row reads it.  *)
LearnStart(s) ==
  /\ Live(s) /\ s \notin dbBegun
  /\ dbBegun' = dbBegun \cup {s}
  /\ NoFault /\ UNCHANGED <<row, late, unannounced, memory, worker, history>>

-----------------------------------------------------------------------------
(* drainLoop *)

(* The wait is over (latched, woken or TICK_MS passed): an iteration takes *)
(* both latches, and every Period-th one is a recovery.                    *)
NextTick == (loop.tick + 1) % Period
Runs(lane) == lane \in latch \/ NextTick = 0

Iterate(pc) ==
  /\ loop.pc = "wait"
  /\ loop' = [pc |-> pc, tick |-> NextTick, normal |-> pc = "lane" /\ Runs("normal")]
  /\ latch' = {}

(* The claim of the prediction lane: one row (PREDICTION_BATCH_SIZE); the  *)
(* statement refuses a target that has started: it dead-letters the row    *)
(* and still returns it.  When its reply is lost, the rest of the          *)
(* iteration is skipped.                                                   *)
ClaimSignal ==
  /\ Runs("prediction")
  /\ \E s \in {z \in Signal : Claimable(z)} :
       LET authorized == s \notin dbBegun IN
       /\ row' = [row EXCEPT ![s].status = IF authorized THEN "inflight" ELSE "dead_letter",
                             ![s].attempts = @ + 1]
       /\ \/ /\ Iterate("lane") /\ NoFault
             /\ job' = [job EXCEPT ![s] = [at |-> IF authorized THEN "claimed" ELSE "refused",
                                           n |-> row'[s].attempts]]
          \/ Iterate("wait") /\ Fault /\ UNCHANGED job
  /\ UNCHANGED <<late, dbBegun, unannounced, memory, bg, rec, history>>

ClaimNothing ==
  /\ \/ /\ Runs("prediction") => \A s \in Signal : ~Claimable(s)
        /\ Iterate("lane") /\ NoFault
     \/ Iterate("wait") /\ Fault /\ Runs("prediction")
  /\ UNCHANGED <<table, memory, bg, rec, job, history>>

(* The inline prediction lane is done: recovery and the normal lane are    *)
(* started detached, and the loop waits.                                   *)
bgRunning == bg = "claim" \/ \E v \in Result : job[v] # Idle

(* Slip: the wait starts from clean latches *)
LoopRestForgets ==
  /\ loop.pc = "lane" /\ \A s \in Signal : job[s] = Idle
  /\ rec' = IF loop.tick = 0 /\ rec = "idle" THEN "sweep" ELSE rec
  /\ bg' = IF loop.normal /\ ~bgRunning THEN "claim" ELSE bg
  /\ loop' = [loop EXCEPT !.pc = "wait", !.normal = FALSE]
  /\ latch' = {}
  /\ NoFault /\ UNCHANGED <<table, memory, job, history>>

LoopRest ==
  /\ loop.pc = "lane" /\ \A s \in Signal : job[s] = Idle
  /\ rec' = IF loop.tick = 0 /\ rec = "idle" THEN "sweep" ELSE rec
  /\ bg' = IF loop.normal /\ ~bgRunning THEN "claim" ELSE bg
  /\ loop' = [loop EXCEPT !.pc = "wait", !.normal = FALSE]
  /\ NoFault /\ UNCHANGED <<table, memory, latch, job, history>>

Loop == ClaimSignal \/ ClaimNothing \/ LoopRest

(* The claim of the normal lane: a result waits for its signal to settle,  *)
(* unless the signal is older than 30 seconds.                             *)
ClaimResults ==
  /\ bg = "claim"
  /\ \E old \in SUBSET {s \in Signal : Live(s)} :
       LET free == {v \in Result : Claimable(v) /\
                      \A s \in Signal \ old : <<s, v>> \in Gates => ~Live(s)} IN
       /\ row' = [r \in Row |-> IF r \in free
                    THEN [row[r] EXCEPT !.status = "inflight", !.attempts = @ + 1] ELSE row[r]]
       /\ \/ /\ job' = [r \in Row |-> IF r \in free THEN [at |-> "claimed", n |-> row'[r].attempts]
                                      ELSE job[r]]
             /\ NoFault
          \/ Fault /\ UNCHANGED job
  /\ bg' = "idle"
  /\ UNCHANGED <<late, dbBegun, unannounced, memory, latch, loop, rec, history>>

-----------------------------------------------------------------------------
(* The dispatch of a claimed row (the body of processLane) *)

At(r, stage) == job[r].at = stage
Go(r, stage) == job' = [job EXCEPT ![r].at = stage]
End(r) == job' = [job EXCEPT ![r] = Idle]
JobFrame == UNCHANGED <<late, dbBegun, unannounced, begun, killing, latch, bg, rec, killed, restarted>>

(* Slip: the dispatcher trusts the claim and does not ask the registry *)
GateBlind(r) ==
  /\ At(r, "claimed") \/ At(r, "refused")
  /\ \/ r \in late /\ Go(r, "expiring")
     \/ r \notin late /\ Go(r, "missing")
     \/ r \notin late /\ At(r, "claimed") /\ Go(r, "sending")
     \/ r \notin late /\ At(r, "refused") /\ End(r)
  /\ NoFault /\ JobFrame /\ UNCHANGED <<row, filter, loop, copies, doubts>>

(* The gates in memory: the deadline; the minimum lead (of a result: the   *)
(* time a send takes), which may be gone at any time before the deadline;  *)
(* for a signal the registry.  A refused claim that passes them ends here. *)
Gate(r) ==
  /\ At(r, "claimed") \/ At(r, "refused")
  /\ \/ r \in late /\ Go(r, "expiring")
     \/ r \notin late /\ Go(r, "missing")
     \/ r \notin late \cup begun /\ At(r, "claimed") /\ Go(r, "sending")
     \/ r \notin late \cup begun /\ At(r, "refused") /\ End(r)
  /\ NoFault /\ JobFrame /\ UNCHANGED <<row, filter, loop, copies, doubts>>

(* Telegram: refused for good, refused for now, accepted, or accepted with *)
(* the answer lost, which the code takes for a failure.                    *)
Send(r) ==
  /\ At(r, "sending")
  /\ \/ \E stage \in {"failed", "rejected"} : Go(r, stage) /\ UNCHANGED <<copies, doubts>> /\ NoFault
     \/ Go(r, "accepted") /\ copies' = [copies EXCEPT ![r] = @ + 1] /\ UNCHANGED doubts /\ NoFault
     \/ Go(r, "failed") /\ copies' = [copies EXCEPT ![r] = @ + 1] /\ doubts' = Doubted({r}) /\ Fault
  /\ JobFrame /\ UNCHANGED <<row, filter, loop>>

(* Slip: the finalize statement does not look at the status *)
FinalizableAny(r) == r \notin late /\ r \notin dbBegun

(* The finalize statement; a signal is refused once its target has started *)
Finalizable(r) == row[r].status = "inflight" /\ r \notin late /\ r \notin dbBegun

(* Slip: that a row is delivered is noted in memory only *)
FinalizeForgets(r) ==
  /\ At(r, "accepted") /\ End(r)
  /\ filter' = filter \ {r}
  /\ NoFault /\ JobFrame /\ UNCHANGED <<row, loop, copies, doubts>>

Finalize(r) ==
  /\ At(r, "accepted")
  /\ row' = IF Finalizable(r) THEN Status({r}, "delivered") ELSE row
  /\ IF Finalizable(r) THEN End(r) /\ filter' = filter \ {r}
     ELSE (IF r \in Signal THEN Go(r, "suppressed") ELSE End(r)) /\ UNCHANGED filter
  /\ NoFault /\ JobFrame /\ UNCHANGED <<loop, copies, doubts>>

FinalizeFails(r) ==
  /\ At(r, "accepted") /\ Fault
  /\ row' \in {row, IF Finalizable(r) THEN Status({r}, "delivered") ELSE row}
  /\ Go(r, "failed") /\ doubts' = Doubted({r})
  /\ JobFrame /\ UNCHANGED <<filter, loop, copies>>

(* UPDATE ... dead_letter WHERE id AND status = 'inflight' *)
Miss(r) ==
  /\ At(r, "missing") \/ At(r, "suppressed")
  /\ End(r)
  /\ row' = IF row[r].status = "inflight" THEN Status({r}, "dead_letter") ELSE row
  /\ NoFault /\ JobFrame /\ UNCHANGED <<filter, loop, copies, doubts>>

(* UPDATE ... dead_letter WHERE id: past the deadline before the send *)
DeadLetter(r) ==
  /\ At(r, "expiring") /\ End(r)
  /\ row' = Status({r}, "dead_letter")
  /\ NoFault /\ JobFrame /\ UNCHANGED <<filter, loop, copies, doubts>>

(* Slip: one attempt too many *)
HandleFailureOneMore(r) ==
  /\ \/ At(r, "rejected") /\ row' = Status({r}, "dead_letter")
     \/ At(r, "failed") /\ row' = Status({r}, "dead_letter")
     \/ At(r, "failed") /\ job[r].n <= MaxAttempts
          /\ row' = [row EXCEPT ![r].status = "pending", ![r].due = FALSE]
  /\ End(r)
  /\ NoFault /\ JobFrame /\ UNCHANGED <<filter, loop, copies, doubts>>

(* Slip: a failed signal leaves the filter as a delivered one does *)
HandleFailureClears(r) ==
  /\ \/ At(r, "rejected") /\ row' = Status({r}, "dead_letter")
     \/ At(r, "failed") /\ row' = Status({r}, "dead_letter")
     \/ At(r, "failed") /\ job[r].n < MaxAttempts
          /\ row' = [row EXCEPT ![r].status = "pending", ![r].due = FALSE]
  /\ End(r) /\ filter' = filter \ {r}
  /\ NoFault /\ JobFrame /\ UNCHANGED <<loop, copies, doubts>>

(* After a failed send: a permanent error, the last attempt or too little  *)
(* time left dead-letters the row, anything else requeues it with backoff; *)
(* neither statement looks at the status the row has by now.               *)
HandleFailure(r) ==
  /\ \/ At(r, "rejected") /\ row' = Status({r}, "dead_letter")
     \/ At(r, "failed") /\ row' = Status({r}, "dead_letter")
     \/ At(r, "failed") /\ job[r].n < MaxAttempts
          /\ row' = [row EXCEPT ![r].status = "pending", ![r].due = FALSE]
  /\ End(r)
  /\ NoFault /\ JobFrame /\ UNCHANGED <<filter, loop, copies, doubts>>

(* A statement of the dispatch fails: the catch clause treats it as a      *)
(* failed send, and when its statement fails too the pass is over: the     *)
(* prediction lane skips the rest of its tick, the normal lane drops the   *)
(* rows of the chunks it had not begun, which stay inflight.  A failure to *)
(* suppress is ignored.                                                    *)
Unbegun(r) == {v \in Result \ {r} : r \in Result /\ At(v, "claimed")}

JobError(r) ==
  /\ Fault
  /\ \/ (At(r, "missing") \/ At(r, "expiring") \/ At(r, "rejected")) /\ Go(r, "failed")
        /\ UNCHANGED loop
     \/ At(r, "suppressed") /\ End(r) /\ UNCHANGED loop
     \/ /\ At(r, "failed")
        /\ \E left \in SUBSET Unbegun(r) :
             job' = [q \in Row |-> IF q \in {r} \cup left THEN Idle ELSE job[q]]
        /\ loop' = IF r \in Signal THEN [loop EXCEPT !.pc = "wait", !.normal = FALSE] ELSE loop
  /\ JobFrame /\ UNCHANGED <<row, filter, copies, doubts>>

JobStep(r) ==
  \/ Gate(r) \/ Send(r) \/ Finalize(r) \/ FinalizeFails(r)
  \/ Miss(r) \/ DeadLetter(r) \/ HandleFailure(r) \/ JobError(r)

-----------------------------------------------------------------------------
(* recoverStale *)

RecoverFrame ==
  UNCHANGED <<late, dbBegun, unannounced, memory, latch, loop, bg, job, copies, killed, restarted>>

(* Slips: nobody cleans up, or only after signals *)
OverdueNone == {}
OverdueSignals == {s \in Signal \cap late : Live(s)}

Overdue == {r \in late : Live(r)}

(* Two statements: rows past their deadline, then signals whose target the *)
(* database knows as started; a failure of either is ignored.              *)
Begun == {s \in Signal \cap dbBegun : Live(s)}

Sweep ==
  /\ rec = "sweep" /\ rec' = "reset"
  /\ \/ row' = Status(Overdue \cup Begun, "dead_letter") /\ NoFault
     \/ \E part \in {{}, Overdue, Begun} : row' = Status(part, "dead_letter") /\ Fault
  /\ RecoverFrame /\ UNCHANGED doubts

(* Rows inflight for STALE_INFLIGHT_MS go back to pending; one whose       *)
(* dispatch is still under way counts as a fault: it is that slow.         *)
ResetInflight ==
  /\ rec = "reset" /\ rec' = "idle"
  /\ \E S \in SUBSET {r \in Row : row[r].status = "inflight"} :
       LET working == {r \in S : job[r] # Idle} IN
       /\ row' = Requeue(S)
       /\ doubts' = Doubted(working)
       /\ IF working = {} THEN NoFault ELSE Fault
  /\ RecoverFrame

Recover == Sweep \/ ResetInflight

-----------------------------------------------------------------------------
(* Operator and crash *)

(* retryDeadNotifications: every dead row, its attempts forgotten, no wake *)
OperatorRetry ==
  LET dead == {r \in Row : row[r].status = "dead_letter"} IN
  /\ retries < MaxRetries /\ retries' = retries + 1
  /\ dead # {}
  /\ row' = [r \in Row |-> IF r \in dead THEN [status |-> "pending", due |-> TRUE, attempts |-> 0]
                           ELSE row[r]]
  /\ doubts' = Doubted(dead)
  /\ UNCHANGED <<late, dbBegun, unannounced, memory, worker, copies, killed, restarted, faults>>

(* The process dies and boots again: what was in memory is gone, a send    *)
(* under way may have been accepted, and the filter is read back.          *)
Crash ==
  /\ Fault
  /\ \E sent \in SUBSET {r \in Row : At(r, "sending")} :
       /\ copies' = [r \in Row |-> IF r \in sent THEN copies[r] + 1 ELSE copies[r]]
       /\ doubts' = Doubted(sent \cup {r \in Row : At(r, "accepted")})
  /\ job' = [r \in Row |-> Idle]
  /\ latch' = FirstWake /\ loop' = Start /\ bg' = "idle" /\ rec' = "idle"
  /\ begun' = {} /\ killing' = {} /\ filter' = {s \in Signal : Live(s)}
  /\ unannounced' = {} /\ restarted' = TRUE
  /\ UNCHANGED <<row, late, dbBegun, killed>>

Next ==
  \/ \E s \in Signal : \/ Persist(s) \/ Announce(s)
                       \/ RoundStarted(s) \/ BgKill(s) \/ BgKillFails(s) \/ LearnStart(s)
  \/ \E v \in Result : PersistResult(v)
  \/ \E r \in Row : BecomeDue(r) \/ Expire(r) \/ JobStep(r)
  \/ Loop \/ ClaimResults \/ Recover
  \/ OperatorRetry \/ Crash

(* Timers fire, the event loop runs, statements and sends end (both have   *)
(* timeouts), and deadlines pass.                                          *)
Fairness ==
  /\ WF_vars(Loop) /\ WF_vars(ClaimResults) /\ WF_vars(Recover)
  /\ \A r \in Row : WF_vars(JobStep(r)) /\ WF_vars(Expire(r))

Spec == Init /\ [][Next]_vars /\ Fairness

-----------------------------------------------------------------------------
(* Properties *)

Stages == {"none", "claimed", "refused", "expiring", "missing", "sending", "accepted", "failed",
           "rejected", "suppressed"}

(* Every variable keeps its shape; no row is attempted more than           *)
(* MaxAttempts times between two operator retries, recoveries apart.       *)
TypeOK ==
  /\ row \in [Row -> [status : {"none", "pending", "inflight", "delivered", "dead_letter"},
                      due : BOOLEAN, attempts : 0 .. MaxAttempts + MaxFaults]]
  /\ late \in SUBSET Row /\ unannounced \in SUBSET Signal
  /\ dbBegun \in SUBSET Signal /\ begun \in SUBSET Signal
  /\ killing \in SUBSET Signal /\ filter \in SUBSET Signal /\ killed \in SUBSET Signal
  /\ latch \in SUBSET {"prediction", "normal"}
  /\ loop \in [pc : {"lane", "wait"}, tick : 0 .. Period - 1, normal : BOOLEAN]
  /\ bg \in {"idle", "claim"} /\ rec \in {"idle", "sweep", "reset"}
  /\ job \in [Row -> [at : Stages, n : 0 .. MaxAttempts + MaxFaults]]
  /\ faults \in 0 .. MaxFaults /\ retries \in 0 .. MaxRetries
  /\ copies \in [Row -> Nat] /\ doubts \in [Row -> Nat] /\ restarted \in BOOLEAN

(* What a row promises, whatever statements race on it: DeliveryPromise.   *)
Fate(s) == CASE s = "none" -> "none"
             [] s \in {"pending", "inflight"} -> "open"
             [] s = "delivered" -> "delivered"
             [] s = "dead_letter" -> "dropped"

Promise == INSTANCE DeliveryPromise
  WITH rows <- [r \in Row |-> [fate |-> Fate(row[r].status), copies |-> copies[r],
                               doubts |-> doubts[r]]]

ImplementsPromise == Promise!Spec

(* A chat sees a row once, and once more only for each failed statement,   *)
(* lost reply, slow send, crash or operator retry: no requeue, recovery or *)
(* late finalize of an orderly run repeats a message.                      *)
OneCopyUnlessTrouble == \A r \in Row : copies[r] <= 1 + faults + retries

(* A signal that the BG frame of its own target killed is not sent again,  *)
(* although handleFailure may put the killed row back to pending and the   *)
(* database may learn of the start much later: the registry stops it, so   *)
(* only a restart, which empties the registry, can let it through.         *)
KilledNeverSentAgain ==
  [][\A s \in killed : At(s, "claimed") /\ job'[s].at = "sending" => restarted]_vars

(* No wake is lost between the drain and the wait: when the loop sleeps    *)
(* with nothing latched, an announced signal that nobody has tried yet is  *)
(* there only because another signal shared its wake (one row per claim)   *)
(* or a statement failed.                                                  *)
WakeNotLost ==
  \A s \in Signal :
    /\ loop.pc = "wait" /\ latch = {} /\ faults = 0 /\ retries = 0
    /\ Claimable(s) /\ row[s].attempts = 0 /\ s \notin unannounced
    => \E z \in Signal \ {s} : row[z].status # "none"

(* The filter that lets the BG handler skip its kill never hides a signal  *)
(* whose producer has noted it, unless a kill or an operator was there     *)
(* before.                                                                 *)
FilterSeesSignals ==
  \A s \in Signal : Live(s) /\ s \notin unannounced \cup killed /\ faults + retries = 0
    => s \in filter

(* Every row that is inserted is delivered or dead-lettered in the end:    *)
(* claims whose reply was lost, rows orphaned by a crash, requeues and     *)
(* wakes that were never given are all picked up by the recovery.          *)
EveryRowSettles == \A r \in Row : Live(r) ~> Settled(r)

(* "DELIVERED" and "DEAD (no retry)" are final in the state machine at the *)
(* head of notification-worker.ts; only an operator reopens a row.         *)
TerminalStaysTerminal ==
  [][\A r \in Row : Settled(r) => row'[r].status = row[r].status]_vars

=============================================================================
