------------------------------ MODULE Settlement ------------------------------
(***************************************************************************)
(* What becomes of one prediction after its round: the validator           *)
(* (validator.ts) grades it and hands it to the learning pipeline          *)
(* (feedback.ts), whose sweep picks up what was lost; stuck-recovery.ts    *)
(* retires a row nobody graded; live-round-state.ts keeps the lifecycle of *)
(* the round for them.  A round is reported any number of times (ED, edge, *)
(* poll), each time by a run; a run and the sweep both call                *)
(* processResolvedPredictionFeedback.                                      *)
(*                                                                         *)
(* An action is the code between two awaits, or one SQL statement.  The    *)
(* learning itself is one step: only its success is told apart.  It feeds  *)
(* the models and, once more, the rolling state (globalIncrementalState)   *)
(* that every report feeds; of the latter only whether it has taken the    *)
(* round is kept, not how often.  Left out: the cooldown                   *)
(* (PredictionHandoff) and the Telegram result (NotificationOutbox), ACIE, *)
(* which ignores a round it has seen, the repair of the pre-migration      *)
(* tables, the limits on what memory keeps (5000 ids, 2000 records).       *)
(***************************************************************************)
EXTENDS Naturals, FiniteSets

CONSTANTS
  Run,        \* reports of the crash, each one call of validator.onGameEnd
  Eager,      \* those of ED and edge, which feed the rolling state on entry
  Sweep,      \* calls of sweepStuckFeedback that may overlap
  MaxFaults   \* bound: failed statements, lost replies, slow owners, crashes

ASSUME SettlementAssumption ==
  /\ IsFiniteSet(Run) /\ IsFiniteSet(Sweep) /\ Run \cap Sweep = {} /\ Eager \subseteq Run
  /\ MaxFaults \in Nat

VARIABLES
  pend,       \* the row of pending_predictions
  age,        \* its age: "young", "stale" (STALE_MS), "old" (twice STALE_MS)
  crashRow,   \* crash_rounds has the round
  stage,      \* live_round_state.lifecycle, "NONE" when there is no row
  grade,      \* the row of prediction_validations: graded, marker, skip, overdue
  job,        \* the row of feedback_jobs
  memo,       \* feedback.ts: processedIds has the prediction
  registry,   \* prediction-registry.ts: the record of the prediction, if any
  pc,         \* where each run and sweep is
  stuck,      \* reconcileStuckPredictions: where it is and what it has read
  faults,
  counted,    \* history: the rolling state of this process has taken the round
  learned,    \* history: times the pipeline of this process has learned it
  doubts,     \* history: claims granted although another one may stand
  everLearned,\* history: some process has learned it
  fellBack    \* history: the marker has served as the claim

table == <<pend, age, crashRow, stage, grade, job>>
teaching == <<learned, doubts, everLearned, fellBack>>
history == <<counted, teaching>>
vars == <<table, memo, registry, pc, stuck, faults, history>>

Caller == Run \cup Sweep
Fault == faults < MaxFaults /\ faults' = faults + 1
NoFault == UNCHANGED faults

NotRead == [at |-> "idle", crashed |-> FALSE]

Init ==
  /\ pend = "pending" /\ age = "young" /\ crashRow = FALSE /\ stage = "NONE"
  /\ grade = [graded |-> FALSE, marker |-> FALSE, skip |-> FALSE, overdue |-> FALSE]
  /\ job = "NONE" /\ memo = FALSE /\ registry = "awaited"
  /\ pc = [c \in Caller |-> "idle"] /\ stuck = NotRead
  /\ faults = 0 /\ counted = FALSE
  /\ learned = 0 /\ doubts = 0 /\ everLearned = FALSE /\ fellBack = FALSE

Go(c, to) == pc' = [pc EXCEPT ![c] = to]

-----------------------------------------------------------------------------
(* live-round-state.ts: what each writer makes of the lifecycle            *)

Started(s) == IF s \in {"ENDED"} THEN s ELSE "STARTED"

(* the history upsert leaves a round the socket has seen start as it is    *)
FromHistory(s) == {"ENDED"} \cup ({s} \cap {"STARTED"})

(* BG, again or late; ED, edge or poll (nobody reads the lifecycle of a    *)
(* row that has left pending any more)                                     *)
LifecycleWritten ==
  /\ pend = "pending"
  /\ \/ stage' = Started(stage) /\ UNCHANGED crashRow
     \/ stage' = "ENDED" /\ UNCHANGED crashRow
     \/ stage' \in FromHistory(stage) /\ crashRow' = TRUE
  /\ NoFault
  /\ UNCHANGED <<pend, age, grade, job, memo, registry, pc, stuck, history>>

-----------------------------------------------------------------------------
(* prediction-registry.ts *)

RegistryFrame == NoFault /\ UNCHANGED <<table, memo, pc, stuck, history>>

(* The predictor registers what it has persisted, after the reply of the   *)
(* persist or never; when the target started is not known then.            *)
Register ==
  /\ registry = "awaited" /\ registry' = "unverified"
  /\ RegistryFrame

(* A BG frame of the target says when it started, to a record that is      *)
(* there already; the prediction may turn out to be made too late.  A      *)
(* frame without a start time is given its arrival, so a second one may    *)
(* say otherwise.  VALID is let through like UNVERIFIED.                   *)
NoteTargetStarted ==
  /\ registry \in {"unverified", "invalid"}
  /\ registry' \in {"unverified", "invalid"}
  /\ RegistryFrame

-----------------------------------------------------------------------------
(* validator.onGameEnd *)

RunFrame == UNCHANGED <<age, job, memo, registry, stuck, teaching>>

(* The rolling state: the ED handler feeds it before it calls, an edge     *)
(* report on entry, and every report once it knows what became of the row. *)
FedOnEntry(v) == counted \/ v \in Eager
Fed == counted' = TRUE

(* Slip: the rolling state is only updated together with a prediction *)
ReadPendingUncounted(v) ==
  /\ pc[v] = "idle"
  /\ \/ /\ crashRow' = TRUE /\ NoFault
        /\ Go(v, IF pend = "pending" THEN "grade" ELSE "over")
     \/ crashRow' \in {crashRow, TRUE} /\ Fault /\ Go(v, "over")
  /\ counted' = FedOnEntry(v)
  /\ RunFrame /\ UNCHANGED <<pend, stage, grade>>

(* The first statement anchors the round and reads the unmatched row;      *)
(* without one the rolling state is fed (again) and the run is over.       *)
ReadPending(v) ==
  /\ pc[v] = "idle"
  /\ \/ /\ crashRow' = TRUE /\ NoFault
        /\ Go(v, IF pend = "pending" THEN "grade" ELSE "over")
        /\ IF pend = "pending" THEN counted' = FedOnEntry(v) ELSE Fed
     \/ /\ crashRow' \in {crashRow, TRUE} /\ Fault /\ Go(v, "over")
        /\ counted' = FedOnEntry(v)
  /\ RunFrame /\ UNCHANGED <<pend, stage, grade>>

(* Slip: a grading that failed is taken for one that another run has done *)
GradeSoftly(v) ==
  LET done == IF grade.graded THEN UNCHANGED <<grade, pend>>
              ELSE grade' = [grade EXCEPT !.graded = TRUE] /\ pend' = "matched"
  IN
  /\ pc[v] = "grade" /\ Go(v, "resolve") /\ Fed
  /\ \/ done /\ NoFault
     \/ (done \/ UNCHANGED <<grade, pend>>) /\ Fault
  /\ RunFrame /\ UNCHANGED <<crashRow, stage>>

(* The second statement inserts the validation and, only then, matches the *)
(* pending row, whatever has become of it.  A run that finds the           *)
(* validation goes on all the same, and feeds the rolling state as the     *)
(* first one did; one whose reply is lost is over.                         *)
Grade(v) ==
  LET done == IF grade.graded THEN UNCHANGED <<grade, pend>>
              ELSE grade' = [grade EXCEPT !.graded = TRUE] /\ pend' = "matched"
  IN
  /\ pc[v] = "grade"
  /\ \/ done /\ Go(v, "resolve") /\ Fed /\ NoFault
     \/ (done \/ UNCHANGED <<grade, pend>>) /\ Go(v, "over") /\ UNCHANGED counted /\ Fault
  /\ RunFrame /\ UNCHANGED <<crashRow, stage>>

(* markPredictionResolved (its failure is ignored), then the timer is set *)
Resolve(v) ==
  /\ pc[v] = "resolve"
  /\ \/ stage' = "PREDICTION_RESOLVED" /\ NoFault
     \/ UNCHANGED stage /\ Fault
  /\ Go(v, "timer")
  /\ RunFrame /\ UNCHANGED <<pend, crashRow, grade, counted>>

(* FEEDBACK_DEFER_MS later the registry is asked: a prediction that it has *)
(* as made too late is to be skipped.  Any other one is learned, one that  *)
(* it does not have or cannot tell about included.                         *)
TimerFires(v) ==
  /\ pc[v] = "timer"
  /\ Go(v, IF registry = "invalid" THEN "skip" ELSE "start")
  /\ NoFault /\ RunFrame /\ UNCHANGED <<pend, crashRow, stage, grade, counted>>

(* Slip: the skip is logged, not recorded *)
SkipFeedbackSilently(v) ==
  /\ pc[v] = "skip"
  /\ Go(v, "over")
  /\ NoFault /\ RunFrame /\ UNCHANGED <<pend, crashRow, stage, grade, counted>>

SkipFeedback(v) ==
  LET done == grade' = [grade EXCEPT !.skip = @ \/ ~grade.marker] IN
  /\ pc[v] = "skip"
  /\ \/ done /\ NoFault
     \/ (done \/ UNCHANGED grade) /\ Fault
  /\ Go(v, "over")
  /\ RunFrame /\ UNCHANGED <<pend, crashRow, stage, counted>>

Validate(v) == ReadPending(v) \/ Grade(v) \/ Resolve(v) \/ TimerFires(v) \/ SkipFeedback(v)

-----------------------------------------------------------------------------
(* feedback.ts *)

CallFrame == UNCHANGED <<pend, age, crashRow, registry, stuck>>

(* Slip: what has run once is not started again *)
DoneForGood(c) == Go(c, "over")

(* A run calls once; a sweep may be started again by the next timer *)
Done(c) == Go(c, IF c \in Sweep THEN "idle" ELSE "over")

(* Slip: the sweep looks for jobs that were returned *)
SweepSelectsJobs(w) ==
  /\ pc[w] = "idle"
  /\ job = "PENDING" /\ grade.overdue
  /\ Go(w, "start")
  /\ NoFault /\ CallFrame /\ UNCHANGED <<stage, grade, job, memo, history>>

(* sweepStuckFeedback selects the graded row without marker and skip       *)
(* reason, two minutes after its grading.                                  *)
SweepSelects(w) ==
  /\ pc[w] = "idle"
  /\ grade.graded /\ ~grade.marker /\ ~grade.skip /\ grade.overdue
  /\ Go(w, "start")
  /\ NoFault /\ CallFrame /\ UNCHANGED <<stage, grade, job, memo, history>>

(* processedIds answers first *)
Start(c) ==
  /\ pc[c] = "start"
  /\ IF memo THEN Done(c) ELSE Go(c, "claim")
  /\ NoFault /\ CallFrame /\ UNCHANGED <<stage, grade, job, memo, history>>

Owners == {c \in Caller : pc[c] \in {"learn", "complete", "return"}}

(* UPDATE feedback_jobs: PENDING, or PROCESSING for two minutes.  The      *)
(* latter counts as a fault when the owner still works, or was done before *)
(* this caller asked (memo): then one of them took as long as that.        *)
ClaimStale(c) ==
  /\ pc[c] = "claim" /\ job = "PROCESSING"
  /\ Go(c, "learn")
  /\ IF Owners = {} /\ ~memo THEN NoFault /\ UNCHANGED doubts
     ELSE Fault /\ doubts' = doubts + 1
  /\ CallFrame
  /\ UNCHANGED <<stage, grade, job, memo, counted, learned, everLearned, fellBack>>

Claim(c) ==
  /\ pc[c] = "claim"
  /\ \/ job = "PENDING" /\ job' = "PROCESSING" /\ Go(c, "learn") /\ NoFault
     \/ job # "PENDING" /\ UNCHANGED job /\ Go(c, "look") /\ NoFault
     \/ job' \in {job, IF job = "PENDING" THEN "PROCESSING" ELSE job}
          /\ Go(c, "fallback") /\ Fault
  /\ CallFrame /\ UNCHANGED <<stage, grade, memo, history>>

Look(c) ==
  /\ pc[c] = "look"
  /\ \/ Go(c, IF job = "COMPLETED" THEN "repair" ELSE "insert") /\ NoFault
     \/ Go(c, "fallback") /\ Fault
  /\ CallFrame /\ UNCHANGED <<stage, grade, job, memo, history>>

(* A completed job whose marker was lost gets it back *)
Repair(c) ==
  /\ pc[c] = "repair"
  /\ \/ grade' = [grade EXCEPT !.marker = TRUE] /\ memo' = TRUE /\ Done(c) /\ NoFault
     \/ UNCHANGED <<grade, memo>> /\ Go(c, "fallback") /\ Fault
  /\ CallFrame /\ UNCHANGED <<stage, job, history>>

(* Slip: the loser of the insert goes on all the same *)
EnqueueAnyway(c) ==
  /\ pc[c] = "insert"
  /\ \/ job' = (IF job = "NONE" THEN "PROCESSING" ELSE job) /\ Go(c, "learn") /\ NoFault
     \/ job' \in {job, IF job = "NONE" THEN "PROCESSING" ELSE job} /\ Go(c, "fallback") /\ Fault
  /\ CallFrame /\ UNCHANGED <<stage, grade, memo, history>>

(* INSERT ... ON CONFLICT DO NOTHING: the loser leaves it to the owner *)
Enqueue(c) ==
  /\ pc[c] = "insert"
  /\ \/ job = "NONE" /\ job' = "PROCESSING" /\ Go(c, "learn") /\ NoFault
     \/ job # "NONE" /\ UNCHANGED job /\ Done(c) /\ NoFault
     \/ job' \in {job, IF job = "NONE" THEN "PROCESSING" ELSE job} /\ Go(c, "fallback") /\ Fault
  /\ CallFrame /\ UNCHANGED <<stage, grade, memo, history>>

(* When the jobs cannot be asked the marker is the claim, and when that    *)
(* fails too, the memory of the process.                                   *)
Fallback(c) ==
  /\ pc[c] = "fallback"
  /\ \/ /\ ~grade.marker /\ grade' = [grade EXCEPT !.marker = TRUE]
        /\ Go(c, "learn") /\ doubts' = doubts + 1 /\ fellBack' = TRUE
        /\ NoFault /\ UNCHANGED memo
     \/ grade.marker /\ memo' = TRUE /\ Done(c) /\ NoFault /\ UNCHANGED <<grade, doubts, fellBack>>
     \/ /\ grade' \in {grade, [grade EXCEPT !.marker = TRUE]} /\ fellBack' = TRUE
        /\ IF memo THEN Done(c) /\ UNCHANGED doubts
           ELSE Go(c, "learn") /\ doubts' = doubts + 1
        /\ Fault /\ UNCHANGED memo
  /\ CallFrame /\ UNCHANGED <<stage, job, counted, learned, everLearned>>

(* The components of the pipeline, the rolling state among them; when      *)
(* every one of them fails the job is to be returned.                      *)
Learn(c) ==
  /\ pc[c] = "learn"
  /\ \/ /\ Go(c, "complete") /\ learned' = learned + 1 /\ everLearned' = TRUE
        /\ Fed /\ NoFault
     \/ Go(c, "return") /\ UNCHANGED <<counted, learned, everLearned>> /\ Fault
  /\ CallFrame /\ UNCHANGED <<stage, grade, job, memo, doubts, fellBack>>

(* Slip: the marker is left to a second statement that never ran *)
CompletedUnmarked(c, ok) ==
  /\ job' = IF job = "NONE" THEN job ELSE IF ok THEN "COMPLETED" ELSE "PENDING"
  /\ stage' = "FEEDBACK_APPLIED" /\ UNCHANGED grade

(* completeFeedbackJob, one statement whose failure is ignored: job,       *)
(* marker and lifecycle; processedIds gets the id in any case.             *)
Completed(c, ok) ==
  /\ job' = IF job = "NONE" THEN job ELSE IF ok THEN "COMPLETED" ELSE "PENDING"
  /\ grade' = [grade EXCEPT !.marker = @ \/ ok]
  /\ stage' = "FEEDBACK_APPLIED"

Complete(c) ==
  LET done == Completed(c, pc[c] = "complete") IN
  /\ pc[c] \in {"complete", "return"}
  /\ \/ done /\ NoFault
     \/ (done \/ UNCHANGED <<job, grade, stage>>) /\ Fault
  /\ memo' = TRUE /\ Done(c)
  /\ CallFrame /\ UNCHANGED history

Feedback(c) ==
  \/ Start(c) \/ Claim(c) \/ ClaimStale(c) \/ Look(c) \/ Repair(c) \/ Enqueue(c) \/ Fallback(c)
  \/ Learn(c) \/ Complete(c)

-----------------------------------------------------------------------------
(* stuck-recovery.ts *)

StuckFrame == UNCHANGED <<age, crashRow, stage, grade, job, memo, registry, pc, history>>

StuckSelects ==
  /\ stuck.at = "idle" /\ pend = "pending" /\ age # "young"
  /\ stuck' = [NotRead EXCEPT !.at = "rounds"]
  /\ NoFault /\ StuckFrame /\ UNCHANGED pend

(* Two lookups, then the decision; a lookup that fails skips the pass *)
StuckReadsRounds ==
  /\ stuck.at = "rounds"
  /\ \/ stuck' = [at |-> "lifecycle", crashed |-> crashRow] /\ NoFault
     \/ stuck' = NotRead /\ Fault
  /\ StuckFrame /\ UNCHANGED pend

(* Slip: a round that was seen to start is retained before all else *)
HopelessIfNotStarted(crashed) ==
  /\ stage # "STARTED"
  /\ crashed \/ stage = "ENDED" \/ age = "old"

(* Crashed or ended: cancel; started: retain; else cancel when very old *)
Hopeless(crashed) ==
  \/ crashed
  \/ stage = "ENDED"
  \/ stage # "STARTED" /\ age = "old"

StuckReadsLifecycle ==
  /\ stuck.at = "lifecycle"
  /\ \/ stuck' = (IF Hopeless(stuck.crashed) THEN [stuck EXCEPT !.at = "cancel"] ELSE NotRead)
        /\ NoFault
     \/ stuck' = NotRead /\ Fault
  /\ StuckFrame /\ UNCHANGED pend

(* Slip: the row is cancelled whatever its status is by now *)
CancelBlind ==
  /\ stuck.at = "cancel" /\ stuck' = NotRead
  /\ \/ pend' = "cancelled" /\ NoFault
     \/ UNCHANGED pend /\ Fault
  /\ StuckFrame

Cancel ==
  /\ stuck.at = "cancel" /\ stuck' = NotRead
  /\ \/ pend' = (IF pend = "pending" THEN "cancelled" ELSE pend) /\ NoFault
     \/ UNCHANGED pend /\ Fault
  /\ StuckFrame

StuckRecovery == StuckSelects \/ StuckReadsRounds \/ StuckReadsLifecycle \/ Cancel

-----------------------------------------------------------------------------
(* Time and crashes *)

AgeFrame == UNCHANGED <<pend, crashRow, stage, job, memo, registry, pc, stuck, history>>

(* (of a row that has left pending it does not matter) *)
GrowOld ==
  /\ pend = "pending"
  /\ \/ age = "young" /\ age' = "stale"
     \/ age = "stale" /\ age' = "old"
  /\ NoFault /\ AgeFrame /\ UNCHANGED grade

(* Two minutes after the grading the run that graded is through with it    *)
(* (its timer takes four seconds), unless it is that slow.                 *)
BecomeOverdue ==
  /\ grade.graded /\ ~grade.overdue
  /\ grade' = [grade EXCEPT !.overdue = TRUE]
  /\ IF \E v \in Run : pc[v] \in {"resolve", "timer", "skip"} THEN Fault ELSE NoFault
  /\ AgeFrame /\ UNCHANGED age

(* The process restarts with empty memory; what it had begun is gone *)
Crash ==
  /\ Fault
  /\ pc' = [c \in Caller |-> IF c \in Run /\ pc[c] # "idle" THEN "over" ELSE "idle"]
  /\ stuck' = NotRead /\ memo' = FALSE /\ registry' = "gone"
  /\ counted' = FALSE /\ learned' = 0 /\ doubts' = 0
  /\ UNCHANGED <<table, everLearned, fellBack>>

Next ==
  \/ \E v \in Run : Validate(v)
  \/ \E w \in Sweep : SweepSelects(w)
  \/ \E c \in Caller : Feedback(c)
  \/ Register \/ NoteTargetStarted
  \/ StuckRecovery \/ LifecycleWritten \/ GrowOld \/ BecomeOverdue \/ Crash

(* A run that has begun goes on; the sweep and the stuck recovery are on   *)
(* timers; time passes, so a sweep that comes back again and again finds   *)
(* an orphaned job two minutes old.  Nothing makes a crash be reported.    *)
Fairness ==
  /\ \A v \in Run : WF_vars(pc[v] # "idle" /\ Validate(v))
  /\ \A w \in Sweep : WF_vars(SweepSelects(w)) /\ SF_vars(ClaimStale(w))
  /\ \A c \in Caller : WF_vars(Feedback(c))
  /\ WF_vars(StuckRecovery) /\ WF_vars(GrowOld) /\ WF_vars(BecomeOverdue)

Spec == Init /\ [][Next]_vars /\ Fairness

-----------------------------------------------------------------------------
(* Properties *)

ValidatorAt == {"grade", "resolve", "timer", "skip", "over"}
FeedbackAt == {"start", "claim", "look", "repair", "insert", "fallback", "learn", "complete",
               "return"}

(* Every variable keeps its shape; a sweep never takes part in validation  *)
(* and can always be started again.                                        *)
TypeOK ==
  /\ pend \in {"pending", "matched", "cancelled"} /\ age \in {"young", "stale", "old"}
  /\ crashRow \in BOOLEAN
  /\ stage \in {"NONE", "STARTED", "ENDED", "PREDICTION_RESOLVED", "FEEDBACK_APPLIED"}
  /\ grade \in [graded : BOOLEAN, marker : BOOLEAN, skip : BOOLEAN, overdue : BOOLEAN]
  /\ job \in {"NONE", "PENDING", "PROCESSING", "COMPLETED"}
  /\ memo \in BOOLEAN
  /\ registry \in {"awaited", "unverified", "invalid", "gone"}
  /\ pc \in [Caller -> ValidatorAt \cup FeedbackAt \cup {"idle"}]
  /\ \A w \in Sweep : pc[w] \notin ValidatorAt
  /\ stuck \in [at : {"idle", "rounds", "lifecycle", "cancel"}, crashed : BOOLEAN]
  /\ faults \in 0 .. MaxFaults
  /\ counted \in BOOLEAN /\ learned \in Nat /\ doubts \in Nat
  /\ everLearned \in BOOLEAN /\ fellBack \in BOOLEAN

(* A graded prediction is matched for good: a stuck recovery that read the *)
(* row before it was graded does not cancel it any more, and a validator   *)
(* that read it before it was cancelled takes it back.                     *)
GradedIsMatched == grade.graded => pend = "matched"

(* However often a crash is reported, swept and retried, the learning      *)
(* pipeline runs for a prediction once in a process, and so what nothing   *)
(* else feeds (edge window, baseline, calibration, contributions, model    *)
(* performance) is updated once; only a claim that could not be asked (the *)
(* fallback) or an owner slower than its claim can add another run.  It is *)
(* not so for the rolling state, which every report updates as well.       *)
LearnedOnce ==
  learned + Cardinality({c \in Caller : pc[c] = "learn"}) <= 1 + doubts

(* A completed job never lacks its marker (the sweep would find the row    *)
(* for ever), and the marker stands for learning that has happened, or for *)
(* a claim by the fallback, which sets it before.                          *)
JobAndMarkerAgree ==
  /\ job = "COMPLETED" => grade.marker
  /\ grade.marker => everLearned \/ fellBack

(* What the settlement promises, SettlementPromise, is kept however the    *)
(* reports, the sweep, the recovery and the crashes interleave.            *)
Verdict == IF grade.graded THEN "graded"
           ELSE IF pend = "cancelled" THEN "cancelled" ELSE "open"

Promise == INSTANCE SettlementPromise
  WITH verdict <- Verdict, taught <- learned, accounted <- everLearned \/ fellBack,
       marked <- grade.marker

ImplementsSettlement == Promise!Spec

(* While the registry has the prediction as made too late nobody is the    *)
(* first to enter the feedback with it, a fault apart: the timers skip it, *)
(* and the sweep, which does not ask the registry, is kept out by what the *)
(* timers leave behind.  A frame that comes too late for the first timer,  *)
(* or before the prediction is registered, does not help.                  *)
InFeedback == \E c \in Caller : pc[c] \in FeedbackAt

FlaggedStaysOut ==
  [][registry = "invalid" /\ ~InFeedback /\ faults' = 0 => ~InFeedback']_vars

(* The rolling state takes every round that was reported, although a       *)
(* recovery may have cancelled the prediction, or another report graded    *)
(* it, before this one looked; only a failed statement can leave it out.   *)
ReportedIsCounted ==
  faults = 0 /\ (\E v \in Run : pc[v] \notin {"idle", "grade"}) => counted

(* A row whose target has crashed does not stay pending: it is graded or   *)
(* cancelled, even if every validator that read it failed.                 *)
CrashedRowLeaves == (pend = "pending" /\ crashRow) ~> pend # "pending"

(* A graded prediction is learned or skipped in the end, whatever crashed  *)
(* in between, unless this process remembers it as done (memo).            *)
FeedbackSettles == grade.graded ~> (grade.marker \/ grade.skip \/ memo)

=============================================================================
