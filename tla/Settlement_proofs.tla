--------------------------- MODULE Settlement_proofs ---------------------------
(***************************************************************************)
(* Theorems about the settlement of one prediction for every finite set of *)
(* reports and of overlapping sweeps, and any number of faults.            *)
(***************************************************************************)
EXTENDS Settlement, FiniteSetTheorems, TLAPS

-----------------------------------------------------------------------------
(* Type correctness *)

LEMMA FaultCounts ==
  ASSUME TypeOK, Fault \/ NoFault
  PROVE  faults' \in 0 .. MaxFaults /\ (Fault => faults' > 0) /\ (faults' = 0 => faults = 0)
  BY SettlementAssumption DEF TypeOK, Fault, NoFault

(* The pc of a caller may only move to where its kind can be *)
LEMMA GoKeepsTypes ==
  ASSUME TypeOK, NEW c \in Caller, NEW to, Go(c, to),
         to \in FeedbackAt \cup {"idle"} \/ (c \in Run /\ to \in ValidatorAt)
  PROVE  /\ pc' \in [Caller -> ValidatorAt \cup FeedbackAt \cup {"idle"}]
         /\ \A w \in Sweep : pc'[w] \notin ValidatorAt
         /\ pc'[c] = to /\ \A d \in Caller \ {c} : pc'[d] = pc[d]
  <1>1. pc' \in [Caller -> ValidatorAt \cup FeedbackAt \cup {"idle"}]
    BY DEF TypeOK, Go
  <1>2. pc'[c] = to /\ \A d \in Caller \ {c} : pc'[d] = pc[d]
    BY DEF TypeOK, Go
  <1>3. \A x \in FeedbackAt \cup {"idle"} : x \notin ValidatorAt
    BY DEF FeedbackAt, ValidatorAt
  <1>4. \A w \in Sweep : w \in Caller /\ w \notin Run
    BY SettlementAssumption DEF Caller
  <1>5. \A w \in Sweep : pc'[w] \notin ValidatorAt
    BY <1>2, <1>3, <1>4 DEF TypeOK
  <1> QED
    BY <1>1, <1>2, <1>5

LEMMA DoneKeepsTypes ==
  ASSUME TypeOK, NEW c \in Caller, Done(c)
  PROVE  /\ pc' \in [Caller -> ValidatorAt \cup FeedbackAt \cup {"idle"}]
         /\ \A w \in Sweep : pc'[w] \notin ValidatorAt
         /\ pc'[c] \in {"idle", "over"} /\ \A d \in Caller \ {c} : pc'[d] = pc[d]
  <1>1. CASE c \in Sweep
    BY <1>1, GoKeepsTypes DEF Done
  <1>2. CASE c \notin Sweep
    <2>1. c \in Run /\ "over" \in ValidatorAt
      BY <1>2 DEF Caller, ValidatorAt
    <2>2. Go(c, "over")
      BY <1>2 DEF Done
    <2> QED
      BY <2>1, <2>2, GoKeepsTypes
  <1> QED
    BY <1>1, <1>2

(* What every step does to the pc: one caller moves, or a crash stops all *)
PcTypes ==
  /\ pc \in [Caller -> ValidatorAt \cup FeedbackAt \cup {"idle"}]
  /\ \A w \in Sweep : pc[w] \notin ValidatorAt

LEMMA ValidateTypes ==
  ASSUME TypeOK, NEW v \in Run, Validate(v)
  PROVE  TypeOK'
  <1>1. v \in Caller /\ faults' \in 0 .. MaxFaults
    BY FaultCounts DEF Caller, Validate, ReadPending, Grade, Resolve, TimerFires, SkipFeedback
  <1>2. {"grade", "resolve", "timer", "skip", "over"} = ValidatorAt /\ "start" \in FeedbackAt
    BY DEF ValidatorAt, FeedbackAt
  <1>3. PcTypes'
    <2>1. \E to \in ValidatorAt \cup {"start"} : Go(v, to)
      BY <1>2 DEF Validate, ReadPending, Grade, Resolve, TimerFires, SkipFeedback
    <2> QED
      BY <1>1, <1>2, <2>1, GoKeepsTypes DEF PcTypes
  <1>4. /\ pend' \in {"pending", "matched", "cancelled"} /\ crashRow' \in BOOLEAN
        /\ stage' \in {"NONE", "STARTED", "ENDED", "PREDICTION_RESOLVED", "FEEDBACK_APPLIED"}
        /\ grade' \in [graded : BOOLEAN, marker : BOOLEAN, skip : BOOLEAN, overdue : BOOLEAN]
    BY DEF TypeOK, Validate, ReadPending, Grade, Resolve, TimerFires, SkipFeedback
  <1>5. UNCHANGED <<age, job, memo, registry, stuck, teaching>> /\ counted' \in BOOLEAN
    BY DEF TypeOK, Validate, ReadPending, Grade, Resolve, TimerFires, SkipFeedback, RunFrame,
           Fed, FedOnEntry
  <1> QED
    BY <1>1, <1>3, <1>4, <1>5 DEF TypeOK, PcTypes, teaching

LEMMA FeedbackTypes ==
  ASSUME TypeOK, NEW c \in Caller, Feedback(c)
  PROVE  TypeOK'
  <1>1. faults' \in 0 .. MaxFaults
    BY FaultCounts DEF Feedback, Start, Claim, ClaimStale, Look, Repair, Enqueue, Fallback,
                       Learn, Complete
  <1>2. PcTypes'
    <2>1. Done(c) \/ \E to \in FeedbackAt : Go(c, to)
      BY DEF Feedback, FeedbackAt, Start, Claim, ClaimStale, Look, Repair, Enqueue, Fallback,
             Learn, Complete
    <2> QED
      BY <2>1, GoKeepsTypes, DoneKeepsTypes DEF PcTypes
  <1>3. stage' \in {"NONE", "STARTED", "ENDED", "PREDICTION_RESOLVED", "FEEDBACK_APPLIED"}
    BY DEF TypeOK, Feedback, Start, Claim, ClaimStale, Look, Repair, Enqueue, Fallback, Learn,
           Complete, Completed
  <1>4. job' \in {"NONE", "PENDING", "PROCESSING", "COMPLETED"}
    BY DEF TypeOK, Feedback, Start, Claim, ClaimStale, Look, Repair, Enqueue, Fallback, Learn,
           Complete, Completed
  <1>7. memo' \in BOOLEAN
    BY DEF TypeOK, Feedback, Start, Claim, ClaimStale, Look, Repair, Enqueue, Fallback, Learn,
           Complete
  <1>8. learned' \in Nat /\ doubts' \in Nat
    BY DEF TypeOK, Feedback, Start, Claim, ClaimStale, Look, Repair, Enqueue, Fallback, Learn,
           Complete, history, teaching
  <1>9. everLearned' \in BOOLEAN /\ fellBack' \in BOOLEAN /\ counted' \in BOOLEAN
    BY DEF TypeOK, Feedback, Start, Claim, ClaimStale, Look, Repair, Enqueue, Fallback, Learn,
           Complete, history, teaching, Fed
  <1>5. grade' \in [graded : BOOLEAN, marker : BOOLEAN, skip : BOOLEAN, overdue : BOOLEAN]
    BY DEF TypeOK, Feedback, Start, Claim, ClaimStale, Look, Repair, Enqueue, Fallback, Learn,
           Complete, Completed
  <1>6. UNCHANGED <<pend, age, crashRow, registry, stuck>>
    BY DEF Feedback, Start, Claim, ClaimStale, Look, Repair, Enqueue, Fallback, Learn, Complete,
           CallFrame
  <1> QED
    BY <1>1, <1>2, <1>3, <1>4, <1>5, <1>6, <1>7, <1>8, <1>9 DEF TypeOK, PcTypes

LEMMA OtherTypes ==
  ASSUME TypeOK,
         \/ \E w \in Sweep : SweepSelects(w)
         \/ Register \/ NoteTargetStarted
         \/ StuckRecovery \/ LifecycleWritten \/ GrowOld \/ BecomeOverdue \/ Crash
  PROVE  TypeOK'
  <1>1. ASSUME NEW w \in Sweep, SweepSelects(w)
        PROVE  TypeOK'
    <2>1. PcTypes'
      BY <1>1, GoKeepsTypes DEF SweepSelects, Caller, FeedbackAt, PcTypes
    <2> QED
      BY <1>1, <2>1 DEF SweepSelects, CallFrame, NoFault, history, teaching, TypeOK, PcTypes
  <1>2. CASE StuckRecovery
    <2>1. faults' \in 0 .. MaxFaults
      BY <1>2, FaultCounts
         DEF StuckRecovery, StuckSelects, StuckReadsRounds, StuckReadsLifecycle, Cancel
    <2>2. pend' \in {"pending", "matched", "cancelled"}
      BY <1>2 DEF StuckRecovery, StuckSelects, StuckReadsRounds, StuckReadsLifecycle, Cancel,
                  TypeOK
    <2>4. stuck' \in [at : {"idle", "rounds", "lifecycle", "cancel"}, crashed : BOOLEAN]
      <3>1. NotRead \in [at : {"idle", "rounds", "lifecycle", "cancel"}, crashed : BOOLEAN]
            /\ [NotRead EXCEPT !.at = "rounds"] \in [at : {"idle", "rounds", "lifecycle", "cancel"},
                                                     crashed : BOOLEAN]
        BY DEF NotRead
      <3>2. CASE StuckSelects
        BY <3>1, <3>2 DEF StuckSelects
      <3>3. CASE StuckReadsRounds
        BY <3>1, <3>3 DEF StuckReadsRounds, TypeOK
      <3>4. CASE StuckReadsLifecycle
        BY <3>1, <3>4 DEF StuckReadsLifecycle, TypeOK
      <3>5. CASE Cancel
        BY <3>1, <3>5 DEF Cancel
      <3> QED
        BY <1>2, <3>2, <3>3, <3>4, <3>5 DEF StuckRecovery
    <2>3. UNCHANGED <<age, crashRow, stage, grade, job, memo, registry, pc, history>>
      BY <1>2 DEF StuckRecovery, StuckSelects, StuckReadsRounds, StuckReadsLifecycle, Cancel,
                  StuckFrame
    <2> QED
      BY <2>1, <2>2, <2>3, <2>4 DEF TypeOK, history, teaching
  <1>3. CASE LifecycleWritten
    <2>1. stage' \in {"NONE", "STARTED", "ENDED", "PREDICTION_RESOLVED", "FEEDBACK_APPLIED"}
          /\ crashRow' \in BOOLEAN
      BY <1>3 DEF LifecycleWritten, Started, FromHistory, TypeOK
    <2>2. UNCHANGED <<faults, pend, age, grade, job, memo, registry, pc, stuck, history>>
      BY <1>3 DEF LifecycleWritten, NoFault
    <2> QED
      BY <2>1, <2>2 DEF TypeOK, history, teaching
  <1>4. CASE GrowOld
    <2>1. /\ age' \in {"young", "stale", "old"}
          /\ UNCHANGED <<faults, pend, crashRow, stage, job, memo, registry, pc, stuck, history, grade>>
      BY <1>4 DEF GrowOld, AgeFrame, NoFault
    <2> QED
      BY <2>1 DEF history, teaching, TypeOK
  <1>5. CASE BecomeOverdue
    <2>1. faults' \in 0 .. MaxFaults
      BY <1>5, FaultCounts DEF BecomeOverdue
    <2>2. grade' \in [graded : BOOLEAN, marker : BOOLEAN, skip : BOOLEAN, overdue : BOOLEAN]
      BY <1>5 DEF BecomeOverdue, TypeOK
    <2>3. UNCHANGED <<pend, age, crashRow, stage, job, memo, registry, pc, stuck, history>>
      BY <1>5 DEF BecomeOverdue, AgeFrame
    <2> QED
      BY <2>1, <2>2, <2>3 DEF history, teaching, TypeOK
  <1>6. CASE Crash
    <2>1. faults' \in 0 .. MaxFaults
      BY <1>6, FaultCounts DEF Crash
    <2>2. PcTypes'
      BY <1>6, SettlementAssumption DEF Crash, PcTypes, ValidatorAt, FeedbackAt, Caller
    <2>3. stuck' \in [at : {"idle", "rounds", "lifecycle", "cancel"}, crashed : BOOLEAN]
      BY <1>6 DEF Crash, NotRead
    <2>4. /\ memo' \in BOOLEAN /\ registry' = "gone" /\ counted' \in BOOLEAN
          /\ learned' \in Nat /\ doubts' \in Nat
          /\ UNCHANGED <<pend, age, crashRow, stage, grade, job, everLearned, fellBack>>
      BY <1>6 DEF Crash, table
    <2> QED
      BY <2>1, <2>2, <2>3, <2>4 DEF TypeOK, PcTypes
  <1>7. CASE Register \/ NoteTargetStarted
    <2>1. /\ registry' \in {"awaited", "unverified", "invalid", "gone"}
          /\ UNCHANGED <<faults, table, memo, pc, stuck, history>>
      BY <1>7 DEF Register, NoteTargetStarted, RegistryFrame, NoFault
    <2> QED
      BY <2>1 DEF table, history, teaching, TypeOK
  <1> QED
    BY <1>1, <1>2, <1>3, <1>4, <1>5, <1>6, <1>7

LEMMA TypesStep == TypeOK /\ [Next]_vars => TypeOK'
  <1>1. TypeOK /\ UNCHANGED vars => TypeOK'
    BY DEF TypeOK, vars, table, history, teaching
  <1> QED
    BY <1>1, ValidateTypes, FeedbackTypes, OtherTypes DEF Next

(* Type correctness of the rows, of every caller and of the bounds *)
THEOREM SettlementTypes == Spec => []TypeOK
  <1>1. Init => TypeOK
    <2> SUFFICES ASSUME Init PROVE TypeOK
      OBVIOUS
    <2>1. PcTypes
      BY SettlementAssumption DEF Init, PcTypes, ValidatorAt, Caller
    <2>2. /\ grade \in [graded : BOOLEAN, marker : BOOLEAN, skip : BOOLEAN, overdue : BOOLEAN]
          /\ stuck \in [at : {"idle", "rounds", "lifecycle", "cancel"}, crashed : BOOLEAN]
      BY DEF Init, NotRead
    <2>3. /\ memo \in BOOLEAN /\ registry = "awaited" /\ counted \in BOOLEAN
          /\ everLearned \in BOOLEAN /\ fellBack \in BOOLEAN /\ crashRow \in BOOLEAN
      BY DEF Init
    <2> QED
      BY <2>1, <2>2, <2>3, SettlementAssumption DEF Init, TypeOK, PcTypes
  <1> QED
    BY <1>1, TypesStep, PTL DEF Spec

-----------------------------------------------------------------------------
(* Grading, the marker and the job *)

(* What feedback does to the row of the grading: at most set its marker *)
LEMMA FeedbackGrade ==
  ASSUME TypeOK, NEW c \in Caller, Feedback(c)
  PROVE  /\ grade'.graded = grade.graded /\ grade'.skip = grade.skip
         /\ grade'.overdue = grade.overdue /\ (grade.marker => grade'.marker)
         /\ pend' = pend /\ stuck' = stuck
         /\ (everLearned => everLearned') /\ (fellBack => fellBack')
  <1>1. /\ grade'.graded = grade.graded /\ grade'.skip = grade.skip
        /\ grade'.overdue = grade.overdue /\ (grade.marker => grade'.marker)
    BY DEF TypeOK, Feedback, Start, Claim, ClaimStale, Look, Repair, Enqueue, Fallback, Learn,
           Complete, Completed
  <1>2. pend' = pend /\ stuck' = stuck
    BY DEF Feedback, Start, Claim, ClaimStale, Look, Repair, Enqueue, Fallback, Learn, Complete,
           CallFrame
  <1>3. (everLearned => everLearned') /\ (fellBack => fellBack')
    BY DEF Feedback, Start, Claim, ClaimStale, Look, Repair, Enqueue, Fallback, Learn, Complete,
           history, teaching
  <1> QED
    BY <1>1, <1>2, <1>3

(* A graded prediction is matched: the grading matches the row whatever    *)
(* has become of it, and the recovery only cancels a row that is pending   *)
(* when its update comes.                                                  *)
LEMMA GradedStep ==
  ASSUME TypeOK, GradedIsMatched, [Next]_vars
  PROVE  GradedIsMatched'
  <1>1. ASSUME NEW v \in Run, Validate(v)
        PROVE  GradedIsMatched'
    BY <1>1 DEF Validate, ReadPending, Grade, Resolve, TimerFires, SkipFeedback, GradedIsMatched,
                TypeOK
  <1>2. ASSUME NEW c \in Caller, Feedback(c)
        PROVE  GradedIsMatched'
    BY <1>2, FeedbackGrade DEF GradedIsMatched
  <1>3. CASE StuckRecovery
    BY <1>3 DEF StuckRecovery, StuckSelects, StuckReadsRounds, StuckReadsLifecycle, Cancel,
                StuckFrame, GradedIsMatched
  <1>4. CASE BecomeOverdue
    BY <1>4 DEF BecomeOverdue, AgeFrame, GradedIsMatched
  <1>5. CASE \/ \E w \in Sweep : SweepSelects(w)
             \/ Register \/ NoteTargetStarted
             \/ LifecycleWritten \/ GrowOld \/ Crash \/ UNCHANGED vars
    <2>1. UNCHANGED <<pend, grade>>
      BY <1>5 DEF SweepSelects, CallFrame, Register, NoteTargetStarted, RegistryFrame,
                  LifecycleWritten, GrowOld, AgeFrame, Crash, table, vars
    <2> QED
      BY <2>1 DEF GradedIsMatched
  <1> QED
    BY <1>1, <1>2, <1>3, <1>4, <1>5 DEF Next

(* A graded prediction is matched for good *)
THEOREM GradedStaysMatched == Spec => []GradedIsMatched
  <1>1. Init => GradedIsMatched
    BY DEF Init, GradedIsMatched
  <1>2. TypeOK /\ GradedIsMatched /\ [Next]_vars => GradedIsMatched'
    BY GradedStep
  <1> QED
    BY <1>1, <1>2, SettlementTypes, PTL DEF Spec

(* A caller that is about to complete has learned, and one that repairs    *)
(* the marker has seen a completed job.                                    *)
Earned ==
  /\ \A c \in Caller : pc[c] = "complete" => everLearned
  /\ \A c \in Caller : pc[c] = "repair" => everLearned \/ fellBack

LEMMA EarnedStep ==
  ASSUME TypeOK, JobAndMarkerAgree, Earned, [Next]_vars
  PROVE  JobAndMarkerAgree' /\ Earned'
  <1>1. ASSUME NEW v \in Run, Validate(v)
        PROVE  JobAndMarkerAgree' /\ Earned'
    <2>1. UNCHANGED <<job, everLearned, fellBack>> /\ grade'.marker = grade.marker
      BY <1>1 DEF Validate, ReadPending, Grade, Resolve, TimerFires, SkipFeedback, RunFrame,
                  teaching, TypeOK
    <2>2. \A c \in Caller : pc'[c] \in {"complete", "repair"} => pc'[c] = pc[c]
      BY <1>1 DEF Validate, ReadPending, Grade, Resolve, TimerFires, SkipFeedback, Go, Caller,
                  TypeOK
    <2> QED
      BY <2>1, <2>2 DEF JobAndMarkerAgree, Earned
  <1>2. ASSUME NEW c \in Caller, Feedback(c)
        PROVE  JobAndMarkerAgree' /\ Earned'
    <2>1. \A d \in Caller \ {c} : pc'[d] = pc[d]
      BY <1>2, GoKeepsTypes, DoneKeepsTypes
         DEF Feedback, FeedbackAt, Start, Claim, ClaimStale, Look, Repair, Enqueue, Fallback,
             Learn, Complete
    <2>2. pc'[c] = "complete" => everLearned'
      BY <1>2, GoKeepsTypes, DoneKeepsTypes
         DEF Feedback, FeedbackAt, Start, Claim, ClaimStale, Look, Repair, Enqueue, Fallback,
             Learn, Complete
    <2>3. pc'[c] = "repair" => job = "COMPLETED"
      BY <1>2, GoKeepsTypes, DoneKeepsTypes
         DEF Feedback, FeedbackAt, Start, Claim, ClaimStale, Look, Repair, Enqueue, Fallback,
             Learn, Complete
    <2>4. Earned'
      BY <2>1, <2>2, <2>3, <1>2, FeedbackGrade DEF Earned, JobAndMarkerAgree
    <2>5. job' = "COMPLETED" => grade'.marker
      <3>1. CASE Complete(c)
        BY <3>1 DEF Complete, Completed, JobAndMarkerAgree, TypeOK
      <3>2. CASE ~Complete(c)
        <4>1. job' = "COMPLETED" => job = "COMPLETED"
          BY <1>2, <3>2 DEF Feedback, Start, Claim, ClaimStale, Look, Repair, Enqueue, Fallback, Learn
        <4> QED
          BY <1>2, <4>1, FeedbackGrade DEF JobAndMarkerAgree
      <3> QED
        BY <3>1, <3>2
    <2>6. grade'.marker => grade.marker \/ pc[c] = "repair" \/ fellBack' \/ pc[c] = "complete"
      BY <1>2 DEF Feedback, Start, Claim, ClaimStale, Look, Repair, Enqueue, Fallback, Learn,
                  Complete, Completed, TypeOK
    <2>7. grade'.marker => everLearned' \/ fellBack'
      BY <1>2, <2>6, FeedbackGrade DEF JobAndMarkerAgree, Earned
    <2> QED
      BY <2>4, <2>5, <2>7 DEF JobAndMarkerAgree
  <1>3. CASE \/ \E w \in Sweep : SweepSelects(w)
             \/ Register \/ NoteTargetStarted
             \/ StuckRecovery \/ LifecycleWritten \/ GrowOld \/ BecomeOverdue \/ Crash
             \/ UNCHANGED vars
    <2>1. UNCHANGED <<job, everLearned, fellBack>> /\ grade'.marker = grade.marker
      BY <1>3 DEF SweepSelects, CallFrame, StuckRecovery, StuckSelects, StuckReadsRounds,
                  StuckReadsLifecycle, Cancel, StuckFrame, LifecycleWritten, GrowOld, BecomeOverdue,
                  AgeFrame, Crash, Register, NoteTargetStarted, RegistryFrame, table, vars, history,
                  teaching, TypeOK
    <2>2. \A c \in Caller : pc'[c] \in {"complete", "repair"} => pc'[c] = pc[c]
      BY <1>3 DEF SweepSelects, StuckRecovery, StuckSelects, StuckReadsRounds,
                  StuckReadsLifecycle, Cancel, StuckFrame, LifecycleWritten, GrowOld, BecomeOverdue,
                  AgeFrame, Crash, Register, NoteTargetStarted, RegistryFrame, vars, Go, Caller, TypeOK
    <2> QED
      BY <2>1, <2>2 DEF JobAndMarkerAgree, Earned
  <1> QED
    BY <1>1, <1>2, <1>3 DEF Next

(* A completed job has its marker, and the marker stands for learning that *)
(* has happened or for a claim by the fallback.                            *)
THEOREM JobAndMarkerKeepAgreeing == Spec => []JobAndMarkerAgree
  <1>1. Init => JobAndMarkerAgree /\ Earned
    BY DEF Init, JobAndMarkerAgree, Earned
  <1>2. TypeOK /\ JobAndMarkerAgree /\ Earned /\ [Next]_vars => (JobAndMarkerAgree /\ Earned)'
    BY EarnedStep
  <1> QED
    BY <1>1, <1>2, SettlementTypes, PTL DEF Spec

-----------------------------------------------------------------------------
(* What does not happen without a fault *)

Waiting == {"resolve", "timer", "skip"}

(* As long as nothing has gone wrong nobody has to fall back or to return  *)
(* a job, a claimed job has an owner at work, and what is done is marked.  *)
Orderly ==
  /\ \A c \in Caller : pc[c] \notin {"fallback", "return"}
  /\ job # "PENDING"
  /\ job = "PROCESSING" => \E c \in Caller : pc[c] \in {"learn", "complete"}
  /\ memo => grade.marker

(* And a graded prediction is marked, skipped, at feedback or on its way   *)
(* there; the two minutes of the sweep do not pass before.                 *)
Attended ==
  /\ grade.graded => \/ grade.marker \/ grade.skip \/ InFeedback
                     \/ \E v \in Run : pc[v] \in Waiting
  /\ grade.overdue => grade.marker \/ grade.skip \/ InFeedback

Quiet == faults = 0 => Orderly /\ Attended

LEMMA QuietFaults ==
  ASSUME TypeOK, [Next]_vars, faults' = 0
  PROVE  ~Fault /\ faults = 0
  <1>1. ~Fault
    BY DEF Fault, TypeOK
  <1> QED
    BY <1>1 DEF Next, Register, NoteTargetStarted, RegistryFrame, Validate, ReadPending, Grade,
                Resolve, TimerFires, SkipFeedback, SweepSelects, Feedback, Start, Claim,
                ClaimStale, Look, Repair, Enqueue, Fallback, Learn, Complete, StuckRecovery,
                StuckSelects, StuckReadsRounds, StuckReadsLifecycle, Cancel, LifecycleWritten,
                GrowOld, BecomeOverdue, Crash, vars, NoFault

(* A report goes its way: what it grades it also carries on or skips *)
LEMMA QuietValidate ==
  ASSUME TypeOK, Orderly, Attended, ~Fault, NEW v \in Run, Validate(v)
  PROVE  Orderly' /\ Attended'
  <1>1. v \in Caller /\ UNCHANGED <<job, memo>> /\ grade'.marker = grade.marker
    BY DEF Caller, Validate, ReadPending, Grade, Resolve, TimerFires, SkipFeedback, RunFrame, TypeOK
  <1>2. \A c \in Caller \ {v} : pc'[c] = pc[c]
    BY DEF Validate, ReadPending, Grade, Resolve, TimerFires, SkipFeedback, Go, TypeOK
  <1>3. /\ pc[v] \in {"idle", "grade", "resolve", "timer", "skip"}
        /\ pc'[v] \in {"grade", "resolve", "timer", "skip", "over", "start"}
    BY <1>1 DEF Validate, ReadPending, Grade, Resolve, TimerFires, SkipFeedback, Go, TypeOK
  <1>4. Orderly'
    BY <1>1, <1>2, <1>3 DEF Orderly
  <1>5. InFeedback => InFeedback'
    BY <1>1, <1>2, <1>3 DEF InFeedback, FeedbackAt
  <1>6. CASE ReadPending(v)
    <2>1. pc[v] = "idle" /\ grade' = grade
      BY <1>6 DEF ReadPending
    <2>2. \A r \in Run : pc[r] \in Waiting => pc'[r] \in Waiting
      BY <1>2, <2>1 DEF Caller, Waiting
    <2> QED
      BY <1>4, <1>5, <2>1, <2>2 DEF Attended
  <1>7. CASE Grade(v) \/ Resolve(v)
    <2>1. /\ pc'[v] \in {"resolve", "timer"}
          /\ grade'.overdue = grade.overdue /\ grade'.skip = grade.skip
      BY <1>1, <1>7 DEF Grade, Resolve, Go, TypeOK
    <2> QED
      BY <1>1, <1>4, <1>5, <2>1 DEF Attended, Waiting
  <1>8. CASE TimerFires(v)
    <2>1. pc'[v] \in {"skip", "start"} /\ grade' = grade
      BY <1>1, <1>8 DEF TimerFires, Go, TypeOK
    <2>2. pc'[v] \in Waiting \/ InFeedback'
      BY <1>1, <2>1 DEF Waiting, InFeedback, FeedbackAt
    <2> QED
      BY <1>4, <1>5, <2>1, <2>2 DEF Attended
  <1>9. CASE SkipFeedback(v)
    <2>1. grade'.skip \/ grade'.marker
      BY <1>9 DEF SkipFeedback, TypeOK
    <2> QED
      BY <1>4, <2>1 DEF Attended
  <1> QED
    BY <1>6, <1>7, <1>8, <1>9 DEF Validate

(* Who leaves the feedback leaves the marker, or somebody else at work     *)
LEMMA QuietFeedback ==
  ASSUME TypeOK, JobAndMarkerAgree, Orderly, Attended, ~Fault, NEW c \in Caller, Feedback(c)
  PROVE  Orderly' /\ Attended'
  <1>1. \A d \in Caller \ {c} : pc'[d] = pc[d]
    BY GoKeepsTypes, DoneKeepsTypes
       DEF Feedback, FeedbackAt, Start, Claim, ClaimStale, Look, Repair, Enqueue, Fallback,
           Learn, Complete
  <1>2. pc[c] \in FeedbackAt \ {"fallback", "return"}
    BY DEF Orderly, Feedback, FeedbackAt, Start, Claim, ClaimStale, Look, Repair, Enqueue,
           Fallback, Learn, Complete
  <1>3. /\ grade'.skip = grade.skip /\ grade'.graded = grade.graded
        /\ grade'.overdue = grade.overdue /\ (grade.marker => grade'.marker)
    BY FeedbackGrade
  <1>4. pc'[c] \in {"claim", "look", "repair", "insert", "learn", "complete"}
        \/ (pc'[c] \in {"idle", "over"} /\ Done(c))
    BY <1>2, GoKeepsTypes, DoneKeepsTypes
       DEF Feedback, FeedbackAt, Start, Claim, ClaimStale, Look, Repair, Enqueue, Fallback,
           Learn, Complete
  <1>5. Orderly'
    <2>1. \A d \in Caller : pc'[d] \notin {"fallback", "return"}
      BY <1>1, <1>4 DEF Orderly
    <2>2. CASE Start(c) \/ Look(c)
      <3>1. UNCHANGED <<job, memo, grade>> /\ pc[c] \in {"start", "look"}
        BY <2>2 DEF Start, Look
      <3> QED
        BY <1>1, <2>1, <3>1 DEF Orderly
    <2>3. CASE Repair(c)
      <3>1. UNCHANGED job /\ grade'.marker /\ pc[c] = "repair"
        BY <2>3 DEF Repair, TypeOK
      <3> QED
        BY <1>1, <2>1, <3>1 DEF Orderly
    <2>4. CASE Claim(c)
      <3>1. UNCHANGED <<job, memo, grade>> /\ pc[c] = "claim"
        BY <2>4 DEF Claim, Orderly
      <3> QED
        BY <1>1, <2>1, <3>1 DEF Orderly
    <2>5. CASE ClaimStale(c)
      <3>1. UNCHANGED <<job, memo, grade>> /\ pc[c] = "claim"
        BY <2>5 DEF ClaimStale
      <3> QED
        BY <1>1, <2>1, <3>1 DEF Orderly
    <2>6. CASE Enqueue(c)
      <3>1. /\ UNCHANGED <<memo, grade>> /\ pc[c] = "insert"
            /\ (job' = "PROCESSING" /\ pc'[c] = "learn") \/ job' = job
        BY <2>6, GoKeepsTypes DEF Enqueue, FeedbackAt
      <3> QED
        BY <1>1, <2>1, <3>1 DEF Orderly
    <2>7. CASE Learn(c)
      <3>1. UNCHANGED <<job, memo, grade>> /\ pc'[c] = "complete"
        BY <2>7, GoKeepsTypes DEF Learn, FeedbackAt
      <3> QED
        BY <1>1, <2>1, <3>1 DEF Orderly
    <2>8. CASE Complete(c)
      <3>1. grade'.marker /\ job' \in {"NONE", "COMPLETED"}
        BY <1>2, <2>8 DEF Complete, Completed, TypeOK
      <3> QED
        BY <2>1, <3>1 DEF Orderly
    <2> QED
      BY <1>2, <2>2, <2>3, <2>4, <2>5, <2>6, <2>7, <2>8 DEF Feedback, Fallback
  <1>6. grade'.marker \/ InFeedback'
    <2>1. CASE pc'[c] \in {"claim", "look", "repair", "insert", "learn", "complete"}
      BY <2>1 DEF InFeedback, FeedbackAt
    <2>2. CASE pc'[c] \in {"idle", "over"}
      <3>1. Start(c) \/ Repair(c) \/ Enqueue(c) \/ Complete(c)
        BY <1>2, <2>2, GoKeepsTypes
           DEF Feedback, FeedbackAt, Start, Claim, ClaimStale, Look, Repair, Enqueue, Fallback,
               Learn, Complete
      <3>2. CASE Start(c)
        <4>1. memo /\ grade' = grade
          BY <2>2, <3>2, GoKeepsTypes DEF Start, FeedbackAt
        <4> QED
          BY <4>1 DEF Orderly
      <3>3. CASE Repair(c)
        BY <3>3 DEF Repair, TypeOK
      <3>4. CASE Enqueue(c)
        <4>1. pc[c] = "insert" /\ job # "NONE" /\ grade' = grade
          BY <2>2, <3>4, GoKeepsTypes DEF Enqueue, FeedbackAt
        <4>2. CASE job = "COMPLETED"
          BY <4>1, <4>2 DEF JobAndMarkerAgree
        <4>3. CASE job = "PROCESSING"
          <5>1. PICK d \in Caller : pc[d] \in {"learn", "complete"}
            BY <4>3 DEF Orderly
          <5>2. pc'[d] \in FeedbackAt
            BY <1>1, <4>1, <5>1 DEF FeedbackAt
          <5> QED
            BY <5>2 DEF InFeedback
        <4> QED
          BY <4>1, <4>2, <4>3 DEF Orderly, TypeOK
      <3>5. CASE Complete(c)
        BY <1>2, <3>5 DEF Complete, Completed, TypeOK
      <3> QED
        BY <3>1, <3>2, <3>3, <3>4, <3>5
    <2> QED
      BY <1>4, <2>1, <2>2
  <1> QED
    BY <1>5, <1>6 DEF Attended

(* The sweep finds nothing that another caller is not at work on *)
LEMMA QuietSelects ==
  ASSUME TypeOK, Attended, NEW w \in Sweep, SweepSelects(w)
  PROVE  InFeedback /\ InFeedback'
  <1>1. InFeedback
    BY DEF SweepSelects, Attended
  <1>2. w \in Caller /\ pc'[w] = "start"
    BY DEF SweepSelects, Go, Caller, TypeOK
  <1> QED
    BY <1>1, <1>2 DEF InFeedback, FeedbackAt

LEMMA QuietStep ==
  ASSUME TypeOK, JobAndMarkerAgree, Quiet, [Next]_vars
  PROVE  Quiet'
  <1> SUFFICES ASSUME faults' = 0 PROVE Orderly' /\ Attended'
    BY DEF Quiet
  <1>1. ~Fault /\ faults = 0 /\ Orderly /\ Attended
    BY QuietFaults DEF Quiet
  <1>2. ASSUME NEW w \in Sweep, SweepSelects(w)
        PROVE  Orderly' /\ Attended'
    <2>1. /\ w \in Caller /\ pc[w] = "idle" /\ pc'[w] = "start" /\ UNCHANGED <<job, memo, grade>>
          /\ \A c \in Caller \ {w} : pc'[c] = pc[c]
      BY <1>2 DEF SweepSelects, Go, Caller, TypeOK
    <2>2. Orderly'
      BY <1>1, <2>1 DEF Orderly
    <2>3. InFeedback'
      BY <1>1, <1>2, QuietSelects
    <2> QED
      BY <2>2, <2>3 DEF Attended
  <1>3. CASE BecomeOverdue
    <2>1. /\ UNCHANGED <<job, memo, pc>> /\ grade.graded /\ grade'.graded
          /\ grade'.marker = grade.marker /\ grade'.skip = grade.skip
      BY <1>3 DEF BecomeOverdue, AgeFrame, TypeOK
    <2>2. ~\E v \in Run : pc[v] \in Waiting
      BY <1>1, <1>3 DEF BecomeOverdue, Waiting
    <2>3. InFeedback' = InFeedback
      BY <2>1 DEF InFeedback
    <2> QED
      BY <1>1, <2>1, <2>2, <2>3 DEF Orderly, Attended
  <1>4. CASE \/ Register \/ NoteTargetStarted
             \/ StuckRecovery \/ LifecycleWritten \/ GrowOld \/ UNCHANGED vars
    <2>1. UNCHANGED <<job, memo, pc, grade>>
      BY <1>4 DEF Register, NoteTargetStarted, RegistryFrame, StuckRecovery, StuckSelects,
                  StuckReadsRounds, StuckReadsLifecycle, Cancel, StuckFrame, LifecycleWritten,
                  GrowOld, AgeFrame, vars, table
    <2> QED
      BY <1>1, <2>1 DEF Orderly, Attended, InFeedback
  <1>5. ~Crash
    BY <1>1 DEF Crash
  <1> QED
    BY <1>1, <1>2, <1>3, <1>4, <1>5, QuietValidate, QuietFeedback DEF Next

LEMMA QuietAlways == Spec => []Quiet
  <1>1. Init => Quiet
    BY DEF Init, Quiet, Orderly, Attended
  <1>2. TypeOK /\ JobAndMarkerAgree /\ Quiet /\ [Next]_vars => Quiet'
    BY QuietStep
  <1> QED
    BY <1>1, <1>2, SettlementTypes, JobAndMarkerKeepAgreeing, PTL DEF Spec

(* While the registry has the prediction as made too late nobody is the    *)
(* first to enter the feedback with it, as long as nothing goes wrong:     *)
(* the timers ask, and the sweep finds nothing that nobody is at work on.  *)
THEOREM FlaggedIsKeptOut == Spec => FlaggedStaysOut
  <1>1. TypeOK /\ Quiet /\ [Next]_vars
          => [registry = "invalid" /\ ~InFeedback /\ faults' = 0 => ~InFeedback']_vars
    <2> SUFFICES ASSUME TypeOK, Quiet, [Next]_vars,
                        registry = "invalid", ~InFeedback, faults' = 0
                 PROVE  ~InFeedback'
      OBVIOUS
    <2>1. ~Fault /\ Attended
      BY QuietFaults DEF Quiet
    <2>2. ASSUME NEW v \in Run, Validate(v)
          PROVE  ~InFeedback'
      <3>1. /\ v \in Caller /\ pc'[v] \in {"grade", "resolve", "timer", "skip", "over"}
            /\ \A c \in Caller \ {v} : pc'[c] = pc[c]
        BY <2>2 DEF Validate, ReadPending, Grade, Resolve, TimerFires, SkipFeedback, Go, Caller,
                    TypeOK
      <3> QED
        BY <3>1 DEF InFeedback, FeedbackAt
    <2>3. ~\E w \in Sweep : SweepSelects(w)
      BY <2>1, QuietSelects
    <2>4. ~\E c \in Caller : Feedback(c)
      BY DEF InFeedback, Feedback, FeedbackAt, Start, Claim, ClaimStale, Look, Repair, Enqueue,
             Fallback, Learn, Complete
    <2>5. CASE \/ Register \/ NoteTargetStarted \/ StuckRecovery \/ LifecycleWritten
               \/ GrowOld \/ BecomeOverdue \/ UNCHANGED vars
      <3>1. UNCHANGED pc
        BY <2>5 DEF Register, NoteTargetStarted, RegistryFrame, StuckRecovery, StuckSelects,
                    StuckReadsRounds, StuckReadsLifecycle, Cancel, StuckFrame, LifecycleWritten,
                    GrowOld, BecomeOverdue, AgeFrame, vars
      <3> QED
        BY <3>1 DEF InFeedback
    <2>6. ~Crash
      BY <2>1 DEF Crash
    <2> QED
      BY <2>2, <2>3, <2>4, <2>5, <2>6 DEF Next
  <1> QED
    BY <1>1, SettlementTypes, QuietAlways, PTL DEF Spec, FlaggedStaysOut

(* The rolling state takes every round that was reported, whatever has     *)
(* become of the prediction, unless a statement failed.                    *)
THEOREM ReportsAreCounted == Spec => []ReportedIsCounted
  <1>1. Init => ReportedIsCounted
    BY DEF Init, ReportedIsCounted, Caller
  <1>2. TypeOK /\ ReportedIsCounted /\ [Next]_vars => ReportedIsCounted'
    <2> SUFFICES ASSUME TypeOK, ReportedIsCounted, [Next]_vars, faults' = 0,
                        NEW v \in Run, pc'[v] \notin {"idle", "grade"}
                 PROVE  counted'
      BY DEF ReportedIsCounted
    <2>1. ~Fault /\ faults = 0 /\ v \in Caller
      BY QuietFaults DEF Caller
    <2>2. pc[v] \notin {"idle", "grade"} => counted
      BY <2>1 DEF ReportedIsCounted
    <2>3. ASSUME NEW r \in Run, Validate(r)
          PROVE  counted'
      <3>1. r \in Caller /\ (counted => counted') /\ \A c \in Caller \ {r} : pc'[c] = pc[c]
        BY <2>3 DEF Caller, Validate, ReadPending, Grade, Resolve, TimerFires, SkipFeedback, Go,
                    TypeOK, Fed, FedOnEntry
      <3>2. CASE r # v
        BY <2>1, <2>2, <3>1, <3>2
      <3>3. CASE r = v /\ pc[v] \in {"idle", "grade"}
        BY <2>1, <2>3, <3>1, <3>3
           DEF Validate, ReadPending, Grade, Resolve, TimerFires, SkipFeedback, Go, TypeOK,
               Fed, FedOnEntry
      <3> QED
        BY <2>2, <3>1, <3>2, <3>3
    <2>4. ASSUME NEW c \in Caller, Feedback(c)
          PROVE  counted'
      <3>1. counted => counted'
        BY <2>4 DEF Feedback, Start, Claim, ClaimStale, Look, Repair, Enqueue, Fallback, Learn,
                    Complete, history, Fed
      <3>2. \A d \in Caller \ {c} : pc'[d] = pc[d]
        BY <2>4, GoKeepsTypes, DoneKeepsTypes
           DEF Feedback, FeedbackAt, Start, Claim, ClaimStale, Look, Repair, Enqueue, Fallback,
               Learn, Complete
      <3>3. pc[c] \notin {"idle", "grade"}
        BY <2>4 DEF Feedback, Start, Claim, ClaimStale, Look, Repair, Enqueue, Fallback, Learn,
                    Complete
      <3> QED
        BY <2>1, <2>2, <3>1, <3>2, <3>3
    <2>5. CASE \E w \in Sweep : SweepSelects(w)
      <3>1. counted' = counted /\ pc'[v] = pc[v]
        BY <2>1, <2>5, SettlementAssumption DEF SweepSelects, history, Go, TypeOK
      <3> QED
        BY <2>2, <3>1
    <2>6. CASE \/ Register \/ NoteTargetStarted \/ StuckRecovery \/ LifecycleWritten
               \/ GrowOld \/ BecomeOverdue \/ UNCHANGED vars
      <3>1. UNCHANGED <<pc, counted>>
        BY <2>6 DEF Register, NoteTargetStarted, RegistryFrame, StuckRecovery, StuckSelects,
                    StuckReadsRounds, StuckReadsLifecycle, Cancel, StuckFrame, LifecycleWritten,
                    GrowOld, BecomeOverdue, AgeFrame, vars, history
      <3> QED
        BY <2>2, <3>1
    <2>7. ~Crash
      BY <2>1 DEF Crash
    <2> QED
      BY <2>3, <2>4, <2>5, <2>6, <2>7 DEF Next
  <1> QED
    BY <1>1, <1>2, SettlementTypes, PTL DEF Spec

-----------------------------------------------------------------------------
(* Learning once *)

(* The callers that hold a claim and have not learned yet, or not managed  *)
Busy == {c \in Caller : pc[c] \in {"learn", "return"}}

Load == learned + Cardinality(Busy)

(* The claims and what was learned are paid for: by the first claim and by *)
(* the doubts.  A job that can be claimed leaves room for one more.  And   *)
(* what this process has learned it remembers, or is about to.             *)
PaidFor ==
  /\ Load <= 1 + doubts
  /\ job \in {"NONE", "PENDING"} => Load <= doubts
  /\ learned > 0 => memo \/ \E c \in Caller : pc[c] = "complete"

LEMMA BusyFinite ==
  /\ IsFiniteSet(Caller) /\ IsFiniteSet(Busy) /\ IsFiniteSet(Busy')
  /\ Cardinality(Busy) \in Nat /\ Cardinality(Busy') \in Nat
  <1>1. IsFiniteSet(Caller)
    BY SettlementAssumption, FS_Union DEF Caller
  <1>2. Busy \subseteq Caller /\ Busy' \subseteq Caller
    BY DEF Busy
  <1> QED
    BY <1>1, <1>2, FS_Subset, FS_CardinalityType

(* The move of one caller changes the number of busy ones by one at most *)
LEMMA BusyMoves ==
  ASSUME NEW c \in Caller, \A d \in Caller \ {c} : pc'[d] = pc[d]
  PROVE  /\ c \notin Busy /\ c \in Busy' => Cardinality(Busy') = Cardinality(Busy) + 1
         /\ c \in Busy /\ c \notin Busy' => Cardinality(Busy') = Cardinality(Busy) - 1
         /\ (c \in Busy <=> c \in Busy') => Cardinality(Busy') = Cardinality(Busy)
  <1>1. c \notin Busy /\ c \in Busy' => Busy' = Busy \cup {c}
    BY DEF Busy
  <1>2. c \in Busy /\ c \notin Busy' => Busy' = Busy \ {c}
    BY DEF Busy
  <1>3. (c \in Busy <=> c \in Busy') => Busy' = Busy
    BY DEF Busy
  <1> QED
    BY <1>1, <1>2, <1>3, BusyFinite, FS_AddElement, FS_RemoveElement

(* Steps that change nothing of this, and keep every caller at feedback    *)
LEMMA PaidForKept ==
  ASSUME TypeOK, PaidFor, UNCHANGED <<job, memo, learned, doubts>>,
         \A c \in Caller : pc'[c] = pc[c] \/ (pc[c] \notin {"learn", "return", "complete"}
                                             /\ pc'[c] \notin {"learn", "return"})
  PROVE  PaidFor'
  <1>1. Busy' = Busy
    BY DEF Busy
  <1>2. \A c \in Caller : pc[c] = "complete" => pc'[c] = "complete"
    OBVIOUS
  <1> QED
    BY <1>1, <1>2 DEF PaidFor, Load

LEMMA PaidForFeedback ==
  ASSUME TypeOK, PaidFor, NEW c \in Caller, Feedback(c)
  PROVE  PaidFor'
  <1>1. /\ Cardinality(Busy) \in Nat /\ Cardinality(Busy') \in Nat
        /\ learned \in Nat /\ doubts \in Nat
    BY BusyFinite DEF TypeOK
  <1>2. \A d \in Caller \ {c} : pc'[d] = pc[d]
    BY GoKeepsTypes, DoneKeepsTypes
       DEF Feedback, FeedbackAt, Start, Claim, ClaimStale, Look, Repair, Enqueue, Fallback, Learn,
           Complete
  <1>3. c \in Busy <=> pc[c] \in {"learn", "return"}
    BY DEF Busy
  <1>4. c \in Busy' <=> pc'[c] \in {"learn", "return"}
    BY DEF Busy
  <1>5. CASE Start(c) \/ Look(c) \/ Repair(c)
    <2>1. /\ pc[c] \in {"start", "look", "repair"}
          /\ pc'[c] \in {"idle", "over", "claim", "repair", "insert", "fallback"}
          /\ UNCHANGED <<job, learned, doubts>> /\ (memo => memo')
      BY <1>5, GoKeepsTypes, DoneKeepsTypes
         DEF Start, Look, Repair, FeedbackAt, history, teaching
    <2>2. Cardinality(Busy') = Cardinality(Busy)
      BY <1>2, <1>3, <1>4, <2>1, BusyMoves
    <2>3. \A d \in Caller : pc[d] = "complete" => pc'[d] = "complete"
      BY <1>2, <2>1
    <2> QED
      BY <2>1, <2>2, <2>3 DEF PaidFor, Load
  <1>6. CASE ClaimStale(c)
    <2>1. /\ pc[c] = "claim" /\ pc'[c] = "learn" /\ job = "PROCESSING"
          /\ UNCHANGED <<job, learned, memo>> /\ doubts' \in {doubts, doubts + 1}
          /\ doubts' = doubts => Owners = {} /\ ~memo
      BY <1>1, <1>6, GoKeepsTypes DEF ClaimStale, FeedbackAt
    <2>2. Cardinality(Busy') = Cardinality(Busy) + 1
      BY <1>2, <1>3, <1>4, <2>1, BusyMoves
    <2>3. \A d \in Caller : pc[d] = "complete" => pc'[d] = "complete"
      BY <1>2, <2>1
    <2>4. CASE doubts' = doubts
      <3>1. Busy = {} /\ ~\E d \in Caller : pc[d] = "complete"
        BY <2>1, <2>4 DEF Owners, Busy
      <3>2. Cardinality(Busy) = 0 /\ learned = 0
        BY <1>1, <2>1, <2>4, <3>1, FS_EmptySet DEF PaidFor
      <3> QED
        BY <1>1, <2>1, <2>2, <2>3, <2>4, <3>2 DEF PaidFor, Load
    <2>5. CASE doubts' = doubts + 1
      BY <1>1, <2>1, <2>2, <2>3, <2>5 DEF PaidFor, Load
    <2> QED
      BY <2>1, <2>4, <2>5
  <1>7. CASE Claim(c) \/ Enqueue(c)
    <2>1. /\ pc[c] \in {"claim", "insert"} /\ UNCHANGED <<learned, doubts, memo>>
          /\ \/ job \in {"NONE", "PENDING"} /\ job' = "PROCESSING" /\ pc'[c] = "learn"
             \/ job' \in {job, "PROCESSING"} /\ pc'[c] \in {"look", "fallback", "idle", "over"}
      BY <1>7, GoKeepsTypes, DoneKeepsTypes 
         DEF Claim, Enqueue, FeedbackAt, history, teaching
    <2>2. \A d \in Caller : pc[d] = "complete" => pc'[d] = "complete"
      BY <1>2, <2>1
    <2>3. CASE pc'[c] = "learn"
      <3>1. Cardinality(Busy') = Cardinality(Busy) + 1
        BY <1>2, <1>3, <1>4, <2>1, <2>3, BusyMoves
      <3> QED
        BY <1>1, <2>1, <2>2, <2>3, <3>1 DEF PaidFor, Load
    <2>4. CASE pc'[c] # "learn"
      <3>1. Cardinality(Busy') = Cardinality(Busy)
        BY <1>2, <1>3, <1>4, <2>1, <2>4, BusyMoves
      <3> QED
        BY <1>1, <2>1, <2>2, <2>4, <3>1 DEF PaidFor, Load
    <2> QED
      BY <2>3, <2>4
  <1>8. CASE Fallback(c)
    <2>1. /\ pc[c] = "fallback" /\ UNCHANGED <<job, learned>> /\ (memo => memo')
          /\ \/ pc'[c] = "learn" /\ doubts' = doubts + 1
             \/ pc'[c] \in {"idle", "over"} /\ doubts' = doubts
      BY <1>8, GoKeepsTypes, DoneKeepsTypes DEF Fallback, FeedbackAt
    <2>2. \A d \in Caller : pc[d] = "complete" => pc'[d] = "complete"
      BY <1>2, <2>1
    <2>3. \/ Cardinality(Busy') = Cardinality(Busy) + 1 /\ doubts' = doubts + 1
          \/ Cardinality(Busy') = Cardinality(Busy) /\ doubts' = doubts
      BY <1>2, <1>3, <1>4, <2>1, BusyMoves
    <2> QED
      BY <1>1, <2>1, <2>2, <2>3 DEF PaidFor, Load
  <1>9. CASE Learn(c)
    <2>1. /\ pc[c] = "learn" /\ UNCHANGED <<job, memo, doubts>>
          /\ \/ pc'[c] = "complete" /\ learned' = learned + 1
             \/ pc'[c] = "return" /\ learned' = learned
      BY <1>9, GoKeepsTypes DEF Learn, FeedbackAt
    <2>2. Load' = Load
      BY <1>1, <1>2, <1>3, <1>4, <2>1, BusyMoves DEF Load
    <2>3. learned' > 0 => memo' \/ \E d \in Caller : pc'[d] = "complete"
      BY <1>2, <2>1 DEF PaidFor
    <2> QED
      BY <2>1, <2>2, <2>3 DEF PaidFor
  <1>10. CASE Complete(c)
    <2>1. /\ pc[c] \in {"complete", "return"} /\ pc'[c] \in {"idle", "over"}
          /\ memo' /\ UNCHANGED <<learned, doubts>>
      BY <1>10, DoneKeepsTypes DEF Complete, history, teaching
    <2>2. CASE pc[c] = "return"
      <3>1. Cardinality(Busy') = Cardinality(Busy) - 1
        BY <1>2, <1>3, <1>4, <2>1, <2>2, BusyMoves
      <3> QED
        BY <1>1, <2>1, <3>1 DEF PaidFor, Load
    <2>3. CASE pc[c] = "complete"
      <3>1. Cardinality(Busy') = Cardinality(Busy)
        BY <1>2, <1>3, <1>4, <2>1, <2>3, BusyMoves
      <3>2. job' \in {"NONE", "PENDING"} => job \in {"NONE", "PENDING"}
        BY <1>10, <2>3 DEF Complete, Completed
      <3> QED
        BY <1>1, <2>1, <3>1, <3>2 DEF PaidFor, Load
    <2> QED
      BY <2>1, <2>2, <2>3
  <1> QED
    BY <1>5, <1>6, <1>7, <1>8, <1>9, <1>10 DEF Feedback

LEMMA PaidForStep ==
  ASSUME TypeOK, PaidFor, [Next]_vars
  PROVE  PaidFor'
  <1>1. ASSUME NEW v \in Run, Validate(v)
        PROVE  PaidFor'
    <2>1. UNCHANGED <<job, memo, learned, doubts>>
      BY <1>1 DEF Validate, ReadPending, Grade, Resolve, TimerFires, SkipFeedback, RunFrame, teaching
    <2>2. \A c \in Caller : pc'[c] = pc[c] \/ (pc[c] \notin {"learn", "return", "complete"}
                                              /\ pc'[c] \notin {"learn", "return"})
      BY <1>1 DEF Validate, ReadPending, Grade, Resolve, TimerFires, SkipFeedback, Go, Caller, TypeOK
    <2> QED
      BY <2>1, <2>2, PaidForKept
  <1>2. CASE \E w \in Sweep : SweepSelects(w)
    <2>1. UNCHANGED <<job, memo, learned, doubts>>
      BY <1>2 DEF SweepSelects, history, teaching
    <2>2. \A c \in Caller : pc'[c] = pc[c] \/ (pc[c] \notin {"learn", "return", "complete"}
                                              /\ pc'[c] \notin {"learn", "return"})
      BY <1>2 DEF SweepSelects, Go, Caller, TypeOK
    <2> QED
      BY <2>1, <2>2, PaidForKept
  <1>3. CASE \/ Register \/ NoteTargetStarted
             \/ StuckRecovery \/ LifecycleWritten \/ GrowOld \/ BecomeOverdue \/ UNCHANGED vars
    <2>1. UNCHANGED <<job, memo, learned, doubts, pc>>
      BY <1>3 DEF Register, NoteTargetStarted, RegistryFrame, StuckRecovery, StuckSelects,
                  StuckReadsRounds, StuckReadsLifecycle, Cancel, StuckFrame, LifecycleWritten,
                  GrowOld, BecomeOverdue, AgeFrame, vars, table, history, teaching
    <2> QED
      BY <2>1, PaidForKept
  <1>4. CASE Crash
    <2>1. Busy' = {} /\ learned' = 0 /\ doubts' = 0
      BY <1>4 DEF Crash, Busy
    <2>2. Load' = 0
      BY <2>1, FS_EmptySet DEF Load
    <2> QED
      BY <2>1, <2>2 DEF PaidFor
  <1> QED
    BY <1>1, <1>2, <1>3, <1>4, PaidForFeedback DEF Next

(* Claims and learning are paid for in every reachable state *)
THEOREM LearningIsPaidFor == Spec => []PaidFor
  <1>1. Init => PaidFor
    <2> SUFFICES ASSUME Init PROVE PaidFor
      OBVIOUS
    <2>1. Busy = {}
      BY DEF Init, Busy
    <2> QED
      BY <2>1, FS_EmptySet DEF Init, PaidFor, Load
  <1>2. TypeOK /\ PaidFor /\ [Next]_vars => PaidFor'
    BY PaidForStep
  <1> QED
    BY <1>1, <1>2, SettlementTypes, PTL DEF Spec

(* Reports, sweeps and retries in any order and number take a prediction   *)
(* through the learning pipeline of a process once, and once more for each *)
(* doubt.                                                                  *)
THEOREM LearnsOnce == Spec => []LearnedOnce
  <1>1. TypeOK /\ PaidFor => LearnedOnce
    <2> SUFFICES ASSUME TypeOK, PaidFor PROVE LearnedOnce
      OBVIOUS
    <2>1. {c \in Caller : pc[c] = "learn"} \subseteq Busy
      BY DEF Busy
    <2>2. /\ Cardinality({c \in Caller : pc[c] = "learn"}) <= Cardinality(Busy)
          /\ Cardinality({c \in Caller : pc[c] = "learn"}) \in Nat /\ Cardinality(Busy) \in Nat
      BY <2>1, BusyFinite, FS_Subset, FS_CardinalityType
    <2> QED
      BY <2>2 DEF TypeOK, PaidFor, Load, LearnedOnce
  <1> QED
    BY <1>1, LearningIsPaidFor, SettlementTypes, PTL

-----------------------------------------------------------------------------
(* The settlement keeps its promise *)

AfterGrading == FeedbackAt \cup Waiting

(* Whoever goes on after the grading, or was started by it, has a grading  *)
(* behind it: there is no other way to the feedback.                       *)
OnlyGraded == \A c \in Caller : pc[c] \in AfterGrading => grade.graded

LEMMA OnlyGradedStep ==
  ASSUME TypeOK, OnlyGraded, [Next]_vars
  PROVE  OnlyGraded'
  <1>1. ASSUME NEW v \in Run, Validate(v)
        PROVE  OnlyGraded'
    <2>1. /\ v \in Caller /\ \A d \in Caller \ {v} : pc'[d] = pc[d]
          /\ grade.graded => grade'.graded
      BY <1>1 DEF Caller, Validate, ReadPending, Grade, Resolve, TimerFires, SkipFeedback, Go, TypeOK
    <2>2. pc'[v] \in AfterGrading => grade'.graded
      <3>1. CASE ReadPending(v)
        BY <2>1, <3>1 DEF ReadPending, Go, AfterGrading, FeedbackAt, Waiting, TypeOK
      <3>2. CASE Grade(v)
        BY <2>1, <3>2 DEF Grade, Go, AfterGrading, FeedbackAt, Waiting, TypeOK
      <3>3. CASE Resolve(v) \/ TimerFires(v) \/ SkipFeedback(v)
        BY <2>1, <3>3 DEF Resolve, TimerFires, SkipFeedback, OnlyGraded, AfterGrading, Waiting
      <3> QED
        BY <1>1, <3>1, <3>2, <3>3 DEF Validate
    <2> QED
      BY <2>1, <2>2 DEF OnlyGraded
  <1>2. ASSUME NEW c \in Caller, Feedback(c)
        PROVE  OnlyGraded'
    <2>1. \A d \in Caller \ {c} : pc'[d] = pc[d]
      BY <1>2, GoKeepsTypes, DoneKeepsTypes
         DEF Feedback, FeedbackAt, Start, Claim, ClaimStale, Look, Repair, Enqueue, Fallback,
             Learn, Complete
    <2>2. pc[c] \in FeedbackAt
      BY <1>2 DEF Feedback, FeedbackAt, Start, Claim, ClaimStale, Look, Repair, Enqueue, Fallback,
                  Learn, Complete
    <2> QED
      BY <1>2, <2>1, <2>2, FeedbackGrade DEF OnlyGraded, AfterGrading
  <1>3. CASE \E w \in Sweep : SweepSelects(w)
    BY <1>3 DEF SweepSelects, OnlyGraded
  <1>4. CASE BecomeOverdue
    BY <1>4 DEF BecomeOverdue, AgeFrame, OnlyGraded, TypeOK
  <1>5. CASE \/ Register \/ NoteTargetStarted
             \/ StuckRecovery \/ LifecycleWritten \/ GrowOld \/ UNCHANGED vars
    <2>1. UNCHANGED <<pc, grade>>
      BY <1>5 DEF Register, NoteTargetStarted, RegistryFrame, StuckRecovery, StuckSelects,
                  StuckReadsRounds, StuckReadsLifecycle, Cancel, StuckFrame, LifecycleWritten,
                  GrowOld, AgeFrame, vars, table
    <2> QED
      BY <2>1 DEF OnlyGraded
  <1>6. CASE Crash
    BY <1>6 DEF Crash, OnlyGraded, AfterGrading, FeedbackAt, Waiting
  <1> QED
    BY <1>1, <1>2, <1>3, <1>4, <1>5, <1>6 DEF Next

LEMMA OnlyGradedAlways == Spec => []OnlyGraded
  <1>1. Init => OnlyGraded
    BY DEF Init, OnlyGraded, AfterGrading, FeedbackAt, Waiting
  <1>2. TypeOK /\ OnlyGraded /\ [Next]_vars => OnlyGraded'
    BY OnlyGradedStep
  <1> QED
    BY <1>1, <1>2, SettlementTypes, PTL DEF Spec

(* Steps outside of the feedback may rule, and nothing else *)
LEMMA QuietKeepsPromise ==
  ASSUME TypeOK, UNCHANGED teaching, grade'.marker = grade.marker,
         \/ Verdict' = Verdict
         \/ Verdict' = "graded" /\ Verdict # "graded"
         \/ Verdict = "open" /\ Verdict' = "cancelled"
  PROVE  Promise!Work
  <1>1. Verdict \in {"open", "cancelled", "graded"}
    BY DEF Verdict
  <1>2. Promise!MayRule
    BY <1>1 DEF Promise!MayRule, Promise!Verdicts
  <1>3. Promise!MayLearn
    BY DEF Promise!MayLearn, teaching
  <1>4. Promise!MayAccount
    BY DEF Promise!MayAccount, teaching
  <1>5. Promise!MayMark
    BY DEF Promise!MayMark
  <1> QED
    BY <1>2, <1>3, <1>4, <1>5 DEF Promise!Work

(* Feedback works on a graded prediction; what it learns is paid for       *)
LEMMA FeedbackKeepsPromise ==
  ASSUME TypeOK, OnlyGraded, PaidFor, JobAndMarkerAgree', NEW c \in Caller, Feedback(c)
  PROVE  Promise!Work
  <1>1. grade.graded /\ Verdict' = Verdict /\ Promise!Judged
    <2>1. pc[c] \in FeedbackAt
      BY DEF Feedback, FeedbackAt, Start, Claim, ClaimStale, Look, Repair, Enqueue, Fallback,
             Learn, Complete
    <2>2. grade.graded
      BY <2>1 DEF OnlyGraded, AfterGrading
    <2> QED
      BY <2>2, FeedbackGrade DEF Verdict, Promise!Judged
  <1>2. /\ everLearned \/ fellBack => everLearned' \/ fellBack'
        /\ grade.marker => grade'.marker
        /\ grade'.marker => everLearned' \/ fellBack'
    BY FeedbackGrade DEF JobAndMarkerAgree
  <1>3. /\ everLearned \in BOOLEAN /\ fellBack \in BOOLEAN /\ grade.marker \in BOOLEAN
        /\ everLearned' \in BOOLEAN /\ fellBack' \in BOOLEAN /\ grade'.marker \in BOOLEAN
    BY FeedbackTypes DEF TypeOK
  <1>4. Promise!MayRule
    BY <1>1 DEF Promise!MayRule
  <1>5. Promise!MayAccount
    BY <1>1, <1>2, <1>3 DEF Promise!MayAccount
  <1>6. Promise!MayMark
    BY <1>1, <1>2, <1>3 DEF Promise!MayMark
  <1>7. Promise!MayLearn
    <2>1. CASE Learn(c) /\ learned' = learned + 1
      <3>1. c \in Busy /\ doubts' = doubts /\ everLearned'
        BY <2>1 DEF Learn, Busy, TypeOK
      <3>2. Cardinality(Busy) >= 1
        BY <3>1, BusyFinite, FS_EmptySet, FS_CardinalityType
      <3>3. learned <= doubts
        BY <3>2, BusyFinite DEF PaidFor, Load, TypeOK
      <3> QED
        BY <1>1, <2>1, <3>1, <3>3 DEF Promise!MayLearn
    <2>2. CASE ~(Learn(c) /\ learned' = learned + 1)
      <3>1. learned' = learned /\ doubts' \in {doubts, doubts + 1}
        BY <2>2 DEF Feedback, Start, Claim, ClaimStale, Look, Repair, Enqueue, Fallback, Learn,
                    Complete, history, teaching
      <3> QED
        BY <1>1, <3>1 DEF Promise!MayLearn
    <2> QED
      BY <2>1, <2>2
  <1> QED
    BY <1>4, <1>5, <1>6, <1>7 DEF Promise!Work

LEMMA PromiseStep ==
  ASSUME TypeOK, OnlyGraded, PaidFor, JobAndMarkerAgree', [Next]_vars
  PROVE  [Promise!Next]_(Promise!vars)
  <1>1. ASSUME NEW v \in Run, Validate(v)
        PROVE  Promise!Work
    <2>1. UNCHANGED teaching /\ grade'.marker = grade.marker
      BY <1>1 DEF Validate, ReadPending, Grade, Resolve, TimerFires, SkipFeedback, RunFrame, TypeOK
    <2>2. \/ Verdict' = Verdict
          \/ Verdict' = "graded" /\ Verdict # "graded"
      BY <1>1 DEF Validate, ReadPending, Grade, Resolve, TimerFires, SkipFeedback, Verdict, TypeOK
    <2> QED
      BY <2>1, <2>2, QuietKeepsPromise
  <1>2. CASE StuckRecovery
    <2>1. UNCHANGED <<teaching, grade>> /\ (pend' = pend \/ (pend = "pending" /\ pend' = "cancelled"))
      BY <1>2 DEF StuckRecovery, StuckSelects, StuckReadsRounds, StuckReadsLifecycle, Cancel,
                  StuckFrame, history
    <2>2. Verdict' = Verdict \/ (Verdict = "open" /\ Verdict' = "cancelled")
      BY <2>1 DEF Verdict
    <2> QED
      BY <2>1, <2>2, QuietKeepsPromise DEF Promise!Next
  <1>3. CASE \/ \E w \in Sweep : SweepSelects(w)
             \/ Register \/ NoteTargetStarted
             \/ LifecycleWritten \/ GrowOld \/ BecomeOverdue \/ UNCHANGED vars
    <2>1. UNCHANGED <<teaching, pend>> /\ grade'.marker = grade.marker /\ grade'.graded = grade.graded
      BY <1>3 DEF SweepSelects, CallFrame, Register, NoteTargetStarted, RegistryFrame,
                  LifecycleWritten, GrowOld, BecomeOverdue, AgeFrame, vars, table, history, TypeOK
    <2>2. Verdict' = Verdict
      BY <2>1 DEF Verdict
    <2> QED
      BY <2>1, <2>2, QuietKeepsPromise DEF Promise!Next
  <1>4. CASE Crash
    <2>1. Promise!Restart
      BY <1>4 DEF Crash, table, Promise!Restart, Verdict
    <2> QED
      BY <2>1 DEF Promise!Next
  <1> QED
    BY <1>1, <1>2, <1>3, <1>4, FeedbackKeepsPromise DEF Next, Promise!Next

(* Runs, sweeps, recovery and crashes implement the abstract settlement *)
THEOREM SettlementKeepsPromise == Spec => ImplementsSettlement
  <1>1. Init => Promise!Init
    BY DEF Init, Promise!Init, Verdict
  <1>2. TypeOK /\ OnlyGraded /\ PaidFor /\ JobAndMarkerAgree' /\ [Next]_vars
          => [Promise!Next]_(Promise!vars)
    BY PromiseStep
  <1> QED
    BY <1>1, <1>2, SettlementTypes, OnlyGradedAlways, LearningIsPaidFor,
       JobAndMarkerKeepAgreeing, PTL DEF Spec, ImplementsSettlement, Promise!Spec

(* What the abstract settlement promises is enough for its readers: the    *)
(* models know only graded predictions, and no mark is given for nothing.  *)
THEOREM PromisedLearningHasCauses == Promise!Spec => []Promise!LearningHasCauses
  <1> DEFINE Typed == learned \in Nat /\ doubts \in Nat
  <1>1. Promise!Init => Typed /\ Promise!LearningHasCauses
    BY DEF Promise!Init, Promise!LearningHasCauses
  <1>2. Typed /\ Promise!LearningHasCauses /\ [Promise!Next]_(Promise!vars)
          => (Typed /\ Promise!LearningHasCauses)'
    <2> SUFFICES ASSUME Typed, Promise!LearningHasCauses, [Promise!Next]_(Promise!vars)
                 PROVE  Typed' /\ Promise!LearningHasCauses'
      OBVIOUS
    <2>1. CASE UNCHANGED Promise!vars \/ Promise!Restart
      BY <2>1 DEF Promise!vars, Promise!Restart, Promise!LearningHasCauses, Promise!Judged
    <2>2. CASE Promise!Work
      <3>1. Promise!Judged => Promise!Judged'
        BY <2>2 DEF Promise!Work, Promise!MayRule, Promise!Verdicts, Promise!Judged
      <3>2. (everLearned \/ fellBack) => (everLearned' \/ fellBack')
        BY <2>2 DEF Promise!Work, Promise!MayAccount
      <3>3. /\ Typed' /\ learned' <= 1 + doubts'
            /\ learned' > 0 => Promise!Judged' /\ (everLearned' \/ fellBack')
        BY <2>2, <3>1, <3>2 DEF Promise!Work, Promise!MayLearn, Promise!LearningHasCauses
      <3>4. grade'.marker => Promise!Judged' /\ (everLearned' \/ fellBack')
        BY <2>2, <3>1, <3>2 DEF Promise!Work, Promise!MayMark, Promise!LearningHasCauses
      <3> QED
        BY <3>3, <3>4 DEF Promise!LearningHasCauses
    <2> QED
      BY <2>1, <2>2 DEF Promise!Next
  <1> QED
    BY <1>1, <1>2, PTL DEF Promise!Spec

(* So it is for the code: in every reachable state what a process has      *)
(* learned was graded, and the marker stands for a grading that was        *)
(* learned or claimed for good.                                            *)
THEOREM LearnsOnlyGraded == Spec => []Promise!LearningHasCauses
  BY SettlementKeepsPromise, PromisedLearningHasCauses, PTL DEF ImplementsSettlement

=============================================================================
