-------------------------- MODULE PredictionHandoff --------------------------
(***************************************************************************)
(* The life of the prediction of ONE target round T = N+1 in the worker:   *)
(* the handlers of the frames of round N (PR, BG, ED) and poll recovery    *)
(* compete for the claim, compute, and hand a signal to the database; the  *)
(* validators grade rounds N and T; a loss on N arms the cooldown that     *)
(* must keep T free of betting signals.                                    *)
(*                                                                         *)
(* JavaScript runs to completion between awaits, so an action is the code  *)
(* from one await to the next, and each SQL statement, which the database  *)
(* runs while the worker is doing something else, is an action of its own. *)
(* Frames may be lost, duplicated and reordered: an attempt is one         *)
(* delivery of a frame, and it starts at any time or never.                *)
(*                                                                         *)
(* Left out: pruning of the claim map (TargetCoordinator has it), loss of  *)
(* worker authority, what the dispatcher does with a row after a failed    *)
(* send, and reconcileStuckPredictions, which acts on a row five minutes   *)
(* after its prediction.                                                   *)
(***************************************************************************)
EXTENDS ClaimOps

CONSTANTS
  Attempt,             \* deliveries of frames of round N, and recovery attempts
  OwnerOf,             \* the owner string an attempt claims T with
  ImmediateRecovery,   \* attempts that only the ED handler schedules
  Validator,           \* runs of the validator's onGameEnd
  RoundOf,             \* the round a validator run grades
  Seed                 \* the prediction issued for N before the story begins

N == 1
T == 2
NoTarget == 0
Prediction == Attempt \cup {Seed}
TargetOf(p) == IF p = Seed THEN N ELSE T

ASSUME HandoffAssumption ==
  /\ OwnerOf \in [Attempt -> Owner]
  /\ ImmediateRecovery \subseteq {a \in Attempt : SourceOf[OwnerOf[a]] = "RECOVERY"}
  /\ RoundOf \in [Validator -> {N, T}]
  /\ Seed \notin Attempt

VARIABLES
  claim,        \* the coordinator's entry for T
  att,          \* every attempt: where it is, and the kind it returned
  rows,         \* pending_predictions and the outbox, per prediction
  graded,       \* prediction ids in prediction_validations
  val,          \* every validator run: where it is, and the row it read
  skip,         \* skipTargetGameId while skipRemaining > 0, else NoTarget
  begun,        \* the live-round registry has T as started or ended
  inFlightBg,   \* N is in the BG handler's in-flight set
  edSeen,       \* N is in the ED handler's in-flight or completed set
  lost,         \* rounds whose crash makes a bet on them a LOSS
  armed,        \* history: how often a loss on each round armed the cooldown
  suppressed    \* history: rounds whose suppression ran without an error

vars == <<claim, att, rows, graded, val, skip, begun, inFlightBg, edSeen,
          lost, armed, suppressed>>

cooldownVars == <<armed, suppressed>>
validation == <<graded, val, lost, armed, suppressed>>

Kinds == {"none", "blocked", "skipped_window", "insufficient_history", "error",
          "exception", "skipped_no_edge", "predicted", "duplicate", "persist_failed"}
AttPc == {"idle", "checking", "cleared", "hydrating", "persisting", "replied",
          "returned", "done"}
ValPc == {"idle", "read", "replied", "unheard", "suppressing", "retiring", "closing", "done"}

Src(a) == SourceOf[OwnerOf[a]]
InFlight(a) == att[a].pc \notin {"idle", "checking", "cleared", "done"}
RowsFor(r) == {p \in Prediction : TargetOf(p) = r}
Unmatched(r) == {p \in RowsFor(r) : rows[p].pend = "unmatched"}
(* status = 'PENDING': the suppression sets matched but leaves the status *)
StatusPending(r) == {p \in RowsFor(r) : rows[p].pend \in {"unmatched", "retired"}}
LiveSignals(r) == {p \in RowsFor(r) : rows[p].out = "live"}

Init ==
  /\ claim = NoClaim
  /\ att = [a \in Attempt |-> [pc |-> "idle", kind |-> "none"]]
  /\ rows = [p \in Prediction |-> IF p = Seed THEN [pend |-> "unmatched", out |-> "gone"]
                                  ELSE [pend |-> "absent", out |-> "none"]]
  /\ graded = {}
  /\ val = [v \in Validator |-> [pc |-> "idle", row |-> {}]]
  /\ skip = NoTarget
  /\ begun = FALSE
  /\ inFlightBg = FALSE
  /\ edSeen = FALSE
  /\ lost \in SUBSET {RoundOf[v] : v \in Validator}
  /\ armed = [r \in {N, T} |-> 0]
  /\ suppressed = {}

-----------------------------------------------------------------------------
(* onGameEndPredict up to its first await.  A result says what becomes of  *)
(* the claim and the cooldown, where the attempt stands and its kind.      *)

Result(c, pc, kind, s) == [claim |-> c, pc |-> pc, kind |-> kind, skip |-> s]
Returned(c, kind) == Result(c, "returned", kind, skip)

(* From the selectivity gate on: the cooldown is asked first; then an      *)
(* evaluated NO_BET closes the target, and an edge goes on to be persisted. *)
GateResults(c, o) ==
  IF skip = T
  THEN {Result(AfterComplete(c, o, "NO_BET"), "returned", "skipped_no_edge", NoTarget)}
  ELSE {Returned(AfterComplete(c, o, "NO_BET"), "skipped_no_edge"),
        Result(c, "persisting", "none", skip)}

(* With the claim granted: the window, the history, the model, freshness.  *)
(* An exception leaves the claim to the handler.                           *)
ComputeResults(c, o) ==
  LET late == Returned(AfterComplete(c, o, "SIGNAL"), "skipped_window") IN
  IF begun THEN {late}
  ELSE {late,
        Returned(AfterRelease(c, o), "insufficient_history"),
        Returned(AfterRelease(c, o), "error"),
        Returned(c, "exception"),
        Result(c, "hydrating", "none", skip)}
       \cup GateResults(c, o)

AttemptResults(c, o) ==
  IF ClaimGranted(c, o) THEN ComputeResults(AfterClaim(c, o), o)
  ELSE {Returned(c, "blocked")}

Apply(a, r) ==
  /\ claim' = r.claim
  /\ skip' = r.skip
  /\ att' = [att EXCEPT ![a] = [pc |-> r.pc, kind |-> r.kind]]

AttemptFrom(a, c) == \E r \in AttemptResults(c, OwnerOf[a]) : Apply(a, r)

Finish(a) == [att EXCEPT ![a].pc = "done"]

-----------------------------------------------------------------------------
(* Frame handlers and poll recovery, up to the attempt's first await *)

PrFrame(a) ==
  LET o == OwnerOf[a]
      c == AfterReserve(claim, o) IN
  /\ Src(a) = "PR"
  /\ att[a].pc = "idle"
  /\ \/ /\ skip = T
        /\ claim' = c
        /\ skip' = NoTarget
        /\ att' = Finish(a)
     \/ /\ skip # T
        /\ AttemptFrom(a, AfterMarkRunning(c, o))
  /\ UNCHANGED <<rows, begun, inFlightBg, edSeen, validation>>

BgFrame(a) ==
  LET o == OwnerOf[a]
      c == AfterReserve(claim, o) IN
  /\ Src(a) = "BG"
  /\ att[a].pc = "idle"
  /\ ~inFlightBg
  /\ inFlightBg' = TRUE
  /\ IF isPrimaryOwnedOrTerminal(c) /\ ~ReserveGranted(claim, o)
     THEN att' = Finish(a) /\ UNCHANGED <<claim, skip>>
     ELSE AttemptFrom(a, c)
  /\ UNCHANGED <<rows, begun, edSeen, validation>>

(* The awaited temporal-kill leg of the BG handler returns. *)
BgHandlerEnds ==
  /\ inFlightBg
  /\ inFlightBg' = FALSE
  /\ UNCHANGED <<claim, att, rows, skip, begun, edSeen, validation>>

EdFrame(a) ==
  /\ Src(a) = "ED"
  /\ att[a].pc = "idle"
  /\ ~edSeen
  /\ edSeen' = TRUE
  /\ IF isPrimaryOwnedOrTerminal(claim)
     THEN att' = Finish(a) /\ UNCHANGED <<claim, skip>>
     ELSE AttemptFrom(a, claim)
  /\ UNCHANGED <<rows, begun, inFlightBg, validation>>

(* Poll recovery: memory gates, then a query, then the attempt. *)
PollMemoryGate(a) ==
  /\ Src(a) = "RECOVERY" /\ a \notin ImmediateRecovery
  /\ att[a].pc = "idle"
  /\ claim = NoClaim /\ ~begun
  /\ att' = [att EXCEPT ![a].pc = "checking"]
  /\ UNCHANGED <<claim, rows, skip, begun, inFlightBg, edSeen, validation>>

(* A pending row, the round's lifecycle or a live stream turns the attempt *)
(* away, but an error of the query is caught and lets it through.  A target *)
(* found live in the database seeds the registry.                          *)
PollDbGate(a) ==
  /\ att[a].pc = "checking"
  /\ \E pc \in {"cleared", "done"} : att' = [att EXCEPT ![a].pc = pc]
  /\ begun' \in {begun, TRUE}
  /\ UNCHANGED <<claim, rows, skip, inFlightBg, edSeen, validation>>

PollAttempt(a) ==
  /\ att[a].pc = "cleared"
  /\ AttemptFrom(a, claim)
  /\ UNCHANGED <<rows, begun, inFlightBg, edSeen, validation>>

-----------------------------------------------------------------------------
(* The awaits of an attempt *)

(* hydrateAcieFreshnessSource returns; the claim is not looked at again. *)
Hydrated(a) ==
  /\ att[a].pc = "hydrating"
  /\ \E r \in {Returned(AfterRelease(claim, OwnerOf[a]), "error"),
               Returned(claim, "exception")}
              \cup GateResults(claim, OwnerOf[a]) : Apply(a, r)
  /\ UNCHANGED <<rows, begun, inFlightBg, edSeen, validation>>

Replied(a, kind) == att' = [att EXCEPT ![a] = [pc |-> "replied", kind |-> kind]]

(* The durable handoff fails before anything is stored. *)
StoreFails(a) ==
  /\ att[a].pc = "persisting"
  /\ Replied(a, "persist_failed")
  /\ UNCHANGED <<claim, rows, skip, begun, inFlightBg, edSeen, validation>>

(* The compound statement: ON CONFLICT covers the index over unmatched     *)
(* rows only, so a retired row, whose status is still PENDING, raises on   *)
(* the other index.  At most one undelivered signal per target.            *)
Store(a) ==
  /\ att[a].pc = "persisting"
  /\ \/ /\ Unmatched(T) # {}
        /\ Replied(a, "duplicate")
        /\ UNCHANGED rows
     \/ /\ Unmatched(T) = {} /\ StatusPending(T) # {}
        /\ Replied(a, "persist_failed")
        /\ UNCHANGED rows
     \/ /\ StatusPending(T) = {}
        /\ rows' = [rows EXCEPT ![a] =
             [pend |-> "unmatched", out |-> IF LiveSignals(T) = {} THEN "live" ELSE "none"]]
        /\ \/ Replied(a, IF LiveSignals(T) = {} THEN "predicted" ELSE "duplicate")
           \/ Replied(a, "persist_failed")    \* committed, but the reply is lost
  /\ UNCHANGED <<claim, skip, begun, inFlightBg, edSeen, validation>>

Resume(a) ==
  /\ att[a].pc = "replied"
  /\ claim' = IF att[a].kind = "persist_failed" THEN AfterRelease(claim, OwnerOf[a])
              ELSE AfterComplete(claim, OwnerOf[a], "SIGNAL")
  /\ att' = [att EXCEPT ![a].pc = "returned"]
  /\ UNCHANGED <<rows, skip, begun, inFlightBg, edSeen, validation>>

(* Slip: an attempt that threw keeps its claim *)
HandlerClosesKept(a) ==
  LET o == OwnerOf[a] IN
  CASE att[a].kind = "predicted"                      -> AfterComplete(claim, o, "SIGNAL")
    [] att[a].kind \in {"skipped_no_edge", "exception"} -> claim
    [] OTHER                                          -> AfterRelease(claim, o)

(* What the BG and ED handlers do with the claim once the attempt returns. *)
HandlerCloses(a) ==
  LET o == OwnerOf[a] IN
  CASE att[a].kind = "predicted"       -> AfterComplete(claim, o, "SIGNAL")
    [] att[a].kind = "skipped_no_edge" -> claim
    [] OTHER                           -> AfterRelease(claim, o)

(* PR, poll and recovery log the result and leave the claim as it is. *)
ReturnToPrOrRecovery(a) ==
  /\ Src(a) \in {"PR", "RECOVERY"}
  /\ att[a].pc = "returned"
  /\ att' = Finish(a)
  /\ UNCHANGED <<claim, rows, skip, begun, inFlightBg, edSeen, validation>>

ReturnToBg(a) ==
  /\ Src(a) = "BG"
  /\ att[a].pc = "returned"
  /\ claim' = HandlerCloses(a)
  /\ att' = Finish(a)
  /\ UNCHANGED <<rows, skip, begun, inFlightBg, edSeen, validation>>

(* An exception or a missing history starts one recovery attempt at once. *)
ReturnToEd(a) ==
  /\ Src(a) = "ED"
  /\ att[a].pc = "returned"
  /\ LET recovery == {b \in ImmediateRecovery : att[b].pc = "idle"} IN
     IF att[a].kind \in {"exception", "insufficient_history"} /\ recovery # {}
     THEN \E b \in recovery : \E r \in AttemptResults(HandlerCloses(a), OwnerOf[b]) :
            /\ claim' = r.claim
            /\ skip' = r.skip
            /\ att' = [Finish(a) EXCEPT ![b] = [pc |-> r.pc, kind |-> r.kind]]
     ELSE claim' = HandlerCloses(a) /\ att' = Finish(a) /\ UNCHANGED skip
  /\ UNCHANGED <<rows, begun, inFlightBg, edSeen, validation>>

-----------------------------------------------------------------------------
(* The world outside the attempts *)

(* BG(T) or ED(T) is noted in the live-round registry. *)
TargetBegins ==
  /\ ~begun
  /\ begun' = TRUE
  /\ UNCHANGED <<claim, att, rows, skip, inFlightBg, edSeen, validation>>

(* A signal is delivered, or dead-lettered by the temporal kill. *)
OutboxSettles(p) ==
  /\ rows[p].out = "live"
  /\ rows' = [rows EXCEPT ![p].out = "gone"]
  /\ UNCHANGED <<claim, att, skip, begun, inFlightBg, edSeen, validation>>

-----------------------------------------------------------------------------
(* onGameEnd, the validator *)

validatorOnly == <<claim, att, begun, inFlightBg, edSeen, lost>>

SetVal(v, pc) == val' = [val EXCEPT ![v].pc = pc]

(* T must have ended before it is graded.  N may be graded at any time:    *)
(* the ED handler waits for its attempt first, the poll loop for nothing.  *)
MayValidate(v) == RoundOf[v] = T => begun

(* First statement: read the unmatched row of the round. *)
ReadPending(v) ==
  /\ val[v].pc = "idle"
  /\ MayValidate(v)
  /\ val' = [val EXCEPT ![v] = [pc |-> "read", row |-> Unmatched(RoundOf[v])]]
  /\ UNCHANGED <<validatorOnly, rows, graded, skip, cooldownVars>>

Matched(S) == [p \in Prediction |->
  IF p \in S THEN [rows[p] EXCEPT !.pend = "matched"] ELSE rows[p]]

(* Slip: an insert that conflicts on the prediction counts as a success *)
GradeAgain(v) ==
  /\ val[v].pc = "read"
  /\ val[v].row # {}
  /\ IF \E p \in graded \ val[v].row : TargetOf(p) = RoundOf[v]
     THEN SetVal(v, "done") /\ UNCHANGED <<rows, graded>>
     ELSE /\ graded' = graded \cup val[v].row
          /\ rows' = Matched(val[v].row)
          /\ SetVal(v, "replied")
  /\ UNCHANGED <<validatorOnly, skip, cooldownVars>>

(* Second statement: the validation row and the matched flag.  Unique over *)
(* predictions (a repetition inserts nothing) and over rounds (raises).    *)
(* It may fail, before or after it took effect; then the run is over, and  *)
(* "unheard" remembers a grading that nobody was told of.                  *)
Grade(v) ==
  LET row == val[v].row IN
  /\ val[v].pc = "read"
  /\ row # {}
  /\ \/ SetVal(v, "done") /\ UNCHANGED <<rows, graded>>
     \/ /\ row \subseteq graded
        /\ SetVal(v, "closing")
        /\ UNCHANGED <<rows, graded>>
     \/ /\ \A p \in graded : TargetOf(p) # RoundOf[v]
        /\ graded' = graded \cup row
        /\ rows' = Matched(row)
        /\ SetVal(v, "replied") \/ SetVal(v, "unheard")
  /\ UNCHANGED <<validatorOnly, skip, cooldownVars>>

(* Slip: a loss is ignored while an earlier one still has a round to skip  *)
NoteOutcomeWhenIdle(v) ==
  LET r == RoundOf[v] IN
  /\ val[v].pc = "replied"
  /\ IF r \in lost /\ skip = NoTarget
     THEN /\ skip' = r + 1
          /\ claim' = IF r + 1 = T THEN AfterCooldownSkip(claim) ELSE claim
          /\ armed' = [armed EXCEPT ![r] = @ + 1]
          /\ SetVal(v, "suppressing")
     ELSE SetVal(v, "closing") /\ UNCHANGED <<skip, claim, armed>>
  /\ UNCHANGED <<att, rows, graded, begun, inFlightBg, edSeen, lost, suppressed>>

(* noteValidatedPredictionOutcome; a LOSS arms the skip of the next round. *)
NoteOutcome(v) ==
  LET r == RoundOf[v] IN
  /\ val[v].pc = "replied"
  /\ IF r \in lost
     THEN /\ skip' = r + 1
          /\ claim' = IF r + 1 = T THEN AfterCooldownSkip(claim) ELSE claim
          /\ armed' = [armed EXCEPT ![r] = @ + 1]
          /\ SetVal(v, "suppressing")
     ELSE SetVal(v, "closing") /\ UNCHANGED <<skip, claim, armed>>
  /\ UNCHANGED <<att, rows, graded, begun, inFlightBg, edSeen, lost, suppressed>>

(* suppressCooldownTargetBetting, for the round after the lost one: two    *)
(* statements, each of which may fail softly before or after its effect.   *)
KillOutbox(v) ==
  LET s == RoundOf[v] + 1
      killed == [p \in Prediction |-> IF TargetOf(p) = s /\ rows[p].out = "live"
                   THEN [rows[p] EXCEPT !.out = "gone"] ELSE rows[p]] IN
  /\ val[v].pc = "suppressing"
  /\ \/ rows' = killed /\ suppressed' = suppressed \cup {s}
     \/ rows' \in {rows, killed} /\ UNCHANGED suppressed
  /\ SetVal(v, "retiring")
  /\ UNCHANGED <<validatorOnly, graded, skip, armed>>

RetirePending(v) ==
  LET s == RoundOf[v] + 1
      retired == [p \in Prediction |-> IF p \in Unmatched(s)
                    THEN [rows[p] EXCEPT !.pend = "retired"] ELSE rows[p]] IN
  /\ val[v].pc = "retiring"
  /\ \/ rows' = retired /\ UNCHANGED suppressed
     \/ rows' \in {rows, retired} /\ suppressed' = suppressed \ {s}
  /\ SetVal(v, "closing")
  /\ UNCHANGED <<validatorOnly, graded, skip, armed>>

(* noteRoundCompletedForCooldown *)
RoundCompleted(v) ==
  /\ \/ val[v].pc = "closing"
     \/ val[v].pc = "read" /\ val[v].row = {}
  /\ skip' = IF skip = RoundOf[v] THEN NoTarget ELSE skip
  /\ SetVal(v, "done")
  /\ UNCHANGED <<validatorOnly, rows, graded, cooldownVars>>

-----------------------------------------------------------------------------

(* Everything the worker and the database do without further frames *)
Continue(a) ==
  PollDbGate(a) \/ PollAttempt(a) \/ Hydrated(a) \/ StoreFails(a) \/ Store(a)
    \/ Resume(a) \/ ReturnToPrOrRecovery(a) \/ ReturnToBg(a) \/ ReturnToEd(a)

ContinueValidation(v) ==
  Grade(v) \/ NoteOutcome(v) \/ KillOutbox(v) \/ RetirePending(v) \/ RoundCompleted(v)

Next ==
  \/ \E a \in Attempt : PrFrame(a) \/ BgFrame(a) \/ EdFrame(a) \/ PollMemoryGate(a)
  \/ \E a \in Attempt : Continue(a)
  \/ BgHandlerEnds
  \/ TargetBegins
  \/ \E p \in Prediction : OutboxSettles(p)
  \/ \E v \in Validator : ReadPending(v) \/ ContinueValidation(v)

(* Awaited calls return and the event loop runs the continuations; no      *)
(* frame, poll tick or validation need ever start.                         *)
Fairness ==
  /\ \A a \in Attempt : WF_vars(Continue(a))
  /\ \A v \in Validator : WF_vars(ContinueValidation(v))

Spec == Init /\ [][Next]_vars /\ Fairness

-----------------------------------------------------------------------------
(* Properties *)

(* Every variable keeps its shape. *)
TypeOK ==
  /\ claim \in Claim
  /\ att \in [Attempt -> [pc : AttPc, kind : Kinds]]
  /\ rows \in [Prediction -> [pend : {"absent", "unmatched", "retired", "matched"},
                              out  : {"none", "live", "gone"}]]
  /\ graded \in SUBSET Prediction
  /\ val \in [Validator -> [pc : ValPc, row : SUBSET Prediction]]
  /\ skip \in {NoTarget, N, T, T + 1}
  /\ begun \in BOOLEAN /\ inFlightBg \in BOOLEAN /\ edSeen \in BOOLEAN
  /\ lost \in SUBSET {N, T}
  /\ armed \in [{N, T} -> Nat]
  /\ suppressed \in SUBSET {T, T + 1}

(* EXACTLY-ONCE (predictor.ts:2161): until T is graded at most one signal  *)
(* for T is ever enqueued, although a duplicate BG frame computes again    *)
(* under the same claim, a failed attempt releases the claim of one still  *)
(* in flight, a reply is lost after the commit, and the cooldown retires   *)
(* the row while the claim map knows nothing of the database.              *)
OneSignalPerTarget ==
  graded \cap RowsFor(T) = {} =>
    \A p, q \in RowsFor(T) : rows[p].out # "none" /\ rows[q].out # "none" => p = q

(* A round is graded once and arms the cooldown at most once, however many *)
(* validator runs of ED and poll read its unmatched row.                   *)
GradedOnce ==
  \A r \in {N, T} :
    /\ armed[r] <= 1
    /\ \A p, q \in graded : TargetOf(p) = r /\ TargetOf(q) = r => p = q

(* No graded loss is forgotten: it has armed the cooldown, or the run that *)
(* graded it is about to; only a grading whose reply was lost arms nothing *)
(* (validator.ts:441), for no later run finds the row unmatched.           *)
LossesArm ==
  \A r \in lost : (\E p \in graded : TargetOf(p) = r) =>
    \/ armed[r] > 0
    \/ \E v \in Validator : RoundOf[v] = r /\ val[v].pc \in {"replied", "unheard"}

(* Once a loss on N has armed the cooldown, the claim on T is closed as    *)
(* NO_BET for good, whoever held it and whatever that attempt still does.  *)
ArmedClosesTarget == armed[N] > 0 => claim.completed /\ claim.noBet

(* After the cooldown was armed no attempt on T begins to compute or       *)
(* persist: every frame and poll that arrives then is turned away.         *)
NoFreshAttemptAfterArm ==
  [][armed[N] > 0 => \A a \in Attempt :
        att[a].pc \in {"idle", "checking", "cleared"} =>
          att'[a].pc \notin {"hydrating", "persisting"}]_vars

(* An open claim on T of a BG or ED owner is backed by an attempt of that  *)
(* owner still in flight: no exit of those handlers strands the target.    *)
OpenClaimIsWorkedOn(sources) ==
  claim # NoClaim /\ ~claim.completed /\ parseSource(claim.owner) \in sources
    => \E a \in Attempt : OwnerOf[a] = claim.owner /\ InFlight(a)

BgEdClaimIsWorkedOn == OpenClaimIsWorkedOn({"BG", "ED"})

(* A claim of a BG or ED owner does not stay open: it is closed or         *)
(* released once the awaited calls of its attempts have returned.          *)
BgEdClaimResolves ==
  \A o \in Owner : parseSource(o) \in {"BG", "ED"} =>
    (claim.owner = o /\ ~claim.completed) ~> ~(claim.owner = o /\ ~claim.completed)

-----------------------------------------------------------------------------
(* Statements of the repository's comments that the code does not keep *)

(* prediction-loss-cooldown.ts:238: "After arming, kill undelivered outbox *)
(* rows and retire unmatched pending for the skip target so no betting     *)
(* signal remains live."                                                   *)
NoSignalAfterSuppression ==
  (T \in suppressed /\ \A v \in Validator : val[v].pc \notin {"suppressing", "retiring"})
    => LiveSignals(T) = {}

(* target-coordinator.ts:8: "ED(N) FALLBACK -> only when primary (PR/BG)   *)
(* is absent / failed / recoverable": a primary that has failed leaves the *)
(* target to ED.                                                           *)
FailedPrimaryFreesTarget == OpenClaimIsWorkedOn({"PR", "BG"})

(* predictor.ts:411: the loss cooldown is "Checked first so PR/BG/ED       *)
(* cannot bypass it": while T is the round to be skipped, no attempt       *)
(* passes the gate.                                                        *)
CooldownNotBypassed ==
  [][armed[N] > 0 => \A a \in Attempt :
        att[a].pc = "hydrating" => att'[a].pc # "persisting"]_vars

=============================================================================
