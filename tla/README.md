# A formal model of the live prediction worker

The worker in `src/lib/prediction/live` watches a stream of crash rounds and, for
every round N, tries to issue one betting signal for round N+1 before N+1 starts.
Four event paths compete for that one signal, a single-threaded event loop
interleaves them at every `await`, a PostgreSQL database is the durable fence, a
loss on N must silence N+1, an outbox delivers the signal to Telegram, the outcome
is graded once and learned from once, and a lease decides which of two deployed
workers may do any of this. This directory models these protocols in TLA+,
model-checks them with TLC, and proves their safety with TLAPS.

Paths are relative to the repository root; `live/` abbreviates
`src/lib/prediction/live/`.

## 1. Inventory

| component | state it keeps | operations | hard behaviour | what makes it correct |
|---|---|---|---|---|
| **target coordinator** `live/target-coordinator.ts` | a map target -> claim (owner, state, completed, noBet) | reserve (PR, BG), claim, mark running, complete, release, cooldown skip, prune, gates | callers in any order; overrides and pruning of claims being worked on | one primary owner at a time; closed targets stay closed; fields agree; bounded |
| **frame handlers** `src/lib/prediction/events/game-event-handlers.ts` | in-flight sets, ED ledger, recovery counter | prHandler, bgHandler, edHandler, one immediate recovery | lost, late, duplicate frames; fire-and-forget attempts | every exit resolves the claim; ED only falls back |
| **attempt and predictor** `live/prediction-attempt.ts`, `live/predictor.ts` | none of their own | onGameEndPredict: claim, window, history, model, freshness, gate, durable handoff | awaits between the claim and its completion; a commit whose reply is lost | one signal per target |
| **loss cooldown** `live/prediction-loss-cooldown.ts` | skip target and count, streak, keys of validations seen; a best-effort snapshot | note outcome, consume, clear, suppress, persist, restore | arms while a signal for the skip target is being stored; restart | a loss on N leaves N+1 without a signal; armed once |
| **validator** `live/validator.ts` | rows of the database | onGameEnd: read, grade, arm, suppress, notify, defer the feedback | ED and poll run it for the same round; no lock is held between statements | a round graded once, at most one arming |
| **poll worker** `live/poll-worker.ts` | recent-round cache, tick state | tick: fetch, validate, recover the newest round | gates read before awaits; overlap with live frames | recovery is the last resort and never a second signal |
| **live-round registry** `live/live-round-registry.ts` | phase per round, betting windows | note started, note ended, median | out-of-order frames, eviction | a target past its window stays past |
| **tables** `migrations/0007, 0013, 0026, 0045, 0046` | pending_predictions, prediction_validations, notification_outbox, feedback_jobs | compound INSERT, UPDATE | partial unique indexes with different predicates | the last fence |
| **outbox dispatcher** `live/notification-worker.ts`, `live/outbox-wake.ts`, `live/outbox-pending-targets.ts` | outbox rows, two lanes, wake latches, the set of targets with an undelivered signal | claim, gate, send, finalize, fail, recover, drain; operator retry | kill during a send; stale recovery of a slow send; lost wake; crash | a copy is repeated only with a cause; a killed signal stays unsent; every row settles |
| **worker authority** `live/fencing.ts`, `live/live-supervisor.ts`, `live/boot.ts` | lease row, strikes, lost flag | acquire, heartbeat, demote, release | two workers in one deploy; a heartbeat without reply | a lease is taken only when expired; short overlap; somebody serves |
| **stuck recovery** `live/stuck-recovery.ts` | rows older than five minutes | reconcile | races with the validator | each row leaves pending once, a graded one as matched |
| **feedback** `live/feedback.ts` | jobs, marker, remembered ids | claim, fallback, learn, complete, sweep | validator and sweep apply the same feedback; lost replies | the pipeline runs once, and in the end |
| **prediction registry** `src/lib/prediction/identity/prediction-registry.ts` | a record per prediction: when made, when its target started | register, note the start, answer the validator's timer | registered after an awaited statement, while BG of the target may come before, after or never | a prediction flagged as too late stays out of the feedback |
| **rolling state** `src/lib/prediction/state/incremental-state-engine.ts` | statistics over the rounds seen | update | ED handler, every report and the feedback all update it | no reported round is left out |
| **live round state** `live/live-round-state.ts` | lifecycle per round | started, ended, from history, resolved, applied | unordered writers | the recovery's decisions read it |
| **history buffer, stale guard** `live/live-history-buffer.ts`, `acie/stale-guard.ts` | completed rounds, last observed round | warm, append, read, assert fresh | rounds out of order, gaps | sorted, unique, fresh |

How they interact: the transports call the frame handlers, which reserve or claim
the target in the coordinator, call `attemptNPlusOnePrediction` and on its return
complete or release the claim. The predictor writes `pending_predictions` and
`notification_outbox` in one statement, notes the target in the filter and wakes the
dispatcher; BG of the target kills a signal that is still undelivered. ED and the
poll loop run the validator, which grades the row of the ended round and, on a LOSS,
arms the cooldown; the cooldown closes N+1 in the coordinator (a direct call) and
kills its rows in the database. The validator also enqueues the result behind the
signal in the outbox, writes the lifecycle and sets a timer for the feedback, whose
sweep is the second way in. The registry is shared memory between the handlers, the
predictor, the dispatcher and the poll worker. The supervisor's heartbeat takes
authority away; the handlers ask for it on entry.

Everything else (transports, ingest, numeric models and features, ACIE, model
lifecycle, database pools, HTTP server, observability, multiplayer, authentication,
user interface, scripts) is listed in `PROJECT.json` with the reason it is not
modelled.

## 2. Plan

| order | module | status |
|---|---|---|
| 1 | `ClaimOps`, `TargetCoordinator`, `TargetOwnership` (abstract), proofs | done |
| 2 | `PredictionHandoff`: handlers, attempts, tables, validators, cooldown around one target; proofs of all its safety properties | done |
| 3 | `NotificationOutbox` with its wake channel and filter, `DeliveryPromise` (abstract), proofs | done |
| 4 | `Settlement`: grading, feedback, sweep, stuck recovery, lifecycle; `SettlementPromise` (abstract); proofs | done |
| 5 | `WorkerAuthority`: lease, heartbeat, demotion, restart; `LeasePromise` (abstract); proofs | done |
| 6 | `LossCooldown`: several rounds, snapshot, crash and restore | open |
| 7 | `LiveRoundRegistry`, `LiveHistory`; transports (reconnect, subscription) | open |

No module uses RECURSIVE operators, so all of them can be proved about.

## 3. The modules

**`ClaimOps`** holds the claim on one target and, for each exported function of
the coordinator, what it does to that claim, as pure operators (`AfterReserve`,
`AfterClaim`, `AfterComplete`, `AfterCooldownSkip`, `AfterRelease`, ...) with the
guards that decide it (`ReserveGranted`, `ClaimGranted`). An owner string such as
`bg:100` is a model value; `SourceOf` gives the source `parseSource` reads off its
prefix. `claimedAt` is left out because only `prune` reads it.

In this and the other modules the operators commented as slips
(`AfterReleaseMarked`, `LoopRestForgets`, `CancelBlind`, ...) are plausible bugs, used
to show that the properties notice them; no specification refers to them.

**`TargetCoordinator`** is the map of claims. Its functions are synchronous, so each
call is one action; its callers are arbitrary: any function, any target, any owner,
in any order. `prune` drops completed and aged entries and then the oldest; ages are
a free choice, so `PruneChoices` allows any set that contains the completed entries
and leaves at most `MaxEntries`. Two history variables serve the properties:
`holders`, the owners that were told `owned: true` and have neither completed nor
released since, and `forgotten`, the targets prune has dropped.

**`TargetOwnership`** is the abstract promise: a target is open, held by an owner,
or closed; an open target is granted, a holder is displaced by a strictly higher
tier only, a holder gives up or closes, a closing is final; in a crowd targets may
be forgotten. `TargetCoordinator!ImplementsOwnership` is the refinement, with the
mapping `StatusOf`.

**`PredictionHandoff`** follows ONE target T = N+1 through everything that happens
to it. An action is the code from one `await` to the next; each SQL statement is an
action of its own, since the worker runs other code while it executes.

| variable | in the code |
|---|---|
| `claim` | the coordinator's entry for T |
| `att` | where each delivery of a frame (or recovery) stands in handler and predictor, and the `kind` it returns |
| `rows` | per prediction, its `pending_predictions` row (unmatched; retired = matched by the suppression with status still PENDING; matched = graded) and its outbox row (live = pending or inflight) |
| `graded` | `prediction_validations` |
| `val` | each run of the validator, and the row its first statement read; a run that ended because the reply of its grading was lost stays `unheard` |
| `skip` | `skipTargetGameId` while `skipRemaining` > 0 |
| `begun` | `isTargetPastBettingWindow(T)` |
| `inFlightBg`, `edSeen` | the dedup sets of the BG and ED handlers |
| `lost` | whether the outcome of a round makes a bet on it a LOSS |
| `armed`, `suppressed` | history: armings per round; rounds whose suppression ran without an error |

A frame may be lost, late, repeated or reordered: an attempt is one delivery, which
starts at any time or never. The numeric parts (window, history, model, freshness,
selectivity) are a choice of outcome. A statement may fail before it takes effect,
or take effect and lose its reply. Here the outbox only settles live rows; the
module that follows opens that box.

**`NotificationOutbox`** is the dispatcher with the rows it works on. The rows are
split as the lanes are: `Signal` (type `prediction`, one per target round) and
`Result` (the normal lane); `Gates` pairs a signal with the result that waits for it.

| variable | in the code |
|---|---|
| `row` | status, whether `next_attempt_at` has passed, `attempt_count` |
| `late` | rows past `telegram_deadline_at` |
| `dbBegun`, `begun` | targets the database, and the in-memory registry, know as started |
| `unannounced` | rows inserted whose producer still awaits the reply |
| `killing`, `filter` | BG handlers that await their kill statement; `outbox-pending-targets.ts` |
| `latch`, `loop`, `bg`, `rec` | the wake latches; `drainLoop` and its tick count; the detached pass of the normal lane; `recoverStale` |
| `job` | where the dispatch of each claimed row is in `processLane`, with the attempt count it read |
| `copies`, `doubts`, `killed`, `restarted` | history |

A **doubt** is an event after which the code cannot know whether Telegram has shown
the message: a send or a finalize statement whose reply is lost, a stale recovery of
a send under way, a crash during a send, an operator's retry. `faults` bounds failed
statements, lost replies and crashes together; `retries` bounds the operator.

**`DeliveryPromise`** is what a row promises without lanes, claims or sweeps: a copy
may be shown again only if there are doubts enough, a row counts as delivered only
after a copy was shown, and a delivered row is touched again only after a doubt.
`NotificationOutbox!ImplementsPromise` is the refinement, with the mapping `Fate`.

**`Settlement`** is one prediction after its round: any number of reports of the
crash (`Run`, each a call of `validator.onGameEnd`), sweeps of stuck feedback
(`Sweep`), the stuck recovery, the lifecycle writers, time and a crash of the process.
`pc` is where each caller stands; the table is `pend`, `age`, `crashRow`, `stage`,
`grade` (with `feedback_applied_at` as `marker` and the skip reason as `skip`), and
`job`. The learning itself is one step. A `doubt` here is a claim granted although
another may stand: the fallback to the marker, and a takeover after two minutes.

`registry` is the record of the prediction in the in-memory registry. It is stored when
the awaited persist has answered (`Register`), always without the start of its target
and so unverified; a BG frame of the target that comes after that may flag it as made
too late (`NoteTargetStarted`); one that came before, or never comes, flags nothing; a
crash empties the registry. The timer asks it and skips the flagged prediction only.

`globalIncrementalState`, the rolling state, is updated by the ED handler, by every
report of a round, some of them (`Eager`) also on entry, and by the learning. The model
keeps one bit of it, `counted`: this process has taken the round at least once.

**`SettlementPromise`** is what becomes of a prediction without callers, jobs or
timers: it is open until it is cancelled or graded, a grading is final, it is learned
only once it is graded, once or once more per doubt, and marked only when it was
learned or claimed for good. `Settlement!ImplementsSettlement` is the refinement: the
mapping `Verdict` reads the grading before the row, because a row that is cancelled
between the read and the grading is graded all the same.

**`WorkerAuthority`** is the row of `worker_locks` and, per process, where it is
between boot and exit, its strikes and its heartbeat timer. Time is counted in ticks
and cannot pass over a heartbeat that is due, except as an incident. The epoch is
left out, because nothing compares it.

**`LeasePromise`** is the lease without clocks, statements and boots: who holds it,
whether it has lapsed, and which workers are granted, serving or demoted. It is taken
only when free, lapsed or one's own, renewed by its holder only, given up by its holder
only, and a worker is demoted only when it does not hold it. It does not promise that
one worker serves at a time: the code does not keep that (run `authority_overlap`).
`WorkerAuthority!ImplementsLease` is the refinement, with the mapping `Role`.

The `MC...` modules give the constants values; `MCPredictionHandoff` also has the
initial states of the two stories of `handoff_stories`.

## 4. What the runs check

| run | instance | properties |
|---|---|---|
| `coordinator` | 2 targets, one owner of each source, limit 1 | `TypeOK`; `Coherent` (six functions write the fields of an entry; they agree); `OnePrimaryHolder`; `HolderIsOwnerOrClosed` (its inductive strengthening); `GatesAgree` (the read-only gates say what the grants do); `ClosedStaysClosed`; `ImplementsOwnership` |
| `handoff_frames` | BG, ED and poll; no validator | `TypeOK`; `BgEdClaimIsWorkedOn` (an open BG or ED claim has an attempt in flight); `BgEdClaimResolves` (liveness) |
| `handoff_stories` | PR and a BG frame delivered twice against one validation of N; ED with its recovery against two validations of N and two of T | `OneSignalPerTarget`, `BgEdClaimIsWorkedOn`, `GradedOnce`, `ArmedClosesTarget`, `NoFreshAttemptAfterArm`; `LossesArm` (a graded loss has armed the cooldown or is about to, unless the reply of the grading was lost) |
| `outbox_delivery` | one signal, two attempts, recovery at every second tick, one fault, one operator retry | `TypeOK`; `ImplementsPromise`; `OneCopyUnlessTrouble` (without a fault or an operator a row is shown once); `KilledNeverSentAgain`; `WakeNotLost`; `FilterSeesSignals`; `EveryRowSettles` (liveness) |
| `outbox_lanes` | a signal and the result behind it, no faults | `EveryRowSettles`: the gate between the lanes never blocks the result for good |
| `settlement` | two reports, one of them eager, one sweep at a time, a registry record, one fault | `TypeOK`, `GradedIsMatched`, `LearnedOnce` (the pipeline of a process, per doubt), `JobAndMarkerAgree`, `FlaggedStaysOut` (while the registry has the prediction as made too late, nobody is the first to enter the feedback with it), `ReportedIsCounted` (no reported round is left out of the rolling state), `ImplementsSettlement`, and the liveness of `CrashedRowLeaves` and `FeedbackSettles` |
| `authority` | two workers, the intervals of the code in ticks of two seconds, two incidents | `TypeOK`, `TakeoverProvesExpiry`, `DemotedHoldsNothing`, `OverlapIsShort`, `ImplementsLease`, and the liveness of `SomeoneServes` |

The other five runs expect a violation, see below.

**Bounds.** *Coordinator:* one owner string exists per source and round, so the
owners of one round are the whole population of a target. Claims of different
targets interact through `prune` only, for which two targets above a limit of one
are a crowd. *Handoff:* an attempt is single-shot, so the number of deliveries is the
bound: two BG deliveries are the least that compute twice under one owner, PR + BG
the least two primaries, ED + recovery the least immediate retry, two validators of a
round the least race. *Outbox:* two attempts give a requeue and a last attempt (the
code has five); every second tick is a recovery so that both kinds of iterations
exist (the code has one in fifty); one fault hits anywhere, and the operator may
retry before or after it. *Settlement:* two reports and a sweep are three callers of
the feedback at once. *Authority:* a tick of two seconds gives 4 for
`LOCK_TTL_SECONDS` and 5 for `HEARTBEAT_INTERVAL_MS`, the smallest numbers in that
ratio. Every bound on faults (`MaxFaults`, `MaxRetries`, `MaxIncidents`) only stops
that many things from going wrong; the theorems hold for every value. Symmetry is
used between targets, between the two BG deliveries and between validator runs of
the same round, in runs without liveness properties. Deadlock is checked for the
coordinator and the authority; the other stories end.

**Fairness.**
*Handoff:* weak fairness of what continues an attempt or a validator run that has
started: awaited calls return (with a result or an error) and the event loop runs the
continuation. No frame, poll tick, validation, delivery or start of T is ever
required to happen.
*Outbox:* weak fairness of the loop (a timer wakes it every `TICK_MS`), of the
detached pass and of the recovery, of every dispatch (statements and sends have
timeouts), and of deadlines passing. No wake is required to arrive.
*Settlement:* a run that has begun goes on, and the sweep, the stuck recovery and the
passing of time are timers. Strong fairness of `ClaimStale`: the sweep comes back
every time, and a job orphaned in PROCESSING is two minutes old at some of them.
Nothing makes the crash be reported.
*Authority:* the platform restarts processes, boots are retried, heartbeats are
served and time passes. No incident is required or excluded.

**Disagreements with the repository's comments.** Each of these runs finds a
counterexample to what a comment says:

- `suppression`: "so no betting signal remains live" (`prediction-loss-cooldown.ts:238-241`).
  An attempt past the gate stores its signal after the outbox was cleared.
- `pr_fails`: ED is the fallback when the primary has "failed"
  (`target-coordinator.ts:8`). `prHandler` has no release; a PR attempt that throws
  keeps T.
- `cooldown_bypassed`: "Checked first so PR/BG/ED cannot bypass it"
  (`predictor.ts:411`). Of two BG attempts held in hydration, the first consumes the
  skip and the second passes.
- `outbox_terminal`: DELIVERED and DEAD ("no retry") are the ends of the state machine
  at the head of `notification-worker.ts`. A signal that BG dead-letters while its send
  is under way goes back to pending when that send fails. It is not sent again by that
  process (`KilledNeverSentAgain`): the registry stops it before the send.
- `authority_overlap`: "Distributed single-writer lock (P0)" (`live-supervisor.ts:433`).
  The lease lasts 8 s and is renewed every 10 s, so a second process waiting at boot
  takes it from a healthy worker, and both serve until the first has missed its row
  twice.

**Remarks without a run of their own.**

Handoff. A skipped window completes the claim in the predictor, so the release that
the comment at `game-event-handlers.ts:414-418` counts on does nothing. The comment at
310-314 says a BG frame that comes again computes nothing; a second delivery after the
first handler has ended is granted the claim as a re-entry and computes again (the
database keeps the signal single). A validator that read a row before the suppression
retired it still grades it (`prediction-loss-cooldown.ts:269-272`), and may arm the
next round with it; `GradedOnce` bounds that to once. A grading whose reply is lost
(`validator.ts:441`) is not retried, since no later run finds the row unmatched: a LOSS
graded that way never arms the cooldown, and `LossesArm` shows that it is the only one. The cooldown mark overwrites a
SIGNAL_READY entry, so it is idempotent among NO_BET entries only
(`target-coordinator.ts:374`). The cooldown has one slot: a loss of an older round
validated late moves the skip back, and only the coordinator's mark still closes the
newer round.

Outbox. A claim refused because the target has started is dead-lettered by the claim
statement and still walks through the gates of the dispatch; when a gate's statement
fails there, `handleFailure` puts the dead row back to pending
(`notification-worker.ts:577-731`, 1142-1153). The comment at `notification-worker.ts:70-79` has two predictions overlap
their sends, but `PREDICTION_BATCH_SIZE` of 1 claims one row per iteration; two wakes
that coalesce claim one signal, and the other waits for the recovery tick (the case
that `WakeNotLost` excepts). Requeued rows and retried dead rows are not woken either.
A normal lane that works for longer than `STALE_INFLIGHT_MS` has its own rows returned
to pending (a doubt). `retryDeadNotifications` takes every dead row, and rows past
their deadline are swept again right after. With several chats a retry after a partial
failure sends duplicates to the chats that had accepted; the model has one chat.

Settlement. "A prediction generated after its target round already started must never
train the models" (`validator.ts:771-772`) is not kept, and needs no fault. The
predictor registers a prediction after its persist has answered, with
`targetStartedAt: null` and therefore TEMPORALLY_UNVERIFIED (`predictor.ts:2361-2387`,
`prediction-registry.ts:90-110`); only a BG frame processed after that can make it
INVALID, since `noteTargetStarted` finds no record before (118-124). When BG of the
target is processed while the persist is awaited, which is how a prediction comes to be
late, or when that frame is lost, the record stays UNVERIFIED, and
`validator.ts:779-807` skips INVALID only: the late prediction is trained. A second BG
frame without a start time may even clear the flag. `FlaggedStaysOut` says what is left
of it: a flag keeps the prediction out for as long as it stands. The sweep does not ask
the registry; it is kept out by the skip reason that the timer leaves behind, which a
crash or a failed statement can lose, so `FlaggedStaysOut` excludes faults.

The rolling state counts a round several times. `validator.ts:114-119` (and
`LATENCY_FIX_AUDIT.md:33,38`) say that the ED path has updated it and passes
`skipStateUpdate`; `edHandler` passes `skipPredict` only
(`game-event-handlers.ts:1118-1127`), so a round reported by ED is counted at
`game-event-handlers.ts:941`, again at `validator.ts:667`, once more by each further
report (by an edge report also at `validator.ts:176`), and once by the learning
(`feedback.ts:389-396`). Nothing removes the duplicates; ACIE, fed beside it, ignores a
round it has seen. `LearnedOnce` is therefore about the pipeline, and
`ReportedIsCounted` about "at least once".

`processedIds.add`
(`feedback.ts:539`) is unconditional, so a job returned to PENDING is not taken up
again by this process, unlike 527-531 says; `FeedbackSettles` therefore ends in
`memo`. The fallback of the claim (206-231) may let a second call learn while the
first holds the job, unlike 590-600 says: a doubt of `LearnedOnce`. `Repair` is kept,
although completion in one statement leaves it nothing to do. `migrations/0026:11-12`
says the job is inserted with the validation; only `feedback.ts` inserts it.
`advanceLiveRoundLifecycle` says it never regresses (`live-round-state.ts:241`), but
other writers may take a round from FEEDBACK_APPLIED back to ENDED or STARTED; the
stuck recovery is the only reader that decides by it, and `GradedIsMatched` and
`CrashedRowLeaves` hold all the same.

Authority. The epoch is documented as monotone (`migrations/0025:4-7`), but
`acquireWorkerLock` deletes an expired row first, and the insert that follows starts at
1 again. A heartbeat revives an expired lease that nobody took. There is no heartbeat
during the start. Authority is asked on entry of a handler and not after its awaits.
A SIGTERM during boot exits without releasing. A demotion lasts as long as the process.

## 5. What is proved

All theorems are about the specification with any constants that satisfy the named
assumption of its module (`OwnerAssumption`, `CoordinatorAssumption`,
`HandoffAssumption`, `OutboxAssumption`, `SettlementAssumption`,
`AuthorityAssumption`), which TLC evaluates on the instances above.

**`TargetCoordinator_proofs`**: `CoordinatorTypes`, `CoordinatorCoherent`,
`CoordinatorExclusive`, `CoordinatorHolders`, `CoordinatorGates`,
`CoordinatorClosedStays`, `CoordinatorBounded`, `CoordinatorImplementsOwnership`.
`OnePrimaryHolder` is not inductive: nothing in it says that a holder is the owner of
record, so a second primary could be granted the target. `IInv` adds
`HolderIsOwnerOrClosed`, which in turn needs `Coherent`, since grants read `state` and
`completed` while the argument is about owners. `CoordinatorGates` assumes that some PR
or BG owner exists: without one "no other primary owner would be granted" is empty.
`CoordinatorBounded` (no run checks it) needs facts about cardinalities: prune leaves
at most the limit, and the call after it adds at most one entry.

**`PredictionHandoff_proofs`** has two independent invariants. `CInv` (`Backed` and
`ArmedClosesTarget`) is about the claim: an open claim of a BG or ED owner has an
attempt of that owner that will still come to resolve it. That is stronger than being
in flight: an attempt on its way back with a selectivity NO_BET has closed its claim
already and will do nothing for one that was granted since.
From it follow `OpenClaimsAreWorkedOn`, `ArmingClosesTarget` and
`NothingBeginsAfterArm`. `RInv` (`RowsInv` and `ValInv`) is about the tables: a round
has one unresolved row, retired rows included; a matched row was graded; a validator
whose grading took effect is alone with its round, which has not armed yet. From it
follow `RoundsAreGradedOnce` and `OneSignal`. `GradedLossesArm` adds `LossesArm` to
`RInv`: only a grading adds to `graded`, its run answers for it, and what ends the
answer arms a loss (`LossesStep`).

**`NotificationOutbox_proofs`**: `OutboxTypes`, `OutboxKeepsPromise`,
`DuplicatesHaveCauses`, `KilledStaysUnsent`, `FilterIsComplete`, `NoWakeIsLost`. The
promise alone is not inductive: that a row may be sent says nothing of what was sent
before. `Paid` says where a row can be that was shown once more than the doubts
account for: about to be recorded, at a place where no claim finds it, or started, so
that every claim of it is refused; and that a row claimed twice has a doubt to spare. `DeliveredIsOver` says that a dispatch on a
delivered row is one whose finalize lost its reply; `Charged` charges attempts above
the limit to faults; `Lanes` keeps one dispatch per lane; `Remembered` ties kills to
the registry and the filter to the table. `WInv` adds that a signal nobody has tried
is due and latched. `OneCopyWithoutTrouble` bounds the doubts themselves: a row is
doubted at most once per fault or operator retry (`DoubtsCounted`), although one
statement may doubt several rows.

**`Settlement_proofs`**: `SettlementTypes`, `GradedStaysMatched`,
`JobAndMarkerKeepAgreeing`, `FlaggedIsKeptOut`, `ReportsAreCounted`, `LearnsOnce`.
`LearnedOnce` becomes
inductive as `PaidFor`: a job that can be claimed leaves room for one more claim, and
what a process has learned it remembers or is about to, so that a takeover from a
finished owner is seen to be a doubt; `Earned` says that a completing caller has
learned. `FlaggedIsKeptOut` needs that the sweep, which does not ask the registry, finds
nothing nobody is at work on. That is `Attended`: a grading is marked, skipped, in the
feedback, or still before the registry. It is kept because a caller leaves the feedback
without a mark only when another one will set it (`Orderly`: a job that is PROCESSING
has an owner at work, a completed one its marker). Both hold as long as `faults` is 0.
`ReportsAreCounted` is inductive as it stands, with the types.
`SettlementKeepsPromise` is the refinement of `SettlementPromise`; it needs `PaidFor`
(`LearningIsPaidFor`), `JobAndMarkerAgree`, and `OnlyGraded`: whoever is on the way from the
grading to the feedback has a grading behind it. `PromisedLearningHasCauses` proves of
the promise alone that only graded predictions are learned, and `LearnsOnlyGraded`
brings that back to the settlement.

**`WorkerAuthority_proofs`**: `AuthorityTypes`, `DemotedNeverHolds`, `OverlapBounded`,
`TakeoverIsProved`. `OverlapIsShort` becomes inductive as a budget (`WithinBudget`): a
live worker without its row has been so for no longer than an interval for its strike
and the one that is running. The theorem holds for every lease and interval.
`AuthorityKeepsPromise` is the refinement of `LeasePromise`, action by action, from
type correctness alone: the guards of the statements on the row, not the history of the
workers, make every step one of the promise.

Only model-checked: `BgEdClaimResolves`, `EveryRowSettles`, `CrashedRowLeaves`,
`FeedbackSettles` and `SomeoneServes`, since liveness under fairness and ENABLED are
beyond the prover.

## 6. Not modelled

Inside the modelled components:

- Coordinator: `peekClaim` and the wording of reasons (read-only); entries expire by
  age only when the map is above its limit, as in the code.
- Handlers: PR and BG with their toggles off; the event log; eviction of the ED ledger,
  which needs hundreds of rounds.
- Predictor: `onGameStart`, the numbers behind the window and the gate, the audit.
- Cooldown: persistence, restore and non-numeric round ids. A crash between arming and
  the persist of the next event-loop turn loses the skip, and so does a restart after
  the skip was consumed.
- Registry: the flag "past its betting window" only; not the median of windows.
- Outbox: secondary chats, receipts and telemetry, the claim in two statements for old
  databases, recoveries that overlap, loss of authority. A pass of the normal lane that
  fails drops the rows of the chunks it had not begun (`Unbegun`; the instances have one
  result, so only the proofs reach it), but no new pass begins beside the sends that it
  left under way.
- Settlement: how often the rolling state takes a round (only whether), ACIE beside it,
  the rolling performance of the registry, its limit of 2000 records, the repair of
  tables of older migrations, the eviction of remembered ids above 5000, classification of the result, the other columns of `live_round_state`
  and its helpers without a caller (`hasTargetStarted`, `markReconciled`, ...).
- Authority: the health rows, the other timers of the supervisor, the epoch. In the
  other modules the worker is authoritative throughout: what a handler that has passed
  its check still writes after the lease is lost is not covered by `OverlapIsShort`.

Whole components, by reason:

- *Floating-point numerics*, whose outcome is a free choice wherever the protocols meet
  it: prediction engine, models, features, ACIE, incremental state, adaptive edge,
  model lifecycle. They are most of the code by lines, which is why the map covers a
  small share of the repository although it covers the protocols of the worker.
- *Input, output and presentation*: transports, ingest, history API, HTTP server,
  database pools, Telegram client, user interface, scripts, observability, retention.
  What the models keep of them is how they fail: frames lost, late or repeated,
  statements that fail before or after taking effect, sends whose reply is lost.
- *In-memory lists and statistics* without concurrency: live history buffer, gate cache.
- *Not used by the worker*: authentication, app data, multiplayer.
