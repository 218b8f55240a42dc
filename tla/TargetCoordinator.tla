-------------------------- MODULE TargetCoordinator --------------------------
(***************************************************************************)
(* src/lib/prediction/live/target-coordinator.ts: the in-process map of    *)
(* claims that decides which event path (PR, BG, ED or RECOVERY) computes  *)
(* the prediction of a target round.  The functions are synchronous, so    *)
(* each call is one action; callers are arbitrary here and may call any    *)
(* function, for any target and with any owner, in any order.              *)
(***************************************************************************)
EXTENDS ClaimOps

CONSTANTS
  Target,       \* game ids of target rounds
  MaxEntries    \* MAX_ENTRIES (500 in the source)

ASSUME CoordinatorAssumption == IsFiniteSet(Target) /\ MaxEntries \in Nat

VARIABLES
  claims,       \* the Map, with NoClaim for an absent key
  holders,      \* history: owners told owned:true that have not given up since
  forgotten     \* history: targets that prune has deleted at some time

vars == <<claims, holders, forgotten>>

Live(cl) == {t \in Target : cl[t] # NoClaim}

(* Slip: pruning starts at the limit instead of above it *)
PruneChoicesEarly(cl) ==
  IF Cardinality(Live(cl)) < MaxEntries THEN {{}}
  ELSE {D \in SUBSET Live(cl) : {t \in Live(cl) : cl[t].completed} \subseteq D}

(* prune(): above the limit, completed and aged entries go, then the       *)
(* oldest until MaxEntries are left.  Ages are arbitrary.                  *)
PruneChoices(cl) ==
  IF Cardinality(Live(cl)) <= MaxEntries THEN {{}}
  ELSE {D \in SUBSET Live(cl) :
          /\ {t \in Live(cl) : cl[t].completed} \subseteq D
          /\ Cardinality(Live(cl) \ D) <= MaxEntries}

Pruned(cl, D) == [t \in Target |-> IF t \in D THEN NoClaim ELSE cl[t]]

Init ==
  /\ claims = [t \in Target |-> NoClaim]
  /\ holders = [t \in Target |-> {}]
  /\ forgotten = {}

(* Calls that prune first *)
reservePrimary(t, o) ==
  /\ isPrimarySource(o)
  /\ \E D \in PruneChoices(claims) :
       LET cl == Pruned(claims, D) IN
       /\ claims' = [cl EXCEPT ![t] = AfterReserve(@, o)]
       /\ holders' = IF ReserveGranted(cl[t], o)
                     THEN [holders EXCEPT ![t] = @ \cup {o}] ELSE holders
       /\ forgotten' = forgotten \cup D

claimTarget(t, o) ==
  \E D \in PruneChoices(claims) :
    LET cl == Pruned(claims, D) IN
    /\ claims' = [cl EXCEPT ![t] = AfterClaim(@, o)]
    /\ holders' = IF ClaimGranted(cl[t], o)
                  THEN [holders EXCEPT ![t] = @ \cup {o}] ELSE holders
    /\ forgotten' = forgotten \cup D

markCooldownSkipTarget(t) ==
  \E D \in PruneChoices(claims) :
    /\ claims' = [Pruned(claims, D) EXCEPT ![t] = AfterCooldownSkip(@)]
    /\ forgotten' = forgotten \cup D
    /\ UNCHANGED holders

(* Calls on an existing entry *)
markRunning(t, o) ==
  /\ isPrimarySource(o)
  /\ claims' = [claims EXCEPT ![t] = AfterMarkRunning(@, o)]
  /\ UNCHANGED <<holders, forgotten>>

completeTarget(t, o, decision) ==
  /\ claims' = [claims EXCEPT ![t] = AfterComplete(@, o, decision)]
  /\ holders' = [holders EXCEPT ![t] = @ \ {o}]
  /\ UNCHANGED forgotten

releaseTarget(t, o) ==
  /\ claims' = [claims EXCEPT ![t] = AfterRelease(@, o)]
  /\ holders' = [holders EXCEPT ![t] = @ \ {o}]
  /\ UNCHANGED forgotten

Next ==
  \E t \in Target :
    \/ \E o \in Owner : reservePrimary(t, o)
    \/ \E o \in Owner : claimTarget(t, o)
    \/ \E o \in Owner : markRunning(t, o)
    \/ \E o \in Owner, d \in {"NO_BET", "SIGNAL"} : completeTarget(t, o, d)
    \/ \E o \in Owner : releaseTarget(t, o)
    \/ markCooldownSkipTarget(t)

Spec == Init /\ [][Next]_vars

-----------------------------------------------------------------------------
(* Properties *)

(* Every variable keeps its shape. *)
TypeOK ==
  /\ claims \in [Target -> Claim]
  /\ holders \in [Target -> SUBSET Owner]
  /\ forgotten \in SUBSET Target

(* The fields of an entry, written by six different functions, agree: an   *)
(* open entry is in a state of its owner's own source, a closed entry is   *)
(* in a terminal state, and only a closed entry can carry noBet.           *)
EntryCoherent(c) ==
  /\ c.completed <=> c.state \in ClosedStates
  /\ c.state = "NO_BET" => c.noBet
  /\ c.noBet => c.completed
  /\ c.owner = Cooldown => c.completed /\ c.noBet
  /\ c.state \in OpenStates =>
       \/ c.state = RunningState(c.owner)
       \/ isPrimarySource(c.owner) /\ c.state = ReservedState(c.owner)

Coherent == \A t \in Target : EntryCoherent(claims[t])

(* At most one PR/BG owner is ever working on a target: a second primary   *)
(* source is refused until the first has completed or released, whatever   *)
(* re-entries, take-overs and cooldown overrides came between.  Pruning a  *)
(* target forgets its owner, so a forgotten target is exempt (the unique   *)
(* indexes of the database are the fence there).                           *)
OnePrimaryHolder ==
  \A t \in Target \ forgotten : \A o, p \in holders[t] :
    isPrimarySource(o) /\ isPrimarySource(p) => o = p

(* What makes it inductive: a primary owner that has not given up is still *)
(* the owner of record, unless the target was closed over its head.        *)
HolderIsOwnerOrClosed ==
  \A t \in Target \ forgotten : \A o \in holders[t] :
    isPrimarySource(o) => claims[t].owner = o \/ claims[t].completed

(* The gates the handlers read before starting work agree with the         *)
(* functions that grant it: isPrimaryOwnedOrTerminal holds exactly when no *)
(* other primary owner would be granted a reservation, and isBgBlocking    *)
(* implies that claimTarget refuses every ED and RECOVERY owner.           *)
GatesAgree ==
  \A t \in Target : LET c == claims[t] IN
    /\ isPrimaryOwnedOrTerminal(c) <=>
         \A o \in {p \in Owner : isPrimarySource(p)} \ {c.owner} : ~ReserveGranted(c, o)
    /\ isBgBlocking(c) =>
         \A o \in {p \in Owner : ~isPrimarySource(p)} : ~ClaimGranted(c, o)

(* The map never holds more than one entry above MAX_ENTRIES, although     *)
(* completeTarget and releaseTarget never prune.                           *)
Bounded == Cardinality(Live(claims)) <= MaxEntries + 1

(* A completed target is never reopened, re-owned for work or released,    *)
(* except by prune above the limit.                                        *)
ClosedStaysClosed ==
  [][\A t \in Target : claims[t].completed =>
        claims'[t].completed \/ Cardinality(Live(claims)) > MaxEntries]_vars

(* The coordinator implements the abstract ownership of targets: every     *)
(* call is a grant, a take-over from a lower tier, a release by the owner, *)
(* a closing, or changes nothing, on one target only.                      *)
StatusOf(c) ==
  IF c = NoClaim THEN [kind |-> "open", by |-> NoOwner]
  ELSE IF c.completed THEN [kind |-> "closed", by |-> NoOwner]
  ELSE [kind |-> "held", by |-> c.owner]

Ownership == INSTANCE TargetOwnership WITH
  Tier   <- [o \in Owner |-> SOURCE_PRIORITY(parseSource(o))],
  Crowds <- {S \in SUBSET Target : Cardinality(S) > MaxEntries},
  status <- [t \in Target |-> StatusOf(claims[t])]

ImplementsOwnership == Ownership!Spec

=============================================================================
