------------------------------ MODULE ClaimOps ------------------------------
(***************************************************************************)
(* The claim on ONE prediction target, as target-coordinator.ts keeps it,  *)
(* and what each exported function does to it.  Pure operators: the state  *)
(* machines TargetCoordinator and PredictionHandoff apply them to a map of *)
(* targets.                                                                *)
(*                                                                         *)
(* An owner stands for an owner string such as "bg:<N>"; all that the code *)
(* ever reads of it is equality and its prefix, so SourceOf gives the      *)
(* source that parseSource reads off the prefix.  claimedAt is left out:   *)
(* only prune reads it, and prune's choice by age is nondeterministic here.*)
(***************************************************************************)
EXTENDS Integers, FiniteSets

CONSTANTS
  Owner,        \* owner strings of the PR, BG, ED and RECOVERY paths
  SourceOf,     \* the source that parseSource reads off an owner string
  Cooldown,     \* the owner string "cooldown:<target>"
  NoOwner       \* the owner field of a target that has no map entry

Source == {"PR", "BG", "ED", "RECOVERY"}

ASSUME OwnerAssumption ==
  /\ SourceOf \in [Owner -> Source]
  /\ Cooldown \notin Owner
  /\ NoOwner \notin Owner
  /\ NoOwner # Cooldown

(* BG_FAILED_RECOVERABLE and COMPLETED of the source's union type are      *)
(* never stored in a live entry: releaseTarget deletes the entry in the    *)
(* statement after it assigns the former, nothing assigns the latter.      *)
OpenStates == {"RESERVED_PR", "PR_RUNNING", "RESERVED_BG", "BG_RUNNING",
               "ED_RUNNING", "RECOVERY_RUNNING"}
ClosedStates == {"SIGNAL_READY", "NO_BET"}

Entry == [owner     : Owner \cup {Cooldown},
          state     : OpenStates \cup ClosedStates,
          completed : BOOLEAN,
          noBet     : BOOLEAN]

NoClaim == [owner |-> NoOwner, state |-> "NONE",
            completed |-> FALSE, noBet |-> FALSE]

Claim == Entry \cup {NoClaim}

-----------------------------------------------------------------------------
(* Sources and their tiers *)

SOURCE_PRIORITY(s) == IF s \in {"PR", "BG"} THEN 3 ELSE IF s = "ED" THEN 2 ELSE 1

parseSource(o) == IF o \in Owner THEN SourceOf[o] ELSE "ED"

isPrimarySource(o) == parseSource(o) \in {"PR", "BG"}

Outranks(o, p) == SOURCE_PRIORITY(parseSource(o)) > SOURCE_PRIORITY(parseSource(p))

ReservedState(o) == IF parseSource(o) = "PR" THEN "RESERVED_PR" ELSE "RESERVED_BG"

RunningState(o) ==
  CASE parseSource(o) = "PR"       -> "PR_RUNNING"
    [] parseSource(o) = "BG"       -> "BG_RUNNING"
    [] parseSource(o) = "ED"       -> "ED_RUNNING"
    [] parseSource(o) = "RECOVERY" -> "RECOVERY_RUNNING"

FreshEntry(o, s) == [owner |-> o, state |-> s, completed |-> FALSE, noBet |-> FALSE]

-----------------------------------------------------------------------------
(* reserveTargetForPr / reserveTargetForBg *)

(* Slip: a take-over on equal priority, so BG displaces PR. *)
ReserveGrantedOnTie(c, o) ==
  \/ c = NoClaim
  \/ /\ ~c.completed
     /\ SOURCE_PRIORITY(parseSource(o)) >= SOURCE_PRIORITY(parseSource(c.owner))

ReserveGranted(c, o) ==
  \/ c = NoClaim
  \/ /\ ~c.completed
     /\ \/ c.owner = o
        \/ ~isPrimarySource(c.owner) /\ Outranks(o, c.owner)

AfterReserve(c, o) ==
  IF ReserveGranted(c, o) /\ c.owner # o
  THEN FreshEntry(o, ReservedState(o))
  ELSE c

(* claimTarget: what reserve does, except that re-entry of the holder      *)
(* promotes its reservation to running.                                    *)

ActivePrimary(c) ==
  /\ isPrimarySource(c.owner)
  /\ c.state \in {"RESERVED_BG", "BG_RUNNING", "RESERVED_PR", "PR_RUNNING", "SIGNAL_READY"}

ClaimGranted(c, o) ==
  \/ c = NoClaim
  \/ /\ ~c.completed
     /\ \/ c.owner = o
        \/ ~ActivePrimary(c) /\ Outranks(o, c.owner)

Promoted(c, o) ==
  IF isPrimarySource(o) /\ c.state = ReservedState(o)
  THEN [c EXCEPT !.state = RunningState(o)]
  ELSE c

AfterClaim(c, o) ==
  IF ~ClaimGranted(c, o) THEN c
  ELSE IF c.owner = o THEN Promoted(c, o)
  ELSE FreshEntry(o, RunningState(o))

(* markPrRunning / markBgRunning, for an owner of that source *)
AfterMarkRunning(c, o) == IF c.owner = o THEN Promoted(c, o) ELSE c

(* Slip: the NO_BET branch does not set the noBet flag. *)
AfterCompleteFlagless(c, o, decision) ==
  IF c.owner # o THEN c
  ELSE [c EXCEPT !.completed = TRUE,
                 !.state = IF decision = "NO_BET" THEN "NO_BET" ELSE "SIGNAL_READY"]

(* completeTarget: any repetition by the owner is applied again, and a     *)
(* later SIGNAL leaves the noBet flag of an earlier NO_BET in place.       *)
AfterComplete(c, o, decision) ==
  IF c.owner # o THEN c
  ELSE [owner     |-> o,
        state     |-> IF decision = "NO_BET" THEN "NO_BET" ELSE "SIGNAL_READY",
        completed |-> TRUE,
        noBet     |-> decision = "NO_BET" \/ c.noBet]

(* Slip: a claim some attempt is working on is left alone *)
AfterCooldownSkipIfFree(c) ==
  IF c # NoClaim THEN c
  ELSE [owner |-> Cooldown, state |-> "NO_BET", completed |-> TRUE, noBet |-> TRUE]

(* markCooldownSkipTarget *)
AfterCooldownSkip(c) ==
  IF c.completed /\ c.noBet THEN c
  ELSE [owner |-> Cooldown, state |-> "NO_BET", completed |-> TRUE, noBet |-> TRUE]

(* Slips: a primary owner's entry is marked but not deleted; any owner may *)
(* release; a completed entry is released as well.                         *)
AfterReleaseMarked(c, o) ==
  IF c.owner # o \/ c.completed THEN c
  ELSE IF isPrimarySource(o) THEN [c EXCEPT !.state = "BG_FAILED_RECOVERABLE"] ELSE NoClaim

AfterReleaseAnyOwner(c, o) == IF ~c.completed THEN NoClaim ELSE c

AfterReleaseTerminal(c, o) == IF c.owner = o THEN NoClaim ELSE c

(* releaseTarget *)
AfterRelease(c, o) == IF c.owner = o /\ ~c.completed THEN NoClaim ELSE c

-----------------------------------------------------------------------------
(* Read-only gates the event handlers consult before they start work *)

(* Slip: an ED or RECOVERY holder counts as primary. *)
isPrimaryOwnedOrTerminalAny(c) == c # NoClaim

isPrimaryOwnedOrTerminal(c) == c # NoClaim /\ (c.completed \/ isPrimarySource(c.owner))

isBgBlocking(c) ==
  /\ c # NoClaim
  /\ isPrimarySource(c.owner)
  /\ ActivePrimary(c) \/ c.state = "NO_BET" \/ c.completed

=============================================================================
