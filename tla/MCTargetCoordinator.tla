------------------------- MODULE MCTargetCoordinator -------------------------
(***************************************************************************)
(* Two targets with a limit of one entry, so that prune runs and must      *)
(* choose; one owner of every source, so that PR races BG, ED is taken     *)
(* over and takes over, and RECOVERY is refused.                           *)
(***************************************************************************)
EXTENDS TargetCoordinator, TLC

CONSTANTS t1, t2, pr, bg, ed, poll

MCTarget == {t1, t2}
MCOwner == {pr, bg, ed, poll}
MCSourceOf == pr :> "PR" @@ bg :> "BG" @@ ed :> "ED" @@ poll :> "RECOVERY"

TargetsAlike == Permutations(MCTarget)

=============================================================================
