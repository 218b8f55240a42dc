--------------------------- MODULE SettlementPromise ---------------------------
(***************************************************************************)
(* What the settlement promises for one prediction, without runs, sweeps,  *)
(* jobs or timers.  It is open until it is cancelled or graded, and a      *)
(* grading, which may overrule a cancellation, is final.  Nothing is       *)
(* learned from it before it is graded, and a process learns it once, or   *)
(* once more each time it cannot know whether somebody else holds the      *)
(* claim (a doubt).  The mark that it is done with is set only when it was *)
(* learned or claimed for good, and is never taken back.  A restarted      *)
(* process has learned nothing.                                            *)
(***************************************************************************)
EXTENDS Naturals

VARIABLES
  verdict,     \* "open", "cancelled" or "graded"
  taught,      \* how often this process has learned it
  doubts,      \* how often this process could not know
  accounted,   \* some process has learned it or claimed it for good
  marked       \* it is marked as done with

vars == <<verdict, taught, doubts, accounted, marked>>

Init == verdict = "open" /\ taught = 0 /\ doubts = 0 /\ accounted = FALSE /\ marked = FALSE

Judged == verdict = "graded"

(* The ways each part may move in one step *)
Verdicts ==
  {<<"open", "cancelled">>, <<"open", "graded">>, <<"cancelled", "graded">>}

MayRule == verdict' = verdict \/ <<verdict, verdict'>> \in Verdicts

MayLearn ==
  \/ taught' = taught /\ doubts' = doubts
  \/ Judged /\ taught' = taught /\ doubts' = doubts + 1
  \/ Judged /\ taught <= doubts /\ taught' = taught + 1 /\ doubts' = doubts /\ accounted'

MayAccount == accounted' = accounted \/ (Judged /\ accounted')

MayMark == marked' = marked \/ (Judged /\ accounted' /\ marked')

Work == MayRule /\ MayLearn /\ MayAccount /\ MayMark

Restart == taught' = 0 /\ doubts' = 0 /\ UNCHANGED <<verdict, accounted, marked>>

Next == Work \/ Restart

Spec == Init /\ [][Next]_vars

(* What was learned was graded, and no more often than there were causes;  *)
(* the mark is not given for nothing.                                      *)
LearningHasCauses ==
  /\ taught > 0 => Judged /\ accounted
  /\ taught <= 1 + doubts
  /\ marked => Judged /\ accounted

=============================================================================
