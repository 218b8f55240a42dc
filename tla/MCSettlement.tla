----------------------------- MODULE MCSettlement -----------------------------
(***************************************************************************)
(* Two reports of the round, one by a frame and one by the poll, and one   *)
(* sweep at a time.                                                        *)
(***************************************************************************)
EXTENDS Settlement, TLC

CONSTANTS r1, r2, w1

MCRun == {r1, r2}
MCEager == {r1}
MCSweep == {w1}

=============================================================================
