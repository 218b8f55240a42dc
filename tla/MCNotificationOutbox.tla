------------------------- MODULE MCNotificationOutbox -------------------------
(***************************************************************************)
(* A signal, alone or with the result that waits for it; two attempts, so  *)
(* that a requeue and a last attempt both happen, and a recovery at every  *)
(* second tick.                                                            *)
(***************************************************************************)
EXTENDS NotificationOutbox, TLC

CONSTANTS s1, v1

MCSignal == {s1}
MCResult == {v1}
MCGates == {<<s1, v1>>}
MCNone == {}

=============================================================================
