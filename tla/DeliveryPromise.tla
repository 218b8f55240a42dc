--------------------------- MODULE DeliveryPromise ---------------------------
(***************************************************************************)
(* What the notification outbox promises for each row, without lanes,      *)
(* claims or sweeps: delivery is at least once and duplicates have a       *)
(* cause.  A copy may be shown again only when the code has lost track of  *)
(* an earlier one (a doubt); a row counts as delivered only after a copy   *)
(* was shown; a delivered row is touched again only after a doubt.         *)
(***************************************************************************)
EXTENDS Naturals

CONSTANT Row
VARIABLE rows   \* fate, copies shown and doubts of each row

New == [fate |-> "none", copies |-> 0, doubts |-> 0]

MayShow(o, n) ==
  \/ n.copies = o.copies
  \/ n.copies = o.copies + 1 /\ o.copies <= o.doubts /\ o.fate # "none"

MayDoubt(o, n) == n.doubts = o.doubts \/ (n.doubts = o.doubts + 1 /\ o.fate # "none")

MayMove(o, n) ==
  \/ n.fate = o.fate
  \/ o.fate = "none" /\ n.fate = "open"
  \/ o.fate = "open" /\ n.fate = "delivered" /\ o.copies > 0
  \/ o.fate = "open" /\ n.fate = "dropped"
  \/ o.fate = "dropped" /\ n.fate = "open"
  \/ o.fate = "delivered" /\ n.fate \in {"open", "dropped"} /\ o.doubts > 0

Init == rows = [r \in Row |-> New]
Next == \A r \in Row :
  MayShow(rows[r], rows'[r]) /\ MayDoubt(rows[r], rows'[r]) /\ MayMove(rows[r], rows'[r])
Spec == Init /\ [][Next]_rows

(* The consequence a reader of the chat cares about *)
CopiesHaveCauses == \A r \in Row : rows[r].copies <= rows[r].doubts + 1
=============================================================================
