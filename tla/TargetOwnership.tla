--------------------------- MODULE TargetOwnership ---------------------------
(***************************************************************************)
(* What the target coordinator promises, with no mention of its states:    *)
(* every target is open, held by one owner, or closed.  A held target      *)
(* changes hands only to a strictly higher tier, and stays held otherwise  *)
(* until it is released or closed; a closed target is never reopened,      *)
(* except that when the remembered targets are one of Crowds, the sets too *)
(* large to keep, any of them may be forgotten.                            *)
(***************************************************************************)
EXTENDS Integers

CONSTANTS Target, Owner, Tier, Crowds, NoOwner

VARIABLE status

Open == [kind |-> "open", by |-> NoOwner]
Held(o) == [kind |-> "held", by |-> o]
Closed == [kind |-> "closed", by |-> NoOwner]

Init == status = [t \in Target |-> Open]

Remembered == {t \in Target : status[t] # Open}

(* The step of one target, from s to s1 *)
Grant(s, s1) ==
  \E o \in Owner :
    /\ \/ s = Open
       \/ \E p \in Owner : s = Held(p) /\ Tier[p] < Tier[o]
    /\ s1 = Held(o)

Close(s, s1) == s1 = Closed

Release(s, s1) == s.kind = "held" /\ s1 = Open

Step(s, s1) == s1 = s \/ Grant(s, s1) \/ Close(s, s1) \/ Release(s, s1)

(* Forgetting happens inside an operation, before it looks the target up. *)
Forgettable(F) == F = {} \/ Remembered \in Crowds

Operation(t, F) ==
  /\ Forgettable(F)
  /\ \E s1 \in {Open, Closed} \cup {Held(o) : o \in Owner} :
       /\ Step(IF t \in F THEN Open ELSE status[t], s1)
       /\ status' = [u \in Target |-> IF u = t THEN s1
                                      ELSE IF u \in F THEN Open ELSE status[u]]

Next == \E t \in Target, F \in SUBSET Target : Operation(t, F)

Spec == Init /\ [][Next]_status

=============================================================================
