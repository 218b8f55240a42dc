------------------------- MODULE MCPredictionHandoff -------------------------
(***************************************************************************)
(* Small instances of PredictionHandoff.                                   *)
(***************************************************************************)
EXTENDS PredictionHandoff, TLC

CONSTANTS pr, bg, ed, poll,             \* owners
          pr1, bg1, bg2, ed1, rec, pl,  \* attempts
          n1, n2, t1, t2                \* validator runs

MCOwner == {pr, bg, ed, poll}
MCSourceOf == pr :> "PR" @@ bg :> "BG" @@ ed :> "ED" @@ poll :> "RECOVERY"

AllOwnerOf == pr1 :> pr @@ bg1 :> bg @@ bg2 :> bg @@ ed1 :> ed @@ rec :> poll @@ pl :> poll
AllRoundOf == n1 :> N @@ n2 :> N @@ t1 :> T @@ t2 :> T

Only(f, S) == [x \in S |-> f[x]]

(* BG delivered twice, ED and poll, without validators *)
Frames == {bg1, ed1, pl}
FramesOwnerOf == Only(AllOwnerOf, Frames)
NoRoundOf == [v \in {} |-> N]

(* PR, and BG delivered twice, against one validation of N *)
TwoBg == {pr1, bg1, bg2}
TwoBgOwnerOf == Only(AllOwnerOf, TwoBg)
TwoBgAlike == Permutations({bg1, bg2})
OneRoundOf == Only(AllRoundOf, {n1})

(* Two stories for one run: the one above, and ED with the recovery it     *)
(* schedules against two validations of each round.  A frame or validation *)
(* that the story does not have is over before it begins.                  *)
Deliveries == TwoBg \cup {ed1, rec}
DeliveriesOwnerOf == Only(AllOwnerOf, Deliveries)
Stories == {TwoBg \cup {n1}, {ed1, rec, n1, n2, t1, t2}}
RunsAlike == {f @@ g : f \in Permutations({n1, n2}), g \in Permutations({t1, t2})}
Alike == {f @@ g : f \in RunsAlike, g \in TwoBgAlike}

Begin(story, f) == [x \in DOMAIN f |-> IF x \in story THEN f[x] ELSE [f[x] EXCEPT !.pc = "done"]]

StoriesInit ==
  \E story \in Stories :
    /\ claim = NoClaim /\ graded = {} /\ skip = NoTarget
    /\ att = Begin(story, [a \in Attempt |-> [pc |-> "idle", kind |-> "none"]])
    /\ val = Begin(story, [v \in Validator |-> [pc |-> "idle", row |-> {}]])
    /\ rows = [p \in Prediction |-> IF p = Seed THEN [pend |-> "unmatched", out |-> "gone"]
                                    ELSE [pend |-> "absent", out |-> "none"]]
    /\ begun = FALSE /\ inFlightBg = FALSE /\ edSeen = FALSE
    /\ lost \in SUBSET {RoundOf[v] : v \in Validator \cap story}
    /\ armed = [r \in {N, T} |-> 0] /\ suppressed = {}

StoriesSpec == StoriesInit /\ [][Next]_vars

=============================================================================
