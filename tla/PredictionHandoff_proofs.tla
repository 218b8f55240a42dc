----------------------- MODULE PredictionHandoff_proofs -----------------------
(***************************************************************************)
(* Theorems about the handoff of one target's prediction, for every set of *)
(* frame deliveries and of validator runs and every assignment of owners.  *)
(***************************************************************************)
EXTENDS PredictionHandoff, TLAPS

Closed(c) == c.completed /\ c.noBet

-----------------------------------------------------------------------------
(* Lemmas about one claim *)

LEMMA NoClaimShape ==
  /\ NoClaim \in Claim
  /\ NoClaim.owner = NoOwner /\ NoClaim.completed = FALSE /\ NoClaim.noBet = FALSE
  BY DEF NoClaim, Claim

LEMMA ClaimShape ==
  ASSUME NEW c \in Claim
  PROVE  /\ c.completed \in BOOLEAN /\ c.noBet \in BOOLEAN
         /\ c # NoClaim => c \in Entry
         /\ \A o \in Owner : c.owner = o => c \in Entry /\ c # NoClaim
         /\ c.completed => c # NoClaim
  <1>1. CASE c = NoClaim
    BY <1>1, NoClaimShape, OwnerAssumption
  <1>2. CASE c \in Entry
    BY <1>2, NoClaimShape, OwnerAssumption DEF Entry
  <1> QED
    BY <1>1, <1>2 DEF Claim

LEMMA OwnerSource ==
  ASSUME NEW o \in Owner
  PROVE  parseSource(o) = SourceOf[o] /\ SourceOf[o] \in Source
  BY OwnerAssumption DEF parseSource

LEMMA FreshShape ==
  ASSUME NEW o \in Owner, NEW s \in OpenStates
  PROVE  /\ FreshEntry(o, s) \in Claim
         /\ FreshEntry(o, s).owner = o /\ ~FreshEntry(o, s).completed
  BY DEF FreshEntry, Claim, Entry

LEMMA StatesOpen ==
  ASSUME NEW o \in Owner
  PROVE  ReservedState(o) \in OpenStates /\ RunningState(o) \in OpenStates
  BY OwnerSource DEF ReservedState, RunningState, OpenStates, Source

(* Promotion changes the state of an entry and nothing else *)
LEMMA PromotedShape ==
  ASSUME NEW c \in Claim, NEW o \in Owner, c.owner = o
  PROVE  /\ Promoted(c, o) \in Claim
         /\ Promoted(c, o).owner = o
         /\ Promoted(c, o).completed = c.completed
         /\ Promoted(c, o).noBet = c.noBet
  <1>1. c \in Entry
    BY ClaimShape
  <1> QED
    BY <1>1, StatesOpen DEF Promoted, Claim, Entry

(* An entry that is complete is neither reserved, claimed nor released. *)
LEMMA CompletedRefuses ==
  ASSUME NEW c \in Claim, NEW o \in Owner, c.completed
  PROVE  /\ ~ClaimGranted(c, o) /\ ~ReserveGranted(c, o)
         /\ AfterReserve(c, o) = c /\ AfterClaim(c, o) = c /\ AfterRelease(c, o) = c
  BY NoClaimShape DEF ClaimGranted, ReserveGranted, AfterReserve, AfterClaim, AfterRelease

LEMMA ReserveShape ==
  ASSUME NEW c \in Claim, NEW o \in Owner
  PROVE  /\ AfterReserve(c, o) \in Claim
         /\ AfterReserve(c, o) = c \/ AfterReserve(c, o).owner = o
  BY FreshShape, StatesOpen DEF AfterReserve

LEMMA ClaimingShape ==
  ASSUME NEW c \in Claim, NEW o \in Owner, ClaimGranted(c, o)
  PROVE  /\ AfterClaim(c, o) \in Claim
         /\ AfterClaim(c, o).owner = o
  BY FreshShape, StatesOpen, PromotedShape DEF AfterClaim

LEMMA RunningShape ==
  ASSUME NEW c \in Claim, NEW o \in Owner
  PROVE  /\ AfterMarkRunning(c, o) \in Claim
         /\ AfterMarkRunning(c, o) = c \/ AfterMarkRunning(c, o).owner = o
         /\ AfterMarkRunning(c, o).completed = c.completed
         /\ AfterMarkRunning(c, o).noBet = c.noBet
  BY PromotedShape DEF AfterMarkRunning

LEMMA CompleteShape ==
  ASSUME NEW c \in Claim, NEW o \in Owner, NEW d \in {"NO_BET", "SIGNAL"}
  PROVE  /\ AfterComplete(c, o, d) \in Claim
         /\ \/ AfterComplete(c, o, d) = c /\ c.owner # o
            \/ AfterComplete(c, o, d).owner = o /\ AfterComplete(c, o, d).completed
         /\ c.owner = o => AfterComplete(c, o, d).completed
         /\ Closed(c) => Closed(AfterComplete(c, o, d))
  BY ClaimShape DEF AfterComplete, Closed, Claim, Entry, ClosedStates

LEMMA ReleaseShape ==
  ASSUME NEW c \in Claim, NEW o \in Owner
  PROVE  /\ AfterRelease(c, o) \in Claim
         /\ AfterRelease(c, o) = c \/ AfterRelease(c, o) = NoClaim
         /\ c.owner = o => AfterRelease(c, o).completed \/ AfterRelease(c, o) = NoClaim
         /\ Closed(c) => AfterRelease(c, o) = c
  BY NoClaimShape DEF AfterRelease, Closed

LEMMA SkipShape ==
  ASSUME NEW c \in Claim
  PROVE  AfterCooldownSkip(c) \in Claim /\ Closed(AfterCooldownSkip(c))
  BY OwnerAssumption DEF AfterCooldownSkip, Closed, Claim, Entry, ClosedStates

-----------------------------------------------------------------------------
(* What an attempt makes of a claim *)

FlightPc == {"hydrating", "persisting", "replied", "returned"}

(* An attempt that will still complete or release its claim: one that      *)
(* comes back with a selectivity NO_BET has closed it already.             *)
Works(a) == InFlight(a) /\ ~(att[a].pc = "returned" /\ att[a].kind = "skipped_no_edge")

Sound(r, c, o) ==
  /\ r.claim \in Claim /\ r.pc \in FlightPc /\ r.kind \in Kinds /\ r.skip \in {NoTarget, skip}
  /\ r.claim = c \/ r.claim = NoClaim \/ r.claim.owner = o
  /\ r.claim.owner = o /\ ~r.claim.completed => ~(r.pc = "returned" /\ r.kind = "skipped_no_edge")
  /\ Closed(c) => Closed(r.claim)

LEMMA GateSound ==
  ASSUME NEW c \in Claim, NEW o \in Owner, NEW r \in GateResults(c, o)
  PROVE  Sound(r, c, o)
  <1>1. CASE r = Result(c, "persisting", "none", skip)
    BY <1>1 DEF Result, Sound, FlightPc, Kinds
  <1>2. CASE \E s \in {NoTarget, skip} :
               r = Result(AfterComplete(c, o, "NO_BET"), "returned", "skipped_no_edge", s)
    BY <1>2, CompleteShape DEF Result, Sound, FlightPc, Kinds
  <1> QED
    BY <1>1, <1>2 DEF GateResults, Returned

LEMMA ComputeSound ==
  ASSUME NEW c \in Claim, NEW o \in Owner, c.owner = o, ~c.completed,
         NEW r \in ComputeResults(c, o)
  PROVE  Sound(r, c, o)
  <1>0. ~Closed(c)
    BY DEF Closed
  <1>1. CASE r = Returned(AfterComplete(c, o, "SIGNAL"), "skipped_window")
    BY <1>1, CompleteShape DEF Returned, Result, Sound, FlightPc, Kinds
  <1>2. CASE \E kind \in {"insufficient_history", "error"} : r = Returned(AfterRelease(c, o), kind)
    BY <1>2, ReleaseShape DEF Returned, Result, Sound, FlightPc, Kinds
  <1>3. CASE r = Returned(c, "exception") \/ r = Result(c, "hydrating", "none", skip)
    BY <1>3 DEF Returned, Result, Sound, FlightPc, Kinds
  <1>4. CASE r \in GateResults(c, o)
    BY <1>4, GateSound
  <1> QED
    BY <1>1, <1>2, <1>3, <1>4 DEF ComputeResults

LEMMA AttemptSound ==
  ASSUME NEW c \in Claim, NEW o \in Owner, NEW r \in AttemptResults(c, o)
  PROVE  /\ Sound(r, c, o)
         /\ Closed(c) => r.pc = "returned"
  <1>1. CASE ~ClaimGranted(c, o)
    BY <1>1 DEF AttemptResults, Returned, Result, Sound, FlightPc, Kinds
  <1>2. CASE ClaimGranted(c, o)
    <2>1. ~c.completed
      BY <1>2, CompletedRefuses
    <2>2. AfterClaim(c, o) \in Claim /\ AfterClaim(c, o).owner = o /\ ~AfterClaim(c, o).completed
      BY <1>2, <2>1, ClaimingShape, PromotedShape, FreshShape, StatesOpen DEF AfterClaim
    <2>3. Sound(r, AfterClaim(c, o), o)
      BY <1>2, <2>2, ComputeSound DEF AttemptResults
    <2> QED
      BY <2>1, <2>2, <2>3 DEF Sound, Closed
  <1> QED
    BY <1>1, <1>2

(* What BG and ED make of the claim when their attempt is back *)
LEMMA HandlerShape ==
  ASSUME claim \in Claim, NEW a \in Attempt
  PROVE  /\ HandlerCloses(a) \in Claim
         /\ \/ HandlerCloses(a) = claim /\ (claim.owner = OwnerOf[a] => att[a].kind = "skipped_no_edge")
            \/ HandlerCloses(a) = NoClaim
            \/ HandlerCloses(a).completed
         /\ Closed(claim) => Closed(HandlerCloses(a))
  <1> DEFINE o == OwnerOf[a]
  <1>0. o \in Owner
    BY HandoffAssumption
  <1>1. CASE HandlerCloses(a) = AfterComplete(claim, o, "SIGNAL")
    BY <1>0, <1>1, CompleteShape
  <1>2. CASE HandlerCloses(a) = claim /\ att[a].kind = "skipped_no_edge"
    BY <1>2
  <1>3. CASE HandlerCloses(a) = AfterRelease(claim, o)
    BY <1>0, <1>3, ReleaseShape
  <1> QED
    BY <1>1, <1>2, <1>3 DEF HandlerCloses

-----------------------------------------------------------------------------
(* The claim on T *)

NeedsWork(c) == c # NoClaim /\ ~c.completed /\ parseSource(c.owner) \in {"BG", "ED"}

(* An open claim of a BG or ED owner has an attempt that will resolve it *)
Backed == NeedsWork(claim) => \E a \in Attempt : OwnerOf[a] = claim.owner /\ Works(a)

CInv == TypeOK /\ Backed /\ ArmedClosesTarget

(* What every step keeps: an attempt that has not begun stays away from    *)
(* the computation once the cooldown was armed.                            *)
Away ==
  armed[N] > 0 => \A a \in Attempt :
    att[a].pc \in {"idle", "checking", "cleared"} => att'[a].pc \notin {"hydrating", "persisting"}

ClaimStep == TypeOK' /\ Backed' /\ ArmedClosesTarget' /\ Away

LEMMA HandoffTypes ==
  ASSUME TypeOK, NEW a \in Attempt
  PROVE  /\ OwnerOf[a] \in Owner /\ Src(a) = SourceOf[OwnerOf[a]]
         /\ claim \in Claim /\ skip \in {NoTarget, N, T, T + 1}
         /\ armed[N] \in Nat
         /\ att[a].pc \in AttPc /\ att[a].kind \in Kinds
  BY HandoffAssumption DEF TypeOK, Src, N, T

(* Only the attempt a moves *)
Moved(a) ==
  /\ att' \in [Attempt -> [pc : AttPc, kind : Kinds]]
  /\ \A b \in Attempt \ {a} : att'[b] = att[b]

LEMMA MovesPc ==
  ASSUME TypeOK, NEW a \in Attempt, NEW pc \in AttPc, att' = [att EXCEPT ![a].pc = pc]
  PROVE  Moved(a) /\ att'[a].pc = pc /\ att'[a].kind = att[a].kind
  BY DEF TypeOK, Moved

LEMMA OneMoves ==
  ASSUME CInv, NEW a \in Attempt, Moved(a),
         claim' \in Claim, skip' \in {NoTarget, N, T, T + 1},
         rows' \in [Prediction -> [pend : {"absent", "unmatched", "retired", "matched"},
                                   out  : {"none", "live", "gone"}]],
         begun' \in BOOLEAN, inFlightBg' \in BOOLEAN, edSeen' \in BOOLEAN,
         UNCHANGED validation,
         Closed(claim) => Closed(claim'),
         \/ claim' = NoClaim \/ claim'.completed
         \/ claim'.owner = OwnerOf[a] /\ Works(a)'
         \/ claim' = claim /\ (NeedsWork(claim) /\ claim.owner = OwnerOf[a] /\ Works(a) => Works(a)'),
         armed[N] > 0 /\ att[a].pc \in {"idle", "checking", "cleared"} =>
           att'[a].pc \notin {"hydrating", "persisting"}
  PROVE  ClaimStep
  <1>1. att' \in [Attempt -> [pc : AttPc, kind : Kinds]]
        /\ \A b \in Attempt \ {a} : att'[b] = att[b]
    BY DEF Moved
  <1>2. TypeOK'
    BY <1>1 DEF CInv, TypeOK, validation
  <1>3. Backed'
    BY <1>1, ClaimShape, NoClaimShape DEF CInv, Backed, NeedsWork, Works, InFlight
  <1>4. ArmedClosesTarget'
    BY DEF CInv, ArmedClosesTarget, Closed, validation
  <1>5. Away
    BY <1>1 DEF Away, CInv, TypeOK
  <1> QED
    BY <1>2, <1>3, <1>4, <1>5 DEF ClaimStep

(* An attempt that has nothing to resolve goes on or ends *)
LEMMA StandsBack ==
  ASSUME CInv, NEW a \in Attempt, NEW pc \in AttPc \ {"hydrating", "persisting"},
         att' = [att EXCEPT ![a].pc = pc], ~Works(a), UNCHANGED <<claim, skip, rows>>,
         begun' \in BOOLEAN, inFlightBg' \in BOOLEAN, edSeen' \in BOOLEAN, UNCHANGED validation
  PROVE  ClaimStep
  <1>1. Moved(a) /\ att'[a].pc = pc
    BY MovesPc DEF CInv
  <1>2. /\ claim' \in Claim /\ skip' \in {NoTarget, N, T, T + 1}
        /\ rows' \in [Prediction -> [pend : {"absent", "unmatched", "retired", "matched"},
                                     out  : {"none", "live", "gone"}]]
    BY HandoffTypes DEF CInv, TypeOK
  <1>3. \/ claim' = NoClaim \/ claim'.completed
        \/ claim'.owner = OwnerOf[a] /\ Works(a)'
        \/ claim' = claim /\ (NeedsWork(claim) /\ claim.owner = OwnerOf[a] /\ Works(a) => Works(a)')
    OBVIOUS
  <1>4. Closed(claim) => Closed(claim')
    OBVIOUS
  <1> QED
    BY <1>1, <1>2, <1>3, <1>4, OneMoves

(* A fresh attempt on a claim that is as it was, or its owner's *)
LEMMA FreshAttempt ==
  ASSUME CInv, NEW a \in Attempt, NEW c \in Claim,
         c = claim \/ c.owner = OwnerOf[a], Closed(claim) => Closed(c),
         att[a].pc \in {"idle", "cleared"}, AttemptFrom(a, c),
         rows' = rows, begun' \in BOOLEAN, inFlightBg' \in BOOLEAN, edSeen' \in BOOLEAN,
         UNCHANGED validation
  PROVE  ClaimStep
  <1>1. PICK r \in AttemptResults(c, OwnerOf[a]) : Apply(a, r)
    BY DEF AttemptFrom
  <1>2. Sound(r, c, OwnerOf[a]) /\ (Closed(c) => r.pc = "returned")
    BY AttemptSound, HandoffTypes DEF CInv
  <1>3. r.pc \in AttPc /\ r.kind \in Kinds /\ r.claim \in Claim /\ r.skip \in {NoTarget, N, T, T + 1}
    BY <1>2, HandoffTypes DEF Sound, CInv, AttPc, FlightPc
  <1>4. claim' = r.claim /\ skip' = r.skip /\ att' = [att EXCEPT ![a] = [pc |-> r.pc, kind |-> r.kind]]
    BY <1>1 DEF Apply
  <1>m. Moved(a) /\ att'[a].pc = r.pc /\ att'[a].kind = r.kind
    BY <1>3, <1>4 DEF CInv, TypeOK, Moved
  <1>5. r.claim.owner = OwnerOf[a] => r.claim.completed \/ Works(a)'
    BY <1>2, <1>m DEF Sound, FlightPc, Works, InFlight
  <1>6. ~Works(a)
    BY DEF Works, InFlight
  <1>7. armed[N] > 0 => r.pc = "returned"
    BY <1>2 DEF CInv, ArmedClosesTarget, Closed
  <1>8. \/ claim' = NoClaim \/ claim'.completed
        \/ claim'.owner = OwnerOf[a] /\ Works(a)'
        \/ claim' = claim /\ (NeedsWork(claim) /\ claim.owner = OwnerOf[a] /\ Works(a) => Works(a)')
    BY <1>2, <1>4, <1>5, <1>6 DEF Sound
  <1>9. Closed(claim) => Closed(claim')
    BY <1>2, <1>4 DEF Sound
  <1>10. rows' \in [Prediction -> [pend : {"absent", "unmatched", "retired", "matched"},
                                   out  : {"none", "live", "gone"}]]
    BY DEF CInv, TypeOK
  <1>11. claim' \in Claim /\ skip' \in {NoTarget, N, T, T + 1}
    BY <1>3, <1>4
  <1>12. armed[N] > 0 /\ att[a].pc \in {"idle", "checking", "cleared"} =>
           att'[a].pc \notin {"hydrating", "persisting"}
    BY <1>7, <1>m
  <1> QED
    BY <1>m, <1>8, <1>9, <1>10, <1>11, <1>12, OneMoves

LEMMA FrameStep ==
  ASSUME CInv, NEW a \in Attempt, PrFrame(a) \/ BgFrame(a) \/ EdFrame(a) \/ PollMemoryGate(a)
  PROVE  ClaimStep
  <1> DEFINE o == OwnerOf[a]
  <1>0. o \in Owner /\ claim \in Claim /\ att[a].kind \in Kinds /\ att[a].pc = "idle"
        /\ skip \in {NoTarget, N, T, T + 1}
    BY HandoffTypes DEF CInv, PrFrame, BgFrame, EdFrame, PollMemoryGate
  <1>r. rows \in [Prediction -> [pend : {"absent", "unmatched", "retired", "matched"},
                                   out  : {"none", "live", "gone"}]]
        /\ begun \in BOOLEAN /\ inFlightBg \in BOOLEAN /\ edSeen \in BOOLEAN
    BY DEF CInv, TypeOK
  <1>1. /\ AfterReserve(claim, o) \in Claim
        /\ AfterReserve(claim, o) = claim \/ AfterReserve(claim, o).owner = o
        /\ Closed(claim) => AfterReserve(claim, o) = claim
    BY <1>0, ReserveShape, CompletedRefuses DEF Closed
  <1>2. ~Works(a)
    BY <1>0 DEF Works, InFlight
  <1>4. CASE PrFrame(a)
    <2>1. CASE skip = T
      <3>1. /\ claim' = AfterReserve(claim, o) /\ skip' = NoTarget
            /\ att' = [att EXCEPT ![a].pc = "done"]
            /\ UNCHANGED <<rows, begun, inFlightBg, edSeen, validation>>
        BY <1>4, <2>1 DEF PrFrame, Finish
      <3>2. TypeOK'
        BY <1>0, <1>1, <3>1 DEF CInv, TypeOK, validation, AttPc
      <3>3. \A b \in Attempt : b # a => att'[b] = att[b]
        BY <3>1
      <3>4. Src(a) = "PR" /\ parseSource(o) = "PR"
        BY <1>0, <1>4, OwnerSource DEF PrFrame, Src
      <3>5. Backed'
        BY <1>1, <1>2, <3>1, <3>3, <3>4 DEF CInv, Backed, NeedsWork, Works, InFlight
      <3>6. ArmedClosesTarget' /\ Away
        BY <1>1, <3>1, <3>3 DEF CInv, ArmedClosesTarget, Closed, Away, validation, TypeOK
      <3> QED
        BY <3>2, <3>5, <3>6 DEF ClaimStep
    <2>2. CASE skip # T
      <3> DEFINE c == AfterMarkRunning(AfterReserve(claim, o), o)
      <3>1. /\ c \in Claim /\ (c = claim \/ c.owner = o)
            /\ Closed(claim) => Closed(c)
        BY <1>0, <1>1, RunningShape DEF Closed
      <3>2. AttemptFrom(a, c) /\ UNCHANGED <<rows, begun, inFlightBg, edSeen, validation>>
        BY <1>4, <2>2 DEF PrFrame
      <3> QED
        BY <1>0, <1>r, <3>1, <3>2, FreshAttempt
    <2> QED
      BY <2>1, <2>2
  <1>5. CASE BgFrame(a)
    <2>1. CASE att' = Finish(a) /\ UNCHANGED <<claim, skip>>
      BY <1>r, <1>2, <1>5, <2>1, StandsBack DEF BgFrame, Finish, AttPc
    <2>2. CASE AttemptFrom(a, AfterReserve(claim, o))
      BY <1>0, <1>r, <1>1, <1>5, <2>2, FreshAttempt DEF BgFrame
    <2> QED
      BY <1>5, <2>1, <2>2 DEF BgFrame
  <1>6. CASE EdFrame(a)
    <2>1. CASE att' = Finish(a) /\ UNCHANGED <<claim, skip>>
      BY <1>r, <1>2, <1>6, <2>1, StandsBack DEF EdFrame, Finish, AttPc
    <2>2. CASE AttemptFrom(a, claim)
      BY <1>0, <1>r, <1>6, <2>2, FreshAttempt DEF EdFrame
    <2> QED
      BY <1>6, <2>1, <2>2 DEF EdFrame
  <1>7. CASE PollMemoryGate(a)
    BY <1>r, <1>2, <1>7, StandsBack DEF PollMemoryGate, AttPc
  <1> QED
    BY <1>4, <1>5, <1>6, <1>7

(* Steps that move one attempt and the claim *)
LEMMA ContinueStep ==
  ASSUME CInv, NEW a \in Attempt, Continue(a)
  PROVE  ClaimStep
  <1> DEFINE o == OwnerOf[a]
  <1>0. o \in Owner /\ claim \in Claim /\ att[a].kind \in Kinds
        /\ skip \in {NoTarget, N, T, T + 1} /\ Src(a) = SourceOf[o] /\ parseSource(o) = SourceOf[o]
    BY HandoffTypes, OwnerSource DEF CInv
  <1>r. rows \in [Prediction -> [pend : {"absent", "unmatched", "retired", "matched"},
                                   out  : {"none", "live", "gone"}]]
        /\ begun \in BOOLEAN /\ inFlightBg \in BOOLEAN /\ edSeen \in BOOLEAN
    BY DEF CInv, TypeOK
  <1>1. CASE PollDbGate(a)
    <2>1. PICK pc \in {"cleared", "done"} : att' = [att EXCEPT ![a].pc = pc]
      BY <1>1 DEF PollDbGate
    <2>2. ~Works(a) /\ begun' \in BOOLEAN
      BY <1>1, <1>r DEF PollDbGate, Works, InFlight
    <2> QED
      BY <1>1, <1>r, <2>1, <2>2, StandsBack DEF PollDbGate, AttPc
  <1>2. CASE PollAttempt(a)
    BY <1>0, <1>r, <1>2, FreshAttempt DEF PollAttempt
  <1>3. CASE Hydrated(a)
    <2>1. PICK r \in {Returned(AfterRelease(claim, o), "error"), Returned(claim, "exception")}
                     \cup GateResults(claim, o) : Apply(a, r)
      BY <1>3 DEF Hydrated
    <2>2. Sound(r, claim, o)
      <3>1. CASE r = Returned(AfterRelease(claim, o), "error")
        BY <1>0, <3>1, ReleaseShape DEF Returned, Result, Sound, FlightPc, Kinds
      <3>2. CASE r = Returned(claim, "exception")
        BY <1>0, <3>2 DEF Returned, Result, Sound, FlightPc, Kinds
      <3>3. CASE r \in GateResults(claim, o)
        BY <1>0, <3>3, GateSound
      <3> QED
        BY <2>1, <3>1, <3>2, <3>3
    <2>3. claim' = r.claim /\ skip' = r.skip /\ att' = [att EXCEPT ![a] = [pc |-> r.pc, kind |-> r.kind]]
      BY <2>1 DEF Apply
    <2>m. Moved(a) /\ att'[a].pc = r.pc /\ att'[a].kind = r.kind
      <3>1. r.pc \in AttPc /\ r.kind \in Kinds
        BY <2>2 DEF Sound, AttPc, FlightPc
      <3> QED
        BY <2>3, <3>1 DEF CInv, TypeOK, Moved
    <2>4. r.claim.owner = o => r.claim.completed \/ Works(a)'
      BY <2>2, <2>m DEF Sound, FlightPc, Works, InFlight
    <2>5. /\ r.pc \in AttPc /\ r.kind \in Kinds /\ claim' \in Claim
          /\ skip' \in {NoTarget, N, T, T + 1}
      BY <1>0, <2>2, <2>3 DEF Sound, AttPc, FlightPc
    <2>6. \/ claim' = NoClaim \/ claim'.completed
          \/ claim'.owner = o /\ Works(a)'
          \/ claim' = claim /\ (NeedsWork(claim) /\ claim.owner = o /\ Works(a) => Works(a)')
      BY <2>2, <2>3, <2>4 DEF Sound, NeedsWork
    <2>7. Closed(claim) => Closed(claim')
      BY <2>2, <2>3 DEF Sound
    <2>8. att[a].pc = "hydrating"
      BY <1>3 DEF Hydrated
    <2> QED
      BY <1>3, <1>r, <2>m, <2>5, <2>6, <2>7, <2>8, OneMoves DEF Hydrated
  <1>4. CASE StoreFails(a) \/ Store(a)
    <2>1. /\ att[a].pc = "persisting"
          /\ \E kind \in {"persist_failed", "duplicate", "predicted"} :
               att' = [att EXCEPT ![a] = [pc |-> "replied", kind |-> kind]]
          /\ UNCHANGED <<claim, skip, begun, inFlightBg, edSeen, validation>>
      BY <1>4 DEF StoreFails, Store, Replied
    <2>2. rows' \in [Prediction -> [pend : {"absent", "unmatched", "retired", "matched"},
                                    out  : {"none", "live", "gone"}]]
      BY <1>4, <1>r DEF StoreFails, Store
    <2>3. PICK kind \in Kinds : att' = [att EXCEPT ![a] = [pc |-> "replied", kind |-> kind]]
      BY <2>1 DEF Kinds
    <2>m. Moved(a) /\ att'[a].pc = "replied"
      BY <2>3 DEF CInv, TypeOK, Moved, AttPc
    <2>4. Works(a)'
      BY <2>m DEF Works, InFlight
    <2>5. \/ claim' = NoClaim \/ claim'.completed
          \/ claim'.owner = o /\ Works(a)'
          \/ claim' = claim /\ (NeedsWork(claim) /\ claim.owner = o /\ Works(a) => Works(a)')
      BY <2>1, <2>4
    <2>6. claim' \in Claim /\ skip' \in {NoTarget, N, T, T + 1}
          /\ (Closed(claim) => Closed(claim'))
      BY <1>0, <2>1
    <2> QED
      BY <1>r, <2>1, <2>2, <2>m, <2>5, <2>6, OneMoves
  <1>5. CASE Resume(a)
    <2>1. /\ att[a].pc = "replied" /\ att' = [att EXCEPT ![a].pc = "returned"]
          /\ \/ claim' = AfterRelease(claim, o)
             \/ claim' = AfterComplete(claim, o, "SIGNAL")
          /\ UNCHANGED <<rows, skip, begun, inFlightBg, edSeen, validation>>
      BY <1>5 DEF Resume
    <2>2. Moved(a) /\ att'[a].pc = "returned"
      BY <2>1, MovesPc DEF CInv, AttPc
    <2>3. claim' \in Claim /\ (Closed(claim) => Closed(claim'))
      BY <1>0, <2>1, ReleaseShape, CompleteShape
    <2>4. \/ claim' = NoClaim \/ claim'.completed
          \/ claim' = claim /\ claim.owner # o
      BY <1>0, <2>1, ReleaseShape, CompleteShape
    <2>5. \/ claim' = NoClaim \/ claim'.completed
          \/ claim'.owner = o /\ Works(a)'
          \/ claim' = claim /\ (NeedsWork(claim) /\ claim.owner = o /\ Works(a) => Works(a)')
      BY <2>4
    <2>6. skip' \in {NoTarget, N, T, T + 1}
      BY <1>0, <2>1 DEF AttPc
    <2> QED
      BY <1>0, <1>r, <2>1, <2>2, <2>3, <2>5, <2>6, OneMoves
  <1>6. CASE ReturnToPrOrRecovery(a)
    <2>1. /\ att[a].pc = "returned" /\ att' = [att EXCEPT ![a].pc = "done"]
          /\ UNCHANGED <<claim, rows, skip, begun, inFlightBg, edSeen, validation>>
      BY <1>6 DEF ReturnToPrOrRecovery, Finish
    <2>2. Moved(a) /\ att'[a].pc = "done"
      BY <2>1, MovesPc DEF CInv, AttPc
    <2>3. NeedsWork(claim) => claim.owner # o
      BY <1>0, <1>6 DEF ReturnToPrOrRecovery, NeedsWork
    <2>5. \/ claim' = NoClaim \/ claim'.completed
          \/ claim'.owner = o /\ Works(a)'
          \/ claim' = claim /\ (NeedsWork(claim) /\ claim.owner = o /\ Works(a) => Works(a)')
      BY <2>1, <2>3
    <2>6. skip' \in {NoTarget, N, T, T + 1} /\ claim' \in Claim
          /\ (Closed(claim) => Closed(claim'))
      BY <1>0, <2>1 DEF AttPc
    <2> QED
      BY <1>0, <1>r, <2>1, <2>2, <2>5, <2>6, OneMoves
  <1>7. ASSUME ReturnToBg(a) \/ ReturnToEd(a), claim' = HandlerCloses(a), att' = Finish(a), skip' = skip
        PROVE  ClaimStep
    <2>1. /\ att[a].pc = "returned" /\ att' = [att EXCEPT ![a].pc = "done"]
          /\ UNCHANGED <<rows, skip, begun, inFlightBg, edSeen, validation>>
      BY <1>7 DEF ReturnToBg, ReturnToEd, Finish
    <2>2. Moved(a) /\ att'[a].pc = "done"
      BY <2>1, MovesPc DEF CInv, AttPc
    <2>5. \/ claim' = NoClaim \/ claim'.completed
          \/ claim'.owner = o /\ Works(a)'
          \/ claim' = claim /\ (NeedsWork(claim) /\ claim.owner = o /\ Works(a) => Works(a)')
      BY <1>0, <1>7, <2>1, HandlerShape DEF Works
    <2>6. skip' \in {NoTarget, N, T, T + 1} /\ claim' \in Claim
          /\ (Closed(claim) => Closed(claim'))
      BY <1>0, <1>7, <2>1, HandlerShape DEF AttPc
    <2> QED
      BY <1>0, <1>r, <2>1, <2>2, <2>5, <2>6, OneMoves
  <1>8. CASE ReturnToBg(a)
    BY <1>7, <1>8 DEF ReturnToBg
  <1>9. ASSUME ReturnToEd(a), NEW b \in ImmediateRecovery, att[b].pc = "idle",
               att[a].kind \in {"exception", "insufficient_history"},
               NEW r \in AttemptResults(HandlerCloses(a), OwnerOf[b]),
               claim' = r.claim, skip' = r.skip,
               att' = [Finish(a) EXCEPT ![b] = [pc |-> r.pc, kind |-> r.kind]]
        PROVE  ClaimStep
    <2> DEFINE c == HandlerCloses(a)
    <2>1. b \in Attempt /\ OwnerOf[b] \in Owner
      BY HandoffAssumption
    <2>2. c \in Claim /\ (Closed(claim) => Closed(c))
          /\ (c = NoClaim \/ c.completed \/ (c = claim /\ claim.owner # o))
      BY <1>0, <1>9, HandlerShape
    <2>3. Sound(r, c, OwnerOf[b]) /\ (Closed(c) => r.pc = "returned")
      BY <1>9, <2>1, <2>2, AttemptSound
    <2>4. /\ att[a].pc = "returned" /\ a # b
          /\ UNCHANGED <<rows, begun, inFlightBg, edSeen, validation>>
      BY <1>9 DEF ReturnToEd
    <2>5. /\ att'[b] = [pc |-> r.pc, kind |-> r.kind] /\ att'[a] = [att[a] EXCEPT !.pc = "done"]
          /\ \A d \in Attempt \ {a, b} : att'[d] = att[d]
      BY <1>9, <2>1, <2>4 DEF Finish, CInv, TypeOK
    <2>6. r.pc \in AttPc /\ r.kind \in Kinds /\ r.claim \in Claim /\ r.skip \in {NoTarget, N, T, T + 1}
      BY <1>0, <2>3 DEF Sound, AttPc, FlightPc
    <2>7. att' \in [Attempt -> [pc : AttPc, kind : Kinds]]
      <3>1. Finish(a) \in [Attempt -> [pc : AttPc, kind : Kinds]]
        BY DEF Finish, CInv, TypeOK, AttPc
      <3> QED
        BY <1>9, <2>6, <3>1
    <2>8. TypeOK'
      BY <1>9, <2>4, <2>6, <2>7 DEF CInv, TypeOK, validation
    <2>9. r.claim.owner = OwnerOf[b] => r.claim.completed \/ Works(b)'
      BY <2>3, <2>5 DEF Sound, FlightPc, Works, InFlight
    <2>10. Backed'
      <3>1. \A d \in Attempt \ {a, b} : Works(d) => Works(d)'
        BY <2>5 DEF Works, InFlight
      <3>2. ~Works(b)
        BY <1>9 DEF Works, InFlight
      <3>3. CASE r.claim = c
        BY <1>9, <2>1, <2>2, <2>4, <3>1, <3>2, <3>3 DEF CInv, Backed, NeedsWork
      <3>4. CASE r.claim = NoClaim \/ r.claim.owner = OwnerOf[b]
        BY <1>9, <2>1, <2>9, <3>4 DEF Backed, NeedsWork
      <3> QED
        BY <2>3, <3>3, <3>4 DEF Sound
    <2>11. ArmedClosesTarget'
      BY <1>9, <2>2, <2>3, <2>4 DEF CInv, ArmedClosesTarget, Closed, Sound, validation
    <2>12. Away
      BY <2>2, <2>3, <2>4, <2>5 DEF Away, CInv, ArmedClosesTarget, Closed
    <2> QED
      BY <2>8, <2>10, <2>11, <2>12 DEF ClaimStep
  <1>10. CASE ReturnToEd(a)
    <2> DEFINE recovery == {b \in ImmediateRecovery : att[b].pc = "idle"}
    <2>1. CASE att[a].kind \in {"exception", "insufficient_history"} /\ recovery # {}
      <3>1. PICK b \in recovery : \E r \in AttemptResults(HandlerCloses(a), OwnerOf[b]) :
              /\ claim' = r.claim
              /\ skip' = r.skip
              /\ att' = [Finish(a) EXCEPT ![b] = [pc |-> r.pc, kind |-> r.kind]]
        BY <1>10, <2>1 DEF ReturnToEd
      <3> QED
        BY <1>9, <1>10, <2>1, <3>1
    <2>2. CASE ~(att[a].kind \in {"exception", "insufficient_history"} /\ recovery # {})
      BY <1>7, <1>10, <2>2 DEF ReturnToEd
    <2> QED
      BY <2>1, <2>2
  <1> QED
    BY <1>1, <1>2, <1>3, <1>4, <1>5, <1>6, <1>8, <1>10 DEF Continue

(* Steps outside the attempts *)

(* No attempt moves, and the claim stays or is closed *)
LEMMA AttemptsRest ==
  ASSUME CInv, TypeOK', att' = att,
         \/ claim' = claim /\ armed'[N] = armed[N]
         \/ Closed(claim')
  PROVE  ClaimStep
  <1>1. Backed'
    BY ClaimShape DEF CInv, Backed, NeedsWork, Works, InFlight, Closed
  <1>2. ArmedClosesTarget'
    BY DEF CInv, ArmedClosesTarget, Closed
  <1>3. Away
    BY DEF Away
  <1> QED
    BY <1>1, <1>2, <1>3 DEF ClaimStep

RowTypes == [Prediction -> [pend : {"absent", "unmatched", "retired", "matched"},
                            out  : {"none", "live", "gone"}]]

LEMMA WorldStep ==
  ASSUME CInv,
         \/ BgHandlerEnds \/ TargetBegins
         \/ \E p \in Prediction : OutboxSettles(p)
  PROVE  ClaimStep
  <1>1. UNCHANGED <<claim, att, skip, edSeen, validation>> /\ begun' \in BOOLEAN /\ inFlightBg' \in BOOLEAN
    BY DEF BgHandlerEnds, TargetBegins, OutboxSettles, CInv, TypeOK
  <1>2. rows' \in RowTypes
    BY DEF BgHandlerEnds, TargetBegins, OutboxSettles, CInv, TypeOK, RowTypes
  <1>3. TypeOK'
    BY <1>1, <1>2 DEF CInv, TypeOK, RowTypes, validation
  <1> QED
    BY <1>1, <1>3, AttemptsRest DEF validation

LEMMA Validations ==
  ASSUME TypeOK, NEW v \in Validator
  PROVE  /\ RoundOf[v] \in {N, T} /\ val[v].row \in SUBSET Prediction /\ val[v].pc \in ValPc
         /\ \A pc \in ValPc : SetVal(v, pc) =>
              /\ val' \in [Validator -> [pc : ValPc, row : SUBSET Prediction]]
              /\ \A w \in Validator : val'[w].row = val[w].row
              /\ \A w \in Validator \ {v} : val'[w] = val[w]
              /\ val'[v].pc = pc
  <1>1. RoundOf[v] \in {N, T}
    BY HandoffAssumption
  <1>2. val[v] \in [pc : ValPc, row : SUBSET Prediction]
    BY DEF TypeOK
  <1>3. ASSUME NEW pc \in ValPc, SetVal(v, pc)
        PROVE  /\ val' \in [Validator -> [pc : ValPc, row : SUBSET Prediction]]
               /\ \A w \in Validator : val'[w].row = val[w].row
               /\ \A w \in Validator \ {v} : val'[w] = val[w]
               /\ val'[v].pc = pc
    BY <1>2, <1>3 DEF TypeOK, SetVal
  <1> QED
    BY <1>1, <1>2, <1>3

LEMMA ValidationStep ==
  ASSUME CInv, NEW v \in Validator, ReadPending(v) \/ ContinueValidation(v)
  PROVE  ClaimStep
  <1>0. /\ RoundOf[v] \in {N, T} /\ val[v].row \in SUBSET Prediction
        /\ rows \in RowTypes /\ claim \in Claim
    BY Validations DEF CInv, TypeOK, RowTypes
  <1>1. CASE ReadPending(v)
    <2>1. val' \in [Validator -> [pc : ValPc, row : SUBSET Prediction]]
      BY <1>1 DEF ReadPending, CInv, TypeOK, ValPc, Unmatched, RowsFor
    <2>2. TypeOK' /\ att' = att /\ claim' = claim /\ armed' = armed
      BY <1>1, <2>1 DEF ReadPending, CInv, TypeOK, validatorOnly, cooldownVars
    <2> QED
      BY <2>2, AttemptsRest
  <1>2. CASE Grade(v)
    <2>1. val' \in [Validator -> [pc : ValPc, row : SUBSET Prediction]]
      BY <1>2, Validations DEF Grade, CInv, ValPc
    <2>2. graded' \in SUBSET Prediction /\ rows' \in RowTypes
      <3>1. Matched(val[v].row) \in RowTypes
        BY <1>0 DEF Matched, RowTypes
      <3> QED
        BY <1>0, <1>2, <3>1 DEF Grade, CInv, TypeOK
    <2>3. TypeOK' /\ att' = att /\ claim' = claim /\ armed' = armed
      BY <1>2, <2>1, <2>2 DEF Grade, CInv, TypeOK, validatorOnly, cooldownVars, RowTypes
    <2> QED
      BY <2>3, AttemptsRest
  <1>3. CASE NoteOutcome(v)
    <2>1. val' \in [Validator -> [pc : ValPc, row : SUBSET Prediction]]
      BY <1>3, Validations DEF NoteOutcome, CInv, ValPc
    <2>2. AfterCooldownSkip(claim) \in Claim /\ Closed(AfterCooldownSkip(claim))
      BY <1>0, SkipShape
    <2>3. /\ skip' \in {NoTarget, N, T, T + 1} /\ claim' \in Claim
          /\ armed' \in [{N, T} -> Nat]
      <3>1. CASE RoundOf[v] \in lost
        <4>1. armed' = [armed EXCEPT ![RoundOf[v]] = @ + 1]
              /\ skip' = RoundOf[v] + 1 /\ claim' \in {claim, AfterCooldownSkip(claim)}
          BY <1>3, <3>1 DEF NoteOutcome
        <4>2. armed' \in [{N, T} -> Nat]
          BY <1>0, <4>1 DEF CInv, TypeOK
        <4>3. RoundOf[v] + 1 \in {N, T, T + 1}
          BY <1>0 DEF N, T
        <4> QED
          BY <1>0, <2>2, <4>1, <4>2, <4>3
      <3>2. CASE RoundOf[v] \notin lost
        BY <1>3, <3>2 DEF NoteOutcome, CInv, TypeOK
      <3> QED
        BY <3>1, <3>2
    <2>4. TypeOK' /\ att' = att
      BY <1>3, <2>1, <2>3 DEF NoteOutcome, CInv, TypeOK
    <2>5. \/ claim' = claim /\ armed'[N] = armed[N]
          \/ Closed(claim')
      BY <1>0, <1>3, <2>2 DEF NoteOutcome, CInv, TypeOK, N, T
    <2> QED
      BY <2>4, <2>5, AttemptsRest
  <1>4. CASE KillOutbox(v)
    <2>1. val' \in [Validator -> [pc : ValPc, row : SUBSET Prediction]]
      BY <1>4, Validations DEF KillOutbox, CInv, ValPc
    <2>2. suppressed' \in SUBSET {T, T + 1} /\ rows' \in RowTypes
      BY <1>0, <1>4 DEF KillOutbox, CInv, TypeOK, N, T, RowTypes
    <2>3. TypeOK' /\ att' = att /\ claim' = claim /\ armed' = armed
      BY <1>4, <2>1, <2>2 DEF KillOutbox, CInv, TypeOK, validatorOnly, RowTypes
    <2> QED
      BY <2>3, AttemptsRest
  <1>5. CASE RetirePending(v)
    <2>1. val' \in [Validator -> [pc : ValPc, row : SUBSET Prediction]]
      BY <1>5, Validations DEF RetirePending, CInv, ValPc
    <2>2. suppressed' \in SUBSET {T, T + 1} /\ rows' \in RowTypes
      BY <1>0, <1>5 DEF RetirePending, CInv, TypeOK, N, T, RowTypes
    <2>3. TypeOK' /\ att' = att /\ claim' = claim /\ armed' = armed
      BY <1>5, <2>1, <2>2 DEF RetirePending, CInv, TypeOK, validatorOnly, RowTypes
    <2> QED
      BY <2>3, AttemptsRest
  <1>6. CASE RoundCompleted(v)
    <2>1. val' \in [Validator -> [pc : ValPc, row : SUBSET Prediction]]
      BY <1>6, Validations DEF RoundCompleted, CInv, ValPc
    <2>2. TypeOK' /\ att' = att /\ claim' = claim /\ armed' = armed
      BY <1>6, <2>1 DEF RoundCompleted, CInv, TypeOK, validatorOnly, cooldownVars
    <2> QED
      BY <2>2, AttemptsRest
  <1> QED
    BY <1>1, <1>2, <1>3, <1>4, <1>5, <1>6 DEF ContinueValidation

LEMMA ClaimInductive == CInv /\ [Next]_vars => ClaimStep
  <1> SUFFICES ASSUME CInv, [Next]_vars PROVE ClaimStep
    OBVIOUS
  <1>1. CASE UNCHANGED vars
    <2>1. TypeOK' /\ att' = att /\ claim' = claim /\ armed' = armed
      BY <1>1 DEF vars, CInv, TypeOK
    <2> QED
      BY <2>1, AttemptsRest
  <1>2. CASE Next
    BY <1>2, FrameStep, ContinueStep, WorldStep, ValidationStep DEF Next
  <1> QED
    BY <1>1, <1>2

LEMMA ClaimInit == Init => CInv
  <1> SUFFICES ASSUME Init PROVE CInv
    OBVIOUS
  <1>1. TypeOK
    <2>1. lost \in SUBSET {N, T}
      BY HandoffAssumption DEF Init
    <2>2. /\ claim \in Claim
          /\ att \in [Attempt -> [pc : AttPc, kind : Kinds]]
          /\ val \in [Validator -> [pc : ValPc, row : SUBSET Prediction]]
      BY NoClaimShape DEF Init, AttPc, Kinds, ValPc
    <2>3. rows \in RowTypes
      BY DEF Init, RowTypes
    <2> QED
      BY <2>1, <2>2, <2>3 DEF Init, TypeOK, RowTypes
  <1>2. Backed /\ ArmedClosesTarget
    BY DEF Init, Backed, NeedsWork, ArmedClosesTarget
  <1> QED
    BY <1>1, <1>2 DEF CInv

(* The invariant of the claim on T *)
THEOREM HandoffInvariant == Spec => []CInv
  <1>1. CInv /\ [Next]_vars => CInv'
    BY ClaimInductive DEF ClaimStep, CInv
  <1> QED
    BY <1>1, ClaimInit, PTL DEF Spec

(* Every variable keeps its shape. *)
THEOREM HandoffTypesKept == Spec => []TypeOK
  <1>1. CInv => TypeOK
    BY DEF CInv
  <1> QED
    BY <1>1, HandoffInvariant, PTL

(* Once a loss on N has armed the cooldown, the claim on T stays closed as *)
(* NO_BET, whatever attempts that were under way still do.                 *)
THEOREM ArmingClosesTarget == Spec => []ArmedClosesTarget
  <1>1. CInv => ArmedClosesTarget
    BY DEF CInv
  <1> QED
    BY <1>1, HandoffInvariant, PTL

(* No exit of the BG and ED handlers strands an open claim.                *)
THEOREM OpenClaimsAreWorkedOn == Spec => []BgEdClaimIsWorkedOn
  <1>1. CInv => BgEdClaimIsWorkedOn
    BY DEF CInv, Backed, NeedsWork, Works, BgEdClaimIsWorkedOn, OpenClaimIsWorkedOn
  <1> QED
    BY <1>1, HandoffInvariant, PTL

(* After the cooldown was armed no attempt that had not begun comes to     *)
(* compute or to persist.                                                  *)
THEOREM NothingBeginsAfterArm == Spec => NoFreshAttemptAfterArm
  <1>1. CInv /\ [Next]_vars =>
          [armed[N] > 0 => \A a \in Attempt :
             att[a].pc \in {"idle", "checking", "cleared"} =>
               att'[a].pc \notin {"hydrating", "persisting"}]_vars
    BY ClaimInductive DEF ClaimStep, Away
  <1> QED
    BY <1>1, HandoffInvariant, PTL DEF Spec, NoFreshAttemptAfterArm

-----------------------------------------------------------------------------
(* The rows of the database *)

Pends(p) == rows[p].pend \in {"unmatched", "retired"}

(* One row of a round is unresolved, a matched row was graded, and what    *)
(* was enqueued is stored.                                                 *)
RowsInv ==
  /\ \A p, q \in Prediction : TargetOf(p) = TargetOf(q) /\ Pends(p) /\ Pends(q) => p = q
  /\ \A p \in Prediction : rows[p].pend = "matched" => p \in graded
  /\ \A p \in Prediction : rows[p].out # "none" => rows[p].pend # "absent"

(* A validator whose grading took effect is alone with its round, and the  *)
(* round has not armed the cooldown yet.                                   *)
ValInv ==
  /\ \A v \in Validator : \A p, q \in val[v].row : p = q /\ TargetOf(p) = RoundOf[v]
  /\ \A v \in Validator : val[v].pc = "replied" =>
       armed[RoundOf[v]] = 0 /\ \E p \in graded : TargetOf(p) = RoundOf[v]
  /\ \A v, w \in Validator :
       val[v].pc = "replied" /\ val[w].pc = "replied" /\ RoundOf[v] = RoundOf[w] => v = w
  /\ \A r \in {N, T} : armed[r] <= 1 /\ (armed[r] > 0 => \E p \in graded : TargetOf(p) = r)
  /\ \A p, q \in graded : TargetOf(p) = TargetOf(q) => p = q

RInv == TypeOK /\ RowsInv /\ ValInv

LEMMA Targets ==
  ASSUME NEW p \in Prediction
  PROVE  TargetOf(p) \in {N, T} /\ (p \in Attempt => TargetOf(p) = T)
  BY HandoffAssumption DEF TargetOf, Prediction

LEMMA RowsKept ==
  ASSUME RInv, graded \subseteq graded',
         \A p \in Prediction : /\ Pends(p)' => Pends(p)
                               /\ rows'[p].pend = "matched" => p \in graded'
                               /\ rows'[p].out # "none" => rows[p].out # "none"
                               /\ rows[p].pend # "absent" => rows'[p].pend # "absent"
  PROVE  RowsInv'
  BY DEF RInv, RowsInv

LEMMA ValKept ==
  ASSUME RInv, graded' = graded, armed' = armed,
         \A w \in Validator : /\ val'[w].row = val[w].row
                              /\ val'[w].pc = "replied" => val[w].pc = "replied"
  PROVE  ValInv'
  BY DEF RInv, ValInv

LEMMA StoreStep ==
  ASSUME RInv, NEW a \in Attempt, Store(a)
  PROVE  RowsInv' /\ ValInv'
  <1>1. graded' = graded /\ val' = val /\ armed' = armed
    BY DEF Store, validation
  <1>2. ValInv'
    BY <1>1, ValKept
  <1>3. CASE rows' = rows
    BY <1>1, <1>2, <1>3 DEF RInv, RowsInv, Pends
  <1>4. CASE rows' # rows
    <2>1. /\ StatusPending(T) = {}
          /\ \E o \in {"live", "none"} : rows' = [rows EXCEPT ![a] = [pend |-> "unmatched", out |-> o]]
      BY <1>4 DEF Store
    <2>2. a \in Prediction /\ TargetOf(a) = T
      BY Targets DEF Prediction
    <2>3. /\ rows'[a].pend = "unmatched"
          /\ \A p \in Prediction \ {a} : rows'[p] = rows[p]
      BY <2>1, <2>2 DEF RInv, TypeOK
    <2>4. \A p \in Prediction : TargetOf(p) = T => ~Pends(p)
      BY <2>1 DEF StatusPending, RowsFor, Pends
    <2>5. RowsInv'
      BY <1>1, <2>2, <2>3, <2>4 DEF RInv, RowsInv, Pends
    <2> QED
      BY <1>2, <2>5
  <1> QED
    BY <1>3, <1>4

LEMMA GradeStep ==
  ASSUME RInv, NEW v \in Validator, Grade(v)
  PROVE  RowsInv' /\ ValInv'
  <1> DEFINE row == val[v].row
  <1>0. /\ row \in SUBSET Prediction /\ armed' = armed /\ RoundOf[v] \in {N, T}
        /\ armed \in [{N, T} -> Nat]
    BY Validations DEF RInv, TypeOK, Grade, cooldownVars
  <1>1. /\ \A w \in Validator : val'[w].row = val[w].row
        /\ \A w \in Validator \ {v} : val'[w] = val[w]
    BY Validations DEF Grade, RInv, ValPc
  <1>2. CASE rows' = rows /\ graded' = graded /\ val'[v].pc # "replied"
    <2>1. RowsInv'
      BY <1>2 DEF RInv, RowsInv, Pends
    <2>2. ValInv'
      BY <1>0, <1>1, <1>2, ValKept
    <2> QED
      BY <2>1, <2>2
  <1>3. CASE /\ \A p \in graded : TargetOf(p) # RoundOf[v]
             /\ graded' = graded \cup row
             /\ rows' = Matched(row)
    <2>1. row # {}
      BY DEF Grade
    <2>2. RowsInv'
      <3>1. \A p \in Prediction :
              rows'[p] = IF p \in row THEN [rows[p] EXCEPT !.pend = "matched"] ELSE rows[p]
        BY <1>3 DEF Matched
      <3>2. \A p \in Prediction : rows[p] \in [pend : {"absent", "unmatched", "retired", "matched"},
                                               out  : {"none", "live", "gone"}]
        BY DEF RInv, TypeOK
      <3>3. \A p \in Prediction :
              IF p \in row THEN rows'[p].pend = "matched" /\ rows'[p].out = rows[p].out
              ELSE rows'[p] = rows[p]
        BY <3>1, <3>2
      <3> QED
        BY <1>3, <3>3, RowsKept DEF Pends, RInv, RowsInv
    <2>3. armed[RoundOf[v]] = 0
      BY <1>0, <1>3 DEF RInv, ValInv
    <2>4. \A w \in Validator \ {v} : RoundOf[w] = RoundOf[v] => val[w].pc # "replied"
      BY <1>3 DEF RInv, ValInv
    <2>5. \A p \in row : TargetOf(p) = RoundOf[v]
      BY DEF RInv, ValInv
    <2>6. \E p \in graded' : TargetOf(p) = RoundOf[v]
      BY <1>3, <2>1, <2>5
    <2>7. \A p, q \in graded' : TargetOf(p) = TargetOf(q) => p = q
      BY <1>3, <2>5 DEF RInv, ValInv
    <2>8. \A w \in Validator : val'[w].pc = "replied" =>
            armed'[RoundOf[w]] = 0 /\ \E p \in graded' : TargetOf(p) = RoundOf[w]
      BY <1>0, <1>1, <1>3, <2>3, <2>6 DEF RInv, ValInv
    <2>9. \A w, x \in Validator :
            val'[w].pc = "replied" /\ val'[x].pc = "replied" /\ RoundOf[w] = RoundOf[x] => w = x
      BY <1>1, <2>4 DEF RInv, ValInv
    <2>10. \A r \in {N, T} : armed'[r] <= 1 /\ (armed'[r] > 0 => \E p \in graded' : TargetOf(p) = r)
      BY <1>0, <1>3 DEF RInv, ValInv
    <2>11. \A w \in Validator : \A p, q \in val'[w].row : p = q /\ TargetOf(p) = RoundOf[w]
      BY <1>1 DEF RInv, ValInv
    <2> QED
      BY <2>2, <2>7, <2>8, <2>9, <2>10, <2>11 DEF ValInv
  <1>4. \/ SetVal(v, "done") /\ UNCHANGED <<rows, graded>>
        \/ SetVal(v, "closing") /\ UNCHANGED <<rows, graded>>
        \/ /\ \A p \in graded : TargetOf(p) # RoundOf[v]
           /\ graded' = graded \cup row
           /\ rows' = Matched(row)
    BY DEF Grade
  <1>5. (SetVal(v, "done") => val'[v].pc = "done") /\ (SetVal(v, "closing") => val'[v].pc = "closing")
    BY Validations DEF RInv, ValPc
  <1> QED
    BY <1>2, <1>3, <1>4, <1>5

LEMMA NoteStep ==
  ASSUME RInv, NEW v \in Validator, NoteOutcome(v)
  PROVE  RowsInv' /\ ValInv'
  <1>0. /\ RoundOf[v] \in {N, T} /\ armed \in [{N, T} -> Nat]
        /\ rows' = rows /\ graded' = graded /\ val[v].pc = "replied"
    BY Validations DEF RInv, TypeOK, NoteOutcome
  <1>1. RowsInv'
    BY <1>0 DEF RInv, RowsInv, Pends
  <1>2. /\ \A w \in Validator : val'[w].row = val[w].row
        /\ \A w \in Validator \ {v} : val'[w] = val[w]
        /\ val'[v].pc # "replied"
    BY Validations DEF NoteOutcome, RInv, ValPc
  <1>3. CASE armed' = armed
    BY <1>0, <1>1, <1>2, <1>3, ValKept
  <1>4. CASE armed' = [armed EXCEPT ![RoundOf[v]] = @ + 1]
    <2>1. armed[RoundOf[v]] = 0 /\ \E p \in graded : TargetOf(p) = RoundOf[v]
      BY <1>0 DEF RInv, ValInv
    <2>2. armed'[RoundOf[v]] = 1 /\ \A r \in {N, T} \ {RoundOf[v]} : armed'[r] = armed[r]
      BY <1>0, <1>4, <2>1
    <2>3. \A w \in Validator \ {v} : val[w].pc = "replied" =>
            RoundOf[w] \in {N, T} /\ RoundOf[w] # RoundOf[v]
      BY <1>0, Validations DEF RInv, ValInv
    <2>4. \A w \in Validator : val'[w].pc = "replied" =>
            armed'[RoundOf[w]] = 0 /\ \E p \in graded' : TargetOf(p) = RoundOf[w]
      BY <1>0, <1>2, <2>2, <2>3 DEF RInv, ValInv
    <2>5. \A r \in {N, T} : armed'[r] <= 1 /\ (armed'[r] > 0 => \E p \in graded' : TargetOf(p) = r)
      BY <1>0, <2>1, <2>2 DEF RInv, ValInv
    <2> QED
      BY <1>0, <1>1, <1>2, <2>4, <2>5 DEF RInv, ValInv
  <1> QED
    BY <1>3, <1>4 DEF NoteOutcome

LEMMA OtherValidationStep ==
  ASSUME RInv, NEW v \in Validator,
         ReadPending(v) \/ KillOutbox(v) \/ RetirePending(v) \/ RoundCompleted(v)
  PROVE  RowsInv' /\ ValInv'
  <1>0. /\ graded' = graded /\ armed' = armed
        /\ \A p \in Prediction : rows[p] \in [pend : {"absent", "unmatched", "retired", "matched"},
                                              out  : {"none", "live", "gone"}]
    BY DEF ReadPending, KillOutbox, RetirePending, RoundCompleted, cooldownVars, RInv, TypeOK
  <1>1. CASE ReadPending(v)
    <2>1. /\ \A w \in Validator \ {v} : val'[w] = val[w]
          /\ val'[v].pc = "read" /\ val'[v].row = Unmatched(RoundOf[v]) /\ rows' = rows
      BY <1>1 DEF ReadPending, RInv, TypeOK
    <2>2. \A p, q \in Unmatched(RoundOf[v]) : p = q /\ TargetOf(p) = RoundOf[v]
      BY DEF Unmatched, RowsFor, RInv, RowsInv, Pends
    <2>3. RowsInv'
      BY <1>0, <2>1 DEF RInv, RowsInv, Pends
    <2>4. ValInv'
      BY <1>0, <2>1, <2>2 DEF RInv, ValInv
    <2> QED
      BY <2>3, <2>4
  <1>2. CASE RoundCompleted(v)
    <2>1. rows' = rows
      BY <1>2 DEF RoundCompleted
    <2>2. /\ \A w \in Validator : val'[w].row = val[w].row
          /\ \A w \in Validator : val'[w].pc = "replied" => val[w].pc = "replied"
      BY <1>2, Validations DEF RoundCompleted, RInv, ValPc
    <2>3. RowsInv'
      BY <1>0, <2>1 DEF RInv, RowsInv, Pends
    <2> QED
      BY <1>0, <2>2, <2>3, ValKept
  <1>3. CASE KillOutbox(v)
    <2>1. /\ \A w \in Validator : val'[w].row = val[w].row
          /\ \A w \in Validator : val'[w].pc = "replied" => val[w].pc = "replied"
      BY <1>3, Validations DEF KillOutbox, RInv, ValPc
    <2>2. \A p \in Prediction : /\ rows'[p].pend = rows[p].pend
                                /\ rows[p].out = "none" => rows'[p].out = "none"
      BY <1>0, <1>3 DEF KillOutbox
    <2>3. RowsInv'
      BY <1>0, <2>2, RowsKept DEF Pends, RInv, RowsInv
    <2> QED
      BY <1>0, <2>1, <2>3, ValKept
  <1>4. CASE RetirePending(v)
    <2>1. /\ \A w \in Validator : val'[w].row = val[w].row
          /\ \A w \in Validator : val'[w].pc = "replied" => val[w].pc = "replied"
      BY <1>4, Validations DEF RetirePending, RInv, ValPc
    <2>2. \A p \in Prediction : /\ rows'[p].out = rows[p].out
                                /\ \/ rows'[p].pend = rows[p].pend
                                   \/ rows[p].pend = "unmatched" /\ rows'[p].pend = "retired"
      BY <1>0, <1>4 DEF RetirePending, Unmatched
    <2>3. RowsInv'
      BY <1>0, <2>2, RowsKept DEF Pends, RInv, RowsInv
    <2> QED
      BY <1>0, <2>1, <2>3, ValKept
  <1> QED
    BY <1>1, <1>2, <1>3, <1>4

(* Everything else leaves the database to itself *)
LEMMA QuietSteps ==
  ASSUME \/ \E a \in Attempt :
              \/ PrFrame(a) \/ BgFrame(a) \/ EdFrame(a) \/ PollMemoryGate(a)
              \/ PollDbGate(a) \/ PollAttempt(a) \/ Hydrated(a) \/ StoreFails(a)
              \/ Resume(a) \/ ReturnToPrOrRecovery(a) \/ ReturnToBg(a) \/ ReturnToEd(a)
         \/ BgHandlerEnds \/ TargetBegins
  PROVE  UNCHANGED <<rows, graded, val, armed>>
  BY DEF PrFrame, BgFrame, EdFrame, PollMemoryGate, PollDbGate, PollAttempt, Hydrated,
         StoreFails, Resume, ReturnToPrOrRecovery, ReturnToBg, ReturnToEd, BgHandlerEnds,
         TargetBegins, validation

LEMMA RowsInductive ==
  ASSUME RInv, [Next]_vars
  PROVE  RowsInv' /\ ValInv'
  <1>1. ASSUME UNCHANGED <<rows, graded, val, armed>> PROVE RowsInv' /\ ValInv'
    BY <1>1, ValKept DEF RInv, RowsInv, Pends
  <1>2. ASSUME NEW p \in Prediction, OutboxSettles(p) PROVE RowsInv' /\ ValInv'
    <2>1. graded' = graded /\ val' = val /\ armed' = armed
      BY <1>2 DEF OutboxSettles, validation
    <2>2. \A q \in Prediction : rows'[q].pend = rows[q].pend
                                /\ (rows[q].out = "none" => rows'[q].out = "none")
      BY <1>2 DEF OutboxSettles, RInv, TypeOK
    <2>3. RowsInv'
      BY <2>1, <2>2, RowsKept DEF Pends, RInv, RowsInv
    <2> QED
      BY <2>1, <2>3, ValKept
  <1>3. CASE UNCHANGED vars
    BY <1>1, <1>3 DEF vars
  <1> QED
    BY <1>1, <1>2, <1>3, QuietSteps, StoreStep, GradeStep, NoteStep, OtherValidationStep
       DEF Next, Continue, ContinueValidation

(* The invariant of the stored predictions and of their gradings *)
THEOREM RowsInvariant == Spec => []RInv
  <1>1. Init => RInv
    <2> SUFFICES ASSUME Init PROVE RInv
      OBVIOUS
    <2>1. TypeOK
      BY ClaimInit DEF CInv
    <2>2. RowsInv
      BY DEF Init, RowsInv, Pends
    <2>3. ValInv
      BY DEF Init, ValInv
    <2> QED
      BY <2>1, <2>2, <2>3 DEF RInv
  <1>2. RInv /\ TypeOK' /\ [Next]_vars => RInv'
    BY RowsInductive DEF RInv
  <1> QED
    BY <1>1, <1>2, HandoffTypesKept, PTL DEF Spec

(* A round is graded once and arms the cooldown at most once, however many *)
(* validator runs read its row.                                            *)
THEOREM RoundsAreGradedOnce == Spec => []GradedOnce
  <1>1. RInv => GradedOnce
    BY DEF RInv, ValInv, GradedOnce
  <1> QED
    BY <1>1, RowsInvariant, PTL

(* Until T is graded one signal for T is enqueued at most, however many    *)
(* attempts persist theirs.                                                *)
THEOREM OneSignal == Spec => []OneSignalPerTarget
  <1>1. RInv => OneSignalPerTarget
    <2> SUFFICES ASSUME RInv, graded \cap RowsFor(T) = {}, NEW p \in RowsFor(T), NEW q \in RowsFor(T),
                        rows[p].out # "none", rows[q].out # "none"
                 PROVE  p = q
      BY DEF OneSignalPerTarget
    <2>1. ASSUME NEW z \in RowsFor(T), rows[z].out # "none" PROVE Pends(z)
      <3>1. rows[z].pend \in {"unmatched", "retired", "matched"} /\ z \notin graded
        BY <2>1 DEF RInv, RowsInv, TypeOK, RowsFor
      <3> QED
        BY <3>1, <2>1 DEF RInv, RowsInv, Pends, RowsFor
    <2> QED
      BY <2>1 DEF RInv, RowsInv, RowsFor
  <1> QED
    BY <1>1, RowsInvariant, PTL

-----------------------------------------------------------------------------
(* Losses and the cooldown they arm *)

(* A validator run that answers for the outcome of its round *)
Answers(v) == val[v].pc \in {"replied", "unheard"}

(* Only Grade adds a graded prediction, and its run answers for it; only   *)
(* NoteOutcome ends the answer of a run, and a loss is then armed.         *)
LEMMA LossesStep ==
  ASSUME RInv, [Next]_vars
  PROVE  /\ lost' = lost
         /\ \A r \in {N, T} : armed[r] > 0 => armed'[r] > 0
         /\ \A v \in Validator : Answers(v) =>
              Answers(v)' \/ (RoundOf[v] \in lost => armed'[RoundOf[v]] > 0)
         /\ \A p \in graded' \ graded :
              \E v \in Validator : RoundOf[v] = TargetOf(p) /\ Answers(v)'
  <1> DEFINE Goal == /\ lost' = lost
                     /\ \A r \in {N, T} : armed[r] > 0 => armed'[r] > 0
                     /\ \A v \in Validator : Answers(v) =>
                          Answers(v)' \/ (RoundOf[v] \in lost => armed'[RoundOf[v]] > 0)
                     /\ \A p \in graded' \ graded :
                          \E v \in Validator : RoundOf[v] = TargetOf(p) /\ Answers(v)'
  <1>0. armed \in [{N, T} -> Nat]
    BY DEF RInv, TypeOK
  <1>1. ASSUME lost' = lost, armed' = armed, graded' = graded,
               \A v \in Validator : Answers(v) => Answers(v)'
        PROVE  Goal
    BY <1>1
  <1>2. ASSUME UNCHANGED <<lost, graded, val, armed>> PROVE Goal
    BY <1>1, <1>2 DEF Answers
  <1>3. ASSUME NEW a \in Attempt,
               \/ PrFrame(a) \/ BgFrame(a) \/ EdFrame(a) \/ PollMemoryGate(a) \/ Continue(a)
        PROVE  Goal
    BY <1>2, <1>3 DEF PrFrame, BgFrame, EdFrame, PollMemoryGate, Continue, PollDbGate,
       PollAttempt, Hydrated, StoreFails, Store, Resume, ReturnToPrOrRecovery, ReturnToBg,
       ReturnToEd, validation
  <1>4. ASSUME BgHandlerEnds \/ TargetBegins \/ \E p \in Prediction : OutboxSettles(p)
        PROVE  Goal
    BY <1>2, <1>4 DEF BgHandlerEnds, TargetBegins, OutboxSettles, validation
  <1>5. ASSUME NEW v \in Validator, Grade(v) PROVE Goal
    <2>1. /\ lost' = lost /\ armed' = armed /\ val[v].pc = "read"
          /\ \A w \in Validator \ {v} : val'[w] = val[w]
      BY <1>5, Validations DEF Grade, RInv, ValPc, validatorOnly, cooldownVars
    <2>2. CASE graded' = graded
      BY <1>1, <2>1, <2>2 DEF Answers
    <2>3. CASE graded' = graded \cup val[v].row /\ (SetVal(v, "replied") \/ SetVal(v, "unheard"))
      <3>1. Answers(v)'
        BY <2>3, Validations DEF Answers, RInv, ValPc
      <3>2. \A p \in graded' \ graded : TargetOf(p) = RoundOf[v]
        BY <2>3 DEF RInv, ValInv
      <3> QED
        BY <2>1, <3>1, <3>2 DEF Answers
    <2> QED
      BY <1>5, <2>2, <2>3 DEF Grade
  <1>6. ASSUME NEW v \in Validator, NoteOutcome(v) PROVE Goal
    <2>1. /\ lost' = lost /\ graded' = graded /\ RoundOf[v] \in {N, T}
          /\ \A w \in Validator \ {v} : val'[w] = val[w]
      BY <1>6, Validations DEF NoteOutcome, RInv, ValPc
    <2>2. \/ RoundOf[v] \notin lost /\ armed' = armed
          \/ armed' = [armed EXCEPT ![RoundOf[v]] = @ + 1]
      BY <1>6 DEF NoteOutcome
    <2>3. /\ RoundOf[v] \in lost => armed'[RoundOf[v]] > 0
          /\ \A r \in {N, T} : armed[r] > 0 => armed'[r] > 0
      BY <1>0, <2>1, <2>2
    <2> QED
      BY <2>1, <2>3 DEF Answers
  <1>7. ASSUME NEW v \in Validator,
               ReadPending(v) \/ KillOutbox(v) \/ RetirePending(v) \/ RoundCompleted(v)
        PROVE  Goal
    <2>1. /\ UNCHANGED <<lost, armed, graded>> /\ ~Answers(v)
          /\ \A w \in Validator \ {v} : val'[w] = val[w]
      BY <1>7, Validations DEF ReadPending, KillOutbox, RetirePending, RoundCompleted,
         RInv, TypeOK, ValPc, Answers, validatorOnly, cooldownVars
    <2> QED
      BY <1>1, <2>1 DEF Answers
  <1>8. CASE UNCHANGED vars
    BY <1>2, <1>8 DEF vars
  <1> QED
    BY <1>3, <1>4, <1>5, <1>6, <1>7, <1>8 DEF Next, ContinueValidation

(* No graded loss is forgotten: it has armed the cooldown, or the run that *)
(* graded it is about to; only a grading whose reply was lost arms nothing. *)
THEOREM GradedLossesArm == Spec => []LossesArm
  <1>1. Init => LossesArm
    BY DEF Init, LossesArm
  <1>2. RInv /\ LossesArm /\ [Next]_vars => LossesArm'
    <2> SUFFICES ASSUME RInv, LossesArm, [Next]_vars,
                        NEW r \in lost', NEW p \in graded', TargetOf(p) = r
                 PROVE  armed'[r] > 0 \/ \E v \in Validator : RoundOf[v] = r /\ Answers(v)'
      BY DEF LossesArm, Answers
    <2>1. r \in lost /\ r \in {N, T}
      BY LossesStep DEF RInv, TypeOK
    <2>2. CASE p \in graded
      <3>1. armed[r] > 0 \/ \E v \in Validator : RoundOf[v] = r /\ Answers(v)
        BY <2>1, <2>2 DEF LossesArm, Answers
      <3> QED
        BY <2>1, <3>1, LossesStep
    <2>3. CASE p \notin graded
      BY <2>3, LossesStep
    <2> QED
      BY <2>2, <2>3
  <1> QED
    BY <1>1, <1>2, RowsInvariant, PTL DEF Spec

===============================================================================
