----------------------- MODULE TargetCoordinator_proofs -----------------------
(***************************************************************************)
(* Theorems about the target coordinator for every set of targets, every   *)
(* set of owners and every limit on the number of entries.                 *)
(***************************************************************************)
EXTENDS TargetCoordinator, FiniteSetTheorems, TLAPS

-----------------------------------------------------------------------------
(* Lemmas about the operations on one claim *)

(* A claim that no owner of record holds is the absent one. *)
LEMMA ClaimOwner ==
  ASSUME NEW c \in Claim, NEW o \in Owner
  PROVE  /\ c.owner = o => c # NoClaim /\ c \in Entry
         /\ NoClaim \notin Entry
  BY OwnerAssumption DEF Claim, Entry, NoClaim

(* A fresh entry in its owner's own reserved or running state is coherent. *)
LEMMA FreshEntryCoherent ==
  ASSUME NEW o \in Owner
  PROVE  /\ LET c == FreshEntry(o, RunningState(o)) IN c \in Entry /\ EntryCoherent(c)
         /\ isPrimarySource(o) =>
              LET c == FreshEntry(o, ReservedState(o)) IN c \in Entry /\ EntryCoherent(c)
  BY OwnerAssumption
     DEF FreshEntry, Entry, EntryCoherent, OpenStates, ClosedStates, ReservedState,
         RunningState, isPrimarySource, parseSource, Source

(* Promotion keeps the owner and closes nothing. *)
LEMMA PromotedCoherent ==
  ASSUME NEW c \in Claim, EntryCoherent(c), NEW o \in Owner, c.owner = o
  PROVE  /\ Promoted(c, o) \in Entry
         /\ EntryCoherent(Promoted(c, o))
         /\ Promoted(c, o).owner = o
         /\ Promoted(c, o).completed = c.completed
  <1>1. c \in Entry
    BY ClaimOwner
  <1>2. CASE isPrimarySource(o) /\ c.state = ReservedState(o)
    <2>1. Promoted(c, o) = [c EXCEPT !.state = RunningState(o)]
      BY <1>2 DEF Promoted
    <2>2. RunningState(o) \in OpenStates /\ ReservedState(o) \in OpenStates
      BY OwnerAssumption DEF OpenStates, RunningState, ReservedState, parseSource, Source
    <2>3. ~c.completed /\ ~c.noBet
      BY <1>2, <2>2 DEF EntryCoherent, OpenStates, ClosedStates
    <2>4. o # Cooldown
      BY OwnerAssumption
    <2> QED
      BY <1>1, <2>1, <2>2, <2>3, <2>4 DEF Entry, EntryCoherent, OpenStates, ClosedStates
  <1>3. CASE ~(isPrimarySource(o) /\ c.state = ReservedState(o))
    BY <1>1, <1>3 DEF Promoted
  <1> QED
    BY <1>2, <1>3

LEMMA ReserveCoherent ==
  ASSUME NEW c \in Claim, EntryCoherent(c), NEW o \in Owner, isPrimarySource(o)
  PROVE  AfterReserve(c, o) \in Claim /\ EntryCoherent(AfterReserve(c, o))
  BY FreshEntryCoherent DEF AfterReserve, Claim

LEMMA ClaimCoherent ==
  ASSUME NEW c \in Claim, EntryCoherent(c), NEW o \in Owner
  PROVE  AfterClaim(c, o) \in Claim /\ EntryCoherent(AfterClaim(c, o))
  BY FreshEntryCoherent, PromotedCoherent DEF AfterClaim, Claim

LEMMA MarkRunningCoherent ==
  ASSUME NEW c \in Claim, EntryCoherent(c), NEW o \in Owner
  PROVE  AfterMarkRunning(c, o) \in Claim /\ EntryCoherent(AfterMarkRunning(c, o))
  BY PromotedCoherent DEF AfterMarkRunning, Claim

LEMMA CompleteCoherent ==
  ASSUME NEW c \in Claim, EntryCoherent(c), NEW o \in Owner, NEW d \in {"NO_BET", "SIGNAL"}
  PROVE  /\ AfterComplete(c, o, d) \in Claim
         /\ EntryCoherent(AfterComplete(c, o, d))
         /\ c.completed => AfterComplete(c, o, d).completed
  <1>1. CASE c.owner # o
    BY <1>1 DEF AfterComplete
  <1>2. CASE c.owner = o
    <2>1. c \in Entry /\ o # Cooldown
      BY <1>2, ClaimOwner, OwnerAssumption
    <2> QED
      BY <1>2, <2>1 DEF AfterComplete, Claim, Entry, EntryCoherent, OpenStates, ClosedStates
  <1> QED
    BY <1>1, <1>2

LEMMA CooldownSkipCoherent ==
  ASSUME NEW c \in Claim, EntryCoherent(c)
  PROVE  /\ AfterCooldownSkip(c) \in Entry
         /\ EntryCoherent(AfterCooldownSkip(c))
         /\ AfterCooldownSkip(c).completed
  BY OwnerAssumption
     DEF AfterCooldownSkip, Claim, Entry, NoClaim, EntryCoherent, OpenStates, ClosedStates

LEMMA NoClaimCoherent == NoClaim \in Claim /\ EntryCoherent(NoClaim)
  BY OwnerAssumption DEF NoClaim, Claim, EntryCoherent, OpenStates, ClosedStates

LEMMA ReleaseCoherent ==
  ASSUME NEW c \in Claim, EntryCoherent(c), NEW o \in Owner
  PROVE  AfterRelease(c, o) \in Claim /\ EntryCoherent(AfterRelease(c, o))
  BY NoClaimCoherent DEF AfterRelease

-----------------------------------------------------------------------------
(* Pruning *)

LEMMA PruneSubset ==
  ASSUME NEW cl, NEW D \in PruneChoices(cl)
  PROVE  D \subseteq Live(cl) /\ D \subseteq Target
  BY DEF PruneChoices, Live

LEMMA PrunedCoherent ==
  ASSUME TypeOK, Coherent, NEW D \in PruneChoices(claims)
  PROVE  /\ Pruned(claims, D) \in [Target -> Claim]
         /\ \A t \in Target : EntryCoherent(Pruned(claims, D)[t])
         /\ forgotten \cup D \in SUBSET Target
  BY PruneSubset, NoClaimCoherent DEF TypeOK, Coherent, Pruned

-----------------------------------------------------------------------------
(* Type correctness and coherence of the entries *)

(* One step of every kind keeps the types and the coherence of entries. *)
LEMMA CoherentStep ==
  ASSUME TypeOK, Coherent, [Next]_vars
  PROVE  TypeOK' /\ Coherent'
  <1>1. ASSUME NEW t \in Target, NEW o \in Owner, reservePrimary(t, o)
        PROVE  TypeOK' /\ Coherent'
    <2>1. PICK D \in PruneChoices(claims) :
            /\ claims' = [Pruned(claims, D) EXCEPT ![t] = AfterReserve(@, o)]
            /\ holders' = IF ReserveGranted(Pruned(claims, D)[t], o)
                          THEN [holders EXCEPT ![t] = @ \cup {o}] ELSE holders
            /\ forgotten' = forgotten \cup D
      BY <1>1 DEF reservePrimary
    <2>2. isPrimarySource(o)
      BY <1>1 DEF reservePrimary
    <2>3. LET c == AfterReserve(Pruned(claims, D)[t], o) IN c \in Claim /\ EntryCoherent(c)
      BY <2>2, PrunedCoherent, ReserveCoherent
    <2>4. holders' \in [Target -> SUBSET Owner]
      BY <2>1 DEF TypeOK
    <2> QED
      BY <2>1, <2>3, <2>4, PrunedCoherent DEF TypeOK, Coherent
  <1>2. ASSUME NEW t \in Target, NEW o \in Owner, claimTarget(t, o)
        PROVE  TypeOK' /\ Coherent'
    <2>1. PICK D \in PruneChoices(claims) :
            /\ claims' = [Pruned(claims, D) EXCEPT ![t] = AfterClaim(@, o)]
            /\ holders' = IF ClaimGranted(Pruned(claims, D)[t], o)
                          THEN [holders EXCEPT ![t] = @ \cup {o}] ELSE holders
            /\ forgotten' = forgotten \cup D
      BY <1>2 DEF claimTarget
    <2>2. LET c == AfterClaim(Pruned(claims, D)[t], o) IN c \in Claim /\ EntryCoherent(c)
      BY PrunedCoherent, ClaimCoherent
    <2>3. holders' \in [Target -> SUBSET Owner]
      BY <2>1 DEF TypeOK
    <2> QED
      BY <2>1, <2>2, <2>3, PrunedCoherent DEF TypeOK, Coherent
  <1>3. ASSUME NEW t \in Target, NEW o \in Owner, markRunning(t, o)
        PROVE  TypeOK' /\ Coherent'
    BY <1>3, MarkRunningCoherent DEF markRunning, TypeOK, Coherent
  <1>4. ASSUME NEW t \in Target, NEW o \in Owner, NEW d \in {"NO_BET", "SIGNAL"},
               completeTarget(t, o, d)
        PROVE  TypeOK' /\ Coherent'
    BY <1>4, CompleteCoherent DEF completeTarget, TypeOK, Coherent
  <1>5. ASSUME NEW t \in Target, NEW o \in Owner, releaseTarget(t, o)
        PROVE  TypeOK' /\ Coherent'
    BY <1>5, ReleaseCoherent DEF releaseTarget, TypeOK, Coherent
  <1>6. ASSUME NEW t \in Target, markCooldownSkipTarget(t)
        PROVE  TypeOK' /\ Coherent'
    <2>1. PICK D \in PruneChoices(claims) :
            /\ claims' = [Pruned(claims, D) EXCEPT ![t] = AfterCooldownSkip(@)]
            /\ forgotten' = forgotten \cup D
            /\ holders' = holders
      BY <1>6 DEF markCooldownSkipTarget
    <2>2. LET c == AfterCooldownSkip(Pruned(claims, D)[t]) IN c \in Claim /\ EntryCoherent(c)
      BY PrunedCoherent, CooldownSkipCoherent DEF Claim
    <2> QED
      BY <2>1, <2>2, PrunedCoherent DEF TypeOK, Coherent
  <1>7. CASE UNCHANGED vars
    BY <1>7 DEF vars, TypeOK, Coherent
  <1> QED
    BY <1>1, <1>2, <1>3, <1>4, <1>5, <1>6, <1>7 DEF Next

(* Every reachable state is well typed and every entry's fields agree. *)
THEOREM CoordinatorCoherent == Spec => [](TypeOK /\ Coherent)
  <1>1. Init => TypeOK /\ Coherent
    BY NoClaimCoherent DEF Init, TypeOK, Coherent
  <1>2. TypeOK /\ Coherent /\ [Next]_vars => (TypeOK /\ Coherent)'
    BY CoherentStep
  <1> QED
    BY <1>1, <1>2, PTL DEF Spec

-----------------------------------------------------------------------------
(* Exclusive ownership among the primary sources *)

IInv == TypeOK /\ Coherent /\ HolderIsOwnerOrClosed /\ OnePrimaryHolder

(* A granted claim was absent, or open and either held by the asker or by  *)
(* a source that is not primary.                                           *)
LEMMA GrantedOnlyFrom ==
  ASSUME NEW c \in Claim, NEW o \in Owner,
         \/ isPrimarySource(o) /\ ReserveGranted(c, o)
         \/ ClaimGranted(c, o)
  PROVE  \/ c = NoClaim
         \/ ~c.completed /\ (c.owner = o \/ ~isPrimarySource(c.owner))
  <1>1. ASSUME Outranks(o, c.owner)
        PROVE  ~isPrimarySource(c.owner)
    BY <1>1 DEF Outranks, SOURCE_PRIORITY, isPrimarySource
  <1> QED
    BY <1>1 DEF ReserveGranted, ClaimGranted

(* A refused claim is left as it was; a granted one is the asker's.        *)
LEMMA GrantOutcome ==
  ASSUME NEW c \in Claim, EntryCoherent(c), NEW o \in Owner
  PROVE  /\ ~ClaimGranted(c, o) => AfterClaim(c, o) = c
         /\ ClaimGranted(c, o) => AfterClaim(c, o).owner = o
         /\ ~ReserveGranted(c, o) => AfterReserve(c, o) = c
         /\ ReserveGranted(c, o) => AfterReserve(c, o).owner = o
  BY PromotedCoherent DEF AfterClaim, AfterReserve, FreshEntry

(* Exclusivity on one target is kept when an owner that is granted the     *)
(* claim c joins the holders H and becomes the owner of record.            *)
Exclusive(c, H) ==
  /\ \A o \in H : isPrimarySource(o) => c.owner = o \/ c.completed
  /\ \A o, p \in H : isPrimarySource(o) /\ isPrimarySource(p) => o = p

LEMMA GrantExclusive ==
  ASSUME NEW c \in Claim, NEW H \in SUBSET Owner, Exclusive(c, H), NEW o \in Owner,
         \/ c = NoClaim
         \/ ~c.completed /\ (c.owner = o \/ ~isPrimarySource(c.owner)),
         NEW d, d.owner = o
  PROVE  Exclusive(d, H \cup {o})
  <1>1. ASSUME NEW p \in H, isPrimarySource(p)
        PROVE  p = o
    <2>1. c.owner = p \/ c.completed
      BY <1>1 DEF Exclusive
    <2>2. c # NoClaim
      BY <2>1, OwnerAssumption DEF NoClaim
    <2> QED
      BY <1>1, <2>1, <2>2
  <1> QED
    BY <1>1 DEF Exclusive

(* Exclusivity survives a holder's leaving, and a change of claim that     *)
(* keeps the owner or closes the target.                                   *)
LEMMA KeepExclusive ==
  ASSUME NEW c, NEW H, Exclusive(c, H), NEW G \in SUBSET H, NEW d,
         \A p \in G : (d.owner = c.owner /\ (c.completed => d.completed)) \/ d.completed
  PROVE  Exclusive(d, G)
  BY DEF Exclusive

LEMMA ExclusiveInv ==
  HolderIsOwnerOrClosed /\ OnePrimaryHolder
    <=> \A t \in Target \ forgotten : Exclusive(claims[t], holders[t])
  BY DEF HolderIsOwnerOrClosed, OnePrimaryHolder, Exclusive

LEMMA ExclusiveStep ==
  ASSUME IInv, [Next]_vars
  PROVE  \A u \in (Target \ forgotten)' : Exclusive(claims'[u], holders'[u])
  <1> USE DEF IInv
  <1>0. \A u \in Target \ forgotten : Exclusive(claims[u], holders[u])
    BY ExclusiveInv
  <1>1. ASSUME NEW t \in Target, NEW o \in Owner, NEW D \in PruneChoices(claims),
               forgotten' = forgotten \cup D,
               NEW d, claims' = [Pruned(claims, D) EXCEPT ![t] = d],
               \/ holders' = holders /\ d = Pruned(claims, D)[t]
               \/ /\ holders' = [holders EXCEPT ![t] = @ \cup {o}]
                  /\ d.owner = o
                  /\ LET c == Pruned(claims, D)[t] IN
                       \/ c = NoClaim
                       \/ ~c.completed /\ (c.owner = o \/ ~isPrimarySource(c.owner)),
               NEW u \in Target \ forgotten'
        PROVE  Exclusive(claims'[u], holders'[u])
    <2>1. u \in Target \ forgotten /\ Pruned(claims, D)[u] = claims[u]
      BY <1>1 DEF Pruned
    <2>2. Exclusive(claims[u], holders[u]) /\ claims[u] \in Claim /\ holders[u] \in SUBSET Owner
      BY <1>0, <2>1 DEF TypeOK
    <2>3. Pruned(claims, D) \in [Target -> Claim]
      BY PrunedCoherent
    <2>4. CASE u # t
      BY <1>1, <2>1, <2>2, <2>3, <2>4 DEF TypeOK
    <2>5. CASE u = t /\ holders' = holders /\ d = Pruned(claims, D)[t]
      BY <1>1, <2>1, <2>2, <2>3, <2>5
    <2>6. CASE u = t /\ holders' = [holders EXCEPT ![t] = @ \cup {o}] /\ d.owner = o
      <3>1. claims'[u] = d /\ holders'[u] = holders[u] \cup {o}
        BY <1>1, <2>3, <2>6 DEF TypeOK
      <3>2. Exclusive(d, holders[u] \cup {o}) \/ (holders' = holders /\ d = Pruned(claims, D)[t])
        BY <1>1, <2>1, <2>2, <2>6, GrantExclusive
      <3> QED
        BY <2>5, <2>6, <3>1, <3>2
    <2> QED
      BY <1>1, <2>4, <2>5, <2>6
  <1>2. ASSUME NEW t \in Target, NEW o \in Owner, reservePrimary(t, o)
        PROVE  \A u \in Target \ forgotten' : Exclusive(claims'[u], holders'[u])
    <2>1. PICK D \in PruneChoices(claims) :
            /\ claims' = [Pruned(claims, D) EXCEPT ![t] = AfterReserve(@, o)]
            /\ holders' = IF ReserveGranted(Pruned(claims, D)[t], o)
                          THEN [holders EXCEPT ![t] = @ \cup {o}] ELSE holders
            /\ forgotten' = forgotten \cup D
      BY <1>2 DEF reservePrimary
    <2> DEFINE c == Pruned(claims, D)[t]
               d == AfterReserve(c, o)
    <2>2. isPrimarySource(o) /\ c \in Claim /\ EntryCoherent(c)
      BY <1>2, PrunedCoherent DEF reservePrimary
    <2>3. claims' = [Pruned(claims, D) EXCEPT ![t] = d]
      BY <2>1
    <2>4. CASE ReserveGranted(c, o)
      <3>1. c = NoClaim \/ (~c.completed /\ (c.owner = o \/ ~isPrimarySource(c.owner)))
        BY <2>2, <2>4, GrantedOnlyFrom
      <3>2. d.owner = o
        BY <2>2, <2>4, GrantOutcome
      <3> QED
        BY <1>1, <2>1, <2>3, <2>4, <3>1, <3>2
    <2>5. CASE ~ReserveGranted(c, o)
      <3>1. d = c
        BY <2>2, <2>5, GrantOutcome
      <3> QED
        BY <1>1, <2>1, <2>3, <2>5, <3>1
    <2> QED
      BY <2>4, <2>5
  <1>3. ASSUME NEW t \in Target, NEW o \in Owner, claimTarget(t, o)
        PROVE  \A u \in Target \ forgotten' : Exclusive(claims'[u], holders'[u])
    <2>1. PICK D \in PruneChoices(claims) :
            /\ claims' = [Pruned(claims, D) EXCEPT ![t] = AfterClaim(@, o)]
            /\ holders' = IF ClaimGranted(Pruned(claims, D)[t], o)
                          THEN [holders EXCEPT ![t] = @ \cup {o}] ELSE holders
            /\ forgotten' = forgotten \cup D
      BY <1>3 DEF claimTarget
    <2> DEFINE c == Pruned(claims, D)[t]
               d == AfterClaim(c, o)
    <2>2. c \in Claim /\ EntryCoherent(c)
      BY PrunedCoherent
    <2>3. claims' = [Pruned(claims, D) EXCEPT ![t] = d]
      BY <2>1
    <2>4. CASE ClaimGranted(c, o)
      <3>1. c = NoClaim \/ (~c.completed /\ (c.owner = o \/ ~isPrimarySource(c.owner)))
        BY <2>2, <2>4, GrantedOnlyFrom
      <3>2. d.owner = o
        BY <2>2, <2>4, GrantOutcome
      <3> QED
        BY <1>1, <2>1, <2>3, <2>4, <3>1, <3>2
    <2>5. CASE ~ClaimGranted(c, o)
      <3>1. d = c
        BY <2>2, <2>5, GrantOutcome
      <3> QED
        BY <1>1, <2>1, <2>3, <2>5, <3>1
    <2> QED
      BY <2>4, <2>5
  <1>4. ASSUME NEW t \in Target, NEW o \in Owner, markRunning(t, o)
        PROVE  \A u \in Target \ forgotten' : Exclusive(claims'[u], holders'[u])
    <2> SUFFICES ASSUME NEW u \in Target \ forgotten
                 PROVE  Exclusive(claims'[u], holders[u])
      BY <1>4 DEF markRunning
    <2>1. claims[t] \in Claim /\ EntryCoherent(claims[t])
      BY DEF TypeOK, Coherent
    <2>2. AfterMarkRunning(claims[t], o).owner = claims[t].owner
          /\ AfterMarkRunning(claims[t], o).completed = claims[t].completed
      BY <2>1, PromotedCoherent DEF AfterMarkRunning
    <2>3. claims'[u].owner = claims[u].owner /\ claims'[u].completed = claims[u].completed
      BY <1>4, <2>2 DEF markRunning, TypeOK
    <2> QED
      BY <1>0, <2>3 DEF Exclusive
  <1>5. ASSUME NEW t \in Target, NEW o \in Owner, NEW k \in {"NO_BET", "SIGNAL"},
               completeTarget(t, o, k)
        PROVE  \A u \in Target \ forgotten' : Exclusive(claims'[u], holders'[u])
    <2> SUFFICES ASSUME NEW u \in Target \ forgotten
                 PROVE  Exclusive(claims'[u], holders'[u])
      BY <1>5 DEF completeTarget
    <2>1. holders'[u] \in SUBSET holders[u]
      BY <1>5 DEF completeTarget, TypeOK
    <2>2. claims'[u] = claims[u] \/ claims'[u].completed
      BY <1>5 DEF completeTarget, TypeOK, AfterComplete
    <2> QED
      BY <1>0, <2>1, <2>2, KeepExclusive
  <1>6. ASSUME NEW t \in Target, NEW o \in Owner, releaseTarget(t, o)
        PROVE  \A u \in Target \ forgotten' : Exclusive(claims'[u], holders'[u])
    <2> SUFFICES ASSUME NEW u \in Target \ forgotten
                 PROVE  Exclusive(claims'[u], holders'[u])
      BY <1>6 DEF releaseTarget
    <2>1. holders'[u] = IF u = t THEN holders[u] \ {o} ELSE holders[u]
      BY <1>6 DEF releaseTarget, TypeOK
    <2>2. claims'[u] = IF u = t THEN AfterRelease(claims[u], o) ELSE claims[u]
      BY <1>6 DEF releaseTarget, TypeOK
    <2>3. CASE claims'[u] = claims[u]
      BY <1>0, <2>1, <2>3, KeepExclusive
    <2>4. CASE claims'[u] # claims[u]
      <3>1. u = t /\ claims[u].owner = o /\ ~claims[u].completed
        BY <2>2, <2>4 DEF AfterRelease
      <3>2. \A p \in holders'[u] : ~isPrimarySource(p)
        BY <1>0, <2>1, <3>1 DEF Exclusive
      <3> QED
        BY <3>2 DEF Exclusive
    <2> QED
      BY <2>3, <2>4
  <1>7. ASSUME NEW t \in Target, markCooldownSkipTarget(t)
        PROVE  \A u \in Target \ forgotten' : Exclusive(claims'[u], holders'[u])
    <2>1. PICK D \in PruneChoices(claims) :
            /\ claims' = [Pruned(claims, D) EXCEPT ![t] = AfterCooldownSkip(@)]
            /\ forgotten' = forgotten \cup D
            /\ holders' = holders
      BY <1>7 DEF markCooldownSkipTarget
    <2> SUFFICES ASSUME NEW u \in Target \ forgotten'
                 PROVE  Exclusive(claims'[u], holders[u])
      BY <2>1
    <2>2. u \in Target \ forgotten /\ Pruned(claims, D)[u] = claims[u]
      BY <2>1 DEF Pruned
    <2>3. AfterCooldownSkip(Pruned(claims, D)[t]).completed
      BY PrunedCoherent, CooldownSkipCoherent
    <2>4. claims'[u] = claims[u] \/ claims'[u].completed
      BY <2>1, <2>2, <2>3, PrunedCoherent
    <2> QED
      BY <1>0, <2>2, <2>4, KeepExclusive
  <1>8. CASE UNCHANGED vars
    BY <1>0, <1>8 DEF vars
  <1> QED
    BY <1>2, <1>3, <1>4, <1>5, <1>6, <1>7, <1>8 DEF Next

(* Types, coherent entries, holders of record and exclusion together are    *)
(* preserved by every call.                                                 *)
THEOREM CoordinatorInvariant == Spec => []IInv
  <1>1. Init => IInv
    BY NoClaimCoherent
       DEF Init, IInv, TypeOK, Coherent, HolderIsOwnerOrClosed, OnePrimaryHolder
  <1>2. IInv /\ [Next]_vars => IInv'
    <2> SUFFICES ASSUME IInv, [Next]_vars PROVE IInv'
      OBVIOUS
    <2>1. TypeOK' /\ Coherent'
      BY CoherentStep DEF IInv
    <2>2. HolderIsOwnerOrClosed' /\ OnePrimaryHolder'
      BY ExclusiveStep DEF HolderIsOwnerOrClosed, OnePrimaryHolder, Exclusive
    <2> QED
      BY <2>1, <2>2 DEF IInv
  <1> QED
    BY <1>1, <1>2, PTL DEF Spec

(* Every variable keeps its shape, whatever is called. *)
THEOREM CoordinatorTypes == Spec => []TypeOK
  <1>1. IInv => TypeOK
    BY DEF IInv
  <1> QED
    BY <1>1, CoordinatorInvariant, PTL

(* Two primary owners never both hold a target that was not pruned. *)
THEOREM CoordinatorExclusive == Spec => []OnePrimaryHolder
  <1>1. IInv => OnePrimaryHolder
    BY DEF IInv
  <1> QED
    BY <1>1, CoordinatorInvariant, PTL

(* A primary owner that was told it owns a target and has not given up is  *)
(* still the owner the map records, or the target is closed.               *)
THEOREM CoordinatorHolders == Spec => []HolderIsOwnerOrClosed
  <1>1. IInv => HolderIsOwnerOrClosed
    BY DEF IInv
  <1> QED
    BY <1>1, CoordinatorInvariant, PTL

(* The gates the handlers read say what reserve and claim would answer, as *)
(* soon as some PR or BG owner exists.                                     *)
THEOREM CoordinatorGates ==
  ASSUME \E p \in Owner : isPrimarySource(p)
  PROVE  Spec => []GatesAgree
  <1>1. IInv => GatesAgree
    <2> SUFFICES ASSUME IInv, NEW t \in Target
                 PROVE  /\ isPrimaryOwnedOrTerminal(claims[t]) <=>
                             \A o \in {p \in Owner : isPrimarySource(p)} \ {claims[t].owner} :
                               ~ReserveGranted(claims[t], o)
                        /\ isBgBlocking(claims[t]) =>
                             \A o \in {p \in Owner : ~isPrimarySource(p)} :
                               ~ClaimGranted(claims[t], o)
      BY DEF GatesAgree
    <2> DEFINE c == claims[t]
    <2>1. c \in Claim /\ EntryCoherent(c)
      BY DEF IInv, TypeOK, Coherent
    <2>2. ASSUME isPrimaryOwnedOrTerminal(c), NEW o \in Owner, o # c.owner
          PROVE  ~ReserveGranted(c, o)
      BY <2>2 DEF isPrimaryOwnedOrTerminal, ReserveGranted
    <2>3. ASSUME ~isPrimaryOwnedOrTerminal(c)
          PROVE  \E o \in Owner : isPrimarySource(o) /\ o # c.owner /\ ReserveGranted(c, o)
      <3>1. PICK p \in Owner : isPrimarySource(p)
        OBVIOUS
      <3>2. CASE c = NoClaim
        <4>1. p # c.owner
          BY <3>2, OwnerAssumption DEF NoClaim
        <4> QED
          BY <3>1, <3>2, <4>1 DEF ReserveGranted
      <3>3. CASE c # NoClaim
        <4>1. ~c.completed /\ ~isPrimarySource(c.owner)
          BY <2>3, <3>3 DEF isPrimaryOwnedOrTerminal
        <4>2. Outranks(p, c.owner)
          BY <3>1, <4>1 DEF Outranks, SOURCE_PRIORITY, isPrimarySource
        <4> QED
          BY <3>1, <4>1, <4>2 DEF ReserveGranted
      <3> QED
        BY <3>2, <3>3
    <2>4. ASSUME isBgBlocking(c), NEW o \in Owner, ~isPrimarySource(o)
          PROVE  ~ClaimGranted(c, o)
      <3>1. c # NoClaim /\ isPrimarySource(c.owner) /\ c.owner # o
        BY <2>4 DEF isBgBlocking
      <3>2. ~Outranks(o, c.owner)
        BY <2>4, <3>1 DEF Outranks, SOURCE_PRIORITY, isPrimarySource
      <3> QED
        BY <3>1, <3>2 DEF ClaimGranted
    <2> QED
      BY <2>2, <2>3, <2>4
  <1> QED
    BY <1>1, CoordinatorInvariant, PTL

-----------------------------------------------------------------------------
(* Every operation, seen on its one claim, is a step of the abstract owner *)

(* The status of an entry, and of no entry. *)
LEMMA StatusCases ==
  ASSUME NEW c \in Claim, EntryCoherent(c)
  PROVE  /\ c = NoClaim => StatusOf(c) = Ownership!Open
         /\ c # NoClaim /\ c.completed => StatusOf(c) = Ownership!Closed
         /\ c # NoClaim /\ ~c.completed =>
              c.owner \in Owner /\ StatusOf(c) = Ownership!Held(c.owner)
         /\ c # NoClaim => StatusOf(c) # Ownership!Open
  BY OwnerAssumption
     DEF StatusOf, Claim, Entry, EntryCoherent, Ownership!Open, Ownership!Closed, Ownership!Held

(* Taking an absent claim, or one of a lower tier, is a Grant. *)
LEMMA TakeStep ==
  ASSUME NEW c \in Claim, EntryCoherent(c), NEW o \in Owner,
         c = NoClaim \/ (~c.completed /\ Outranks(o, c.owner)),
         NEW s
  PROVE  Ownership!Step(StatusOf(c), StatusOf(FreshEntry(o, s)))
  <1>1. StatusOf(FreshEntry(o, s)) = Ownership!Held(o)
    BY OwnerAssumption DEF FreshEntry, StatusOf, Ownership!Held, NoClaim
  <1>2. CASE c = NoClaim
    BY <1>1, <1>2, StatusCases DEF Ownership!Step, Ownership!Grant
  <1>3. CASE c # NoClaim
    <2>1. c.owner \in Owner /\ StatusOf(c) = Ownership!Held(c.owner)
      BY <1>3, StatusCases
    <2> DEFINE tier == [p \in Owner |-> SOURCE_PRIORITY(parseSource(p))]
    <2>2. tier[c.owner] < tier[o]
      BY <1>3, <2>1 DEF Outranks, SOURCE_PRIORITY
    <2> QED
      BY <1>1, <2>1, <2>2 DEF Ownership!Step, Ownership!Grant
  <1> QED
    BY <1>2, <1>3

LEMMA ReserveStep ==
  ASSUME NEW c \in Claim, EntryCoherent(c), NEW o \in Owner
  PROVE  Ownership!Step(StatusOf(c), StatusOf(AfterReserve(c, o)))
  BY TakeStep DEF AfterReserve, ReserveGranted, Ownership!Step

LEMMA PromotedStep ==
  ASSUME NEW c \in Claim, EntryCoherent(c), NEW o \in Owner, c.owner = o
  PROVE  Ownership!Step(StatusOf(c), StatusOf(Promoted(c, o)))
  <1>1. StatusOf(Promoted(c, o)) = StatusOf(c)
    BY PromotedCoherent, ClaimOwner DEF StatusOf
  <1> QED
    BY <1>1 DEF Ownership!Step

LEMMA ClaimStep ==
  ASSUME NEW c \in Claim, EntryCoherent(c), NEW o \in Owner
  PROVE  Ownership!Step(StatusOf(c), StatusOf(AfterClaim(c, o)))
  BY TakeStep, PromotedStep DEF AfterClaim, ClaimGranted, Ownership!Step

LEMMA CompleteStep ==
  ASSUME NEW c \in Claim, EntryCoherent(c), NEW o \in Owner, NEW d \in {"NO_BET", "SIGNAL"}
  PROVE  Ownership!Step(StatusOf(c), StatusOf(AfterComplete(c, o, d)))
  <1>1. CASE c.owner # o
    BY <1>1 DEF AfterComplete, Ownership!Step
  <1>2. CASE c.owner = o
    <2>1. StatusOf(AfterComplete(c, o, d)) = Ownership!Closed
      BY <1>2, OwnerAssumption DEF AfterComplete, StatusOf, Ownership!Closed, NoClaim
    <2> QED
      BY <2>1 DEF Ownership!Step, Ownership!Close
  <1> QED
    BY <1>1, <1>2

LEMMA CooldownSkipStep ==
  ASSUME NEW c \in Claim, EntryCoherent(c)
  PROVE  Ownership!Step(StatusOf(c), StatusOf(AfterCooldownSkip(c)))
  <1>1. StatusOf(AfterCooldownSkip(c)) = Ownership!Closed
    BY CooldownSkipCoherent, StatusCases, OwnerAssumption
       DEF Claim, Entry, NoClaim
  <1> QED
    BY <1>1 DEF Ownership!Step, Ownership!Close

LEMMA ReleaseStep ==
  ASSUME NEW c \in Claim, EntryCoherent(c), NEW o \in Owner
  PROVE  Ownership!Step(StatusOf(c), StatusOf(AfterRelease(c, o)))
  <1>1. CASE c.owner = o /\ ~c.completed
    <2>1. c # NoClaim /\ StatusOf(c) = Ownership!Held(o)
      BY <1>1, ClaimOwner, StatusCases
    <2>2. StatusOf(AfterRelease(c, o)) = Ownership!Open
      BY <1>1, NoClaimCoherent, StatusCases DEF AfterRelease
    <2> QED
      BY <2>1, <2>2 DEF Ownership!Step, Ownership!Release, Ownership!Held
  <1>2. CASE ~(c.owner = o /\ ~c.completed)
    BY <1>2 DEF AfterRelease, Ownership!Step
  <1> QED
    BY <1>1, <1>2

-----------------------------------------------------------------------------
(* Every call prunes some D (nothing, unless it is one of the three that   *)
(* call prune) and then changes one claim by such a step; only a call that *)
(* pruned first can add an entry.                                          *)

CallShape(t, D, d) ==
  /\ \/ D \in PruneChoices(claims)
     \/ D = {} /\ (d # NoClaim => claims[t] # NoClaim)
  /\ claims' = [Pruned(claims, D) EXCEPT ![t] = d]
  /\ Ownership!Step(StatusOf(Pruned(claims, D)[t]), StatusOf(d))

LEMMA PrunedNothing ==
  ASSUME TypeOK
  PROVE  Pruned(claims, {}) = claims
  BY DEF Pruned, TypeOK

LEMMA NextShape ==
  ASSUME TypeOK, Coherent, Next
  PROVE  \E t \in Target, D \in SUBSET Target, d \in Claim : CallShape(t, D, d)
  <1>1. ASSUME NEW t \in Target, NEW o \in Owner, reservePrimary(t, o)
        PROVE  \E D \in SUBSET Target, d \in Claim : CallShape(t, D, d)
    <2>1. PICK D \in PruneChoices(claims) :
            claims' = [Pruned(claims, D) EXCEPT ![t] = AfterReserve(@, o)]
      BY <1>1 DEF reservePrimary
    <2> DEFINE d == AfterReserve(Pruned(claims, D)[t], o)
    <2>2. D \in SUBSET Target /\ d \in Claim
      BY <1>1, PruneSubset, PrunedCoherent, ReserveCoherent DEF reservePrimary
    <2>3. CallShape(t, D, d)
      BY <2>1, PrunedCoherent, ReserveStep DEF CallShape
    <2> QED
      BY <2>2, <2>3
  <1>2. ASSUME NEW t \in Target, NEW o \in Owner, claimTarget(t, o)
        PROVE  \E D \in SUBSET Target, d \in Claim : CallShape(t, D, d)
    <2>1. PICK D \in PruneChoices(claims) :
            claims' = [Pruned(claims, D) EXCEPT ![t] = AfterClaim(@, o)]
      BY <1>2 DEF claimTarget
    <2> DEFINE d == AfterClaim(Pruned(claims, D)[t], o)
    <2>2. D \in SUBSET Target /\ d \in Claim
      BY PruneSubset, PrunedCoherent, ClaimCoherent
    <2>3. CallShape(t, D, d)
      BY <2>1, PrunedCoherent, ClaimStep DEF CallShape
    <2> QED
      BY <2>2, <2>3
  <1>3. ASSUME NEW t \in Target, markCooldownSkipTarget(t)
        PROVE  \E D \in SUBSET Target, d \in Claim : CallShape(t, D, d)
    <2>1. PICK D \in PruneChoices(claims) :
            claims' = [Pruned(claims, D) EXCEPT ![t] = AfterCooldownSkip(@)]
      BY <1>3 DEF markCooldownSkipTarget
    <2> DEFINE d == AfterCooldownSkip(Pruned(claims, D)[t])
    <2>2. D \in SUBSET Target /\ d \in Claim
      BY PruneSubset, PrunedCoherent, CooldownSkipCoherent DEF Claim
    <2>3. CallShape(t, D, d)
      BY <2>1, PrunedCoherent, CooldownSkipStep DEF CallShape
    <2> QED
      BY <2>2, <2>3
  <1>4. ASSUME NEW t \in Target, NEW d \in Claim,
               claims' = [claims EXCEPT ![t] = d],
               d # NoClaim => claims[t] # NoClaim,
               Ownership!Step(StatusOf(claims[t]), StatusOf(d))
        PROVE  \E D \in SUBSET Target, e \in Claim : CallShape(t, D, e)
    <2>1. CallShape(t, {}, d)
      BY <1>4, PrunedNothing DEF CallShape
    <2> QED
      BY <2>1
  <1>5. \A t \in Target : claims[t] \in Claim /\ EntryCoherent(claims[t])
    BY DEF TypeOK, Coherent
  <1>6. ASSUME NEW t \in Target, NEW o \in Owner, markRunning(t, o)
        PROVE  \E D \in SUBSET Target, d \in Claim : CallShape(t, D, d)
    <2> DEFINE d == AfterMarkRunning(claims[t], o)
    <2>1. d \in Claim /\ (d # NoClaim => claims[t] # NoClaim)
      BY <1>5, MarkRunningCoherent, ClaimOwner DEF AfterMarkRunning
    <2>2. Ownership!Step(StatusOf(claims[t]), StatusOf(d))
      BY <1>5, PromotedStep DEF AfterMarkRunning, Ownership!Step
    <2> QED
      BY <1>4, <1>6, <2>1, <2>2 DEF markRunning
  <1>7. ASSUME NEW t \in Target, NEW o \in Owner, NEW k \in {"NO_BET", "SIGNAL"},
               completeTarget(t, o, k)
        PROVE  \E D \in SUBSET Target, d \in Claim : CallShape(t, D, d)
    <2> DEFINE d == AfterComplete(claims[t], o, k)
    <2>1. d \in Claim /\ (d # NoClaim => claims[t] # NoClaim)
      BY <1>5, CompleteCoherent, ClaimOwner DEF AfterComplete
    <2>2. Ownership!Step(StatusOf(claims[t]), StatusOf(d))
      BY <1>5, CompleteStep
    <2> QED
      BY <1>4, <1>7, <2>1, <2>2 DEF completeTarget
  <1>8. ASSUME NEW t \in Target, NEW o \in Owner, releaseTarget(t, o)
        PROVE  \E D \in SUBSET Target, d \in Claim : CallShape(t, D, d)
    <2> DEFINE d == AfterRelease(claims[t], o)
    <2>1. d \in Claim /\ (d # NoClaim => claims[t] # NoClaim)
      BY <1>5, ReleaseCoherent DEF AfterRelease
    <2>2. Ownership!Step(StatusOf(claims[t]), StatusOf(d))
      BY <1>5, ReleaseStep
    <2> QED
      BY <1>4, <1>8, <2>1, <2>2 DEF releaseTarget
  <1> QED
    BY <1>1, <1>2, <1>3, <1>6, <1>7, <1>8 DEF Next

-----------------------------------------------------------------------------
LEMMA ClosedStep ==
  ASSUME NEW s, Ownership!Step(Ownership!Closed, s)
  PROVE  s = Ownership!Closed
  <1>1. Ownership!Closed # Ownership!Open /\ Ownership!Closed.kind # "held"
    BY DEF Ownership!Closed, Ownership!Open
  <1>2. \A p \in Owner : Ownership!Closed # Ownership!Held(p)
    BY DEF Ownership!Closed, Ownership!Held
  <1>3. ~Ownership!Grant(Ownership!Closed, s)
    BY <1>1, <1>2 DEF Ownership!Grant
  <1> QED
    BY <1>1, <1>3 DEF Ownership!Step, Ownership!Close, Ownership!Release

(* A completed target stays closed unless prune ran above the limit. *)
THEOREM CoordinatorClosedStays == Spec => ClosedStaysClosed
  <1>1. ASSUME TypeOK, Coherent, TypeOK', Coherent', [Next]_vars, NEW u \in Target,
               claims[u].completed
        PROVE  claims'[u].completed \/ Cardinality(Live(claims)) > MaxEntries
    <2>1. CASE UNCHANGED vars
      BY <1>1, <2>1 DEF vars
    <2>2. CASE Next
      <3>1. PICK t \in Target, D \in SUBSET Target, d \in Claim : CallShape(t, D, d)
        BY <1>1, <2>2, NextShape
      <3>2. CASE D = {}
        <4>1. claims' = [claims EXCEPT ![t] = d]
              /\ Ownership!Step(StatusOf(claims[t]), StatusOf(d))
          BY <1>1, <3>1, <3>2, PrunedNothing DEF CallShape
        <4>2. CASE u # t
          BY <1>1, <4>1, <4>2 DEF TypeOK
        <4>3. CASE u = t
          <5>1. StatusOf(claims[t]) = Ownership!Closed
            BY <1>1, <4>3, StatusCases DEF TypeOK, Coherent, NoClaim
          <5>2. StatusOf(d) = Ownership!Closed
            BY <4>1, <4>3, <5>1, ClosedStep
          <5>3. claims'[u] = d
            BY <4>1, <4>3, <1>1 DEF TypeOK
          <5> QED
            BY <5>2, <5>3 DEF StatusOf, Ownership!Closed
        <4> QED
          BY <4>2, <4>3
      <3>3. CASE D # {}
        <4>1. D \in PruneChoices(claims)
          BY <3>1, <3>3 DEF CallShape
        <4>2. ~(Cardinality(Live(claims)) <= MaxEntries)
          BY <3>3, <4>1 DEF PruneChoices
        <4>3. Cardinality(Live(claims)) \in Nat
          BY CoordinatorAssumption, FS_Subset, FS_CardinalityType DEF Live
        <4> QED
          BY <4>2, <4>3, CoordinatorAssumption
      <3> QED
        BY <3>2, <3>3
    <2> QED
      BY <1>1, <2>1, <2>2
  <1>2. (TypeOK /\ Coherent) /\ (TypeOK /\ Coherent)' /\ [Next]_vars
          => [\A t \in Target : claims[t].completed =>
                claims'[t].completed \/ Cardinality(Live(claims)) > MaxEntries]_vars
    BY <1>1
  <1> QED
    BY <1>2, CoordinatorCoherent, PTL DEF Spec, ClosedStaysClosed

-----------------------------------------------------------------------------
(* The map never grows beyond one entry above its limit. *)

LEMMA LiveFinite ==
  ASSUME NEW cl
  PROVE  IsFiniteSet(Live(cl)) /\ Cardinality(Live(cl)) \in Nat
  BY CoordinatorAssumption, FS_Subset, FS_CardinalityType DEF Live

(* After pruning at most MaxEntries entries are left. *)
LEMMA PrunedBounded ==
  ASSUME NEW cl, NEW D \in PruneChoices(cl)
  PROVE  Cardinality(Live(Pruned(cl, D))) <= MaxEntries
  <1>1. Live(Pruned(cl, D)) = Live(cl) \ D
    BY DEF Live, Pruned
  <1>2. CASE Cardinality(Live(cl)) <= MaxEntries
    <2>1. D = {}
      BY <1>2 DEF PruneChoices
    <2>2. Live(cl) \ D = Live(cl)
      BY <2>1
    <2> QED
      BY <1>1, <1>2, <2>2
  <1>3. CASE ~(Cardinality(Live(cl)) <= MaxEntries)
    BY <1>1, <1>3 DEF PruneChoices
  <1> QED
    BY <1>2, <1>3

LEMMA BoundedStep ==
  ASSUME TypeOK, Coherent, Bounded, Next
  PROVE  Bounded'
  <1>1. PICK t \in Target, D \in SUBSET Target, d \in Claim : CallShape(t, D, d)
    BY NextShape
  <1> DEFINE L == Live(Pruned(claims, D))
  <1>2. IsFiniteSet(L) /\ Cardinality(L) \in Nat /\ MaxEntries \in Nat
    BY LiveFinite, CoordinatorAssumption
  <1>3. Cardinality(Live(claims')) \in Nat /\ IsFiniteSet(Live(claims'))
    BY LiveFinite
  <1>4. claims' = [Pruned(claims, D) EXCEPT ![t] = d]
    BY <1>1 DEF CallShape
  <1>5. Live(claims') \subseteq L \cup {t}
    BY <1>4 DEF Live, Pruned
  <1>6. CASE D \in PruneChoices(claims)
    <2>1. Cardinality(L) <= MaxEntries
      BY <1>6, PrunedBounded
    <2>2. IsFiniteSet(L \cup {t}) /\ Cardinality(L \cup {t}) <= Cardinality(L) + 1
          /\ Cardinality(L \cup {t}) \in Nat
      <3> HIDE DEF L
      <3>1. IsFiniteSet(L \cup {t})
        BY <1>2, FS_AddElement
      <3>2. Cardinality(L \cup {t}) = IF t \in L THEN Cardinality(L) ELSE Cardinality(L) + 1
        BY <1>2, FS_AddElement
      <3> QED
        BY <1>2, <3>1, <3>2
    <2>3. Cardinality(Live(claims')) <= Cardinality(L \cup {t})
      BY <1>5, <2>2, FS_Subset
    <2>4. Cardinality(Live(claims')) <= MaxEntries + 1
      BY <1>2, <1>3, <2>1, <2>2, <2>3
    <2> QED
      BY <2>4 DEF Bounded
  <1>7. CASE D \notin PruneChoices(claims)
    <2>1. Pruned(claims, D) = claims /\ (d # NoClaim => claims[t] # NoClaim)
      BY <1>1, <1>7, PrunedNothing DEF CallShape
    <2>2. Live(claims') \subseteq Live(claims)
      BY <1>4, <2>1 DEF Live
    <2>3. Cardinality(Live(claims')) <= Cardinality(Live(claims))
      BY <2>2, LiveFinite, FS_Subset
    <2>4. Cardinality(Live(claims')) <= MaxEntries + 1
      BY <1>2, <1>3, <2>3, LiveFinite DEF Bounded
    <2> QED
      BY <2>4 DEF Bounded
  <1> QED
    BY <1>6, <1>7

(* completeTarget, releaseTarget and markRunning never prune, yet the map  *)
(* stays within one entry of its limit, because they never add one.        *)
THEOREM CoordinatorBounded == Spec => []Bounded
  <1>1. Init => Bounded
    <2> SUFFICES ASSUME Init PROVE Bounded
      OBVIOUS
    <2>1. Live(claims) = {}
      BY DEF Init, Live
    <2>2. Cardinality(Live(claims)) = 0
      BY <2>1, FS_EmptySet
    <2> QED
      BY <2>2, CoordinatorAssumption DEF Bounded
  <1>2. TypeOK /\ Coherent /\ Bounded /\ [Next]_vars => Bounded'
    <2>1. Bounded /\ UNCHANGED vars => Bounded'
      BY DEF Bounded, Live, vars
    <2> QED
      BY <2>1, BoundedStep
  <1> QED
    BY <1>1, <1>2, CoordinatorCoherent, PTL DEF Spec

-----------------------------------------------------------------------------
(* Refinement *)

LEMMA OwnershipStep ==
  ASSUME TypeOK, Coherent, Next
  PROVE  Ownership!Next
  <1>1. PICK t \in Target, D \in SUBSET Target, d \in Claim : CallShape(t, D, d)
    BY NextShape
  <1> DEFINE st == [u \in Target |-> StatusOf(claims[u])]
  <1>2. Ownership!Forgettable(D)
    <2>1. Ownership!Remembered = Live(claims)
      BY StatusCases DEF Ownership!Remembered, Live, TypeOK, Coherent
    <2>2. D = {} \/ Cardinality(Live(claims)) > MaxEntries
      BY <1>1, LiveFinite, CoordinatorAssumption DEF CallShape, PruneChoices
    <2> QED
      BY <2>1, <2>2 DEF Ownership!Forgettable, Live
  <1>3. ASSUME NEW u \in Target
        PROVE  StatusOf(Pruned(claims, D)[u]) = IF u \in D THEN Ownership!Open ELSE st[u]
    BY NoClaimCoherent, StatusCases DEF Pruned
  <1>4. StatusOf(d) \in {Ownership!Open, Ownership!Closed} \cup {Ownership!Held(o) : o \in Owner}
    <2>1. claims' = [Pruned(claims, D) EXCEPT ![t] = d] /\ Coherent'
      BY <1>1, CoherentStep DEF CallShape
    <2>2. EntryCoherent(d)
      BY <2>1 DEF Coherent, Pruned
    <2> QED
      BY <2>2, StatusCases
  <1>5. Ownership!Step(IF t \in D THEN Ownership!Open ELSE st[t], StatusOf(d))
    BY <1>1, <1>3 DEF CallShape
  <1>6. st' = [u \in Target |-> IF u = t THEN StatusOf(d)
                                ELSE IF u \in D THEN Ownership!Open ELSE st[u]]
    <2>1. claims' = [Pruned(claims, D) EXCEPT ![t] = d]
      BY <1>1 DEF CallShape
    <2>2. ASSUME NEW u \in Target
          PROVE  claims'[u] = IF u = t THEN d ELSE Pruned(claims, D)[u]
      BY <2>1 DEF Pruned
    <2> QED
      BY <1>3, <2>2
  <1>7. Ownership!Operation(t, D)
    <2> DEFINE s1 == StatusOf(d)
    <2> HIDE DEF s1
    <2> QED
      BY <1>4, <1>5, <1>6, <1>2 DEF Ownership!Operation, s1
  <1> QED
    BY <1>7 DEF Ownership!Next

(* The coordinator implements the abstract ownership of targets. *)
THEOREM CoordinatorImplementsOwnership == Spec => ImplementsOwnership
  <1>1. Init => Ownership!Init
    BY NoClaimCoherent, StatusCases DEF Init, Ownership!Init
  <1>2. TypeOK /\ Coherent /\ [Next]_vars
          => [Ownership!Next]_([t \in Target |-> StatusOf(claims[t])])
    <2>1. UNCHANGED vars => UNCHANGED [t \in Target |-> StatusOf(claims[t])]
      BY DEF vars
    <2> QED
      BY <2>1, OwnershipStep
  <1> QED
    BY <1>1, <1>2, CoordinatorCoherent, PTL DEF Spec, ImplementsOwnership, Ownership!Spec

=============================================================================
