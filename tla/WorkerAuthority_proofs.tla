------------------------ MODULE WorkerAuthority_proofs ------------------------
(***************************************************************************)
(* Theorems about the worker lease for every set of workers, every length  *)
(* of the lease and of the heartbeat interval, and any number of incidents.*)
(***************************************************************************)
EXTENDS WorkerAuthority, TLAPS

(* The budget of a live worker: an interval for each strike, and the one   *)
(* that is running.                                                        *)
Budget(w) == (IF strikes[w] = 0 THEN 0 ELSE Beat) + beat[w]

(* A live worker that has the row has never been without it, and one that  *)
(* lost it has not been without for longer than its strikes account for.   *)
WithinBudget ==
  \A w \in Worker : Serving(w) =>
    /\ owner = w => gap[w] = 0
    /\ incidents = 0 => gap[w] <= Budget(w)

LeaseInv == TypeOK /\ DemotedHoldsNothing /\ WithinBudget

-----------------------------------------------------------------------------
(* Lemmas *)

(* A counter that stops at its bound stays below it and grows by one *)
LEMMA UptoBounds ==
  ASSUME NEW max \in Nat, NEW n \in 0 .. max
  PROVE  /\ Upto(n, max) \in 0 .. max
         /\ Upto(n, max) <= n + 1
         /\ n # max => Upto(n, max) = n + 1
  BY DEF Upto

(* What a step may charge to the bound on incidents *)
LEMMA Incidents ==
  ASSUME TypeOK, Incident \/ NoIncident
  PROVE  /\ incidents' \in 0 .. MaxIncidents
         /\ incidents' = 0 => incidents = 0
         /\ Incident => incidents' # 0
  BY AuthorityAssumption DEF TypeOK, Incident, NoIncident

(* A step that only moves a process, to a state that is neither live nor   *)
(* demoted, and may give the lease up, harms nobody.                       *)
LEMMA MovesAside ==
  ASSUME LeaseInv, NEW w \in Worker,
         NEW to \in {"down", "waiting", "inserting", "starting", "failing", "leaving"},
         Goes(w, to), Timers, Incident \/ NoIncident,
         \/ UNCHANGED lease
         \/ owner' = NoOwner /\ age' = 0
  PROVE  LeaseInv'
  <1>1. TypeOK'
    BY Incidents, AuthorityAssumption DEF LeaseInv, TypeOK, Goes, Timers, lease, Serving
  <1>2. \A v \in Worker : /\ st'[v] \in {"live", "demoted"} => st'[v] = st[v]
                          /\ owner' = v => owner = v
    BY AuthorityAssumption DEF LeaseInv, TypeOK, Goes, lease
  <1>3. DemotedHoldsNothing'
    BY <1>2 DEF LeaseInv, DemotedHoldsNothing
  <1>4. WithinBudget'
    BY <1>2, Incidents DEF LeaseInv, WithinBudget, Budget, Serving, Timers
  <1> QED
    BY <1>1, <1>3, <1>4 DEF LeaseInv

-----------------------------------------------------------------------------
(* The steps of boot.ts *)

LEMMA BootSteps ==
  ASSUME LeaseInv, NEW w \in Worker,
         Boot(w) \/ DropExpired(w) \/ StartFails(w) \/ CleanUp(w) \/ Leave(w) \/ Crash(w) \/ Stop(w)
  PROVE  LeaseInv'
  <1>1. CASE Boot(w)
    BY <1>1, MovesAside DEF Boot
  <1>2. CASE DropExpired(w)
    BY <1>2, MovesAside DEF DropExpired
  <1>3. CASE StartFails(w)
    BY <1>3, MovesAside DEF StartFails
  <1>4. CASE CleanUp(w)
    BY <1>4, MovesAside DEF CleanUp, Released
  <1>5. CASE Leave(w)
    BY <1>5, MovesAside DEF Leave, Released
  <1>6. CASE Crash(w)
    BY <1>6, MovesAside DEF Crash
  <1>7. CASE Stop(w)
    BY <1>7, MovesAside DEF Stop
  <1> QED
    BY <1>1, <1>2, <1>3, <1>4, <1>5, <1>6, <1>7

(* The new owner is not live, and the others do not gain the row *)
LEMMA InsertStep ==
  ASSUME LeaseInv, NEW w \in Worker, Insert(w)
  PROVE  LeaseInv'
  <1>1. /\ st[w] = "inserting" /\ Timers /\ (Incident \/ NoIncident)
        /\ (owner' = w /\ age' = 0) \/ UNCHANGED lease
        /\ \E to \in {"starting", "waiting", "failing"} : Goes(w, to)
    BY DEF Insert, lease
  <1>2. TypeOK'
    BY <1>1, Incidents, AuthorityAssumption DEF LeaseInv, TypeOK, Goes, Timers, lease, Serving
  <1>3. \A v \in Worker : /\ st'[v] \in {"live", "demoted"} => st'[v] = st[v] /\ v # w
                          /\ v # w /\ owner' = v => owner = v
    BY <1>1 DEF LeaseInv, TypeOK, Goes, lease
  <1>4. DemotedHoldsNothing'
    BY <1>3 DEF LeaseInv, DemotedHoldsNothing
  <1>5. WithinBudget'
    BY <1>1, <1>3, Incidents DEF LeaseInv, WithinBudget, Budget, Serving, Timers
  <1> QED
    BY <1>2, <1>4, <1>5 DEF LeaseInv

LEMMA StartedStep ==
  ASSUME LeaseInv, NEW w \in Worker, Started(w)
  PROVE  LeaseInv'
  <1>1. TypeOK'
    BY Incidents, AuthorityAssumption DEF LeaseInv, TypeOK, Started, Goes, lease, Serving
  <1>2. DemotedHoldsNothing'
    BY DEF LeaseInv, TypeOK, DemotedHoldsNothing, Started, Goes, lease
  <1>3. \A v \in Worker \ {w} : /\ st'[v] = st[v] /\ gap'[v] = gap[v]
                                /\ strikes'[v] = strikes[v] /\ beat'[v] = beat[v]
    BY DEF LeaseInv, TypeOK, Started, Goes
  <1>4. gap'[w] = 0 /\ strikes'[w] = 0 /\ beat'[w] = 0
    BY DEF LeaseInv, TypeOK, Started
  <1>5. owner' = owner /\ incidents' = incidents
    BY DEF Started, lease, NoIncident
  <1>6. WithinBudget'
    BY <1>3, <1>4, <1>5, AuthorityAssumption DEF LeaseInv, WithinBudget, Budget, Serving
  <1> QED
    BY <1>1, <1>2, <1>6 DEF LeaseInv

-----------------------------------------------------------------------------
(* The steps of the heartbeat, and time *)

(* A heartbeat that finds another owner turns the running interval into a  *)
(* strike; the second strike ends the service.                             *)
LEMMA HeartbeatStep ==
  ASSUME LeaseInv, NEW w \in Worker, Heartbeat(w)
  PROVE  LeaseInv'
  <1>1. /\ st[w] = "live" /\ beat[w] = Beat /\ strikes[w] \in {0, 1}
        /\ beat'[w] = 0 /\ gap' = gap /\ owner' = owner /\ incidents' = incidents
        /\ \A v \in Worker \ {w} : /\ st'[v] = st[v] /\ beat'[v] = beat[v]
                                   /\ strikes'[v] = strikes[v]
    BY DEF LeaseInv, TypeOK, Serving, Heartbeat, Goes, lease, NoIncident
  <1>2. CASE owner = w
    <2>1. st' = st /\ strikes'[w] = 0 /\ age' = 0 /\ strikes' \in [Worker -> 0 .. 2]
      BY <1>2 DEF LeaseInv, TypeOK, Heartbeat
    <2>2. TypeOK'
      BY <1>1, <2>1, AuthorityAssumption DEF LeaseInv, TypeOK, Serving, Heartbeat
    <2>3. DemotedHoldsNothing'
      BY <1>1, <2>1 DEF LeaseInv, DemotedHoldsNothing
    <2>4. gap[w] = 0
      BY <1>1, <1>2 DEF LeaseInv, WithinBudget, Serving
    <2>5. WithinBudget'
      BY <1>1, <2>1, <2>4, AuthorityAssumption DEF LeaseInv, WithinBudget, Budget, Serving
    <2> QED
      BY <2>2, <2>3, <2>5 DEF LeaseInv
  <1>3. CASE owner # w
    <2>1. /\ age' = age /\ strikes'[w] = strikes[w] + 1 /\ strikes' \in [Worker -> 0 .. 2]
          /\ st' \in {st, [st EXCEPT ![w] = "demoted"]}
          /\ strikes[w] = 1 => st'[w] = "demoted"
      BY <1>1, <1>3 DEF LeaseInv, TypeOK, Heartbeat, Goes, lease
    <2>2. TypeOK'
      BY <1>1, <2>1, AuthorityAssumption DEF LeaseInv, TypeOK, Serving, Heartbeat
    <2>3. DemotedHoldsNothing'
      BY <1>1, <1>3 DEF LeaseInv, DemotedHoldsNothing
    <2>4. Serving(w)' => strikes[w] = 0
      BY <1>1, <2>1 DEF Serving
    <2>5. WithinBudget'
      BY <1>1, <1>3, <2>1, <2>4, AuthorityAssumption
         DEF LeaseInv, WithinBudget, Budget, Serving
    <2> QED
      BY <2>2, <2>3, <2>5 DEF LeaseInv
  <1> QED
    BY <1>2, <1>3

LEMMA HeartbeatFailsStep ==
  ASSUME LeaseInv, NEW w \in Worker, HeartbeatFails(w)
  PROVE  LeaseInv'
  <1>1. incidents' # 0
    BY Incidents DEF HeartbeatFails, LeaseInv
  <1>2. TypeOK'
    BY Incidents, AuthorityAssumption DEF LeaseInv, TypeOK, HeartbeatFails, Serving
  <1>3. DemotedHoldsNothing'
    BY DEF LeaseInv, DemotedHoldsNothing, HeartbeatFails
  <1>4. WithinBudget'
    BY <1>1 DEF LeaseInv, WithinBudget, Serving, HeartbeatFails
  <1> QED
    BY <1>2, <1>3, <1>4 DEF LeaseInv

(* As time passes on time, the running interval grows with the gap *)
LEMMA TimeStep ==
  ASSUME LeaseInv, Tick \/ TimerLate
  PROVE  LeaseInv'
  <1>1. Passes /\ (Incident \/ NoIncident)
    BY DEF Tick, TimerLate
  <1>2. owner' = owner /\ st' = st /\ strikes' = strikes
    BY <1>1 DEF Passes
  <1>3. \A w \in Worker :
          /\ beat[w] \in 0 .. Beat /\ gap[w] \in 0 .. 2 * Beat + 1
          /\ beat'[w] = IF st[w] = "live" THEN Upto(beat[w], Beat) ELSE beat[w]
          /\ gap'[w] = IF st[w] = "live" /\ owner # w THEN Upto(gap[w], 2 * Beat + 1) ELSE gap[w]
    BY <1>1 DEF Passes, LeaseInv, TypeOK
  <1>4. Beat \in Nat /\ 2 * Beat + 1 \in Nat /\ Ttl + 1 \in Nat
    BY AuthorityAssumption
  <1>5. \A w \in Worker : beat'[w] \in 0 .. Beat /\ gap'[w] \in 0 .. 2 * Beat + 1
    BY <1>3, <1>4, UptoBounds
  <1>6. age' \in 0 .. Ttl + 1
    BY <1>1, <1>4, UptoBounds DEF Passes, LeaseInv, TypeOK
  <1>7. TypeOK'
    <2>1. beat' \in [Worker -> 0 .. Beat] /\ gap' \in [Worker -> 0 .. 2 * Beat + 1]
      BY <1>1, <1>5 DEF Passes
    <2> QED
      BY <1>1, <1>2, <1>6, <2>1, Incidents DEF LeaseInv, TypeOK, Serving
  <1>8. DemotedHoldsNothing'
    BY <1>2 DEF LeaseInv, DemotedHoldsNothing
  <1>9. ASSUME NEW w \in Worker, Serving(w)'
        PROVE  (owner = w => gap'[w] = 0) /\ (incidents' = 0 => gap'[w] <= Budget(w)')
    <2>1. Serving(w) /\ (owner = w => gap[w] = 0)
      BY <1>2, <1>9 DEF Serving, LeaseInv, WithinBudget
    <2>2. owner = w => gap'[w] = 0
      BY <1>3, <2>1
    <2>3. ASSUME incidents' = 0
          PROVE  gap'[w] <= Budget(w)'
      <3>1. incidents = 0 /\ Tick
        BY <1>1, <2>3, Incidents DEF LeaseInv, TimerLate
      <3>2. beat[w] # Beat
        BY <2>1, <3>1 DEF Tick, Due, Serving
      <3>3. beat'[w] = beat[w] + 1 /\ gap'[w] <= gap[w] + 1
        <4>1. beat'[w] = beat[w] + 1
          BY <1>3, <1>4, <2>1, <3>2, UptoBounds DEF Serving
        <4>2. gap'[w] \in {gap[w], Upto(gap[w], 2 * Beat + 1)}
          BY <1>3
        <4>3. Upto(gap[w], 2 * Beat + 1) <= gap[w] + 1
          BY <1>3, <1>4, UptoBounds
        <4>4. gap[w] \in Int
          BY <1>3
        <4> QED
          BY <4>1, <4>2, <4>3, <4>4
      <3>4. gap[w] <= Budget(w)
        BY <2>1, <3>1 DEF LeaseInv, WithinBudget
      <3>5. beat[w] \in Int /\ gap[w] \in Int /\ gap'[w] \in Int /\ strikes'[w] = strikes[w]
        BY <1>2, <1>3, <1>5
      <3> QED
        BY <1>4, <3>3, <3>4, <3>5 DEF Budget
    <2> QED
      BY <2>2, <2>3
  <1>10. WithinBudget'
    BY <1>2, <1>9 DEF WithinBudget
  <1> QED
    BY <1>7, <1>8, <1>10 DEF LeaseInv

-----------------------------------------------------------------------------
(* The inductive invariant *)

LEMMA LeaseInvInit == Init => LeaseInv
  BY AuthorityAssumption
     DEF Init, LeaseInv, TypeOK, DemotedHoldsNothing, WithinBudget, Serving

LEMMA LeaseInvStep == LeaseInv /\ [Next]_vars => LeaseInv'
  <1> SUFFICES ASSUME LeaseInv, [Next]_vars
               PROVE  LeaseInv'
    OBVIOUS
  <1>1. ASSUME NEW w \in Worker, Step(w)
        PROVE  LeaseInv'
    BY <1>1, BootSteps, InsertStep, StartedStep, HeartbeatStep DEF Step
  <1>2. ASSUME NEW w \in Worker, Trouble(w)
        PROVE  LeaseInv'
    BY <1>2, BootSteps, HeartbeatFailsStep DEF Trouble
  <1>3. CASE Tick \/ TimerLate
    BY <1>3, TimeStep
  <1>4. CASE UNCHANGED vars
    BY <1>4 DEF vars, lease, process, LeaseInv, TypeOK, DemotedHoldsNothing, WithinBudget,
                Budget, Serving
  <1> QED
    BY <1>1, <1>2, <1>3, <1>4 DEF Next

(* The inductive invariant holds in every reachable state *)
THEOREM LeaseInvariant == Spec => []LeaseInv
  BY LeaseInvInit, LeaseInvStep, PTL DEF Spec

(* Type correctness of the lease, of the processes and of the bounds *)
THEOREM AuthorityTypes == Spec => []TypeOK
  <1>1. LeaseInv => TypeOK
    BY DEF LeaseInv
  <1> QED
    BY <1>1, LeaseInvariant, PTL

(* A demoted worker does not hold the lease: it leaves it to the others *)
THEOREM DemotedNeverHolds == Spec => []DemotedHoldsNothing
  <1>1. LeaseInv => DemotedHoldsNothing
    BY DEF LeaseInv
  <1> QED
    BY <1>1, LeaseInvariant, PTL

(* Without incidents a worker that lost its lease stops within two         *)
(* heartbeat intervals, whatever their length and that of the lease: it    *)
(* lives on with one strike at most.                                       *)
THEOREM OverlapBounded == Spec => []OverlapIsShort
  <1>1. LeaseInv => OverlapIsShort
    <2> SUFFICES ASSUME LeaseInv, NEW w \in Worker, Serving(w), incidents = 0
                 PROVE  gap[w] <= 2 * Beat
      BY DEF OverlapIsShort
    <2>1. gap[w] <= Budget(w)
      BY DEF LeaseInv, WithinBudget
    <2>2. beat[w] \in 0 .. Beat /\ gap[w] \in Nat
      BY AuthorityAssumption DEF LeaseInv, TypeOK
    <2> QED
      BY <2>1, <2>2, AuthorityAssumption DEF Budget
  <1> QED
    BY <1>1, LeaseInvariant, PTL

(* Nobody takes a lease that has not expired: the only deletions that do   *)
(* not ask for expiry are those of the owner, cleaning up or leaving.      *)
THEOREM TakeoverIsProved == Spec => TakeoverProvesExpiry
  <1>1. ASSUME LeaseInv, [Next]_vars, NEW w \in Worker, owner = w, ~Expired, owner' # w
        PROVE  st[w] \in {"failing", "leaving"}
    <2>1. w # NoOwner
      BY AuthorityAssumption
    <2>2. ASSUME NEW v \in Worker, Step(v)
          PROVE  st[w] \in {"failing", "leaving"}
      <3>1. CASE CleanUp(v) \/ Leave(v)
        BY <1>1, <3>1 DEF CleanUp, Leave, Released, lease
      <3>2. CASE Insert(v)
        BY <1>1, <2>1, <3>2 DEF Insert, Free, lease
      <3>3. CASE Boot(v) \/ DropExpired(v) \/ Started(v) \/ Heartbeat(v)
        BY <1>1, <3>3 DEF Boot, DropExpired, Started, Heartbeat, lease
      <3> QED
        BY <2>2, <3>1, <3>2, <3>3 DEF Step
    <2>3. ~(\E v \in Worker : Trouble(v)) /\ ~Tick /\ ~TimerLate /\ ~UNCHANGED vars
      BY <1>1 DEF Trouble, StartFails, HeartbeatFails, Stop, Crash, Tick, TimerLate, Passes,
                  vars, lease
    <2> QED
      BY <1>1, <2>2, <2>3 DEF Next
  <1>2. LeaseInv /\ [Next]_vars
          => [\A w \in Worker : owner = w /\ ~Expired /\ owner' # w
                => st[w] \in {"failing", "leaving"}]_vars
    BY <1>1
  <1> QED
    BY <1>2, LeaseInvariant, PTL DEF Spec, TakeoverProvesExpiry

-----------------------------------------------------------------------------
(* The lease keeps its promise *)

roles == [w \in Worker |-> Role(st[w])]

(* A process that moves changes its own role only *)
LEMMA RoleMoves ==
  ASSUME TypeOK, NEW w \in Worker, NEW to, Goes(w, to)
  PROVE  roles' = [roles EXCEPT ![w] = Role(to)] /\ roles[w] = Role(st[w])
  BY DEF TypeOK, Goes, roles

(* A move between states outside of service is none for the promise *)
Outside == {"down", "waiting", "inserting", "failing", "leaving"}

LEMMA OutsideMoves ==
  ASSUME TypeOK, NEW w \in Worker, NEW to \in Outside, Goes(w, to), st[w] \in Outside
  PROVE  UNCHANGED roles /\ roles[w] = "out"
  <1>1. Role(to) = "out" /\ Role(st[w]) = "out"
    BY DEF Outside, Role
  <1>2. roles \in [Worker -> {"out", "granted", "serving", "demoted"}]
    BY DEF roles, Role
  <1> QED
    BY <1>1, <1>2, RoleMoves

(* Steps that leave the lease alone quit, serve or do nothing *)
LEMMA QuitKeepsPromise ==
  ASSUME TypeOK, NEW w \in Worker, NEW to \in Outside, Goes(w, to), UNCHANGED lease
  PROVE  [Lease!Next]_(Lease!vars)
  <1>1. UNCHANGED <<owner, age>>
    BY DEF lease
  <1>2. CASE st[w] \in Outside
    BY <1>1, <1>2, OutsideMoves DEF Lease!vars, roles, Expired
  <1>3. CASE st[w] \notin Outside
    <2>1. Role(st[w]) # "out" /\ Role(to) = "out"
      BY <1>3 DEF TypeOK, Outside, Role
    <2>2. Lease!Quit(w)
      BY <1>1, <2>1, RoleMoves DEF Lease!Quit, Lease!Takes, Lease!LeaseKept, roles, Expired
    <2> QED
      BY <2>2 DEF Lease!Next
  <1> QED
    BY <1>2, <1>3

(* The owner, and nobody else, gives the lease up on its way out *)
LEMMA ReleaseKeepsPromise ==
  ASSUME TypeOK, NEW w \in Worker, NEW to \in Outside, Goes(w, to), st[w] \in Outside, Released(w)
  PROVE  [Lease!Next]_(Lease!vars)
  <1>1. UNCHANGED roles /\ roles[w] = "out"
    BY OutsideMoves
  <1>2. CASE owner = w
    <2>1. Lease!GiveUp(w)
      BY <1>1, <1>2 DEF Released, Lease!GiveUp, roles
    <2> QED
      BY <2>1 DEF Lease!Next
  <1>3. CASE owner # w
    BY <1>1, <1>3 DEF Released, lease, Lease!vars, roles, Expired
  <1> QED
    BY <1>2, <1>3

LEMMA DropKeepsPromise ==
  ASSUME TypeOK, NEW w \in Worker, DropExpired(w)
  PROVE  [Lease!Next]_(Lease!vars)
  <1>1. UNCHANGED roles /\ roles[w] = "out"
    BY OutsideMoves DEF DropExpired, Outside
  <1>2. CASE UNCHANGED lease \/ owner = NoOwner
    <2>1. owner' = owner /\ (owner # NoOwner => age' = age)
      BY <1>2 DEF DropExpired, lease
    <2> QED
      BY <1>1, <2>1 DEF Lease!vars, roles, Expired
  <1>3. CASE ~UNCHANGED lease /\ owner # NoOwner
    <2>1. Lease!DropLapsed(w)
      BY <1>1, <1>3 DEF DropExpired, Lease!DropLapsed, roles
    <2> QED
      BY <2>1 DEF Lease!Next
  <1> QED
    BY <1>2, <1>3

(* The insert grants the lease, or takes it and loses the answer *)
LEMMA InsertKeepsPromise ==
  ASSUME TypeOK, NEW w \in Worker, Insert(w)
  PROVE  [Lease!Next]_(Lease!vars)
  <1>1. st[w] = "inserting" /\ roles[w] = "out"
    BY DEF Insert, roles, Role
  <1>2. CASE Free(w) /\ owner' = w /\ age' = 0
    <2>1. Lease!Takeable(w) /\ ~Expired'
      BY <1>2, AuthorityAssumption DEF Free, Expired, Lease!Takeable
    <2>2. \/ Goes(w, "starting") /\ Role("starting") = "granted"
          \/ Goes(w, "failing")
      BY <1>2 DEF Insert, Role
    <2>3. roles' = [roles EXCEPT ![w] = "granted"] \/ UNCHANGED roles
      BY <1>1, <2>2, RoleMoves, OutsideMoves DEF Outside
    <2>4. Lease!Take(w)
      BY <1>1, <1>2, <2>1, <2>3 DEF Lease!Take, Lease!Takes, roles
    <2> QED
      BY <2>4 DEF Lease!Next
  <1>3. CASE ~(Free(w) /\ owner' = w /\ age' = 0)
    <2>1. UNCHANGED lease /\ (Goes(w, "waiting") \/ Goes(w, "failing"))
      BY <1>3 DEF Insert
    <2> QED
      BY <2>1, QuitKeepsPromise DEF Outside
  <1> QED
    BY <1>2, <1>3

LEMMA StartedKeepsPromise ==
  ASSUME TypeOK, NEW w \in Worker, Started(w)
  PROVE  [Lease!Next]_(Lease!vars)
  <1>1. Role("starting") = "granted" /\ Role("live") = "serving"
    BY DEF Role
  <1>2. Lease!Serve(w)
    BY <1>1, RoleMoves DEF Started, lease, Lease!Serve, Lease!Takes, Lease!LeaseKept, roles, Expired
  <1> QED
    BY <1>2 DEF Lease!Next

(* A heartbeat renews the lease it holds, whether it was answered or not,  *)
(* and takes the authority away only without it.                           *)
LEMMA HeartbeatKeepsPromise ==
  ASSUME TypeOK, NEW w \in Worker, Heartbeat(w) \/ HeartbeatFails(w)
  PROVE  [Lease!Next]_(Lease!vars)
  <1>1. st[w] = "live" /\ owner' = owner /\ roles[w] = "serving"
    BY DEF Heartbeat, HeartbeatFails, lease, roles, Role
  <1>2. CASE UNCHANGED st
    <2>1. age' = age \/ (owner = w /\ age' = 0)
      BY DEF Heartbeat, HeartbeatFails, lease
    <2>2. CASE age' = age
      BY <1>1, <1>2, <2>2 DEF Lease!vars, Expired
    <2>3. CASE owner = w /\ age' = 0
      <3>1. ~Expired'
        BY <2>3, AuthorityAssumption DEF Expired
      <3>2. Lease!Renew(w)
        BY <1>1, <1>2, <2>3, <3>1 DEF Lease!Renew, roles
      <3> QED
        BY <3>2 DEF Lease!Next
    <2> QED
      BY <2>1, <2>2, <2>3
  <1>3. CASE ~UNCHANGED st
    <2>1. owner # w /\ age' = age /\ Goes(w, "demoted") /\ Role("demoted") = "demoted"
      BY <1>3 DEF Heartbeat, HeartbeatFails, lease, Role
    <2>2. Lease!Demote(w)
      BY <1>1, <2>1, RoleMoves
         DEF Lease!Demote, Lease!Takes, Lease!LeaseKept, roles, Expired
    <2> QED
      BY <2>2 DEF Lease!Next
  <1> QED
    BY <1>2, <1>3

(* Time can only let the lease lapse *)
LEMMA TimeKeepsPromise ==
  ASSUME TypeOK, Tick \/ TimerLate
  PROVE  [Lease!Next]_(Lease!vars)
  <1>1. UNCHANGED <<owner, st>> /\ (Expired => Expired')
    BY AuthorityAssumption DEF Tick, TimerLate, Passes, Upto, Expired, TypeOK
  <1>2. CASE Expired' = Expired \/ owner = NoOwner
    BY <1>1, <1>2 DEF Lease!vars
  <1>3. CASE owner # NoOwner /\ Expired'
    <2>1. Lease!Lapse
      BY <1>1, <1>3 DEF Lease!Lapse
    <2> QED
      BY <2>1 DEF Lease!Next
  <1> QED
    BY <1>1, <1>2, <1>3 DEF Expired

LEMMA PromiseStep == TypeOK /\ [Next]_vars => [Lease!Next]_(Lease!vars)
  <1> SUFFICES ASSUME TypeOK, [Next]_vars
               PROVE  [Lease!Next]_(Lease!vars)
    OBVIOUS
  <1>1. ASSUME NEW w \in Worker, Boot(w) \/ StartFails(w) \/ Crash(w) \/ Stop(w)
        PROVE  [Lease!Next]_(Lease!vars)
    <2>1. UNCHANGED lease /\ \E to \in Outside : Goes(w, to)
      BY <1>1 DEF Boot, StartFails, Crash, Stop, Outside
    <2> QED
      BY <2>1, QuitKeepsPromise
  <1>2. ASSUME NEW w \in Worker, CleanUp(w) \/ Leave(w)
        PROVE  [Lease!Next]_(Lease!vars)
    <2>1. /\ (st[w] \in Outside /\ Released(w)) \/ UNCHANGED lease
          /\ \E to \in Outside : Goes(w, to)
      BY <1>2 DEF CleanUp, Leave, Outside
    <2> QED
      BY <2>1, QuitKeepsPromise, ReleaseKeepsPromise
  <1>3. ASSUME NEW w \in Worker, Step(w) \/ Trouble(w)
        PROVE  [Lease!Next]_(Lease!vars)
    BY <1>1, <1>2, <1>3, DropKeepsPromise, InsertKeepsPromise, StartedKeepsPromise,
       HeartbeatKeepsPromise DEF Step, Trouble
  <1>4. CASE UNCHANGED vars
    BY <1>4 DEF vars, lease, process, Lease!vars, Expired
  <1> QED
    BY <1>3, <1>4, TimeKeepsPromise DEF Next

(* The statements on worker_locks and the boots, heartbeats and exits      *)
(* between them implement the abstract lease.                              *)
THEOREM AuthorityKeepsPromise == Spec => ImplementsLease
  <1>1. Init => Lease!Init
    BY DEF Init, Lease!Init, Role
  <1>2. TypeOK /\ [Next]_vars => [Lease!Next]_(Lease!vars)
    BY PromiseStep
  <1> QED
    BY <1>1, <1>2, AuthorityTypes, PTL DEF Spec, ImplementsLease, Lease!Spec

=============================================================================
