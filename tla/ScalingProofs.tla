--------------------------- MODULE ScalingProofs ---------------------------
(***************************************************************************)
(* The proofs about Scaling: the type invariant, and that the scaler never *)
(* makes more runners of a repository than it had jobs at once.            *)
(*                                                                         *)
(* The inductive invariant counts the runners that are there together with *)
(* those asked for: by the script a sweep awaits and by a command on its   *)
(* way.  It bounds the snapshot by the same demand, because that is what a *)
(* sweep plans on.                                                         *)
(***************************************************************************)
EXTENDS Scaling, WellFoundedInduction, FiniteSetTheorems, TLAPS

------------------------------------------------------------------------------
(* The largest of a finite set of numbers: the number of a new instance.    *)

\* A finite set of integers that is not empty has a greatest element: the least set
\* without one, in the order of inclusion, would have one without one of its elements.
LEMMA GreatestExists ==
    ASSUME NEW S \in SUBSET Int, IsFiniteSet(S), S # {}
    PROVE  \E m \in S : \A y \in S : m >= y
<1> DEFINE Least == {U \in FiniteSubsetsOf(S) : U # {} /\ ~\E m \in U : \A y \in U : m >= y}
<1>1. SUFFICES ASSUME Least # {} PROVE FALSE
  <2>1. S \in FiniteSubsetsOf(S)
    BY DEF FiniteSubsetsOf
  <2> QED BY <2>1
<1>2. PICK U \in Least : \A T \in Least : <<T, U>> \notin StrictSubsetOrdering(S)
  <2>1. Least \subseteq FiniteSubsetsOf(S)
    OBVIOUS
  <2> HIDE DEF Least
  <2> QED BY <1>1, <2>1, WFMin, FS_StrictSubsetOrderingWellFounded
<1>3. U \subseteq S /\ IsFiniteSet(U) /\ U # {}
  BY <1>2 DEF FiniteSubsetsOf
<1>4. PICK x \in U : TRUE
  BY <1>3
<1> DEFINE T == U \ {x}
<1>5. IsFiniteSet(T) /\ T \subseteq S /\ T # U
  BY <1>3, <1>4, FS_Subset
<1>6. <<T, U>> \in StrictSubsetOrdering(S)
  BY <1>3, <1>5 DEF StrictSubsetOrdering
<1>7. T \notin Least
  BY <1>2, <1>6
<1>8. CASE T = {}
  BY <1>2, <1>3, <1>4, <1>8
<1>9. CASE T # {}
  <2>1. PICK m \in T : \A y \in T : m >= y
    BY <1>5, <1>7, <1>9 DEF FiniteSubsetsOf
  <2>2. x \in Int /\ m \in Int /\ \A y \in T : y \in Int
    BY <1>3, <1>4
  <2>3. CASE m >= x
    BY <1>2, <2>1, <2>2, <2>3
  <2>4. CASE ~(m >= x)
    <3>1. \A y \in U : x >= y
      BY <2>1, <2>2, <2>4
    <3> QED BY <1>2, <1>4, <3>1
  <2> QED BY <2>3, <2>4
<1> QED BY <1>8, <1>9

\* Max of a finite set of integers is its greatest element.
LEMMA MaxIsGreatest ==
    ASSUME NEW S \in SUBSET Int, IsFiniteSet(S), S # {}
    PROVE  Max(S) \in S /\ \A y \in S : Max(S) >= y
BY GreatestExists DEF Max

\* The larger of two numbers is at least each of them.
LEMMA MaxOfTwo ==
    ASSUME NEW a \in Nat, NEW b \in Nat
    PROVE  Max({a, b}) \in Nat /\ Max({a, b}) >= a /\ Max({a, b}) >= b
<1>1. IsFiniteSet({a, b}) /\ {a, b} \in SUBSET Int /\ {a, b} # {}
  <2>1. IsFiniteSet({a} \cup {b})
    BY FS_Singleton, FS_Union
  <2>2. {a, b} = {a} \cup {b}
    OBVIOUS
  <2> QED BY <2>1, <2>2
<1> QED BY <1>1, MaxIsGreatest

\* The smaller of two numbers is at most each of them, and one of them.
LEMMA MinOfTwo ==
    ASSUME NEW a \in Nat, NEW b \in Nat
    PROVE  Min({a, b}) \in {a, b} /\ Min({a, b}) <= a /\ Min({a, b}) <= b
<1>1. CASE a <= b
  <2>1. a \in {a, b} /\ \A y \in {a, b} : a <= y
    BY <1>1
  <2> QED BY <2>1 DEF Min
<1>2. CASE b <= a
  <2>1. b \in {a, b} /\ \A y \in {a, b} : b <= y
    BY <1>2
  <2> QED BY <2>1 DEF Min
<1> QED BY <1>1, <1>2

\* The number of a new instance is one.
LEMMA NextInstanceType ==
    ASSUME NEW S \in SUBSET RunnerIds, IsFiniteSet(S)
    PROVE  NextInstance(S) \in Instances
<1> DEFINE N == {x.n : x \in S}
<1>1. N \in SUBSET Int /\ \A m \in N : m \in Instances
  BY DEF RunnerIds, Instances
<1>2. IsFiniteSet(N)
  <2>1. [x \in S |-> x.n] \in Surjection(S, N)
    BY DEF Surjection
  <2> QED BY <2>1, FS_Surjection
<1>3. CASE S = {}
  BY <1>3 DEF NextInstance, Instances
<1>4. CASE S # {}
  <2>1. N # {}
    BY <1>4
  <2>2. Max(N) \in Instances
    <3> HIDE DEF N
    <3> QED BY <1>1, <1>2, <2>1, MaxIsGreatest
  <2>3. NextInstance(S) = 1 + Max(N)
    BY <1>4 DEF NextInstance
  <2> HIDE DEF N
  <2> QED BY <2>2, <2>3 DEF Instances
<1> QED BY <1>3, <1>4

------------------------------------------------------------------------------
(* Types                                                                    *)

Orders == [kind : {"register", "deregister"}, stage : {"queued", "ok", "failed"}, runner : RunnerIds]

FleetOK ==
    /\ hostIs \in [Hosts -> HostStates]
    /\ runners \subseteq RunnerIds /\ IsFiniteSet(runners)
    /\ busy \subseteq runners /\ idle \subseteq runners \ busy
    /\ queue \in [Repos -> 0..MaxQueued] /\ demand \in [Repos -> Nat]
    /\ cool \subseteq Repos
    /\ jobs \in [Repos -> Nat] /\ troubles \in Nat

SnapOK ==
    /\ snap \in [hosts : [Hosts -> HostStates \cup {"stale"}], runners : SUBSET RunnerIds,
                 busy : SUBSET RunnerIds, idle : SUBSET RunnerIds, queue : [Repos -> 0..MaxQueued]]
    /\ IsFiniteSet(snap.runners) /\ snap.busy \cup snap.idle \subseteq snap.runners

UpTick(x, left, read) == [kind |-> "up", runner |-> x, left |-> left, read |-> read]
DownTick(x, left) == [kind |-> "down", runner |-> x, left |-> left]
RestTick(left) == [kind |-> "rest", left |-> left]

\* What a sweep awaits, with what is left of its plan.
TickOK ==
    \/ tick = NoTick
    \/ \E left \in 1..(Batch - 1) : tick = RestTick(left)
    \/ \E x \in RunnerIds, left \in 0..(Batch - 1) : tick = DownTick(x, left)
    \/ \E x \in RunnerIds, left \in 0..(Batch - 1), read \in SUBSET Repos :
          tick = UpTick(x, left, read)

ScalingTypes == FleetOK /\ SnapOK /\ TickOK /\ cmds \subseteq Orders

\* The invariant is about the type of every variable.
LEMMA ScalingTypesImply == ScalingTypes => ScalingTypeOK
<1> SUFFICES ASSUME ScalingTypes PROVE ScalingTypeOK
  OBVIOUS
<1>1. /\ tick.kind \in {"none", "up", "down", "rest"}
      /\ tick # NoTick => tick.left \in 0..(Batch - 1)
  BY ScalingAssumption DEF ScalingTypes, TickOK, NoTick, UpTick, DownTick, RestTick
<1>2. \A c \in cmds : c.runner \in RunnerIds /\ c.stage \in {"queued", "ok", "failed"}
  BY DEF ScalingTypes, Orders
<1> QED BY <1>1, <1>2 DEF ScalingTypes, FleetOK, SnapOK, ScalingTypeOK

\* A part of the runners is finite, and so is a part of those of the snapshot.
LEMMA OfFinite ==
    ASSUME NEW S, IsFiniteSet(S), NEW T \in SUBSET S, NEW r
    PROVE  /\ Of(T, r) \subseteq Of(S, r)
           /\ IsFiniteSet(Of(T, r)) /\ IsFiniteSet(Of(S, r))
           /\ Cardinality(Of(T, r)) \in Nat /\ Cardinality(Of(S, r)) \in Nat
           /\ Cardinality(Of(T, r)) <= Cardinality(Of(S, r))
<1>1. Of(T, r) \subseteq Of(S, r) /\ Of(S, r) \subseteq S
  BY DEF Of
<1>2. IsFiniteSet(Of(S, r))
  BY <1>1, FS_Subset
<1> HIDE DEF Of
<1> QED BY <1>1, <1>2, FS_Subset, FS_CardinalityType

\* What is left of a plan after its first addition, or after one more.
LEMMA OthersType == ASSUME NEW r \in Candidates PROVE Others \in 0..(Batch - 1)
<1>1. Candidates \subseteq Repos
  BY DEF Candidates
<1>2. IsFiniteSet(Candidates) /\ Cardinality(Candidates) \in Nat /\ Cardinality(Candidates) # 0
  BY <1>1, ScalingAssumption, FS_Subset, FS_CardinalityType, FS_EmptySet
<1>3. /\ Min({Batch, Cardinality(Candidates)}) \in {Batch, Cardinality(Candidates)}
      /\ Min({Batch, Cardinality(Candidates)}) <= Batch
  BY <1>2, ScalingAssumption, MinOfTwo
<1> QED BY <1>2, <1>3, ScalingAssumption DEF Others

LEMMA RestingType ==
    ASSUME NEW left \in 0..(Batch - 1), tick' = Resting(left) PROVE TickOK'
BY ScalingAssumption DEF Resting, TickOK, RestTick

\* An addition is carried out by a script here, by a command, or not at all.
LEMMA AddShape ==
    ASSUME ScalingTypes, tick = NoTick, NEW r \in Candidates, Add(r)
    PROVE  \/ tick' = NoTick /\ cmds' = cmds
           \/ \E x \in RunnerIds :
                 x.repo = r /\ tick' = UpTick(x, Others, cool) /\ cmds' = cmds
           \/ \E x \in RunnerIds :
                 /\ x.repo = r /\ tick' = NoTick
                 /\ cmds' = cmds \cup {[kind |-> "register", stage |-> "queued", runner |-> x]}
<1>0. r \in Repos /\ snap.runners \in SUBSET RunnerIds /\ IsFiniteSet(snap.runners)
  BY DEF Candidates, ScalingTypes, SnapOK
<1>1. CASE Places(r) = {} /\ UNCHANGED <<tick, cmds>>
  BY <1>1
<1>2. IsFiniteSet(OwnCopies(r)) /\ OwnCopies(r) \in SUBSET RunnerIds
  BY <1>0, FS_Subset DEF OwnCopies, Of
<1>3. LocalRunner(r) \in RunnerIds /\ LocalRunner(r).repo = r
  <2>1. NextInstance(OwnCopies(r)) \in Instances /\ 1 \in Instances
    BY <1>2, NextInstanceType DEF Instances
  <2> QED BY <1>0, <2>1, ScalingAssumption DEF LocalRunner, RunnerIds
<1>4. \A h \in Hosts : [repo |-> r, host |-> h, n |-> NextInstance(Of(snap.runners, r))] \in RunnerIds
  <2>1. IsFiniteSet(Of(snap.runners, r)) /\ Of(snap.runners, r) \in SUBSET RunnerIds
    BY <1>0, FS_Subset DEF Of
  <2>2. NextInstance(Of(snap.runners, r)) \in Instances
    BY <2>1, NextInstanceType
  <2> QED BY <1>0, <2>2 DEF RunnerIds
<1>5. CASE /\ tick' = IF LocalAccepts(r)
                      THEN [kind |-> "up", runner |-> LocalRunner(r), left |-> Others, read |-> cool]
                      ELSE NoTick
           /\ UNCHANGED cmds
  BY <1>3, <1>5 DEF UpTick
<1>6. CASE \E h \in Places(r) \ {Coordinator} :
              cmds' = cmds \cup {RemoteCommand(r, h)} /\ UNCHANGED tick
  BY <1>4, <1>6 DEF RemoteCommand, Places
<1> QED BY <1>1, <1>5, <1>6 DEF Add

\* A sweep that adds nothing awaits a script, sends a command or neither.
LEMMA RemovalShape ==
    ASSUME ScalingTypes, NEW left \in 0..(Batch - 1), ConsiderRemoval(left)
    PROVE  \/ tick' = Resting(left) /\ cmds' = cmds
           \/ \E x \in RunnerIds : tick' = DownTick(x, left) /\ cmds' = cmds
           \/ \E x \in RunnerIds :
                 /\ tick' = Resting(left)
                 /\ cmds' = cmds \cup {[kind |-> "deregister", stage |-> "queued", runner |-> x]}
<1>1. DownPlans \subseteq RunnerIds
  BY DEF DownPlans, Removable, ScalingTypes, SnapOK
<1> QED BY <1>1 DEF ConsiderRemoval, DownTick

\* What is there can be a snapshot, and so it can with the runners a script has left.
LEMMA SeenType == ASSUME FleetOK PROVE (snap = Seen => SnapOK) /\ (snap' = Seen => SnapOK')
<1>1. /\ hostIs \in [Hosts -> HostStates \cup {"stale"}]
      /\ runners \in SUBSET RunnerIds /\ busy \in SUBSET RunnerIds /\ idle \in SUBSET RunnerIds
      /\ queue \in [Repos -> 0..MaxQueued] /\ IsFiniteSet(runners)
      /\ busy \cup idle \subseteq runners
  BY DEF FleetOK
<1> QED BY <1>1 DEF Seen, SnapOK

LEMMA SeenAfter ==
    ASSUME FleetOK, NEW R \in SUBSET RunnerIds, IsFiniteSet(R), NEW I \in SUBSET RunnerIds,
           busy \cup I \subseteq R,
           snap' = [hosts |-> hostIs, runners |-> R, busy |-> busy, idle |-> I, queue |-> queue]
    PROVE  SnapOK'
<1>1. /\ hostIs \in [Hosts -> HostStates \cup {"stale"}]
      /\ busy \in SUBSET RunnerIds /\ queue \in [Repos -> 0..MaxQueued]
  BY DEF FleetOK
<1>2. snap' \in [hosts : [Hosts -> HostStates \cup {"stale"}], runners : SUBSET RunnerIds,
                 busy : SUBSET RunnerIds, idle : SUBSET RunnerIds, queue : [Repos -> 0..MaxQueued]]
  BY <1>1
<1>3. snap'.runners = R /\ snap'.busy = busy /\ snap'.idle = I
  OBVIOUS
<1> QED BY <1>2, <1>3 DEF SnapOK

\* Jobs, the clock, the hosts and the snapshot.
LEMMA WorldTypes ==
    ASSUME ScalingTypes, Work \/ RunnerSteps \/ HostSteps \/ TakeSnapshot
    PROVE  ScalingTypes'
<1>0. FleetOK /\ SnapOK /\ TickOK /\ cmds \subseteq Orders
  BY DEF ScalingTypes
<1>1. ASSUME NEW r \in Repos, JobQueued(r) PROVE ScalingTypes'
  <2>1. /\ queue[r] < MaxQueued /\ jobs[r] > 0 /\ jobs' = [jobs EXCEPT ![r] = @ - 1]
        /\ queue' = [queue EXCEPT ![r] = @ + 1]
        /\ demand' = [demand EXCEPT ![r] = Max({@, queue'[r] + Cardinality(Of(busy, r))})]
        /\ UNCHANGED <<hostIs, runners, busy, idle, cool, snap, tick, cmds, twice, troubles>>
    BY <1>1 DEF JobQueued
  <2>2. queue[r] \in 0..MaxQueued /\ queue' \in [Repos -> 0..MaxQueued] /\ jobs' \in [Repos -> Nat]
    BY <1>0, <2>1, ScalingAssumption DEF FleetOK
  <2>3. queue'[r] \in Nat /\ demand[r] \in Nat /\ Cardinality(Of(busy, r)) \in Nat
    BY <1>0, <2>2, ScalingAssumption, OfFinite DEF FleetOK
  <2>4. Max({demand[r], queue'[r] + Cardinality(Of(busy, r))}) \in Nat
    BY <2>3, MaxOfTwo
  <2>5. demand' \in [Repos -> Nat]
    BY <1>0, <2>1, <2>4 DEF FleetOK
  <2> QED BY <1>0, <2>1, <2>2, <2>5 DEF ScalingTypes, FleetOK, SnapOK, TickOK
<1>2. ASSUME NEW r \in Repos, CooldownEnds(r) PROVE ScalingTypes'
  BY <1>0, <1>2 DEF CooldownEnds, ScalingTypes, FleetOK, SnapOK, TickOK
<1>3. ASSUME NEW x \in runners, JobTaken(x) PROVE ScalingTypes'
  <2>1. x \in runners \ busy /\ x.repo \in Repos /\ queue[x.repo] \in 0..MaxQueued /\ queue[x.repo] > 0
    BY <1>0, <1>3 DEF JobTaken, FleetOK, RunnerIds
  <2>2. queue' \in [Repos -> 0..MaxQueued]
    BY <1>0, <1>3, <2>1, ScalingAssumption DEF JobTaken, FleetOK
  <2> QED BY <1>0, <1>3, <2>1, <2>2 DEF JobTaken, ScalingTypes, FleetOK, SnapOK, TickOK
<1>4. ASSUME NEW x \in runners, JobDone(x) PROVE ScalingTypes'
  BY <1>0, <1>4 DEF JobDone, ScalingTypes, FleetOK, SnapOK, TickOK
<1>5. ASSUME NEW x \in runners, IdleTtlElapses(x) PROVE ScalingTypes'
  BY <1>0, <1>5 DEF IdleTtlElapses, ScalingTypes, FleetOK, SnapOK, TickOK
<1>6. ASSUME NEW h \in Hosts, HostChanges(h) PROVE ScalingTypes'
  BY <1>0, <1>6, ScalingAssumption
  DEF HostChanges, Troubled, ScalingTypes, FleetOK, SnapOK, TickOK
<1>7. ASSUME NEW h \in Hosts, HostFallsSilent(h) PROVE ScalingTypes'
  <2>1. SnapOK'
    BY <1>0, <1>7 DEF HostFallsSilent, SnapOK
  <2>2. FleetOK'
    BY <1>0, <1>7, ScalingAssumption DEF HostFallsSilent, Troubled, FleetOK
  <2> QED BY <1>0, <1>7, <2>1, <2>2 DEF HostFallsSilent, ScalingTypes, TickOK
<1>8. ASSUME TakeSnapshot PROVE ScalingTypes'
  <2>1. FleetOK'
    BY <1>0, <1>8 DEF TakeSnapshot, FleetOK
  <2>2. SnapOK'
    BY <1>0, <1>8, SeenType DEF TakeSnapshot
  <2> QED BY <1>0, <1>8, <2>1, <2>2 DEF TakeSnapshot, ScalingTypes, TickOK
<1> QED BY <1>1, <1>2, <1>3, <1>4, <1>5, <1>6, <1>7, <1>8 DEF Work, RunnerSteps, HostSteps

\* The sweeps.
LEMMA SweepTypes == ASSUME ScalingTypes, SweepUp \/ SweepDown \/ RestOfBurst PROVE ScalingTypes'
<1>0. FleetOK /\ SnapOK /\ TickOK /\ cmds \subseteq Orders /\ 0 \in 0..(Batch - 1)
  BY ScalingAssumption DEF ScalingTypes
<1>1. CASE SweepUp
  <2>1. /\ tick = NoTick
        /\ UNCHANGED <<hostIs, runners, busy, idle, queue, cool, snap, demand, jobs, troubles>>
    BY <1>1 DEF SweepUp
  <2>2. PICK r \in Worst : Add(r)
    BY <1>1 DEF SweepUp
  <2>3. r \in Candidates /\ Others \in 0..(Batch - 1)
    BY OthersType DEF Worst
  <2>4. \A x \in RunnerIds : [kind |-> "register", stage |-> "queued", runner |-> x] \in Orders
    BY DEF Orders
  <2>5. TickOK' /\ (cmds \subseteq Orders)'
    BY <1>0, <2>1, <2>2, <2>3, <2>4, AddShape DEF TickOK, FleetOK
  <2> QED BY <1>0, <2>1, <2>5 DEF ScalingTypes, FleetOK, SnapOK
<1>2. ASSUME NEW left \in 0..(Batch - 1), ConsiderRemoval(left),
             UNCHANGED <<hostIs, runners, busy, idle, queue, cool, snap, demand, twice, jobs, troubles>>
      PROVE  ScalingTypes'
  <2>1. \A x \in RunnerIds : [kind |-> "deregister", stage |-> "queued", runner |-> x] \in Orders
    BY DEF Orders
  <2>2. TickOK' /\ (cmds \subseteq Orders)'
    BY <1>0, <1>2, <2>1, RemovalShape, RestingType DEF TickOK
  <2> QED BY <1>0, <1>2, <2>2 DEF ScalingTypes, FleetOK, SnapOK
<1>3. CASE SweepDown
  BY <1>0, <1>2, <1>3 DEF SweepDown
<1>4. CASE RestOfBurst
  <2>1. PICK left \in 1..(Batch - 1) : tick = RestTick(left)
    BY <1>0, <1>4 DEF RestOfBurst, TickOK, NoTick, UpTick, DownTick
  <2>2. tick.left = left /\ left - 1 \in 0..(Batch - 1)
    BY <2>1, ScalingAssumption DEF RestTick
  <2> QED BY <1>2, <1>4, <2>2 DEF RestOfBurst
<1> QED BY <1>1, <1>3, <1>4

\* The script of a sweep ends or fails.
LEMMA ScriptTypes ==
    ASSUME ScalingTypes, FinishUp \/ FinishDown \/ ScriptFails PROVE ScalingTypes'
<1>0. FleetOK /\ SnapOK /\ TickOK /\ cmds \subseteq Orders
  BY DEF ScalingTypes
<1>1. CASE FinishUp
  <2>0. /\ tick.kind = "up" /\ snap' = [Seen EXCEPT !.runners = runners']
        /\ UNCHANGED <<hostIs, busy, idle, queue, cmds, demand, twice, jobs, troubles>>
    BY <1>1 DEF FinishUp
  <2>1. PICK x \in RunnerIds, left \in 0..(Batch - 1), read \in SUBSET Repos :
           tick = UpTick(x, left, read)
    BY <1>0, <2>0 DEF TickOK, NoTick, DownTick, RestTick
  <2>2. tick.runner = x /\ tick.left = left /\ tick.read = read /\ x.repo \in Repos
    BY <2>1 DEF UpTick, RunnerIds
  <2>3. /\ runners' = runners \/ runners' = runners \cup {x}
        /\ cool' = cool \/ cool' = read \cup {x.repo}
        /\ tick' = NoTick \/ tick' = Resting(left)
    BY <1>1, <2>2 DEF FinishUp, RecordScaleUp
  <2>4. IsFiniteSet(runners') /\ runners' \subseteq RunnerIds /\ runners \subseteq runners'
    BY <1>0, <2>3, FS_AddElement DEF FleetOK
  <2>5. FleetOK'
    BY <1>0, <2>0, <2>2, <2>3, <2>4 DEF FleetOK
  <2>6. SnapOK'
    <3>1. snap' = [hosts |-> hostIs, runners |-> runners', busy |-> busy, idle |-> idle,
                   queue |-> queue]
      BY <2>0 DEF Seen
    <3>2. idle \in SUBSET RunnerIds /\ busy \cup idle \subseteq runners'
      BY <1>0, <2>4 DEF FleetOK
    <3> QED BY <1>0, <2>4, <3>1, <3>2, SeenAfter
  <2>7. TickOK'
    <3>1. CASE tick' = NoTick
      BY <3>1 DEF TickOK
    <3> QED BY <2>3, <3>1, RestingType
  <2> QED BY <1>0, <2>0, <2>5, <2>6, <2>7 DEF ScalingTypes
<1>2. CASE FinishDown
  <2>1. /\ runners' \subseteq runners /\ idle' = idle \cap runners' /\ busy \subseteq runners'
        /\ snap' = [hosts |-> hostIs, runners |-> runners', busy |-> busy, idle |-> idle',
                    queue |-> queue]
        /\ UNCHANGED <<hostIs, busy, queue, cool, cmds, demand, twice, jobs, troubles>>
    BY <1>0, <1>2 DEF FinishDown, Sheds, FleetOK, Seen
  <2>2. IsFiniteSet(runners') /\ runners' \subseteq RunnerIds
    BY <1>0, <2>1, FS_Subset DEF FleetOK
  <2>3. FleetOK'
    BY <1>0, <2>1, <2>2 DEF FleetOK
  <2>4. SnapOK'
    <3>1. idle' \in SUBSET RunnerIds /\ busy \cup idle' \subseteq runners'
      BY <1>0, <2>1, <2>2 DEF FleetOK
    <3> QED BY <1>0, <2>1, <2>2, <3>1, SeenAfter
  <2>5. TickOK'
    <3>1. tick.kind = "down" /\ tick' = Resting(tick.left)
      BY <1>2 DEF FinishDown
    <3>2. tick.left \in 0..(Batch - 1)
      BY <1>0, <3>1 DEF TickOK, NoTick, UpTick, DownTick, RestTick
    <3> QED BY <3>1, <3>2, RestingType
  <2> QED BY <1>0, <2>1, <2>3, <2>4, <2>5 DEF ScalingTypes
<1>3. CASE ScriptFails
  <2>1. /\ tick.kind \in {"up", "down"} /\ (tick' = NoTick \/ tick' = Resting(tick.left))
        /\ snap' = Seen /\ troubles > 0 /\ troubles' = troubles - 1
        /\ UNCHANGED <<hostIs, runners, busy, idle, queue, cool, cmds, demand, twice, jobs>>
    BY <1>3 DEF ScriptFails, Troubled
  <2>2. FleetOK'
    BY <1>0, <2>1 DEF FleetOK
  <2>3. SnapOK'
    BY <1>0, <2>1, SeenType
  <2>4. TickOK'
    <3>1. tick.left \in 0..(Batch - 1)
      BY <1>0, <2>1 DEF TickOK, NoTick, UpTick, DownTick, RestTick
    <3>2. CASE tick' = NoTick
      BY <3>2 DEF TickOK
    <3> QED BY <2>1, <3>1, <3>2, RestingType
  <2> QED BY <1>0, <2>1, <2>2, <2>3, <2>4 DEF ScalingTypes
<1> QED BY <1>1, <1>2, <1>3

\* An ended command is still one.
LEMMA EndedType ==
    ASSUME cmds \subseteq Orders, NEW c \in cmds, NEW ok PROVE Ended(c, ok) \subseteq Orders
BY DEF Ended, Orders

\* The agents run commands, and their results are handled or lost.
LEMMA CommandTypes == ASSUME ScalingTypes, CommandSteps PROVE ScalingTypes'
<1>0. FleetOK /\ SnapOK /\ TickOK /\ cmds \subseteq Orders
  BY DEF ScalingTypes
<1>1. ASSUME NEW c \in cmds, RunRegister(c) PROVE ScalingTypes'
  <2>1. /\ UNCHANGED <<hostIs, busy, idle, queue, cool, snap, tick, demand, twice, jobs, troubles>>
        /\ \E ok \in BOOLEAN : cmds' = Ended(c, ok)
        /\ runners' = runners \/ runners' = runners \cup {c.runner}
    <3>1. Registers(c.runner) \in BOOLEAN
      BY DEF Registers
    <3> QED BY <1>1, <3>1 DEF RunRegister, Known
  <2>2. c.runner \in RunnerIds
    BY <1>0 DEF Orders
  <2>3. IsFiniteSet(runners')
    BY <1>0, <2>1, FS_AddElement DEF FleetOK
  <2>4. cmds' \subseteq Orders
    BY <1>0, <2>1, EndedType
  <2> QED BY <1>0, <2>1, <2>2, <2>3, <2>4 DEF ScalingTypes, FleetOK, SnapOK, TickOK
<1>2. ASSUME NEW c \in cmds, RunDeregister(c) PROVE ScalingTypes'
  <2>1. /\ cmds' = Ended(c, Sheds(c.runner))
        /\ runners' \subseteq runners /\ idle' = idle \cap runners' /\ busy \subseteq runners'
        /\ UNCHANGED <<hostIs, busy, queue, cool, snap, tick, demand, twice, jobs, troubles>>
    BY <1>0, <1>2 DEF RunDeregister, Sheds, FleetOK
  <2>2. IsFiniteSet(runners')
    BY <1>0, <2>1, FS_Subset DEF FleetOK
  <2>3. cmds' \subseteq Orders
    BY <1>0, <2>1, EndedType
  <2> QED BY <1>0, <2>1, <2>2, <2>3 DEF ScalingTypes, FleetOK, SnapOK, TickOK
<1>3. ASSUME NEW c \in cmds, Report(c) PROVE ScalingTypes'
  <2>1. /\ cmds' \subseteq cmds /\ (cool' = cool \/ cool' = cool \cup {c.runner.repo})
        /\ UNCHANGED <<hostIs, runners, busy, idle, queue, snap, tick, demand, twice, jobs, troubles>>
    BY <1>3 DEF Report, RecordScaleUp
  <2>2. c.runner.repo \in Repos
    BY <1>0 DEF Orders, RunnerIds
  <2> QED BY <1>0, <2>1, <2>2 DEF ScalingTypes, FleetOK, SnapOK, TickOK
<1>4. ASSUME NEW c \in cmds, Reset(c) PROVE ScalingTypes'
  <2>1. cmds' \subseteq Orders
    BY <1>0, <1>4 DEF Reset, Orders
  <2> QED BY <1>0, <1>4, <2>1, ScalingAssumption
      DEF Reset, Troubled, ScalingTypes, FleetOK, SnapOK, TickOK
<1> QED BY <1>1, <1>2, <1>3, <1>4 DEF CommandSteps

LEMMA ScalingTypesStep == ScalingTypes /\ [ScalingNext]_scaleVars => ScalingTypes'
<1> SUFFICES ASSUME ScalingTypes, [ScalingNext]_scaleVars PROVE ScalingTypes'
  OBVIOUS
<1>1. CASE UNCHANGED scaleVars
  BY <1>1 DEF scaleVars, ScalingTypes, FleetOK, SnapOK, TickOK
<1> QED BY <1>1, WorldTypes, SweepTypes, ScriptTypes, CommandTypes DEF ScalingNext

LEMMA ScalingInitially ==
    ASSUME ScalingInit
    PROVE  /\ ScalingTypes
           /\ \A r \in Repos : Of(busy, r) = {} /\ queue[r] = 0 /\ Of(snap.busy, r) = {}
                               /\ snap.queue[r] = 0
           /\ tick = NoTick /\ cmds = {} /\ demand = [r \in Repos |-> Cardinality(Of(runners, r))]
<1>1. PICK w \in Worlds :
         hostIs = w.hosts /\ runners = w.fleet /\ jobs = w.jobs /\ troubles = w.troubles
  BY DEF ScalingInit
<1>2. /\ runners \subseteq RunnerIds /\ hostIs \in [Hosts -> HostStates]
      /\ jobs \in [Repos -> Nat] /\ troubles \in Nat
  BY <1>1, ScalingAssumption
<1>3. IsFiniteSet(runners)
  BY <1>1, ScalingAssumption
<1>4. demand \in [Repos -> Nat]
  <2>1. \A r \in Repos : Cardinality(Of(runners, r)) \in Nat
    BY <1>3, OfFinite
  <2> QED BY <2>1 DEF ScalingInit
<1>5. FleetOK
  BY <1>2, <1>3, <1>4, ScalingAssumption DEF ScalingInit, FleetOK
<1>6. SnapOK
  BY <1>5, SeenType DEF ScalingInit
<1> QED BY <1>5, <1>6 DEF ScalingInit, ScalingTypes, TickOK, Seen, Of

\* The hosts, the runners, the jobs, the snapshot, the script of a sweep and the
\* commands are of their types (autoscaleTick, runRegister, runDeregister).
THEOREM ScalingTypeCorrect == ScalingSpec => []ScalingTypeOK
<1> QED BY ScalingInitially, ScalingTypesStep, ScalingTypesImply, PTL DEF ScalingSpec

------------------------------------------------------------------------------
(* Demand                                                                   *)

\* Demand is at least the jobs that there are, and those the snapshot shows.
DemandSeen ==
    \A r \in Repos : /\ queue[r] + Cardinality(Of(busy, r)) <= demand[r]
                     /\ snap.queue[r] + Cardinality(Of(snap.busy, r)) <= demand[r]

\* Jobs that were counted are not counted down.
LEMMA DemandGrows ==
    ASSUME ScalingTypes, [ScalingNext]_scaleVars, NEW r \in Repos
    PROVE  demand[r] \in Nat /\ demand'[r] \in Nat /\ demand'[r] >= demand[r]
<1>1. demand[r] \in Nat /\ demand'[r] \in Nat
  <2>1. ScalingTypes'
    BY ScalingTypesStep
  <2> QED BY <2>1 DEF ScalingTypes, FleetOK
<1>2. ASSUME NEW q \in Repos, JobQueued(q) PROVE demand'[r] >= demand[r]
  <2>1. /\ demand' = [demand EXCEPT ![q] = Max({@, queue'[q] + Cardinality(Of(busy, q))})]
        /\ queue' = [queue EXCEPT ![q] = @ + 1]
    BY <1>2 DEF JobQueued
  <2>2. /\ demand \in [Repos -> Nat] /\ queue \in [Repos -> 0..MaxQueued]
        /\ IsFiniteSet(runners) /\ busy \subseteq runners
    BY DEF ScalingTypes, FleetOK
  <2>3. queue'[q] \in Nat /\ Cardinality(Of(busy, q)) \in Nat /\ demand[q] \in Nat
    BY <2>1, <2>2, ScalingAssumption, OfFinite
  <2>4. Max({demand[q], queue'[q] + Cardinality(Of(busy, q))}) >= demand[q]
    BY <2>3, MaxOfTwo
  <2> QED BY <1>1, <2>1, <2>2, <2>4
<1>3. CASE demand' = demand
  BY <1>1, <1>3
<1>4. demand' = demand \/ \E q \in Repos : JobQueued(q)
  BY DEF ScalingNext, scaleVars, Work, RunnerSteps, HostSteps, CommandSteps, CooldownEnds,
         JobTaken, JobDone, IdleTtlElapses, HostChanges, HostFallsSilent, RunRegister,
         RunDeregister, Report, Reset, TakeSnapshot, SweepUp, SweepDown, RestOfBurst, FinishUp, FinishDown,
         ScriptFails
<1> QED BY <1>1, <1>2, <1>3, <1>4

\* A set with an element more has at most one more.
LEMMA OneMore ==
    ASSUME NEW S, IsFiniteSet(S), NEW x
    PROVE  /\ IsFiniteSet(S \cup {x}) /\ Cardinality(S) \in Nat
           /\ Cardinality(S \cup {x}) \in Nat
           /\ Cardinality(S \cup {x}) <= Cardinality(S) + 1
BY FS_AddElement, FS_CardinalityType

\* What is on GitHub and on the runners now.
LEMMA DemandNow ==
    ASSUME ScalingTypes, DemandSeen, [ScalingNext]_scaleVars, NEW r \in Repos
    PROVE  queue'[r] + Cardinality(Of(busy', r)) <= demand'[r]
<1>0. /\ runners \subseteq RunnerIds /\ IsFiniteSet(runners) /\ busy \subseteq runners
      /\ queue \in [Repos -> 0..MaxQueued] /\ MaxQueued \in Nat
      /\ queue[r] + Cardinality(Of(busy, r)) <= demand[r]
      /\ IsFiniteSet(busy)
  BY ScalingAssumption, FS_Subset DEF ScalingTypes, FleetOK, DemandSeen
<1>1. /\ queue[r] \in Nat /\ Cardinality(Of(busy, r)) \in Nat /\ IsFiniteSet(Of(busy, r))
      /\ demand[r] \in Nat /\ demand'[r] \in Nat /\ demand'[r] >= demand[r]
  BY <1>0, OfFinite, DemandGrows
<1>2. ASSUME NEW q \in Repos, JobQueued(q)
      PROVE  queue'[r] + Cardinality(Of(busy', r)) <= demand'[r]
  <2>1. /\ demand' = [demand EXCEPT ![q] = Max({@, queue'[q] + Cardinality(Of(busy, q))})]
        /\ queue' = [queue EXCEPT ![q] = @ + 1] /\ busy' = busy
    BY <1>2 DEF JobQueued
  <2>2. CASE q # r
    BY <1>0, <1>1, <2>1, <2>2
  <2>3. CASE q = r
    <3>1. queue'[r] \in Nat /\ queue'[r] = queue[r] + 1
      BY <1>0, <1>1, <2>1, <2>3
    <3>2. Max({demand[r], queue'[r] + Cardinality(Of(busy, r))}) >= queue'[r] + Cardinality(Of(busy, r))
      BY <1>1, <3>1, MaxOfTwo
    <3>3. demand'[r] = Max({demand[r], queue'[r] + Cardinality(Of(busy, r))})
      BY <2>1, <2>3 DEF ScalingTypes, FleetOK
    <3> QED BY <1>1, <2>1, <3>1, <3>2, <3>3
  <2> QED BY <2>2, <2>3
<1>3. ASSUME NEW x \in runners, JobTaken(x)
      PROVE  queue'[r] + Cardinality(Of(busy', r)) <= demand'[r]
  <2>1. /\ queue[x.repo] > 0 /\ queue' = [queue EXCEPT ![x.repo] = @ - 1]
        /\ busy' = busy \cup {x} /\ x.repo \in Repos
    BY <1>0, <1>3 DEF JobTaken, RunnerIds
  <2>2. CASE x.repo # r
    <3>1. Of(busy', r) = Of(busy, r) /\ queue'[r] = queue[r]
      BY <1>0, <2>1, <2>2 DEF Of
    <3> QED BY <1>0, <1>1, <3>1
  <2>3. CASE x.repo = r
    <3>1. Of(busy', r) = Of(busy, r) \cup {x} /\ queue'[r] = queue[r] - 1
      BY <1>0, <2>1, <2>3 DEF Of
    <3>2. Cardinality(Of(busy', r)) \in Nat /\ Cardinality(Of(busy', r)) <= Cardinality(Of(busy, r)) + 1
      BY <1>1, <3>1, OneMore
    <3> QED BY <1>0, <1>1, <2>1, <2>3, <3>1, <3>2
  <2> QED BY <2>2, <2>3
<1>4. CASE queue' = queue /\ busy' \subseteq busy
  <2>1. Cardinality(Of(busy', r)) \in Nat /\ Cardinality(Of(busy', r)) <= Cardinality(Of(busy, r))
    BY <1>0, <1>4, OfFinite
  <2> QED BY <1>0, <1>1, <1>4, <2>1
<1>5. \/ queue' = queue /\ busy' \subseteq busy
      \/ \E q \in Repos : JobQueued(q)
      \/ \E x \in runners : JobTaken(x)
  BY DEF ScalingNext, scaleVars, Work, RunnerSteps, HostSteps, CommandSteps, CooldownEnds,
         JobDone, IdleTtlElapses, HostChanges, HostFallsSilent, RunRegister,
         RunDeregister, Report, Reset, TakeSnapshot, SweepUp, SweepDown, RestOfBurst, FinishUp, FinishDown,
         ScriptFails
<1> QED BY <1>2, <1>3, <1>4, <1>5

\* A snapshot shows what was there.
LEMMA DemandStep ==
    ASSUME ScalingTypes, DemandSeen, [ScalingNext]_scaleVars PROVE DemandSeen'
<1> SUFFICES ASSUME NEW r \in Repos
             PROVE  snap'.queue[r] + Cardinality(Of(snap'.busy, r)) <= demand'[r]
  BY DemandNow DEF DemandSeen
<1>1. CASE snap'.queue = queue /\ snap'.busy = busy
  <2>1. queue[r] + Cardinality(Of(busy, r)) <= demand[r]
    BY DEF DemandSeen
  <2>2. queue[r] \in Nat /\ Cardinality(Of(busy, r)) \in Nat
    <3>1. queue[r] \in Nat
      BY ScalingAssumption DEF ScalingTypes, FleetOK
    <3>2. IsFiniteSet(busy)
      BY FS_Subset DEF ScalingTypes, FleetOK
    <3> QED BY <3>1, <3>2, OfFinite
  <2> QED BY <1>1, <2>1, <2>2, DemandGrows
<1>2. CASE snap'.queue = snap.queue /\ snap'.busy = snap.busy
  <2>1. snap.queue[r] + Cardinality(Of(snap.busy, r)) <= demand[r]
    BY DEF DemandSeen
  <2>2. snap.queue[r] \in Nat /\ Cardinality(Of(snap.busy, r)) \in Nat
    <3>1. /\ snap.queue \in [Repos -> 0..MaxQueued]
          /\ IsFiniteSet(snap.runners) /\ snap.busy \subseteq snap.runners
      BY DEF ScalingTypes, SnapOK
    <3>2. snap.queue[r] \in Nat
      BY <3>1, ScalingAssumption
    <3> QED BY <3>1, <3>2, OfFinite
  <2> QED BY <1>2, <2>1, <2>2, DemandGrows
<1>3. ASSUME NEW h \in Hosts, HostFallsSilent(h)
      PROVE  snap'.queue = snap.queue /\ snap'.busy = snap.busy
  BY <1>3 DEF HostFallsSilent, ScalingTypes, SnapOK
<1>4. FinishUp \/ FinishDown \/ ScriptFails => snap'.queue = queue /\ snap'.busy = busy
  <2>1. CASE FinishUp
    <3>1. snap' = [Seen EXCEPT !.runners = runners']
      BY <2>1 DEF FinishUp
    <3> QED BY <3>1 DEF Seen
  <2>2. CASE FinishDown
    <3>1. snap' = [Seen EXCEPT !.runners = runners', !.idle = idle']
      BY <2>2 DEF FinishDown
    <3> QED BY <3>1 DEF Seen
  <2>3. CASE ScriptFails
    BY <2>3 DEF ScriptFails, Seen
  <2> QED BY <2>1, <2>2, <2>3
<1>5. TakeSnapshot => snap'.queue = queue /\ snap'.busy = busy
  BY DEF TakeSnapshot, Seen
<1>6. \/ snap' = snap \/ TakeSnapshot \/ FinishUp \/ FinishDown \/ ScriptFails
      \/ \E h \in Hosts : HostFallsSilent(h)
  BY DEF ScalingNext, scaleVars, Work, RunnerSteps, HostSteps, CommandSteps, CooldownEnds,
         JobQueued, JobTaken, JobDone, IdleTtlElapses, HostChanges, RunRegister,
         RunDeregister, Report, Reset, SweepUp, SweepDown, RestOfBurst
<1> QED BY <1>1, <1>2, <1>3, <1>4, <1>5, <1>6

------------------------------------------------------------------------------
(* One runner for one deficit                                               *)

\* The runners of a repository that are there or were asked for.
Asked(r) ==
    {x \in RunnerIds : x.repo = r /\ (\/ x \in runners
                                      \/ tick.kind = "up" /\ tick.runner = x
                                      \/ \E c \in cmds : c.kind = "register" /\ c.runner = x)}

AskedWithin ==
    \A r \in Repos \ twice : IsFiniteSet(Asked(r)) /\ Cardinality(Asked(r)) <= demand[r]

ScalingInv == ScalingTypes /\ DemandSeen /\ AskedWithin

\* Whatever asks for no new runner keeps within demand.
LEMMA AsksNoMore ==
    ASSUME ScalingInv, [ScalingNext]_scaleVars, NEW r \in Repos \ twice, Asked(r)' \subseteq Asked(r)
    PROVE  IsFiniteSet(Asked(r))' /\ Cardinality(Asked(r))' <= demand'[r]
<1>1. IsFiniteSet(Asked(r)) /\ Cardinality(Asked(r)) <= demand[r]
  BY DEF ScalingInv, AskedWithin
<1>2. /\ IsFiniteSet(Asked(r)') /\ Cardinality(Asked(r)') <= Cardinality(Asked(r))
      /\ Cardinality(Asked(r)) \in Nat /\ Cardinality(Asked(r)') \in Nat
  BY <1>1, FS_Subset, FS_CardinalityType
<1>3. demand[r] \in Nat /\ demand'[r] \in Nat /\ demand'[r] >= demand[r]
  BY DemandGrows DEF ScalingInv
<1> QED BY <1>1, <1>2, <1>3

\* One more runner is asked for, and there is room for it.
LEMMA AsksOne ==
    ASSUME ScalingInv, [ScalingNext]_scaleVars, NEW r \in Repos, NEW x,
           IsFiniteSet(Asked(r)), Cardinality(Asked(r)) + 1 <= demand[r],
           Asked(r)' \subseteq Asked(r) \cup {x}
    PROVE  IsFiniteSet(Asked(r))' /\ Cardinality(Asked(r))' <= demand'[r]
<1>1. /\ IsFiniteSet(Asked(r) \cup {x}) /\ Cardinality(Asked(r)) \in Nat
      /\ Cardinality(Asked(r) \cup {x}) \in Nat
      /\ Cardinality(Asked(r) \cup {x}) <= Cardinality(Asked(r)) + 1
  BY OneMore
<1>2. /\ IsFiniteSet(Asked(r)') /\ Cardinality(Asked(r)') <= Cardinality(Asked(r) \cup {x})
      /\ Cardinality(Asked(r)') \in Nat
  BY <1>1, FS_Subset, FS_CardinalityType
<1>3. demand[r] \in Nat /\ demand'[r] \in Nat /\ demand'[r] >= demand[r]
  BY DemandGrows DEF ScalingInv
<1> QED BY <1>1, <1>2, <1>3

\* A repository that is planned for and not asked for already has all its runners
\* busy and a job queued besides: the snapshot's demand exceeds its runners by one.
LEMMA PlannedWithin ==
    ASSUME ScalingInv, tick = NoTick, NEW r \in Candidates, ~Unconfirmed(r)
    PROVE  IsFiniteSet(Asked(r)) /\ Cardinality(Asked(r)) + 1 <= demand[r]
<1>1. /\ r \in Repos /\ snap.queue[r] > 0 /\ Of(snap.runners, r) \subseteq snap.busy
      /\ IsFiniteSet(snap.runners) /\ snap.busy \subseteq snap.runners
      /\ snap.queue[r] \in Nat /\ demand[r] \in Nat
      /\ snap.queue[r] + Cardinality(Of(snap.busy, r)) <= demand[r]
  BY ScalingAssumption
  DEF Candidates, Diagnosed, ScalingInv, ScalingTypes, FleetOK, SnapOK, DemandSeen
<1>2. Of(snap.runners, r) = Of(snap.busy, r)
  BY <1>1 DEF Of
<1>3. /\ IsFiniteSet(Of(snap.runners, r)) /\ Cardinality(Of(snap.runners, r)) \in Nat
  BY <1>1, OfFinite
<1>4. Asked(r) \subseteq Of(snap.runners, r)
  BY DEF Asked, Unconfirmed, NoTick, Of
<1>5. IsFiniteSet(Asked(r)) /\ Cardinality(Asked(r)) <= Cardinality(Of(snap.runners, r))
  BY <1>3, <1>4, FS_Subset
<1>6. Cardinality(Asked(r)) \in Nat
  BY <1>5, FS_CardinalityType
<1> QED BY <1>1, <1>2, <1>3, <1>5, <1>6

\* A sweep asks for one runner of one repository.
LEMMA SweepWithin == ASSUME ScalingInv, SweepUp PROVE AskedWithin'
<1>1. /\ tick = NoTick /\ [ScalingNext]_scaleVars /\ runners' = runners /\ ScalingTypes
  BY DEF SweepUp, ScalingNext, ScalingInv
<1>2. PICK q \in Worst : Add(q) /\ twice' = twice \cup {z \in {q} : Unconfirmed(z)}
  BY DEF SweepUp
<1>3. q \in Candidates /\ q \in Repos
  BY DEF Worst, Candidates
<1>4. \E x : \A r \in Repos : Asked(r)' \subseteq Asked(r) \cup (IF r = q THEN {x} ELSE {})
  <2>1. CASE tick' = NoTick /\ cmds' = cmds
    BY <1>1, <2>1 DEF Asked, NoTick
  <2>2. CASE \E x \in RunnerIds :
                x.repo = q /\ tick' = UpTick(x, Others, cool) /\ cmds' = cmds
    <3>1. PICK x \in RunnerIds : x.repo = q /\ tick' = UpTick(x, Others, cool) /\ cmds' = cmds
      BY <2>2
    <3>2. tick'.runner = x
      BY <3>1 DEF UpTick
    <3>3. \A r \in Repos : Asked(r)' \subseteq Asked(r) \cup (IF r = q THEN {x} ELSE {})
      BY <1>1, <3>1, <3>2 DEF Asked
    <3> QED BY <3>3
  <2>3. CASE \E x \in RunnerIds :
                /\ x.repo = q /\ tick' = NoTick
                /\ cmds' = cmds \cup {[kind |-> "register", stage |-> "queued", runner |-> x]}
    <3>1. PICK x \in RunnerIds :
             /\ x.repo = q /\ tick' = NoTick
             /\ cmds' = cmds \cup {[kind |-> "register", stage |-> "queued", runner |-> x]}
      BY <2>3
    <3>2. \A r \in Repos : Asked(r)' \subseteq Asked(r) \cup (IF r = q THEN {x} ELSE {})
      BY <1>1, <3>1 DEF Asked, NoTick
    <3> QED BY <3>2
  <2> QED BY <1>1, <1>2, <1>3, <2>1, <2>2, <2>3, AddShape
<1>5. PICK x : \A r \in Repos : Asked(r)' \subseteq Asked(r) \cup (IF r = q THEN {x} ELSE {})
  BY <1>4
<1> SUFFICES ASSUME NEW r \in Repos \ twice'
             PROVE  IsFiniteSet(Asked(r))' /\ Cardinality(Asked(r))' <= demand'[r]
  BY DEF AskedWithin
<1>6. r \in Repos \ twice
  BY <1>2
<1>7. CASE r = q
  <2>1. ~Unconfirmed(r)
    BY <1>2, <1>7
  <2>2. IsFiniteSet(Asked(r)) /\ Cardinality(Asked(r)) + 1 <= demand[r]
    BY <1>1, <1>3, <1>7, <2>1, PlannedWithin
  <2>3. Asked(r)' \subseteq Asked(r) \cup {x}
    BY <1>5, <1>7
  <2> QED BY <1>1, <2>2, <2>3, AsksOne
<1>8. CASE r # q
  <2>1. Asked(r)' \subseteq Asked(r)
    BY <1>5, <1>8
  <2> QED BY <1>1, <1>6, <2>1, AsksNoMore
<1> QED BY <1>7, <1>8

\* An agent makes the runner it was asked for, once, however often it is asked.
LEMMA RestWithin ==
    ASSUME ScalingInv, [ScalingNext]_scaleVars, ~SweepUp PROVE AskedWithin'
<1>1. cmds \subseteq Orders /\ twice' = twice /\ TickOK
  BY DEF ScalingInv, ScalingTypes, ScalingNext, scaleVars, Work, RunnerSteps, HostSteps,
         CommandSteps, CooldownEnds, JobQueued, JobTaken, JobDone, IdleTtlElapses, HostChanges,
         HostFallsSilent, RunRegister, RunDeregister, Report, Reset, TakeSnapshot, SweepDown,
         RestOfBurst, FinishUp, FinishDown, ScriptFails
<1>2. ASSUME NEW r \in Repos \ twice PROVE Asked(r)' \subseteq Asked(r)
  <2>1. ASSUME NEW c \in cmds, RunRegister(c)
        PROVE  Asked(r)' \subseteq Asked(r)
    <3>1. /\ c.kind = "register" /\ \E ok : cmds' = Ended(c, ok)
          /\ runners' \subseteq runners \cup {c.runner} /\ tick' = tick
      BY <2>1 DEF RunRegister, Known
    <3>2. \A d \in cmds' : \E e \in cmds : d.kind = e.kind /\ d.runner = e.runner
      BY <1>1, <3>1 DEF Ended, Orders
    <3> QED BY <3>1, <3>2 DEF Asked
  <2>2. ASSUME NEW c \in cmds, RunDeregister(c)
        PROVE  Asked(r)' \subseteq Asked(r)
    <3>1. (\E ok : cmds' = Ended(c, ok)) /\ runners' \subseteq runners /\ tick' = tick
      BY <2>2 DEF RunDeregister
    <3>2. \A d \in cmds' : \E e \in cmds : d.kind = e.kind /\ d.runner = e.runner
      BY <1>1, <3>1 DEF Ended, Orders
    <3> QED BY <3>1, <3>2 DEF Asked
  <2>3. ASSUME NEW c \in cmds, Report(c) \/ Reset(c)
        PROVE  Asked(r)' \subseteq Asked(r)
    <3>1. runners' = runners /\ tick' = tick
      BY <2>3 DEF Report, Reset
    <3>2. \A d \in cmds' : \E e \in cmds : d.kind = e.kind /\ d.runner = e.runner
      BY <1>1, <2>3 DEF Report, Reset, Orders
    <3> QED BY <3>1, <3>2 DEF Asked
  <2>4. ASSUME NEW left \in 0..(Batch - 1), ConsiderRemoval(left), runners' = runners
        PROVE  Asked(r)' \subseteq Asked(r)
    <3>1. Resting(left).kind \in {"none", "rest"} /\ \A x : DownTick(x, left).kind = "down"
      BY DEF Resting, NoTick, DownTick
    <3>2. /\ tick'.kind # "up"
          /\ \/ cmds' = cmds
             \/ \E x : cmds' = cmds \cup {[kind |-> "deregister", stage |-> "queued", runner |-> x]}
      BY <2>4, <3>1, RemovalShape DEF ScalingInv
    <3> QED BY <2>4, <3>2 DEF Asked
  <2>5. CASE SweepDown \/ RestOfBurst
    <3>1. 0 \in 0..(Batch - 1) /\ (RestOfBurst => tick.left - 1 \in 0..(Batch - 1))
      <4>1. ASSUME RestOfBurst PROVE \E left \in 1..(Batch - 1) : tick.left = left
        BY <1>1, <4>1 DEF RestOfBurst, TickOK, NoTick, UpTick, DownTick, RestTick
      <4> QED BY <4>1, ScalingAssumption
    <3> QED BY <2>4, <2>5, <3>1 DEF SweepDown, RestOfBurst
  <2>6. CASE FinishUp \/ FinishDown \/ ScriptFails
    <3>1. \A left : Resting(left).kind # "up" /\ NoTick.kind # "up"
      BY DEF Resting, NoTick
    <3>2. /\ cmds' = cmds /\ tick'.kind # "up"
          /\ runners' \subseteq runners \/ (tick.kind = "up" /\ runners' = runners \cup {tick.runner})
      BY <2>6, <3>1 DEF FinishUp, FinishDown, ScriptFails
    <3> QED BY <3>2 DEF Asked
  <2>7. CASE Work \/ RunnerSteps \/ HostSteps \/ TakeSnapshot \/ UNCHANGED scaleVars
    <3>1. runners' = runners /\ tick' = tick /\ cmds' = cmds
      BY <2>7 DEF Work, RunnerSteps, HostSteps, CooldownEnds, JobQueued, JobTaken, JobDone,
                  IdleTtlElapses, HostChanges, HostFallsSilent, TakeSnapshot, scaleVars
    <3> QED BY <3>1 DEF Asked
  <2> QED BY <2>1, <2>2, <2>3, <2>5, <2>6, <2>7 DEF ScalingNext, CommandSteps
<1>3. ASSUME NEW r \in Repos \ twice'
      PROVE  IsFiniteSet(Asked(r))' /\ Cardinality(Asked(r))' <= demand'[r]
  BY <1>1, <1>2, AsksNoMore
<1> QED BY <1>3 DEF AskedWithin

LEMMA ScalingStep == ScalingInv /\ [ScalingNext]_scaleVars => ScalingInv'
<1> SUFFICES ASSUME ScalingInv, [ScalingNext]_scaleVars PROVE ScalingInv'
  OBVIOUS
<1>1. ScalingTypes' /\ DemandSeen'
  BY ScalingTypesStep, DemandStep DEF ScalingInv
<1>2. AskedWithin'
  BY SweepWithin, RestWithin
<1> QED BY <1>1, <1>2 DEF ScalingInv

LEMMA ScalingStarts == ScalingInit => ScalingInv
<1> SUFFICES ASSUME ScalingInit PROVE ScalingInv
  OBVIOUS
<1>1. /\ ScalingTypes /\ tick = NoTick /\ cmds = {}
      /\ demand = [r \in Repos |-> Cardinality(Of(runners, r))]
  BY ScalingInitially
<1>2. \A r \in Repos : IsFiniteSet(Of(runners, r)) /\ Cardinality(Of(runners, r)) \in Nat
  BY <1>1, OfFinite DEF ScalingTypes, FleetOK
<1>3. DemandSeen
  <2> SUFFICES ASSUME NEW r \in Repos
               PROVE  /\ queue[r] + Cardinality(Of(busy, r)) <= demand[r]
                      /\ snap.queue[r] + Cardinality(Of(snap.busy, r)) <= demand[r]
    BY DEF DemandSeen
  <2>1. Of(busy, r) = {} /\ queue[r] = 0 /\ Of(snap.busy, r) = {} /\ snap.queue[r] = 0
    BY ScalingInitially
  <2> QED BY <1>1, <1>2, <2>1, FS_EmptySet
<1>4. \A r \in Repos : Asked(r) = Of(runners, r)
  BY <1>1 DEF Asked, NoTick, Of, ScalingTypes, FleetOK
<1>5. AskedWithin
  BY <1>1, <1>2, <1>4 DEF AskedWithin
<1> QED BY <1>1, <1>3, <1>5 DEF ScalingInv

\* The scaler never makes more runners of a repository than it had jobs at once, or than
\* it began with, for any number of repositories, hosts and commands under way and a
\* burst of any size, unless it planned one while another was not yet known of
\* (buildScaleUpPlan, autoscaleTick, runRegister).
THEOREM NoMoreThanDemand == ScalingSpec => []OneRunnerPerDeficit
<1>1. ScalingInv => OneRunnerPerDeficit
  <2> SUFFICES ASSUME ScalingInv, NEW r \in Repos \ twice
               PROVE  Cardinality(Of(runners, r)) <= demand[r]
    BY DEF OneRunnerPerDeficit
  <2>1. /\ IsFiniteSet(Asked(r)) /\ Cardinality(Asked(r)) <= demand[r] /\ demand[r] \in Nat
        /\ Of(runners, r) \subseteq Asked(r)
    BY DEF ScalingInv, AskedWithin, Asked, Of, ScalingTypes, FleetOK
  <2>2. /\ Cardinality(Of(runners, r)) <= Cardinality(Asked(r)) /\ IsFiniteSet(Of(runners, r))
        /\ Cardinality(Asked(r)) \in Nat /\ Cardinality(Of(runners, r)) \in Nat
    BY <2>1, FS_Subset, FS_CardinalityType
  <2> QED BY <2>1, <2>2
<1> QED BY <1>1, ScalingStarts, ScalingStep, PTL DEF ScalingSpec
=============================================================================
