----------------------------- MODULE HostLeases -----------------------------
(***************************************************************************)
(* What a job may change on its host, and who puts it back:                *)
(* hooks/simulator-control.sh (devices a job boots) and                    *)
(* hooks/audio-control.sh (the output is muted while selected jobs run).   *)
(*                                                                         *)
(* Both keep a lease per runner with the pid of its Runner.Worker, a file  *)
(* with what the host was like before the first overlapping job, a mutex,  *)
(* and a detached guardian per job that releases the lease when the worker *)
(* dies.  What happens under the mutex is one step here; a process that    *)
(* does not get it within its hundred tries gives up.                      *)
(***************************************************************************)
EXTENDS Naturals, FiniteSets

CONSTANTS
    Runners,      \* the selected runners, each with its own lease file
    NoLease,      \* no lease file
    User,         \* what the user turned on: a device, or the mute itself
    MaxJobs,      \* bound: jobs per runner
    MaxDeaths,    \* bound: workers that die before their hook has run
    MaxSlips      \* bound: mutexes given up, guardians killed, failed calls

ASSUME LeasesAssumption ==
    /\ IsFiniteSet(Runners)
    /\ User \notin Runners
    /\ MaxJobs \in Nat /\ MaxDeaths \in Nat /\ MaxSlips \in Nat
    /\ NoLease \notin Nat \cup Runners \cup {User}

VARIABLES
    tool,       \* which of the two scripts this is
    jobNo,      \* jobNo[r]: how many workers runner r has had; the last one's pid
    jobPhase,   \* jobPhase[r]: what that worker is doing; "none" when it is gone
    lease,      \* lease[r]: the worker in r's lease file, or NoLease
    guards,     \* guardians, and completed hooks that outlived their worker
    saved,      \* the baseline, or the original mute; NoFile when there is none
    host,       \* devices that are booted (a runner's name is its job's); {User}: muted
    mine,       \* history: what the user left on
    strayed,    \* history: something that nothing promises to put right
    deaths, slips

leaseVars == <<tool, jobNo, jobPhase, lease, guards, saved, host, mine, strayed,
               deaths, slips>>

Things == IF tool = "simulator" THEN Runners \cup {User} ELSE {User}

NoFile == {NoLease}

Guards == [key : Runners, owner : 1..MaxJobs, stage : {"watch", "release", "complete"}]

LeasesTypeOK ==
    /\ tool \in {"simulator", "audio"}
    /\ jobNo \in [Runners -> 0..MaxJobs]
    /\ jobPhase \in [Runners -> {"none", "starting", "running", "ending"}]
    /\ lease \in [Runners -> (1..MaxJobs) \cup {NoLease}]
    /\ guards \subseteq Guards
    /\ saved \in (SUBSET Things) \cup {NoFile}
    /\ host \subseteq Things /\ mine \subseteq {User}
    /\ strayed \in BOOLEAN
    /\ deaths \in 0..MaxDeaths /\ slips \in 0..MaxSlips

LeasesInit ==
    /\ tool \in {"simulator", "audio"}
    /\ jobNo = [r \in Runners |-> 0]
    /\ jobPhase = [r \in Runners |-> "none"]
    /\ lease = [r \in Runners |-> NoLease]
    /\ guards = {} /\ saved = NoFile
    /\ host = {} /\ mine = {}
    /\ strayed = FALSE /\ deaths = 0 /\ slips = 0

-----------------------------------------------------------------------------
WorkerLive(r, n) == jobPhase[r] # "none" /\ jobNo[r] = n

\* sim_reap, audio_reap: leases of dead workers go.
ReapedLeases(l) ==
    [r \in Runners |-> IF l[r] # NoLease /\ WorkerLive(r, l[r]) THEN l[r] ELSE NoLease]

HasJobs(l) == \E r \in Runners : l[r] # NoLease

\* sim_cleanup_new_devices shuts down what the baseline does not name and boots
\* nothing again; audio_restore_if_idle sets the mute that was saved.
PutBack ==
    IF saved = NoFile THEN host
    ELSE IF tool = "simulator" THEN host \cap saved ELSE saved

\* A mutant: the host is put back as soon as the lease is gone.
ReleaseLeaseOfAll(r) ==
    /\ lease' = ReapedLeases([lease EXCEPT ![r] = NoLease])
    /\ host' = PutBack /\ saved' = NoFile

\* sim_release, audio_release: the key alone says whose lease goes.
ReleaseLease(r) ==
    LET left == ReapedLeases([lease EXCEPT ![r] = NoLease]) IN
    /\ lease' = left
    /\ IF HasJobs(left)
       THEN UNCHANGED <<host, saved>>
       ELSE host' = PutBack /\ saved' = NoFile

\* The simulator baseline is taken by the first job, after what an earlier job
\* left is shut down; the mute is saved when there is no saved one.
TakeLease(r) ==
    LET left == ReapedLeases(lease)
        first == IF tool = "simulator" THEN ~HasJobs(left) ELSE saved = NoFile
        before == IF tool = "simulator" /\ first THEN PutBack ELSE host IN
    /\ lease' = [left EXCEPT ![r] = jobNo[r]]
    /\ saved' = IF first THEN before ELSE saved
    /\ host' = IF tool = "simulator" THEN before ELSE {User}
    /\ guards' = guards \cup {[key |-> r, owner |-> jobNo[r], stage |-> "watch"]}

-----------------------------------------------------------------------------
JobArrives(r) ==
    /\ jobPhase[r] = "none" /\ jobNo[r] < MaxJobs
    /\ jobNo' = [jobNo EXCEPT ![r] = @ + 1]
    /\ jobPhase' = [jobPhase EXCEPT ![r] = "starting"]
    /\ UNCHANGED <<tool, lease, guards, saved, host, mine, strayed, deaths, slips>>

\* sim_start, audio_start under the mutex.
StartLease(r) ==
    /\ jobPhase[r] = "starting"
    /\ TakeLease(r)
    /\ jobPhase' = [jobPhase EXCEPT ![r] = "running"]
    /\ UNCHANGED <<tool, jobNo, mine, strayed, deaths, slips>>

Slip == slips < MaxSlips /\ slips' = slips + 1 /\ strayed' = TRUE

\* The mutex was not to be had: the job runs without a lease and a guardian.
StartWithout(r) ==
    /\ jobPhase[r] = "starting" /\ Slip
    /\ jobPhase' = [jobPhase EXCEPT ![r] = "running"]
    /\ UNCHANGED <<tool, jobNo, lease, guards, saved, host, mine, deaths>>

\* The volume could not be set: the lease goes again, and the saved mute with
\* it, whoever saved it.
MuteFails(r) ==
    /\ tool = "audio" /\ jobPhase[r] = "starting" /\ Slip
    /\ lease' = [ReapedLeases(lease) EXCEPT ![r] = NoLease]
    /\ saved' = NoFile
    /\ jobPhase' = [jobPhase EXCEPT ![r] = "running"]
    /\ UNCHANGED <<tool, jobNo, guards, host, mine, deaths>>

BootDevice(r) ==
    /\ tool = "simulator" /\ jobPhase[r] = "running" /\ r \notin host
    /\ host' = host \cup {r}
    /\ UNCHANGED <<tool, jobNo, jobPhase, lease, guards, saved, mine, strayed, deaths, slips>>

JobEnds(r) ==
    /\ jobPhase[r] = "running"
    /\ jobPhase' = [jobPhase EXCEPT ![r] = "ending"]
    /\ UNCHANGED <<tool, jobNo, lease, guards, saved, host, mine, strayed, deaths, slips>>

\* job-completed.sh: the hook runs "complete", with or without the mutex.
CompleteLease(r) ==
    /\ jobPhase[r] = "ending"
    /\ jobPhase' = [jobPhase EXCEPT ![r] = "none"]
    /\ \/ ReleaseLease(r) /\ UNCHANGED <<strayed, slips>>
       \/ Slip /\ UNCHANGED <<lease, host, saved>>
    /\ UNCHANGED <<tool, jobNo, guards, mine, deaths>>

\* A worker is killed.  A completed hook that had begun may go on without it.
WorkerDies(r) ==
    /\ jobPhase[r] \in {"running", "ending"} /\ deaths < MaxDeaths
    /\ deaths' = deaths + 1
    /\ jobPhase' = [jobPhase EXCEPT ![r] = "none"]
    /\ guards' = IF jobPhase[r] = "running" THEN guards
                 ELSE guards \cup {[key |-> r, owner |-> jobNo[r], stage |-> "complete"]}
    /\ UNCHANGED <<tool, jobNo, lease, saved, host, mine, strayed, slips>>

\* A mutant: a guardian takes a live worker for a dead one.
GuardLooksOnce(g) ==
    /\ g \in guards /\ g.stage = "watch"
    /\ guards' = (guards \ {g}) \cup {[g EXCEPT !.stage = "release"]}
    /\ UNCHANGED <<tool, jobNo, jobPhase, lease, saved, host, mine, strayed, deaths, slips>>

\* One turn of sim_guard's loop: done when the lease is another's or gone, on to
\* the release when the worker is dead.
GuardLooks(g) ==
    /\ g \in guards /\ g.stage = "watch"
    /\ \/ lease[g.key] # g.owner /\ guards' = guards \ {g}
       \/ /\ lease[g.key] = g.owner /\ ~WorkerLive(g.key, g.owner)
          /\ guards' = (guards \ {g}) \cup {[g EXCEPT !.stage = "release"]}
    /\ UNCHANGED <<tool, jobNo, jobPhase, lease, saved, host, mine, strayed, deaths, slips>>

\* The release looks at no owner any more: a job that has come in between loses
\* its lease, and what it changes is not put back.
GuardReleases(g) ==
    /\ g \in guards /\ g.stage \in {"release", "complete"}
    /\ guards' = guards \ {g}
    /\ ReleaseLease(g.key)
    /\ strayed' = (strayed \/ (lease[g.key] # NoLease /\ lease[g.key] # g.owner))
    /\ UNCHANGED <<tool, jobNo, jobPhase, mine, deaths, slips>>

GuardLost(g) ==
    /\ g \in guards /\ Slip
    /\ guards' = guards \ {g}
    /\ UNCHANGED <<tool, jobNo, jobPhase, lease, saved, host, mine, deaths>>

\* The user boots or shuts down a device, or mutes, while no job runs.  What is
\* turned on before an earlier job is put back is nobody's to keep.
UserActs ==
    /\ \A r \in Runners : jobPhase[r] = "none" /\ jobNo[r] < MaxJobs
    /\ mine' = {User} \ mine
    /\ host' = (host \ {User}) \cup mine'
    /\ strayed' = (strayed \/ saved # NoFile)
    /\ UNCHANGED <<tool, jobNo, jobPhase, lease, guards, saved, deaths, slips>>

LeasesNext ==
    \/ \E r \in Runners :
        \/ JobArrives(r) \/ StartLease(r) \/ StartWithout(r) \/ MuteFails(r)
        \/ BootDevice(r) \/ JobEnds(r) \/ CompleteLease(r) \/ WorkerDies(r)
    \/ \E g \in guards : GuardLooks(g) \/ GuardReleases(g) \/ GuardLost(g)
    \/ UserActs

LeasesSpec == LeasesInit /\ [][LeasesNext]_leaseVars

-----------------------------------------------------------------------------
LiveLease(r) == lease[r] # NoLease /\ WorkerLive(r, lease[r])

\* The process g of an earlier worker has ended with a release, and the lease that
\* it met was a later, live worker's.
MetTheNext(g) == g \in guards \ guards' /\ LiveLease(g.key) /\ g.owner < lease[g.key]

LateRelease(r) == \E g \in guards : g.key = r /\ g.stage # "watch" /\ MetTheNext(g)

Spared(r) ==
    /\ lease'[r] = lease[r] \/ (jobPhase[r] = "ending" /\ jobPhase'[r] = "none")
    /\ lease'[r] = lease[r] /\ tool = "simulator" /\ r \in host => r \in host'
    /\ lease'[r] = lease[r] /\ tool = "audio" => User \in host'

\* "Never let the old guardian release the new job's lease" (audio-control.sh
\* 181-182).  The code does let it: see the README's findings.
NextJobKeepsItsLease ==
    [][\A g \in guards :
        g.stage = "release" /\ MetTheNext(g) => lease'[g.key] = lease[g.key]]_leaseVars

\* "Overlapping iOS jobs cannot kill each other" (simulator-control.sh 8-9), nor
\* unmute one another (audio-control.sh 8): whatever the hooks, the guardians, the
\* deaths and the failures of the host's other runners do, and whatever its own
\* guardian does while its worker lives, a live job keeps its lease until its own
\* completed hook, and with the lease the device it booted or the silence.  It says
\* nothing of a step in which a process of an earlier worker of the same runner
\* releases the lease: that is what NextJobKeepsItsLease is violated by.
JobsSpareEachOther ==
    [][\A r \in Runners : LiveLease(r) /\ ~LateRelease(r) => Spared(r)]_leaseVars

\* When jobs stop coming the host goes back to what the user left, even if the
\* workers died without their completed hook.  Excepted, as strayed, is the host on
\* which a step of the environment failed, or a job lost its lease as in the finding.
HostRestored ==
    <>[](\A r \in Runners : jobPhase[r] = "none")
        => <>[](strayed \/ (saved = NoFile /\ host = mine))
=============================================================================
