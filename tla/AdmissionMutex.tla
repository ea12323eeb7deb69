--------------------------- MODULE AdmissionMutex ---------------------------
(***************************************************************************)
(* The directory mutex of the admission hooks: admit_lock, admit_unlock    *)
(* and admit_dir_age of hooks/common.sh.  Every job-started and            *)
(* job-completed hook on a host is a separate shell that takes the mutex   *)
(* with mkdir, writes its pid inside, and gives it back with rm -rf.  A    *)
(* contender breaks the mutex when the pid it read belongs to no process,  *)
(* or when the directory is older than 60 seconds.                         *)
(*                                                                         *)
(* One action is one file-system call or one kill -0, because the code     *)
(* holds nothing between them.  rm -rf is two calls: unlink the pid file,  *)
(* then rmdir, which fails while the directory is not empty.  Both name    *)
(* the directory by its path, so they act on whichever directory is there  *)
(* when they run.                                                          *)
(***************************************************************************)
EXTENDS Naturals, FiniteSets

CONSTANTS
    Procs,       \* the hook processes that use the mutex
    None,        \* no process: a pid file that is missing
    MaxKills,    \* bound: hooks killed with SIGKILL
    MaxStalls    \* bound: critical sections that outlast the 60 seconds

ASSUME MutexAssumption ==
    /\ None \notin Procs
    /\ MaxKills \in Nat
    /\ MaxStalls \in Nat

VARIABLES
    pc,      \* where each hook is in admit_lock / admit_unlock
    dir,     \* $ADMIT_MUTEX exists
    pid,     \* the process named in $ADMIT_MUTEX/pid
    aged,    \* the directory is older than 60 seconds
    seen,    \* "holder" of admit_lock: the pid each contender last read
    maker,   \* whose mkdir made the directory (history, read by AgeOut only)
    kills, stalls

vars == <<pc, dir, pid, aged, seen, maker, kills, stalls>>

Steps == {"idle", "mkdir", "sign", "critical", "unlink", "rmdir",
          "read", "probe", "age", "breakUnlink", "breakRmdir", "gone"}

\* The process has the mutex: from its mkdir to the end of its rm -rf.
Holding == {"sign", "critical", "unlink", "rmdir"}
\* The process is trying to get it.
Contending == {"mkdir", "read", "probe", "age", "breakUnlink", "breakRmdir"}

Init ==
    /\ pc = [p \in Procs |-> "idle"]
    /\ dir = FALSE
    /\ pid = None
    /\ aged = FALSE
    /\ seen = [p \in Procs |-> None]
    /\ maker = None
    /\ kills = 0
    /\ stalls = 0

Goto(p, step) == pc' = [pc EXCEPT ![p] = step]

------------------------------------------------------------------------------
(* admit_lock *)

Call(p) ==
    /\ pc[p] = "idle"
    /\ Goto(p, "mkdir")
    /\ UNCHANGED <<dir, pid, aged, seen, maker, kills, stalls>>

\* mkdir "$ADMIT_MUTEX": succeeds for one process.
MakeDirectory(p) ==
    /\ pc[p] = "mkdir"
    /\ ~dir
    /\ dir' = TRUE
    /\ aged' = FALSE
    /\ maker' = p
    /\ Goto(p, "sign")
    /\ UNCHANGED <<pid, seen, kills, stalls>>

FindTaken(p) ==
    /\ pc[p] = "mkdir"
    /\ dir
    /\ Goto(p, "read")
    /\ UNCHANGED <<dir, pid, aged, seen, maker, kills, stalls>>

\* Mutant: the pid is written even when the directory is gone.
SignPidAnywhere(p) ==
    /\ pc[p] = "sign"
    /\ pid' = p
    /\ aged' = (aged /\ pid # None)
    /\ Goto(p, "critical")
    /\ UNCHANGED <<dir, seen, maker, kills, stalls>>

\* printf > mutex/pid || true: into the directory now at that path, or lost.
\* Creating the file renews the directory's modification time.
SignPid(p) ==
    /\ pc[p] = "sign"
    /\ pid' = IF dir THEN p ELSE pid
    /\ aged' = (aged /\ pid # None)
    /\ Goto(p, "critical")
    /\ UNCHANGED <<dir, seen, maker, kills, stalls>>

\* holder="$(cat "$ADMIT_MUTEX/pid")"
ReadHolder(p) ==
    /\ pc[p] = "read"
    /\ seen' = [seen EXCEPT ![p] = pid]
    /\ Goto(p, "probe")
    /\ UNCHANGED <<dir, pid, aged, maker, kills, stalls>>

\* Mutant: without [ -n "$holder" ], a pid not written yet reads as dead.
DeadOrUnsigned(p) == p = None \/ pc[p] = "gone"

Dead(p) == p \in Procs /\ pc[p] = "gone"

\* kill -0 "$holder": on a process that ended the mutex is wreckage.
ProbeHolder(p) ==
    /\ pc[p] = "probe"
    /\ Goto(p, IF Dead(seen[p]) THEN "breakUnlink" ELSE "age")
    /\ seen' = [seen EXCEPT ![p] = None]
    /\ UNCHANGED <<dir, pid, aged, maker, kills, stalls>>

\* Mutant: no 60-second rule.
NeverTooOld(p) ==
    /\ pc[p] = "age"
    /\ Goto(p, "mkdir")
    /\ UNCHANGED <<dir, pid, aged, seen, maker, kills, stalls>>

\* [ "$age" -gt 60 ], else a try is used up: sleep and mkdir again.
CheckAge(p) ==
    /\ pc[p] = "age"
    /\ Goto(p, IF dir /\ aged THEN "breakUnlink" ELSE "mkdir")
    /\ UNCHANGED <<dir, pid, aged, seen, maker, kills, stalls>>

\* The last of ADMIT_MUTEX_TRIES: return 1, and the hook goes on without it.
GiveUp(p) ==
    /\ pc[p] = "age"
    /\ ~(dir /\ aged)
    /\ Goto(p, "idle")
    /\ UNCHANGED <<dir, pid, aged, seen, maker, kills, stalls>>

\* The two halves of rm -rf "$ADMIT_MUTEX".
UnlinkPid ==
    /\ pid' = None
    /\ aged' = (aged /\ pid = None)
    /\ UNCHANGED <<dir, seen, maker, kills, stalls>>

RemoveDirectory ==
    /\ dir' = (dir /\ pid # None)
    /\ aged' = (aged /\ dir')
    /\ UNCHANGED <<pid, seen, maker, kills, stalls>>

BreakMutex(p) ==
    \/ pc[p] = "breakUnlink" /\ UnlinkPid /\ Goto(p, "breakRmdir")
    \/ pc[p] = "breakRmdir" /\ RemoveDirectory /\ Goto(p, "mkdir")

------------------------------------------------------------------------------
(* admit_unlock, which removes the directory without asking whose it is *)

LeaveCritical(p) ==
    /\ pc[p] = "critical"
    /\ Goto(p, "unlink")
    /\ UNCHANGED <<dir, pid, aged, seen, maker, kills, stalls>>

Unlock(p) ==
    \/ pc[p] = "unlink" /\ UnlinkPid /\ Goto(p, "rmdir")
    \/ pc[p] = "rmdir" /\ RemoveDirectory /\ Goto(p, "idle")

\* A hook that has done its work exits; its pid then answers no kill -0.
Exit(p) ==
    /\ pc[p] = "idle"
    /\ Goto(p, "gone")
    /\ UNCHANGED <<dir, pid, aged, seen, maker, kills, stalls>>

------------------------------------------------------------------------------
(* The environment *)

Kill(p) ==
    /\ pc[p] # "gone"
    /\ kills < MaxKills
    /\ kills' = kills + 1
    /\ Goto(p, "gone")
    /\ seen' = [seen EXCEPT ![p] = None]
    /\ UNCHANGED <<dir, pid, aged, maker, stalls>>

\* The directory that its maker no longer holds will never be given back.
Wreck == dir /\ (maker = None \/ pc[maker] \notin Holding)

\* Sixty seconds go by: for wreckage always, for a holder that is suspended
\* or starved in the middle of its critical section at most MaxStalls times.
AgeOut ==
    /\ dir
    /\ ~aged
    /\ aged' = TRUE
    /\ \/ Wreck /\ stalls' = stalls
       \/ ~Wreck /\ stalls < MaxStalls /\ stalls' = stalls + 1
    /\ UNCHANGED <<pc, dir, pid, seen, maker, kills>>

------------------------------------------------------------------------------

\* What a hook does on its own once it has started; it may also stop using
\* the mutex (stay idle, exit) and may be killed.
Lock(p) ==
    \/ MakeDirectory(p) \/ FindTaken(p) \/ SignPid(p)
    \/ ReadHolder(p) \/ ProbeHolder(p) \/ CheckAge(p) \/ BreakMutex(p)

\* Every hook has ended.
Finished == (\A p \in Procs : pc[p] = "gone") /\ UNCHANGED vars

Next ==
    \/ \E p \in Procs : Call(p) \/ Lock(p) \/ GiveUp(p)
    \/ \E p \in Procs : LeaveCritical(p) \/ Unlock(p)
    \/ \E p \in Procs : Exit(p) \/ Kill(p)
    \/ AgeOut
    \/ Finished

\* A running hook keeps executing, and the clock keeps running.
Fairness ==
    /\ \A p \in Procs : WF_vars(Lock(p)) /\ WF_vars(LeaveCritical(p) \/ Unlock(p))
    /\ WF_vars(Wreck /\ AgeOut)

Spec == Init /\ [][Next]_vars /\ Fairness

------------------------------------------------------------------------------

\* The values of the variables; and a pid file exists only in the directory.
TypeOK ==
    /\ pc \in [Procs -> Steps]
    /\ dir \in BOOLEAN
    /\ pid \in Procs \union {None}
    /\ pid # None => dir
    /\ aged \in BOOLEAN
    /\ seen \in [Procs -> Procs \union {None}]
    /\ maker \in Procs \union {None}
    /\ kills \in 0..MaxKills
    /\ stalls \in 0..MaxStalls

\* Two hooks are never inside the mutex together, as "mkdir is the portable
\* atomic test-and-set" (common.sh:377) says of admit_lock.
MutualExclusion ==
    \A p, q \in Procs : pc[p] = "critical" /\ pc[q] = "critical" => p = q

\* As long as no hook has ended, by its exit or by a kill, and no critical
\* section outlasts 60 seconds, there is nothing to break: the mkdir of
\* admit_lock keeps two hooks out of the section between mkdir and rmdir.
ExclusiveUntilAnExit ==
    (\A p \in Procs : pc[p] # "gone") /\ stalls = 0 =>
        \A p, q \in Procs : pc[p] \in Holding /\ pc[q] \in Holding => p = q

\* A mutex left behind by a killed hook (the wreckage of common.sh:394) is
\* removed, or taken over, or nobody is trying to get the mutex any more.
WreckIsCleared ==
    []<>(~Wreck \/ \A p \in Procs : pc[p] \notin Contending)
=============================================================================
