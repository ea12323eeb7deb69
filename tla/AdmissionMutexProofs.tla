------------------------ MODULE AdmissionMutexProofs ------------------------
(***************************************************************************)
(* The directory mutex excludes any number of hooks until the first of     *)
(* them ends: what can go wrong needs a contender that breaks a mutex, and *)
(* that needs a process that is gone or 60 seconds in one section.         *)
(***************************************************************************)
EXTENDS AdmissionMutex, TLAPS

LEMMA MutexTypeStep ==
    ASSUME TypeOK, [Next]_vars
    PROVE  TypeOK'
<1> USE MutexAssumption DEF TypeOK, Steps, Goto
<1>1. ASSUME NEW p \in Procs, Call(p) \/ FindTaken(p) \/ GiveUp(p) \/ LeaveCritical(p) \/ Exit(p)
      PROVE  TypeOK'
  BY <1>1 DEF Call, FindTaken, GiveUp, LeaveCritical, Exit
<1>2. ASSUME NEW p \in Procs, MakeDirectory(p) \/ SignPid(p) PROVE TypeOK'
  BY <1>2 DEF MakeDirectory, SignPid
<1>3. ASSUME NEW p \in Procs, ReadHolder(p) \/ ProbeHolder(p) \/ CheckAge(p) PROVE TypeOK'
  BY <1>3 DEF ReadHolder, ProbeHolder, CheckAge
<1>4. ASSUME NEW p \in Procs, BreakMutex(p) \/ Unlock(p) PROVE TypeOK'
  BY <1>4 DEF BreakMutex, Unlock, UnlinkPid, RemoveDirectory
<1>5. ASSUME NEW p \in Procs, Kill(p) PROVE TypeOK'
  BY <1>5 DEF Kill, MutexAssumption
<1>6. ASSUME AgeOut PROVE TypeOK'
  BY <1>6 DEF AgeOut, MutexAssumption
<1>7. ASSUME UNCHANGED vars PROVE TypeOK'
  BY <1>7 DEF vars
<1> QED
  BY <1>1, <1>2, <1>3, <1>4, <1>5, <1>6, <1>7 DEF Next, Lock, Finished

LEMMA MutexTypeInit == Init => TypeOK
<1> SUFFICES ASSUME Init PROVE TypeOK
  OBVIOUS
<1>1. pc \in [Procs -> Steps] /\ seen \in [Procs -> Procs \union {None}]
  BY DEF Init, Steps
<1>2. kills \in 0..MaxKills /\ stalls \in 0..MaxStalls
  BY MutexAssumption DEF Init, MutexAssumption
<1> QED
  BY <1>1, <1>2 DEF Init, TypeOK

\* Nothing has happened yet that admit_lock takes for wreckage.
AllLive == (\A p \in Procs : pc[p] # "gone") /\ stalls = 0

\* While all live, the directory is the section: it exists exactly while its
\* maker is inside, it is young, and nobody is about to remove it.
Owned ==
    AllLive =>
        /\ \A p \in Procs : pc[p] \in Holding => dir /\ maker = p
        /\ dir => maker \in Procs /\ pc[maker] \in Holding
        /\ ~aged
        /\ \A p \in Procs : pc[p] \notin {"breakUnlink", "breakRmdir"}
        /\ \A p \in Procs : pc[p] = "rmdir" => pid = None

MutexInv == TypeOK /\ Owned

LEMMA AllLiveBefore ==
    ASSUME TypeOK, [Next]_vars, AllLive'
    PROVE  AllLive
<1> USE MutexAssumption DEF TypeOK, AllLive, Goto, MutexAssumption
<1>1. ASSUME NEW p \in Procs, Call(p) \/ Lock(p) \/ GiveUp(p) PROVE AllLive
  BY <1>1 DEF Call, Lock, GiveUp, MakeDirectory, FindTaken, SignPid, ReadHolder,
     ProbeHolder, CheckAge, BreakMutex, UnlinkPid, RemoveDirectory
<1>2. ASSUME NEW p \in Procs, LeaveCritical(p) \/ Unlock(p) PROVE AllLive
  BY <1>2 DEF LeaveCritical, Unlock, UnlinkPid, RemoveDirectory
<1>3. ASSUME NEW p \in Procs, Exit(p) \/ Kill(p) PROVE AllLive
  BY <1>3 DEF Exit, Kill
<1>4. ASSUME AgeOut \/ UNCHANGED vars PROVE AllLive
  BY <1>4 DEF AgeOut, vars
<1> QED
  BY <1>1, <1>2, <1>3, <1>4 DEF Next, Finished

LEMMA MutexStep ==
    ASSUME MutexInv, [Next]_vars
    PROVE  MutexInv'
<1>0. TypeOK /\ Owned /\ TypeOK'
  BY MutexTypeStep DEF MutexInv
<1>1. SUFFICES ASSUME AllLive' PROVE Owned'
  BY <1>0 DEF MutexInv, Owned
<1>2. AllLive
  BY <1>0, <1>1, AllLiveBefore
<1> USE MutexAssumption, <1>0, <1>1, <1>2 DEF TypeOK, Owned, AllLive, Goto, Holding, Steps
<1>3. ASSUME NEW p \in Procs, Call(p) \/ FindTaken(p) \/ GiveUp(p) \/ LeaveCritical(p)
      PROVE  Owned'
  BY <1>3 DEF Call, FindTaken, GiveUp, LeaveCritical
<1>4. ASSUME NEW p \in Procs, MakeDirectory(p) PROVE Owned'
  BY <1>4 DEF MakeDirectory
<1>5. ASSUME NEW p \in Procs, SignPid(p) PROVE Owned'
  BY <1>5 DEF SignPid
<1>6. ASSUME NEW p \in Procs, ReadHolder(p) \/ CheckAge(p) PROVE Owned'
  BY <1>6 DEF ReadHolder, CheckAge
<1>7. ASSUME NEW p \in Procs, ProbeHolder(p) PROVE Owned'
  BY <1>7 DEF ProbeHolder, Dead
<1>8. ASSUME NEW p \in Procs, BreakMutex(p) PROVE Owned'
  BY <1>8 DEF BreakMutex
<1>9. ASSUME NEW p \in Procs, Unlock(p) PROVE Owned'
  BY <1>9 DEF Unlock, UnlinkPid, RemoveDirectory
<1>10. ASSUME NEW p \in Procs, Exit(p) \/ Kill(p) PROVE Owned'
  BY <1>10 DEF Exit, Kill
<1>11. ASSUME AgeOut PROVE Owned'
  BY <1>11 DEF AgeOut, Wreck
<1>12. ASSUME UNCHANGED vars PROVE Owned'
  BY <1>12 DEF vars
<1> QED
  BY <1>3, <1>4, <1>5, <1>6, <1>7, <1>8, <1>9, <1>10, <1>11, <1>12
  DEF Next, Lock, Finished

\* Neither needs the fairness of Spec.
LEMMA MutexSafe == Init /\ [][Next]_vars => []TypeOK /\ []ExclusiveUntilAnExit
<1>1. Init => MutexInv
  BY MutexTypeInit DEF Init, MutexInv, Owned, Holding
<1>2. MutexInv => TypeOK /\ ExclusiveUntilAnExit
  BY DEF MutexInv, Owned, AllLive, ExclusiveUntilAnExit
<1> QED BY <1>1, <1>2, MutexStep, PTL

\* The values of the mutex's variables, and no pid file without a directory.
THEOREM MutexTypeCorrect == Spec => []TypeOK
BY MutexSafe, PTL DEF Spec

\* Any number of hooks exclude each other until the first one ends.
THEOREM MutexExcludes == Spec => []ExclusiveUntilAnExit
BY MutexSafe, PTL DEF Spec
=============================================================================
