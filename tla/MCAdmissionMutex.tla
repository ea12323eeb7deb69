-------------------------- MODULE MCAdmissionMutex --------------------------
(***************************************************************************)
(* AdmissionMutex with three hooks: a holder, a contender that has read    *)
(* the holder's pid, and a hook that arrives after the holder is done.     *)
(***************************************************************************)
EXTENDS AdmissionMutex, TLC

\* Hooks differ only in their pid.  Sound for the invariants; the cfg that
\* checks liveness leaves it out.
Symmetry == Permutations(Procs)
=============================================================================
