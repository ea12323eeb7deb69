---------------------------- MODULE MCAdmission ----------------------------
(***************************************************************************)
(* Admission on a host with three runners, one of them a Simulator runner. *)
(***************************************************************************)
EXTENDS Admission, TLC

CONSTANTS light, heavy, sim, next, r1, r2, r3

MCRunnerOf ==
    [j \in Jobs |-> CASE j = light -> r1 [] j = heavy -> r2 [] j = sim -> r3 [] j = next -> r1]

Conf(mode, lanes, onTimeout, priority) ==
    [mode |-> mode, lanes |-> lanes, onTimeout |-> onTimeout, priority |-> priority]

\* Every lane setting, every way to time out, priority and none, and observe mode.
Hold == {Conf("enforce", l, "hold", TRUE) : l \in {"off", "enforce"}}
Progress == {Conf("enforce", "observe", "hold", FALSE),
             Conf("enforce", "enforce", "admit", FALSE),
             Conf("observe", "off", "admit", FALSE)}
AllConfs == Hold \cup Progress

\* The settings of hooks/tests/run.sh:324, and one lane held.
FailOpen1 == {Conf("enforce", "off", "admit", FALSE)}
Hold1 == {Conf("enforce", "off", "hold", FALSE)}

\* Worker deaths, hook kills, expired slots, floors, label changes.
Allow(w, h, e, f, l) ==
    [fault \in Faults |-> CASE fault = "workers" -> w [] fault = "hooks" -> h
        [] fault = "expiries" -> e [] fault = "floors" -> f [] fault = "labels" -> l]

\* A dead worker's slot, an expired one and a floor in the middle of a hold; with
\* priority, a killed hook and the label that its waiter leaves behind; elsewhere a
\* killed hook.
FaultsOf ==
    [c \in Confs |->
        IF c.lanes = "observe"
        THEN {Allow(1, 0, 0, 0, 0), Allow(0, 0, 1, 0, 0), Allow(0, 0, 0, 1, 0)}
        ELSE IF c.priority /\ c.lanes = "enforce" THEN {Allow(0, 1, 0, 0, 1)}
        ELSE {Allow(0, 1, 0, 0, 0)}]
NoFaults == [c \in Confs |-> {Allow(0, 0, 0, 0, 0)}]
OneWorker == [c \in Confs |-> {Allow(1, 0, 0, 0, 0)}]
=============================================================================
