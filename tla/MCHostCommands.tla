-------------------------- MODULE MCHostCommands --------------------------
(***************************************************************************)
(* A host with an agent and a host that is a replica, each with two rounds *)
(* that may overlap.                                                       *)
(***************************************************************************)
EXTENDS HostCommands, TLC

CONSTANTS agent, replica, a1, a2, b1, b2

MCRoundHost == [r \in Rounds |-> IF r \in {a1, a2} THEN agent ELSE replica]
=============================================================================
