---- MODULE MCDeployments ----
(* Instances of Deployments for TLC. *)
EXTENDS Deployments, TLC

\* Fault budgets: [kind |-> how often it may happen].
NoFaults     == [k \in FaultKinds |-> 0]
OnlyRaise    == [NoFaults EXCEPT !["raise"] = 1]
OnlyCancel   == [NoFaults EXCEPT !["cancel"] = 1]
CutShort     == [NoFaults EXCEPT !["cancel"] = 2, !["crash"] = 1]
RaiseExit    == [OnlyRaise EXCEPT !["exit"] = 1]

\* A server restart, or a second cancellation, but not both.
AtMostTwo    == faults["cancel"] + faults["crash"] <= 2

Symmetry     == Permutations(Runs) \cup Permutations(Commits)
RaceSymmetry == Permutations(Runs) \cup Permutations(Callers)
====
