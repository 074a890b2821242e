------------------------------- MODULE MCProc ------------------------------
(***************************************************************************)
(* Proc on four machines.                                                  *)
(***************************************************************************)
EXTENDS Proc

CONSTANTS c1, c2

\* Two CPUs and two children; one CPU and two children, with kills that hit free
\* slots; two CPUs and one child; one CPU and two children.
MCWorlds ==
  {[cpus |-> {c1, c2}, maxpid |-> 3, kills |-> {2}, forkFails |-> FALSE],
   [cpus |-> {c1}, maxpid |-> 3, kills |-> {0, 2}, forkFails |-> TRUE],
   [cpus |-> {c1, c2}, maxpid |-> 2, kills |-> {2}, forkFails |-> TRUE],
   [cpus |-> {c1}, maxpid |-> 3, kills |-> {2}, forkFails |-> TRUE]}

\* The first two of them are too large for liveness.
Small == world.kills = {2} /\ world.forkFails

\* A process that kill or trap has marked exits, wherever it computes, waits or sleeps
\* (KilledExits), on the machines that are small enough.
SmallKilledExits == Small => KilledExits

\* A zombie left to init is reaped (OrphansReaped), on the same machines.
SmallOrphansReaped == Small => OrphansReaped
=============================================================================
