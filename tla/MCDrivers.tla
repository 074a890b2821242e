----------------------------- MODULE MCDrivers -----------------------------
(***************************************************************************)
(* The parts that interrupts drive, side by side: Bcache, Console and      *)
(* Spinlock share no state, and a behaviour moves one of them.             *)
(***************************************************************************)
EXTENDS Bcache, Console, Spinlock

CONSTANTS lockA, lockB

VARIABLE part

\* The code of Spinlock's CPUs: one lock inside another, and one handed over to
\* another as in sleep (lockA before lockB); handlers that take either.
acquire(l) == [op |-> "acquire", lock |-> l]
release(l) == [op |-> "release", lock |-> l]

SmallCodes ==
  {<<acquire(lockA), acquire(lockB), release(lockB), release(lockA)>>,
   <<acquire(lockA), acquire(lockB), release(lockA), release(lockB)>>}

SmallHandlers == {<<acquire(l), release(l)>> : l \in {lockA, lockB}}

allvars == <<part, vars, convars, spinvars>>

DriversInit ==
  /\ part \in {"bcache", "console", "spinlock"}
  /\ Init /\ (part # "bcache" => disk = [s \in Sector |-> 0])
  /\ ConInit /\ (part # "console" => r = 0)
  /\ SpinInit

DriversNext ==
  /\ UNCHANGED part
  /\ \/ part = "bcache" /\ Next /\ UNCHANGED <<convars, spinvars>>
     \/ part = "console" /\ ConNext /\ UNCHANGED <<vars, spinvars>>
     \/ part = "spinlock" /\ SpinNext /\ UNCHANGED <<vars, convars>>

\* The fairness of Bcache's FairSpec.
DriversSpec ==
  /\ DriversInit /\ [][DriversNext]_allvars
  /\ WF_vars(Ideintr) /\ \A p \in Proc : WF_vars(Run(p))

\* Every request to the disk ends (RequestsEnd), where the disk moves at all.
DiskRequestsEnd == part = "bcache" => RequestsEnd
=============================================================================
