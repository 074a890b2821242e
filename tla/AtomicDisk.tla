----------------------------- MODULE AtomicDisk -----------------------------
(***************************************************************************)
(* What the log of log.c promises to the file system above it: a disk      *)
(* whose sectors are updated by transactions, one at a time, each of which *)
(* survives a crash as a whole or not at all.                              *)
(*                                                                         *)
(*   stable  the sectors as a reboot would find them                       *)
(*   view    the sectors as bread() returns them now; the writes of the    *)
(*           open transaction are in it (log.c: read-only system calls     *)
(*           "may observe uncommitted data")                               *)
(*   trans   "none": no transaction; "open": between begin_trans and the   *)
(*           commit; "committed": durable, commit_trans not yet returned;  *)
(*           "down": crashed, recovery not finished                        *)
(***************************************************************************)
CONSTANTS Sector, Data

VARIABLES stable, view, trans

vars == <<stable, view, trans>>

Init ==
  /\ stable \in [Sector -> Data]
  /\ view = stable
  /\ trans = "down"

Begin ==
  /\ trans = "none"
  /\ trans' = "open"
  /\ UNCHANGED <<stable, view>>

Write ==
  /\ trans = "open"
  /\ \E s \in Sector, d \in Data : view' = [view EXCEPT ![s] = d]
  /\ UNCHANGED <<stable, trans>>

Commit ==
  /\ trans = "open"
  /\ stable' = view
  /\ trans' = "committed"
  /\ UNCHANGED view

\* A transaction may only end once everything it wrote is durable.
End ==
  /\ \/ trans = "committed"
     \/ trans = "open" /\ view = stable
  /\ trans' = "none"
  /\ UNCHANGED <<stable, view>>

Crash ==
  /\ view' = stable
  /\ trans' = "down"
  /\ UNCHANGED stable

Reboot ==
  /\ trans = "down"
  /\ trans' = "none"
  /\ UNCHANGED <<stable, view>>

Next == Begin \/ Write \/ Commit \/ End \/ Crash \/ Reboot

Spec == Init /\ [][Next]_vars
=============================================================================
