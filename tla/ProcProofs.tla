----------------------------- MODULE ProcProofs -----------------------------
(***************************************************************************)
(* What Proc's invariants are worth for any number of slots, CPUs and      *)
(* processes: no kernel stack is run by two CPUs or freed in use, every    *)
(* process has a living parent, no wakeup is missed, and kill hits whom it *)
(* names, or the next process in a slot that is free.                      *)
(*                                                                         *)
(* The inductive invariant is Inv.  Placed is about the switch between     *)
(* processes and carries the others.                                       *)
(***************************************************************************)
EXTENDS Proc, TLAPS

States == {"UNUSED", "EMBRYO", "SLEEPING", "RUNNABLE", "RUNNING", "ZOMBIE"}

\* Labels of a process that computes, and of one that holds ptable.lock.
Computes == {"user", "fork", "wait", "sleep", "asleep", "release"}
Locks == {"wait", "release", "sched", "swtch"}
Labels == Computes \cup Locks \cup {"off", "none"}

\* The types of the variables.
TypeOK ==
  /\ world \in Worlds
  /\ state \in [Slot -> States]
  /\ pid \in [Slot -> Nat]
  /\ parent \in [Slot -> Slot \cup {0}]
  /\ killed \in [Slot -> BOOLEAN]
  /\ chan \in [Slot -> Int]
  /\ nextpid \in Nat \ {0}
  /\ cpu \in [world.cpus -> Slot \cup {0}]
  /\ ptlock \in world.cpus \cup {"none"}
  /\ tickslock \in Slot \cup {0, INTR}
  /\ pc \in [Slot -> Labels]
  /\ ret \in [Slot -> {"user", "fork", "wait", "sleep"}]
  /\ kid \in [Slot -> Slot \cup {0}]
  /\ left \in [Slot -> Nat]

\* Which process is where: a process is on a CPU exactly while it is in the
\* kernel or in user space, it is RUNNING until it is about to switch, and it
\* has ptable.lock across the switch.
Placed ==
  /\ \A c, d \in world.cpus : cpu[c] = cpu[d] /\ cpu[c] # 0 => c = d
  /\ \A s \in Slot : pc[s] \in {"off", "none"} <=> \A c \in world.cpus : cpu[c] # s
  /\ \A s \in Slot : pc[s] = "none" <=> state[s] \in {"UNUSED", "EMBRYO"}
  /\ \A s \in Slot : pc[s] \in Computes <=> state[s] = "RUNNING"
  /\ \A c \in world.cpus : cpu[c] # 0 /\ pc[cpu[c]] \in Locks => ptlock = c
  /\ \A s \in Slot : pc[s] = "release" => ret[s] # "wait"

\* A fork that has not ended has an EMBRYO of its own.
Forking ==
  /\ \A s \in Slot : kid[s] # 0 => state[kid[s]] = "EMBRYO"
  /\ \A s, t \in Slot : kid[s] = kid[t] /\ kid[s] # 0 => s = t
  /\ \A s \in Slot : pc[s] = "fork" => kid[s] # 0
  /\ \A s \in Slot : ret[s] = "fork" =>
       /\ kid[s] # 0
       /\ pc[s] \in {"sched", "swtch", "off", "release"}
       /\ state[s] # "ZOMBIE"

\* init lives, and so does the parent of every process; a slot that is not in use
\* has no parent.
Family ==
  /\ state[InitProc] \in Live
  /\ parent[InitProc] = 0
  /\ \A s \in Slot : parent[s] # s
  /\ \A s \in Slot : state[s] \in {"UNUSED", "EMBRYO"} => parent[s] = 0
  /\ NoOrphans

\* A process that is about to sleep on ticks has tickslock, and has still to wait.
Awake ==
  /\ \A s \in Slot : pc[s] = "asleep" => tickslock = s /\ left[s] > 0
  /\ NoMissedWakeup

\* Who is marked was named, or its slot was marked while it was free, as those
\* that still are.
Asked ==
  \A s \in Slot : killed[s] => s \in stray \/ (state[s] # "UNUSED" /\ pid[s] \in asked)

\* The inductive invariant.
Inv == TypeOK /\ Placed /\ Forking /\ Family /\ Awake /\ Asked

\* What wakeup1 does to a table of states: sleepers on the channel become RUNNABLE.
LEMMA WakeupRouses ==
  ASSUME NEW st \in [Slot -> States], NEW ch
  PROVE  /\ Wakeup1(st, ch) \in [Slot -> States]
         /\ \A k \in Slot :
              \/ Wakeup1(st, ch)[k] = st[k] /\ ~(st[k] = "SLEEPING" /\ chan[k] = ch)
              \/ st[k] = "SLEEPING" /\ chan[k] = ch /\ Wakeup1(st, ch)[k] = "RUNNABLE"
BY SMTT(30) DEF Wakeup1, States

\* What exit does to it.
LEMMA ExitStates ==
  ASSUME TypeOK, NEW c \in world.cpus, NEW s \in Slot, Exit(c, s)
  PROVE  /\ state' \in [Slot -> States]
         /\ state'[s] = "ZOMBIE"
         /\ \A k \in Slot \ {s} :
              \/ state'[k] = state[k]
              \/ state[k] = "SLEEPING" /\ state'[k] = "RUNNABLE"
         /\ \A k \in Slot \ {s} : state'[k] = "SLEEPING" =>
              /\ chan[k] # parent[s]
              /\ chan[k] = InitProc => \A z \in Children(s) : state[z] # "ZOMBIE"
<1> DEFINE st == Wakeup1(state, parent[s])
<1> DEFINE stt == InitWoken(s, st)
<1>1. /\ st \in [Slot -> States]
      /\ \A k \in Slot : \/ st[k] = state[k] /\ ~(state[k] = "SLEEPING" /\ chan[k] = parent[s])
                         \/ state[k] = "SLEEPING" /\ st[k] = "RUNNABLE"
  BY WakeupRouses DEF TypeOK
<1>2. /\ stt \in [Slot -> States]
      /\ \A k \in Slot : stt[k] = st[k] \/ (st[k] = "SLEEPING" /\ stt[k] = "RUNNABLE")
      /\ (\E z \in Children(s) : st[z] = "ZOMBIE") =>
           \A k \in Slot : stt[k] = "SLEEPING" => chan[k] # InitProc
  <2> HIDE DEF st
  <2> DEFINE w == Wakeup1(st, InitProc)
  <2>1. /\ w \in [Slot -> States]
        /\ \A k \in Slot : \/ w[k] = st[k] /\ ~(st[k] = "SLEEPING" /\ chan[k] = InitProc)
                           \/ st[k] = "SLEEPING" /\ w[k] = "RUNNABLE"
    BY <1>1, WakeupRouses
  <2>2. stt = IF \E z \in Children(s) : st[z] = "ZOMBIE" THEN w ELSE st
    BY DEF InitWoken
  <2> HIDE DEF w, stt
  <2>3. CASE \E z \in Children(s) : st[z] = "ZOMBIE"
    BY <1>1, <2>1, <2>2, <2>3
  <2>4. CASE ~ \E z \in Children(s) : st[z] = "ZOMBIE"
    BY <1>1, <2>2, <2>4
  <2> QED
    BY <2>3, <2>4
<1>3. \A z \in Children(s) : state[z] = "ZOMBIE" => st[z] = "ZOMBIE"
  BY <1>1 DEF Children
<1>4. state' = [stt EXCEPT ![s] = "ZOMBIE"]
  BY DEF Exit
<1> HIDE DEF st, stt
<1> QED
  BY <1>1, <1>2, <1>3, <1>4 DEF States
-----------------------------------------------------------------------------
\* Every step keeps the types.
LEMMA TypeStep ==
  ASSUME TypeOK, [Next]_vars
  PROVE  TypeOK'
<1> world' = world /\ world' \in Worlds
  BY DEF Next, vars, TypeOK
<1> USE ProcAssumption DEF TypeOK, States, Labels, Computes, Locks
<1>1. ASSUME NEW c \in world.cpus, NEW s \in Slot, ForkAlloc(c, s)
      PROVE  TypeOK'
  BY <1>1 DEF ForkAlloc, At, Goto, Free, slots, sched
<1>2. ASSUME NEW c \in world.cpus, NEW s \in Slot, ForkFail(c, s)
      PROVE  TypeOK'
  BY <1>2, ZenonT(30) DEF ForkFail, At, Goto, Free, slots, sched
<1>3. ASSUME NEW c \in world.cpus, NEW s \in Slot, ForkDone(c, s)
      PROVE  TypeOK'
  BY <1>3, ZenonT(30) DEF ForkDone, At, Goto, Free, slots, sched
<1>4. ASSUME NEW c \in world.cpus, NEW s \in Slot, Exit(c, s)
      PROVE  TypeOK'
  <2>1. state' \in [Slot -> States]
    BY <1>4, ExitStates
  <2>2. parent' \in [Slot -> Slot \cup {0}]
    BY <1>4 DEF Exit, Reparent, InitProc, Slot
  <2> QED
    BY <1>4, <2>1, <2>2, ZenonT(30) DEF Exit, Goto
<1>5. ASSUME NEW c \in world.cpus, NEW s \in Slot, Wait(c, s)
      PROVE  TypeOK'
  BY <1>5 DEF Wait, At, Goto, Free, slots, sched
<1>6. ASSUME NEW c \in world.cpus, NEW s \in Slot, WaitReap(c, s)
      PROVE  TypeOK'
  BY <1>6 DEF WaitReap, At, Goto, Free, slots, sched, ClearKilled, First
<1>7. ASSUME NEW c \in world.cpus, NEW s \in Slot, WaitNone(c, s)
      PROVE  TypeOK'
  BY <1>7 DEF WaitNone, At, Goto, Free, slots, sched
<1>8. ASSUME NEW c \in world.cpus, NEW s \in Slot, WaitSleep(c, s)
      PROVE  TypeOK'
  BY <1>8, SMTT(30) DEF WaitSleep, At, Goto, Free, slots, sched, Slot
<1>9. ASSUME NEW c \in world.cpus, NEW s \in Slot, SysSleep(c, s)
      PROVE  TypeOK'
  BY <1>9, SMTT(30) DEF SysSleep, At, Goto, Free, slots, sched
<1>10. ASSUME NEW c \in world.cpus, NEW s \in Slot, SleepReturn(c, s)
      PROVE  TypeOK'
  BY <1>10, SMTT(30) DEF SleepReturn, At, Goto, Free, slots, sched
<1>11. ASSUME NEW c \in world.cpus, NEW s \in Slot, SleepCall(c, s)
      PROVE  TypeOK'
  BY <1>11 DEF SleepCall, At, Goto, Free, slots, sched, KeepLock
<1>12. ASSUME NEW c \in world.cpus, NEW s \in Slot, Sleep(c, s)
      PROVE  TypeOK'
  BY <1>12 DEF Sleep, At, Goto, Free, slots, sched, TICKS
<1>13. ASSUME Tick
      PROVE  TypeOK'
  BY <1>13 DEF Tick, At, Goto, Free, slots, sched
<1>14. ASSUME TickWakeup
      PROVE  TypeOK'
  BY <1>14 DEF TickWakeup, At, Goto, Free, slots, sched, Wakeup1
<1>15. ASSUME NEW c \in world.cpus, NEW s \in Slot, NEW n \in world.kills, Kill(c, s, n)
      PROVE  TypeOK'
  <2>1. killed' \in [Slot -> BOOLEAN] /\ state' \in [Slot -> States]
    <3>1. CASE UNCHANGED <<killed, state>>
      BY <3>1, SMTT(30)
    <3>2. ASSUME NEW p \in Slot, killed' = [killed EXCEPT ![p] = TRUE], state' = KillWakes(p)
          PROVE  killed' \in [Slot -> BOOLEAN] /\ state' \in [Slot -> States]
      BY <3>2, SMTT(30) DEF KillWakes
    <3> QED
      BY <1>15, <3>1, <3>2, ZenonT(30) DEF Kill
  <2> QED
    BY <1>15, <2>1 DEF Kill, sched
<1>16. ASSUME NEW c \in world.cpus, NEW s \in Slot, Yield(c, s)
      PROVE  TypeOK'
  BY <1>16 DEF Yield, At, Goto, Free, slots, sched
<1>17. ASSUME NEW c \in world.cpus, NEW s \in Slot, Sched(c, s)
      PROVE  TypeOK'
  BY <1>17 DEF Sched, At, Goto, Free, slots, sched, LockAfterSched
<1>18. ASSUME NEW c \in world.cpus, NEW s \in Slot, Swtch(c, s)
      PROVE  TypeOK'
  BY <1>18 DEF Swtch, At, Goto, Free, slots, sched
<1>19. ASSUME NEW c \in world.cpus, SchedBegin(c)
      PROVE  TypeOK'
  BY <1>19 DEF SchedBegin, At, Goto, Free, slots, sched
<1>20. ASSUME NEW c \in world.cpus, SchedRun(c)
      PROVE  TypeOK'
  BY <1>20 DEF SchedRun, At, Goto, Free, slots, sched, NONE, First
<1>21. ASSUME NEW c \in world.cpus, SchedEnd(c)
      PROVE  TypeOK'
  BY <1>21 DEF SchedEnd, At, Goto, Free, slots, sched
<1>22. ASSUME NEW c \in world.cpus, NEW s \in Slot, Release(c, s)
      PROVE  TypeOK'
  BY <1>22 DEF Release, At, Goto, Free, slots, sched
<1>23. ASSUME NEW c \in world.cpus, NEW s \in Slot, Misbehave(c, s)
      PROVE  TypeOK'
  BY <1>23, SMTT(30) DEF Misbehave, At, sched
<1>24. CASE UNCHANGED vars
  BY <1>24 DEF vars, slots, sched, At, Goto, Free, slots, sched
<1> QED
  BY <1>1, <1>2, <1>3, <1>4, <1>5, <1>6, <1>7, <1>8, <1>9, <1>10, <1>11, <1>12, <1>13,
     <1>14, <1>15, <1>16, <1>17, <1>18, <1>19, <1>20, <1>21, <1>22, <1>23, <1>24,
     ZenonT(30)
  DEF Next, Work, Switch, User, Scheduler
-----------------------------------------------------------------------------
\* Every step keeps Placed: only sched and wait change the state of a process that is on
\* a CPU, and ptable.lock keeps the scheduler and wait of other CPUs away from it.
LEMMA PlacedStep ==
  ASSUME TypeOK, Placed, Forking, TypeOK', [Next]_vars
  PROVE  Placed'
<1> world' = world /\ world \in Worlds /\ "none" \notin world.cpus
  BY ProcAssumption DEF Next, vars, TypeOK
<1> 0 \notin Slot
  BY SMTT(30) DEF Slot
<1> USE DEF TypeOK, Placed, States, Labels, Computes, Locks
<1>1. ASSUME NEW c \in world.cpus, NEW s \in Slot, ForkAlloc(c, s)
      PROVE  Placed'
  BY <1>1, SMTT(30) DEF ForkAlloc, At, Goto, Free, slots, sched, First
<1>2. ASSUME NEW c \in world.cpus, NEW s \in Slot, ForkFail(c, s)
      PROVE  Placed'
  BY <1>2, SMTT(30) DEF ForkFail, At, Goto, Free, slots, sched, Forking
<1>3. ASSUME NEW c \in world.cpus, NEW s \in Slot, ForkDone(c, s)
      PROVE  Placed'
  BY <1>3, SMTT(30) DEF ForkDone, At, Goto, Free, slots, sched, Forking
<1>4. ASSUME NEW c \in world.cpus, NEW s \in Slot, Exit(c, s)
      PROVE  Placed'
  <2>1. /\ state'[s] = "ZOMBIE"
        /\ \A k \in Slot \ {s} : \/ state'[k] = state[k]
                                 \/ state[k] = "SLEEPING" /\ state'[k] = "RUNNABLE"
    BY <1>4, ExitStates, SMTT(30)
  <2> QED
    BY <1>4, <2>1, SMTT(30) DEF Exit, At, Goto, Free
<1>5. ASSUME NEW c \in world.cpus, NEW s \in Slot, Wait(c, s)
      PROVE  Placed'
  BY <1>5, SMTT(30) DEF Wait, At, Goto, Free, slots, sched
<1>6. ASSUME NEW c \in world.cpus, NEW s \in Slot, WaitReap(c, s)
      PROVE  Placed'
  BY <1>6, SMTT(30) DEF WaitReap, At, Goto, Free, slots, sched, ClearKilled, First, Children
<1>7. ASSUME NEW c \in world.cpus, NEW s \in Slot, WaitNone(c, s)
      PROVE  Placed'
  BY <1>7, SMTT(30) DEF WaitNone, At, Goto, Free, slots, sched
<1>8. ASSUME NEW c \in world.cpus, NEW s \in Slot, WaitSleep(c, s)
      PROVE  Placed'
  BY <1>8, SMTT(30) DEF WaitSleep, At, Goto, Free, slots, sched, Slot
<1>9. ASSUME NEW c \in world.cpus, NEW s \in Slot, SysSleep(c, s)
      PROVE  Placed'
  BY <1>9, SMTT(30) DEF SysSleep, At, Goto, Free, slots, sched
<1>10. ASSUME NEW c \in world.cpus, NEW s \in Slot, SleepReturn(c, s)
      PROVE  Placed'
  BY <1>10, SMTT(30) DEF SleepReturn, At, Goto, Free, slots, sched
<1>11. ASSUME NEW c \in world.cpus, NEW s \in Slot, SleepCall(c, s)
      PROVE  Placed'
  BY <1>11, SMTT(30) DEF SleepCall, At, Goto, Free, slots, sched, KeepLock
<1>12. ASSUME NEW c \in world.cpus, NEW s \in Slot, Sleep(c, s)
      PROVE  Placed'
  BY <1>12, SMTT(30) DEF Sleep, At, Goto, Free, slots, sched, TICKS
<1>13. ASSUME Tick
      PROVE  Placed'
  BY <1>13, SMTT(30) DEF Tick, At, Goto, Free, slots, sched
<1>14. ASSUME TickWakeup
      PROVE  Placed'
  BY <1>14, SMTT(30) DEF TickWakeup, At, Goto, Free, slots, sched, Wakeup1
<1>15. ASSUME NEW c \in world.cpus, NEW s \in Slot, NEW n \in world.kills, Kill(c, s, n)
      PROVE  Placed'
  <2>1. \A k \in Slot : \/ state'[k] = state[k]
                        \/ state[k] = "SLEEPING" /\ state'[k] = "RUNNABLE"
    <3>1. state' = state \/ \E p \in Slot : state' = KillWakes(p)
      BY <1>15, ZenonT(30) DEF Kill
    <3> QED
      BY <3>1 DEF KillWakes
  <2> QED
    BY <1>15, <2>1, SMTT(30) DEF Kill, sched
<1>16. ASSUME NEW c \in world.cpus, NEW s \in Slot, Yield(c, s)
      PROVE  Placed'
  BY <1>16, SMTT(30) DEF Yield, At, Goto, Free, slots, sched
<1>17. ASSUME NEW c \in world.cpus, NEW s \in Slot, Sched(c, s)
      PROVE  Placed'
  BY <1>17, SMTT(30) DEF Sched, At, Goto, Free, slots, sched, LockAfterSched
<1>18. ASSUME NEW c \in world.cpus, NEW s \in Slot, Swtch(c, s)
      PROVE  Placed'
  BY <1>18, SMTT(30) DEF Swtch, At, Goto, Free, slots, sched
<1>19. ASSUME NEW c \in world.cpus, SchedBegin(c)
      PROVE  Placed'
  BY <1>19, SMTT(30) DEF SchedBegin, At, Goto, Free, slots, sched
<1>20. ASSUME NEW c \in world.cpus, SchedRun(c)
      PROVE  Placed'
  BY <1>20, SMTT(30) DEF SchedRun, At, Goto, Free, slots, sched, NONE, First
<1>21. ASSUME NEW c \in world.cpus, SchedEnd(c)
      PROVE  Placed'
  BY <1>21, SMTT(30) DEF SchedEnd, At, Goto, Free, slots, sched
<1>22. ASSUME NEW c \in world.cpus, NEW s \in Slot, Release(c, s)
      PROVE  Placed'
  BY <1>22, SMTT(30) DEF Release, At, Goto, Free, slots, sched
<1>23. ASSUME NEW c \in world.cpus, NEW s \in Slot, Misbehave(c, s)
      PROVE  Placed'
  BY <1>23, SMTT(30) DEF Misbehave, At, sched
<1>24. CASE UNCHANGED vars
  BY <1>24 DEF vars, slots, sched, At, Goto, Free, slots, sched
<1> QED
  BY <1>1, <1>2, <1>3, <1>4, <1>5, <1>6, <1>7, <1>8, <1>9, <1>10, <1>11, <1>12, <1>13,
     <1>14, <1>15, <1>16, <1>17, <1>18, <1>19, <1>20, <1>21, <1>22, <1>23, <1>24,
     ZenonT(30)
  DEF Next, Work, Switch, User, Scheduler
-----------------------------------------------------------------------------
\* Every step keeps Forking: allocproc gives each fork an UNUSED slot of its own.
LEMMA ForkingStep ==
  ASSUME TypeOK, Placed, Forking, TypeOK', [Next]_vars
  PROVE  Forking'
<1> world' = world /\ 0 \notin Slot
  BY SMTT(30) DEF Next, vars, Slot
<1> USE DEF TypeOK, Forking, Placed, States, Labels, Computes, Locks
<1>1. ASSUME NEW c \in world.cpus, NEW s \in Slot, ForkAlloc(c, s)
      PROVE  Forking'
  BY <1>1, SMTT(30) DEF ForkAlloc, At, Goto, Free, slots, sched, First
<1>2. ASSUME NEW c \in world.cpus, NEW s \in Slot, ForkFail(c, s)
      PROVE  Forking'
  BY <1>2, SMTT(30) DEF ForkFail, At, Goto, Free, slots, sched
<1>3. ASSUME NEW c \in world.cpus, NEW s \in Slot, ForkDone(c, s)
      PROVE  Forking'
  BY <1>3, SMTT(30) DEF ForkDone, At, Goto, Free, slots, sched
<1>4. ASSUME NEW c \in world.cpus, NEW s \in Slot, Exit(c, s)
      PROVE  Forking'
  <2>1. /\ state'[s] = "ZOMBIE"
        /\ \A k \in Slot \ {s} : \/ state'[k] = state[k]
                                 \/ state[k] = "SLEEPING" /\ state'[k] = "RUNNABLE"
    BY <1>4, ExitStates, SMTT(30)
  <2> QED
    BY <1>4, <2>1, SMTT(30) DEF Exit, At, Goto
<1>5. ASSUME NEW c \in world.cpus, NEW s \in Slot, Wait(c, s)
      PROVE  Forking'
  BY <1>5, SMTT(30) DEF Wait, At, Goto, Free, slots, sched
<1>6. ASSUME NEW c \in world.cpus, NEW s \in Slot, WaitReap(c, s)
      PROVE  Forking'
  BY <1>6, SMTT(30) DEF WaitReap, At, Goto, Free, slots, sched, ClearKilled, First, Children
<1>7. ASSUME NEW c \in world.cpus, NEW s \in Slot, WaitNone(c, s)
      PROVE  Forking'
  BY <1>7, SMTT(30) DEF WaitNone, At, Goto, Free, slots, sched
<1>8. ASSUME NEW c \in world.cpus, NEW s \in Slot, WaitSleep(c, s)
      PROVE  Forking'
  BY <1>8, SMTT(30) DEF WaitSleep, At, Goto, Free, slots, sched, Slot
<1>9. ASSUME NEW c \in world.cpus, NEW s \in Slot, SysSleep(c, s)
      PROVE  Forking'
  BY <1>9, SMTT(30) DEF SysSleep, At, Goto, Free, slots, sched
<1>10. ASSUME NEW c \in world.cpus, NEW s \in Slot, SleepReturn(c, s)
      PROVE  Forking'
  BY <1>10, SMTT(30) DEF SleepReturn, At, Goto, Free, slots, sched
<1>11. ASSUME NEW c \in world.cpus, NEW s \in Slot, SleepCall(c, s)
      PROVE  Forking'
  BY <1>11, SMTT(30) DEF SleepCall, At, Goto, Free, slots, sched, KeepLock
<1>12. ASSUME NEW c \in world.cpus, NEW s \in Slot, Sleep(c, s)
      PROVE  Forking'
  BY <1>12, SMTT(30) DEF Sleep, At, Goto, Free, slots, sched, TICKS
<1>13. ASSUME Tick
      PROVE  Forking'
  BY <1>13, SMTT(30) DEF Tick, At, Goto, Free, slots, sched
<1>14. ASSUME TickWakeup
      PROVE  Forking'
  BY <1>14, SMTT(30) DEF TickWakeup, At, Goto, Free, slots, sched, Wakeup1
<1>15. ASSUME NEW c \in world.cpus, NEW s \in Slot, NEW n \in world.kills, Kill(c, s, n)
      PROVE  Forking'
  <2>1. \A k \in Slot : \/ state'[k] = state[k]
                        \/ state[k] = "SLEEPING" /\ state'[k] = "RUNNABLE"
    <3>1. state' = state \/ \E p \in Slot : state' = KillWakes(p)
      BY <1>15, ZenonT(30) DEF Kill
    <3> QED
      BY <3>1 DEF KillWakes
  <2> QED
    BY <1>15, <2>1, SMTT(30) DEF Kill, sched
<1>16. ASSUME NEW c \in world.cpus, NEW s \in Slot, Yield(c, s)
      PROVE  Forking'
  BY <1>16, SMTT(30) DEF Yield, At, Goto, Free, slots, sched
<1>17. ASSUME NEW c \in world.cpus, NEW s \in Slot, Sched(c, s)
      PROVE  Forking'
  BY <1>17, SMTT(30) DEF Sched, At, Goto, Free, slots, sched, LockAfterSched
<1>18. ASSUME NEW c \in world.cpus, NEW s \in Slot, Swtch(c, s)
      PROVE  Forking'
  BY <1>18, SMTT(30) DEF Swtch, At, Goto, Free, slots, sched
<1>19. ASSUME NEW c \in world.cpus, SchedBegin(c)
      PROVE  Forking'
  BY <1>19, SMTT(30) DEF SchedBegin, At, Goto, Free, slots, sched
<1>20. ASSUME NEW c \in world.cpus, SchedRun(c)
      PROVE  Forking'
  BY <1>20, SMTT(30) DEF SchedRun, At, Goto, Free, slots, sched, NONE, First
<1>21. ASSUME NEW c \in world.cpus, SchedEnd(c)
      PROVE  Forking'
  BY <1>21, SMTT(30) DEF SchedEnd, At, Goto, Free, slots, sched
<1>22. ASSUME NEW c \in world.cpus, NEW s \in Slot, Release(c, s)
      PROVE  Forking'
  BY <1>22, SMTT(30) DEF Release, At, Goto, Free, slots, sched
<1>23. ASSUME NEW c \in world.cpus, NEW s \in Slot, Misbehave(c, s)
      PROVE  Forking'
  BY <1>23, SMTT(30) DEF Misbehave, At, sched
<1>24. CASE UNCHANGED vars
  BY <1>24 DEF vars, slots, sched, At, Goto, Free, slots, sched
<1> QED
  BY <1>1, <1>2, <1>3, <1>4, <1>5, <1>6, <1>7, <1>8, <1>9, <1>10, <1>11, <1>12, <1>13,
     <1>14, <1>15, <1>16, <1>17, <1>18, <1>19, <1>20, <1>21, <1>22, <1>23, <1>24,
     ZenonT(30)
  DEF Next, Work, Switch, User, Scheduler
-----------------------------------------------------------------------------
\* Every step keeps Family: exit passes children to init, which does not exit.
LEMMA FamilyStep ==
  ASSUME TypeOK, Placed, Forking, Family, TypeOK', [Next]_vars
  PROVE  Family'
<1> world' = world /\ 0 \notin Slot /\ InitProc \in Slot
  BY ProcAssumption, SMTT(30) DEF Next, vars, Slot, InitProc
<1> USE DEF TypeOK, Placed, Forking, Family, NoOrphans, Live, States, Labels, Computes,
   Locks
<1>1. ASSUME NEW c \in world.cpus, NEW s \in Slot, ForkAlloc(c, s)
      PROVE  Family'
  BY <1>1, SMTT(30) DEF ForkAlloc, At, Goto, Free, slots, sched, First
<1>2. ASSUME NEW c \in world.cpus, NEW s \in Slot, ForkFail(c, s)
      PROVE  Family'
  BY <1>2, SMTT(30) DEF ForkFail, At, Goto, Free, slots, sched
<1>3. ASSUME NEW c \in world.cpus, NEW s \in Slot, ForkDone(c, s)
      PROVE  Family'
  BY <1>3, SMTT(30) DEF ForkDone, At, Goto, Free, slots, sched
<1>4. ASSUME NEW c \in world.cpus, NEW s \in Slot, Exit(c, s)
      PROVE  Family'
  <2>1. /\ state'[s] = "ZOMBIE"
        /\ \A k \in Slot \ {s} : \/ state'[k] = state[k]
                                 \/ state[k] = "SLEEPING" /\ state'[k] = "RUNNABLE"
    BY <1>4, ExitStates, SMTT(30)
  <2> QED
    BY <1>4, <2>1, SMTT(30) DEF Exit, At, Goto, Reparent
<1>5. ASSUME NEW c \in world.cpus, NEW s \in Slot, Wait(c, s)
      PROVE  Family'
  BY <1>5, SMTT(30) DEF Wait, At, Goto, Free, slots, sched
<1>6. ASSUME NEW c \in world.cpus, NEW s \in Slot, WaitReap(c, s)
      PROVE  Family'
  BY <1>6, SMTT(30) DEF WaitReap, At, Goto, Free, slots, sched, ClearKilled, First, Children
<1>7. ASSUME NEW c \in world.cpus, NEW s \in Slot, WaitNone(c, s)
      PROVE  Family'
  BY <1>7, SMTT(30) DEF WaitNone, At, Goto, Free, slots, sched
<1>8. ASSUME NEW c \in world.cpus, NEW s \in Slot, WaitSleep(c, s)
      PROVE  Family'
  BY <1>8, SMTT(30) DEF WaitSleep, At, Goto, Free, slots, sched, Slot
<1>9. ASSUME NEW c \in world.cpus, NEW s \in Slot, SysSleep(c, s)
      PROVE  Family'
  BY <1>9, SMTT(30) DEF SysSleep, At, Goto, Free, slots, sched
<1>10. ASSUME NEW c \in world.cpus, NEW s \in Slot, SleepReturn(c, s)
      PROVE  Family'
  BY <1>10, SMTT(30) DEF SleepReturn, At, Goto, Free, slots, sched
<1>11. ASSUME NEW c \in world.cpus, NEW s \in Slot, SleepCall(c, s)
      PROVE  Family'
  BY <1>11, SMTT(30) DEF SleepCall, At, Goto, Free, slots, sched, KeepLock
<1>12. ASSUME NEW c \in world.cpus, NEW s \in Slot, Sleep(c, s)
      PROVE  Family'
  BY <1>12, SMTT(30) DEF Sleep, At, Goto, Free, slots, sched, TICKS
<1>13. ASSUME Tick
      PROVE  Family'
  BY <1>13, SMTT(30) DEF Tick, At, Goto, Free, slots, sched
<1>14. ASSUME TickWakeup
      PROVE  Family'
  BY <1>14, SMTT(30) DEF TickWakeup, At, Goto, Free, slots, sched, Wakeup1
<1>15. ASSUME NEW c \in world.cpus, NEW s \in Slot, NEW n \in world.kills, Kill(c, s, n)
      PROVE  Family'
  <2>1. \A k \in Slot : \/ state'[k] = state[k]
                        \/ state[k] = "SLEEPING" /\ state'[k] = "RUNNABLE"
    <3>1. state' = state \/ \E p \in Slot : state' = KillWakes(p)
      BY <1>15, ZenonT(30) DEF Kill
    <3> QED
      BY <3>1, SMTT(30) DEF KillWakes
  <2> QED
    BY <1>15, <2>1, SMTT(30) DEF Kill, sched
<1>16. ASSUME NEW c \in world.cpus, NEW s \in Slot, Yield(c, s)
      PROVE  Family'
  BY <1>16, SMTT(30) DEF Yield, At, Goto, Free, slots, sched
<1>17. ASSUME NEW c \in world.cpus, NEW s \in Slot, Sched(c, s)
      PROVE  Family'
  BY <1>17, SMTT(30) DEF Sched, At, Goto, Free, slots, sched, LockAfterSched
<1>18. ASSUME NEW c \in world.cpus, NEW s \in Slot, Swtch(c, s)
      PROVE  Family'
  BY <1>18, SMTT(30) DEF Swtch, At, Goto, Free, slots, sched
<1>19. ASSUME NEW c \in world.cpus, SchedBegin(c)
      PROVE  Family'
  BY <1>19, SMTT(30) DEF SchedBegin, At, Goto, Free, slots, sched
<1>20. ASSUME NEW c \in world.cpus, SchedRun(c)
      PROVE  Family'
  BY <1>20, SMTT(30) DEF SchedRun, At, Goto, Free, slots, sched, NONE, First
<1>21. ASSUME NEW c \in world.cpus, SchedEnd(c)
      PROVE  Family'
  BY <1>21, SMTT(30) DEF SchedEnd, At, Goto, Free, slots, sched
<1>22. ASSUME NEW c \in world.cpus, NEW s \in Slot, Release(c, s)
      PROVE  Family'
  BY <1>22, SMTT(30) DEF Release, At, Goto, Free, slots, sched
<1>23. ASSUME NEW c \in world.cpus, NEW s \in Slot, Misbehave(c, s)
      PROVE  Family'
  BY <1>23, SMTT(30) DEF Misbehave, At, sched
<1>24. CASE UNCHANGED vars
  BY <1>24 DEF vars, slots, sched, At, Goto, Free, slots, sched
<1> QED
  BY <1>1, <1>2, <1>3, <1>4, <1>5, <1>6, <1>7, <1>8, <1>9, <1>10, <1>11, <1>12, <1>13,
     <1>14, <1>15, <1>16, <1>17, <1>18, <1>19, <1>20, <1>21, <1>22, <1>23, <1>24,
     ZenonT(30)
  DEF Next, Work, Switch, User, Scheduler
-----------------------------------------------------------------------------
\* Every step keeps Awake: what would end a sleep comes with a wakeup under ptable.lock.
LEMMA AwakeStep ==
  ASSUME TypeOK, Placed, Forking, Family, Awake, TypeOK', [Next]_vars
  PROVE  Awake'
<1> /\ world' = world /\ 0 \notin Slot /\ InitProc \in Slot
    /\ INTR # 0 /\ \A s \in Slot : s # TICKS /\ s # INTR
  BY ProcAssumption, SMTT(30) DEF Next, vars, Slot, InitProc, TICKS, INTR
<1> USE DEF TypeOK, Placed, Awake, NoMissedWakeup, Children, States, Labels, Computes, Locks
<1>1. ASSUME NEW c \in world.cpus, NEW s \in Slot, ForkAlloc(c, s)
      PROVE  Awake'
  BY <1>1, SMTT(30) DEF ForkAlloc, At, Goto, Free, slots, sched, First
<1>2. ASSUME NEW c \in world.cpus, NEW s \in Slot, ForkFail(c, s)
      PROVE  Awake'
  BY <1>2, SMTT(30) DEF ForkFail, At, Goto, Free, slots, sched, Forking, Family, NoOrphans
<1>3. ASSUME NEW c \in world.cpus, NEW s \in Slot, ForkDone(c, s)
      PROVE  Awake'
  BY <1>3, SMTT(30) DEF ForkDone, At, Goto, Free, slots, sched, Forking, Family
<1>4. ASSUME NEW c \in world.cpus, NEW s \in Slot, Exit(c, s)
      PROVE  Awake'
  <2>1. /\ state'[s] = "ZOMBIE"
        /\ \A k \in Slot \ {s} : \/ state'[k] = state[k]
                                 \/ state[k] = "SLEEPING" /\ state'[k] = "RUNNABLE"
        /\ \A k \in Slot \ {s} : state'[k] = "SLEEPING" =>
             /\ chan[k] # parent[s]
             /\ chan[k] = InitProc => \A z \in Children(s) : state[z] # "ZOMBIE"
    BY <1>4, ExitStates, SMTT(30)
  <2> QED
    BY <1>4, <2>1, SMTT(30) DEF Exit, At, Goto, Reparent, Family
<1>5. ASSUME NEW c \in world.cpus, NEW s \in Slot, Wait(c, s)
      PROVE  Awake'
  BY <1>5, SMTT(30) DEF Wait, At, Goto, Free, slots, sched
<1>6. ASSUME NEW c \in world.cpus, NEW s \in Slot, WaitReap(c, s)
      PROVE  Awake'
  BY <1>6, SMTT(30) DEF WaitReap, At, Goto, Free, slots, sched, ClearKilled, First, Children
<1>7. ASSUME NEW c \in world.cpus, NEW s \in Slot, WaitNone(c, s)
      PROVE  Awake'
  BY <1>7, SMTT(30) DEF WaitNone, At, Goto, Free, slots, sched
<1>8. ASSUME NEW c \in world.cpus, NEW s \in Slot, WaitSleep(c, s)
      PROVE  Awake'
  BY <1>8, SMTT(30) DEF WaitSleep, At, Goto, Free, slots, sched, Slot
<1>9. ASSUME NEW c \in world.cpus, NEW s \in Slot, SysSleep(c, s)
      PROVE  Awake'
  BY <1>9, SMTT(30) DEF SysSleep, At, Goto, Free, slots, sched
<1>10. ASSUME NEW c \in world.cpus, NEW s \in Slot, SleepReturn(c, s)
      PROVE  Awake'
  BY <1>10, SMTT(30) DEF SleepReturn, At, Goto, Free, slots, sched
<1>11. ASSUME NEW c \in world.cpus, NEW s \in Slot, SleepCall(c, s)
      PROVE  Awake'
  BY <1>11, SMTT(30) DEF SleepCall, At, Goto, Free, slots, sched, KeepLock
<1>12. ASSUME NEW c \in world.cpus, NEW s \in Slot, Sleep(c, s)
      PROVE  Awake'
  BY <1>12, SMTT(30) DEF Sleep, At, Goto, Free, slots, sched, TICKS
<1>13. ASSUME Tick
      PROVE  Awake'
  BY <1>13, SMTT(30) DEF Tick, At, Goto, Free, slots, sched
<1>14. ASSUME TickWakeup
      PROVE  Awake'
  BY <1>14, SMTT(30) DEF TickWakeup, At, Goto, Free, slots, sched, Wakeup1
<1>15. ASSUME NEW c \in world.cpus, NEW s \in Slot, NEW n \in world.kills, Kill(c, s, n)
      PROVE  Awake'
  <2>1. \A k \in Slot : \/ state'[k] = state[k]
                        \/ state[k] = "SLEEPING" /\ state'[k] = "RUNNABLE"
    <3>1. state' = state \/ \E p \in Slot : state' = KillWakes(p)
      BY <1>15, ZenonT(30) DEF Kill
    <3> QED
      BY <3>1, SMTT(30) DEF KillWakes
  <2> QED
    BY <1>15, <2>1, SMTT(30) DEF Kill, sched
<1>16. ASSUME NEW c \in world.cpus, NEW s \in Slot, Yield(c, s)
      PROVE  Awake'
  BY <1>16, SMTT(30) DEF Yield, At, Goto, Free, slots, sched
<1>17. ASSUME NEW c \in world.cpus, NEW s \in Slot, Sched(c, s)
      PROVE  Awake'
  BY <1>17, SMTT(30) DEF Sched, At, Goto, Free, slots, sched, LockAfterSched
<1>18. ASSUME NEW c \in world.cpus, NEW s \in Slot, Swtch(c, s)
      PROVE  Awake'
  BY <1>18, SMTT(30) DEF Swtch, At, Goto, Free, slots, sched
<1>19. ASSUME NEW c \in world.cpus, SchedBegin(c)
      PROVE  Awake'
  BY <1>19, SMTT(30) DEF SchedBegin, At, Goto, Free, slots, sched
<1>20. ASSUME NEW c \in world.cpus, SchedRun(c)
      PROVE  Awake'
  BY <1>20, SMTT(30) DEF SchedRun, At, Goto, Free, slots, sched, NONE, First
<1>21. ASSUME NEW c \in world.cpus, SchedEnd(c)
      PROVE  Awake'
  BY <1>21, SMTT(30) DEF SchedEnd, At, Goto, Free, slots, sched
<1>22. ASSUME NEW c \in world.cpus, NEW s \in Slot, Release(c, s)
      PROVE  Awake'
  BY <1>22, SMTT(30) DEF Release, At, Goto, Free, slots, sched
<1>23. ASSUME NEW c \in world.cpus, NEW s \in Slot, Misbehave(c, s)
      PROVE  Awake'
  BY <1>23, SMTT(30) DEF Misbehave, At, sched
<1>24. CASE UNCHANGED vars
  BY <1>24 DEF vars, slots, sched, At, Goto, Free, slots, sched
<1> QED
  BY <1>1, <1>2, <1>3, <1>4, <1>5, <1>6, <1>7, <1>8, <1>9, <1>10, <1>11, <1>12, <1>13,
     <1>14, <1>15, <1>16, <1>17, <1>18, <1>19, <1>20, <1>21, <1>22, <1>23, <1>24,
     ZenonT(30)
  DEF Next, Work, Switch, User, Scheduler
-----------------------------------------------------------------------------
\* Every step keeps Asked: wait clears the mark of a process, kill and a failing fork
\* leave one on a free slot.
LEMMA AskedStep ==
  ASSUME TypeOK, Placed, Forking, Asked, TypeOK', [Next]_vars
  PROVE  Asked'
<1> world' = world
  BY ZenonT(30) DEF Next, vars
<1> USE DEF TypeOK, Placed, Asked, States, Labels, Computes, Locks, hist
<1>1. ASSUME NEW c \in world.cpus, NEW s \in Slot, ForkAlloc(c, s)
      PROVE  Asked'
  BY <1>1, SMTT(30) DEF ForkAlloc, At, Goto, Free, slots, sched, First
<1>2. ASSUME NEW c \in world.cpus, NEW s \in Slot, ForkFail(c, s)
      PROVE  Asked'
  BY <1>2, SMTT(30) DEF ForkFail, At, Goto, Free, slots, sched
<1>3. ASSUME NEW c \in world.cpus, NEW s \in Slot, ForkDone(c, s)
      PROVE  Asked'
  BY <1>3, SMTT(30) DEF ForkDone, At, Goto, Free, slots, sched, Forking
<1>4. ASSUME NEW c \in world.cpus, NEW s \in Slot, Exit(c, s)
      PROVE  Asked'
  <2>1. /\ state'[s] = "ZOMBIE"
        /\ \A k \in Slot \ {s} : \/ state'[k] = state[k]
                                 \/ state[k] = "SLEEPING" /\ state'[k] = "RUNNABLE"
    BY <1>4, ExitStates, SMTT(30)
  <2>2. state[s] # "UNUSED" /\ UNCHANGED <<pid, killed, asked, stray>>
    BY <1>4, SMTT(30) DEF Exit, At
  <2> QED
    BY <2>1, <2>2, SMTT(30)
<1>5. ASSUME NEW c \in world.cpus, NEW s \in Slot, Wait(c, s)
      PROVE  Asked'
  BY <1>5, SMTT(30) DEF Wait, At, Goto, Free, slots, sched
<1>6. ASSUME NEW c \in world.cpus, NEW s \in Slot, WaitReap(c, s)
      PROVE  Asked'
  BY <1>6, SMTT(30) DEF WaitReap, At, Goto, Free, slots, sched, ClearKilled, First, Children
<1>7. ASSUME NEW c \in world.cpus, NEW s \in Slot, WaitNone(c, s)
      PROVE  Asked'
  BY <1>7, SMTT(30) DEF WaitNone, At, Goto, Free, slots, sched
<1>8. ASSUME NEW c \in world.cpus, NEW s \in Slot, WaitSleep(c, s)
      PROVE  Asked'
  BY <1>8, SMTT(30) DEF WaitSleep, At, Goto, Free, slots, sched, Slot
<1>9. ASSUME NEW c \in world.cpus, NEW s \in Slot, SysSleep(c, s)
      PROVE  Asked'
  BY <1>9, SMTT(30) DEF SysSleep, At, Goto, Free, slots, sched
<1>10. ASSUME NEW c \in world.cpus, NEW s \in Slot, SleepReturn(c, s)
      PROVE  Asked'
  BY <1>10, SMTT(30) DEF SleepReturn, At, Goto, Free, slots, sched
<1>11. ASSUME NEW c \in world.cpus, NEW s \in Slot, SleepCall(c, s)
      PROVE  Asked'
  BY <1>11, SMTT(30) DEF SleepCall, At, Goto, Free, slots, sched, KeepLock
<1>12. ASSUME NEW c \in world.cpus, NEW s \in Slot, Sleep(c, s)
      PROVE  Asked'
  BY <1>12, SMTT(30) DEF Sleep, At, Goto, Free, slots, sched, TICKS
<1>13. ASSUME Tick
      PROVE  Asked'
  BY <1>13, SMTT(30) DEF Tick, At, Goto, Free, slots, sched
<1>14. ASSUME TickWakeup
      PROVE  Asked'
  BY <1>14 DEF TickWakeup, At, Goto, Free, slots, sched, Wakeup1
<1>15. ASSUME NEW c \in world.cpus, NEW s \in Slot, NEW n \in world.kills, Kill(c, s, n)
      PROVE  Asked'
  <2>1. CASE UNCHANGED <<killed, state, stray>>
    BY <1>15, <2>1, SMTT(30) DEF Kill
  <2>2. ASSUME NEW p \in Slot, pid[p] = n,
               killed' = [killed EXCEPT ![p] = TRUE], state' = KillWakes(p),
               stray' = IF state[p] = "UNUSED" THEN stray \cup {p} ELSE stray
        PROVE  Asked'
    <3>1. \A k \in Slot : /\ killed'[k] <=> (k = p \/ killed[k])
                          /\ state'[k] = "UNUSED" <=> state[k] = "UNUSED"
      BY <2>2, SMTT(30) DEF KillWakes
    <3> QED
      BY <1>15, <2>2, <3>1, SMTT(30) DEF Kill
  <2> QED
    BY <1>15, <2>1, <2>2, ZenonT(30) DEF Kill, First
<1>16. ASSUME NEW c \in world.cpus, NEW s \in Slot, Yield(c, s)
      PROVE  Asked'
  BY <1>16, SMTT(30) DEF Yield, At, Goto, Free, slots, sched
<1>17. ASSUME NEW c \in world.cpus, NEW s \in Slot, Sched(c, s)
      PROVE  Asked'
  BY <1>17, SMTT(30) DEF Sched, At, Goto, Free, slots, sched, LockAfterSched
<1>18. ASSUME NEW c \in world.cpus, NEW s \in Slot, Swtch(c, s)
      PROVE  Asked'
  BY <1>18, SMTT(30) DEF Swtch, At, Goto, Free, slots, sched
<1>19. ASSUME NEW c \in world.cpus, SchedBegin(c)
      PROVE  Asked'
  BY <1>19, SMTT(30) DEF SchedBegin, At, Goto, Free, slots, sched
<1>20. ASSUME NEW c \in world.cpus, SchedRun(c)
      PROVE  Asked'
  BY <1>20, SMTT(30) DEF SchedRun, At, Goto, Free, slots, sched, NONE, First
<1>21. ASSUME NEW c \in world.cpus, SchedEnd(c)
      PROVE  Asked'
  BY <1>21, SMTT(30) DEF SchedEnd, At, Goto, Free, slots, sched
<1>22. ASSUME NEW c \in world.cpus, NEW s \in Slot, Release(c, s)
      PROVE  Asked'
  BY <1>22, SMTT(30) DEF Release, At, Goto, Free, slots, sched
<1>23. ASSUME NEW c \in world.cpus, NEW s \in Slot, Misbehave(c, s)
      PROVE  Asked'
  BY <1>23, SMTT(30) DEF Misbehave, At, sched
<1>24. CASE UNCHANGED vars
  BY <1>24 DEF vars, slots, sched, At, Goto, Free, slots, sched
<1> QED
  BY <1>1, <1>2, <1>3, <1>4, <1>5, <1>6, <1>7, <1>8, <1>9, <1>10, <1>11, <1>12, <1>13,
     <1>14, <1>15, <1>16, <1>17, <1>18, <1>19, <1>20, <1>21, <1>22, <1>23, <1>24,
     ZenonT(30)
  DEF Next, Work, Switch, User, Scheduler
-----------------------------------------------------------------------------
\* What userinit leaves satisfies the invariant.
LEMMA InitInv ==
  ASSUME Init PROVE Inv
<1>1. /\ InitProc \in Slot /\ 0 \notin Slot
      /\ \A c \in world.cpus : cpu[c] = 0
  BY ProcAssumption, SMTT(30) DEF Init, Slot, InitProc
<1>2. TypeOK
  BY <1>1, ProcAssumption, SMTT(30) DEF Init, TypeOK, States, Labels, Computes, Locks, NONE
<1>3. Placed /\ Forking
  BY <1>1, SMTT(30) DEF Init, Placed, Forking, Computes, Locks
<1>4. Family /\ Awake /\ Asked
  BY <1>1 DEF Init, Family, Awake, Asked, NoOrphans, NoMissedWakeup, Live
<1> QED
  BY <1>2, <1>3, <1>4, SMTT(30) DEF Inv

\* The invariant holds in every reachable state.
THEOREM Invariant == Spec => []Inv
<1>1. Inv /\ [Next]_vars => Inv'
  BY TypeStep, PlacedStep, ForkingStep, FamilyStep, AwakeStep, AskedStep DEF Inv
<1> QED
  BY InitInv, <1>1, PTL DEF Spec

\* No two CPUs ever run on one kernel stack, nor one on a stack that wait has freed,
\* whatever the number of CPUs and processes (sched, swtch and scheduler).
THEOREM StacksAreExclusive == Spec => []StacksExclusive
<1>1. Inv => StacksExclusive
  BY DEF Inv, TypeOK, Placed, StacksExclusive, Labels, Computes, Locks
<1> QED
  BY Invariant, <1>1, PTL

\* Every process has a living parent, through any forks and exits (fork and exit).
THEOREM NobodyOrphaned == Spec => []NoOrphans
<1>1. Inv => NoOrphans
  BY DEF Inv, Family
<1> QED
  BY Invariant, <1>1, PTL

\* No sleeper in wait or sys_sleep is left behind (sleep and wakeup).
THEOREM NoWakeupMissed == Spec => []NoMissedWakeup
<1>1. Inv => NoMissedWakeup
  BY DEF Inv, Awake
<1> QED
  BY Invariant, <1>1, PTL

\* Who is killed misbehaved or was named to kill, although pids and slots come and
\* go, but for a mark on a free slot, which dies with the next process in it (kill,
\* trap, fork and wait).
THEOREM OnlyAskedKilled == Spec => []KilledWasAsked
<1>1. Inv => KilledWasAsked
  BY DEF Inv, Asked, KilledWasAsked
<1> QED
  BY Invariant, <1>1, PTL
=============================================================================
