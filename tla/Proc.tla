------------------------------- MODULE Proc --------------------------------
(***************************************************************************)
(* The process table of proc.c: fork, exit, wait, kill, sleep and wakeup,  *)
(* and the per-CPU scheduler, with trap's uses of killed and sys_sleep as  *)
(* the sleeper on a lock other than ptable.lock.                           *)
(*                                                                         *)
(* ptable.lock is held across swtch: the process that gives up the CPU     *)
(* acquires it, the scheduler and the next process go on with it.  A       *)
(* section under the lock is one step; the switch to the scheduler, the    *)
(* switch to a process and the release are steps of their own.             *)
(***************************************************************************)
EXTENDS Integers, FiniteSets

CONSTANTS
  NPROC,      \* slots of the process table
  MaxSleep,   \* bound: longest sleep, in ticks
  Worlds      \* machines and workloads, of which a behaviour has one:
              \*   cpus: the processors
              \*   maxpid: bound, no fork once nextpid is maxpid + 1
              \*   kills: the arguments of kill
              \*   forkFails: may kalloc or copyuvm fail in fork?

ASSUME ProcAssumption ==
  /\ NPROC \in Nat \ {0} /\ MaxSleep \in Nat
  /\ \A w \in Worlds :
       /\ w.maxpid \in Nat \ {0} /\ w.kills \subseteq Nat
       /\ w.forkFails \in BOOLEAN
       /\ "none" \notin w.cpus

Slot == 1..NPROC
InitProc == 1

\* Channels: a slot (wait sleeps on proc), the address of ticks, none.
TICKS == -1
NONE == 0

\* Holder of tickslock in the timer interrupt.
INTR == -1

VARIABLES
  world,
  state, pid, parent, killed, chan,  \* struct proc, per slot; parent 0: none
  nextpid,
  cpu,        \* per CPU: the slot whose kernel stack it runs on; 0: scheduler's
  scan,       \* per CPU: where scheduler's loop over the table goes on
  ptlock,     \* CPU that holds ptable.lock, or "none"
  tickslock,  \* slot that holds tickslock, or INTR, or 0
  pc,         \* per slot: what the process does next in the kernel
  ret,        \* per slot: where it goes on when it gets the CPU back
  kid,        \* per slot: the slot that fork has allocated
  left,       \* per slot: ticks that sys_sleep still waits for
  asked,      \* history: the pids of kill's calls and of processes that trapped
  stray       \* history: slots marked while they had no process, until wait
              \* frees them

slots == <<state, pid, parent, killed, chan, nextpid>>
sched == <<cpu, scan, ptlock>>
hist == <<asked, stray>>
vars == <<world, slots, sched, tickslock, pc, ret, kid, left, hist>>

\* userinit.
Init ==
  /\ world \in Worlds
  /\ state = [s \in Slot |-> IF s = InitProc THEN "RUNNABLE" ELSE "UNUSED"]
  /\ pid = [s \in Slot |-> IF s = InitProc THEN 1 ELSE 0]
  /\ parent = [s \in Slot |-> 0]
  /\ killed = [s \in Slot |-> FALSE]
  /\ chan = [s \in Slot |-> NONE]
  /\ nextpid = 2
  /\ cpu = [c \in world.cpus |-> 0]
  /\ scan = [c \in world.cpus |-> 1]
  /\ ptlock = "none"
  /\ tickslock = 0
  /\ pc = [s \in Slot |-> IF s = InitProc THEN "off" ELSE "none"]
  /\ ret = [s \in Slot |-> "user"]
  /\ kid = [s \in Slot |-> 0]
  /\ left = [s \in Slot |-> 0]
  /\ asked = {} /\ stray = {}
-----------------------------------------------------------------------------
\* CPU c executes the kernel code of slot s at label.
At(c, s, label) == cpu[c] = s /\ pc[s] = label

Goto(s, label) == pc' = [pc EXCEPT ![s] = label]

\* A section under ptable.lock that begins with acquire and ends with release.
Free == ptlock = "none"

\* Fault for SmallOrphansReaped: wakeup1 wakes nobody.
WakeupNobody(st, ch) == st

\* wakeup1(chan), as a new value of state.
Wakeup1(st, ch) ==
  [s \in Slot |-> IF st[s] = "SLEEPING" /\ chan[s] = ch THEN "RUNNABLE" ELSE st[s]]

Children(s) == {k \in Slot : parent[k] = s}

\* Loops over the table stop at the first slot that they look for.
First(n, S) == n \in S /\ \A k \in S : n <= k

\* fork: allocproc takes the first UNUSED slot, or fork returns -1.
ForkAlloc(c, s) ==
  /\ At(c, s, "user") /\ ~killed[s]
  /\ Free
  /\ nextpid <= world.maxpid
  /\ \E n \in Slot :
       /\ First(n, {m \in Slot : state[m] = "UNUSED"})
       /\ state' = [state EXCEPT ![n] = "EMBRYO"]
       /\ pid' = [pid EXCEPT ![n] = nextpid]
       /\ kid' = [kid EXCEPT ![s] = n]
  /\ nextpid' = nextpid + 1
  /\ Goto(s, "fork")
  /\ UNCHANGED <<parent, killed, chan, sched, tickslock, ret, left, hist>>

\* allocproc finds no kernel stack, or fork no memory: the slot is given back,
\* without ptable.lock, its pid and its killed left in it.
ForkFail(c, s) ==
  /\ world.forkFails
  /\ At(c, s, "fork")
  /\ state' = [state EXCEPT ![kid[s]] = "UNUSED"]
  /\ kid' = [kid EXCEPT ![s] = 0]
  /\ Goto(s, "user")
  /\ stray' = IF killed[kid[s]] THEN stray \cup {kid[s]} ELSE stray
  /\ UNCHANGED <<pid, parent, killed, chan, nextpid, sched, tickslock, ret, left, asked>>

\* The rest of fork, also without the lock; the child will start in forkret.
ForkDone(c, s) ==
  /\ At(c, s, "fork")
  /\ parent' = [parent EXCEPT ![kid[s]] = s]
  /\ state' = [state EXCEPT ![kid[s]] = "RUNNABLE"]
  /\ pc' = [pc EXCEPT ![kid[s]] = "off", ![s] = "user"]
  /\ ret' = [ret EXCEPT ![kid[s]] = "user"]
  /\ kid' = [kid EXCEPT ![s] = 0]
  /\ UNCHANGED <<pid, killed, chan, nextpid, sched, tickslock, left, hist>>

\* Fault for NoOrphans: exit leaves its children alone.
ReparentNobody(s) == parent

\* exit passes its children to init, and wakes init if one is a zombie.
Reparent(s) == [k \in Slot |-> IF parent[k] = s THEN InitProc ELSE parent[k]]
InitWoken(s, st) ==
  IF \E k \in Children(s) : st[k] = "ZOMBIE" THEN Wakeup1(st, InitProc) ELSE st

\* exit, called by the process itself or by trap for a killed one, up to sched.
Exit(c, s) ==
  /\ At(c, s, "user") /\ s # InitProc
  /\ Free
  /\ state' = [InitWoken(s, Wakeup1(state, parent[s])) EXCEPT ![s] = "ZOMBIE"]
  /\ parent' = Reparent(s)
  /\ ptlock' = c
  /\ Goto(s, "sched")
  /\ UNCHANGED <<pid, killed, chan, nextpid, cpu, scan, tickslock, ret, kid, left, hist>>

\* wait: enters the loop with ptable.lock.
Wait(c, s) ==
  /\ At(c, s, "user") /\ ~killed[s]
  /\ Free
  /\ ptlock' = c
  /\ Goto(s, "wait")
  /\ UNCHANGED <<slots, cpu, scan, tickslock, ret, kid, left, hist>>

\* Fault for KilledWasAsked: wait does not clear killed.
KeepKilled(z) == killed

ClearKilled(z) == [killed EXCEPT ![z] = FALSE]

\* wait finds a zombie, the first in the table, frees its slot and returns.
WaitReap(c, s) ==
  /\ At(c, s, "wait")
  /\ \E z \in Slot :
       /\ First(z, {k \in Children(s) : state[k] = "ZOMBIE"})
       /\ state' = [state EXCEPT ![z] = "UNUSED"]
       /\ pid' = [pid EXCEPT ![z] = 0]
       /\ parent' = [parent EXCEPT ![z] = 0]
       /\ killed' = ClearKilled(z)
       /\ pc' = [pc EXCEPT ![s] = "user", ![z] = "none"]
       /\ stray' = stray \ {z}
  /\ ptlock' = "none"
  /\ UNCHANGED <<chan, nextpid, cpu, scan, tickslock, ret, kid, left, asked>>

\* wait returns -1: no children, or killed.
WaitNone(c, s) ==
  /\ At(c, s, "wait")
  /\ \A k \in Children(s) : state[k] # "ZOMBIE"
  /\ Children(s) = {} \/ killed[s]
  /\ ptlock' = "none"
  /\ Goto(s, "user")
  /\ UNCHANGED <<slots, cpu, scan, tickslock, ret, kid, left, hist>>

\* wait sleeps on proc with ptable.lock, which it has again when it goes on.
WaitSleep(c, s) ==
  /\ At(c, s, "wait")
  /\ Children(s) # {} /\ ~killed[s]
  /\ \A k \in Children(s) : state[k] # "ZOMBIE"
  /\ chan' = [chan EXCEPT ![s] = s]
  /\ state' = [state EXCEPT ![s] = "SLEEPING"]
  /\ ret' = [ret EXCEPT ![s] = "wait"]
  /\ Goto(s, "sched")
  /\ UNCHANGED <<pid, parent, killed, nextpid, sched, tickslock, kid, left, hist>>
-----------------------------------------------------------------------------
(* sys_sleep and the timer interrupt.                                      *)

SysSleep(c, s) ==
  /\ At(c, s, "user") /\ ~killed[s]
  /\ \E n \in 0..MaxSleep : left' = [left EXCEPT ![s] = n]
  /\ Goto(s, "sleep")
  /\ UNCHANGED <<slots, sched, tickslock, ret, kid, hist>>

\* The loop of sys_sleep, with tickslock: return, or call sleep.
SleepReturn(c, s) ==
  /\ At(c, s, "sleep")
  /\ tickslock = 0
  /\ left[s] = 0 \/ killed[s]
  /\ left' = [left EXCEPT ![s] = 0]
  /\ Goto(s, "user")
  /\ UNCHANGED <<slots, sched, tickslock, ret, kid, hist>>

\* Fault for NoMissedWakeup: the lock is released before ptable.lock is held.
UnlockEarly(s) == 0

\* sleep keeps the caller's lock until it has ptable.lock.
KeepLock(s) == s

SleepCall(c, s) ==
  /\ At(c, s, "sleep")
  /\ tickslock = 0
  /\ left[s] > 0 /\ ~killed[s]
  /\ tickslock' = KeepLock(s)
  /\ Goto(s, "asleep")
  /\ UNCHANGED <<slots, sched, ret, kid, left, hist>>

\* sleep, with ptable.lock acquired and lk released, up to sched.
Sleep(c, s) ==
  /\ At(c, s, "asleep")
  /\ Free
  /\ ptlock' = c
  /\ tickslock' = 0
  /\ chan' = [chan EXCEPT ![s] = TICKS]
  /\ state' = [state EXCEPT ![s] = "SLEEPING"]
  /\ ret' = [ret EXCEPT ![s] = "sleep"]
  /\ Goto(s, "sched")
  /\ UNCHANGED <<pid, parent, killed, nextpid, cpu, scan, kid, left, hist>>

\* The timer interrupt: ticks++ under tickslock, then wakeup(&ticks).
Tick ==
  /\ tickslock = 0
  /\ tickslock' = INTR
  /\ left' = [s \in Slot |-> IF left[s] > 0 THEN left[s] - 1 ELSE 0]
  /\ UNCHANGED <<slots, sched, pc, ret, kid, hist>>

TickWakeup ==
  /\ tickslock = INTR
  /\ Free
  /\ state' = Wakeup1(state, TICKS)
  /\ tickslock' = 0
  /\ UNCHANGED <<pid, parent, killed, chan, nextpid, sched, pc, ret, kid, left, hist>>
-----------------------------------------------------------------------------
\* Fault for SmallKilledExits: a sleeping process is marked, and sleeps on.
KillOnlyMarks(p) == state

\* kill wakes a process that sleeps.
KillWakes(p) ==
  [state EXCEPT ![p] = IF state[p] = "SLEEPING" THEN "RUNNABLE" ELSE state[p]]

\* kill marks the first slot with this pid, or returns -1.
Kill(c, s, n) ==
  /\ At(c, s, "user") /\ ~killed[s]
  /\ Free
  /\ asked' = asked \cup {n}
  /\ \/ /\ \A p \in Slot : pid[p] # n
        /\ UNCHANGED <<killed, state, stray>>
     \/ \E p \in Slot :
          /\ First(p, {q \in Slot : pid[q] = n})
          /\ killed' = [killed EXCEPT ![p] = TRUE]
          /\ state' = KillWakes(p)
          /\ stray' = IF state[p] = "UNUSED" THEN stray \cup {p} ELSE stray
  /\ UNCHANGED <<pid, parent, chan, nextpid, sched, tickslock, pc, ret, kid, left>>

\* trap, of a process that misbehaves in user space: it is marked, and goes on
\* to exit.
Misbehave(c, s) ==
  /\ At(c, s, "user") /\ ~killed[s]
  /\ killed' = [killed EXCEPT ![s] = TRUE]
  /\ asked' = asked \cup {pid[s]}
  /\ UNCHANGED <<state, pid, parent, chan, nextpid, sched, tickslock, pc, ret, kid, left, stray>>

\* yield, from a timer interrupt in user space, or in the kernel while neither
\* a lock is held nor acquire spins (pushcli disables interrupts).
Yield(c, s) ==
  /\ cpu[c] = s /\ pc[s] \in {"user", "fork"}
  /\ pc[s] = "user" => ~killed[s]
  /\ Free
  /\ ptlock' = c
  /\ state' = [state EXCEPT ![s] = "RUNNABLE"]
  /\ ret' = [ret EXCEPT ![s] = pc[s]]
  /\ Goto(s, "sched")
  /\ UNCHANGED <<pid, parent, killed, chan, nextpid, cpu, scan, tickslock, kid, left, hist>>

\* Fault for StacksExclusive: sched lets go of ptable.lock before swtch.
LockAfterSchedFree(c) == "none"
LockAfterSched(c) == c

\* sched: its last instructions on the process's stack come before swtch.
Sched(c, s) ==
  /\ At(c, s, "sched")
  /\ ptlock' = LockAfterSched(c)
  /\ Goto(s, "swtch")
  /\ UNCHANGED <<slots, cpu, scan, tickslock, ret, kid, left, hist>>

\* swtch to the scheduler, which goes on with its loop after s.
Swtch(c, s) ==
  /\ At(c, s, "swtch")
  /\ cpu' = [cpu EXCEPT ![c] = 0]
  /\ scan' = [scan EXCEPT ![c] = s + 1]
  /\ Goto(s, "off")
  /\ UNCHANGED <<slots, ptlock, tickslock, ret, kid, left, hist>>

\* scheduler: acquire and begin a round.
SchedBegin(c) ==
  /\ cpu[c] = 0
  /\ Free
  /\ ptlock' = c
  /\ UNCHANGED <<slots, cpu, scan, tickslock, pc, ret, kid, left, hist>>

\* scheduler: switch to the next RUNNABLE process of the round; it holds
\* ptable.lock, which wait keeps and all others release first.
SchedRun(c) ==
  /\ cpu[c] = 0 /\ ptlock = c
  /\ \E s \in Slot :
       /\ First(s, {m \in Slot : m >= scan[c] /\ state[m] = "RUNNABLE"})
       /\ state' = [state EXCEPT ![s] = "RUNNING"]
       /\ cpu' = [cpu EXCEPT ![c] = s]
       /\ scan' = [scan EXCEPT ![c] = 1]
       /\ chan' = [chan EXCEPT ![s] = NONE]
       /\ Goto(s, IF ret[s] = "wait" THEN "wait" ELSE "release")
  /\ UNCHANGED <<pid, parent, killed, nextpid, ptlock, tickslock, ret, kid, left, hist>>

\* scheduler: release at the end of a round.
SchedEnd(c) ==
  /\ cpu[c] = 0 /\ ptlock = c
  /\ \A s \in Slot : s >= scan[c] => state[s] # "RUNNABLE"
  /\ ptlock' = "none"
  /\ scan' = [scan EXCEPT ![c] = 1]
  /\ UNCHANGED <<slots, cpu, tickslock, pc, ret, kid, left, hist>>

\* The release in yield, sleep or forkret.
Release(c, s) ==
  /\ At(c, s, "release")
  /\ ptlock' = "none"
  /\ Goto(s, ret[s])
  /\ ret' = [ret EXCEPT ![s] = "user"]
  /\ UNCHANGED <<slots, cpu, scan, tickslock, kid, left, hist>>

\* What the kernel does for slot s on CPU c without being asked: the rest of a
\* system call, and the switch to the scheduler and back.
Work(c, s) ==
  \/ ForkFail(c, s) \/ ForkDone(c, s)
  \/ killed[s] /\ Exit(c, s)
  \/ WaitReap(c, s) \/ WaitNone(c, s) \/ WaitSleep(c, s)
  \/ SleepReturn(c, s) \/ SleepCall(c, s) \/ Sleep(c, s)
Switch(c, s) == Sched(c, s) \/ Swtch(c, s) \/ Release(c, s)
Scheduler(c) == SchedBegin(c) \/ SchedRun(c) \/ SchedEnd(c)

\* What a user program or a timer interrupt makes it do (init.c never sleeps nor
\* misbehaves).
User(c, s) ==
  \/ ForkAlloc(c, s) \/ Exit(c, s) \/ Wait(c, s)
  \/ s # InitProc /\ (SysSleep(c, s) \/ Misbehave(c, s))
  \/ \E n \in world.kills : Kill(c, s, n)
  \/ Yield(c, s)

Next ==
  /\ UNCHANGED world
  /\ \/ \E c \in world.cpus :
          \/ Scheduler(c)
          \/ \E s \in Slot : Work(c, s) \/ Switch(c, s) \/ User(c, s)
     \/ Tick
     \/ TickWakeup

Spec == Init /\ [][Next]_vars

\* A CPU executes the kernel and gets the spinlocks it spins on; interrupts
\* leave a process time to go on between them; the timer interrupts every
\* process and wakes sleepers; init calls wait in a loop (init.c).
CPUs == UNION {w.cpus : w \in Worlds}
Same == UNCHANGED world

FairSpec ==
  /\ Spec
  /\ \A c \in CPUs : SF_vars(c \in world.cpus /\ Same /\ Scheduler(c))
  /\ \A s \in Slot : /\ SF_vars(Same /\ \E c \in world.cpus : Work(c, s))
                     /\ WF_vars(Same /\ \E c \in world.cpus : Switch(c, s))
                     /\ SF_vars(Same /\ \E c \in world.cpus : Yield(c, s))
  /\ WF_vars(Same /\ Tick) /\ SF_vars(Same /\ TickWakeup)
  /\ SF_vars(Same /\ \E c \in world.cpus : Wait(c, InitProc))
-----------------------------------------------------------------------------
(* Properties.                                                             *)

Live == {"RUNNABLE", "RUNNING", "SLEEPING"}

\* No two CPUs run on one kernel stack, and no CPU on a stack that wait has
\* freed: a process that sleeps, yields or exits stays on its CPU until swtch,
\* although its state already lets others run it or reap it.
StacksExclusive ==
  /\ \A c, d \in world.cpus : cpu[c] = cpu[d] /\ cpu[c] # 0 => c = d
  /\ \A c \in world.cpus : cpu[c] # 0 => state[cpu[c]] \notin {"UNUSED", "EMBRYO"}

\* Every process but init has a living parent, which can wait for it: exit
\* passes abandoned children to init, whatever forks and exits go on.
NoOrphans ==
  \A s \in Slot \ {InitProc} : state[s] \in Live \cup {"ZOMBIE"} =>
    parent[s] \in Slot /\ state[parent[s]] \in Live

\* "we can be guaranteed that we won't miss any wakeup" (sleep): nobody sleeps
\* in wait with a zombie child or no child, nor in sys_sleep after its last
\* tick unless the interrupt is about to wake it.
NoMissedWakeup ==
  \A s \in Slot : state[s] = "SLEEPING" =>
    /\ chan[s] = s => /\ Children(s) # {}
                      /\ \A k \in Children(s) : state[k] # "ZOMBIE"
    /\ chan[s] = TICKS => left[s] > 0 \/ tickslock = INTR

\* "Kill the process with the given pid" (kill): who is killed misbehaved, or kill
\* was called with its pid, although slots are used again.  But kill also finds
\* slots without a process, by pid 0 or by the pid of a fork that failed, and a
\* fork that fails forgets that its child was killed: such a mark is inherited by
\* the next process in the slot, and by no other after it.
KilledWasAsked ==
  \A s \in Slot : state[s] # "UNUSED" /\ killed[s] => pid[s] \in asked \/ s \in stray

\* A killed process exits, wherever it computes, waits or sleeps.
KilledExits ==
  \A s \in Slot \ {InitProc} :
    killed[s] /\ state[s] # "UNUSED" ~> state[s] \in {"ZOMBIE", "UNUSED"}

\* A zombie left to init is reaped, and its slot can be used again.
OrphansReaped ==
  \A s \in Slot \ {InitProc} :
    state[s] = "ZOMBIE" /\ parent[s] = InitProc ~> state[s] = "UNUSED"
=============================================================================
