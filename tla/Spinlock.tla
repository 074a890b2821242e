------------------------------ MODULE Spinlock ------------------------------
(***************************************************************************)
(* The spin locks of spinlock.c on several CPUs with interrupts: acquire,  *)
(* release, holding, pushcli and popcli, one step per access to shared     *)
(* memory or to the interrupt flag.                                        *)
(*                                                                         *)
(* A CPU runs a piece of kernel code, given as the sequence of its calls   *)
(* of acquire and release; while its interrupt flag is set, a handler may  *)
(* interrupt it.  The gates of trap.c clear the flag on entry, and iret    *)
(* restores it.                                                            *)
(***************************************************************************)
EXTENDS Integers, Sequences

CONSTANTS
  CPU,
  Lock,
  NoCPU,
  Codes,      \* the code a process runs in the kernel: sequences of calls
  Handlers    \* the code of the interrupt handlers

VARIABLES
  locked, owner,   \* struct spinlock: locked and cpu
  flag,            \* per CPU: FL_IF of its eflags
  ncli, intena,    \* struct cpu
  stack,           \* per CPU: the code it runs, below it the code interrupted
  spinpanic

spinvars == <<locked, owner, flag, ncli, intena, stack, spinpanic>>

\* A piece of code: the calls still to make, where it is in the first of them,
\* the local variable eflags of pushcli, and the locks it has.
Code(calls) == [calls |-> calls, at |-> "call", eflags |-> FALSE, has |-> {}]

Idle == Code(<<>>)

\* What a piece of code does with locks, when it has those in has: h[i] are the
\* locks it has before its i-th call.  It acquires none that it has, releases
\* only what it has, and at its end has none.
Disciplined(calls, has) ==
  \E h \in [1..Len(calls) + 1 -> SUBSET Lock] :
    /\ h[1] = has /\ h[Len(calls) + 1] = {}
    /\ \A i \in 1..Len(calls) :
         LET l == calls[i].lock
         IN  IF calls[i].op = "acquire" THEN l \notin h[i] /\ h[i + 1] = h[i] \cup {l}
                                        ELSE l \in h[i] /\ h[i + 1] = h[i] \ {l}

\* The kernel's code, and its handlers, are such pieces.
SpinAssumption ==
  /\ NoCPU \notin CPU
  /\ Codes \cup Handlers \subseteq Seq([op : {"acquire", "release"}, lock : Lock])
  /\ \A code \in Codes \cup Handlers : Disciplined(code, {})

ASSUME LockAssumption == SpinAssumption

SpinInit ==
  /\ locked = [l \in Lock |-> FALSE]
  /\ owner = [l \in Lock |-> NoCPU]
  /\ flag = [c \in CPU |-> TRUE]
  /\ ncli = [c \in CPU |-> 0]
  /\ intena = [c \in CPU |-> FALSE]
  /\ stack = [c \in CPU |-> <<Idle>>]
  /\ spinpanic = FALSE
-----------------------------------------------------------------------------
Top(c) == stack[c][Len(stack[c])]

\* CPU c is at this place of a call of op.
Calls(c, op, at) ==
  /\ ~spinpanic
  /\ Top(c).calls # <<>>
  /\ Head(Top(c).calls).op = op /\ Top(c).at = at

TheLock(c) == Head(Top(c).calls).lock

\* It goes on with the record r in place of its own.
GoOn(c, r) == stack' = [stack EXCEPT ![c][Len(stack[c])] = r]
MoveTo(c, at) == GoOn(c, [Top(c) EXCEPT !.at = at])
Return(c, has) == GoOn(c, [Top(c) EXCEPT !.at = "call", !.calls = Tail(@), !.has = has])

holding(c, l) == locked[l] /\ owner[l] = c

panic ==
  /\ spinpanic' = TRUE
  /\ UNCHANGED <<locked, owner, flag, ncli, intena, stack>>

\* pushcli: readeflags, then cli, then ncli and intena.
PushcliRead(c) ==
  /\ Calls(c, "acquire", "call")
  /\ GoOn(c, [Top(c) EXCEPT !.eflags = flag[c], !.at = "cli"])
  /\ UNCHANGED <<locked, owner, flag, ncli, intena, spinpanic>>

PushcliCli(c) ==
  /\ Calls(c, "acquire", "cli")
  /\ flag' = [flag EXCEPT ![c] = FALSE]
  /\ MoveTo(c, "count")
  /\ UNCHANGED <<locked, owner, ncli, intena, spinpanic>>

PushcliCount(c) ==
  /\ Calls(c, "acquire", "count")
  /\ ncli' = [ncli EXCEPT ![c] = @ + 1]
  /\ intena' = IF ncli[c] = 0 THEN [intena EXCEPT ![c] = Top(c).eflags] ELSE intena
  /\ MoveTo(c, "held")
  /\ UNCHANGED <<locked, owner, flag, spinpanic>>

\* acquire panics if this CPU has the lock.
AcquireTest(c) ==
  /\ Calls(c, "acquire", "held")
  /\ IF holding(c, TheLock(c))
     THEN panic
     ELSE /\ MoveTo(c, "spin")
          /\ UNCHANGED <<locked, owner, flag, ncli, intena, spinpanic>>

\* The xchg that finds the lock free, and the note of the owner after it.
AcquireXchg(c) ==
  /\ Calls(c, "acquire", "spin")
  /\ ~locked[TheLock(c)]
  /\ locked' = [locked EXCEPT ![TheLock(c)] = TRUE]
  /\ MoveTo(c, "own")
  /\ UNCHANGED <<owner, flag, ncli, intena, spinpanic>>

AcquireOwn(c) ==
  /\ Calls(c, "acquire", "own")
  /\ owner' = [owner EXCEPT ![TheLock(c)] = c]
  /\ Return(c, Top(c).has \cup {TheLock(c)})
  /\ UNCHANGED <<locked, flag, ncli, intena, spinpanic>>

\* lk->cpu = 0.
OwnerCleared(l) == [owner EXCEPT ![l] = NoCPU]

\* release: lk->cpu = 0, then the xchg, then popcli.
ReleaseOwn(c) ==
  /\ Calls(c, "release", "call")
  /\ IF ~holding(c, TheLock(c))
     THEN panic
     ELSE /\ owner' = OwnerCleared(TheLock(c))
          /\ GoOn(c, [Top(c) EXCEPT !.at = "xchg", !.has = @ \ {TheLock(c)}])
          /\ UNCHANGED <<locked, flag, ncli, intena, spinpanic>>

ReleaseXchg(c) ==
  /\ Calls(c, "release", "xchg")
  /\ locked' = [locked EXCEPT ![TheLock(c)] = FALSE]
  /\ MoveTo(c, "popcli")
  /\ UNCHANGED <<owner, flag, ncli, intena, spinpanic>>

\* Fault for LocksSound: interrupts come back with the first release.
StiEarly(c) == intena[c]

\* popcli's test before sti, with the new ncli.
Sti(c) == ncli[c] = 1 /\ intena[c]

Popcli(c) ==
  /\ Calls(c, "release", "popcli")
  /\ IF flag[c] \/ ncli[c] < 1
     THEN panic
     ELSE /\ ncli' = [ncli EXCEPT ![c] = @ - 1]
          /\ flag' = [flag EXCEPT ![c] = Sti(c)]
          /\ Return(c, Top(c).has)
          /\ UNCHANGED <<locked, owner, intena, spinpanic>>
-----------------------------------------------------------------------------
\* A process enters the kernel.
Enter(c, code) ==
  /\ ~spinpanic
  /\ stack[c] = <<Idle>>
  /\ GoOn(c, Code(code))
  /\ UNCHANGED <<locked, owner, flag, ncli, intena, spinpanic>>

\* An interrupt, and the iret at its end: only code with the flag set is
\* interrupted, so that iret sets it.
Interrupt(c, code) ==
  /\ ~spinpanic
  /\ flag[c]
  /\ flag' = [flag EXCEPT ![c] = FALSE]
  /\ stack' = [stack EXCEPT ![c] = Append(@, Code(code))]
  /\ UNCHANGED <<locked, owner, ncli, intena, spinpanic>>

Iret(c) ==
  /\ ~spinpanic
  /\ Len(stack[c]) > 1 /\ Top(c).calls = <<>>
  /\ flag' = [flag EXCEPT ![c] = TRUE]
  /\ stack' = [stack EXCEPT ![c] = SubSeq(@, 1, Len(@) - 1)]
  /\ UNCHANGED <<locked, owner, ncli, intena, spinpanic>>

Step(c) ==
  \/ PushcliRead(c) \/ PushcliCli(c) \/ PushcliCount(c)
  \/ AcquireTest(c) \/ AcquireXchg(c) \/ AcquireOwn(c)
  \/ ReleaseOwn(c) \/ ReleaseXchg(c) \/ Popcli(c)
  \/ Iret(c)

SpinNext ==
  \E c \in CPU :
    \/ Step(c)
    \/ \E code \in Codes : Enter(c, code)
    \/ \E code \in Handlers : Interrupt(c, code)

SpinSpec == SpinInit /\ [][SpinNext]_spinvars
-----------------------------------------------------------------------------
(* Property.                                                               *)

\* Locks exclude, within a CPU and between CPUs, and interrupts are off where
\* they must be: no lock has two holders; code that holds or is about to free a
\* lock is never interrupted, so that no handler spins for a lock of the code
\* below it; nested and crossed sections make none of acquire, release and
\* popcli panic; and a CPU that is back out of all sections takes interrupts
\* again, where a handler has them off to its end.
LocksSound ==
  /\ ~spinpanic
  /\ \A l \in Lock, c, d \in CPU : \A i \in DOMAIN stack[c], j \in DOMAIN stack[d] :
       l \in stack[c][i].has \cap stack[d][j].has => c = d /\ i = j
  /\ \A c \in CPU : \A i \in 1..(Len(stack[c]) - 1) :
       stack[c][i].has = {} /\ stack[c][i].at \in {"call", "cli"}
  /\ \A c \in CPU :
       Top(c).at = "call" /\ Top(c).has = {} => flag[c] = (Len(stack[c]) = 1)
=============================================================================
