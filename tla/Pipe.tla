------------------------------- MODULE Pipe --------------------------------
(***************************************************************************)
(* The pipe of pipe.c: a circular buffer with two free-running counters,   *)
(* used by processes that sleep while it is full or empty, can be killed,  *)
(* and close their descriptors.                                            *)
(*                                                                         *)
(* p->lock is held from acquire to the next sleep or release, so that      *)
(* what happens in between is one step, with one exception: kill takes     *)
(* only ptable.lock, and may come after the test of proc->killed and       *)
(* before sleep has taken ptable.lock.                                     *)
(***************************************************************************)
EXTENDS Integers, Sequences

CONSTANTS
  Proc,
  Byte,
  PIPESIZE,  \* 512 in the code
  Wrap,      \* 2^32 in the code: the counters are unsigned int
  Worlds     \* [ends, bytes, sizes, kills]: which processes may have the read
             \* and the write end, what they write, the lengths of their writes
             \* and reads, and whether they are killed

ASSUME PipeAssumption ==
  /\ PIPESIZE \in Nat \ {0}
  /\ Wrap \in Nat /\ Wrap % PIPESIZE = 0 /\ Wrap > PIPESIZE
  /\ \A w \in Worlds : /\ w.ends \subseteq (SUBSET Proc) \X (SUBSET Proc)
                       /\ w.bytes \subseteq Byte /\ w.bytes # {}
                       /\ w.sizes \subseteq Nat /\ w.kills \in BOOLEAN

VARIABLES
  world,     \* the world that this behaviour is in
  data, nread, nwrite, readopen, writeopen,  \* struct pipe
  rfd, wfd,  \* processes with a descriptor of the read end, the write end
  pc,        \* "user"; "write", "read" (runs in the call); "wfull",
             \* "rempty" (holds p->lock, about to sleep); "wsleep", "rsleep"
  todo,      \* per process: bytes left to write
  want,      \* per process: length of its read
  killed,
  out        \* bytes delivered by the last read

pipe == <<data, nread, nwrite, readopen, writeopen>>
vars == <<world, pipe, rfd, wfd, pc, todo, want, killed, out>>

Index == 0..PIPESIZE - 1
Used == (nwrite - nread) % Wrap

Strings == UNION {[1..n -> world.bytes] : n \in world.sizes}

\* pipealloc, after some forks and closes.  kfree has filled the page with junk.
Init ==
  /\ world \in Worlds
  /\ data = [i \in Index |-> CHOOSE x \in world.bytes : TRUE]
  /\ nread = 0 /\ nwrite = 0
  /\ readopen = TRUE /\ writeopen = TRUE
  /\ \E e \in world.ends : rfd = e[1] /\ wfd = e[2]
  /\ pc = [p \in Proc |-> "user"]
  /\ todo = [p \in Proc |-> <<>>]
  /\ want = [p \in Proc |-> 0]
  /\ killed = [p \in Proc |-> FALSE]
  /\ out = <<>>

Least(a, b) == IF a <= b THEN a ELSE b

\* p->lock can be acquired.
Unlocked == \A p \in Proc : pc[p] \notin {"wfull", "rempty"}

Goto(p, label) == pc' = [pc EXCEPT ![p] = label]

\* Fault for CloseReleases: wakeup wakes nobody.
WakeNobody(p, label, from, to) == [pc EXCEPT ![p] = label]

\* p goes to label, and wakeup makes those who sleep at "from" go on at "to".
Wake(p, label, from, to) ==
  [q \in Proc |-> IF q = p THEN label ELSE IF pc[q] = from THEN to ELSE pc[q]]
-----------------------------------------------------------------------------
\* A process with the descriptor enters pipewrite or piperead.  A killed one
\* does not: trap calls exit before syscall.
CallWrite(p, s) ==
  /\ pc[p] = "user" /\ p \in wfd /\ ~killed[p]
  /\ todo' = [todo EXCEPT ![p] = s]
  /\ Goto(p, "write")
  /\ UNCHANGED <<world, pipe, rfd, wfd, want, killed, out>>

CallRead(p, n) ==
  /\ pc[p] = "user" /\ p \in rfd /\ ~killed[p]
  /\ want' = [want EXCEPT ![p] = n]
  /\ Goto(p, "read")
  /\ UNCHANGED <<world, pipe, rfd, wfd, todo, killed, out>>

\* How many of n bytes fit before pipewrite finds the pipe full.
Fits(n) == Least(n, PIPESIZE - Used)

\* Fault for Fifo: the index sticks at the end of the buffer.
SlotNoWrap(n) == Least(n, PIPESIZE - 1)

Slot(n) == n % PIPESIZE

\* k more rounds of pipewrite's loop, which leave rest to be written.
Copied(p, k, rest) ==
  /\ data' = [i \in Index |->
       IF \E j \in 1..k : Slot(nwrite + j - 1) = i
       THEN todo[p][CHOOSE j \in 1..k : Slot(nwrite + j - 1) = i]
       ELSE data[i]]
  /\ nwrite' = (nwrite + k) % Wrap
  /\ todo' = [todo EXCEPT ![p] = rest]
  /\ UNCHANGED <<world, nread, readopen, writeopen, rfd, wfd, want, killed, out>>

\* pipewrite writes its last byte, wakes the readers and returns.
WriteDone(p) ==
  /\ pc[p] = "write" /\ Unlocked
  /\ Fits(Len(todo[p])) = Len(todo[p])
  /\ Copied(p, Len(todo[p]), <<>>)
  /\ pc' = Wake(p, "user", "rsleep", "read")

\* pipewrite finds the pipe full and wakes the readers, before it sleeps.
WriteFull(p) ==
  /\ pc[p] = "write" /\ Unlocked
  /\ Fits(Len(todo[p])) < Len(todo[p])
  /\ readopen /\ ~killed[p]
  /\ LET k == Fits(Len(todo[p]))
     IN  Copied(p, k, SubSeq(todo[p], k + 1, Len(todo[p])))
  /\ pc' = Wake(p, "wfull", "rsleep", "read")

WriteSleep(p) ==
  /\ pc[p] = "wfull"
  /\ Goto(p, "wsleep")
  /\ UNCHANGED <<world, pipe, rfd, wfd, todo, want, killed, out>>

\* pipewrite finds the pipe full and returns -1, waking nobody.
WriteFails(p) ==
  /\ pc[p] = "write" /\ Unlocked
  /\ Fits(Len(todo[p])) < Len(todo[p])
  /\ ~readopen \/ killed[p]
  /\ Copied(p, Fits(Len(todo[p])), <<>>)
  /\ Goto(p, "user")

\* Fault for NoMissedWakeup: a reader goes to sleep beside data.
SleepUnlessFull(p) == Used < PIPESIZE /\ writeopen /\ ~killed[p]

ReadMustSleep(p) == Used = 0 /\ writeopen /\ ~killed[p]

ReadEmpty(p) ==
  /\ pc[p] = "read" /\ Unlocked
  /\ ReadMustSleep(p)
  /\ Goto(p, "rempty")
  /\ UNCHANGED <<world, pipe, rfd, wfd, todo, want, killed, out>>

ReadSleep(p) ==
  /\ pc[p] = "rempty"
  /\ Goto(p, "rsleep")
  /\ UNCHANGED <<world, pipe, rfd, wfd, todo, want, killed, out>>

\* piperead of a killed process returns -1 from an empty pipe.
ReadFails(p) ==
  /\ pc[p] = "read" /\ Unlocked
  /\ Used = 0 /\ writeopen /\ killed[p]
  /\ want' = [want EXCEPT ![p] = 0]
  /\ Goto(p, "user")
  /\ UNCHANGED <<world, pipe, rfd, wfd, todo, killed, out>>

\* piperead copies what there is, wakes the writers and returns.
ReadDone(p) ==
  /\ pc[p] = "read" /\ Unlocked
  /\ ~(Used = 0 /\ writeopen)
  /\ LET k == Least(want[p], Used)
     IN  /\ out' = [i \in 1..k |-> data[Slot(nread + i - 1)]]
         /\ nread' = (nread + k) % Wrap
  /\ want' = [want EXCEPT ![p] = 0]
  /\ pc' = Wake(p, "user", "wsleep", "write")
  /\ UNCHANGED <<world, data, nwrite, readopen, writeopen, rfd, wfd, todo, killed>>

\* Fault for NoUseAfterFree: every close of a descriptor closes the pipe's end.
LastAlways(p, fds) == p \in fds

\* fileclose calls pipeclose when the last reference goes.
Last(p, fds) == fds = {p}

\* p closes its descriptor of the read end, or of the write end, or exits; only
\* the last close calls pipeclose, which takes p->lock.
CloseRead(p) ==
  /\ pc[p] = "user" /\ p \in rfd
  /\ Last(p, rfd) => Unlocked
  /\ rfd' = rfd \ {p}
  /\ readopen' = (readopen /\ ~Last(p, rfd))
  /\ pc' = IF Last(p, rfd) THEN Wake(p, "user", "wsleep", "write") ELSE pc
  /\ UNCHANGED <<world, data, nread, nwrite, writeopen, wfd, todo, want, killed, out>>

CloseWrite(p) ==
  /\ pc[p] = "user" /\ p \in wfd
  /\ Last(p, wfd) => Unlocked
  /\ wfd' = wfd \ {p}
  /\ writeopen' = (writeopen /\ ~Last(p, wfd))
  /\ pc' = IF Last(p, wfd) THEN Wake(p, "user", "rsleep", "read") ELSE pc
  /\ UNCHANGED <<world, data, nread, nwrite, readopen, rfd, todo, want, killed, out>>

\* kill makes a sleeper runnable.
Kill(p) ==
  /\ world.kills /\ ~killed[p]
  /\ killed' = [killed EXCEPT ![p] = TRUE]
  /\ pc' = [pc EXCEPT ![p] = CASE pc[p] = "wsleep" -> "write"
                               [] pc[p] = "rsleep" -> "read"
                               [] OTHER -> pc[p]]
  /\ UNCHANGED <<world, pipe, rfd, wfd, todo, want, out>>

\* A step of a process inside pipewrite or piperead.
Run(p) ==
  \/ WriteDone(p) \/ WriteFull(p) \/ WriteSleep(p) \/ WriteFails(p)
  \/ ReadEmpty(p) \/ ReadSleep(p) \/ ReadFails(p) \/ ReadDone(p)

Next ==
  \E p \in Proc :
    \/ \E s \in Strings : CallWrite(p, s)
    \/ \E n \in world.sizes : CallRead(p, n)
    \/ Run(p)
    \/ CloseRead(p) \/ CloseWrite(p)
    \/ Kill(p)

Spec == Init /\ [][Next]_vars

\* A runnable process is scheduled again and again (scheduler's loop), and gets
\* p->lock, which nobody keeps.  A killed process exits, which closes its
\* descriptors.  Nothing makes another process call or close.
Exit(p) == killed[p] /\ (CloseRead(p) \/ CloseWrite(p))

FairSpec == Spec /\ \A p \in Proc : WF_vars(Run(p)) /\ WF_vars(Exit(p))
-----------------------------------------------------------------------------
(* Properties.                                                             *)

\* The counters and the circular buffer implement a first-in first-out stream:
\* bytes are read in the order written, none lost, none twice, across the wrap
\* of the counters, whoever sleeps, dies or closes in between.
Stream == INSTANCE ByteStream WITH
  Capacity <- PIPESIZE,
  queue <- [i \in 1..Used |-> data[(nread + i - 1) % PIPESIZE]],
  readend <- readopen,
  writeend <- writeopen

Fifo == Stream!Spec

\* Nobody sleeps who could go on: a reader sleeps in an empty pipe with a write
\* end, a writer in a full pipe with a read end ("DOC: pipe-empty" and "DOC:
\* pipewrite-full" in pipe.c, the conditions they sleep on), as long as nobody
\* is killed.
NoMissedWakeup ==
  (\A p \in Proc : ~killed[p]) => \A p \in Proc :
    /\ pc[p] = "rsleep" => Used = 0 /\ writeopen
    /\ pc[p] = "wsleep" => Used = PIPESIZE /\ readopen

\* pipeclose frees the pipe when both ends are closed; no process is then, or
\* comes later, inside pipewrite or piperead.
NoUseAfterFree ==
  ~readopen /\ ~writeopen => \A p \in Proc : pc[p] = "user"

\* Closing the other end releases a sleeper: end of file, or a broken pipe.
CloseReleases ==
  \A p \in Proc :
    /\ pc[p] \in {"read", "rempty", "rsleep"} /\ ~writeopen ~> pc[p] = "user"
    /\ pc[p] \in {"write", "wfull", "wsleep"} /\ ~readopen ~> pc[p] = "user"

\* A killed process leaves the pipe, to exit on its way to user space: kill does
\* "Wake process from sleep if necessary" (proc.c).
KilledReturns == \A p \in Proc : killed[p] ~> pc[p] = "user"
=============================================================================
