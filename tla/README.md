# A TLA+ model of zv6

zv6 is a fork of xv6, a small multiprocessor Unix kernel in C, that adds
checksums to inodes and "ditto" inodes that mirror a file and repair it.  This
directory holds TLA+ modules for the parts of the kernel, and of its user
programs, where the order of steps matters, the TLC configurations that check
them on small instances, and proofs checked by TLAPS.  `PROJECT.json` maps each
definition to source lines and lists runs, mutants, findings, hazards and
theorems.

To check a run: `tlc -config Log.cfg Log` (the table of runs names module and
configuration).  To check the proofs of a module: `tlapm LogProofs.tla`.

## Inventory

| Component | Source | State | Operations that change it | Talks to |
|---|---|---|---|---|
| Log | `log.c` | header on disk and in memory, log blocks, `busy` | `initlog`, `begin_trans`, `log_write`, `commit_trans` | buffer cache, every writer |
| Buffer cache | `bio.c` | buffers with sector and `B_BUSY/VALID/DIRTY`, LRU list | `bread`, `bwrite`, `brelse` | IDE driver, log (pins) |
| IDE driver | `ide.c` | request queue, controller | `iderw`, `ideintr` | sleep/wakeup |
| Inodes, checksums, dittos | `fs.c` | dinodes, in-core inodes with `I_BUSY/VALID`, `child1/2`, `checksum` | `ilock*`, `irescue`, `writei`, `iupdate`, `cupdate`, `iput`, `ialloc`, `itrunc` | log, buffer cache |
| Blocks | `fs.c` | bitmap, `addrs`, indirect block | `balloc`, `bfree`, `bmap`, `itrunc` | log |
| Directories | `fs.c`, `sysfile.c` | directory entries, `nlink` | `dirlink`, `create`, `link`, `unlink`, `namex` | inodes |
| Files, descriptors | `file.c`, `sysfile.c` | file table, `ofile` | `filealloc`, `filedup`, `fileclose`, `fdalloc`, `dup`, `pipe` | inodes, pipes |
| Pipes | `pipe.c` | ring buffer, counters, open flags | `pipewrite`, `piperead`, `pipeclose` | sleep/wakeup, kill |
| Processes | `proc.c`, `trap.c`, `sysproc.c` | process table, per-CPU process, `ptable.lock` | `fork`, `exit`, `wait`, `kill`, `sleep`, `wakeup`, `yield`, `scheduler` | everything that sleeps |
| Spin locks | `spinlock.c` | `locked`, `ncli`, `intena` | `acquire`, `release`, `pushcli`, `popcli` | everything |
| Memory | `kalloc.c`, `vm.c`, `exec.c` | free list, page tables | `kalloc`, `kfree`, `allocuvm`, `deallocuvm`, `copyuvm`, `exec` | processes |
| Console | `console.c` | input ring with three indices | `consoleintr`, `consoleread` | interrupts, kill |
| Shell | `sh.c` | the parsed line, descriptors of its processes | `parsecmd`, `runcmd` | descriptors, `fork`, `wait` |
| User malloc | `umalloc.c` | circular free list | `malloc`, `free` | `sbrk` |
| Image tools | `mkfs.c`, `cfs.c` | the disk image | build, corrupt | the file system |

What is hard in it: crashes between disk writes and between transactions;
repairs that need a transaction and run inside or beside others; inode locks,
the log and the locks of dittos taken in several orders; sleep, wakeup and kill
under three different locks; `ptable.lock` handed from one stack to another;
pages, slots and counters that run out or wrap half way through a call.  The
`hazards` of `PROJECT.json` name the lines.

## Modules

| Module | Models |
|---|---|
| `AtomicDisk` | what the log promises: transactions that survive a crash whole or not at all |
| `Log` | `log.c` over the part of `bio.c` it relies on, with crashes |
| `LogBudget` | how many blocks each call logs in one transaction |
| `Ditto` | one file with its checksum and dittos: verification, repair, mirroring, corruption, crashes |
| `FsLocks` | the file system calls as sequences of inode locks and transactions |
| `Inodes` | inodes, blocks, directories, path names, reference and link counts, crashes |
| `Bcache` | `bio.c` and `ide.c`: buffers, LRU list, request queue, disk, interrupt |
| `Console` | the input ring of `console.c` |
| `Spinlock` | `spinlock.c` on several CPUs with interrupt handlers |
| `Proc` | `proc.c`: process table, scheduler, sleep/wakeup, exit/wait/kill |
| `ByteStream` | what a pipe promises: a bounded first-in first-out stream |
| `Pipe` | `pipe.c` with sleepers, closes and kills |
| `Files` | descriptors, the file table, pipe ends and inode references, with the failure paths of open and pipe |
| `Sh` | `sh.c`: the parser, and `runcmd` as a client of `Files` |
| `Vm` | `kalloc.c`, `vm.c`, and the memory side of fork, exec, sbrk, exit and wait |
| `Umalloc` | `umalloc.c` |
| `MCFs` | `Ditto`, `FsLocks` and `LogBudget` with their workloads |
| `MCDrivers` | `Bcache`, `Console` and `Spinlock` |
| `MCMemory` | `Vm` and `Umalloc` |
| `MCInodes`, `MCPipe`, `MCProc`, `MCSh` | workloads of one module each |
| `LogProofs`, `DittoProofs`, `BcacheProofs`, `PipeProofs`, `ProcProofs`, `SpinlockProofs`, `ConsoleProofs`, `VmProofs` | theorems about the module each is named after |

An MC module that has several components gives a behaviour one of them
(`part`): they share no state there, and the others stand still.  A module whose
workload comes in several kinds has a constant `Worlds` (in `Inodes`, `Menus`)
and a variable that holds the one of the behaviour.

The modules meet where one relies on what another shows.  `Ditto` and `Inodes`
take a transaction as one step that a crash leaves whole or absent: `Log`
implements `AtomicDisk`.  `Log` takes a transaction's size as bounded by its
panic: `LogBudget` counts it.  `Log` takes a sector as having one buffer that is
pinned while dirty: `Bcache` has `BuffersShared` and `NothingLost`.  `Bcache`,
`Pipe`, `Console` and `FsLocks` take sleep and release of the caller's lock as
one step: `Proc` has `NoMissedWakeup`, and has `sys_sleep` as a client with a
lock of its own.  They take a section under a spin lock as one step: `Spinlock`
has `LocksSound`.  `Pipe` takes an end as open while a file refers to it:
`Files` has `PipesExact`.  `Ditto` leaves the order of locks out, `FsLocks` is
about nothing else.

**Log.**  One step is a disk write with the memory updates around it, or a
section under `log.lock`.  `phase` says where the thread in the log code is:
`boot` and `recover` for `initlog`, `install` and `end` for `commit_trans`.  The
cached copies of the log's own blocks never differ from the disk, since `bwrite`
is synchronous, and are left out.  `Crash` may come at any step, recovery
included; the panic of a too big transaction stops everything but a reset.

**LogBudget.**  A call is the sequence of its `log_write`s and reads, computed
from the code for a file length, a place and a number of dittos; the steps feed
it to `log_write` with its absorption and its panic, and count the buffers that
are pinned or held.  It has the sizes of `param.h` and `fs.h`.

**Ditto.**  A copy of the file is `ip`, `child1` or `child2`; a block is a set of
bits and `Checksum` is the XOR of the blocks.  A call that holds `ip`'s lock from
beginning to end is one step; `irescue` and `ipropagate`, which commit several
transactions, are one step per chunk.  `valid` is `I_VALID`, which decides
whether the next lock verifies.  `truth` is what was written.  The disk decays
one block per copy, which is what XOR is able to detect.

**FsLocks.**  A system call is a program, the sequence of its `ilock`, `iunlock`,
`begin_trans` and `commit_trans`; a failed check makes it go on with another
sequence, as the code's error path does, and an ignored result with the rest.
`suspect` are the inodes whose next check fails.  The calls share one file in
the root directory; `create` and `mkdir` take the same inode for the one they
allocate, so that the order of locks is the same.

**Inodes.**  `fs` is the file system as the buffer cache shows it, with the
reference counts of the inode cache; `safe` is what a crash leaves.  A path is
walked one component a step, under that directory's lock, and the body of a call
is a step in the middle of its transaction.  `iput` outside a transaction, by
`exit` and `chdir`, writes into whichever transaction is open, or panics.

**Bcache.**  A section under `bcache.lock` or `idelock` is a step.  `active` is
the command the controller works on: its sector, and the data of a write, which
`idestart` sends when it starts the request.  `latest` is what was last stored
in a sector.  A process holds one buffer at a time.

**Console.**  A call of the handler for one character, and a section of
`consoleread` from `acquire` or the return of `sleep` to `release` or `sleep`, are
steps.  `committed` and `line` say what the ring is to hold.

**Spinlock.**  One step per access to shared memory or to the interrupt flag.  A
CPU runs code that is a sequence of `acquire` and `release`, and a stack of it
where handlers interrupt.

**Proc.**  A section under `ptable.lock` is a step; leaving for the scheduler is
three (`sched`, `swtch`, release by the next), because the process runs on its
stack after its state has changed.  `fork` publishes the child without the lock,
in a step of its own.  `sys_sleep` releases `tickslock` only with `ptable.lock`
held.  A process other than init may misbehave, and `trap` marks it killed; `kill`
of init, which panics when it exits, is outside the workload.  `asked` are the
pids that were named to `kill` or misbehaved, `stray` the free slots that were left
marked, by a fork that failed or by a `kill` that matched them.

**Pipe.**  A section under the pipe's lock is a step, except that the test of
`killed` and the sleep are two: `kill` takes only `ptable.lock`.  The counters
wrap at `Wrap`, a multiple of `PIPESIZE` as 2^32 is of 512.

**Files and Sh.**  Each section under `ftable.lock`, `icache.lock` or a pipe's lock
is a step.  In `Sh` a process executes a list of calls that `runcmd` makes from
the parsed command; a command that exec has started reads its input to the end.
`<<>>` stands for a program that makes calls of its own choice.  An open may fail
for want of a name, of a file or of a descriptor, because a directory is opened for
writing, or because the inode is corrupted; in the last case `sys_open` returns
without `iput`, and `leaked` counts the references that stay.

**Vm.**  Every call of `kalloc` is a step, so that processes compete for the last
pages.  Sizes are counted in pages.  `lost` are the pages that the code drops on
a failure path, `holed` the directories in which the size of the process claims
a page that is not there.  `exec` may give up at each segment, over a short read or
a bad header; `loaduvm` reads as far as any `filesz` up to `memsz`, and panics only
where a page table is missing.

**Umalloc.**  The free list is a circle through `heap.ptr`, in units of
`sizeof(Header)`, with `sbrk` by others in between.

## Runs

| Run | Module, configuration | Instance | Shows |
|---|---|---|---|
| `log` | `Log`, `Log.cfg` | 3 processes, 3 sectors, 2 contents, log of 2 blocks | atomicity (`Atomic`, refinement of `AtomicDisk`), `LogConsistent`, `SleepersWoken` |
| `dittos` | `MCFs`, `MCFs.cfg` | `Ditto`: 2 processes, 3 blocks, a repair in one transaction, in a world where the disk decays while the system is down and one where it never does and all calls are made | opened files read true (`ReadsAreTrue`), matching checksums are honest (`HonestChecksums`), the last good copy survives (`GoodCopySurvives`), open reports corruption only when no copy holds what was written (`NoFalseAlarm`), dittos mirror the file (`Mirrored`) |
| | | `FsLocks`: 3 processes, all calls but `link` and `duplicate`, nothing corrupted; 1 process with any of file and directory corrupted and any with a ditto | `NoDeadlock`, `NothingKept`, `PanicOnlyIfLost` |
| | | `LogBudget`: the sizes of the code, files of up to 12 blocks, all calls but writes to a file with dittos | `TransactionsFit` |
| `inodes` | `MCInodes`, `MCInodes.cfg` | 2 processes, 8 inodes, 20 blocks, 4 entries to a block, four menus of calls | `NamesSound`, `HeldStays`, `BlocksOwned`, `NothingLost` |
| `drivers` | `MCDrivers`, `MCDrivers.cfg` | `Bcache`: 2 processes, 2 buffers, 3 sectors, 1 pinned | `BuffersShared`, `NothingLost`, `PanicsOnlyWhenFull`, `DiskRequestsEnd` |
| | | `Console`: 2 readers, ring of 3, indices modulo 6, 4 keys | `InputIntact` |
| | | `Spinlock`: 2 CPUs, 2 locks, nested and crossed sections, 2 handlers | `LocksSound` |
| `pipe` | `MCPipe`, `MCPipe.cfg` | 3 processes, pipe of 2 bytes, counters modulo 4, three worlds | FIFO (`Fifo`, refinement of `ByteStream`), `NoMissedWakeup`, `NoUseAfterFree`, `CloseReleases` |
| `proc` | `MCProc`, `MCProc.cfg` | 3 slots; 2 CPUs or 1, 2 or 3 pids, forks that fail, kills of free slots, processes that misbehave | `StacksExclusive`, `NoOrphans`, `NoMissedWakeup`, `KilledWasAsked`; killed processes exit and orphans are reaped |
| `memory` | `MCMemory`, `MCMemory.cfg` | `Vm`: 2 processes, 12 pages, page tables of 2 pages, 5 pages of user space | `PagesExclusive`, `NothingLost`, `SizeIsMapped` |
| | | `Umalloc`: 13 units, chunks of 4, blocks of 2, 3 and 5 | `HeapSound` |
| `sh` | `MCSh`, `MCSh.cfg` | 5 processes, 5 descriptors each, 4 files, 2 pipes, all lines of 2 tokens, many of 3, some longer | `RefsExact`, `PipesExact`, `PlumbedRight`, `PromptReturns` |

Four runs show the code at odds with what its documents, comments or tests say
(`findings` quotes them):

| Run | What happens |
|---|---|
| `ditto_crash` | a crash inside a repair of several transactions leaves a mixture under a matching checksum (`fs.c:540`) |
| `locks_link` | `link` holds the inode and waits for the log, `unlink` the reverse (`sysfile.c:129`) |
| `budget_dittos` | a write of one chunk to a file with two dittos logs too many blocks, and panics (`file.c:133`) |
| `inodes_create` | `create` below a directory that does not exist panics in `distance_to_root` (`fs.c:961`) |

The workloads of the passing runs leave out what the models show to fail
otherwise:

| Where | Property | What happens |
|---|---|---|
| `Ditto`, `rots = "online"`, calls `open` and `write` | `ReadsAreTrue` | mirroring into a decayed replica makes it trusted unverified (`fs.c:737`) |
| `Ditto`, `rots = "offline"`, calls `open` and `unlink` | `ReadsAreTrue` | `unlink` recomputes the checksum of a corrupted file (`sysfile.c:215`) |
| `Ditto`, `rots = "offline"`, calls `open` and `unlink`, or `open`, `write` and `forceopen` | `NoFalseAlarm` | `unlink`, or a forced write, beside a repair gives the dittos the checksum of the corrupted file; after a crash and a decay of the file a ditto that holds the truth is refused (`sysfile.c:215`) |
| `FsLocks`, 2 processes, `ip` corrupted, call `open` | a deadlock as in `NoDeadlock`, which is stated without corruption | two repairs of one file lock file and replica in opposite orders (`fs.c:530`) |
| `FsLocks`, `dp` corrupted, call `creat` | the same | a repair inside `create`'s transaction waits for that transaction (`fs.c:540`) |
| `FsLocks`, call `duplicate` of a file with a ditto | `NothingKept` | `duplicate` returns inside its transaction (`sysfile.c:371`) |
| `FsLocks`, corruption, calls `chdir` or `create` | `PanicOnlyIfLost` | a replica's number, returned by `ilock`, is taken for a lock (`sysfile.c:629`) |
| `Pipe`, killed writers | `NoMissedWakeup` without its hypothesis | a killed writer leaves data and wakes no reader (`pipe.c:85`) |
| `Pipe`, kills | `KilledReturns` | a kill between the test of `killed` and the sleep is lost (`pipe.c:106`) |
| `Proc`, `kill(0)`, or a fork that fails after its child's pid was killed | `KilledWasAsked` without `stray` | a free slot stays marked, and its next process dies at once (`proc.c:409`) |
| `Bcache`, `DiskErrors = TRUE` | `ContentsOfSector` | a failed disk read yields a valid buffer (`ide.c:105`) |

**Bounds.**  Three processes are one that holds, one that waits and one that
comes in between; the calls of one process are unbounded.  Two log blocks for
three sectors allow a transaction to be half installed, and half replayed.  Three
file blocks with a repair of three and a duplication of two make the last chunk
short.  Four entries to a block make a directory grow by a block with its third
name; `RefMax` cuts off reference counts of dittos, which only ever grow, and
`MaxCrash` the number of crashes: a second crash starts from a disk that the first
might have left.  Three sectors over two buffers make every buffer change its
sector, and a queue of two requests is one that is served and one that waits;
`MaxData` is the largest content of a sector: two contents tell a stale one from
the latest.  A ring of three characters is empty, full and wrapped at every
alignment; `MaxTyped` bounds the keys, one more than the ring holds.  A pipe of
two bytes with writes of up to three is full, empty and wrapped at every
alignment of the counters.  Three slots are init, a parent and a child; `maxpid`
bounds the number of forks, and slots are used again before it is reached.
`MaxSleep` is one tick: longer sleeps go round the same loop.  Twelve pages are
too few for two full address spaces, so that memory runs out at every kind of
`kalloc`; five pages of user space need three page tables, the last half used.
`HeapMax` is three chunks and a gap, so that free blocks meet from both sides.
Five processes are the shell, a pipeline of two with its parent, and one more;
`AnyCalls` bounds what a program does on its own.

**Deadlock.**  TLC's own deadlock check is off where the system may stop: all
ends of a pipe closed or all processes asleep in it, the end of a transaction or
of a line, and after a panic.

**Fairness.**  Weak fairness for a process that can run: the scheduler goes round
the table.  In `Log`, also that a call which opened a transaction commits it.
In `Bcache`, that the disk ends what it has started.  In `Pipe`, that a killed
process exits, which closes its descriptors.  In `Sh`, that some process that can
go on does.  In `Proc` each CPU's scheduler and each section that spins for a
lock are strongly fair, because `xchg` spinning gets the lock when it is free
again and again; the timer interrupts every process; init calls `wait` in its
loop (`init.c`).  Nothing makes a user program call anything.

## Proofs

Each proof module holds for every value of the constants that its component's
`ASSUME` admits, or for `Spinlock` and `Console` the hypothesis of the theorem;
TLC evaluates the assumptions in the runs.  Each has an inductive
invariant, which TLC checked on the run's instance before it was proved, one step
per action, and lemmas for the operators that the steps share.

**`LogProofs`**: any processes, sectors, contents and log size.  `TypeCorrect`;
`Consistent`: `LogConsistent`; `Implements`: the refinement of `AtomicDisk`.  The
invariant is `TypeOK /\ LogAgrees`.  Its parts need each other: replaying a block
writes what its pinned buffer holds (`Pinned`), which needs that the header names
a sector once (`NamedOnce`, or a later block would overwrite an earlier one); that
a clean buffer equals the disk (`CleanCoherent`) after an installation needs the
same; that the commit writes exactly the header in memory needs that nobody else
is in a transaction (`OneTrans`, `HeadsAgree`).  In the refinement `stable` is the
home sectors overlaid with the blocks the header on disk names: installing a block
does not change it, erasing the header does not because all blocks are at home,
and writing the header is the one step that does.

**`DittoProofs`**: a file of any length, words of any size, any processes.  In the
worlds that `Repairable` describes, `TrueReads`: `ReadsAreTrue`; `TrueChecksums`:
`HonestChecksums`; `LastCopyKept`: `GoodCopySurvives`; `AlarmIsTrue`:
`NoFalseAlarm`.  In every world, `DittosMirror`: `Mirrored`.  `Repairable` is:
nothing decays; or the disk decays only while the system is down, the file is no
longer than what `irescue` copies in one transaction, and nobody calls
`forceopen` or `unlink`, which go around the check.  Without its second part the
run `ditto_crash` refutes the property, without the others the runs listed above
do; so the theorem says exactly how far the mechanism carries.  The invariant
`Sound` has five parts.  On the disk, every checksum is that of the true content,
and every copy differs from it in at most one block (`OnDisk`): a lemma about
parities (`OneBit`, `OneBlock`) shows that such a copy with a matching checksum is
the true one.  An inode that is `I_VALID` without a check does no harm, because
`ip` is valid and corrupted only under the lock of its repair, and a ditto only
while `ip` is sound (`Trusted`).  A repair reads a sound ditto (`Repairing`), what
`duplicate` has copied so far is true (`Duplicating`), and the lock and the inode
cache are consistent with both (`Busy`).

**`BcacheProofs`**: any processes, buffers, sectors and contents.  `CacheShared`:
`BuffersShared`; `StoresKept`: with a disk that works, `NothingLost`;
`CacheSuffices`: `PanicsOnlyWhenFull`.  The invariant
adds who holds which buffer (`Holding`), that the queue holds exactly the requests
of the processes in `iderw`, each once (`Requests`), and that the controller has
the request at the head of the queue with its data (`Serving`).  For the panic of
`bget`, `Room` adds that the buffers which are dirty and not in the queue, those of
the log, are no more than `log_write` admits: where no buffer can be recycled, each
is busy or one of those.

**`PipeProofs`**: any `PIPESIZE`, any wrap of the counters that is a larger multiple
of it, any processes and workloads.  `Implements`: the refinement of `ByteStream`;
`NoWakeupMissed`: `NoMissedWakeup`; `NobodyInAFreedPipe`: `NoUseAfterFree`.  The
invariant is that the counters differ by at most `PIPESIZE` modulo the wrap
(`Bounded`), that whoever is inside has the descriptor and its end is open
(`Ends`), and `NoMissedWakeup` extended to the moment between the test and the
sleep (`Awake`).  The lemmas are about remainders of remainders: `PutQueue` and
`GetQueue` show that the ring, read from `nread`, is the old stream with bytes
appended or removed, which uses that slots less than `PIPESIZE` apart are
different slots even where a counter wraps.

**`ProcProofs`**: any slots and CPUs.  `StacksAreExclusive`: `StacksExclusive`;
`NobodyOrphaned`: `NoOrphans`; `NoWakeupMissed`: `NoMissedWakeup`; `OnlyAskedKilled`:
`KilledWasAsked`.  The invariant says for every label of the code who is on which
CPU and holds `ptable.lock` (`Placed`), that a child under construction is only its
parent's (`Forking`), that every child has a living parent (`Family`), that who is
about to sleep on ticks has `tickslock` (`Awake`), and that every mark, of a free
slot too, is one that was asked for or is `stray` (`Asked`).

**`SpinlockProofs`**: any CPUs and locks, and any code of processes and handlers
that keeps to `SpinAssumption`: it acquires no lock that it has, releases only
what it has and ends without locks.  That is what the callers in the kernel do,
and what `acquire` and `release` panic about; `ptable.lock`, which `swtch` carries
from one stack to another, is the subject of `ProcProofs`.  `LocksAreSound`: `LocksSound`.  The
invariant is about what `ncli` counts: the locks that the code on top of a CPU's
stack has, and one for the call of `acquire` or `release` that it is in
(`FlagOK`, with `Depth`).  While that is not 0 interrupts are off, so only code
without locks is ever interrupted (`StackOK`); a lock that is set has one CPU that
has it, or is about to record it or to clear it (`LocksOK`, with `Engaged`).  That
`intena` is what the flag was at the outermost `pushcli` is needed because `popcli`
turns interrupts on by it: a handler that did so could be interrupted again.

**`ConsoleProofs`**: a ring of any size, any wrap of its indices that is a larger
multiple of the size, any readers, letters and requests.  `InputIsIntact`:
`InputIntact`, which is inductive once the types are added.  The work is in the
arithmetic: indices count modulo `Wrap` and places modulo `INPUT_BUF`, the lemmas
turn both into distances from `r`, and two distances below `INPUT_BUF` that give
the same place are equal, so that a new character overwrites none that is unread.

**`VmProofs`**: any processes and pages, page tables and user space of any size,
any programs and requests.  `MemoryInvariant`; `PagesAreExclusive`:
`PagesExclusive`; `NothingIsLost`: `NothingLost`; `SizesAreMapped`: `SizeIsMapped`.
The invariant has four ideas.  Every page is in one place (`InOnePlace`: free,
dropped, in one address space, or held by one process as a kernel stack or as a
page not yet mapped), and a step moves pages from one place to another, for which
there is one lemma per kind of move.  Every directory has exactly one process that
owns or builds it (`Owned`), and a child under construction one parent
(`Parents`), so that a failure path frees what nobody else has.  A mapped address
has a page table (`Formed`), without which `deallocuvm` would skip it.  And for
each stage of a call, how far it has come is what is mapped (`ProcOK`: the
directory a call works on maps the addresses below `op[p].va`, that of an idle
process those below its size), unless the directory is `holed`; that is why
`mappages` never maps over a page, and why undoing a failed `allocuvm` leaves what
was there before.  The predicates are about one call, one slot and the
directories, so that a step of one process leaves those of the others alone by
substitution; `Step`, `CallStep` and `TwoStep` say so once for all actions.
`deallocuvm`'s loop is the set `Visited` in closed form, and a run evaluates that
this is what the loop visits, for every directory of five page tables and every
two sizes (`VisitedAssumption`).

Only model-checked: all liveness (`SleepersWoken`,
`DiskRequestsEnd`, `CloseReleases`, `SmallKilledExits`, `SmallOrphansReaped`,
`PromptReturns`), since fairness is out of the prover's reach.  `Inodes`, `Sh` and
`Umalloc` use recursive operators (the closure of the tree of names, the parser,
the walk along the free list), about which the provers can say nothing.  `Files`
has no behaviour of its own outside `Sh`; its `RefsExact` and `PipesExact` are
invariants of that composition.  `LogBudget` computes sums of fixed sizes.
`FsLocks` is a finite state machine but for the number of processes.

## Not modelled

Boot, interrupt controllers, keyboard, serial port and the user programs other
than the shell are straight-line hardware access or clients.  Memory ordering is
taken as the sequentially consistent one that spin locks give.  `readi` and
`writei` at any offset, growth and truncation of a file with dittos, and directory
trees deeper than two are left out.  `components` of `PROJECT.json` says for each
part what is left out of it.
