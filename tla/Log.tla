-------------------------------- MODULE Log --------------------------------
(***************************************************************************)
(* The physical redo log of log.c, over the part of the buffer cache it    *)
(* relies on, with a crash possible between any two disk writes.           *)
(*                                                                         *)
(* One action is one disk write together with the memory updates around    *)
(* it, or one critical section of log.lock.  A sector write is atomic, and *)
(* every access to the log's own blocks is a bwrite that completes before  *)
(* the caller goes on ("Log appends are synchronous"), so their cached     *)
(* copies never differ from the disk and only the disk copies are kept.    *)
(* Every caller modelled here brackets its writes with begin_trans and     *)
(* commit_trans, as log.c's header comment asks; "write outside of trans"  *)
(* is the panic of a caller that does not.                                 *)
(***************************************************************************)
EXTENDS Integers, Sequences, FiniteSets

CONSTANTS
  Proc,      \* processes that run file system calls
  Sector,    \* home sectors, outside the log area
  Data,      \* contents of a sector
  NoBuf,     \* "no buffer holds this sector"
  LOGSIZE,   \* capacity of struct logheader (param.h)
  Size       \* log.size: blocks of the on-disk log, header included

ASSUME NoBufAssumption == NoBuf \notin Data
ASSUME SizeAssumption == LOGSIZE \in Nat \ {0} /\ Size \in Nat /\ Size >= 2

VARIABLES
  home,      \* on disk: contents of the home sectors
  logblk,    \* on disk: log block i holds the i-th logged sector
  head,      \* on disk: sectors named by the header block (sector[0..n-1])
  lh,        \* in memory: log.lh, as the sequence sector[0..n-1]
  tail,      \* in memory: install_trans's loop index
  busy,      \* in memory: log.busy
  cache,     \* in memory: buffered contents of each home sector, or NoBuf
  dirty,     \* in memory: sectors whose buffer has B_DIRTY
  phase,     \* what the thread running log code is doing
  pc         \* per process: outside, asleep on &log, woken, or in a transaction

disk == <<home, logblk, head>>
mem == <<lh, tail, busy, cache, dirty>>
vars == <<home, logblk, head, lh, tail, busy, cache, dirty, phase, pc>>

\* Most blocks a transaction may log: log_write's two bounds.
Cap == IF LOGSIZE < Size - 1 THEN LOGSIZE ELSE Size - 1

Slot == 1..Cap

Phase == {"boot", "recover", "run", "install", "end", "panic"}

Logged(h) == {h[i] : i \in 1..Len(h)}

Init ==
  /\ home \in [Sector -> Data]
  /\ logblk \in [Slot -> Data]
  /\ head = <<>>
  /\ lh = <<>>
  /\ tail = 0
  /\ busy = FALSE
  /\ cache = [s \in Sector |-> NoBuf]
  /\ dirty = {}
  /\ phase = "boot"
  /\ pc = [p \in Proc |-> "out"]
-----------------------------------------------------------------------------
(* Recovery: initlog, run by the first process before any other exists.    *)

\* read_head
ReadHead ==
  /\ phase = "boot"
  /\ lh' = head
  /\ tail' = 0
  /\ phase' = "recover"
  /\ UNCHANGED <<disk, busy, cache, dirty, pc>>

\* Fault for Atomic: one block too few is installed before the erase.
LoopEndsEarly == tail + 1 >= Len(lh)

\* The exit condition of install_trans's loop.
Installed == tail = Len(lh)

\* One iteration of install_trans, called by recovery and by commit.
InstallTrans ==
  /\ phase \in {"recover", "install"}
  /\ tail < Len(lh)
  /\ LET s == lh[tail + 1]
         d == logblk[tail + 1]
     IN  /\ home' = [home EXCEPT ![s] = d]
         /\ cache' = [cache EXCEPT ![s] = d]
         /\ dirty' = dirty \ {s}
  /\ tail' = tail + 1
  /\ UNCHANGED <<logblk, head, lh, busy, phase, pc>>

\* The log.lh.n = 0; write_head() that ends both recovery and commit.
EraseHead ==
  /\ phase \in {"recover", "install"}
  /\ Installed
  /\ lh' = <<>>
  /\ head' = <<>>
  /\ phase' = IF phase = "recover" THEN "run" ELSE "end"
  /\ UNCHANGED <<home, logblk, tail, busy, cache, dirty, pc>>
-----------------------------------------------------------------------------
(* Transactions.                                                           *)

\* begin_trans finds log.busy clear, on entry or after having been woken.
BeginTrans(p) ==
  /\ phase = "run"
  /\ pc[p] \in {"out", "woken"}
  /\ ~busy
  /\ busy' = TRUE
  /\ pc' = [pc EXCEPT ![p] = "trans"]
  /\ UNCHANGED <<disk, lh, tail, cache, dirty, phase>>

\* begin_trans finds log.busy set and sleeps on &log.
BeginSleep(p) ==
  /\ phase \in {"run", "install", "end"}
  /\ pc[p] \in {"out", "woken"}
  /\ busy
  /\ pc' = [pc EXCEPT ![p] = "asleep"]
  /\ UNCHANGED <<disk, mem, phase>>

\* The log slot of sector s: its own when it is logged already (absorption).
SlotOf(h, s) ==
  IF s \in Logged(h) THEN CHOOSE i \in 1..Len(h) : h[i] = s ELSE Len(h) + 1

\* log_write's first test.
Room == Len(lh) < Cap

\* The holder of a buffer changes it to d and calls log_write.
LogWrite(p, s, d) ==
  /\ phase = "run"
  /\ pc[p] = "trans"
  /\ cache[s] # NoBuf
  /\ Room
  /\ cache' = [cache EXCEPT ![s] = d]
  /\ logblk' = [logblk EXCEPT ![SlotOf(lh, s)] = d]
  /\ lh' = IF s \in Logged(lh) THEN lh ELSE Append(lh, s)
  /\ dirty' = dirty \cup {s}
  /\ UNCHANGED <<home, head, tail, busy, phase, pc>>

\* log_write's panic("too big a transaction"), before it looks for absorption.
TooBig(p) ==
  /\ phase = "run"
  /\ pc[p] = "trans"
  /\ ~Room
  /\ phase' = "panic"
  /\ UNCHANGED <<disk, mem, pc>>

\* commit_trans of a transaction that logged something: "the real commit".
CommitHead(p) ==
  /\ phase = "run"
  /\ pc[p] = "trans"
  /\ lh # <<>>
  /\ head' = lh
  /\ tail' = 0
  /\ phase' = "install"
  /\ UNCHANGED <<home, logblk, lh, busy, cache, dirty, pc>>

\* Fault for SleepersWoken: the wakeup is missing.
WakeupNobody == pc

\* wakeup(&log)
WakeupLog == [q \in Proc |-> IF pc[q] = "asleep" THEN "woken" ELSE pc[q]]

\* The end of commit_trans: clear log.busy and wake everybody on &log.
CommitEnd(p) ==
  /\ phase = "end" \/ (phase = "run" /\ lh = <<>>)
  /\ pc[p] = "trans"
  /\ busy' = FALSE
  /\ phase' = "run"
  /\ pc' = [WakeupLog EXCEPT ![p] = "out"]
  /\ UNCHANGED <<disk, lh, tail, cache, dirty>>
-----------------------------------------------------------------------------
(* The buffer cache as the log needs it, and the machine's failures.       *)

\* bread of a sector no buffer holds; readers need no transaction.
Bread(s) ==
  /\ phase \in {"run", "install", "end"}
  /\ cache[s] = NoBuf
  /\ cache' = [cache EXCEPT ![s] = home[s]]
  /\ UNCHANGED <<disk, lh, tail, busy, dirty, phase, pc>>

\* Fault for LogConsistent: B_DIRTY does not pin the buffer.
RecyclableDirty(s) == cache[s] # NoBuf

\* bget's test of a buffer it may recycle.
Recyclable(s) == cache[s] # NoBuf /\ s \notin dirty

\* bget recycles a clean buffer.
Recycle(s) ==
  /\ phase \in {"run", "install", "end"}
  /\ Recyclable(s)
  /\ cache' = [cache EXCEPT ![s] = NoBuf]
  /\ UNCHANGED <<disk, lh, tail, busy, dirty, phase, pc>>

\* Power failure or reset, at any time; a panicked machine is reset too.
Crash ==
  /\ lh' = <<>>
  /\ tail' = 0
  /\ busy' = FALSE
  /\ cache' = [s \in Sector |-> NoBuf]
  /\ dirty' = {}
  /\ phase' = "boot"
  /\ pc' = [p \in Proc |-> "out"]
  /\ UNCHANGED disk

Commit(p) == CommitHead(p) \/ CommitEnd(p)

Next ==
  \/ ReadHead
  \/ InstallTrans
  \/ EraseHead
  \/ \E p \in Proc :
       \/ BeginTrans(p)
       \/ BeginSleep(p)
       \/ \E s \in Sector, d \in Data : LogWrite(p, s, d)
       \/ TooBig(p)
       \/ CommitHead(p)
       \/ CommitEnd(p)
  \/ \E s \in Sector : Bread(s) \/ Recycle(s)
  \/ Crash

Spec == Init /\ [][Next]_vars

\* A thread that can run does run, and a system call that opened a
\* transaction reaches its commit_trans (or panics on the way).
Fairness ==
  /\ WF_vars(ReadHead)
  /\ WF_vars(InstallTrans)
  /\ WF_vars(EraseHead)
  /\ \A p \in Proc : WF_vars(Commit(p))

FairSpec == Spec /\ Fairness
-----------------------------------------------------------------------------
(* Properties.                                                             *)

TypeOK ==
  /\ home \in [Sector -> Data]
  /\ logblk \in [Slot -> Data]
  /\ head \in Seq(Sector) /\ Len(head) <= Cap
  /\ lh \in Seq(Sector) /\ Len(lh) <= Cap
  /\ tail \in 0..Cap
  /\ busy \in BOOLEAN
  /\ cache \in [Sector -> Data \cup {NoBuf}]
  /\ dirty \subseteq Sector
  /\ phase \in Phase
  /\ pc \in [Proc -> {"out", "asleep", "woken", "trans"}]

\* The home sectors with the blocks of header h laid over them: what
\* recover_from_log turns the disk into.
Overlay(h) ==
  [s \in Sector |-> IF s \in Logged(h) THEN logblk[SlotOf(h, s)] ELSE home[s]]

\* What bread returns for each sector.
View == [s \in Sector |-> IF cache[s] = NoBuf THEN home[s] ELSE cache[s]]

Down == phase \in {"boot", "recover"}

Trans ==
  IF Down THEN "down"
  ELSE IF phase \in {"install", "end"} THEN "committed"
  ELSE IF busy THEN "open" ELSE "none"

AD == INSTANCE AtomicDisk
        WITH stable <- Overlay(head),
             view <- IF Down THEN Overlay(head) ELSE View,
             trans <- Trans

\* log.c implements a disk with atomic transactions: whatever the moment of
\* the crash, also inside commit_trans or inside the recovery from an earlier
\* crash, a reboot finds all of a transaction's writes or none, and finds all
\* of them once commit_trans has returned.
Atomic == AD!Init /\ [][AD!Next]_(AD!vars)

\* A header names a sector at most once: log_write absorbs repeated writes.
NamedOnce(h) == \A i, j \in 1..Len(h) : h[i] = h[j] => i = j

\* log.busy is set exactly while one process is inside a transaction.
OneTrans ==
  /\ \A p, q \in Proc : pc[p] = "trans" /\ pc[q] = "trans" => p = q
  /\ busy <=> \E p \in Proc : pc[p] = "trans"
  /\ Down => ~busy
  /\ phase \in {"install", "end", "panic"} => busy

\* Where the header on disk and the one in memory are empty or equal.
HeadsAgree ==
  /\ phase \in {"run", "end", "panic"} => head = <<>>
  /\ phase \in {"recover", "install"} => head = lh /\ tail <= Len(lh)
  /\ phase \in {"boot", "end"} \/ (phase = "run" /\ ~busy) => lh = <<>>

\* The blocks that wait to be installed have pinned buffers equal to the log.
Pinned ==
  /\ phase \in {"run", "panic"} => dirty = Logged(lh)
  /\ phase = "install" => dirty = {lh[i] : i \in tail + 1..Len(lh)}
  /\ Down \/ phase = "end" => dirty = {}
  /\ ~Down => \A i \in 1..Len(lh) : lh[i] \in dirty => cache[lh[i]] = logblk[i]

\* The blocks already installed are at home.
Replayed ==
  phase \in {"recover", "install"} => \A i \in 1..tail : home[lh[i]] = logblk[i]

\* A buffer without B_DIRTY equals the disk.
CleanCoherent == \A s \in Sector \ dirty : cache[s] \in {NoBuf, home[s]}

\* The log's parts agree ("only one system call can be in a transaction",
\* B_DIRTY "prevent eviction"): the header names each sector once, a waiting
\* block's buffer is pinned and equal to the log, an installed block is at
\* home, a clean buffer equals the disk.  With TypeOK this is inductive.
LogAgrees ==
  /\ NamedOnce(lh)
  /\ NamedOnce(head)
  /\ OneTrans
  /\ HeadsAgree
  /\ Pinned
  /\ Replayed
  /\ CleanCoherent

\* log_write never overruns the log, and header, log, buffers and home sectors
\* agree, which makes replaying the log after a crash idempotent.
LogConsistent ==
  /\ Len(lh) <= Cap /\ Len(head) <= Cap
  /\ LogAgrees

\* begin_trans's sleep loop: commit_trans wakes every process waiting for the
\* log, unless the machine panics.
SleepersWoken ==
  \A p \in Proc : pc[p] = "asleep" ~> pc[p] # "asleep" \/ phase = "panic"
=============================================================================
