------------------------------ MODULE FsLocks ------------------------------
(***************************************************************************)
(* Who waits for whom in the file system: the system calls of sysfile.c    *)
(* and file.c as the sequences of inode locks and log transactions they    *)
(* take, run by any number of processes on one file "ip" in one directory  *)
(* "dp" (the root), either of which may have a ditto inode.                *)
(*                                                                         *)
(* A call is a sequence of steps; what it does to the data is left out.    *)
(*   <<"ilock", x, f, g>>     ilock(x); if x fails its check, x is unlocked *)
(*                            again and the call goes on with f if ilock   *)
(*                            returned E_CORRUPTED, with g if a replica    *)
(*   <<"ilock_trans", x, f>>  ilock_trans(x): a replica repairs x          *)
(*   <<"ilock_ext0", x>>      ilock_ext(x, 0): no check, x becomes valid   *)
(*   <<"update", x>>          writei or iupdate of x, which locks x's ditto *)
(*   <<"adopt", x>>           duplicate's test and allocation of x's ditto *)
(*   <<"iunlock", x>>, <<"begin_trans">>, <<"commit_trans">>, <<"panic">>  *)
(* Buffer locks are taken last, for one block at a time, and are left out. *)
(***************************************************************************)
EXTENDS Integers, Sequences

CONSTANTS
  Proc,      \* processes
  NoProc,    \* "not held"
  Worlds     \* [procs, dittos, suspects, calls]: the processes that run, the
             \* inodes that have a ditto inode at boot, those corrupted on disk
             \* then, and the system calls of the workload

VARIABLES
  world,     \* the world that this behaviour is in
  holder,    \* per inode: process that set I_BUSY
  logger,    \* process that set log.busy
  suspect,   \* inodes whose next check fails: corrupted and not I_VALID
  children,  \* inodes whose child1 is set
  prog,      \* per process: steps left of the system call it is in
  panicked

vars == <<world, holder, logger, suspect, children, prog, panicked>>

Inode == {"ip", "dp", "ip_ditto", "dp_ditto"}

DittoOf(x) == IF x = "ip" THEN "ip_ditto" ELSE "dp_ditto"

Init ==
  /\ world \in Worlds
  /\ holder = [x \in Inode |-> NoProc]
  /\ logger = NoProc
  /\ suspect = world.suspects
  /\ children = world.dittos
  /\ prog = [p \in Proc |-> <<>>]
  /\ panicked = FALSE
-----------------------------------------------------------------------------
(* The system calls.                                                       *)

Begin == <<"begin_trans">>
Commit == <<"commit_trans">>
Panic == <<"panic">>
Unlock(x) == <<"iunlock", x>>
Update(x) == <<"update", x>>
Lock(x, fail) == <<"ilock", x, fail, fail>>
LockTest(x, corrupted, replica) == <<"ilock", x, corrupted, replica>>
LockTrans(x, fail) == <<"ilock_trans", x, fail>>
LockRaw(x) == <<"ilock_ext0", x>>

\* ilock of an inode the call has checked and still holds a reference to, so
\* that it is still I_VALID.
Relock(x) == Lock(x, <<Panic>>)

\* A lock whose result the caller does not look at.
LockIgnored(x, rest) == <<Lock(x, rest)>> \o rest
LockTransIgnored(x, rest) == <<LockTrans(x, rest)>> \o rest

\* namex with trans = 1 on a path of one directory.
NameTrans(fail) == <<LockTrans("dp", fail), Unlock("dp")>>

\* sys_open without O_CREATE, and exec.
Open == NameTrans(<<>>) \o <<LockTrans("ip", <<>>), Unlock("ip")>>

\* sys_chdir to ip, which looks for E_CORRUPTED only.
SysChdir ==
  NameTrans(<<>>) \o <<LockTest("ip", <<>>, <<Unlock("ip")>>), Unlock("ip")>>

\* fileread of an open file.
FileRead == LockTransIgnored("ip", <<Unlock("ip")>>)

\* Fault for NoDeadlock: a write that keeps the lock of its check across
\* begin_trans.
FileWriteKeepsLock ==
  <<LockTrans("ip", <<>>), Begin, Update("ip"), Unlock("ip"), Commit>>

\* filewrite of one chunk to an open file.
FileWrite ==
  <<LockTrans("ip", <<>>), Unlock("ip"), Begin, Relock("ip"), Update("ip"),
    Unlock("ip"), Commit>>

\* Fault for NothingKept: the error return without commit_trans.
UnlinkBadKeepsLog ==
  NameTrans(<<>>) \o <<Begin, Relock("dp"), Unlock("dp")>>

\* sys_unlink of ip's name (ip keeps another one), of a missing name, and of a
\* directory ip that is not empty.
SysUnlink ==
  NameTrans(<<>>) \o <<Begin, Relock("dp"), LockRaw("ip"), Update("dp"),
    Unlock("dp"), Update("ip"), Unlock("ip"), Commit>>
SysUnlinkBad ==
  NameTrans(<<>>) \o <<Begin, Relock("dp"), Unlock("dp"), Commit>>
SysUnlinkDir ==
  NameTrans(<<>>) \o <<Begin, Relock("dp"), LockRaw("ip"), Unlock("ip"),
    Unlock("dp"), Commit>>

\* sys_link of ip to a new name in dp; its error path; a name that exists, which
\* takes that path; a directory ip.
LinkBad == LockIgnored("ip", <<Update("ip"), Unlock("ip"), Commit>>)
SysLink ==
  NameTrans(<<>>) \o LockTransIgnored("ip",
    <<Begin, Update("ip"), Unlock("ip"), Lock("dp", LinkBad), Unlock("dp"),
      Relock("dp"), Update("dp"), Unlock("dp"), Commit>>)
SysLinkExists ==
  NameTrans(<<>>) \o LockTransIgnored("ip",
    <<Begin, Update("ip"), Unlock("ip"), Lock("dp", LinkBad), Unlock("dp"),
      Relock("dp"), Unlock("dp")>> \o LinkBad)
SysLinkDir ==
  NameTrans(<<>>) \o LockTransIgnored("ip", <<Begin, Unlock("ip"), Commit>>)

\* distance_to_root, which dereferences what nameiparent returned, for dp the
\* root: nameiparent, dp, and dp once more as "..".
DistanceToRoot ==
  NameTrans(<<Panic>>)
    \o <<LockTrans("dp", <<Panic>>), Unlock("dp"),
         LockTrans("dp", <<Panic>>), Unlock("dp")>>

\* create up to the lock of the parent; what its caller does if it returns 0.
CreateParent == DistanceToRoot \o NameTrans(<<Commit>>) \o <<Relock("dp")>>

\* sys_open with O_CREATE of an existing file.
CreateExisting ==
  <<Begin>> \o CreateParent \o <<Unlock("dp")>>
    \o LockIgnored("ip", <<Commit, Unlock("ip")>>)

\* sys_open with O_CREATE of a new name; ip is the inode just allocated.
CreateNew ==
  <<Begin>> \o CreateParent
    \o <<LockRaw("ip"), Update("dp"), Unlock("dp"), Commit, Unlock("ip")>>

\* sys_mknod of a new name, and sys_mkdir or sys_mknod of an existing one.
SysMknod ==
  <<Begin>> \o CreateParent
    \o <<LockRaw("ip"), Update("dp"), Unlock("dp"), Unlock("ip"), Commit>>
SysMkdirExists ==
  <<Begin>> \o CreateParent \o <<Unlock("dp")>>
    \o LockIgnored("ip", <<Unlock("ip"), Commit>>)

\* sys_mkdir of a new name; ip, just allocated, has its dittos already.
SysMkdir ==
  <<Begin>> \o CreateParent
    \o <<LockRaw("ip"), Update("ip"), Update("dp"), Update("ip"), Update("dp"),
         Unlock("dp"), Unlock("ip"), Commit>>

\* sys_open with O_CREATE of a name below the file ip: namex returns 0 and
\* distance_to_root passes it on to ilock_trans.
CreateNoParent ==
  <<Begin>> \o NameTrans(<<Panic>>)
    \o <<LockTrans("ip", <<Panic>>), Unlock("ip"), Panic>>

\* sys_duplicate with one ditto.
SysDuplicate ==
  NameTrans(<<>>) \o <<LockTrans("ip", <<>>), Begin, <<"adopt", "ip">>, Commit,
    Begin, LockRaw("ip_ditto"), Unlock("ip_ditto"), Commit, Begin, Commit,
    Begin, Update("ip"), Unlock("ip"), Commit>>

Program ==
  [open |-> Open, chdir |-> SysChdir, read |-> FileRead, write |-> FileWrite,
   unlink |-> SysUnlink, unlinkbad |-> SysUnlinkBad, unlinkdir |-> SysUnlinkDir,
   link |-> SysLink, linkexists |-> SysLinkExists, linkdir |-> SysLinkDir,
   create |-> CreateExisting, creat |-> CreateNew, mknod |-> SysMknod,
   mkdirexists |-> SysMkdirExists, mkdir |-> SysMkdir, noparent |-> CreateNoParent,
   duplicate |-> SysDuplicate, duplicate1 |-> SysDuplicate]
-----------------------------------------------------------------------------
(* The steps.                                                              *)

Runs(p, ops) == ~panicked /\ prog[p] # <<>> /\ Head(prog[p])[1] \in ops

Continue(p, rest) == prog' = [prog EXCEPT ![p] = rest]

\* A process enters a system call.  read and write need an open file, and an
\* open file's inode is I_VALID; duplicate1 is a program that calls duplicate
\* only for a file without dittos.
Call(p, c) ==
  /\ ~panicked
  /\ prog[p] = <<>>
  /\ c \in {"read", "write"} => "ip" \notin suspect
  /\ c = "duplicate1" => "ip" \notin children
  /\ Continue(p, Program[c])
  /\ UNCHANGED <<world, holder, logger, suspect, children, panicked>>

\* Fault for PanicOnlyIfLost: ilock_ext(x, 0) does not make x valid.
IlockNotValid(p) ==
  /\ Runs(p, {"ilock", "ilock_trans", "ilock_ext0"})
  /\ LET x == Head(prog[p])[2]
     IN  /\ holder[x] = NoProc
         /\ x \notin suspect \/ Head(prog[p])[1] = "ilock_ext0"
         /\ holder' = [holder EXCEPT ![x] = p]
  /\ Continue(p, Tail(prog[p]))
  /\ UNCHANGED <<world, logger, suspect, children, panicked>>

\* ilock_ext of an inode that needs no check or passes it.
Ilock(p) ==
  /\ Runs(p, {"ilock", "ilock_trans", "ilock_ext0"})
  /\ LET x == Head(prog[p])[2]
     IN  /\ holder[x] = NoProc
         /\ x \notin suspect \/ Head(prog[p])[1] = "ilock_ext0"
         /\ holder' = [holder EXCEPT ![x] = p]
         /\ suspect' = suspect \ {x}
  /\ Continue(p, Tail(prog[p]))
  /\ UNCHANGED <<world, logger, children, panicked>>

\* irescue(x, its ditto), then ilock_trans's second ilock.
Irescue(x) ==
  <<LockRaw(DittoOf(x)), LockRaw(x), Begin, Commit,
    Unlock(DittoOf(x)), Unlock(x), Lock(x, <<Panic>>)>>

\* ilock_ext of an inode that fails its check: with x locked, its ditto is
\* looked at; then x is unlocked and the ditto's number, or E_CORRUPTED, goes
\* to the caller: ilock_trans, or one that only sees a failure.
IlockFails(p) ==
  /\ Runs(p, {"ilock", "ilock_trans"})
  /\ LET op == Head(prog[p])
         x == op[2]
         d == DittoOf(x)
         look == IF x \in children THEN <<Lock(d, <<Panic>>), Unlock(d)>> ELSE <<>>
         goOn == IF x \notin children THEN op[3]
                 ELSE IF op[1] = "ilock" THEN op[4] ELSE Irescue(x) \o Tail(prog[p])
     IN  /\ holder[x] = NoProc
         /\ x \in suspect
         /\ holder' = [holder EXCEPT ![x] = p]
         /\ Continue(p, look \o <<Unlock(x)>> \o goOn)
  /\ UNCHANGED <<world, logger, suspect, children, panicked>>

\* iunlock tests I_BUSY, not who set it.
Iunlock(p) ==
  /\ Runs(p, {"iunlock"})
  /\ holder[Head(prog[p])[2]] # NoProc
  /\ holder' = [holder EXCEPT ![Head(prog[p])[2]] = NoProc]
  /\ Continue(p, Tail(prog[p]))
  /\ UNCHANGED <<world, logger, suspect, children, panicked>>

\* writei_ext's and cupdate's lock of the ditto of x.
UpdateDitto(p) ==
  /\ Runs(p, {"update"})
  /\ LET d == DittoOf(Head(prog[p])[2])
     IN  Continue(p, (IF Head(prog[p])[2] \in children
                      THEN <<LockRaw(d), Unlock(d)>> ELSE <<>>) \o Tail(prog[p]))
  /\ UNCHANGED <<world, holder, logger, suspect, children, panicked>>

\* duplicate allocates a ditto, or returns at once if there is one.
Adopt(p) ==
  /\ Runs(p, {"adopt"})
  /\ children' = children \cup {Head(prog[p])[2]}
  /\ Continue(p, IF Head(prog[p])[2] \in children THEN <<>> ELSE Tail(prog[p]))
  /\ UNCHANGED <<world, holder, logger, suspect, panicked>>

BeginTrans(p) ==
  /\ Runs(p, {"begin_trans"})
  /\ logger = NoProc
  /\ logger' = p
  /\ Continue(p, Tail(prog[p]))
  /\ UNCHANGED <<world, holder, suspect, children, panicked>>

CommitTrans(p) ==
  /\ Runs(p, {"commit_trans"})
  /\ logger' = NoProc
  /\ Continue(p, Tail(prog[p]))
  /\ UNCHANGED <<world, holder, suspect, children, panicked>>

\* panic, called as such or by iunlock of an inode that is not locked.
DoPanic(p) ==
  /\ \/ Runs(p, {"panic"})
     \/ Runs(p, {"iunlock"}) /\ holder[Head(prog[p])[2]] = NoProc
  /\ panicked' = TRUE
  /\ UNCHANGED <<world, holder, logger, suspect, children, prog>>

Next ==
  \E p \in world.procs :
    \/ \E c \in world.calls : Call(p, c)
    \/ Ilock(p)
    \/ IlockFails(p)
    \/ Iunlock(p)
    \/ UpdateDitto(p)
    \/ Adopt(p)
    \/ BeginTrans(p)
    \/ CommitTrans(p)
    \/ DoPanic(p)

Spec == Init /\ [][Next]_vars
-----------------------------------------------------------------------------
(* Properties.                                                             *)

\* p sleeps in ilock_ext or in begin_trans until q lets go.
WaitsFor(p, q) ==
  \/ /\ Runs(p, {"ilock", "ilock_trans", "ilock_ext0"})
     /\ holder[Head(prog[p])[2]] = q
  \/ Runs(p, {"begin_trans"}) /\ logger = q

\* Without corruption, no set of processes waits for itself: what usertests.c's
\* linkunlink is written "to look for" in link, unlink and create.  And no process
\* ever waits for an inode that it has locked itself, in a repair least of all:
\* irescue unlocks both inodes before ilock_trans locks again.
NoDeadlock ==
  /\ world.suspects = {} =>
       ~\E S \in SUBSET Proc : S # {} /\ \A p \in S : \E q \in S : WaitsFor(p, q)
  /\ \A p \in Proc : Runs(p, {"ilock", "ilock_trans", "ilock_ext0"}) =>
       holder[Head(prog[p])[2]] # p

\* A system call returns with its transaction committed ("should be surrounded
\* with begin_trans() and commit_trans() calls") and its inodes unlocked; and,
\* without corruption, it releases only what it has taken itself.
NothingKept ==
  \A p \in Proc :
    /\ prog[p] = <<>> => logger # p /\ \A x \in Inode : holder[x] # p
    /\ world.suspects = {} =>
         /\ Runs(p, {"iunlock"}) => holder[Head(prog[p])[2]] = p
         /\ Runs(p, {"commit_trans"}) => logger = p

\* Corruption stops the kernel (a panic of iunlock, distance_to_root or
\* ilock_trans) only if an inode is corrupted that has no ditto to be restored
\* from.
PanicOnlyIfLost == panicked => suspect \ children # {}
=============================================================================
