-------------------------------- MODULE MCFs -------------------------------
(***************************************************************************)
(* Three views of a file with ditto inodes, side by side: its content and  *)
(* checksums (Ditto), the locks of the calls on it (FsLocks), and the size *)
(* of their transactions (LogBudget).  They share no state, and a          *)
(* behaviour moves one of them.                                            *)
(***************************************************************************)
EXTENDS Ditto

CONSTANTS
  Parts,        \* which of the three
  LockWorlds,   \* Worlds of FsLocks
  Transactions  \* Workload of LogBudget

VARIABLES
  part,
  locksOf, holder, logger, suspect, adopted, prog, panicked,  \* FsLocks
  todo, sectors, stop                                         \* LogBudget

locks == <<locksOf, holder, logger, suspect, adopted, prog, panicked>>
transaction == <<todo, sectors, stop>>

\* The disk decays while the system is down; or never, and all calls are made.
DecayOrNot ==
  {[calls |-> {"open", "write", "duplicate"}, rots |-> "offline"],
   [calls |-> {"open", "write", "forceopen", "unlink", "duplicate"}, rots |-> "never"]}

\* Files are opened after a decay, and repaired.
DecayOnly == {[calls |-> {"open"}, rots |-> "offline"]}

\* Three processes make any calls but link and duplicate, on sound inodes.
Callers == {1, 2, 3}
Clean ==
  {[procs |-> Callers, dittos |-> {"ip", "dp"}, suspects |-> {},
    calls |-> {"open", "chdir", "read", "write", "unlink", "unlinkbad", "unlinkdir",
               "create", "creat", "mknod", "mkdirexists", "mkdir"}]}

\* One process meets corruption, with and without dittos.
Repair ==
  [procs : {{1}}, dittos : SUBSET {"ip", "dp"}, suspects : SUBSET {"ip", "dp"},
   calls : {{"open", "read", "write", "unlink", "unlinkbad", "unlinkdir", "link",
             "linkexists", "linkdir", "creat", "mknod", "mkdir", "duplicate1"}}]

CleanOrRepair == Clean \cup Repair

\* link against unlink.
LinkUnlink == {[procs |-> {1, 2}, dittos |-> {"ip"}, suspects |-> {}, calls |-> {"link", "unlink"}]}

\* All transactions but writes to a file with dittos; and those.
Fitting ==
  [op : {"write", "rescue", "propagate"}, kids : {0}] \cup
  [op : {"duplicate", "create", "mkdir", "link", "unlink", "close"}, kids : 0..2]
DittoWrites == [op : {"write"}, kids : 1..2]

Locks == INSTANCE FsLocks WITH
  Proc <- Callers, NoProc <- 0, Worlds <- LockWorlds, world <- locksOf, children <- adopted

\* The sizes of param.h and fs.h.
Budget == INSTANCE LogBudget WITH
  LOGSIZE <- 20, NBUF <- 20, NDIRECT <- 10, Sizes <- 0..12, Workload <- Transactions

AnyOf(S) == CHOOSE x \in S : TRUE

\* What does not move has one initial state.
FsInit ==
  /\ part \in Parts
  /\ Init /\ (part # "ditto" => world = AnyOf(Worlds) /\ truth = AnyOf(Content) /\ children = <<>>)
  /\ Locks!Init /\ (part # "locks" => locksOf = AnyOf(LockWorlds))
  /\ IF part = "budget" THEN Budget!BudgetInit ELSE todo = <<>> /\ sectors = <<>> /\ stop = ""

FsNext ==
  /\ UNCHANGED part
  /\ \/ part = "ditto" /\ Next /\ UNCHANGED <<locks, transaction>>
     \/ part = "locks" /\ Locks!Next /\ UNCHANGED <<vars, transaction>>
     \/ part = "budget" /\ Budget!Step /\ UNCHANGED <<vars, locks>>

FsSpec == FsInit /\ [][FsNext]_<<part, vars, locks, transaction>>

\* No processes wait for each other for ever (FsLocks).
NoDeadlock == Locks!NoDeadlock

\* A call returns with its locks and its transaction released (FsLocks).
NothingKept == Locks!NothingKept

\* Corruption stops the kernel only where a ditto is missing (FsLocks).
PanicOnlyIfLost == Locks!PanicOnlyIfLost

\* A system call fits one transaction (LogBudget).
TransactionsFit == Budget!TransactionsFit
=============================================================================
