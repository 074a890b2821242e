------------------------------- MODULE Ditto -------------------------------
(***************************************************************************)
(* One file of the zv6 file system, its checksum and its ditto inodes:     *)
(* verification in ilock_ext, repair in ilock_trans and irescue, mirroring *)
(* in writei_ext, iupdate_ext and cupdate, creation of dittos in           *)
(* sys_duplicate, with corruption of the disk and crashes.                 *)
(*                                                                         *)
(* A copy of the file is the inode itself ("ip") or a ditto ("child1",     *)
(* "child2").  A block is one word (a set of bits) and a transaction is    *)
(* one step, which the log makes crash-atomic (module Log).  A system call *)
(* that holds ip's lock from beginning to end is one step; irescue and     *)
(* ipropagate commit several transactions under the lock, and a crash may  *)
(* come between them.  The order in which locks are taken, and waiting for *)
(* the log, are module FsLocks's subject: here the locks of ip and of its  *)
(* dittos are taken together.                                              *)
(*                                                                         *)
(* The references that the code takes on dittos with iget are never        *)
(* dropped, so a ditto stays in the inode cache until the next boot.       *)
(***************************************************************************)
EXTENDS Integers, Sequences, FiniteSets

CONSTANTS
  Proc,        \* processes
  NoProc,      \* "nobody holds ip's lock"
  NBlock,      \* length of the file in blocks
  Bit,         \* bits of a block
  RescueMax,   \* blocks irescue copies per transaction (4 in the code)
  DupMax,      \* blocks ipropagate copies per transaction (8 in the code)
  Worlds       \* [calls, rots]: the system calls of the workload, and when
               \* the disk decays: "never", "offline" (cfs.c corrupts the image
               \* of a stopped system), or "online" as well

ASSUME DittoAssumption ==
  /\ NoProc \notin Proc
  /\ NBlock \in Nat \ {0} /\ RescueMax \in Nat \ {0} /\ DupMax \in Nat \ {0}
  /\ Worlds \subseteq [calls : SUBSET {"open", "write", "forceopen", "unlink", "duplicate"},
                        rots : {"never", "offline", "online"}]

VARIABLES
  world,     \* the world that this behaviour is in
  truth,     \* what the last completed writes made the file's content
  data,      \* on disk: content of each copy
  sum,       \* on disk: checksum field of each copy's dinode
  children,  \* on disk: ip's child1, child2
  incore,    \* copies with an inode cache entry (ref > 0)
  valid,     \* copies whose entry has I_VALID
  leaked,    \* has a failed open left a reference on ip?
  lock,      \* process that holds ip's lock between steps
  pc,        \* per process: "user", "rescue" (about to call irescue),
             \* "copy" (inside irescue), "dup" (inside duplicate)
  src,       \* per process: the replica irescue reads, the dittos duplicate fills
  pos,       \* per process: blocks copied so far
  fd         \* per process: "none", "open", or "forced" (by forceopen)

disk == <<data, sum, children>>
local == <<pc, src, pos>>
vars == <<world, truth, data, sum, children, incore, valid, leaked, lock, pc, src, pos, fd>>

Block == 0..NBlock - 1
Word == SUBSET Bit
Content == [Block -> Word]
Copy == {"ip", "child1", "child2"}

\* ichecksum: the XOR of all words, i.e. the bits set in an odd number of them.
Checksum(d) == {b \in Bit : Cardinality({i \in Block : b \in d[i]}) % 2 = 1}

Dittos == {children[i] : i \in DOMAIN children}
Copies == {"ip"} \cup Dittos

Init ==
  /\ world \in Worlds
  /\ truth \in Content
  /\ data = [c \in Copy |-> truth]
  /\ sum = [c \in Copy |-> Checksum(truth)]
  /\ children \in {<<>>, <<"child1">>, <<"child1", "child2">>}
  /\ incore = {}
  /\ valid = {}
  /\ leaked = FALSE
  /\ lock = NoProc
  /\ pc = [p \in Proc |-> "user"]
  /\ src = [p \in Proc |-> <<>>]
  /\ pos = [p \in Proc |-> 0]
  /\ fd = [p \in Proc |-> "none"]
-----------------------------------------------------------------------------
(* Locking with verification.                                              *)

\* Fault for ReadsAreTrue: the entry is trusted unread.
AlwaysLockable(c) == TRUE

\* ilock_ext(c, 1) = 0: an entry read before is trusted, another is verified.
Lockable(c) == c \in valid \/ sum[c] = Checksum(data[c])

\* The replica loop of ilock_ext, over the dittos in order: i is the one chosen.
ReplicaFound(i) ==
  /\ i \in DOMAIN children
  /\ Lockable(children[i])
  /\ \A j \in 1..i - 1 : ~Lockable(children[j])

Starts(p, call) == call \in world.calls /\ pc[p] = "user" /\ lock = NoProc

\* sys_open when ip's checksum matches or ip is valid already.
OpenOk(p) ==
  /\ Starts(p, "open") /\ fd[p] = "none"
  /\ Lockable("ip")
  /\ incore' = incore \cup {"ip"}
  /\ valid' = valid \cup {"ip"}
  /\ fd' = [fd EXCEPT ![p] = "open"]
  /\ UNCHANGED <<world, truth, disk, leaked, lock, local>>

\* sys_open when it does not, but a ditto can be locked: ilock returns the
\* ditto's number with ip unlocked, and ilock_trans goes on to irescue.
OpenRescue(p) ==
  /\ Starts(p, "open") /\ fd[p] = "none"
  /\ ~Lockable("ip")
  /\ \E i \in DOMAIN children :
       /\ ReplicaFound(i)
       /\ incore' = incore \cup {"ip"} \cup {children[j] : j \in 1..i}
       /\ valid' = valid \cup {children[i]}
       /\ src' = [src EXCEPT ![p] = <<children[i]>>]
  /\ pc' = [pc EXCEPT ![p] = "rescue"]
  /\ UNCHANGED <<world, truth, disk, leaked, lock, pos, fd>>

\* sys_open returns E_CORRUPTED, without iput.
OpenCorrupted(p) ==
  /\ Starts(p, "open") /\ fd[p] = "none"
  /\ ~Lockable("ip")
  /\ ~\E i \in DOMAIN children : ReplicaFound(i)
  /\ incore' = incore \cup Copies
  /\ leaked' = TRUE
  /\ UNCHANGED <<world, truth, disk, valid, lock, local, fd>>

\* sys_forceopen: ilock_ext(ip, 0) marks ip valid without verifying it.
ForceOpen(p) ==
  /\ Starts(p, "forceopen") /\ fd[p] = "none"
  /\ incore' = incore \cup {"ip"}
  /\ valid' = valid \cup {"ip"}
  /\ fd' = [fd EXCEPT ![p] = "forced"]
  /\ UNCHANGED <<world, truth, disk, leaked, lock, local>>

\* Does anyone but p refer to ip's cache entry?
Referenced(p) ==
  leaked \/ \E q \in Proc \ {p} : fd[q] # "none" \/ pc[q] # "user"

\* sys_close: iput recycles ip's entry when nobody else refers to it.
Close(p) ==
  /\ pc[p] = "user" /\ fd[p] # "none"
  /\ fd' = [fd EXCEPT ![p] = "none"]
  /\ incore' = IF Referenced(p) THEN incore ELSE incore \ {"ip"}
  /\ valid' = IF Referenced(p) THEN valid ELSE valid \ {"ip"}
  /\ UNCHANGED <<world, truth, disk, leaked, lock, local>>
-----------------------------------------------------------------------------
(* Repair: irescue, called by ilock_trans.                                 *)

\* Fault for HonestChecksums: a chunk lacks its last block.
ChunkShort(p, max) == {b \in Block : pos[p] <= b /\ b < pos[p] + max - 1}

\* The blocks of the next transaction of at most max blocks.
Chunk(p, max) == {b \in Block : pos[p] <= b /\ b < pos[p] + max}

Advance(p, max) == IF pos[p] + max < NBlock THEN pos[p] + max ELSE NBlock

\* Both inodes are locked with ilock_ext(_, 0), which marks them valid.
RescueLock(p) ==
  /\ pc[p] = "rescue" /\ lock = NoProc
  /\ lock' = p
  /\ valid' = valid \cup {"ip", src[p][1]}
  /\ pos' = [pos EXCEPT ![p] = 0]
  /\ pc' = [pc EXCEPT ![p] = "copy"]
  /\ UNCHANGED <<world, truth, disk, incore, leaked, src, fd>>

\* One transaction: iduplicate copies a chunk, and the iupdate_ext at the end
\* of each writei_ext recomputes ip's checksum from the blocks as they are now.
RescueChunk(p) ==
  /\ pc[p] = "copy" /\ pos[p] < NBlock
  /\ LET d == [b \in Block |-> IF b \in Chunk(p, RescueMax)
                               THEN data[src[p][1]][b] ELSE data["ip"][b]]
     IN  /\ data' = [data EXCEPT !["ip"] = d]
         /\ sum' = [sum EXCEPT !["ip"] = Checksum(d)]
  /\ pos' = [pos EXCEPT ![p] = Advance(p, RescueMax)]
  /\ UNCHANGED <<world, truth, children, incore, valid, leaked, lock, pc, src, fd>>

\* irescue returns; ilock_trans's second ilock finds ip valid; open succeeds.
RescueDone(p) ==
  /\ pc[p] = "copy" /\ pos[p] = NBlock
  /\ lock' = NoProc
  /\ pc' = [pc EXCEPT ![p] = "user"]
  /\ fd' = [fd EXCEPT ![p] = "open"]
  /\ UNCHANGED <<world, truth, disk, incore, valid, leaked, src, pos>>
-----------------------------------------------------------------------------
(* Updates.                                                                *)

\* Faults for GoodCopySurvives, and for Mirrored and NoFalseAlarm: no checksum is
\* recomputed; the dittos' are not.
SummedStale(d, kids) == sum
SummedParentOnly(d, kids) == [sum EXCEPT !["ip"] = Checksum(d["ip"])]

\* iupdate: ip's checksum is recomputed, and cupdate gives it to the dittos.
Summed(d, kids) ==
  [c \in Copy |-> IF c = "ip" \/ c \in kids THEN Checksum(d["ip"]) ELSE sum[c]]

\* filewrite of block b: writei stores it in ip and, through ilock_ext(_, 0),
\* in the dittos, then iupdate; one transaction.
Write(p, b, w) ==
  /\ Starts(p, "write") /\ fd[p] # "none"
  /\ data' = [c \in Copy |-> IF c \in Copies THEN [data[c] EXCEPT ![b] = w]
                                             ELSE data[c]]
  /\ sum' = Summed(data', Dittos)
  /\ truth' = [truth EXCEPT ![b] = w]
  /\ incore' = incore \cup Dittos
  /\ valid' = valid \cup Dittos
  /\ UNCHANGED <<world, children, leaked, lock, local, fd>>

\* sys_unlink of one of several names: ilock_ext(ip, 0), nlink--, iupdate, iput.
Unlink(p) ==
  /\ Starts(p, "unlink")
  /\ sum' = Summed(data, Dittos)
  /\ incore' = incore \cup Dittos
  /\ valid' = valid \cup Dittos \cup ({"ip"} \cap incore)
  /\ UNCHANGED <<world, truth, data, children, leaked, lock, local, fd>>

\* duplicate of a file that has no dittos, up to the first commit_trans.
DupStart(p) ==
  /\ Starts(p, "duplicate")
  /\ children = <<>>
  /\ Lockable("ip")
  /\ \E kids \in {<<"child1">>, <<"child1", "child2">>} :
       src' = [src EXCEPT ![p] = kids]
  /\ incore' = incore \cup {"ip"}
  /\ valid' = valid \cup {"ip"}
  /\ lock' = p
  /\ pos' = [pos EXCEPT ![p] = 0]
  /\ pc' = [pc EXCEPT ![p] = "dup"]
  /\ UNCHANGED <<world, truth, disk, leaked, fd>>

\* duplicate returns because ip is corrupted, without iput.
DupCorrupted(p) ==
  /\ Starts(p, "duplicate")
  /\ children = <<>>
  /\ ~Lockable("ip")
  /\ incore' = incore \cup {"ip"}
  /\ leaked' = TRUE
  /\ UNCHANGED <<world, truth, disk, valid, lock, local, fd>>

\* ipropagate copies a chunk to each ditto; nothing on disk refers to them yet.
DupChunk(p) ==
  /\ pc[p] = "dup" /\ pos[p] < NBlock
  /\ data' = [c \in Copy |->
               [b \in Block |-> IF c \in {src[p][i] : i \in DOMAIN src[p]}
                                   /\ b \in Chunk(p, DupMax)
                                THEN data["ip"][b] ELSE data[c][b]]]
  /\ pos' = [pos EXCEPT ![p] = Advance(p, DupMax)]
  /\ UNCHANGED <<world, truth, sum, children, incore, valid, leaked, lock, pc, src, fd>>

\* The last transaction of duplicate: iupdate writes child1, child2 and the
\* dittos' dinodes, and iunlockput drops ip.
DupDone(p) ==
  /\ pc[p] = "dup" /\ pos[p] = NBlock
  /\ children' = src[p]
  /\ LET kids == {src[p][i] : i \in DOMAIN src[p]}
         drop == IF Referenced(p) \/ fd[p] # "none" THEN {} ELSE {"ip"}
     IN  /\ sum' = Summed(data, kids)
         /\ incore' = (incore \cup kids) \ drop
         /\ valid' = (valid \cup kids) \ drop
  /\ lock' = NoProc
  /\ pc' = [pc EXCEPT ![p] = "user"]
  /\ UNCHANGED <<world, truth, data, leaked, src, pos, fd>>
-----------------------------------------------------------------------------
(* The environment.                                                        *)

\* One block of a copy that the system has not loaded is altered on disk.  A
\* copy is altered in one block at most: XOR detects that, and only that.
Rot(c, b) ==
  /\ c \in Copies \ incore
  /\ world.rots = "online" \/ (world.rots = "offline" /\ incore = {})
  /\ data[c] = truth
  /\ \E w \in Word \ {truth[b]} : data' = [data EXCEPT ![c][b] = w]
  /\ UNCHANGED <<world, truth, sum, children, incore, valid, leaked, lock, local, fd>>

\* Crash and reboot: the log has made every transaction whole or absent.
Crash ==
  /\ incore' = {}
  /\ valid' = {}
  /\ leaked' = FALSE
  /\ lock' = NoProc
  /\ pc' = [p \in Proc |-> "user"]
  /\ src' = [p \in Proc |-> <<>>]
  /\ pos' = [p \in Proc |-> 0]
  /\ fd' = [p \in Proc |-> "none"]
  /\ UNCHANGED <<world, truth, disk>>

Next ==
  \/ \E p \in Proc :
       \/ OpenOk(p) \/ OpenRescue(p) \/ OpenCorrupted(p)
       \/ ForceOpen(p) \/ Close(p)
       \/ RescueLock(p) \/ RescueChunk(p) \/ RescueDone(p)
       \/ \E b \in Block, w \in Word : Write(p, b, w)
       \/ Unlink(p)
       \/ DupStart(p) \/ DupCorrupted(p) \/ DupChunk(p) \/ DupDone(p)
  \/ \E c \in Copy, b \in Block : Rot(c, b)
  \/ Crash

Spec == Init /\ [][Next]_vars
-----------------------------------------------------------------------------
(* Properties.                                                             *)

\* What ilock's check is for ("to determine if a file is corrupted, the
\* checksum is recomputed then compared against the stored value"): a process
\* that opened the file with open reads exactly what was written to it, through
\* any corruption, repair and crash before.
ReadsAreTrue ==
  \A p \in Proc : fd[p] = "open" /\ lock = NoProc => data["ip"] = truth

\* On disk, where a crash would leave it, a copy whose checksum matches is
\* uncorrupted, in the middle of the calls too.  A repair of more than one
\* transaction refutes it (RescueMax < NBlock), between two of them.
HonestChecksums ==
  \A c \in Copies : sum[c] = Checksum(data[c]) => data[c] = truth

Intact(c) == data[c] = truth /\ sum[c] = Checksum(truth)

\* Without corruption, every ditto mirrors ip exactly, in content and in
\* checksum, whatever system calls run and wherever they crash.
Mirrored ==
  world.rots = "never" => \A c \in Dittos : data[c] = data["ip"] /\ sum[c] = sum["ip"]

\* No system call and no crash destroys the last uncorrupted copy; only
\* further corruption of the disk can.
GoodCopySurvives ==
  [][(\E c \in Copies : Intact(c)) /\ (\A c \in Copy, b \in Block : ~Rot(c, b))
       => (\E c \in Copies : Intact(c))']_vars

\* open reports E_CORRUPTED only if every copy of the file has lost its content:
\* no sequence of writes, duplications, repairs and crashes leaves a ditto that
\* still holds what was written with a checksum that speaks against it.
NoFalseAlarm ==
  [][\A p \in Proc : OpenCorrupted(p) => \A c \in Copies : data[c] # truth]_vars
=============================================================================
