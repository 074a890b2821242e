----------------------------- MODULE LogBudget -----------------------------
(***************************************************************************)
(* How much a transaction logs: the blocks that the calls of file.c,       *)
(* sysfile.c and fs.c pass to log_write between begin_trans and            *)
(* commit_trans, one after the other, against the size of the log and      *)
(* against the buffers that they pin and hold.                             *)
(*                                                                         *)
(* A file or directory is an inode, the number of its blocks, and its      *)
(* dittos, which have as many.  A block is named after what it holds.  The *)
(* bitmap is one block (mkfs.c makes an image of 2048 blocks).             *)
(***************************************************************************)
EXTENDS Integers, Sequences, FiniteSets, SequencesExt

CONSTANTS
  LOGSIZE, NBUF, NDIRECT,
  Sizes,        \* lengths of files and directories, in blocks
  Workload      \* [op, kids]: calls, and how many dittos their files have

VARIABLES
  todo,         \* what the transaction has still to do
  sectors,      \* log.lh.sector[0..n-1], whose buffers are dirty
  stop          \* the panic that ended it, or ""

budget == <<todo, sectors, stop>>

\* A step of a transaction: log_write of b, or a bread only, while the call
\* holds other buffers.
Log(b, held) == [log |-> TRUE, b |-> b, held |-> held]
Read(b, held) == [log |-> FALSE, b |-> b, held |-> held]

Bitmap == <<"bitmap", 0, 0>>
Super == <<"super", 0, 0>>
Data(i, bn) == <<"data", i, bn>>
Indirect(i) == <<"indirect", i, 0>>

\* IBLOCK: the inodes of a call are in blocks of their own, at worst.
IBLOCK(i) == <<"inodes", i, 0>>

Each(S, op(_)) == FlattenSeq([k \in DOMAIN S |-> op(S[k])])
-----------------------------------------------------------------------------
balloc(b, held) == <<Read(Super, held), Log(Bitmap, held), Log(b, held)>>

\* bmap for block bn of inode i, which has "have" blocks.
bmap(i, bn, have) ==
  LET new(b, held) == IF bn >= have THEN balloc(b, held) ELSE <<>>
  IN  IF bn < NDIRECT THEN new(Data(i, bn), {})
      ELSE (IF have <= NDIRECT THEN balloc(Indirect(i), {}) ELSE <<>>)
           \o <<Read(Indirect(i), {})>> \o new(Data(i, bn), {Indirect(i)})
           \o (IF bn >= have THEN <<Log(Indirect(i), {})>> ELSE <<>>)

\* The loop of writei_ext over the blocks from..to.
WriteBlocks(i, from, to, have) ==
  Each([k \in 1..to - from + 1 |-> from + k - 1],
       LAMBDA bn : bmap(i, bn, IF have > bn THEN have ELSE bn) \o <<Log(Data(i, bn), {})>>)

\* ichecksum, with the inode's buffer held, and then the log_write of it; the
\* last block of the file stands for those that are read.
Summed(i, len) ==
  (IF len = 0 THEN <<>>
   ELSE IF len <= NDIRECT THEN <<Read(Data(i, len - 1), {IBLOCK(i)})>>
   ELSE <<Read(Indirect(i), {IBLOCK(i)}), Read(Data(i, len - 1), {IBLOCK(i)})>>)
  \o <<Log(IBLOCK(i), {})>>

\* iupdate, with cupdate of the dittos.
iupdate(f, len) == Summed(f.i, len) \o Each(f.kids, LAMBDA k : <<Log(IBLOCK(k), {})>>)

Longer(m, n) == IF m > n THEN m ELSE n

\* writei: the blocks from..to, of the file and of its dittos.
writei(f, from, to) ==
  Each(<<f.i>> \o f.kids, LAMBDA i : WriteBlocks(i, from, to, f.len))
    \o iupdate(f, Longer(f.len, to + 1))

ialloc(i) == <<Log(IBLOCK(i), {})>>

\* iput of an inode without links: itrunc, and the inode is free.
Freed(f) ==
  Each([k \in 1..f.len |-> k], LAMBDA k : <<Log(Bitmap, IF k > NDIRECT THEN {Indirect(f.i)} ELSE {})>>)
    \o (IF f.len > NDIRECT THEN <<Log(Bitmap, {})>> ELSE <<>>)
    \o iupdate(f, 0) \o iupdate(f, 0)
-----------------------------------------------------------------------------
File(n, len, kids) == [i |-> n, len |-> len, kids |-> [k \in 1..kids |-> 10 * n + k]]

\* filewrite: a chunk of at most max bytes begins in a block of the file or after
\* the last one, and touches one block more where it is not aligned.
MaxWrite == (LOGSIZE - 1 - 1 - 2) \div 2
WriteCalls(kids) ==
  UNION {{writei(File(1, len, kids), from, from + n - 1) :
            n \in 1..MaxWrite + (IF from < len THEN 1 ELSE 0)} :
         <<len, from>> \in UNION {{l} \X (0..l) : l \in Sizes}}

\* A transaction of irescue: iduplicate calls writei_ext for each block.
MaxRescue == (LOGSIZE - 1 - 1 - 2) \div 4
RescueCalls ==
  UNION {{Each([k \in 1..n |-> from + k - 1],
               LAMBDA bn : WriteBlocks(1, bn, bn, len) \o iupdate(File(1, len, 0), len)) :
            n \in {m \in 1..MaxRescue : from + m <= len}} :
         <<len, from>> \in UNION {{l} \X (0..l) : l \in Sizes}}

\* A transaction of ipropagate, which makes a ditto of len blocks longer.
PropagateCalls == {WriteBlocks(1, len, len + n - 1, len) : len \in Sizes, n \in 1..MaxWrite}

\* The first and the last transaction of duplicate.
DuplicateCalls(kids) ==
  {Each(File(1, 0, kids).kids, ialloc)} \cup {iupdate(File(1, len, kids), len) : len \in Sizes}

\* dirlink takes the first empty entry: in the first block of a directory, the
\* last, or a new one.
Places == UNION {{len} \X {bn \in {0, len - 1, len} : bn >= 0} : len \in Sizes}
dirlink(d, bn) == writei(d, bn, bn)

\* create of a file, and of a directory with its dittos and its dots.
CreateCalls(kids) ==
  {ialloc(2) \o iupdate(File(2, 0, 0), 0) \o dirlink(File(1, len, kids), bn) : <<len, bn>> \in Places}
MkdirCalls(kids) ==
  {LET dp == File(1, len, kids)
       ip == File(2, 0, kids)
   IN  ialloc(2) \o Each(ip.kids, ialloc) \o iupdate(ip, 0) \o iupdate(dp, len)
         \o dirlink(ip, 0) \o dirlink([ip EXCEPT !.len = 1], 0) \o dirlink(dp, bn) :
     <<len, bn>> \in Places}

\* sys_link, and its error path.
LinkCalls(kids) ==
  {iupdate(File(2, 1, kids), 1) \o dirlink(File(1, len, kids), bn) : <<len, bn>> \in Places}
    \cup {iupdate(File(2, 1, kids), 1) \o iupdate(File(2, 1, kids), 1)}

\* sys_unlink of the last name of a file or a directory ip.
UnlinkCalls(kids) ==
  {LET dp == File(1, len, kids)
       ip == File(2, size, kids)
   IN  writei(dp, bn, bn) \o (IF dir THEN iupdate(dp, len) ELSE <<>>)
         \o iupdate(ip, size) \o Freed(ip) :
     <<len, bn>> \in {pl \in Places : pl[2] < pl[1]}, size \in Sizes, dir \in BOOLEAN}

Calls(w) ==
  CASE w.op = "write" -> WriteCalls(w.kids)
    [] w.op = "rescue" -> RescueCalls
    [] w.op = "propagate" -> PropagateCalls
    [] w.op = "duplicate" -> DuplicateCalls(w.kids)
    [] w.op = "create" -> CreateCalls(w.kids)
    [] w.op = "mkdir" -> MkdirCalls(w.kids)
    [] w.op = "link" -> LinkCalls(w.kids)
    [] w.op = "unlink" -> UnlinkCalls(w.kids)
    [] w.op = "close" -> {Freed(File(1, len, w.kids)) : len \in Sizes}

BudgetInit ==
  /\ todo \in UNION {Calls(w) : w \in Workload}
  /\ sectors = <<>> /\ stop = ""
-----------------------------------------------------------------------------
\* Fault for TransactionsFit: a sector is logged again each time.
LoggedTwice(b) == Append(sectors, b)

\* log_write, with absorption.
Logged(b) == IF b \in ToSet(sectors) THEN sectors ELSE Append(sectors, b)

\* Buffers in use while b is: dirty or busy ones, and that of the log block.
InUse(s) == ToSet(sectors) \cup {s.b} \cup s.held \cup (IF s.log THEN {<<"log", 0, 0>>} ELSE {})

Step ==
  LET s == Head(todo)
  IN  /\ todo # <<>> /\ stop = ""
      /\ todo' = Tail(todo)
      /\ stop' = IF s.log /\ Len(sectors) >= LOGSIZE - 1 THEN "too big a transaction"
                 ELSE IF Cardinality(InUse(s)) > NBUF THEN "bget: no buffers" ELSE ""
      /\ sectors' = IF s.log /\ stop' = "" THEN Logged(s.b) ELSE sectors

BudgetSpec == BudgetInit /\ [][Step]_budget
-----------------------------------------------------------------------------
\* A system call fits one transaction: log_write does not panic ("too big a
\* transaction"), whatever the length of the file, the place of the write and
\* the number of dittos, and the buffers that the log pins leave enough for the
\* call itself ("bget: no buffers").
TransactionsFit == stop = ""
=============================================================================
