------------------------------ MODULE Inodes -------------------------------
(***************************************************************************)
(* Inodes, blocks, directories and names: fs.c, and the calls of sysfile.c *)
(* that use them, on an image that mkfs.c has made.                        *)
(*                                                                         *)
(* fs is the file system as the buffer cache shows it, with the reference  *)
(* counts of the inode cache; safe is what a crash leaves, the state after *)
(* the last commit.  Walking a path takes a step for each component, under *)
(* the lock of that directory; the body of a call is a step in the middle  *)
(* of its transaction.  The copies that ditto inodes hold are in Ditto.    *)
(***************************************************************************)
EXTENDS Integers, Sequences, FiniteSets, FiniteSetsExt, SequencesExt

CONSTANTS
  Proc,
  NInum,        \* sb.ninodes
  SIZE, META,   \* blocks of the image, and those before the data blocks
  EPB,          \* directory entries in a block
  NDIRECT, MAXFILE,
  NINODE,       \* size of the inode cache
  DITTO_LOWER, DITTO_HIGHER,
  Menus,        \* what a behaviour has: [files: names of the files that mkfs
                \* puts into the image, calls: a set of [op, abs, path, new]]
  RefMax,       \* where the counts of ditto inodes, never dropped, are cut off
  MaxCrash

VARIABLES fs, safe, log, cwd, file, call, crashes, detached, menu

vars == <<fs, safe, log, cwd, file, call, crashes, detached, menu>>

Inum == 1..NInum
ROOTINO == 1
None == 0

\* ents: directory entries; addrs: data blocks; ind: the indirect block.
Free == [type |-> "FREE", nlink |-> 0, ents |-> <<>>, kids |-> <<>>, addrs |-> <<>>, ind |-> 0]
Entry(name, inum) == [name |-> name, inum |-> inum]
NoEntry == Entry("", 0)

Disk(s) == [ino |-> s.ino, used |-> s.used]

\* What follows a panic does not happen.
Halt(s, why) == IF s.stop = "" THEN [s EXCEPT !.stop = why] ELSE s
-----------------------------------------------------------------------------
(* Blocks and inodes.                                                      *)

FreeBlocks(s) == (0..SIZE - 1) \ s.used
NextBlock(s) == Min(FreeBlocks(s))
balloc(s) == [s EXCEPT !.used = @ \cup {NextBlock(s)}]

\* bmap for the block bn >= 1 that follows the blocks of i, with the indirect
\* block before it where that is needed.
bmap(s, i, bn) ==
  LET ind == bn = NDIRECT + 1
      s1 == IF ind THEN [balloc(s) EXCEPT !.ino[i].ind = NextBlock(s)] ELSE s
  IN  IF s.stop # "" \/ bn <= Len(s.ino[i].addrs) THEN s
      ELSE IF Cardinality(FreeBlocks(s)) < (IF ind THEN 2 ELSE 1)
      THEN Halt(s, "balloc: out of blocks")
      ELSE [balloc(s1) EXCEPT !.ino[i].addrs = Append(@, NextBlock(s1))]

BlocksOf(n) == ToSet(n.addrs) \cup ({n.ind} \ {0})

bfree(s, blocks) ==
  IF blocks \subseteq s.used THEN [s EXCEPT !.used = @ \ blocks]
  ELSE Halt(s, "freeing free block")

\* Fault for BlocksOwned: the indirect block stays marked.
itruncDirect(s, i) ==
  [bfree(s, ToSet(s.ino[i].addrs)) EXCEPT !.ino[i].addrs = <<>>, !.ino[i].ind = 0]

itrunc(s, i) ==
  [bfree(s, BlocksOf(s.ino[i])) EXCEPT !.ino[i].addrs = <<>>, !.ino[i].ind = 0]

iget(s, i) ==
  IF s.ref[i] = 0 /\ Cardinality({j \in Inum : s.ref[j] > 0}) = NINODE
  THEN Halt(s, "iget: no inodes")
  ELSE [s EXCEPT !.ref[i] = IF s.ino[i].type = "DITTO" THEN Min({RefMax, @ + 1}) ELSE @ + 1]

\* ialloc, of the first free inode.
NewInum(s) == Min({j \in Inum : s.ino[j].type = "FREE"})
ialloc(s, type) ==
  IF \A j \in Inum : s.ino[j].type # "FREE" THEN Halt(s, "ialloc: no inodes")
  ELSE iget([s EXCEPT !.ino[NewInum(s)] = [Free EXCEPT !.type = type]], NewInum(s))

Unref(s, i) == [s EXCEPT !.ref[i] = @ - 1]

\* Faults for NamesSound and HeldStays: links, or references, are not looked at.
DoomedLinked(s, i) == s.ref[i] = 1
DoomedHeld(s, i) == s.ino[i].nlink = 0

\* The last reference of an inode without links frees it.  I_VALID, which iput
\* looks at too, is then set: only a call that has locked the inode takes its last
\* link, and its entry stays in the cache while it has references.
Doomed(s, i) == s.ref[i] = 1 /\ s.ino[i].nlink = 0

\* iput in a transaction.
iput(s, i) == IF Doomed(s, i) THEN Unref([itrunc(s, i) EXCEPT !.ino[i] = Free], i) ELSE Unref(s, i)

\* iupdate takes references of the ditto inodes, and drops none of them.
iupdate(s, i) == FoldLeft(iget, s, s.ino[i].kids)
-----------------------------------------------------------------------------
(* Directories.                                                            *)

Found(s, dp, name) ==
  {k \in DOMAIN s.ino[dp].ents : s.ino[dp].ents[k].inum # 0 /\ s.ino[dp].ents[k].name = name}

dirlookup(s, dp, name) ==
  IF Found(s, dp, name) = {} THEN None ELSE s.ino[dp].ents[Min(Found(s, dp, name))].inum

\* writei of entry k, to the directory and then to its dittos.
writei(s, dp, k, e) ==
  LET bn == (k - 1) \div EPB + 1
      s1 == FoldLeft(LAMBDA t, i : bmap(t, i, bn), s, <<dp>> \o s.ino[dp].kids)
  IN  iupdate([s1 EXCEPT !.ino[dp].ents =
        IF k <= Len(@) THEN [@ EXCEPT ![k] = e] ELSE Append(@, e)], dp)

\* dirlink of a name that is not there, into the first empty entry.
dirlink(s, dp, name, inum) ==
  LET ents == s.ino[dp].ents
  IN  writei(s, dp, Min({k \in DOMAIN ents : ents[k].inum = 0} \cup {Len(ents) + 1}),
             Entry(name, inum))

\* distance_to_root from the directory i: 0 stands for a panic, on an inode
\* that is free ("ilock: no type") or no directory ("dirlookup not DIR").
RECURSIVE Distance(_, _, _)
Distance(s, i, n) ==
  IF s.ino[i].type # "DIR" THEN 0
  ELSE IF dirlookup(s, i, "..") = i THEN n
  ELSE Distance(s, dirlookup(s, i, ".."), n + 1)

NDittos(dtr) == IF dtr < DITTO_LOWER THEN 2 ELSE IF dtr < DITTO_HIGHER THEN 1 ELSE 0

\* n new ditto inodes for i; the references that ialloc gives stay.
RECURSIVE AddDittos(_, _, _)
AddDittos(s, i, n) ==
  IF n = 0 \/ s.stop # "" THEN s
  ELSE LET t == ialloc(s, "DITTO")
       IN  IF t.stop # "" THEN t
           ELSE AddDittos([t EXCEPT !.ino[i].kids = Append(@, NewInum(s)),
                                    !.ino[NewInum(s)].nlink = 1], i, n - 1)

\* create, where the name is new: a directory gets its dittos and its dots.
create(s, dp, name, type) ==
  LET ip == NewInum(s)
      dtr == Distance(s, dp, 1)
      s1 == ialloc(s, type)
      s2 == [s1 EXCEPT !.ino[ip].nlink = 1]
      s3 == IF type = "DIR" THEN iupdate(AddDittos(s2, ip, NDittos(dtr)), ip) ELSE s2
      s4 == iupdate([s3 EXCEPT !.ino[dp].nlink = @ + 1], dp)
      s5 == dirlink(dirlink(s4, ip, ".", ip), ip, "..", dp)
      s6 == IF type = "DIR" /\ s3.stop = "" THEN s5 ELSE s3
  IN  IF s1.stop # "" THEN s1 ELSE IF s6.stop # "" THEN s6 ELSE dirlink(s6, dp, name, ip)

isdirempty(s, ip) == \A k \in 3..Len(s.ino[ip].ents) : s.ino[ip].ents[k].inum = 0

\* Fault for NothingLost: the link count stays.
unlinkCounted(s, dp, ip, name) ==
  LET s1 == writei(s, dp, Min(Found(s, dp, name)), NoEntry)
  IN  IF s.ino[ip].type = "DIR" THEN iupdate([s1 EXCEPT !.ino[dp].nlink = @ - 1], dp) ELSE s1

\* sys_unlink, where the entry may go.
unlink(s, dp, ip, name) ==
  LET s1 == writei(s, dp, Min(Found(s, dp, name)), NoEntry)
      s2 == IF s.ino[ip].type = "DIR" THEN iupdate([s1 EXCEPT !.ino[dp].nlink = @ - 1], dp) ELSE s1
  IN  iupdate([s2 EXCEPT !.ino[ip].nlink = @ - 1], ip)
-----------------------------------------------------------------------------
(* The image: mkfs takes inodes and blocks one after the other.            *)

\* iappend of n blocks to the inode i.
RECURSIVE iappend(_, _, _)
iappend(s, i, n) ==
  IF n = 0 THEN s ELSE iappend(bmap(s, i, Len(s.ino[i].addrs) + 1), i, n - 1)

MkInode(s, type, nblocks) ==
  iappend([s EXCEPT !.ino[NewInum(s)] = [Free EXCEPT !.type = type, !.nlink = 1]],
          NewInum(s), nblocks)

\* The size of the root directory is rounded up to blocks.
RootBlocks(Files) == (Len(Files) + 2) \div EPB + 1

mkfs(Files) ==
  LET s0 == [ino |-> [i \in Inum |-> Free], used |-> 0..META - 1,
             ref |-> [i \in Inum |-> 0], stop |-> ""]
      s1 == MkInode(s0, "DIR", RootBlocks(Files))
      s2 == FoldLeft(LAMBDA t, f : MkInode(t, "FILE", 1), s1, Files)
      s3 == MkInode(MkInode(s2, "DITTO", RootBlocks(Files)), "DITTO", RootBlocks(Files))
      ent(k) == IF k = 1 THEN Entry(".", ROOTINO) ELSE IF k = 2 THEN Entry("..", ROOTINO)
                ELSE IF k - 2 \in DOMAIN Files THEN Entry(Files[k - 2], k - 1) ELSE NoEntry
  IN  [s3 EXCEPT !.ino[ROOTINO].ents = [k \in 1..RootBlocks(Files) * EPB |-> ent(k)],
                 !.ino[ROOTINO].kids = <<Len(Files) + 2, Len(Files) + 3>>]
-----------------------------------------------------------------------------
(* Calls.  op: what is to be done next; ip: the inode reached; path: what  *)
(* is left of the path; held: the inode that link links; freeing: an inode *)
(* of which iput has freed the blocks, and not yet the inode.              *)
Idle == [op |-> "none", path |-> <<>>, ip |-> None, held |-> None, new |-> <<>>, freeing |-> None]

First == Min(Proc)
Booted(d) == [ino |-> d.ino, used |-> d.used, stop |-> "",
              ref |-> [i \in Inum |-> IF i = ROOTINO THEN 1 ELSE 0]]

Init ==
  /\ menu \in Menus
  /\ safe = Disk(mkfs(menu.files)) /\ fs = Booted(mkfs(menu.files))
  /\ log = None
  /\ cwd = [p \in Proc |-> IF p = First THEN ROOTINO ELSE None]
  /\ file = [p \in Proc |-> None]
  /\ call = [p \in Proc |-> Idle]
  /\ crashes = 0 /\ detached = FALSE

At(p, op) ==
  /\ fs.stop = "" /\ cwd[p] # None
  /\ call[p].op = op /\ call[p].freeing = None

\* skipelem, on a path that is the sequence of its elements.
skipelem(path) == [name |-> Head(path), rest |-> Tail(path)]

\* The operations that nameiparent serves stop one component early; their paths
\* have a last element here.
ToParent == {"unlink", "create", "mkdir", "linknew"}
Arrived(p) == Len(call[p].path) = (IF call[p].op \in ToParent THEN 1 ELSE 0)

Offered(op) == \E c \in menu.calls : c.op = op

Go(p, new) == call' = [call EXCEPT ![p] = new]
Goes(p, op) == Go(p, [call[p] EXCEPT !.op = op])

\* iput without a transaction of its own: to free the inode, it writes into
\* the transaction of another process, or panics.
StrayPut(p, s, i, new) ==
  IF ~Doomed(s, i) THEN fs' = Unref(s, i) /\ Go(p, new)
  ELSE /\ fs' = IF log = None THEN Halt(s, "write outside of trans")
               ELSE bfree(s, BlocksOf(s.ino[i]))
       /\ Go(p, [new EXCEPT !.freeing = i])

FreeEnd(p) ==
  LET i == call[p].freeing
  IN  /\ fs.stop = "" /\ i # None
      /\ fs' = IF log = None THEN Halt(fs, "write outside of trans")
               ELSE Unref([fs EXCEPT !.ino[i] = Free], i)
      /\ Go(p, [call[p] EXCEPT !.freeing = None])
      /\ UNCHANGED <<safe, log, cwd, file, crashes, detached, menu>>

\* namex begins at the root or at the current directory.
From(p, abs) == IF abs THEN ROOTINO ELSE cwd[p]

\* create runs in a transaction, from the beginning.
Start(p) ==
  /\ At(p, "none")
  /\ \E c \in {m \in menu.calls : m.op \notin {"close", "write", "fork", "exit", "crash"}} :
       /\ c.op \in {"create", "mkdir"} => log = None
       /\ log' = IF c.op \in {"create", "mkdir"} THEN p ELSE log
       /\ fs' = iget(fs, From(p, c.abs))
       /\ Go(p, [Idle EXCEPT !.op = c.op, !.path = c.path, !.ip = From(p, c.abs), !.new = c.new])
  /\ UNCHANGED <<safe, cwd, file, crashes, detached, menu>>

\* A walk locks the inode it is at; iput has locked what it frees.
Walking(p) ==
  /\ fs.stop = "" /\ call[p].freeing = None
  /\ call[p].op \in {"chdir", "open", "link"} \cup ToParent
  /\ \A q \in Proc : call[q].freeing # call[p].ip
Type(p) == fs.ino[call[p].ip].type
Next1(p) == dirlookup(fs, call[p].ip, skipelem(call[p].path).name)
InTrans(p) == call[p].op \in {"create", "mkdir", "linknew"}

\* ilock panics on an inode that is free.
WalkPanic(p) ==
  /\ Walking(p) /\ Type(p) = "FREE"
  /\ fs' = Halt(fs, "ilock: no type")
  /\ UNCHANGED <<safe, log, cwd, file, call, crashes, detached, menu>>

\* One component of namex.
Walk(p) ==
  LET new == [call[p] EXCEPT !.ip = Next1(p), !.path = skipelem(@).rest]
      s == iget(fs, Next1(p))
  IN  /\ Walking(p) /\ ~Arrived(p) /\ Type(p) = "DIR" /\ Next1(p) # None
      /\ IF InTrans(p) THEN fs' = iput(s, call[p].ip) /\ Go(p, new)
         ELSE StrayPut(p, s, call[p].ip, new)
      /\ UNCHANGED <<safe, log, cwd, file, crashes, detached, menu>>

\* link fails in its transaction: the new link is taken back.
LinkBad(s, ip) == iput(iupdate([s EXCEPT !.ino[ip].nlink = @ - 1], ip), ip)

\* namex finds no directory or no entry, and returns 0.  Then distance_to_root,
\* which create calls first, panics in ilock.
WalkFail(p) ==
  LET c == call[p]
  IN  /\ Walking(p) /\ Type(p) # "FREE"
      /\ \/ Type(p) # "DIR" /\ (~Arrived(p) \/ c.op \in ToParent)
         \/ Type(p) = "DIR" /\ ~Arrived(p) /\ Next1(p) = None
      /\ \/ /\ c.op \in {"create", "mkdir"}
            /\ fs' = Halt(iput(fs, c.ip), "ilock")
            /\ UNCHANGED call
         \/ /\ c.op = "linknew"
            /\ fs' = LinkBad(iput(fs, c.ip), c.held)
            /\ Go(p, [Idle EXCEPT !.op = "commit"])
         \/ /\ c.op \in {"chdir", "open", "link", "unlink"}
            /\ StrayPut(p, fs, c.ip, Idle)
      /\ UNCHANGED <<safe, log, cwd, file, crashes, detached, menu>>

Ready(p, op) ==
  /\ Walking(p) /\ call[p].op = op /\ Arrived(p)
  /\ IF op \in ToParent THEN Type(p) = "DIR" ELSE Type(p) # "FREE"

\* begin_trans waits for the transaction of another.
begin_trans(p) == log = None /\ log' = p

sys_chdir(p) ==
  /\ Ready(p, "chdir")
  /\ \/ /\ Type(p) = "DIR"
        /\ cwd' = [cwd EXCEPT ![p] = call[p].ip]
        /\ StrayPut(p, fs, cwd[p], Idle)
     \/ /\ Type(p) # "DIR"
        /\ StrayPut(p, fs, call[p].ip, Idle) /\ UNCHANGED cwd
  /\ UNCHANGED <<safe, log, file, crashes, detached, menu>>

\* The end of sys_open: a process has one descriptor here.
sys_open(p) ==
  /\ Ready(p, "open")
  /\ \/ /\ file[p] = None
        /\ file' = [file EXCEPT ![p] = call[p].ip]
        /\ Go(p, Idle) /\ UNCHANGED fs
     \/ /\ file[p] # None
        /\ StrayPut(p, fs, call[p].ip, Idle) /\ UNCHANGED file
  /\ UNCHANGED <<safe, log, cwd, crashes, detached, menu>>

sys_unlink(p) ==
  LET dp == call[p].ip
      name == skipelem(call[p].path).name
      ip == dirlookup(fs, dp, name)
      s == iget(fs, ip)
  IN  /\ Ready(p, "unlink") /\ begin_trans(p)
      /\ fs' = IF name \in {".", ".."} \/ ip = None THEN iput(fs, dp)
               ELSE IF fs.ino[ip].nlink < 1 THEN Halt(s, "unlink: nlink < 1")
               ELSE IF fs.ino[ip].type = "DIR" /\ ~isdirempty(fs, ip) THEN iput(iput(s, ip), dp)
               ELSE iput(iput(unlink(s, dp, ip, name), dp), ip)
      /\ Go(p, [Idle EXCEPT !.op = "commit"])
      /\ UNCHANGED <<safe, cwd, file, crashes, detached, menu>>

\* create, for sys_mkdir and for sys_open with O_CREATE.
Create(p, op, type) ==
  LET dp == call[p].ip
      name == skipelem(call[p].path).name
      ip == dirlookup(fs, dp, name)
      made == create(fs, dp, name, type)
      done(s, i) == fs' = s /\ Go(p, [Idle EXCEPT !.op = "commit", !.ip = i])
  IN  /\ Ready(p, op)
      /\ \/ /\ Distance(fs, dp, 1) = 0
            /\ fs' = Halt(fs, "ilock: no type") /\ UNCHANGED <<call, detached>>
         \/ /\ Distance(fs, dp, 1) # 0 /\ ip # None
            /\ IF op = "create" /\ fs.ino[ip].type = "FILE" THEN done(iput(iget(fs, ip), dp), ip)
               ELSE done(iput(fs, dp), None)
            /\ UNCHANGED detached
         \/ /\ Distance(fs, dp, 1) # 0 /\ ip = None
            /\ IF made.stop # "" THEN fs' = made /\ UNCHANGED call
               ELSE IF op = "create" THEN done(iput(made, dp), NewInum(fs))
               ELSE done(iput(iput(made, dp), NewInum(fs)), None)
            /\ detached' = (detached \/ fs.ino[dp].nlink = 0)
      /\ UNCHANGED <<safe, log, cwd, file, crashes, menu>>

\* sys_link counts the link first, and then walks to the new name.
LinkOld(p) ==
  LET ip == call[p].ip
      new == call[p].new
      s == iupdate([fs EXCEPT !.ino[ip].nlink = @ + 1], ip)
  IN  /\ Ready(p, "link") /\ begin_trans(p)
      /\ IF fs.ino[ip].type = "DIR"
         THEN fs' = iput(fs, ip) /\ Go(p, [Idle EXCEPT !.op = "commit"])
         ELSE /\ fs' = iget(s, From(p, TRUE))
              /\ Go(p, [Idle EXCEPT !.op = "linknew", !.held = ip, !.ip = From(p, TRUE), !.path = new])
      /\ UNCHANGED <<safe, cwd, file, crashes, detached, menu>>

LinkNew(p) ==
  LET c == call[p]
      name == skipelem(c.path).name
      s == dirlink(fs, c.ip, name, c.held)
      new == dirlookup(fs, c.ip, name) = None
  IN  /\ Ready(p, "linknew")
      /\ fs' = IF new THEN iput(iput(s, c.ip), c.held) ELSE LinkBad(iput(fs, c.ip), c.held)
      /\ Go(p, [Idle EXCEPT !.op = "commit"])
      /\ UNCHANGED <<safe, log, cwd, file, crashes, detached, menu>>

commit_trans(p) ==
  /\ At(p, "commit")
  /\ safe' = Disk(fs) /\ log' = None
  /\ Go(p, IF call[p].ip = None THEN Idle ELSE [call[p] EXCEPT !.op = "open"])
  /\ UNCHANGED <<fs, cwd, file, crashes, detached, menu>>

\* fileclose and filewrite, each in a transaction.
Close(p) ==
  /\ At(p, "none") /\ Offered("close") /\ file[p] # None /\ begin_trans(p)
  /\ fs' = iput(fs, file[p])
  /\ file' = [file EXCEPT ![p] = None]
  /\ Goes(p, "commit")
  /\ UNCHANGED <<safe, cwd, crashes, detached, menu>>

Write(p) ==
  LET n == Len(fs.ino[file[p]].addrs)
  IN  /\ At(p, "none") /\ Offered("write") /\ file[p] # None /\ begin_trans(p)
      /\ fs.ino[file[p]].type = "FILE" /\ n < MAXFILE
      /\ fs' = bmap(fs, file[p], n + 1)
      /\ Goes(p, "commit")
      /\ UNCHANGED <<safe, cwd, file, crashes, detached, menu>>

\* fork passes the current directory on; exit drops it.
Fork(p, q) ==
  /\ At(p, "none") /\ Offered("fork") /\ cwd[q] = None /\ call[q] = Idle
  /\ cwd' = [cwd EXCEPT ![q] = cwd[p]]
  /\ fs' = iget(fs, cwd[p])
  /\ UNCHANGED <<safe, log, file, call, crashes, detached, menu>>

Exit(p) ==
  /\ At(p, "none") /\ Offered("exit") /\ file[p] = None /\ p # First
  /\ cwd' = [cwd EXCEPT ![p] = None]
  /\ StrayPut(p, fs, cwd[p], Idle)
  /\ UNCHANGED <<safe, log, file, crashes, detached, menu>>

Crash ==
  /\ Offered("crash") /\ crashes < MaxCrash
  /\ crashes' = crashes + 1
  /\ fs' = Booted(safe) /\ log' = None
  /\ cwd' = [p \in Proc |-> IF p = First THEN ROOTINO ELSE None]
  /\ file' = [p \in Proc |-> None]
  /\ call' = [p \in Proc |-> Idle]
  /\ UNCHANGED <<safe, detached, menu>>

Next ==
  \/ \E p \in Proc :
       \/ Start(p) \/ Walk(p) \/ WalkPanic(p) \/ WalkFail(p) \/ FreeEnd(p)
       \/ sys_chdir(p) \/ sys_open(p) \/ sys_unlink(p)
       \/ Create(p, "create", "FILE") \/ Create(p, "mkdir", "DIR")
       \/ LinkOld(p) \/ LinkNew(p) \/ commit_trans(p)
       \/ Close(p) \/ Write(p) \/ Exit(p)
       \/ \E q \in Proc : Fork(p, q)
  \/ Crash

Spec == Init /\ [][Next]_vars
-----------------------------------------------------------------------------
(* Properties.                                                             *)

\* Entries other than the dots, and what they name from the root on.
Names(d, i) == {k \in 3..Len(d.ino[i].ents) : d.ino[i].ents[k].inum # 0}
Listed(d, S) == UNION {{d.ino[i].ents[k].inum : k \in Names(d, i)} : i \in S}
RECURSIVE Closure(_, _)
Closure(d, S) == IF Listed(d, S) \subseteq S THEN S ELSE Closure(d, S \cup Listed(d, S))
Named(d) == Closure(d, {ROOTINO})
Links(d, N) ==
  UNION {{[dir |-> j, at |-> k, to |-> d.ino[j].ents[k].inum] : k \in Names(d, j)} : j \in N}

\* The tree of names is sound, in the running system and on the disk that a
\* crash would leave: what an entry names is allocated, and has at least the
\* links that are there, so that iput cannot free it; a directory is named
\* once, and its ".." is where it is named; no directory has a name twice.
NamesSound ==
  \A d \in {Disk(fs), safe} : \E N \in {Named(d)} : \E L \in {Links(d, N)} : \A i \in N :
    LET links == {l \in L : l.to = i}
    IN  /\ d.ino[i].type \in {"FILE", "DIR"}
        /\ d.ino[i].nlink >= Cardinality(links)
        /\ \A j, k \in Names(d, i) : d.ino[i].ents[j].name = d.ino[i].ents[k].name => j = k
        /\ d.ino[i].type = "DIR" /\ i # ROOTINO =>
             Cardinality(links) = 1 /\ \A l \in links : l.dir = dirlookup(d, i, "..")

Holders(i) ==
  Cardinality({p \in Proc : cwd[p] = i}) + Cardinality({p \in Proc : file[p] = i})
    + Cardinality({p \in Proc : call[p].ip = i}) + Cardinality({p \in Proc : call[p].held = i})
    + Cardinality({p \in Proc : call[p].freeing = i})

\* A reference count is the number of open files, current directories and calls
\* that hold the inode (but for ditto inodes, whose references are not dropped);
\* so an open file and a current directory stay allocated whoever unlinks them.
HeldStays ==
  fs.stop = "" =>
    /\ \A i \in Inum : fs.ino[i].type # "DITTO" => fs.ref[i] = Holders(i)
    /\ \A p \in Proc : \A i \in {cwd[p], file[p]} \ {None} : fs.ino[i].type # "FREE"

\* Inodes whose content can still be reached.
InUse(d) ==
  LET S == Named(d) \cup IF d = Disk(fs) THEN {cwd[p] : p \in Proc} \cup {file[p] : p \in Proc} ELSE {}
  IN  UNION {{i} \cup ToSet(d.ino[i].kids) : i \in S \ {None}}

\* No block belongs to two files, directories or dittos, nor to none of them
\* while the bitmap has it in use: in the running system and after a crash,
\* also where the writes of two calls went into one transaction.
BlocksOwned ==
  \A d \in {Disk(fs), safe} :
    /\ \E B \in {[i \in InUse(d) |-> BlocksOf(d.ino[i])]} : \A i \in DOMAIN B :
         /\ B[i] \subseteq d.used \ (0..META - 1)
         /\ \A j \in DOMAIN B \ {i} : B[i] \cap B[j] = {}
    /\ fs.stop = "" => d.used \subseteq (0..META - 1) \cup UNION {BlocksOf(d.ino[i]) : i \in Inum}

\* Without a crash, and as long as nothing was created in a directory that had
\* been removed, a file or directory that nobody holds has a name: what is
\* unlinked is freed, and a call that fails leaves nothing behind.
NothingLost ==
  crashes = 0 /\ ~detached /\ fs.stop = "" =>
    \A i \in Inum : fs.ino[i].type \in {"FILE", "DIR"} /\ fs.ref[i] = 0 => i \in Named(fs)

\* A create whose path leads nowhere fails, and the system goes on.
CreateReturns == fs.stop # "ilock"
=============================================================================
