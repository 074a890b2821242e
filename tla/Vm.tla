-------------------------------- MODULE Vm ---------------------------------
(***************************************************************************)
(* Physical pages and address spaces: kalloc.c, vm.c, and their users      *)
(* fork, exec, growproc, exit and wait.                                    *)
(*                                                                         *)
(* Every call of kalloc is a step of its own, so that processes compete    *)
(* for the last pages and each may find none left half way through what    *)
(* it builds.  Addresses and sizes are counted in pages.                   *)
(***************************************************************************)
EXTENDS Integers, FiniteSets, Sequences

CONSTANTS
  Proc,     \* slots of the process table, 1..n
  NPage,    \* pages between end and PHYSTOP
  NPT,      \* NPTENTRIES: pages mapped by one page table page
  KERN,     \* KERNBASE, in pages
  KPT,      \* page table pages that the kernel's own mappings take
  Images,   \* programs: the sequence of ends of their segments, in pages
  Deltas    \* arguments of sbrk, in pages

ASSUME VmAssumption ==
  /\ 1 \in Proc /\ Proc \subseteq Nat \ {0}
  /\ NPT \in Nat \ {0} /\ KERN \in Nat \ {0} /\ KPT \in Nat
  /\ NPage \in Nat /\ NPage >= KPT + 4
  /\ Images \subseteq Seq(Nat) /\ Deltas \subseteq Int

VARIABLES
  free,     \* kmem.freelist; which page of it kalloc returns is immaterial
  dirs,     \* page directories: page |-> [kpt, pt, map]
  proc,     \* [state, kstack, pgdir, sz]
  op,       \* per process: the call it is in
  lost,     \* pages that setupkvm, copyuvm and allocuvm dropped on failure
  holed,    \* directories in which the size of the process claims a page that
            \* is not mapped
  stop      \* "no", or the function that panicked or used a missing page

vars == <<free, dirs, proc, op, lost, holed, stop>>

Page == 1..NPage
None == 0
Va == 0..KERN - 1
Table(va) == va \div NPT

NoDir == [kpt |-> {}, pt |-> [t \in 0..Table(KERN - 1) |-> None],
          map |-> [va \in Va |-> None]]

Idle == [at |-> "user", dir |-> None, base |-> 0, va |-> 0, goal |-> 0,
         mem |-> None, kid |-> None, segs |-> <<>>, for |-> "none"]

Unused == [state |-> "UNUSED", kstack |-> None, pgdir |-> None, sz |-> 0]

\* kinit1, kinit2 and userinit: the first process has a kernel stack, a page
\* directory, the kernel's page tables, and one page, mapped by inituvm.
Init ==
  /\ free = (KPT + 5)..NPage
  /\ dirs = [d \in {2} |-> [NoDir EXCEPT !.kpt = 5..KPT + 4, !.pt[0] = 3, !.map[0] = 4]]
  /\ proc = [p \in Proc |->
       IF p = 1 THEN [state |-> "RUN", kstack |-> 1, pgdir |-> 2, sz |-> 1]
       ELSE Unused]
  /\ op = [p \in Proc |-> Idle]
  /\ lost = {} /\ holed = {} /\ stop = "no"
-----------------------------------------------------------------------------
kalloc == CHOOSE pg \in free : TRUE

\* The addresses below oldsz whose entries deallocuvm looks at, from newsz on.
\* Where there is no page table it skips as many pages as a table maps, and so
\* enters the first table it finds at the offset of newsz.
Visited(r, newsz, oldsz) ==
  {a \in newsz..oldsz - 1 :
     /\ r.pt[Table(a)] # None
     /\ \/ a % NPT >= newsz % NPT
        \/ \E t \in Table(newsz)..Table(a) - 1 : r.pt[t] # None}

\* deallocuvm: the pages it frees, and the directory it leaves.  It frees a page
\* before it clears the entry; the process of the directory, which alone would
\* follow the entry in between, is in this call.
Dropped(r, newsz, oldsz) ==
  {r.map[a] : a \in Visited(r, newsz, oldsz)} \ {None}

\* Fault for PagesExclusive: *pte is not cleared.
deallocuvmKeep(r, newsz, oldsz) == r

deallocuvm(r, newsz, oldsz) ==
  [r EXCEPT !.map = [a \in Va |->
     IF a \in Visited(r, newsz, oldsz) THEN None ELSE r.map[a]]]

With(d, r) == [e \in DOMAIN dirs \cup {d} |-> IF e = d THEN r ELSE dirs[e]]
Without(d) == [e \in DOMAIN dirs \ {d} |-> dirs[e]]

\* The page tables of a directory, the addresses it maps, and the pages there.
Tables(r) == {r.pt[t] : t \in DOMAIN r.pt} \ {None}
Mapped(r) == {va \in Va : r.map[va] # None}
Frames(r) == {r.map[va] : va \in Mapped(r)}

\* Fault for NothingLost: the page tables stay behind.
freevmLeaf(d) == Dropped(dirs[d], 0, KERN) \cup dirs[d].kpt \cup {d}

\* freevm: the pages it frees.
freevm(d) == Dropped(dirs[d], 0, KERN) \cup Tables(dirs[d]) \cup dirs[d].kpt \cup {d}

Here(p, label) == op[p].at = label /\ stop = "no"

Return(p) == op' = [op EXCEPT ![p] = Idle]

Stop(why) ==
  /\ stop' = why
  /\ UNCHANGED <<free, dirs, proc, op, lost, holed>>

\* fork or exec give up, after the pages in "pages" were freed and directory d
\* is gone: fork also frees the kernel stack, and the slot of the child.
Abandon(p, d, pages, dropped) ==
  LET kid == op[p].kid
      stack == IF kid = None THEN {} ELSE {proc[kid].kstack}
  IN  /\ free' = free \cup pages \cup stack
      /\ dirs' = Without(d)
      /\ proc' = IF kid = None THEN proc ELSE [proc EXCEPT ![kid] = Unused]
      /\ lost' = lost \cup dropped
      /\ holed' = holed \ {d}
      /\ Return(p)
      /\ UNCHANGED stop
-----------------------------------------------------------------------------
\* fork: allocproc finds a slot and a kernel stack, and copyuvm begins.
Fork(p, kid) ==
  /\ Here(p, "user") /\ proc[p].state = "RUN"
  /\ proc[kid].state = "UNUSED" /\ free # {}
  /\ proc' = [proc EXCEPT ![kid] = [@ EXCEPT !.state = "EMBRYO", !.kstack = kalloc]]
  /\ free' = free \ {kalloc}
  /\ op' = [op EXCEPT ![p] = [Idle EXCEPT !.at = "setupkvm", !.for = "fork", !.kid = kid]]
  /\ UNCHANGED <<dirs, lost, holed, stop>>

\* exec: the file is a program, and setupkvm begins.
Exec(p, image) ==
  /\ Here(p, "user") /\ proc[p].state = "RUN"
  /\ op' = [op EXCEPT ![p] =
       [Idle EXCEPT !.at = "setupkvm", !.for = "segment", !.segs = image]]
  /\ UNCHANGED <<free, dirs, proc, lost, holed, stop>>

\* setupkvm takes a page for the directory.
SetupDir(p) ==
  /\ Here(p, "setupkvm")
  /\ \/ /\ free = {}
        /\ Abandon(p, None, {}, {})
     \/ /\ free # {}
        /\ free' = free \ {kalloc}
        /\ dirs' = With(kalloc, NoDir)
        /\ op' = [op EXCEPT ![p] = [@ EXCEPT !.at = "kmap", !.dir = kalloc]]
        /\ UNCHANGED <<proc, lost, holed, stop>>

\* mappages on behalf of setupkvm takes the page tables of the kernel's
\* mappings.  Without a page it returns 0 and keeps what it has taken.
SetupMap(p) ==
  LET d == op[p].dir
  IN  /\ Here(p, "kmap")
      /\ \/ /\ Cardinality(dirs[d].kpt) = KPT
            /\ op' = [op EXCEPT ![p] =
                 [@ EXCEPT !.at = IF op[p].for = "fork" THEN "copy" ELSE "segment"]]
            /\ UNCHANGED <<free, dirs, proc, lost, holed, stop>>
         \/ /\ Cardinality(dirs[d].kpt) < KPT /\ free = {}
            /\ Abandon(p, d, {}, dirs[d].kpt \cup {d})
         \/ /\ Cardinality(dirs[d].kpt) < KPT /\ free # {}
            /\ free' = free \ {kalloc}
            /\ dirs' = [dirs EXCEPT ![d] = [@ EXCEPT !.kpt = dirs[d].kpt \cup {kalloc}]]
            /\ UNCHANGED <<proc, op, lost, holed, stop>>

\* mappages for one user page: walkpgdir may need a page table.
CanMap(d, va) == dirs[d].pt[Table(va)] # None \/ free # {}

mappages(d, va, mem) ==
  LET new == dirs[d].pt[Table(va)] = None
      table == IF new THEN kalloc ELSE dirs[d].pt[Table(va)]
  IN  /\ dirs' = [dirs EXCEPT ![d] = [@ EXCEPT !.map[va] = mem, !.pt[Table(va)] = table]]
      /\ free' = IF new THEN free \ {table} ELSE free

\* copyuvm's loop: a page for the copy ...
CopyPage(p) ==
  LET from == dirs[proc[p].pgdir]
  IN  /\ Here(p, "copy") /\ op[p].va < proc[p].sz
      /\ \/ /\ from.map[op[p].va] = None
            /\ Stop("copyuvm")
         \/ /\ from.map[op[p].va] # None /\ free = {}
            /\ Abandon(p, op[p].dir, freevm(op[p].dir), {})
         \/ /\ from.map[op[p].va] # None /\ free # {}
            /\ free' = free \ {kalloc}
            /\ op' = [op EXCEPT ![p] = [@ EXCEPT !.at = "copymap", !.mem = kalloc]]
            /\ UNCHANGED <<dirs, proc, lost, holed, stop>>

\* ... and its mapping, for want of which the copy is dropped.
CopyMap(p) ==
  LET d == op[p].dir  va == op[p].va
  IN  /\ Here(p, "copymap")
      /\ \/ /\ CanMap(d, va)
            /\ mappages(d, va, op[p].mem)
            /\ op' = [op EXCEPT ![p] = [@ EXCEPT !.at = "copy", !.va = va + 1, !.mem = None]]
            /\ UNCHANGED <<proc, lost, holed, stop>>
         \/ /\ ~CanMap(d, va)
            /\ Abandon(p, d, freevm(d), {op[p].mem})

\* Fault for SizeIsMapped: the child does not inherit the size.
ForkDoneNoSize(p) ==
  /\ Here(p, "copy") /\ op[p].va = proc[p].sz
  /\ proc' = [proc EXCEPT ![op[p].kid] = [@ EXCEPT !.state = "RUN", !.pgdir = op[p].dir]]
  /\ Return(p)
  /\ UNCHANGED <<free, dirs, lost, holed, stop>>

\* fork makes the child runnable.
ForkDone(p) ==
  /\ Here(p, "copy") /\ op[p].va = proc[p].sz
  /\ proc' = [proc EXCEPT ![op[p].kid] =
       [@ EXCEPT !.state = "RUN", !.pgdir = op[p].dir, !.sz = proc[p].sz]]
  /\ Return(p)
  /\ UNCHANGED <<free, dirs, lost, holed, stop>>
-----------------------------------------------------------------------------
\* sbrk with n > 0: growproc calls allocuvm, which refuses to reach KERNBASE.
Sbrk(p, n) ==
  /\ Here(p, "user") /\ proc[p].state = "RUN" /\ n > 0
  /\ proc[p].sz + n < KERN
  /\ op' = [op EXCEPT ![p] =
       [Idle EXCEPT !.at = "grow", !.for = "sbrk", !.dir = proc[p].pgdir,
                    !.base = proc[p].sz, !.va = proc[p].sz, !.goal = proc[p].sz + n]]
  /\ UNCHANGED <<free, dirs, proc, lost, holed, stop>>

\* sbrk with n < 0: growproc calls deallocuvm, which does nothing when the new
\* size wraps around.  It takes a new size of 0 for a failure, and keeps sz.
SbrkDown(p, n) ==
  LET d == proc[p].pgdir  newsz == proc[p].sz + n
  IN  /\ Here(p, "user") /\ proc[p].state = "RUN" /\ n < 0 /\ newsz >= 0
      /\ free' = free \cup Dropped(dirs[d], newsz, proc[p].sz)
      /\ dirs' = [dirs EXCEPT ![d] = deallocuvm(@, newsz, proc[p].sz)]
      /\ proc' = [proc EXCEPT ![p] = [@ EXCEPT !.sz = IF newsz = 0 THEN proc[p].sz ELSE newsz]]
      /\ holed' = IF newsz = 0 THEN holed \cup {d} ELSE holed
      /\ UNCHANGED <<op, lost, stop>>

\* exec's next segment, then the stack: allocuvm begins, or fails at KERNBASE, or
\* with a size of 0.  Before a segment, its header may be short, or give a memsz
\* below its filesz.
Segment(p) ==
  LET o == op[p]
      stack == o.segs = <<>>
      goal == IF stack THEN o.va + 2 ELSE Head(o.segs)
  IN  /\ Here(p, "segment")
      /\ \/ /\ goal >= KERN \/ ~stack
            /\ Abandon(p, o.dir, freevm(o.dir), {})
         \/ /\ goal < KERN /\ (goal > 0 \/ o.va > 0)
            /\ op' = [op EXCEPT ![p] =
                 [@ EXCEPT !.at = "grow", !.base = o.va, !.goal = goal,
                           !.for = IF stack THEN "stack" ELSE "segment",
                           !.segs = IF stack THEN <<>> ELSE Tail(o.segs)]]
            /\ UNCHANGED <<free, dirs, proc, lost, holed, stop>>

\* allocuvm's loop: a page, for want of which everything is undone ...
GrowPage(p) ==
  LET o == op[p]
  IN  /\ Here(p, "grow") /\ o.va < o.goal
      /\ \/ /\ free # {}
            /\ free' = free \ {kalloc}
            /\ op' = [op EXCEPT ![p] = [@ EXCEPT !.at = "growmap", !.mem = kalloc]]
            /\ UNCHANGED <<dirs, proc, lost, holed, stop>>
         \/ /\ free = {} /\ o.for = "sbrk"
            /\ free' = free \cup Dropped(dirs[o.dir], o.base, o.goal)
            /\ dirs' = [dirs EXCEPT ![o.dir] = deallocuvm(@, o.base, o.goal)]
            /\ Return(p)
            /\ UNCHANGED <<proc, lost, holed, stop>>
         \/ /\ free = {} /\ o.for # "sbrk"
            /\ Abandon(p, o.dir, freevm(o.dir), {})

\* ... and its mapping, whose failure allocuvm does not notice.  mappages panics
\* over a page that is there already.
GrowMap(p) ==
  LET o == op[p]
  IN  /\ Here(p, "growmap")
      /\ IF dirs[o.dir].map[o.va] # None THEN Stop("remap")
         ELSE /\ \/ /\ CanMap(o.dir, o.va)
                    /\ mappages(o.dir, o.va, o.mem)
                    /\ UNCHANGED <<lost, holed>>
                 \/ /\ ~CanMap(o.dir, o.va)
                    /\ lost' = lost \cup {o.mem}
                    /\ holed' = holed \cup {o.dir}
                    /\ UNCHANGED <<free, dirs>>
              /\ op' = [op EXCEPT ![p] = [@ EXCEPT !.at = "grow", !.va = o.va + 1, !.mem = None]]
              /\ UNCHANGED <<proc, stop>>

\* growproc sets the new size.
SbrkDone(p) ==
  /\ Here(p, "grow") /\ op[p].va >= op[p].goal /\ op[p].for = "sbrk"
  /\ proc' = [proc EXCEPT ![p] = [@ EXCEPT !.sz = op[p].goal]]
  /\ Return(p)
  /\ UNCHANGED <<free, dirs, lost, holed, stop>>

\* loaduvm reads the segment into the pages that allocuvm is to have mapped, as
\* far as its filesz, which is anything up to memsz, and panics where there is no
\* page table; it does not look whether the page is there.  The read may be short.
LoadSegment(p) ==
  LET o == op[p]
  IN  /\ Here(p, "grow") /\ o.va >= o.goal /\ o.for = "segment"
      /\ \/ /\ \E va \in o.base..o.goal - 1 : dirs[o.dir].pt[Table(va)] = None
            /\ Stop("loaduvm")
         \/ Abandon(p, o.dir, freevm(o.dir), {})
         \/ /\ op' = [op EXCEPT ![p] = [@ EXCEPT !.at = "segment"]]
            /\ UNCHANGED <<free, dirs, proc, lost, holed, stop>>

\* clearpteu and copyout want the page tables of the guard page and the stack
\* (copyout follows a null pointer for want of one).  The arguments may be too
\* many, or reach into the guard page.  Then exec commits to the new image.
Stack(p) ==
  LET o == op[p]  old == proc[p].pgdir
      tables == {dirs[o.dir].pt[Table(va)] : va \in {o.goal - 2, o.goal - 1}}
  IN  /\ Here(p, "grow") /\ o.va >= o.goal /\ o.for = "stack"
      /\ \/ /\ None \in tables
            /\ Stop("copyout")
         \/ /\ None \notin tables
            /\ Abandon(p, o.dir, freevm(o.dir), {})
         \/ /\ None \notin tables
            /\ proc' = [proc EXCEPT ![p] = [@ EXCEPT !.pgdir = o.dir, !.sz = o.goal]]
            /\ free' = free \cup freevm(old)
            /\ dirs' = Without(old)
            /\ holed' = holed \ {old}
            /\ Return(p)
            /\ UNCHANGED <<lost, stop>>

\* exit: the memory stays until wait.  init does not exit.
Exit(p) ==
  /\ Here(p, "user") /\ proc[p].state = "RUN" /\ p # 1
  /\ proc' = [proc EXCEPT ![p] = [@ EXCEPT !.state = "ZOMBIE"]]
  /\ UNCHANGED <<free, dirs, op, lost, holed, stop>>

\* wait, called by the parent or by init.
Wait(p, kid) ==
  LET d == proc[kid].pgdir
  IN  /\ Here(p, "user") /\ proc[p].state = "RUN" /\ proc[kid].state = "ZOMBIE"
      /\ free' = free \cup {proc[kid].kstack} \cup freevm(d)
      /\ dirs' = Without(d)
      /\ holed' = holed \ {d}
      /\ proc' = [proc EXCEPT ![kid] = Unused]
      /\ UNCHANGED <<op, lost, stop>>

Next ==
  \E p \in Proc :
    \/ \E kid \in Proc : Fork(p, kid) \/ Wait(p, kid)
    \/ \E image \in Images : Exec(p, image)
    \/ \E n \in Deltas : Sbrk(p, n) \/ SbrkDown(p, n)
    \/ SetupDir(p) \/ SetupMap(p)
    \/ CopyPage(p) \/ CopyMap(p) \/ ForkDone(p)
    \/ Segment(p) \/ GrowPage(p) \/ GrowMap(p)
    \/ SbrkDone(p) \/ LoadSegment(p) \/ Stack(p)
    \/ Exit(p)

Spec == Init /\ [][Next]_vars
-----------------------------------------------------------------------------
(* Properties.                                                             *)

\* What a process holds besides its directory: kernel stack, and the page it
\* is about to map.
Held(p) == {proc[p].kstack, op[p].mem} \ {None}

Space(d) == {d} \cup dirs[d].kpt \cup Tables(dirs[d]) \cup Frames(dirs[d])

\* Directory r in page d has its page tables and the pages it maps once each.
Apart(d, r) ==
  /\ d \notin r.kpt \cup Tables(r) \cup Frames(r)
  /\ r.kpt \cap (Tables(r) \cup Frames(r)) = {} /\ Tables(r) \cap Frames(r) = {}
  /\ \A s, t \in DOMAIN r.pt : r.pt[s] = r.pt[t] /\ r.pt[s] # None => s = t
  /\ \A a, b \in Mapped(r) : r.map[a] = r.map[b] => a = b

\* Every page has one use: no address space shares a page with another, maps a
\* page twice, or keeps one that kalloc can hand out again, however fork, exec,
\* sbrk, exit and wait of several processes interleave or fail.
PagesExclusive ==
  /\ \A d \in DOMAIN dirs :
       /\ Space(d) \cap (free \cup lost) = {}
       /\ Apart(d, dirs[d])
       /\ \A e \in DOMAIN dirs \ {d} : Space(d) \cap Space(e) = {}
       /\ \A p \in Proc : Space(d) \cap Held(p) = {}
  /\ \A p, q \in Proc : p # q => Held(p) \cap Held(q) = {}
  /\ \A p \in Proc : Held(p) \cap (free \cup lost) = {}

\* What fails half way, or exits, gives back all it took, except for the pages
\* that setupkvm, copyuvm and allocuvm drop when no page table can be had: every
\* other page is free or in use by an address space some process owns or builds.
NothingLost ==
  /\ Page = free \cup lost \cup (UNION {Space(d) : d \in DOMAIN dirs})
            \cup (UNION {Held(p) : p \in Proc})
  /\ \A d \in DOMAIN dirs : \E p \in Proc : d \in {proc[p].pgdir, op[p].dir}

\* The pages below the size of a process are mapped, and only those, so that
\* copyuvm, loaduvm and mappages do not panic ("copyuvm: pte should exist",
\* "loaduvm: address should exist", "remap"), unless a page table could not be
\* had in allocuvm, or the process gave up all of its memory with sbrk.
SizeIsMapped ==
  /\ stop # "no" => holed # {}
  /\ \A p \in Proc :
       proc[p].state \in {"RUN", "ZOMBIE"} /\ proc[p].pgdir \notin holed
         /\ (op[p].at = "user" \/ op[p].for # "sbrk")
         => Mapped(dirs[proc[p].pgdir]) = 0..proc[p].sz - 1
=============================================================================
