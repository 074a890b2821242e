------------------------------ MODULE VmProofs ------------------------------
(***************************************************************************)
(* Proofs about pages and address spaces, for any number of processes and  *)
(* pages, page tables of any size and any programs.                        *)
(*                                                                         *)
(* Every page is in one place: free, dropped, in one address space, or     *)
(* held by one process.  A step moves pages from place to place, and the   *)
(* proof says which.  That a step finds the page where it takes it from    *)
(* needs to know which process owns or builds which directory, and that    *)
(* the addresses a directory maps are those its builder has come to.       *)
(***************************************************************************)
EXTENDS Vm, TLAPS

PageOrNone == Page \cup {None}
TableNo == 0..Table(KERN - 1)

Dir == [kpt : SUBSET Page, pt : [TableNo -> PageOrNone], map : [Va -> PageOrNone]]

States == {"UNUSED", "EMBRYO", "RUN", "ZOMBIE"}
Slots == [state : States, kstack : PageOrNone, pgdir : PageOrNone, sz : 0..KERN]

Ops == [at : {"user", "setupkvm", "kmap", "copy", "copymap", "segment", "grow", "growmap"},
        dir : PageOrNone, base : Nat, va : Nat, goal : Nat, mem : PageOrNone,
        kid : Proc \cup {None}, segs : Seq(Nat),
        for : {"none", "fork", "segment", "stack", "sbrk"}]

\* The types of the variables.
TypeOK ==
  /\ free \subseteq Page /\ lost \subseteq Page
  /\ DOMAIN dirs \subseteq Page /\ dirs \in [DOMAIN dirs -> Dir]
  /\ proc \in [Proc -> Slots]
  /\ op \in [Proc -> Ops]
  /\ holed \subseteq DOMAIN dirs
  /\ stop \in {"no", "copyuvm", "loaduvm", "copyout", "remap"}

\* Where the pages are: in the address spaces, and with the processes.
Pages(d, r) == {d} \cup r.kpt \cup Tables(r) \cup Frames(r)
Spaces == [d \in DOMAIN dirs |-> Pages(d, dirs[d])]
Hold(o, s) == {s.kstack, o.mem} \ {None}
Holds == [p \in Proc |-> Hold(op[p], proc[p])]

\* Every page is in exactly one of F, L, the sets S[d] and the sets H[p].
Partition(F, L, S, H) ==
  /\ F \cap L = {}
  /\ \A d \in DOMAIN S : S[d] \cap (F \cup L) = {}
  /\ \A d, e \in DOMAIN S : d # e => S[d] \cap S[e] = {}
  /\ \A d \in DOMAIN S, p \in Proc : S[d] \cap H[p] = {}
  /\ \A p, q \in Proc : p # q => H[p] \cap H[q] = {}
  /\ \A p \in Proc : H[p] \cap (F \cup L) = {}
  /\ F \cup L \subseteq Page
  /\ \A d \in DOMAIN S : S[d] \subseteq Page
  /\ \A p \in Proc : H[p] \subseteq Page
  /\ \A x \in Page : \/ x \in F \cup L
                     \/ \E d \in DOMAIN S : x \in S[d]
                     \/ \E p \in Proc : x \in H[p]

InOnePlace == Partition(free, lost, Spaces, Holds)

\* A mapped address has a page table.
Tabled(r) == \A va \in Mapped(r) : r.pt[Table(va)] # None

\* Directories are well-formed.
Formed == \A d \in DOMAIN dirs : Apart(d, dirs[d]) /\ Tabled(dirs[d])

\* What belongs to the stages of call o, of a process with slot s, where E are
\* the directories.
StageOK(o, s, E) ==
  /\ o.at = "user" <=> o = Idle
  /\ o.at = "user" <=> o.for = "none"
  /\ o.at # "user" => s.state = "RUN"
  /\ o.at = "setupkvm" => o.dir = None /\ o.va = 0
  /\ o.at = "kmap" => o.va = 0
  /\ o.at \notin {"user", "setupkvm"} => o.dir \in DOMAIN E
  /\ o.at \in {"setupkvm", "kmap"} => o.for \in {"fork", "segment"}
  /\ o.at \in {"copy", "copymap"} => o.for = "fork"
  /\ o.at = "segment" => o.for = "segment"
  /\ o.at \in {"grow", "growmap"} => o.for \in {"segment", "stack", "sbrk"}
  /\ o.mem # None <=> o.at \in {"copymap", "growmap"}
  /\ o.mem # s.kstack \/ o.mem = None
  /\ o.for = "fork" <=> o.kid # None

\* What belongs to the states of a slot: sbrk works on the directory of the
\* process, fork and exec on one that they build.
SlotOK(o, s, E) ==
  /\ s.state = "UNUSED" => s = Unused
  /\ s.state # "UNUSED" => s.kstack # None
  /\ IF s.state \in {"RUN", "ZOMBIE"} THEN s.pgdir \in DOMAIN E ELSE s.pgdir = None
  /\ o.for = "sbrk" => o.dir = s.pgdir
  /\ o.dir = s.pgdir /\ o.dir # None => o.for = "sbrk"

\* How far a call has come, and what is mapped then, where no page is missing.
SizeOK(o, s, E, H) ==
  /\ o.at = "copy" => o.va <= s.sz
  /\ o.at = "copymap" => o.va < s.sz
  /\ o.at = "kmap" => Tables(E[o.dir]) = {} /\ Mapped(E[o.dir]) = {}
  /\ o.at \in {"grow", "growmap"} => o.goal < KERN /\ o.base <= o.va
  /\ o.at = "grow" /\ o.for \in {"sbrk", "stack"} => o.va <= o.goal
  /\ o.at = "growmap" => o.va < o.goal
  /\ o.for = "stack" => o.goal = o.base + 2
  /\ o.for = "sbrk" => o.base = s.sz
  /\ o.for = "fork" => o.dir \notin H
  /\ o.dir # None /\ o.dir \notin H => Mapped(E[o.dir]) = 0..o.va - 1
  /\ s.state \in {"RUN", "ZOMBIE"} /\ s.pgdir \notin H /\ o.for # "sbrk"
     => Mapped(E[s.pgdir]) = 0..s.sz - 1

ProcOK(o, s, E, H) == StageOK(o, s, E) /\ SlotOK(o, s, E) /\ SizeOK(o, s, E, H)

\* Who has which directory: every one has one process that owns or builds it.
Has(o, s) == {s.pgdir, o.dir} \ {None}

Owned ==
  /\ \A p, q \in Proc : p # q => Has(op[p], proc[p]) \cap Has(op[q], proc[q]) = {}
  /\ \A d \in DOMAIN dirs : \E p \in Proc : d \in Has(op[p], proc[p])

\* Who forks which child.
Parents ==
  \A p \in Proc : op[p].kid # None =>
    /\ proc[op[p].kid].state = "EMBRYO"
    /\ \A q \in Proc : op[q].kid = op[p].kid => p = q

\* The inductive invariant.
Inv ==
  /\ TypeOK /\ InOnePlace /\ Formed /\ Owned /\ Parents
  /\ \A p \in Proc : ProcOK(op[p], proc[p], dirs, holed)
  /\ stop # "no" => holed # {}
-----------------------------------------------------------------------------
(* Arithmetic of page tables.                                              *)

\* Products of natural numbers.
LEMMA Product ==
  ASSUME NEW n \in Nat, NEW x \in Nat
  PROVE  n * x \in Nat
BY SMTT(30), Z3T(30)

\* A later table begins after the whole of an earlier one.
LEMMA NextTable ==
  ASSUME NEW n \in Nat, NEW x \in Nat, NEW y \in Nat, x > y
  PROVE  n * x >= n * y + n
<1> PICK z \in Nat : x = y + 1 + z
  <2>1. x - y - 1 \in Nat /\ x = y + 1 + (x - y - 1)
    OBVIOUS
  <2> QED
    BY <2>1
<1>1. n * x = n * y + n + n * z
  OBVIOUS
<1>2. n * z >= 0 /\ n * z \in Int /\ n * y \in Int /\ n * x \in Int
  OBVIOUS
<1> QED
  BY <1>1, <1>2

\* An address is the place of its table, and an offset in it.
LEMMA TableFacts ==
  ASSUME NEW a \in Nat
  PROVE  /\ Table(a) \in Nat /\ a % NPT \in 0..NPT - 1
         /\ a = NPT * Table(a) + (a % NPT)
BY VmAssumption DEF Table

\* Tables follow each other as addresses do.
LEMMA TableOrder ==
  ASSUME NEW a \in Nat, NEW b \in Nat, a <= b
  PROVE  /\ Table(a) <= Table(b)
         /\ Table(a) = Table(b) => a % NPT <= b % NPT
<1>0. NPT \in Nat
  BY VmAssumption
<1> PICK q \in Nat, r \in 0..NPT - 1 : q = Table(a) /\ r = a % NPT /\ a = NPT * q + r
  BY TableFacts
<1> PICK s \in Nat, t \in 0..NPT - 1 : s = Table(b) /\ t = b % NPT /\ b = NPT * s + t
  BY TableFacts
<1>1. NPT * q \in Nat /\ NPT * s \in Nat
  BY <1>0, Product, ZenonT(30)
<1>2. q <= s
  <2> SUFFICES ASSUME q > s PROVE FALSE
    OBVIOUS
  <2>1. NPT * q >= NPT * s + NPT
    BY <1>0, NextTable, ZenonT(30)
  <2> QED
    BY <2>1, <1>0, <1>1
<1>3. q = s => r <= t
  BY <1>0, <1>1
<1> QED
  BY <1>2, <1>3

\* The directory has an entry for the table of every address below KERNBASE.
LEMMA TableInRange ==
  ASSUME NEW a \in Va
  PROVE  Table(a) \in TableNo
<1>1. a \in Nat /\ KERN - 1 \in Nat /\ a <= KERN - 1
  BY VmAssumption DEF Va
<1>2. Table(a) \in Nat /\ Table(KERN - 1) \in Nat
  BY <1>1, TableFacts, ZenonT(30)
<1>3. Table(a) <= Table(KERN - 1)
  BY <1>1, TableOrder, ZenonT(30)
<1> QED
  BY <1>2, <1>3 DEF TableNo

\* deallocuvm stays below KERNBASE, and freevm, which begins at 0, looks at every
\* address that has a page table.
LEMMA VisitedAll ==
  ASSUME NEW r \in Dir
  PROVE  Visited(r, 0, KERN) = {a \in Va : r.pt[Table(a)] # None}
<1>1. 0 % NPT = 0
  BY VmAssumption
<1>2. \A a \in Va : a % NPT >= 0
  BY TableFacts DEF Va
<1> QED
  BY <1>1, <1>2, VmAssumption DEF Visited, Va

\* So freevm frees every page that is mapped.
LEMMA FreesAll ==
  ASSUME NEW r \in Dir, Tabled(r)
  PROVE  Dropped(r, 0, KERN) = Frames(r)
BY VisitedAll DEF Dropped, Frames, Tabled, Mapped

\* deallocuvm on a directory that maps 0..n - 1 leaves what is below newsz: where
\* it begins there is a page table, so that it skips nothing.
LEMMA VisitedFrom ==
  ASSUME NEW r \in Dir, Tabled(r), NEW n \in 0..KERN, Mapped(r) = 0..n - 1,
         NEW newsz \in 0..n, NEW oldsz \in n..KERN
  PROVE  newsz..n - 1 \subseteq Visited(r, newsz, oldsz)
<1> SUFFICES ASSUME NEW a \in newsz..n - 1
             PROVE  a \in Visited(r, newsz, oldsz)
  OBVIOUS
<1>1. a \in Mapped(r) /\ newsz \in Mapped(r) /\ a \in Nat /\ newsz \in Nat /\ newsz <= a
  BY VmAssumption
<1>2. r.pt[Table(a)] # None /\ r.pt[Table(newsz)] # None
  BY <1>1 DEF Tabled
<1>3. /\ Table(newsz) <= Table(a) /\ (Table(newsz) = Table(a) => newsz % NPT <= a % NPT)
      /\ Table(newsz) \in Nat /\ Table(a) \in Nat /\ a % NPT \in Nat /\ newsz % NPT \in Nat
  <2>1. /\ Table(newsz) <= Table(a) /\ (Table(newsz) = Table(a) => newsz % NPT <= a % NPT)
    BY <1>1, TableOrder, ZenonT(30)
  <2>2. Table(newsz) \in Nat /\ Table(a) \in Nat /\ a % NPT \in 0..NPT - 1 /\ newsz % NPT \in 0..NPT - 1
    BY <1>1, TableFacts, ZenonT(30)
  <2> QED
    BY <2>1, <2>2, VmAssumption
<1>4. a \in newsz..oldsz - 1
  BY VmAssumption
<1>5. CASE Table(newsz) = Table(a)
  BY <1>2, <1>3, <1>4, <1>5 DEF Visited
<1>6. CASE Table(newsz) # Table(a)
  <2>1. Table(newsz) \in Table(newsz)..Table(a) - 1
    BY <1>3, <1>6
  <2> QED
    BY <1>2, <1>4, <2>1 DEF Visited
<1> QED
  BY <1>5, <1>6

-----------------------------------------------------------------------------
(* Directories.                                                            *)

\* A directory that setupkvm has just taken.
LEMMA NewDir ==
  /\ NoDir \in Dir /\ Mapped(NoDir) = {} /\ Tables(NoDir) = {} /\ Tabled(NoDir)
  /\ \A d : Pages(d, NoDir) = {d} /\ Apart(d, NoDir)
<1>1. NoDir \in Dir
  BY DEF NoDir, Dir, PageOrNone, TableNo
<1>2. Mapped(NoDir) = {} /\ Tables(NoDir) = {} /\ Frames(NoDir) = {}
  BY DEF NoDir, Mapped, Tables, Frames
<1> QED
  BY <1>1, <1>2, ZenonT(30) DEF Tabled, Pages, Apart, NoDir

\* setupkvm puts a page table of the kernel's into it.
LEMMA AddedKpt ==
  ASSUME NEW d, NEW r \in Dir, Apart(d, r), Tabled(r), NEW k \in Page, k \notin Pages(d, r),
         NEW r2, r2 = [r EXCEPT !.kpt = r.kpt \cup {k}]
  PROVE  /\ r2 \in Dir /\ Mapped(r2) = Mapped(r) /\ Tables(r2) = Tables(r) /\ Tabled(r2)
         /\ Pages(d, r2) = Pages(d, r) \cup {k} /\ Apart(d, r2)
<1>1. r2 \in Dir /\ r2.kpt = r.kpt \cup {k} /\ r2.pt = r.pt /\ r2.map = r.map
  BY DEF Dir
<1>2. Mapped(r2) = Mapped(r) /\ Tables(r2) = Tables(r) /\ Frames(r2) = Frames(r)
  BY <1>1 DEF Mapped, Tables, Frames
<1> QED
  BY <1>1, <1>2, SMTT(30), Z3T(30) DEF Tabled, Pages, Apart

\* mappages puts a page table into it, if there is none for the address ...
LEMMA AddedTable ==
  ASSUME NEW d, NEW r \in Dir, Apart(d, r), Tabled(r), NEW k \in Page, k \notin Pages(d, r),
         NEW t \in TableNo, r.pt[t] = None, NEW r2, r2 = [r EXCEPT !.pt[t] = k]
  PROVE  /\ r2 \in Dir /\ Mapped(r2) = Mapped(r) /\ Tabled(r2)
         /\ Pages(d, r2) = Pages(d, r) \cup {k} /\ Apart(d, r2)
<1>1. /\ r2 \in Dir /\ r2.kpt = r.kpt /\ r2.map = r.map /\ r2.pt[t] = k
      /\ \A s \in TableNo \ {t} : r2.pt[s] = r.pt[s]
      /\ DOMAIN r2.pt = TableNo /\ DOMAIN r.pt = TableNo
  BY DEF Dir, PageOrNone
<1>2. k # None
  BY DEF Page, None
<1>3. Mapped(r2) = Mapped(r) /\ Frames(r2) = Frames(r)
  BY <1>1 DEF Mapped, Frames
<1>4. Tables(r2) = Tables(r) \cup {k}
  BY <1>1, <1>2 DEF Tables
<1>5. Tabled(r2)
  BY <1>1, <1>2, <1>3, TableInRange DEF Tabled, Mapped
<1>6. Pages(d, r2) = Pages(d, r) \cup {k}
  BY <1>1, <1>3, <1>4 DEF Pages
<1>7. /\ d \notin r2.kpt \cup Tables(r2) \cup Frames(r2)
      /\ r2.kpt \cap (Tables(r2) \cup Frames(r2)) = {} /\ Tables(r2) \cap Frames(r2) = {}
  BY <1>1, <1>3, <1>4 DEF Apart, Pages
<1>8. \A s \in TableNo : r.pt[s] # k
  BY <1>1, <1>2 DEF Pages, Tables
<1>9. \A s, u \in DOMAIN r2.pt : r2.pt[s] = r2.pt[u] /\ r2.pt[s] # None => s = u
  BY <1>1, <1>8 DEF Apart
<1> QED
  BY <1>1, <1>3, <1>5, <1>6, <1>7, <1>9 DEF Apart

\* ... and the page itself.
LEMMA AddedPage ==
  ASSUME NEW d, NEW r \in Dir, Apart(d, r), Tabled(r), NEW m \in Page, m \notin Pages(d, r),
         NEW va \in Va, r.map[va] = None, r.pt[Table(va)] # None,
         NEW r2, r2 = [r EXCEPT !.map[va] = m]
  PROVE  /\ r2 \in Dir /\ Mapped(r2) = Mapped(r) \cup {va} /\ Tabled(r2)
         /\ Pages(d, r2) = Pages(d, r) \cup {m} /\ Apart(d, r2)
<1>1. /\ r2 \in Dir /\ r2.kpt = r.kpt /\ r2.pt = r.pt /\ r2.map[va] = m
      /\ \A a \in Va \ {va} : r2.map[a] = r.map[a]
  BY DEF Dir, PageOrNone
<1>2. m # None
  BY DEF Page, None
<1>3. Mapped(r2) = Mapped(r) \cup {va}
  BY <1>1, <1>2 DEF Mapped
<1>4. Frames(r2) = Frames(r) \cup {m}
  BY <1>1, <1>3 DEF Frames, Mapped
<1>5. Tables(r2) = Tables(r)
  BY <1>1 DEF Tables
<1>6. \A a \in Mapped(r) : r.map[a] # m
  BY DEF Pages, Frames
<1>7. \A a, b \in Mapped(r2) : r2.map[a] = r2.map[b] => a = b
  BY <1>1, <1>3, <1>6 DEF Apart, Mapped
<1> QED
  BY <1>1, <1>3, <1>4, <1>5, <1>7 DEF Tabled, Pages, Apart

\* Both together: m is mapped at va, whose page table is w then.
Entered(r, va, m, w) == [r EXCEPT !.map[va] = m, !.pt[Table(va)] = w]

\* mappages leaves a well-formed directory, with the page and the table in it.
LEMMA AddedBoth ==
  ASSUME NEW d, NEW r \in Dir, Apart(d, r), Tabled(r), NEW m \in Page, m \notin Pages(d, r),
         NEW va \in Va, r.map[va] = None, NEW w,
         r.pt[Table(va)] = None => w \in Page /\ w \notin Pages(d, r) /\ w # m,
         r.pt[Table(va)] # None => w = r.pt[Table(va)],
         NEW r2, r2 = Entered(r, va, m, w)
  PROVE  /\ r2 \in Dir /\ Mapped(r2) = Mapped(r) \cup {va} /\ Tabled(r2) /\ Apart(d, r2)
         /\ Pages(d, r2) = Pages(d, r) \cup {w, m}
         /\ r.pt[Table(va)] # None => w \in Pages(d, r)
<1>0. Table(va) \in TableNo
  BY TableInRange
<1>1. CASE r.pt[Table(va)] = None
  <2> DEFINE u == [r EXCEPT !.pt[Table(va)] = w]
  <2>1. /\ u \in Dir /\ Mapped(u) = Mapped(r) /\ Tabled(u)
        /\ Pages(d, u) = Pages(d, r) \cup {w} /\ Apart(d, u)
    BY <1>0, <1>1, AddedTable
  <2>2. u.map = r.map /\ u.pt[Table(va)] = w /\ w # None
    BY <1>0, <1>1 DEF Dir, Page, None
  <2>3. r2 = [u EXCEPT !.map[va] = m]
    BY <1>1, Zenon DEF Dir, Entered
  <2> HIDE DEF u
  <2>4. m \notin Pages(d, u) /\ u.map[va] = None /\ u.pt[Table(va)] # None
    BY <1>1, <2>1, <2>2
  <2>5. /\ r2 \in Dir /\ Mapped(r2) = Mapped(u) \cup {va} /\ Tabled(r2)
        /\ Pages(d, r2) = Pages(d, u) \cup {m} /\ Apart(d, r2)
    BY <2>1, <2>3, <2>4, AddedPage
  <2>6. Pages(d, r2) = Pages(d, r) \cup {w, m}
    BY <2>1, <2>5
  <2> QED
    BY <1>1, <2>1, <2>5, <2>6
<1>2. CASE r.pt[Table(va)] # None
  <2>1. r2 = [r EXCEPT !.map[va] = m]
    BY <1>0, <1>2, Zenon DEF Dir, Entered
  <2>2. /\ r2 \in Dir /\ Mapped(r2) = Mapped(r) \cup {va} /\ Tabled(r2)
        /\ Pages(d, r2) = Pages(d, r) \cup {m} /\ Apart(d, r2)
    BY <1>2, <2>1, AddedPage
  <2>3. w \in Pages(d, r)
    BY <1>0, <1>2 DEF Pages, Tables, Dir
  <2>4. Pages(d, r2) = Pages(d, r) \cup {w, m}
    BY <2>2, <2>3
  <2> QED
    BY <1>2, <2>2, <2>3, <2>4
<1> QED
  BY <1>1, <1>2

\* deallocuvm takes pages out of it.
LEMMA Deallocated ==
  ASSUME NEW d, NEW r \in Dir, Apart(d, r), Tabled(r), NEW newsz \in Nat, NEW oldsz \in 0..KERN,
         NEW r2, r2 = deallocuvm(r, newsz, oldsz)
  PROVE  /\ r2 \in Dir /\ Tabled(r2) /\ Apart(d, r2)
         /\ Dropped(r, newsz, oldsz) \subseteq Pages(d, r)
         /\ Pages(d, r2) = Pages(d, r) \ Dropped(r, newsz, oldsz)
         /\ Mapped(r2) = Mapped(r) \ Visited(r, newsz, oldsz)
<1> DEFINE V == Visited(r, newsz, oldsz)
<1>1. V \subseteq Va
  BY VmAssumption DEF Visited, Va
<1>2. /\ r2 \in Dir /\ r2.kpt = r.kpt /\ r2.pt = r.pt
      /\ \A a \in Va : r2.map[a] = IF a \in V THEN None ELSE r.map[a]
  BY DEF Dir, PageOrNone, deallocuvm
<1>3. Dropped(r, newsz, oldsz) = {r.map[a] : a \in V} \ {None}
  BY DEF Dropped
<1> HIDE DEF V
<1>4. Mapped(r2) = Mapped(r) \ V
  BY <1>2 DEF Mapped
<1>5. Tables(r2) = Tables(r)
  BY <1>2 DEF Tables
<1>6. Dropped(r, newsz, oldsz) \subseteq Frames(r)
  BY <1>1, <1>3 DEF Frames, Mapped
<1>7. Frames(r2) = Frames(r) \ Dropped(r, newsz, oldsz)
  BY <1>1, <1>2, <1>3, <1>4 DEF Frames, Mapped, Apart
<1>8. \A a, b \in Mapped(r2) : r2.map[a] = r2.map[b] => a = b
  BY <1>2, <1>4 DEF Apart, Mapped
<1>9. Tabled(r2)
  BY <1>2, <1>4 DEF Tabled
<1>10. Apart(d, r2)
  BY <1>2, <1>5, <1>7, <1>8 DEF Apart
<1>11. Pages(d, r2) = Pages(d, r) \ Dropped(r, newsz, oldsz)
  BY <1>2, <1>5, <1>6, <1>7 DEF Pages, Apart
<1> QED
  BY <1>2, <1>4, <1>6, <1>9, <1>10, <1>11 DEF Pages, V

-----------------------------------------------------------------------------
(* Pages that move from place to place.                                    *)

\* kalloc, for a process.
LEMMA FreeToHeld ==
  ASSUME NEW F, NEW L, NEW S, NEW H, Partition(F, L, S, H),
         DOMAIN H = Proc, NEW k \in F, NEW p \in Proc
  PROVE  Partition(F \ {k}, L, S, [H EXCEPT ![p] = @ \cup {k}])
<1> DEFINE G == [H EXCEPT ![p] = @ \cup {k}]
<1>1. G[p] = H[p] \cup {k} /\ \A q \in Proc \ {p} : G[q] = H[q]
  OBVIOUS
<1> HIDE DEF G
<1> QED
  BY <1>1 DEF Partition

\* kalloc, for a directory.
LEMMA FreeToSpace ==
  ASSUME NEW F, NEW L, NEW S, NEW H, Partition(F, L, S, H),
         NEW K, K \subseteq F, NEW d \in DOMAIN S
  PROVE  Partition(F \ K, L, [S EXCEPT ![d] = @ \cup K], H)
<1> DEFINE T == [S EXCEPT ![d] = @ \cup K]
<1>1. /\ DOMAIN T = DOMAIN S /\ T[d] = S[d] \cup K
      /\ \A e \in DOMAIN S \ {d} : T[e] = S[e]
  OBVIOUS
<1> HIDE DEF T
<1> QED
  BY <1>1 DEF Partition

\* kalloc, for a new directory.
LEMMA FreeToNew ==
  ASSUME NEW F, NEW L, NEW S, NEW H, Partition(F, L, S, H),
         NEW k \in F, k \notin DOMAIN S
  PROVE  Partition(F \ {k}, L, [e \in DOMAIN S \cup {k} |-> IF e = k THEN {k} ELSE S[e]], H)
<1> DEFINE T == [e \in DOMAIN S \cup {k} |-> IF e = k THEN {k} ELSE S[e]]
<1>1. /\ DOMAIN T = DOMAIN S \cup {k} /\ T[k] = {k}
      /\ \A e \in DOMAIN S : T[e] = S[e]
  OBVIOUS
<1> HIDE DEF T
<1> QED
  BY <1>1 DEF Partition

\* A page that a process holds is mapped.
LEMMA HeldToSpace ==
  ASSUME NEW F, NEW L, NEW S, NEW H, Partition(F, L, S, H),
         DOMAIN H = Proc, NEW p \in Proc, NEW m \in H[p], NEW d \in DOMAIN S
  PROVE  Partition(F, L, [S EXCEPT ![d] = @ \cup {m}], [H EXCEPT ![p] = @ \ {m}])
<1> DEFINE T == [S EXCEPT ![d] = @ \cup {m}]
           G == [H EXCEPT ![p] = @ \ {m}]
<1>1. /\ DOMAIN T = DOMAIN S /\ T[d] = S[d] \cup {m}
      /\ \A e \in DOMAIN S \ {d} : T[e] = S[e]
  OBVIOUS
<1>2. G[p] = H[p] \ {m} /\ \A q \in Proc \ {p} : G[q] = H[q]
  OBVIOUS
<1> HIDE DEF T, G
<1> QED
  BY <1>1, <1>2 DEF Partition

\* A directory is given up, and so is what some processes hold: A is freed, B is dropped.
LEMMA GivenBack ==
  ASSUME NEW F, NEW L, NEW S, NEW H, Partition(F, L, S, H), NEW A, NEW B, A \cap B = {},
         NEW d, NEW G, \A q \in Proc : G[q] \subseteq H[q],
         \A x : x \in A \cup B <=> \/ d \in DOMAIN S /\ x \in S[d]
                                 \/ \E q \in Proc : x \in H[q] /\ x \notin G[q]
  PROVE  Partition(F \cup A, L \cup B, [e \in DOMAIN S \ {d} |-> S[e]], G)
<1> DEFINE T == [e \in DOMAIN S \ {d} |-> S[e]]
<1>1. DOMAIN T = DOMAIN S \ {d} /\ \A e \in DOMAIN S \ {d} : T[e] = S[e]
  OBVIOUS
<1> HIDE DEF T
<1>2. F \cap L = {}
  BY DEF Partition
<1>3. \A x \in A \cup B : x \notin F /\ x \notin L /\ x \in Page
  BY DEF Partition
<1>4. \A x \in A \cup B : \A e \in DOMAIN T : x \notin T[e]
  BY <1>1 DEF Partition
<1>5. \A x \in A \cup B : \A q \in Proc : x \notin G[q]
  BY DEF Partition
<1>6. \A x \in Page : \/ x \in F \cup A \cup L \cup B
                      \/ \E e \in DOMAIN T : x \in T[e]
                      \/ \E q \in Proc : x \in G[q]
  BY <1>1 DEF Partition
<1> QED
  BY <1>1, <1>2, <1>3, <1>4, <1>5, <1>6 DEF Partition

\* deallocuvm.
LEMMA PartToFree ==
  ASSUME NEW F, NEW L, NEW S, NEW H, Partition(F, L, S, H),
         NEW d \in DOMAIN S, NEW X, X \subseteq S[d]
  PROVE  Partition(F \cup X, L, [S EXCEPT ![d] = @ \ X], H)
<1> DEFINE T == [S EXCEPT ![d] = @ \ X]
<1>1. /\ DOMAIN T = DOMAIN S /\ T[d] = S[d] \ X
      /\ \A e \in DOMAIN S \ {d} : T[e] = S[e]
  OBVIOUS
<1> HIDE DEF T
<1> QED
  BY <1>1 DEF Partition

-----------------------------------------------------------------------------
(* What a step does.                                                       *)

\* A process that is in no call.
LEMMA IdleFacts ==
  /\ Idle \in Ops /\ Idle.at = "user" /\ Idle.for = "none" /\ Idle.dir = None
  /\ Idle.mem = None /\ Idle.kid = None /\ Idle.va = 0
BY DEF Idle, Ops, PageOrNone

\* A slot without a process.
LEMMA UnusedFacts ==
  /\ Unused \in Slots /\ Unused.state = "UNUSED" /\ Unused.kstack = None
  /\ Unused.pgdir = None
BY VmAssumption DEF Unused, Slots, States, PageOrNone

\* The first process has all it needs.
LEMMA InitInv ==
  ASSUME Init
  PROVE  Inv
<1> DEFINE r == [NoDir EXCEPT !.kpt = 5..KPT + 4, !.pt[0] = 3, !.map[0] = 4]
           first == [state |-> "RUN", kstack |-> 1, pgdir |-> 2, sz |-> 1]
<1>0. /\ 1 \in Proc /\ Proc \subseteq Nat \ {0} /\ NPT \in Nat \ {0} /\ KERN \in Nat \ {0}
      /\ KPT \in Nat /\ NPage \in Nat /\ NPage >= KPT + 4
  BY VmAssumption
<1>1. /\ free = (KPT + 5)..NPage /\ lost = {} /\ holed = {} /\ stop = "no"
      /\ DOMAIN dirs = {2} /\ dirs[2] = r /\ dirs \in [{2} -> {r}]
      /\ \A p \in Proc : op[p] = Idle /\ proc[p] = IF p = 1 THEN first ELSE Unused
      /\ op \in [Proc -> {Idle}] /\ proc \in [Proc -> {first, Unused}]
  BY <1>0 DEF Init
<1>2. 0 \in TableNo /\ 0 \in Va /\ Table(0) = 0
  <2>1. 0 \in Va /\ Table(0) = 0
    BY <1>0 DEF Va, Table
  <2> QED
    BY <2>1, TableInRange
<1>3. /\ r.kpt = 5..KPT + 4 /\ r.pt[0] = 3 /\ r.map[0] = 4
      /\ \A t \in TableNo \ {0} : r.pt[t] = None
      /\ \A va \in Va \ {0} : r.map[va] = None
      /\ DOMAIN r.pt = TableNo
  BY <1>2 DEF NoDir, TableNo
<1>4. r \in Dir
  <2>1. 3 \in Page /\ 4 \in Page /\ 5..KPT + 4 \subseteq Page
    BY <1>0 DEF Page
  <2>2. NoDir \in Dir
    BY NewDir, ZenonT(30)
  <2> QED
    BY <2>1, <2>2, ZenonT(30) DEF Dir, PageOrNone
<1> HIDE DEF r
<1>5. Mapped(r) = {0} /\ Tables(r) = {3} /\ Frames(r) = {4}
  <2>1. Mapped(r) = {0}
    BY <1>2, <1>3 DEF Mapped, None
  <2>2. Tables(r) = {3}
    BY <1>2, <1>3 DEF Tables, None
  <2>3. Frames(r) = {4}
    BY <1>3, <2>1, SMTT(30), Z3T(30) DEF Frames
  <2> QED
    BY <2>1, <2>2, <2>3
<1>6. Apart(2, r) /\ Tabled(r)
  BY <1>0, <1>2, <1>3, <1>5, SMTT(30), Z3T(30) DEF Apart, Tabled, None
<1>7. /\ first \in Slots /\ Unused \in Slots /\ Idle \in Ops
      /\ first.state = "RUN" /\ first.kstack = 1 /\ first.pgdir = 2 /\ first.sz = 1
      /\ Unused.state = "UNUSED" /\ Unused.kstack = None /\ Unused.pgdir = None
  BY <1>0, IdleFacts DEF Slots, States, PageOrNone, Page, Unused
<1> HIDE DEF first
<1>8. TypeOK
  <2>1. free \subseteq Page /\ {2} \subseteq Page
    BY <1>0, <1>1 DEF Page
  <2>2. dirs \in [DOMAIN dirs -> Dir]
    BY <1>1, <1>4
  <2>3. proc \in [Proc -> Slots] /\ op \in [Proc -> Ops]
    BY <1>1, <1>7, SMTT(30), Z3T(30)
  <2> QED
    BY <1>1, <2>1, <2>2, <2>3 DEF TypeOK
<1>9. InOnePlace
  <2>1. DOMAIN Spaces = {2} /\ Spaces[2] = 2..KPT + 4
    <3>1. Pages(2, r) = 2..KPT + 4
      BY <1>0, <1>3, <1>5 DEF Pages
    <3> QED
      BY <1>1, <3>1 DEF Spaces
  <2>2. \A p \in Proc : Holds[p] = IF p = 1 THEN {1} ELSE {}
    BY <1>1, <1>7, IdleFacts DEF Holds, Hold, None
  <2> QED
    BY <1>0, <1>1, <2>1, <2>2 DEF InOnePlace, Partition, Page
<1>10. Formed
  BY <1>1, <1>6, SMTT(30), Z3T(30) DEF Formed
<1>11. \A p \in Proc : StageOK(op[p], proc[p], dirs) /\ SlotOK(op[p], proc[p], dirs)
  <2> SUFFICES ASSUME NEW p \in Proc
               PROVE  StageOK(op[p], proc[p], dirs) /\ SlotOK(op[p], proc[p], dirs)
    OBVIOUS
  <2>1. op[p] = Idle /\ Idle.mem = None /\ proc[p] \in {first, Unused} /\ 1 # None /\ 2 # None
    BY <1>1, IdleFacts, SMTT(30), Z3T(30) DEF None
  <2>2. StageOK(op[p], proc[p], dirs)
    BY <2>1, IdleFacts DEF StageOK
  <2>3. SlotOK(op[p], proc[p], dirs)
    BY <1>1, <1>7, <2>1, IdleFacts DEF SlotOK
  <2> QED
    BY <2>2, <2>3
<1>12. Owned /\ Parents
  <2>1. \A p \in Proc : Has(op[p], proc[p]) = IF p = 1 THEN {2} ELSE {}
    BY <1>1, <1>7, IdleFacts DEF Has, None
  <2>2. Owned
    BY <1>0, <1>1, <2>1 DEF Owned
  <2>3. Parents
    BY <1>1, IdleFacts, SMTT(30), Z3T(30) DEF Parents
  <2> QED
    BY <2>2, <2>3
<1>13. \A p \in Proc : SizeOK(op[p], proc[p], dirs, holed)
  <2> SUFFICES ASSUME NEW p \in Proc
               PROVE  SizeOK(op[p], proc[p], dirs, holed)
    OBVIOUS
  <2>1. op[p].at = "user" /\ op[p].for = "none" /\ op[p].dir = None
    BY <1>1, IdleFacts
  <2>2. proc[p].state \in {"RUN", "ZOMBIE"} => Mapped(dirs[proc[p].pgdir]) = 0..proc[p].sz - 1
    <3>1. 0..1 - 1 = {0}
      OBVIOUS
    <3>2. CASE p = 1
      <4>1. dirs[proc[p].pgdir] = r /\ proc[p].sz = 1
        BY <1>1, <1>7, <3>2
      <4> QED
        BY <1>5, <3>1, <4>1
    <3>3. CASE p # 1
      BY <1>1, <1>7, <3>3
    <3> QED
      BY <3>2, <3>3
  <2> QED
    BY <2>1, <2>2 DEF SizeOK
<1>14. \A p \in Proc : ProcOK(op[p], proc[p], dirs, holed)
  BY <1>11, <1>13, Zenon DEF ProcOK
<1>15. stop = "no"
  BY <1>1
<1> QED
  BY <1>8, <1>9, <1>10, <1>12, <1>14, <1>15 DEF Inv

\* kalloc returns a free page.
LEMMA Kalloc ==
  ASSUME free # {}, free \subseteq Page
  PROVE  kalloc \in free /\ kalloc \in Page /\ kalloc # None
<1>1. kalloc \in free
  BY ZenonT(30) DEF kalloc
<1> QED
  BY <1>1 DEF Page, None

\* What the invariant says of one process, of the numbers in its call ...
LEMMA Facts ==
  ASSUME Inv, NEW p \in Proc
  PROVE  /\ StageOK(op[p], proc[p], dirs) /\ SlotOK(op[p], proc[p], dirs)
         /\ SizeOK(op[p], proc[p], dirs, holed)
         /\ op[p] \in Ops /\ proc[p] \in Slots
         /\ None \notin DOMAIN dirs /\ KERN \in Nat
         /\ op[p].va \in Nat /\ op[p].goal \in Nat /\ op[p].base \in Nat /\ proc[p].sz \in Nat
         /\ proc[p].sz <= KERN
<1>1. /\ StageOK(op[p], proc[p], dirs) /\ SlotOK(op[p], proc[p], dirs)
      /\ SizeOK(op[p], proc[p], dirs, holed)
  BY Zenon DEF Inv, ProcOK
<1>2. op[p] \in Ops /\ proc[p] \in Slots
  BY DEF Inv, TypeOK
<1>3. None \notin DOMAIN dirs /\ KERN \in Nat
  BY VmAssumption DEF Inv, TypeOK, Page, None
<1>4. op[p].va \in Nat /\ op[p].goal \in Nat /\ op[p].base \in Nat
  BY <1>2 DEF Ops
<1>5. proc[p].sz \in 0..KERN
  BY <1>2 DEF Slots
<1> QED
  BY <1>1, <1>2, <1>3, <1>4, <1>5

\* ... and of a directory.
LEMMA DirFacts ==
  ASSUME Inv, NEW d \in DOMAIN dirs
  PROVE  dirs[d] \in Dir /\ Apart(d, dirs[d]) /\ Tabled(dirs[d]) /\ d \in Page /\ d # None
<1>1. dirs[d] \in Dir /\ Apart(d, dirs[d]) /\ Tabled(dirs[d]) /\ d \in Page
  BY Zenon DEF Inv, TypeOK, Formed
<1> QED
  BY <1>1 DEF Page, None

\* A free page is nowhere else, ...
LEMMA FreeIsFree ==
  ASSUME Inv, NEW k \in free
  PROVE  /\ k \in Page /\ k # None
         /\ \A q \in Proc : k # proc[q].kstack /\ k # op[q].mem
         /\ \A d \in DOMAIN dirs : k # d /\ k \notin Pages(d, dirs[d])
<1>1. Partition(free, lost, Spaces, Holds) /\ free \subseteq Page
  BY DEF Inv, InOnePlace, TypeOK
<1>2. k \in Page /\ k # None
  BY <1>1 DEF Page, None
<1>3. \A q \in Proc : k \notin Holds[q]
  BY <1>1 DEF Partition
<1>4. \A d \in DOMAIN dirs : k \notin Pages(d, dirs[d])
  BY <1>1 DEF Partition, Spaces
<1> QED
  BY <1>2, <1>3, <1>4 DEF Holds, Hold, Pages

\* ... and so is the page that a process is about to map.
LEMMA MemIsHeld ==
  ASSUME Inv, NEW p \in Proc, op[p].mem # None
  PROVE  /\ op[p].mem \in Page /\ op[p].mem \in Holds[p] /\ op[p].mem \notin free
         /\ \A d \in DOMAIN dirs : op[p].mem \notin Pages(d, dirs[d])
<1>1. Partition(free, lost, Spaces, Holds)
  BY DEF Inv, InOnePlace
<1>2. op[p].mem \in Holds[p]
  BY DEF Holds, Hold
<1>3. op[p].mem \in Page /\ op[p].mem \notin free
  BY <1>1, <1>2 DEF Partition
<1>4. \A d \in DOMAIN dirs : op[p].mem \notin Pages(d, dirs[d])
  BY <1>1, <1>2 DEF Partition, Spaces
<1> QED
  BY <1>2, <1>3, <1>4

\* What a step does to the directories: those of its processes are D before it
\* and G after it, and it leaves the others alone.
Moved(D, G) ==
  /\ DOMAIN dirs' \subseteq Page /\ dirs' \in [DOMAIN dirs' -> Dir] /\ holed' \subseteq DOMAIN dirs'
  /\ \A d \in DOMAIN dirs' : Apart(d, dirs'[d]) /\ Tabled(dirs'[d])
  /\ \A d \in DOMAIN dirs \ D : /\ d \in DOMAIN dirs' /\ dirs'[d] = dirs[d]
                                /\ d \in holed' <=> d \in holed
  /\ \A d \in G : d \in DOMAIN dirs => d \in D
  /\ \A d \in DOMAIN dirs' : d \in D \/ d \notin DOMAIN dirs => d \in G

\* They stay as they are, but for a page that is missing from one.
LEMMA SameDirs ==
  ASSUME Inv, NEW D, dirs' = dirs,
         holed' = holed \/ \E d \in D \cap DOMAIN dirs : holed' = holed \cup {d}
  PROVE  Moved(D, D) /\ Spaces' = Spaces
<1>1. DOMAIN dirs \subseteq Page /\ dirs \in [DOMAIN dirs -> Dir] /\ holed \subseteq DOMAIN dirs
  BY DEF Inv, TypeOK
<1>2. \A d \in DOMAIN dirs' : Apart(d, dirs'[d]) /\ Tabled(dirs'[d])
  BY Zenon DEF Inv, Formed
<1>3. Spaces' = Spaces
  BY DEF Spaces
<1> QED
  BY <1>1, <1>2, <1>3 DEF Moved

\* One is changed, ...
DirSet(d, r) ==
  /\ DOMAIN dirs' = DOMAIN dirs /\ dirs'[d] = r
  /\ \A e \in DOMAIN dirs \ {d} : dirs'[e] = dirs[e]
  /\ Spaces' = [Spaces EXCEPT ![d] = Pages(d, r)]

\* ... by deallocuvm or mappages, ...
LEMMA DirChanged ==
  ASSUME Inv, NEW D, NEW d \in D, d \in DOMAIN dirs, NEW r \in Dir, dirs' = [dirs EXCEPT ![d] = r],
         holed' \in {holed, holed \cup {d}}, Apart(d, r), Tabled(r)
  PROVE  Moved(D, D) /\ DirSet(d, r)
<1>1. /\ DOMAIN dirs' = DOMAIN dirs /\ dirs'[d] = r
      /\ \A e \in DOMAIN dirs \ {d} : dirs'[e] = dirs[e]
  OBVIOUS
<1>2. Spaces' = [Spaces EXCEPT ![d] = Pages(d, r)]
  BY Zenon DEF Spaces
<1>3. DOMAIN dirs \subseteq Page /\ dirs \in [DOMAIN dirs -> Dir] /\ holed \subseteq DOMAIN dirs
  BY DEF Inv, TypeOK
<1>4. dirs' \in [DOMAIN dirs' -> Dir]
  BY <1>1, <1>3
<1>5. \A e \in DOMAIN dirs' : Apart(e, dirs'[e]) /\ Tabled(dirs'[e])
  BY <1>1, Zenon DEF Inv, Formed
<1>6. Moved(D, D)
  BY <1>1, <1>3, <1>4, <1>5 DEF Moved
<1> QED
  BY <1>1, <1>2, <1>6 DEF DirSet

\* ... added, ...
LEMMA DirAdded ==
  ASSUME Inv, NEW D, NEW k \in Page, k \notin DOMAIN dirs, dirs' = With(k, NoDir), holed' = holed
  PROVE  /\ Moved(D, D \cup {k})
         /\ Spaces' = [e \in DOMAIN Spaces \cup {k} |-> IF e = k THEN {k} ELSE Spaces[e]]
         /\ DOMAIN dirs' = DOMAIN dirs \cup {k} /\ dirs'[k] = NoDir
         /\ \A e \in DOMAIN dirs : dirs'[e] = dirs[e]
<1>1. /\ DOMAIN dirs' = DOMAIN dirs \cup {k} /\ dirs'[k] = NoDir
      /\ \A e \in DOMAIN dirs : dirs'[e] = dirs[e]
  BY DEF With
<1>2. NoDir \in Dir /\ Tabled(NoDir) /\ Pages(k, NoDir) = {k} /\ Apart(k, NoDir)
  BY NewDir, Zenon
<1>3. Spaces' = [e \in DOMAIN Spaces \cup {k} |-> IF e = k THEN {k} ELSE Spaces[e]]
  BY <1>1, <1>2 DEF Spaces
<1>4. DOMAIN dirs \subseteq Page /\ dirs \in [DOMAIN dirs -> Dir] /\ holed \subseteq DOMAIN dirs
  BY DEF Inv, TypeOK
<1>5. dirs' \in [DOMAIN dirs' -> Dir]
  BY <1>2, <1>4 DEF With
<1>6. \A e \in DOMAIN dirs' : Apart(e, dirs'[e]) /\ Tabled(dirs'[e])
  BY <1>1, <1>2, Zenon DEF Inv, Formed
<1>7. Moved(D, D \cup {k})
  BY <1>1, <1>4, <1>5, <1>6 DEF Moved
<1> QED
  BY <1>1, <1>3, <1>7

\* ... or freed, ...
DirGone(d) ==
  /\ DOMAIN dirs' = DOMAIN dirs \ {d} /\ \A e \in DOMAIN dirs \ {d} : dirs'[e] = dirs[e]
  /\ Spaces' = [e \in DOMAIN Spaces \ {d} |-> Spaces[e]]

\* ... by freevm, with all it maps.
LEMMA DirRemoved ==
  ASSUME Inv, NEW D, NEW d \in D \cup {None}, dirs' = Without(d), holed' = holed \ {d}
  PROVE  Moved(D, D \ {d}) /\ DirGone(d)
<1>1. /\ DOMAIN dirs' = DOMAIN dirs \ {d}
      /\ \A e \in DOMAIN dirs \ {d} : dirs'[e] = dirs[e]
  BY DEF Without
<1>2. Spaces' = [e \in DOMAIN Spaces \ {d} |-> Spaces[e]]
  BY DEF Spaces, Without
<1>3. /\ DOMAIN dirs \subseteq Page /\ dirs \in [DOMAIN dirs -> Dir]
      /\ holed \subseteq DOMAIN dirs /\ None \notin DOMAIN dirs
  BY DEF Inv, TypeOK, Page, None
<1>4. dirs' \in [DOMAIN dirs' -> Dir]
  BY <1>3 DEF Without
<1>5. \A e \in DOMAIN dirs' : Apart(e, dirs'[e]) /\ Tabled(dirs'[e])
  BY <1>1, Zenon DEF Inv, Formed
<1>6. Moved(D, D \ {d})
  BY <1>1, <1>3, <1>4, <1>5 DEF Moved
<1> QED
  BY <1>1, <1>2, <1>6 DEF DirGone

\* What one process holds changes.
LEMMA HoldsChanged ==
  ASSUME Inv, NEW p \in Proc, NEW o, NEW s, op' = [op EXCEPT ![p] = o], proc' = [proc EXCEPT ![p] = s]
  PROVE  Holds' = [Holds EXCEPT ![p] = Hold(o, s)]
BY ZenonT(30) DEF Holds, Inv, TypeOK

\* A process whose directories stay as they are.
LEMMA ProcKept ==
  ASSUME NEW o, NEW s, NEW E, NEW H, ProcOK(o, s, E, H), NEW F, NEW I,
         None \notin DOMAIN E, None \notin H, None \notin I,
         \A d \in Has(o, s) : d \in DOMAIN E => /\ d \in DOMAIN F /\ F[d] = E[d]
                                                /\ d \in I <=> d \in H
  PROVE  ProcOK(o, s, F, I)
<1>1. StageOK(o, s, E) /\ SlotOK(o, s, E) /\ SizeOK(o, s, E, H)
  BY DEF ProcOK
<1>2. \A d \in {s.pgdir, o.dir} :
        d \in DOMAIN E => d \in DOMAIN F /\ F[d] = E[d] /\ (d \in I <=> d \in H)
  BY ZenonT(30), SMTT(30) DEF Has
<1>3. StageOK(o, s, F)
  BY <1>1, <1>2 DEF StageOK
<1>4. SlotOK(o, s, F)
  BY <1>1, <1>2, ZenonT(30), SMTT(30) DEF SlotOK
<1>5. /\ o.at = "kmap" => o.dir \in DOMAIN E
      /\ o.dir # None => o.dir \in DOMAIN E
      /\ s.state \in {"RUN", "ZOMBIE"} => s.pgdir \in DOMAIN E
  BY <1>1, IdleFacts, ZenonT(30), SMTT(30) DEF StageOK, SlotOK
<1>6. SizeOK(o, s, F, I)
  BY <1>1, <1>2, <1>5, ZenonT(30), SMTT(30) DEF SizeOK
<1> QED
  BY <1>3, <1>4, <1>6 DEF ProcOK

\* A step of process p, which also sets the slot of k: itself, or its child.
LEMMA Step ==
  ASSUME Inv, NEW p \in Proc, NEW k \in Proc, NEW o \in Ops, NEW s \in Slots,
         op' = [op EXCEPT ![p] = o], proc' = [proc EXCEPT ![k] = s],
         NEW D, D = Has(op[p], proc[p]) \cup Has(op[k], proc[k]),
         NEW G, G = Has(op'[p], proc'[p]) \cup Has(op'[k], proc'[k]), Moved(D, G),
         p # k => Has(op'[p], proc'[p]) \cap Has(op'[k], proc'[k]) = {},
         ProcOK(op'[p], proc'[p], dirs', holed'), ProcOK(op'[k], proc'[k], dirs', holed'),
         proc[k].state = "EMBRYO" => op[p].kid = k,
         o.kid # None => /\ proc'[o.kid].state = "EMBRYO"
                         /\ o.kid = op[p].kid \/ proc[o.kid].state # "EMBRYO",
         InOnePlace', stop' \in {"no", "copyuvm", "loaduvm", "copyout", "remap"},
         stop' # "no" => holed' # {}
  PROVE  Inv'
<1>1. op \in [Proc -> Ops] /\ proc \in [Proc -> Slots] /\ None \notin DOMAIN dirs /\ None \notin holed
  BY SMTT(30), Z3T(30) DEF Inv, TypeOK, Page, None
<1>2. /\ op' \in [Proc -> Ops] /\ op'[p] = o /\ \A q \in Proc \ {p} : op'[q] = op[q]
      /\ proc' \in [Proc -> Slots] /\ \A q \in Proc \ {k} : proc'[q] = proc[q]
  BY <1>1
<1>3. TypeOK' /\ Formed'
  BY <1>2, Zenon DEF Moved, TypeOK, Formed, InOnePlace, Partition
<1>4. \A q \in Proc \ {p, k} : Has(op[q], proc[q]) \cap D = {}
  BY ZenonT(30), SMTT(30) DEF Inv, Owned
<1>5. \A q \in Proc \ {p, k} :
        /\ Has(op[q], proc[q]) \cap G = {}
        /\ ProcOK(op[q], proc[q], dirs', holed')
  <2> SUFFICES ASSUME NEW q \in Proc \ {p, k}
               PROVE  /\ Has(op[q], proc[q]) \cap G = {}
                      /\ ProcOK(op[q], proc[q], dirs', holed')
    BY ZenonT(30), SMTT(30)
  <2>1. \A d \in Has(op[q], proc[q]) : d \in DOMAIN dirs => 
          d \in DOMAIN dirs' /\ dirs'[d] = dirs[d] /\ (d \in holed' <=> d \in holed)
    BY <1>4 DEF Moved
  <2>2. ProcOK(op[q], proc[q], dirs, holed) /\ None \notin holed'
    BY <1>3, SMTT(30), Z3T(30) DEF Inv, TypeOK, Page, None
  <2>3. ProcOK(op[q], proc[q], dirs', holed')
    BY <1>1, <2>1, <2>2, ProcKept, ZenonT(30), SMTT(30)
  <2>4. Has(op[q], proc[q]) \subseteq DOMAIN dirs
    <3>1. StageOK(op[q], proc[q], dirs) /\ SlotOK(op[q], proc[q], dirs)
      BY <2>2, Zenon DEF ProcOK
    <3> QED
      BY <3>1, IdleFacts DEF StageOK, SlotOK, Has
  <2> QED
    BY <1>4, <2>3, <2>4, ZenonT(30), SMTT(30) DEF Moved
<1>6. \A q \in Proc : ProcOK(op'[q], proc'[q], dirs', holed')
  BY <1>2, <1>5
<1>7. Owned'
  <2>1. ASSUME NEW a \in Proc, NEW b \in Proc, a # b
        PROVE  Has(op'[a], proc'[a]) \cap Has(op'[b], proc'[b]) = {}
    <3>1. CASE a \in {p, k} /\ b \in {p, k}
      BY <2>1, <3>1
    <3>2. CASE a \in {p, k} /\ b \notin {p, k}
      BY <1>2, <1>5, <3>2
    <3>3. CASE a \notin {p, k} /\ b \in {p, k}
      BY <1>2, <1>5, <3>3
    <3>4. CASE a \notin {p, k} /\ b \notin {p, k}
      BY <1>2, <2>1, <3>4, ZenonT(30), SMTT(30) DEF Inv, Owned
    <3> QED
      BY <3>1, <3>2, <3>3, <3>4, ZenonT(30), SMTT(30)
  <2>2. ASSUME NEW d \in DOMAIN dirs'
        PROVE  \E q \in Proc : d \in Has(op'[q], proc'[q])
    <3>1. CASE d \in G
      BY <3>1, ZenonT(30), SMTT(30)
    <3>2. CASE d \notin G
      <4>1. d \in DOMAIN dirs /\ d \notin D
        BY <3>2 DEF Moved
      <4>2. PICK q \in Proc : d \in Has(op[q], proc[q])
        BY <4>1, Zenon DEF Inv, Owned
      <4> QED
        BY <1>2, <4>1, <4>2
    <3> QED
      BY <3>1, <3>2, ZenonT(30), SMTT(30)
  <2> QED
    BY <2>1, <2>2, Zenon DEF Owned
<1>8. Parents'
  <2>1. \A q \in Proc : op[q].kid # None =>
          /\ op[q].kid \in Proc /\ proc[op[q].kid].state = "EMBRYO"
          /\ \A r \in Proc : op[r].kid = op[q].kid => q = r
    BY <1>1, ZenonT(30) DEF Inv, Parents, Ops
  <2>2. \A q \in Proc \ {p} : op[q].kid # None =>
          /\ op'[q] = op[q] /\ proc'[op[q].kid] = proc[op[q].kid] /\ op[q].kid # o.kid
    BY <1>2, <2>1, SMTT(30), Z3T(30)
  <2> QED
    BY <1>2, <2>1, <2>2, SMTT(30), Z3T(30) DEF Parents
<1> QED
  BY <1>3, <1>6, <1>7, <1>8 DEF Inv

\* The same, of a step of one process ...
LEMMA OneStep ==
  ASSUME Inv, NEW p \in Proc, NEW o \in Ops, NEW s \in Slots,
         op' = [op EXCEPT ![p] = o], proc' = [proc EXCEPT ![p] = s],
         Moved(Has(op[p], proc[p]), Has(o, s)),
         StageOK(o, s, dirs'), SlotOK(o, s, dirs'), SizeOK(o, s, dirs', holed'),
         proc[p].state # "EMBRYO", o.kid \in {None, op[p].kid},
         InOnePlace', stop' = stop, holed' # {} \/ holed = {} \/ stop = "no"
  PROVE  Inv'
<1>1. /\ op'[p] = o /\ proc'[p] = s /\ \A q \in Proc \ {p} : proc'[q] = proc[q]
      /\ stop \in {"no", "copyuvm", "loaduvm", "copyout", "remap"} /\ op[p] \in Ops
      /\ stop # "no" => holed # {}
  BY DEF Inv, TypeOK
<1>2. /\ Has(o, s) = Has(op'[p], proc'[p]) \cup Has(op'[p], proc'[p])
      /\ Has(op[p], proc[p]) = Has(op[p], proc[p]) \cup Has(op[p], proc[p])
  BY <1>1
<1>3. ProcOK(op'[p], proc'[p], dirs', holed')
  BY <1>1, Zenon DEF ProcOK
<1>4. o.kid # None => /\ proc'[o.kid].state = "EMBRYO"
                      /\ o.kid = op[p].kid \/ proc[o.kid].state # "EMBRYO"
  BY <1>1 DEF Inv, Parents, Ops
<1>5. stop' \in {"no", "copyuvm", "loaduvm", "copyout", "remap"} /\ (stop' # "no" => holed' # {})
  BY <1>1
<1> QED
  BY <1>2, <1>3, <1>4, <1>5, Step, Zenon

\* ... of one that only goes on with its call ...
LEMMA CallStep ==
  ASSUME Inv, NEW p \in Proc, NEW o \in Ops, op' = [op EXCEPT ![p] = o],
         UNCHANGED <<free, dirs, proc, lost, holed, stop>>,
         StageOK(o, proc[p], dirs), SlotOK(o, proc[p], dirs), SizeOK(o, proc[p], dirs, holed),
         Has(o, proc[p]) = Has(op[p], proc[p]), o.mem = op[p].mem,
         proc[p].state = "RUN", o.kid \in {None, op[p].kid}
  PROVE  Inv'
<1>1. proc' = [proc EXCEPT ![p] = proc[p]] /\ proc[p] \in Slots
  BY ZenonT(30), SMTT(30) DEF Inv, TypeOK
<1>2. Moved(Has(op[p], proc[p]), Has(o, proc[p])) /\ Spaces' = Spaces
  BY SameDirs, ZenonT(30), SMTT(30)
<1>3. Holds' = Holds
  <2>1. Holds' = [Holds EXCEPT ![p] = Hold(o, proc[p])]
    BY <1>1, HoldsChanged, Zenon
  <2> QED
    BY <2>1 DEF Holds, Hold
<1>4. InOnePlace'
  BY <1>2, <1>3, ZenonT(30), SMTT(30) DEF Inv, InOnePlace
<1>5. proc[p].state # "EMBRYO"
  OBVIOUS
<1>6. /\ StageOK(o, proc[p], dirs') /\ SlotOK(o, proc[p], dirs') /\ SizeOK(o, proc[p], dirs', holed')
      /\ stop' = stop /\ (holed' # {} \/ holed = {} \/ stop = "no")
  BY Zenon
<1> QED
  BY <1>1, <1>2, <1>4, <1>5, <1>6, OneStep, Zenon

\* ... and of one that stops in panic, for a page that is missing.
LEMMA StopInv ==
  ASSUME Inv, NEW why \in {"copyuvm", "loaduvm", "copyout", "remap"}, Stop(why), holed # {}
  PROVE  Inv'
<1>1. /\ UNCHANGED <<free, dirs, proc, op, lost, holed>> /\ stop' = why /\ why # "no"
      /\ stop' \in {"no", "copyuvm", "loaduvm", "copyout", "remap"}
  BY DEF Stop
<1>2. TypeOK' /\ InOnePlace' /\ Formed'
  BY <1>1, Zenon DEF Inv, TypeOK, InOnePlace, Formed, Spaces, Holds
<1>3. Owned' /\ Parents' /\ \A p \in Proc : ProcOK(op'[p], proc'[p], dirs', holed')
  BY <1>1, Zenon DEF Inv, Owned, Parents
<1> QED
  BY <1>1, <1>2, <1>3, Zenon DEF Inv

\* The same, of a step of a process and its child, which is in no call.
LEMMA TwoStep ==
  ASSUME Inv, NEW p \in Proc, NEW k \in Proc, p # k, NEW o \in Ops, NEW s \in Slots,
         op' = [op EXCEPT ![p] = o], proc' = [proc EXCEPT ![k] = s],
         op[k] = Idle, proc[k].pgdir = None,
         Moved(Has(op[p], proc[p]), Has(o, proc[p]) \cup Has(Idle, s)),
         Has(o, proc[p]) \cap Has(Idle, s) = {},
         StageOK(o, proc[p], dirs'), SlotOK(o, proc[p], dirs'), SizeOK(o, proc[p], dirs', holed'),
         StageOK(Idle, s, dirs'), SlotOK(Idle, s, dirs'), SizeOK(Idle, s, dirs', holed'),
         proc[k].state = "EMBRYO" => op[p].kid = k,
         o.kid = None \/ (o.kid = k /\ s.state = "EMBRYO" /\ proc[k].state # "EMBRYO"),
         InOnePlace', stop' = "no"
  PROVE  Inv'
<1>1. op'[p] = o /\ proc'[k] = s /\ op'[k] = Idle /\ proc'[p] = proc[p]
  BY ZenonT(30), SMTT(30) DEF Inv, TypeOK
<1>2. Has(op[p], proc[p]) = Has(op[p], proc[p]) \cup Has(op[k], proc[k])
  BY IdleFacts DEF Has
<1>3. /\ ProcOK(op'[p], proc'[p], dirs', holed') /\ ProcOK(op'[k], proc'[k], dirs', holed')
      /\ Has(o, proc[p]) \cup Has(Idle, s) = Has(op'[p], proc'[p]) \cup Has(op'[k], proc'[k])
      /\ Has(op'[p], proc'[p]) \cap Has(op'[k], proc'[k]) = {}
  BY <1>1, Zenon DEF ProcOK
<1>4. o.kid # None => /\ proc'[o.kid].state = "EMBRYO"
                      /\ o.kid = op[p].kid \/ proc[o.kid].state # "EMBRYO"
  BY <1>1, ZenonT(30), SMTT(30)
<1>5. stop' \in {"no", "copyuvm", "loaduvm", "copyout", "remap"} /\ (stop' # "no" => holed' # {})
  OBVIOUS
<1> QED
  BY <1>2, <1>3, <1>4, <1>5, Step, Zenon

-----------------------------------------------------------------------------
(* The actions, put together.                                              *)

\* freevm frees the whole of an address space.
LEMMA FreeVm ==
  ASSUME Inv, NEW d \in DOMAIN dirs
  PROVE  freevm(d) = Pages(d, dirs[d])
<1>1. dirs[d] \in Dir /\ Tabled(dirs[d])
  BY ZenonT(30) DEF Inv, TypeOK, Formed
<1>2. Dropped(dirs[d], 0, KERN) = Frames(dirs[d])
  BY <1>1, FreesAll, ZenonT(30)
<1> QED
  BY <1>2 DEF freevm, Pages

\* fork or exec gives up.
LEMMA AbandonInv ==
  ASSUME Inv, NEW p \in Proc, op[p].at # "user", op[p].for # "sbrk", stop = "no",
         NEW d, d = op[p].dir, NEW pages, NEW dropped, Abandon(p, d, pages, dropped),
         pages \cap dropped = {},
         pages \cup dropped = (IF d = None THEN {} ELSE Pages(d, dirs[d])) \cup ({op[p].mem} \ {None})
  PROVE  Inv'
\* What a process that returns says of itself, once the directory that it built
\* is gone.
<1>returned. ASSUME dirs' = Without(d), holed' = holed \ {d}
             PROVE  /\ Moved(Has(op[p], proc[p]), Has(Idle, proc[p])) /\ DirGone(d)
                    /\ StageOK(Idle, proc[p], dirs') /\ SlotOK(Idle, proc[p], dirs')
                    /\ SizeOK(Idle, proc[p], dirs', holed')
  <2> USE <1>returned
  <2>1. /\ StageOK(op[p], proc[p], dirs) /\ SlotOK(op[p], proc[p], dirs)
        /\ SizeOK(op[p], proc[p], dirs, holed)
        /\ None \notin DOMAIN dirs
    BY Facts, ZenonT(30), SMTT(30)
  <2>2. /\ proc[p].state = "RUN" /\ proc[p].pgdir \in DOMAIN dirs /\ proc[p].pgdir # d
        /\ d \in Has(op[p], proc[p]) \cup {None}
    BY <2>1, ZenonT(30), SMTT(30) DEF StageOK, SlotOK, Has
  <2>3. Has(op[p], proc[p]) \ {d} = Has(Idle, proc[p])
    BY <2>2, IdleFacts DEF Has
  <2>4. Moved(Has(op[p], proc[p]), Has(op[p], proc[p]) \ {d}) /\ DirGone(d)
    BY <2>2, DirRemoved, Zenon
  <2>5. StageOK(Idle, proc[p], dirs')
    BY IdleFacts, ZenonT(30), SMTT(30) DEF StageOK
  <2>6. proc[p].pgdir \in DOMAIN dirs' /\ dirs'[proc[p].pgdir] = dirs[proc[p].pgdir]
    BY <2>2, <2>4, ZenonT(30), SMTT(30) DEF DirGone
  <2>7. SlotOK(Idle, proc[p], dirs')
    BY <2>1, <2>2, <2>6, IdleFacts, ZenonT(30), SMTT(30) DEF SlotOK
  <2>8. proc[p].pgdir \notin holed' => Mapped(dirs'[proc[p].pgdir]) = 0..proc[p].sz - 1
    BY <2>1, <2>2, <2>6, ZenonT(30), SMTT(30) DEF SizeOK
  <2>9. SizeOK(Idle, proc[p], dirs', holed')
    BY <2>8, IdleFacts DEF SizeOK
  <2> QED
    BY <2>3, <2>4, <2>5, <2>7, <2>9
\* exec gives up: "pages" are freed, "dropped" are not.
<1>exec. ASSUME op[p].for \in {"segment", "stack"}
         PROVE  Inv'
  <2> USE <1>exec
  <2>1. /\ StageOK(op[p], proc[p], dirs) /\ SlotOK(op[p], proc[p], dirs) /\ op[p] \in Ops
        /\ proc[p] \in Slots
    BY Facts, Zenon
  <2>2. /\ op[p].kid = None /\ proc[p].state = "RUN" /\ d \in DOMAIN dirs \cup {None}
        /\ op[p].mem # proc[p].kstack \/ op[p].mem = None
    BY <2>1, ZenonT(30), SMTT(30) DEF StageOK
  <2>3. /\ free' = free \cup pages /\ dirs' = Without(d) /\ proc' = proc /\ lost' = lost \cup dropped
        /\ holed' = holed \ {d} /\ op' = [op EXCEPT ![p] = Idle] /\ stop' = stop
    BY <2>2 DEF Abandon, Return
  <2>4. proc' = [proc EXCEPT ![p] = proc[p]]
    BY <2>3 DEF Inv, TypeOK
  <2>5. /\ Moved(Has(op[p], proc[p]), Has(Idle, proc[p])) /\ DirGone(d)
        /\ StageOK(Idle, proc[p], dirs') /\ SlotOK(Idle, proc[p], dirs')
        /\ SizeOK(Idle, proc[p], dirs', holed')
    <3>1. op[p].for # "sbrk"
      OBVIOUS
    <3> QED
      BY <2>3, <3>1, <1>returned, Zenon
  <2>6. InOnePlace'
    <3>1. /\ \A q \in Proc \ {p} : Holds'[q] = Holds[q]
          /\ Holds'[p] = Holds[p] \ {op[p].mem}
          /\ op[p].mem # None => op[p].mem \in Holds[p]
      BY <2>2, <2>3, IdleFacts DEF Holds, Hold, Inv, TypeOK
    <3>2. /\ DOMAIN Spaces = DOMAIN dirs /\ None \notin DOMAIN dirs
          /\ d \in DOMAIN dirs => Spaces[d] = Pages(d, dirs[d])
      BY SMTT(30), Z3T(30) DEF Spaces, Inv, TypeOK, Page, None
    <3>3. \A x : x \in pages \cup dropped <=> \/ d \in DOMAIN Spaces /\ x \in Spaces[d]
                                              \/ \E q \in Proc : x \in Holds[q] /\ x \notin Holds'[q]
      <4>1. \A x \in Holds[p] : x # None
        BY ZenonT(30), SMTT(30) DEF Holds, Hold
      <4>2. \A x : (\E q \in Proc : x \in Holds[q] /\ x \notin Holds'[q]) <=> x \in {op[p].mem} \ {None}
        BY <3>1, <4>1, ZenonT(30), SMTT(30)
      <4> QED
        BY <2>2, <3>2, <4>2, ZenonT(30), SMTT(30)
    <3>4. \A q \in Proc : Holds'[q] \subseteq Holds[q]
      BY <3>1, ZenonT(30), SMTT(30)
    <3>5. Partition(free, lost, Spaces, Holds)
      BY SMTT(30), Z3T(30) DEF Inv, InOnePlace
    <3>6. Partition(free \cup pages, lost \cup dropped, [e \in DOMAIN Spaces \ {d} |-> Spaces[e]], Holds')
      BY <3>3, <3>4, <3>5, GivenBack, ZenonT(30)
    <3> QED
      BY <2>3, <2>5, <3>6, ZenonT(30) DEF InOnePlace, DirGone
  <2>7. /\ proc[p].state # "EMBRYO" /\ Idle.kid \in {None, op[p].kid} /\ Idle \in Ops
        /\ holed' # {} \/ holed = {} \/ stop = "no"
    BY <2>2, IdleFacts
  <2> QED
    BY <2>1, <2>3, <2>4, <2>5, <2>6, <2>7, OneStep, Zenon
\* fork gives up, and frees the kernel stack and the slot of the child.
<1>fork. ASSUME op[p].for = "fork", NEW kid \in Proc, kid = op[p].kid
         PROVE  Inv'
  <2> USE <1>fork
  <2>1. /\ StageOK(op[p], proc[p], dirs) /\ SlotOK(op[p], proc[p], dirs) /\ op[p] \in Ops
        /\ proc[p] \in Slots
    BY Facts, ZenonT(30), SMTT(30)
  <2>2. /\ op[p].kid # None /\ proc[p].state = "RUN" /\ d \in DOMAIN dirs \cup {None}
        /\ op[p].mem # proc[p].kstack \/ op[p].mem = None
        /\ op[p].at # "user" /\ op[p].for # "sbrk"
    BY <2>1, ZenonT(30), SMTT(30) DEF StageOK
  <2>3. proc[kid].state = "EMBRYO" /\ kid # p
    BY <2>2 DEF Inv, Parents
  <2>4. op[kid] = Idle /\ proc[kid].pgdir = None /\ proc[kid].kstack # None
    <3>1. StageOK(op[kid], proc[kid], dirs) /\ SlotOK(op[kid], proc[kid], dirs)
      BY Facts, Zenon
    <3> QED
      BY <2>3, <3>1, Zenon DEF StageOK, SlotOK
  <2>5. /\ free' = free \cup (pages \cup {proc[kid].kstack}) /\ dirs' = Without(d)
        /\ proc' = [proc EXCEPT ![kid] = Unused] /\ lost' = lost \cup dropped
        /\ holed' = holed \ {d} /\ op' = [op EXCEPT ![p] = Idle] /\ stop' = "no"
    BY <2>2 DEF Abandon, Return
  <2>6. /\ Moved(Has(op[p], proc[p]), Has(Idle, proc[p])) /\ DirGone(d)
        /\ StageOK(Idle, proc[p], dirs') /\ SlotOK(Idle, proc[p], dirs')
        /\ SizeOK(Idle, proc[p], dirs', holed')
    BY <2>2, <2>5, <1>returned, Zenon
  <2>7. StageOK(Idle, Unused, dirs') /\ SlotOK(Idle, Unused, dirs')
    BY IdleFacts, UnusedFacts, ZenonT(30), SMTT(30) DEF StageOK, SlotOK
  <2>8. SizeOK(Idle, Unused, dirs', holed')
    BY IdleFacts, UnusedFacts, ZenonT(30), SMTT(30) DEF SizeOK
  <2>9. Has(Idle, Unused) = {}
    BY IdleFacts, UnusedFacts, ZenonT(30), SMTT(30) DEF Has
  <2>10. InOnePlace'
    <3>1. /\ \A q \in Proc \ {p, kid} : Holds'[q] = Holds[q]
          /\ Holds'[p] = Holds[p] \ {op[p].mem} /\ Holds'[kid] = {} /\ Holds[kid] = {proc[kid].kstack}
          /\ op[p].mem # None => op[p].mem \in Holds[p]
      <4>1. /\ op'[p] = Idle /\ proc'[p] = proc[p] /\ op'[kid] = Idle /\ proc'[kid] = Unused
            /\ \A q \in Proc \ {p, kid} : op'[q] = op[q] /\ proc'[q] = proc[q]
        BY <2>3, <2>4, <2>5, ZenonT(30), SMTT(30) DEF Inv, TypeOK
      <4>2. \A q \in Proc : Holds[q] = Hold(op[q], proc[q]) /\ Holds'[q] = Hold(op'[q], proc'[q])
        BY ZenonT(30), SMTT(30) DEF Holds
      <4>3. Holds'[kid] = {} /\ Holds[kid] = {proc[kid].kstack}
        BY <2>4, <4>1, <4>2, IdleFacts, UnusedFacts, SMTT(30), Z3T(30) DEF Hold
      <4>4. /\ Holds'[p] = Holds[p] \ {op[p].mem}
            /\ op[p].mem # None => op[p].mem \in Holds[p]
        BY <2>2, <4>1, <4>2, IdleFacts DEF Hold
      <4> QED
        BY <4>1, <4>2, <4>3, <4>4, SMTT(30), Z3T(30)
    <3>2. /\ DOMAIN Spaces = DOMAIN dirs /\ None \notin DOMAIN dirs
          /\ d \in DOMAIN dirs => Spaces[d] = Pages(d, dirs[d])
      BY SMTT(30), Z3T(30) DEF Spaces, Inv, TypeOK, Page, None
    <3>3. Partition(free, lost, Spaces, Holds)
      BY ZenonT(30), SMTT(30) DEF Inv, InOnePlace
    <3> DEFINE A == pages \cup {proc[kid].kstack}
    <3>4. A \cap dropped = {}
      <4>1. proc[kid].kstack \notin Holds[p]
        BY <2>3, <3>1, <3>3, SMTT(30), Z3T(30) DEF Partition
      <4>2. d \in DOMAIN dirs => proc[kid].kstack \notin Spaces[d]
        BY <3>1, <3>2, <3>3, ZenonT(30) DEF Partition
      <4> QED
        BY <2>2, <3>1, <3>2, <4>1, <4>2, SMTT(30), Z3T(30)
    <3>5. \A x : x \in A \cup dropped <=> \/ d \in DOMAIN Spaces /\ x \in Spaces[d]
                                          \/ \E q \in Proc : x \in Holds[q] /\ x \notin Holds'[q]
      <4>1. \A x \in Holds[p] : x # None
        BY ZenonT(30), SMTT(30) DEF Holds, Hold
      <4>2. \A x : (\E q \in Proc : x \in Holds[q] /\ x \notin Holds'[q])
                   <=> x \in {op[p].mem} \ {None} \/ x = proc[kid].kstack
        BY <2>3, <3>1, <4>1, ZenonT(30), SMTT(30)
      <4>3. \A x : x \in pages \cup dropped <=> \/ d \in DOMAIN dirs /\ x \in Spaces[d]
                                             \/ x \in {op[p].mem} \ {None}
        BY <2>2, <3>2, ZenonT(30), SMTT(30)
      <4>4. \A x : x \in A \cup dropped <=> x \in pages \cup dropped \/ x = proc[kid].kstack
        BY ZenonT(30), SMTT(30)
      <4> QED
        BY <3>2, <4>2, <4>3, <4>4, ZenonT(30), SMTT(30)
    <3>6. \A q \in Proc : Holds'[q] \subseteq Holds[q]
      BY <3>1, SMTT(30), Z3T(30)
    <3> HIDE DEF A
    <3>7. Partition(free \cup A, lost \cup dropped, [e \in DOMAIN Spaces \ {d} |-> Spaces[e]], Holds')
      BY <3>3, <3>4, <3>5, <3>6, GivenBack, ZenonT(30)
    <3> QED
      BY <2>5, <2>6, <3>7, ZenonT(30), SMTT(30) DEF InOnePlace, DirGone, A
  <2>11. /\ Moved(Has(op[p], proc[p]), Has(Idle, proc[p]) \cup Has(Idle, Unused))
         /\ Has(Idle, proc[p]) \cap Has(Idle, Unused) = {}
         /\ Idle \in Ops /\ Unused \in Slots /\ Idle.kid = None /\ p # kid
         /\ proc[kid].state = "EMBRYO" => op[p].kid = kid
    <3>1. Has(Idle, proc[p]) \cup Has(Idle, Unused) = Has(Idle, proc[p])
      BY <2>9
    <3> QED
      BY <2>3, <2>6, <2>9, <3>1, IdleFacts, UnusedFacts, ZenonT(30)
  <2> QED
    BY <2>4, <2>5, <2>6, <2>7, <2>8, <2>10, <2>11, TwoStep, Zenon
<1>1. StageOK(op[p], proc[p], dirs) /\ op[p] \in Ops
  BY Facts, ZenonT(30)
<1>2. op[p].for \in {"fork", "segment", "stack"} /\ (op[p].for = "fork" => op[p].kid \in Proc)
  BY <1>1 DEF StageOK, Ops
<1>3. CASE op[p].for = "fork"
  BY <1>2, <1>3, <1>fork, ZenonT(30)
<1>4. CASE op[p].for # "fork"
  BY <1>2, <1>4, <1>exec, ZenonT(30)
<1> QED
  BY <1>3, <1>4, ZenonT(30), SMTT(30)

\* wait.
LEMMA WaitInv ==
  ASSUME Inv, NEW p \in Proc, NEW kid \in Proc, Wait(p, kid)
  PROVE  Inv'
\* wait frees all that a zombie has.
<1>reap. ASSUME NEW z \in Proc, proc[z].state = "ZOMBIE", stop = "no", NEW d, d = proc[z].pgdir,
                free' = free \cup ({proc[z].kstack} \cup Pages(d, dirs[d])),
                dirs' = Without(d), holed' = holed \ {d}, proc' = [proc EXCEPT ![z] = Unused],
                UNCHANGED <<op, lost, stop>>
         PROVE  Inv'
  <2> USE <1>reap
  <2>1. StageOK(op[z], proc[z], dirs) /\ SlotOK(op[z], proc[z], dirs) /\ None \notin DOMAIN dirs
    BY Facts, Zenon
  <2>2. op[z] = Idle /\ d \in DOMAIN dirs /\ d # None /\ proc[z].kstack # None
    BY <2>1, Zenon DEF StageOK, SlotOK
  <2>3. op' = [op EXCEPT ![z] = Idle]
    BY <2>2, ZenonT(30), SMTT(30) DEF Inv, TypeOK
  <2>4. Has(op[z], proc[z]) \ {d} = Has(Idle, Unused) /\ d \in Has(op[z], proc[z]) \cup {None}
    BY <2>2, IdleFacts, UnusedFacts DEF Has
  <2>5. Moved(Has(op[z], proc[z]), Has(op[z], proc[z]) \ {d}) /\ DirGone(d)
    BY <2>4, DirRemoved, ZenonT(30), SMTT(30)
  <2>6. StageOK(Idle, Unused, dirs') /\ SlotOK(Idle, Unused, dirs')
    BY IdleFacts, UnusedFacts, ZenonT(30), SMTT(30) DEF StageOK, SlotOK
  <2>7. SizeOK(Idle, Unused, dirs', holed')
    BY IdleFacts, UnusedFacts, SMTT(30), Z3T(30) DEF SizeOK
  <2>8. InOnePlace'
    <3>1. /\ \A q \in Proc \ {z} : Holds'[q] = Holds[q]
          /\ Holds'[z] = {} /\ Holds[z] = {proc[z].kstack}
      BY <2>2, IdleFacts, UnusedFacts, ZenonT(30), SMTT(30) DEF Holds, Hold, Inv, TypeOK
    <3>2. DOMAIN Spaces = DOMAIN dirs /\ Spaces[d] = Pages(d, dirs[d])
      BY <2>2, ZenonT(30), SMTT(30) DEF Spaces
    <3>3. Partition(free, lost, Spaces, Holds)
      BY SMTT(30), Z3T(30) DEF Inv, InOnePlace
    <3> DEFINE A == {proc[z].kstack} \cup Pages(d, dirs[d])
    <3>4. \A x : x \in A \cup {} <=> \/ d \in DOMAIN Spaces /\ x \in Spaces[d]
                                     \/ \E q \in Proc : x \in Holds[q] /\ x \notin Holds'[q]
      <4>1. \A x : (\E q \in Proc : x \in Holds[q] /\ x \notin Holds'[q]) <=> x = proc[z].kstack
        BY <3>1, ZenonT(30)
      <4>2. \A x : x \in A \cup {} <=> x = proc[z].kstack \/ x \in Pages(d, dirs[d])
        BY ZenonT(30)
      <4> QED
        BY <2>2, <3>2, <4>1, <4>2, ZenonT(30)
    <3>5. \A q \in Proc : Holds'[q] \subseteq Holds[q]
      BY <3>1, SMTT(30), Z3T(30)
    <3> HIDE DEF A
    <3>6. Partition(free \cup A, lost \cup {}, [e \in DOMAIN Spaces \ {d} |-> Spaces[e]], Holds')
      BY <3>3, <3>4, <3>5, GivenBack, ZenonT(30), SMTT(30)
    <3>7. lost \cup {} = lost
      BY Zenon
    <3> QED
      BY <2>5, <3>6, <3>7, ZenonT(30) DEF InOnePlace, DirGone, A
  <2>9. /\ proc[z].state # "EMBRYO" /\ Idle.kid \in {None, op[z].kid} /\ Idle \in Ops /\ Unused \in Slots
        /\ stop' = stop /\ (holed' # {} \/ holed = {} \/ stop = "no")
        /\ Moved(Has(op[z], proc[z]), Has(Idle, Unused))
    BY <2>4, <2>5, IdleFacts, UnusedFacts
  <2> QED
    BY <2>3, <2>6, <2>7, <2>8, <2>9, OneStep, Zenon
<1> DEFINE d == proc[kid].pgdir
<1>1. SlotOK(op[kid], proc[kid], dirs)
  BY Facts, ZenonT(30)
<1>2. /\ proc[kid].state = "ZOMBIE" /\ stop = "no"
      /\ free' = free \cup {proc[kid].kstack} \cup freevm(d)
      /\ dirs' = Without(d) /\ holed' = holed \ {d} /\ proc' = [proc EXCEPT ![kid] = Unused]
      /\ UNCHANGED <<op, lost, stop>>
  BY ZenonT(30) DEF Wait, Here
<1>3. d \in DOMAIN dirs
  BY <1>1, <1>2 DEF SlotOK
<1>4. freevm(d) = Pages(d, dirs[d])
  BY <1>3, FreeVm, ZenonT(30)
<1>5. free' = free \cup ({proc[kid].kstack} \cup Pages(d, dirs[d]))
  BY <1>2, <1>4
<1> QED
  BY <1>2, <1>5, <1>reap, ZenonT(30)

\* fork, at its beginning ...
LEMMA ForkInv ==
  ASSUME Inv, NEW p \in Proc, NEW kid \in Proc, Fork(p, kid)
  PROVE  Inv'
<1> DEFINE k == kalloc
           o == [Idle EXCEPT !.at = "setupkvm", !.for = "fork", !.kid = kid]
           s == [proc[kid] EXCEPT !.state = "EMBRYO", !.kstack = k]
<1>1. /\ op[p].at = "user" /\ proc[p].state = "RUN" /\ proc[kid].state = "UNUSED" /\ stop = "no"
      /\ free # {} /\ op' = [op EXCEPT ![p] = o] /\ proc' = [proc EXCEPT ![kid] = s]
      /\ free' = free \ {k} /\ UNCHANGED <<dirs, lost, holed, stop>>
  BY Zenon DEF Fork, Here
<1>2. k \in free
  BY <1>1, Kalloc DEF Inv, TypeOK
<1> HIDE DEF k
<1>3. k \in Page /\ k # None
  BY <1>2, FreeIsFree, Zenon
<1>4. /\ StageOK(op[p], proc[p], dirs) /\ SlotOK(op[p], proc[p], dirs)
      /\ SizeOK(op[p], proc[p], dirs, holed)
      /\ None \notin DOMAIN dirs /\ StageOK(op[kid], proc[kid], dirs)
      /\ SlotOK(op[kid], proc[kid], dirs)
      /\ proc[kid] \in Slots
  BY Facts, Zenon
<1>5. /\ op[p].for = "none" /\ op[p].dir = None /\ op[p].mem = None
      /\ op[kid] = Idle /\ proc[kid] = Unused /\ p # kid /\ kid # None
  BY <1>1, <1>4, IdleFacts, VmAssumption DEF StageOK, SlotOK, None
<1>6. /\ o \in Ops /\ o.at = "setupkvm" /\ o.for = "fork" /\ o.dir = None /\ o.va = 0
      /\ o.mem = None /\ o.kid = kid
  BY IdleFacts, Zenon DEF Ops
<1>7. /\ s \in Slots /\ s.state = "EMBRYO" /\ s.kstack = k /\ s.pgdir = None
  BY <1>3, <1>4, <1>5, UnusedFacts, ZenonT(30) DEF Slots, States, PageOrNone
<1> HIDE DEF o, s
<1>8. StageOK(o, proc[p], dirs)
  BY <1>1, <1>5, <1>6, IdleFacts DEF StageOK
<1>9. SlotOK(o, proc[p], dirs)
  BY <1>1, <1>4, <1>6, Zenon DEF SlotOK
<1>10. SizeOK(o, proc[p], dirs, holed)
  <2>1. None \notin holed
    BY <1>4, ZenonT(30), SMTT(30) DEF Inv, TypeOK
  <2> QED
    BY <1>4, <1>5, <1>6, <2>1, Zenon DEF SizeOK
<1>11. StageOK(Idle, s, dirs) /\ SlotOK(Idle, s, dirs)
  BY <1>3, <1>7, IdleFacts, ZenonT(30), SMTT(30) DEF StageOK, SlotOK
<1>12. SizeOK(Idle, s, dirs, holed)
  BY <1>7, IdleFacts, ZenonT(30), SMTT(30) DEF SizeOK
<1>13. Has(Idle, s) = {} /\ Has(o, proc[p]) = Has(op[p], proc[p])
  BY <1>5, <1>6, <1>7, IdleFacts, ZenonT(30), SMTT(30) DEF Has
<1>14. /\ Moved(Has(op[p], proc[p]), Has(o, proc[p]) \cup Has(Idle, s))
       /\ Has(o, proc[p]) \cap Has(Idle, s) = {} /\ Spaces' = Spaces
  <2>1. Moved(Has(op[p], proc[p]), Has(op[p], proc[p])) /\ Spaces' = Spaces
    BY <1>1, SameDirs
  <2>2. Has(o, proc[p]) \cup Has(Idle, s) = Has(op[p], proc[p])
    BY <1>13
  <2> QED
    BY <1>13, <2>1, <2>2
<1>15. InOnePlace'
  <2>1. /\ op'[p] = o /\ proc'[p] = proc[p] /\ op'[kid] = Idle /\ proc'[kid] = s
        /\ \A q \in Proc \ {p, kid} : op'[q] = op[q] /\ proc'[q] = proc[q]
    BY <1>1, <1>5, ZenonT(30), SMTT(30) DEF Inv, TypeOK
  <2>2. \A q \in Proc : Holds[q] = Hold(op[q], proc[q]) /\ Holds'[q] = Hold(op'[q], proc'[q])
    BY ZenonT(30), SMTT(30) DEF Holds
  <2>3. Hold(o, proc[p]) = Hold(op[p], proc[p]) /\ Hold(Idle, Unused) = {} /\ Hold(Idle, s) = {k}
    BY <1>3, <1>5, <1>6, <1>7, IdleFacts, UnusedFacts, ZenonT(30), SMTT(30) DEF Hold
  <2>4. DOMAIN Holds = Proc /\ DOMAIN Holds' = Proc /\ Holds' = [q \in Proc |-> Holds'[q]]
    BY ZenonT(30), SMTT(30) DEF Holds
  <2>5. Holds' = [Holds EXCEPT ![kid] = @ \cup {k}]
    BY <1>5, <2>1, <2>2, <2>3, <2>4, SMTT(30), Z3T(30)
  <2>6. Partition(free, lost, Spaces, Holds)
    BY DEF Inv, InOnePlace
  <2>7. Partition(free \ {k}, lost, Spaces, [Holds EXCEPT ![kid] = @ \cup {k}])
    BY <1>2, <2>4, <2>6, FreeToHeld, ZenonT(30)
  <2> QED
    BY <1>1, <1>14, <2>5, <2>7, ZenonT(30), SMTT(30) DEF InOnePlace
<1>16. /\ StageOK(o, proc[p], dirs') /\ SlotOK(o, proc[p], dirs') /\ SizeOK(o, proc[p], dirs', holed')
       /\ StageOK(Idle, s, dirs') /\ SlotOK(Idle, s, dirs') /\ SizeOK(Idle, s, dirs', holed')
       /\ stop' = "no"
  BY <1>1, <1>8, <1>9, <1>10, <1>11, <1>12, ZenonT(30), SMTT(30)
<1>17. /\ proc[kid].state = "EMBRYO" => op[p].kid = kid
       /\ o.kid = None \/ (o.kid = kid /\ s.state = "EMBRYO" /\ proc[kid].state # "EMBRYO")
       /\ proc[kid].pgdir = None
  BY <1>1, <1>5, <1>6, <1>7, UnusedFacts
<1> QED
  BY <1>1, <1>5, <1>6, <1>7, <1>14, <1>15, <1>16, <1>17, TwoStep, Zenon

\* ... and at its end.
LEMMA ForkDoneInv ==
  ASSUME Inv, NEW p \in Proc, ForkDone(p)
  PROVE  Inv'
<1> DEFINE kid == op[p].kid
           d == op[p].dir
           s == [proc[kid] EXCEPT !.state = "RUN", !.pgdir = d, !.sz = proc[p].sz]
<1>1. /\ op[p].at = "copy" /\ op[p].va = proc[p].sz /\ stop = "no"
      /\ op' = [op EXCEPT ![p] = Idle] /\ proc' = [proc EXCEPT ![kid] = s]
      /\ UNCHANGED <<free, dirs, lost, holed, stop>>
  BY Zenon DEF ForkDone, Here, Return
<1>2. /\ StageOK(op[p], proc[p], dirs) /\ SlotOK(op[p], proc[p], dirs)
      /\ SizeOK(op[p], proc[p], dirs, holed)
      /\ None \notin DOMAIN dirs /\ op[p] \in Ops /\ proc[p] \in Slots
  BY Facts, Zenon
<1>3. /\ op[p].for = "fork" /\ op[p].mem = None /\ proc[p].state = "RUN" /\ kid # None
      /\ d \in DOMAIN dirs /\ d # None /\ d # proc[p].pgdir
  BY <1>1, <1>2, ZenonT(30), SMTT(30) DEF StageOK, SlotOK
<1>4. kid \in Proc /\ proc[kid].state = "EMBRYO" /\ kid # p
  <2>1. kid \in Proc
    BY <1>2, <1>3 DEF Ops
  <2>2. proc[kid].state = "EMBRYO"
    BY <1>3, Zenon DEF Inv, Parents
  <2> QED
    BY <1>3, <2>1, <2>2, ZenonT(30), SMTT(30)
<1>5. StageOK(op[kid], proc[kid], dirs) /\ SlotOK(op[kid], proc[kid], dirs) /\ proc[kid] \in Slots
  BY <1>4, Facts, Zenon
<1>6. op[kid] = Idle /\ proc[kid].pgdir = None /\ proc[kid].kstack # None
  BY <1>4, <1>5, Zenon DEF StageOK, SlotOK
<1>7. /\ s \in Slots /\ s.state = "RUN" /\ s.kstack = proc[kid].kstack /\ s.pgdir = d
      /\ s.sz = proc[p].sz
  BY <1>2, <1>5, ZenonT(30) DEF Slots, Ops, States
<1> HIDE DEF s
<1>8. StageOK(Idle, proc[p], dirs) /\ SlotOK(Idle, proc[p], dirs)
  BY <1>2, <1>3, IdleFacts, ZenonT(30), SMTT(30) DEF StageOK, SlotOK
<1>9. SizeOK(Idle, proc[p], dirs, holed)
  <2>1. proc[p].pgdir \notin holed => Mapped(dirs[proc[p].pgdir]) = 0..proc[p].sz - 1
    BY <1>2, <1>3, ZenonT(30), SMTT(30) DEF SizeOK
  <2> QED
    BY <2>1, IdleFacts DEF SizeOK
<1>10. StageOK(Idle, s, dirs) /\ SlotOK(Idle, s, dirs)
  BY <1>3, <1>6, <1>7, IdleFacts, ZenonT(30), SMTT(30) DEF StageOK, SlotOK
<1>11. SizeOK(Idle, s, dirs, holed)
  <2>1. Mapped(dirs[d]) = 0..s.sz - 1
    BY <1>1, <1>2, <1>3, <1>7, Zenon DEF SizeOK
  <2> QED
    BY <1>7, <2>1, IdleFacts DEF SizeOK
<1>12. /\ Has(Idle, proc[p]) \cup Has(Idle, s) = Has(op[p], proc[p])
       /\ Has(Idle, proc[p]) \cap Has(Idle, s) = {}
  BY <1>3, <1>7, IdleFacts, ZenonT(30) DEF Has
<1>13. Moved(Has(op[p], proc[p]), Has(op[p], proc[p])) /\ Spaces' = Spaces
  BY <1>1, SameDirs
<1>14. InOnePlace'
  <2>1. /\ op'[p] = Idle /\ proc'[p] = proc[p] /\ op'[kid] = Idle /\ proc'[kid] = s
        /\ \A q \in Proc \ {p, kid} : op'[q] = op[q] /\ proc'[q] = proc[q]
    BY <1>1, <1>4, <1>6, ZenonT(30), SMTT(30) DEF Inv, TypeOK
  <2>2. Hold(Idle, proc[p]) = Hold(op[p], proc[p]) /\ Hold(Idle, s) = Hold(Idle, proc[kid])
    BY <1>3, <1>7, IdleFacts, ZenonT(30), SMTT(30) DEF Hold
  <2>3. \A q \in Proc : Hold(op'[q], proc'[q]) = Hold(op[q], proc[q])
    BY <1>6, <2>1, <2>2
  <2>4. Holds' = Holds
    BY <2>3, ZenonT(30), SMTT(30) DEF Holds
  <2> QED
    BY <1>1, <1>13, <2>4, ZenonT(30) DEF Inv, InOnePlace
<1>15. /\ StageOK(Idle, proc[p], dirs') /\ SlotOK(Idle, proc[p], dirs')
       /\ SizeOK(Idle, proc[p], dirs', holed')
       /\ StageOK(Idle, s, dirs') /\ SlotOK(Idle, s, dirs') /\ SizeOK(Idle, s, dirs', holed')
       /\ stop' = "no"
  BY <1>1, <1>8, <1>9, <1>10, <1>11, ZenonT(30), SMTT(30)
<1>16. /\ Idle.kid = None /\ Idle \in Ops /\ (proc[kid].state = "EMBRYO" => op[p].kid = kid)
       /\ Moved(Has(op[p], proc[p]), Has(Idle, proc[p]) \cup Has(Idle, s))
  BY <1>12, <1>13, IdleFacts, SMTT(30), Z3T(30)
<1> HIDE DEF kid
<1> QED
  BY <1>1, <1>4, <1>6, <1>7, <1>12, <1>14, <1>15, <1>16, TwoStep, Zenon

-----------------------------------------------------------------------------
(* Steps that move no page.                                                *)

\* exec.
LEMMA ExecInv ==
  ASSUME Inv, NEW p \in Proc, NEW image \in Images, Exec(p, image)
  PROVE  Inv'
<1> DEFINE o == [Idle EXCEPT !.at = "setupkvm", !.for = "segment", !.segs = image]
<1>1. /\ op[p].at = "user" /\ proc[p].state = "RUN" /\ op' = [op EXCEPT ![p] = o]
      /\ UNCHANGED <<free, dirs, proc, lost, holed, stop>>
  BY DEF Exec, Here
<1>2. /\ StageOK(op[p], proc[p], dirs) /\ SlotOK(op[p], proc[p], dirs)
      /\ SizeOK(op[p], proc[p], dirs, holed)
  BY Facts, Zenon
<1>3. op[p].dir = None /\ op[p].mem = None /\ op[p].kid = None /\ op[p].for = "none"
  BY <1>1, <1>2, IdleFacts DEF StageOK
<1>4. /\ o \in Ops /\ o.at = "setupkvm" /\ o.for = "segment" /\ o.dir = None /\ o.va = 0
      /\ o.mem = None /\ o.kid = None
  BY VmAssumption, IdleFacts, ZenonT(30) DEF Ops
<1> HIDE DEF o
<1>5. StageOK(o, proc[p], dirs)
  BY <1>1, <1>4, IdleFacts, ZenonT(30), SMTT(30) DEF StageOK
<1>6. SlotOK(o, proc[p], dirs)
  BY <1>1, <1>2, <1>4, ZenonT(30), SMTT(30) DEF SlotOK
<1>7. SizeOK(o, proc[p], dirs, holed)
  BY <1>2, <1>3, <1>4, ZenonT(30), SMTT(30) DEF SizeOK
<1>8. Has(o, proc[p]) = Has(op[p], proc[p]) /\ o.mem = op[p].mem /\ o.kid \in {None, op[p].kid}
  BY <1>3, <1>4 DEF Has
<1> QED
  BY <1>1, <1>4, <1>5, <1>6, <1>7, <1>8, CallStep, Zenon

\* sbrk.
LEMMA SbrkInv ==
  ASSUME Inv, NEW p \in Proc, NEW n \in Deltas, Sbrk(p, n)
  PROVE  Inv'
<1> DEFINE sz == proc[p].sz
           o == [Idle EXCEPT !.at = "grow", !.for = "sbrk", !.dir = proc[p].pgdir,
                             !.base = sz, !.va = sz, !.goal = sz + n]
<1>1. /\ op[p].at = "user" /\ proc[p].state = "RUN" /\ op' = [op EXCEPT ![p] = o] /\ n > 0
      /\ sz + n < KERN /\ UNCHANGED <<free, dirs, proc, lost, holed, stop>>
  BY DEF Sbrk, Here
<1>2. /\ StageOK(op[p], proc[p], dirs) /\ SlotOK(op[p], proc[p], dirs)
      /\ proc[p] \in Slots /\ sz \in Nat /\ KERN \in Nat
  BY Facts, Zenon
<1>3. op[p].dir = None /\ op[p].mem = None /\ op[p].kid = None /\ op[p].for = "none"
  BY <1>1, <1>2, IdleFacts DEF StageOK
<1>4. proc[p].pgdir \in PageOrNone /\ n \in Int /\ sz + n \in Nat
  BY <1>1, <1>2, VmAssumption, SMTT(30), Z3T(30) DEF Slots
<1>5. /\ o \in Ops /\ o.at = "grow" /\ o.for = "sbrk" /\ o.dir = proc[p].pgdir /\ o.va = sz
      /\ o.base = sz /\ o.goal = sz + n /\ o.mem = None /\ o.kid = None
  BY <1>2, <1>4, IdleFacts, ZenonT(30) DEF Ops
<1> HIDE DEF o
<1>6. StageOK(o, proc[p], dirs)
  BY <1>1, <1>2, <1>5, IdleFacts, ZenonT(30), SMTT(30) DEF StageOK, SlotOK
<1>7. SlotOK(o, proc[p], dirs)
  BY <1>1, <1>2, <1>5, ZenonT(30), SMTT(30) DEF SlotOK
<1>8. proc[p].pgdir \notin holed => Mapped(dirs[proc[p].pgdir]) = 0..sz - 1
  <2>1. SizeOK(op[p], proc[p], dirs, holed)
    BY Facts, ZenonT(30), SMTT(30)
  <2> QED
    BY <1>1, <1>3, <2>1 DEF SizeOK
<1> HIDE DEF sz
<1>9. SizeOK(o, proc[p], dirs, holed)
  <2>1. sz = proc[p].sz /\ sz + n < KERN /\ sz <= sz + n /\ sz <= sz
    BY <1>1, <1>2, <1>4, SMTT(30), Z3T(30) DEF sz
  <2> QED
    BY <1>5, <1>8, <2>1, ZenonT(30), SMTT(30) DEF SizeOK
<1>10. Has(o, proc[p]) = Has(op[p], proc[p]) /\ o.mem = op[p].mem /\ o.kid \in {None, op[p].kid}
  BY <1>3, <1>5 DEF Has
<1> QED
  BY <1>1, <1>5, <1>6, <1>7, <1>9, <1>10, CallStep, Zenon

\* A step that changes only where its call is, and what it goes for.
LEMMA StageStep ==
  ASSUME Inv, NEW p \in Proc, op[p].at # "user", NEW o \in Ops, op' = [op EXCEPT ![p] = o],
         UNCHANGED <<free, dirs, proc, lost, holed, stop>>,
         o.dir = op[p].dir, o.va = op[p].va, o.mem = None, op[p].mem = None, o.kid = op[p].kid,
         op[p].for # "sbrk", o.for # "sbrk", o.for = "fork" <=> op[p].for = "fork",
         StageOK(o, proc[p], dirs),
         o.at = "copy" => o.va <= proc[p].sz, o.at \notin {"copymap", "kmap", "growmap"},
         o.at = "grow" => o.goal < KERN /\ o.base <= o.va,
         o.at = "grow" /\ o.for = "stack" => o.va <= o.goal,
         o.for = "stack" => o.goal = o.base + 2
  PROVE  Inv'
<1>1. /\ StageOK(op[p], proc[p], dirs) /\ SlotOK(op[p], proc[p], dirs)
      /\ SizeOK(op[p], proc[p], dirs, holed)
  BY Facts, ZenonT(30), SMTT(30)
<1>2. SlotOK(o, proc[p], dirs)
  BY <1>1, SMTT(30), Z3T(30) DEF SlotOK
<1>3. SizeOK(o, proc[p], dirs, holed)
  BY <1>1, ZenonT(30), SMTT(30) DEF SizeOK
<1>4. /\ Has(o, proc[p]) = Has(op[p], proc[p]) /\ o.mem = op[p].mem /\ o.kid \in {None, op[p].kid}
      /\ proc[p].state = "RUN"
  BY <1>1 DEF Has, StageOK
<1> QED
  BY <1>2, <1>3, <1>4, CallStep, Zenon

\* A process that changes its slot only, or returns from its call.
LEMMA SlotStep ==
  ASSUME Inv, NEW p \in Proc, proc[p].state = "RUN", NEW s \in Slots,
         op' = [op EXCEPT ![p] = Idle], proc' = [proc EXCEPT ![p] = s],
         UNCHANGED <<free, dirs, lost, holed, stop>>,
         op[p].mem = None, op[p].dir \in {None, proc[p].pgdir},
         s.state \in {"RUN", "ZOMBIE"}, s.kstack = proc[p].kstack, s.pgdir = proc[p].pgdir,
         s.pgdir \notin holed => Mapped(dirs[s.pgdir]) = 0..s.sz - 1
  PROVE  Inv'
<1>1. StageOK(op[p], proc[p], dirs) /\ SlotOK(op[p], proc[p], dirs)
  BY Facts, Zenon
<1>2. StageOK(Idle, s, dirs)
  BY IdleFacts, ZenonT(30), SMTT(30) DEF StageOK
<1>3. SlotOK(Idle, s, dirs)
  BY <1>1, IdleFacts, ZenonT(30), SMTT(30) DEF SlotOK
<1>4. SizeOK(Idle, s, dirs, holed)
  BY IdleFacts, ZenonT(30), SMTT(30) DEF SizeOK
<1>5. Has(Idle, s) = Has(op[p], proc[p]) /\ Hold(Idle, s) = Hold(op[p], proc[p])
  BY IdleFacts, ZenonT(30), SMTT(30) DEF Has, Hold
<1>6. Moved(Has(op[p], proc[p]), Has(Idle, s)) /\ Spaces' = Spaces
  BY <1>5, SameDirs, ZenonT(30), SMTT(30)
<1>7. Holds' = Holds
  <2>1. Holds' = [Holds EXCEPT ![p] = Hold(Idle, s)]
    BY Zenon DEF Holds, Inv, TypeOK
  <2> QED
    BY <1>5, <2>1 DEF Holds
<1>8. InOnePlace'
  BY <1>6, <1>7 DEF Inv, InOnePlace
<1>9. /\ StageOK(Idle, s, dirs') /\ SlotOK(Idle, s, dirs') /\ SizeOK(Idle, s, dirs', holed')
      /\ stop' = stop /\ (holed' # {} \/ holed = {} \/ stop = "no")
  BY <1>2, <1>3, <1>4, Zenon
<1>10. proc[p].state # "EMBRYO" /\ Idle.kid \in {None, op[p].kid} /\ Idle \in Ops
  BY IdleFacts
<1> QED
  BY <1>6, <1>8, <1>9, <1>10, OneStep, Zenon

\* exit.
LEMMA ExitInv ==
  ASSUME Inv, NEW p \in Proc, Exit(p)
  PROVE  Inv'
<1> DEFINE s == [proc[p] EXCEPT !.state = "ZOMBIE"]
<1>1. /\ op[p].at = "user" /\ proc[p].state = "RUN" /\ proc' = [proc EXCEPT ![p] = s]
      /\ UNCHANGED <<free, dirs, op, lost, holed, stop>>
  BY Zenon DEF Exit, Here
<1>2. /\ StageOK(op[p], proc[p], dirs) /\ SizeOK(op[p], proc[p], dirs, holed) /\ proc[p] \in Slots
  BY Facts, Zenon
<1>3. op[p] = Idle
  BY <1>1, <1>2 DEF StageOK
<1>4. op' = [op EXCEPT ![p] = Idle]
  BY <1>1, <1>3 DEF Inv, TypeOK
<1>5. /\ s \in Slots /\ s.state = "ZOMBIE" /\ s.kstack = proc[p].kstack /\ s.pgdir = proc[p].pgdir
      /\ s.sz = proc[p].sz
  BY <1>2, ZenonT(30), SMTT(30) DEF Slots, States
<1> HIDE DEF s
<1>6. s.pgdir \notin holed => Mapped(dirs[s.pgdir]) = 0..s.sz - 1
  BY <1>1, <1>2, <1>3, <1>5, IdleFacts DEF SizeOK
<1>7. op[p].mem = None /\ op[p].dir \in {None, proc[p].pgdir} /\ s.state \in {"RUN", "ZOMBIE"}
  BY <1>3, <1>5, IdleFacts
<1> QED
  BY <1>1, <1>4, <1>5, <1>6, <1>7, SlotStep, Zenon

\* growproc sets the new size.
LEMMA SbrkDoneInv ==
  ASSUME Inv, NEW p \in Proc, SbrkDone(p)
  PROVE  Inv'
<1> DEFINE s == [proc[p] EXCEPT !.sz = op[p].goal]
<1>1. /\ op[p].at = "grow" /\ op[p].for = "sbrk" /\ op[p].va >= op[p].goal
      /\ proc' = [proc EXCEPT ![p] = s] /\ op' = [op EXCEPT ![p] = Idle]
      /\ UNCHANGED <<free, dirs, lost, holed, stop>>
  BY Zenon DEF SbrkDone, Here, Return
<1>2. /\ StageOK(op[p], proc[p], dirs) /\ SlotOK(op[p], proc[p], dirs)
      /\ SizeOK(op[p], proc[p], dirs, holed)
      /\ proc[p] \in Slots /\ op[p].va \in Nat /\ op[p].goal \in Nat /\ KERN \in Nat
      /\ None \notin DOMAIN dirs
  BY Facts, Zenon
<1>3. /\ proc[p].state = "RUN" /\ op[p].dir = proc[p].pgdir /\ op[p].mem = None /\ op[p].dir # None
  BY <1>1, <1>2 DEF StageOK, SlotOK
<1>4. op[p].goal < KERN /\ op[p].va = op[p].goal
  BY <1>1, <1>2 DEF SizeOK
<1>5. /\ s \in Slots /\ s.state = "RUN" /\ s.kstack = proc[p].kstack /\ s.pgdir = proc[p].pgdir
      /\ s.sz = op[p].goal
  BY <1>2, <1>3, <1>4, SMTT(30), Z3T(30) DEF Slots
<1> HIDE DEF s
<1>6. s.pgdir \notin holed => Mapped(dirs[s.pgdir]) = 0..s.sz - 1
  BY <1>2, <1>3, <1>4, <1>5 DEF SizeOK
<1>7. op[p].dir \in {None, proc[p].pgdir} /\ s.state \in {"RUN", "ZOMBIE"}
  BY <1>3, <1>5
<1> QED
  BY <1>1, <1>3, <1>5, <1>6, <1>7, SlotStep, Zenon

-----------------------------------------------------------------------------
(* Steps that take pages.                                                  *)

\* copyuvm or allocuvm takes a page.
LEMMA TakePageInv ==
  ASSUME Inv, NEW p \in Proc, NEW at,
         \/ op[p].at = "copy" /\ at = "copymap" /\ op[p].va < proc[p].sz
         \/ op[p].at = "grow" /\ at = "growmap" /\ op[p].va < op[p].goal,
         NEW k \in free, free' = free \ {k},
         op' = [op EXCEPT ![p] = [@ EXCEPT !.at = at, !.mem = k]],
         UNCHANGED <<dirs, proc, lost, holed, stop>>
  PROVE  Inv'
<1> DEFINE o == [op[p] EXCEPT !.at = at, !.mem = k]
<1>1. /\ StageOK(op[p], proc[p], dirs) /\ SlotOK(op[p], proc[p], dirs)
      /\ SizeOK(op[p], proc[p], dirs, holed)
      /\ op[p] \in Ops /\ proc[p] \in Slots
  BY Facts, Zenon
<1>2. k \in Page /\ k # None /\ k # proc[p].kstack
  BY FreeIsFree, Zenon
<1>3. /\ o \in Ops /\ o.at = at /\ o.mem = k /\ o.dir = op[p].dir /\ o.va = op[p].va
      /\ o.kid = op[p].kid
      /\ o.for = op[p].for /\ o.base = op[p].base /\ o.goal = op[p].goal
  BY <1>1, <1>2, Zenon DEF Ops, PageOrNone
<1>4. op' = [op EXCEPT ![p] = o] /\ proc' = [proc EXCEPT ![p] = proc[p]]
  BY DEF Inv, TypeOK
<1> HIDE DEF o
<1>5. op[p].mem = None /\ proc[p].state = "RUN"
  BY <1>1 DEF StageOK
<1>6. StageOK(o, proc[p], dirs)
  BY <1>1, <1>2, <1>3, IdleFacts DEF StageOK
<1>7. SlotOK(o, proc[p], dirs)
  BY <1>1, <1>3 DEF SlotOK
<1>8. SizeOK(o, proc[p], dirs, holed)
  BY <1>1, <1>3 DEF SizeOK
<1>9. Has(o, proc[p]) = Has(op[p], proc[p])
  BY <1>3 DEF Has
<1>10. Moved(Has(op[p], proc[p]), Has(o, proc[p])) /\ Spaces' = Spaces
  BY <1>9, SameDirs
<1>11. InOnePlace'
  <2>1. Holds' = [Holds EXCEPT ![p] = Hold(o, proc[p])]
    BY <1>4, Zenon DEF Holds, Inv, TypeOK
  <2>2. Hold(o, proc[p]) = Holds[p] \cup {k} /\ DOMAIN Holds = Proc
    BY <1>2, <1>3, <1>5 DEF Hold, Holds
  <2>3. Partition(free \ {k}, lost, Spaces, [Holds EXCEPT ![p] = @ \cup {k}])
    BY <2>2, FreeToHeld, Zenon DEF Inv, InOnePlace
  <2> QED
    BY <1>10, <2>1, <2>2, <2>3 DEF InOnePlace
<1>12. /\ StageOK(o, proc[p], dirs') /\ SlotOK(o, proc[p], dirs') /\ SizeOK(o, proc[p], dirs', holed')
       /\ stop' = stop /\ (holed' # {} \/ holed = {} \/ stop = "no")
  BY <1>6, <1>7, <1>8, Zenon
<1>13. proc[p].state # "EMBRYO" /\ o.kid \in {None, op[p].kid}
  BY <1>3, <1>5
<1> QED
  BY <1>1, <1>3, <1>4, <1>10, <1>11, <1>12, <1>13, OneStep, Zenon

\* It gives up after freevm, and drops the page that it was to map.
LEMMA FreevmInv ==
  ASSUME Inv, NEW p \in Proc, op[p].at \notin {"user", "setupkvm"}, op[p].for # "sbrk", stop = "no",
         NEW d, d = op[p].dir, NEW dropped, dropped = {op[p].mem} \ {None},
         Abandon(p, d, freevm(d), dropped)
  PROVE  Inv'
<1>1. StageOK(op[p], proc[p], dirs) /\ None \notin DOMAIN dirs
  BY Facts, ZenonT(30)
<1>2. d \in DOMAIN dirs /\ d # None
  BY <1>1 DEF StageOK
<1>3. freevm(d) = Pages(d, dirs[d])
  BY <1>2, FreeVm, ZenonT(30)
<1>4. Pages(d, dirs[d]) \cap dropped = {}
  BY <1>2, MemIsHeld, ZenonT(30), SMTT(30)
<1>5. Pages(d, dirs[d]) \cup dropped = (IF d = None THEN {} ELSE Pages(d, dirs[d])) \cup ({op[p].mem} \ {None})
  BY <1>2
<1>6. op[p].at # "user" /\ Abandon(p, d, Pages(d, dirs[d]), dropped)
  BY <1>3
<1> QED
  BY <1>4, <1>5, <1>6, AbandonInv, ZenonT(30)

\* mappages.
LEMMA MappagesInv ==
  ASSUME Inv, NEW p \in Proc,
         NEW at, \/ op[p].at = "copymap" /\ at = "copy"
                 \/ op[p].at = "growmap" /\ at = "grow",
         NEW d, d = op[p].dir, NEW va \in Va, va = op[p].va, dirs[d].map[va] = None,
         CanMap(d, va), mappages(d, va, op[p].mem),
         op' = [op EXCEPT ![p] = [@ EXCEPT !.at = at, !.va = va + 1, !.mem = None]],
         UNCHANGED <<proc, lost, holed, stop>>
  PROVE  Inv'
\* A page is mapped, and so is a page table that it needs.
<1>map. ASSUME NEW m, m = op[p].mem, NEW K, K \subseteq free, free' = free \ K,
               NEW t \in Dir, dirs' = [dirs EXCEPT ![d] = t],
               Mapped(t) = Mapped(dirs[d]) \cup {va}, Tabled(t), Apart(d, t),
               Pages(d, t) = Pages(d, dirs[d]) \cup K \cup {m}
        PROVE  Inv'
  <2> USE <1>map
  <2> DEFINE o == [op[p] EXCEPT !.at = at, !.va = va + 1, !.mem = None]
  <2>1. /\ StageOK(op[p], proc[p], dirs) /\ SlotOK(op[p], proc[p], dirs)
        /\ SizeOK(op[p], proc[p], dirs, holed)
        /\ op[p] \in Ops /\ proc[p] \in Slots /\ None \notin DOMAIN dirs /\ va \in Nat
        /\ op[p].goal \in Nat
        /\ op[p].base \in Nat /\ proc[p].sz \in Nat
    BY Facts, Zenon
  <2>2. /\ o \in Ops /\ o.at = at /\ o.dir = d /\ o.va = va + 1 /\ o.kid = op[p].kid
        /\ o.for = op[p].for /\ o.mem = None /\ o.base = op[p].base /\ o.goal = op[p].goal
    <3>1. op[p] \in Ops /\ va + 1 \in Nat /\ None \in PageOrNone
      BY <2>1, SMTT(30), Z3T(30) DEF PageOrNone
    <3> QED
      BY <3>1, Zenon DEF Ops
  <2>3. op' = [op EXCEPT ![p] = o] /\ proc' = [proc EXCEPT ![p] = proc[p]]
    BY DEF Inv, TypeOK
  <2> HIDE DEF o
  <2>4. /\ d \in DOMAIN dirs /\ proc[p].state = "RUN" /\ proc[p].pgdir \in DOMAIN dirs /\ d # None
        /\ m # None /\ m # proc[p].kstack /\ d \in Has(op[p], proc[p])
        /\ d = proc[p].pgdir => op[p].for = "sbrk"
    BY <2>1 DEF StageOK, SlotOK, Has
  <2>5. Has(o, proc[p]) = Has(op[p], proc[p]) /\ (holed' \in {holed, holed \cup {d}})
    BY <2>2 DEF Has
  <2>6. /\ Moved(Has(op[p], proc[p]), Has(o, proc[p])) /\ DirSet(d, t)
    BY <2>4, <2>5, DirChanged, Zenon
  <2>7. StageOK(o, proc[p], dirs')
    BY <2>1, <2>2, <2>4, <2>6, IdleFacts, ZenonT(30), SMTT(30) DEF DirSet, StageOK
  <2>8. SlotOK(o, proc[p], dirs')
    BY <2>1, <2>2, <2>4, <2>6, ZenonT(30), SMTT(30) DEF DirSet, SlotOK
  <2>9. SizeOK(o, proc[p], dirs', holed')
    <3>1. d \notin holed => Mapped(dirs'[d]) = 0..va + 1 - 1
      <4>1. d \notin holed => Mapped(dirs[d]) = 0..va - 1
        BY <2>1, <2>4 DEF SizeOK
      <4>2. (0..va - 1) \cup {va} = 0..va + 1 - 1
        BY <2>1
      <4> QED
        BY <2>6, <4>1, <4>2, Zenon DEF DirSet
    <3>2. op[p].for # "sbrk" => dirs'[proc[p].pgdir] = dirs[proc[p].pgdir]
      BY <2>4, <2>6, ZenonT(30), SMTT(30) DEF DirSet
    <3>3. /\ at = "copy" => va + 1 <= proc[p].sz
          /\ at = "grow" => op[p].goal < KERN /\ op[p].base <= va + 1 /\ va + 1 <= op[p].goal
      BY <2>1 DEF SizeOK
    <3> QED
      BY <2>1, <2>2, <3>1, <3>2, <3>3 DEF SizeOK
  <2>10. InOnePlace'
    <3>1. Holds' = [Holds EXCEPT ![p] = Hold(o, proc[p])]
      BY <2>3, Zenon DEF Holds, Inv, TypeOK
    <3>2. /\ Hold(o, proc[p]) = Holds[p] \ {m} /\ m \in Holds[p] /\ DOMAIN Holds = Proc
          /\ DOMAIN Spaces = DOMAIN dirs /\ Spaces[d] = Pages(d, dirs[d])
      BY <2>2, <2>4 DEF Hold, Holds, Spaces
    <3> DEFINE S == [Spaces EXCEPT ![d] = @ \cup K]
    <3>3. Partition(free \ K, lost, S, Holds)
      BY <2>4, <3>2, FreeToSpace, Zenon DEF Inv, InOnePlace
    <3>4. DOMAIN S = DOMAIN Spaces /\ S[d] = Spaces[d] \cup K
      BY <2>4, <3>2
    <3>5. Spaces' = [S EXCEPT ![d] = @ \cup {m}]
      BY <2>6, <3>2, Zenon DEF DirSet
    <3> HIDE DEF S
    <3>6. Partition(free \ K, lost, [S EXCEPT ![d] = @ \cup {m}], [Holds EXCEPT ![p] = @ \ {m}])
      BY <2>4, <3>2, <3>3, <3>4, HeldToSpace, Zenon
    <3> QED
      BY <3>1, <3>2, <3>5, <3>6, ZenonT(30), SMTT(30) DEF InOnePlace
  <2>11. /\ proc[p].state # "EMBRYO" /\ o.kid \in {None, op[p].kid}
         /\ stop' = stop /\ (holed' # {} \/ holed = {} \/ stop = "no")
    BY <2>2, <2>4
  <2> QED
    BY <2>1, <2>2, <2>3, <2>6, <2>7, <2>8, <2>9, <2>10, <2>11, OneStep, Zenon
<1> DEFINE r == dirs[d]
           m == op[p].mem
           w == IF r.pt[Table(va)] = None THEN kalloc ELSE r.pt[Table(va)]
           K == IF r.pt[Table(va)] = None THEN {w} ELSE {}
           t == Entered(r, va, m, w)
<1>1. StageOK(op[p], proc[p], dirs)
  BY Facts, ZenonT(30)
<1>2. d \in DOMAIN dirs /\ m # None
  BY <1>1 DEF StageOK
<1>3. r \in Dir /\ Apart(d, r) /\ Tabled(r)
  BY <1>2, ZenonT(30) DEF Inv, TypeOK, Formed
<1>4. m \in Page /\ m \notin Pages(d, r) /\ m \notin free
  BY <1>2, MemIsHeld, ZenonT(30)
<1>5. r.pt[Table(va)] = None => kalloc \in free
  BY Kalloc DEF CanMap, Inv, TypeOK
<1>6. r.pt[Table(va)] = None => w \in Page /\ w \notin Pages(d, r) /\ w # m
  BY <1>2, <1>4, <1>5, FreeIsFree
<1>7. r.pt[Table(va)] # None => w = r.pt[Table(va)]
  BY ZenonT(30), SMTT(30)
<1>8. K \subseteq free
  BY <1>5
<1>9. dirs' = [dirs EXCEPT ![d] = t]
  BY ZenonT(30) DEF mappages, Entered
<1>10. free' = free \ K
  BY ZenonT(30) DEF mappages
<1>11. t = Entered(r, va, m, w) /\ r.map[va] = None
  BY SMTT(30), Z3T(30)
<1> HIDE DEF r, m, w, t
<1>12. /\ t \in Dir /\ Mapped(t) = Mapped(r) \cup {va} /\ Tabled(t) /\ Apart(d, t)
       /\ Pages(d, t) = Pages(d, r) \cup {w, m}
       /\ r.pt[Table(va)] # None => w \in Pages(d, r)
  BY <1>3, <1>4, <1>6, <1>7, <1>11, AddedBoth
<1>13. Pages(d, t) = Pages(d, r) \cup K \cup {m}
  BY <1>12, ZenonT(30), SMTT(30)
<1> HIDE DEF K
<1> QED
  <2> USE DEF r, m
  <2> QED
    BY <1>2, <1>8, <1>9, <1>10, <1>12, <1>13, <1>map, ZenonT(30)

\* What is mapped in a directory, where no page is missing.
LEMMA MappedTo ==
  ASSUME Inv, NEW p \in Proc, op[p].dir # None, op[p].dir \notin holed
  PROVE  Mapped(dirs[op[p].dir]) = 0..op[p].va - 1
<1>1. SizeOK(op[p], proc[p], dirs, holed)
  BY Facts, ZenonT(30)
<1> QED
  BY <1>1 DEF SizeOK

\* setupkvm takes a directory.
LEMMA SetupDirInv ==
  ASSUME Inv, NEW p \in Proc, SetupDir(p)
  PROVE  Inv'
\* setupkvm takes a page for the directory.
<1>new. ASSUME op[p].at = "setupkvm", NEW k \in free, free' = free \ {k},
               dirs' = With(k, NoDir), op' = [op EXCEPT ![p] = [@ EXCEPT !.at = "kmap", !.dir = k]],
               UNCHANGED <<proc, lost, holed, stop>>
        PROVE  Inv'
  <2> USE <1>new
  <2> DEFINE o == [op[p] EXCEPT !.at = "kmap", !.dir = k]
  <2>1. /\ StageOK(op[p], proc[p], dirs) /\ SlotOK(op[p], proc[p], dirs)
        /\ SizeOK(op[p], proc[p], dirs, holed)
        /\ op[p] \in Ops /\ proc[p] \in Slots /\ None \notin DOMAIN dirs
    BY Facts, Zenon
  <2>2. k \in Page /\ k # None /\ \A d \in DOMAIN dirs : k # d
    BY FreeIsFree, Zenon
  <2>3. /\ o \in Ops /\ o.at = "kmap" /\ o.dir = k /\ o.va = op[p].va /\ o.kid = op[p].kid
        /\ o.for = op[p].for /\ o.mem = op[p].mem
    BY <2>1, <2>2, Zenon DEF Ops, PageOrNone
  <2>4. op' = [op EXCEPT ![p] = o] /\ proc' = [proc EXCEPT ![p] = proc[p]]
    BY DEF Inv, TypeOK
  <2> HIDE DEF o
  <2>5. /\ op[p].mem = None /\ proc[p].state = "RUN" /\ op[p].dir = None /\ op[p].va = 0
        /\ op[p].for \in {"fork", "segment"} /\ proc[p].pgdir \in DOMAIN dirs
    BY <2>1 DEF StageOK, SlotOK
  <2>6. Has(o, proc[p]) = Has(op[p], proc[p]) \cup {k} /\ k \notin DOMAIN dirs /\ holed' = holed
    BY <2>2, <2>3, <2>5 DEF Has
  <2>7. k \notin DOMAIN dirs
    BY <2>2
  <2>8. /\ Moved(Has(op[p], proc[p]), Has(op[p], proc[p]) \cup {k})
        /\ Spaces' = [e \in DOMAIN Spaces \cup {k} |-> IF e = k THEN {k} ELSE Spaces[e]]
        /\ DOMAIN dirs' = DOMAIN dirs \cup {k} /\ dirs'[k] = NoDir
        /\ \A e \in DOMAIN dirs : dirs'[e] = dirs[e]
    BY <2>2, <2>6, DirAdded, Zenon
  <2>9. StageOK(o, proc[p], dirs')
    BY <2>1, <2>3, <2>5, <2>8, IdleFacts DEF StageOK
  <2>10. SlotOK(o, proc[p], dirs')
    BY <2>1, <2>2, <2>3, <2>5, <2>8 DEF SlotOK
  <2>11. SizeOK(o, proc[p], dirs', holed')
    <3>1. Mapped(NoDir) = {} /\ Tables(NoDir) = {} /\ 0..0 - 1 = {}
      BY NewDir
    <3>2. k \notin holed'
      BY <2>2 DEF Inv, TypeOK
    <3>3. /\ proc[p].pgdir \notin holed => Mapped(dirs[proc[p].pgdir]) = 0..proc[p].sz - 1
          /\ dirs'[proc[p].pgdir] = dirs[proc[p].pgdir]
      BY <2>1, <2>5, <2>8 DEF SizeOK
    <3> QED
      BY <2>3, <2>5, <2>8, <3>1, <3>2, <3>3 DEF SizeOK
  <2>12. InOnePlace'
    <3>1. Holds' = [Holds EXCEPT ![p] = Hold(o, proc[p])]
      BY <2>4, Zenon DEF Holds, Inv, TypeOK
    <3>2. Holds' = Holds /\ DOMAIN Spaces = DOMAIN dirs
      BY <2>3, <3>1 DEF Hold, Holds, Spaces
    <3>3. Partition(free \ {k}, lost, Spaces', Holds)
      BY <2>7, <2>8, <3>2, FreeToNew DEF Inv, InOnePlace
    <3> QED
      BY <3>2, <3>3 DEF InOnePlace
  <2>13. /\ proc[p].state # "EMBRYO" /\ o.kid \in {None, op[p].kid}
         /\ stop' = stop /\ (holed' # {} \/ holed = {} \/ stop = "no")
         /\ Moved(Has(op[p], proc[p]), Has(o, proc[p]))
    BY <2>3, <2>5, <2>6, <2>8
  <2> QED
    BY <2>1, <2>3, <2>4, <2>9, <2>10, <2>11, <2>12, <2>13, OneStep, Zenon
<1>1. StageOK(op[p], proc[p], dirs)
  BY Facts, ZenonT(30)
<1>2. /\ op[p].at = "setupkvm" /\ stop = "no" /\ op[p].dir = None /\ op[p].mem = None
      /\ op[p].at # "user" /\ op[p].for # "sbrk"
  BY <1>1 DEF SetupDir, Here, StageOK
<1>3. CASE free = {}
  <2>1. Abandon(p, None, {}, {})
    BY <1>3, ZenonT(30), SMTT(30) DEF SetupDir
  <2>2. /\ {} \cap {} = {}
        /\ {} \cup {} = (IF None = None THEN {} ELSE Pages(None, dirs[None])) \cup ({op[p].mem} \ {None})
    BY <1>2
  <2> QED
    BY <1>2, <2>1, <2>2, AbandonInv, ZenonT(30)
<1>4. CASE free # {}
  <2>1. kalloc \in free
    BY <1>4, Kalloc DEF Inv, TypeOK
  <2>2. /\ free' = free \ {kalloc} /\ dirs' = With(kalloc, NoDir)
        /\ op' = [op EXCEPT ![p] = [@ EXCEPT !.at = "kmap", !.dir = kalloc]]
        /\ UNCHANGED <<proc, lost, holed, stop>>
    BY <1>4, ZenonT(30) DEF SetupDir
  <2> QED
    BY <1>2, <2>1, <2>2, <1>new, ZenonT(30)
<1> QED
  BY <1>3, <1>4

\* setupkvm takes the page tables of the kernel.
LEMMA SetupMapInv ==
  ASSUME Inv, NEW p \in Proc, SetupMap(p)
  PROVE  Inv'
\* setupkvm is done.
<1>done. ASSUME op[p].at = "kmap",
                op' = [op EXCEPT ![p] = [@ EXCEPT !.at = IF op[p].for = "fork" THEN "copy" ELSE "segment"]],
                UNCHANGED <<free, dirs, proc, lost, holed, stop>>
         PROVE  Inv'
  <2> USE <1>done
  <2> DEFINE at == IF op[p].for = "fork" THEN "copy" ELSE "segment"
             o == [op[p] EXCEPT !.at = at]
  <2>1. StageOK(op[p], proc[p], dirs) /\ op[p] \in Ops /\ proc[p].sz \in Nat
    BY Facts, Zenon
  <2>2. /\ o \in Ops /\ o.at = at /\ o.dir = op[p].dir /\ o.va = op[p].va /\ o.mem = op[p].mem
        /\ o.kid = op[p].kid /\ o.for = op[p].for
    BY <2>1 DEF Ops
  <2>3. op' = [op EXCEPT ![p] = o]
    BY Zenon
  <2> HIDE DEF o
  <2>4. op[p].mem = None /\ op[p].for \in {"fork", "segment"} /\ op[p].va = 0 /\ op[p].at # "user"
    BY <2>1 DEF StageOK
  <2>5. StageOK(o, proc[p], dirs)
    BY <2>1, <2>2, <2>4, IdleFacts DEF StageOK
  <2>6. /\ o.at = "copy" => o.va <= proc[p].sz
        /\ o.at \notin {"copymap", "kmap", "growmap", "grow"}
        /\ o.for # "stack" /\ o.mem = None /\ o.for # "sbrk" /\ op[p].for # "sbrk"
    BY <2>1, <2>2, <2>4
  <2> QED
    BY <2>2, <2>3, <2>4, <2>5, <2>6, StageStep, Zenon
\* setupkvm takes a page table of the kernel's.
<1>table. ASSUME op[p].at = "kmap", NEW k \in free, free' = free \ {k},
                 NEW d, d = op[p].dir, NEW t, t = [dirs[d] EXCEPT !.kpt = dirs[d].kpt \cup {k}],
                 dirs' = [dirs EXCEPT ![d] = t], UNCHANGED <<proc, op, lost, holed, stop>>
          PROVE  Inv'
  <2> USE <1>table
  <2>1. /\ StageOK(op[p], proc[p], dirs) /\ SlotOK(op[p], proc[p], dirs)
        /\ SizeOK(op[p], proc[p], dirs, holed)
        /\ op[p] \in Ops /\ proc[p] \in Slots /\ None \notin DOMAIN dirs
    BY Facts, Zenon
  <2>2. /\ d \in DOMAIN dirs /\ proc[p].state = "RUN" /\ d # proc[p].pgdir
        /\ proc[p].pgdir \in DOMAIN dirs
        /\ op[p].for \in {"fork", "segment"} /\ d \in Has(op[p], proc[p])
        /\ holed' \in {holed, holed \cup {d}}
    BY <2>1 DEF StageOK, SlotOK, Has
  <2>3. dirs[d] \in Dir /\ Apart(d, dirs[d]) /\ Tabled(dirs[d])
    BY <2>2, DirFacts, Zenon
  <2>4. k \in Page /\ k \notin Pages(d, dirs[d])
    BY <2>2, FreeIsFree, Zenon
  <2>5. /\ t \in Dir /\ Mapped(t) = Mapped(dirs[d]) /\ Tables(t) = Tables(dirs[d]) /\ Tabled(t)
        /\ Pages(d, t) = Pages(d, dirs[d]) \cup {k} /\ Apart(d, t)
    BY <2>3, <2>4, AddedKpt
  <2>6. /\ Moved(Has(op[p], proc[p]), Has(op[p], proc[p])) /\ DirSet(d, t)
    BY <2>2, <2>5, DirChanged, Zenon
  <2>7. StageOK(op[p], proc[p], dirs') /\ SlotOK(op[p], proc[p], dirs')
    BY <2>1, <2>6, SMTT(30), Z3T(30) DEF DirSet, StageOK, SlotOK
  <2>8. SizeOK(op[p], proc[p], dirs', holed')
    <3>1. /\ Mapped(dirs'[d]) = Mapped(dirs[d]) /\ Tables(dirs'[d]) = Tables(dirs[d])
          /\ dirs'[proc[p].pgdir] = dirs[proc[p].pgdir]
      BY <2>2, <2>5, <2>6 DEF DirSet
    <3> QED
      BY <2>1, <3>1, Zenon DEF SizeOK
  <2>9. InOnePlace'
    <3>1. Holds' = Holds /\ DOMAIN Spaces = DOMAIN dirs /\ Spaces[d] = Pages(d, dirs[d])
      BY <2>2, ZenonT(30), SMTT(30) DEF Holds, Spaces
    <3>2. {k} \subseteq free /\ Spaces' = [Spaces EXCEPT ![d] = @ \cup {k}]
      BY <2>5, <2>6, <3>1 DEF DirSet
    <3>3. Partition(free \ {k}, lost, Spaces', Holds)
      BY <2>2, <3>1, <3>2, FreeToSpace, Zenon DEF Inv, InOnePlace
    <3> QED
      BY <3>1, <3>3 DEF InOnePlace
  <2>10. /\ op' = [op EXCEPT ![p] = op[p]] /\ proc' = [proc EXCEPT ![p] = proc[p]]
         /\ proc[p].state # "EMBRYO" /\ op[p].kid \in {None, op[p].kid}
         /\ stop' = stop /\ (holed' # {} \/ holed = {} \/ stop = "no")
    BY <2>2 DEF Inv, TypeOK
  <2> QED
    BY <2>1, <2>6, <2>7, <2>8, <2>9, <2>10, OneStep, Zenon
<1> DEFINE d == op[p].dir
<1>1. StageOK(op[p], proc[p], dirs) /\ SizeOK(op[p], proc[p], dirs, holed) /\ None \notin DOMAIN dirs
  BY Facts, ZenonT(30)
<1>2. /\ op[p].at = "kmap" /\ stop = "no" /\ op[p].mem = None /\ d # None
      /\ op[p].at # "user" /\ op[p].for # "sbrk"
  BY <1>1 DEF SetupMap, Here, StageOK
<1>3. \/ /\ op' = [op EXCEPT ![p] = [@ EXCEPT !.at = IF op[p].for = "fork" THEN "copy" ELSE "segment"]]
         /\ UNCHANGED <<free, dirs, proc, lost, holed, stop>>
      \/ Abandon(p, d, {}, dirs[d].kpt \cup {d})
      \/ /\ free # {} /\ free' = free \ {kalloc}
         /\ dirs' = [dirs EXCEPT ![d] = [@ EXCEPT !.kpt = dirs[d].kpt \cup {kalloc}]]
         /\ UNCHANGED <<proc, op, lost, holed, stop>>
  BY ZenonT(30) DEF SetupMap
<1>4. CASE /\ op' = [op EXCEPT ![p] = [@ EXCEPT !.at = IF op[p].for = "fork" THEN "copy" ELSE "segment"]]
           /\ UNCHANGED <<free, dirs, proc, lost, holed, stop>>
  BY <1>2, <1>4, <1>done, ZenonT(30)
<1>5. CASE Abandon(p, d, {}, dirs[d].kpt \cup {d})
  <2>1. dirs[d].kpt \cup {d} = Pages(d, dirs[d])
    BY <1>1, <1>2 DEF SizeOK, Pages, Frames
  <2>2. {} \cap Pages(d, dirs[d]) = {}
    BY ZenonT(30), SMTT(30)
  <2>3. {} \cup Pages(d, dirs[d]) = (IF d = None THEN {} ELSE Pages(d, dirs[d])) \cup ({op[p].mem} \ {None})
    BY <1>2, ZenonT(30), SMTT(30)
  <2>4. Abandon(p, d, {}, Pages(d, dirs[d]))
    BY <1>5, <2>1
  <2> QED
    BY <1>2, <2>2, <2>3, <2>4, AbandonInv, ZenonT(30), SMTT(30)
<1>6. CASE /\ free # {} /\ free' = free \ {kalloc}
           /\ dirs' = [dirs EXCEPT ![d] = [@ EXCEPT !.kpt = dirs[d].kpt \cup {kalloc}]]
           /\ UNCHANGED <<proc, op, lost, holed, stop>>
  <2>1. kalloc \in free
    BY <1>6, Kalloc DEF Inv, TypeOK
  <2> DEFINE t == [dirs[d] EXCEPT !.kpt = dirs[d].kpt \cup {kalloc}]
  <2>2. dirs' = [dirs EXCEPT ![d] = t] /\ t = [dirs[d] EXCEPT !.kpt = dirs[d].kpt \cup {kalloc}]
    BY <1>6, ZenonT(30)
  <2> HIDE DEF t
  <2>3. free' = free \ {kalloc} /\ UNCHANGED <<proc, op, lost, holed, stop>>
    BY <1>6, ZenonT(30), SMTT(30)
  <2> QED
    BY <1>2, <2>1, <2>2, <2>3, <1>table, ZenonT(30)
<1> QED
  BY <1>3, <1>4, <1>5, <1>6

\* copyuvm takes a page.
LEMMA CopyPageInv ==
  ASSUME Inv, NEW p \in Proc, CopyPage(p)
  PROVE  Inv'
<1> DEFINE d == proc[p].pgdir
           va == op[p].va
<1>1. /\ StageOK(op[p], proc[p], dirs) /\ SlotOK(op[p], proc[p], dirs)
      /\ SizeOK(op[p], proc[p], dirs, holed) /\ va \in Nat /\ proc[p].sz \in Nat
  BY Facts, ZenonT(30)
<1>2. op[p].at = "copy" /\ va < proc[p].sz /\ stop = "no"
  BY ZenonT(30), SMTT(30) DEF CopyPage, Here
<1>3. /\ op[p].at \notin {"user", "setupkvm"} /\ op[p].for = "fork" /\ op[p].mem = None
      /\ proc[p].state = "RUN"
  BY <1>1, <1>2 DEF StageOK
<1>4. \/ dirs[d].map[va] = None /\ Stop("copyuvm")
      \/ Abandon(p, op[p].dir, freevm(op[p].dir), {})
      \/ /\ free # {} /\ free' = free \ {kalloc}
         /\ op' = [op EXCEPT ![p] = [@ EXCEPT !.at = "copymap", !.mem = kalloc]]
         /\ UNCHANGED <<dirs, proc, lost, holed, stop>>
  BY ZenonT(30) DEF CopyPage
<1>5. CASE dirs[d].map[va] = None /\ Stop("copyuvm")
  <2>1. d \in holed
    <3> SUFFICES ASSUME d \notin holed PROVE FALSE
      BY ZenonT(30), SMTT(30)
    <3>1. Mapped(dirs[d]) = 0..proc[p].sz - 1
      BY <1>1, <1>3 DEF SizeOK
    <3> QED
      BY <1>1, <1>2, <1>5, <3>1 DEF Mapped
  <2> QED
    BY <1>5, <2>1, StopInv, ZenonT(30), SMTT(30)
<1>6. CASE Abandon(p, op[p].dir, freevm(op[p].dir), {})
  <2>1. {} = {op[p].mem} \ {None} /\ op[p].for # "sbrk"
    BY <1>3
  <2> QED
    BY <1>2, <1>3, <1>6, <2>1, FreevmInv, ZenonT(30)
<1>7. CASE /\ free # {} /\ free' = free \ {kalloc}
           /\ op' = [op EXCEPT ![p] = [@ EXCEPT !.at = "copymap", !.mem = kalloc]]
           /\ UNCHANGED <<dirs, proc, lost, holed, stop>>
  <2>1. kalloc \in free
    BY <1>7, Kalloc DEF Inv, TypeOK
  <2> QED
    BY <1>2, <1>7, <2>1, TakePageInv, ZenonT(30)
<1> QED
  BY <1>4, <1>5, <1>6, <1>7

\* copyuvm maps it.
LEMMA CopyMapInv ==
  ASSUME Inv, NEW p \in Proc, CopyMap(p)
  PROVE  Inv'
<1> DEFINE d == op[p].dir
           va == op[p].va
<1>1. /\ StageOK(op[p], proc[p], dirs) /\ SizeOK(op[p], proc[p], dirs, holed) /\ None \notin DOMAIN dirs
      /\ va \in Nat /\ proc[p].sz \in Nat /\ proc[p].sz <= KERN /\ KERN \in Nat
  BY Facts, ZenonT(30)
<1>2. op[p].at = "copymap" /\ stop = "no"
  BY ZenonT(30), SMTT(30) DEF CopyMap, Here
<1>3. /\ op[p].at \notin {"user", "setupkvm"} /\ op[p].for = "fork" /\ op[p].mem # None
      /\ d \in DOMAIN dirs /\ d # None
  BY <1>1, <1>2, ZenonT(30), SMTT(30) DEF StageOK
<1>4. va < proc[p].sz /\ d \notin holed
  BY <1>1, <1>2, <1>3, ZenonT(30), SMTT(30) DEF SizeOK
<1>5. va \in Va
  BY <1>1, <1>4, SMTT(30), Z3T(30) DEF Va
<1>6. dirs[d].map[va] = None
  <2>1. Mapped(dirs[d]) = 0..va - 1
    BY <1>3, <1>4, MappedTo, ZenonT(30)
  <2>2. va \notin 0..va - 1
    BY <1>1
  <2> QED
    BY <1>5, <2>1, <2>2 DEF Mapped
<1>7. \/ /\ CanMap(d, va) /\ mappages(d, va, op[p].mem)
         /\ op' = [op EXCEPT ![p] = [@ EXCEPT !.at = "copy", !.va = va + 1, !.mem = None]]
         /\ UNCHANGED <<proc, lost, holed, stop>>
      \/ Abandon(p, d, freevm(d), {op[p].mem})
  BY ZenonT(30) DEF CopyMap
<1>8. CASE /\ CanMap(d, va) /\ mappages(d, va, op[p].mem)
           /\ op' = [op EXCEPT ![p] = [@ EXCEPT !.at = "copy", !.va = va + 1, !.mem = None]]
           /\ UNCHANGED <<proc, lost, holed, stop>>
  BY <1>2, <1>5, <1>6, <1>8, MappagesInv, ZenonT(30)
<1>9. CASE Abandon(p, d, freevm(d), {op[p].mem})
  <2>1. {op[p].mem} = {op[p].mem} \ {None} /\ op[p].for # "sbrk"
    BY <1>3
  <2> QED
    BY <1>2, <1>3, <1>9, <2>1, FreevmInv, ZenonT(30)
<1> QED
  BY <1>7, <1>8, <1>9

\* exec goes on to a segment, or to the stack.
LEMMA NextSegmentInv ==
  ASSUME Inv, NEW p \in Proc, Segment(p)
  PROVE  Inv'
\* exec goes on to a segment, or to the stack ...
<1>begin. ASSUME op[p].at = "segment", NEW goal \in Nat, goal < KERN,
                 NEW segs \in Seq(Nat), NEW f \in {"stack", "segment"}, f = "stack" => goal = op[p].va + 2,
                 op' = [op EXCEPT ![p] = [@ EXCEPT !.at = "grow", !.base = op[p].va, !.goal = goal,
                                                   !.for = f, !.segs = segs]],
                 UNCHANGED <<free, dirs, proc, lost, holed, stop>>
          PROVE  Inv'
  <2> USE <1>begin
  <2> DEFINE o == [op[p] EXCEPT !.at = "grow", !.base = op[p].va, !.goal = goal,
                                !.for = f, !.segs = segs]
  <2>1. StageOK(op[p], proc[p], dirs) /\ op[p] \in Ops /\ op[p].va \in Nat
    BY Facts, Zenon
  <2>2. /\ o \in Ops /\ o.at = "grow" /\ o.dir = op[p].dir /\ o.va = op[p].va /\ o.mem = op[p].mem
        /\ o.kid = op[p].kid /\ o.for = f /\ o.goal = goal /\ o.base = op[p].va
    BY <2>1, Zenon DEF Ops
  <2>3. op' = [op EXCEPT ![p] = o]
    BY Zenon
  <2> HIDE DEF o
  <2>4. op[p].mem = None /\ op[p].for = "segment" /\ op[p].at # "user"
    BY <2>1 DEF StageOK
  <2>5. StageOK(o, proc[p], dirs)
    BY <2>1, <2>2, <2>4, IdleFacts DEF StageOK
  <2>6. /\ o.at \notin {"copymap", "kmap", "growmap", "copy"}
        /\ o.goal < KERN /\ o.base <= o.va /\ (o.for = "stack" => o.va <= o.goal /\ o.goal = o.base + 2)
        /\ o.mem = None /\ o.for # "sbrk" /\ op[p].for # "sbrk" /\ (o.for = "fork" <=> op[p].for = "fork")
    BY <2>1, <2>2, <2>4
  <2> QED
    BY <2>2, <2>3, <2>4, <2>5, <2>6, StageStep, Zenon
<1> DEFINE o == op[p]
           stack == o.segs = <<>>
           goal == IF stack THEN o.va + 2 ELSE Head(o.segs)
           f == IF stack THEN "stack" ELSE "segment"
           segs == IF stack THEN <<>> ELSE Tail(o.segs)
<1>1. StageOK(op[p], proc[p], dirs) /\ o \in Ops /\ o.va \in Nat
  BY Facts, ZenonT(30)
<1>2. o.at = "segment" /\ stop = "no"
  BY ZenonT(30), SMTT(30) DEF Segment, Here
<1>3. op[p].at \notin {"user", "setupkvm"} /\ op[p].for # "sbrk" /\ op[p].mem = None
  BY <1>1, <1>2, ZenonT(30), SMTT(30) DEF StageOK
<1>4. goal \in Nat /\ segs \in Seq(Nat) /\ f \in {"stack", "segment"} /\ (f = "stack" => goal = op[p].va + 2)
  <2>1. o.segs \in Seq(Nat)
    BY <1>1, ZenonT(30), SMTT(30) DEF Ops
  <2>2. CASE stack
    BY <1>1, <2>1, <2>2, SMTT(30), Z3T(30)
  <2>3. CASE ~stack
    BY <2>1, <2>3
  <2> QED
    BY <2>2, <2>3, ZenonT(30), SMTT(30)
<1>5. \/ Abandon(p, o.dir, freevm(o.dir), {})
      \/ /\ goal < KERN
         /\ op' = [op EXCEPT ![p] = [@ EXCEPT !.at = "grow", !.base = op[p].va, !.goal = goal,
                                              !.for = f, !.segs = segs]]
         /\ UNCHANGED <<free, dirs, proc, lost, holed, stop>>
  BY ZenonT(30) DEF Segment
<1> HIDE DEF goal, f, segs
<1>6. CASE Abandon(p, o.dir, freevm(o.dir), {})
  <2>1. {} = {op[p].mem} \ {None}
    BY <1>3
  <2> QED
    BY <1>2, <1>3, <1>6, <2>1, FreevmInv, ZenonT(30)
<1>7. CASE /\ goal < KERN
           /\ op' = [op EXCEPT ![p] = [@ EXCEPT !.at = "grow", !.base = op[p].va, !.goal = goal,
                                                !.for = f, !.segs = segs]]
           /\ UNCHANGED <<free, dirs, proc, lost, holed, stop>>
  BY <1>2, <1>4, <1>7, <1>begin, ZenonT(30)
<1> QED
  BY <1>5, <1>6, <1>7

\* deallocuvm leaves the addresses below newsz, where no page is missing.
LEMMA LeavesBelow ==
  ASSUME NEW r \in Dir, Tabled(r), NEW n \in 0..KERN, Mapped(r) = 0..n - 1,
         NEW newsz \in 0..n, NEW oldsz \in n..KERN
  PROVE  Mapped(r) \ Visited(r, newsz, oldsz) = 0..newsz - 1
<1>1. newsz..n - 1 \subseteq Visited(r, newsz, oldsz)
  BY VisitedFrom, ZenonT(30)
<1>2. Visited(r, newsz, oldsz) \subseteq newsz..oldsz - 1
  BY DEF Visited
<1>3. \A a \in 0..newsz - 1 : a \notin newsz..oldsz - 1 /\ a \in 0..n - 1
  BY VmAssumption
<1>4. \A a \in 0..n - 1 : a \in newsz..n - 1 \/ a \in 0..newsz - 1
  BY VmAssumption
<1> QED
  BY <1>1, <1>2, <1>3, <1>4

\* sbrk takes pages away.
LEMMA SbrkDownInv ==
  ASSUME Inv, NEW p \in Proc, NEW n \in Deltas, SbrkDown(p, n)
  PROVE  Inv'
\* sbrk takes pages away: X are freed.
<1>shrink. ASSUME op[p].at = "user", proc[p].state = "RUN", NEW size \in 0..KERN,
                  NEW d, d = proc[p].pgdir, NEW X, X \subseteq Pages(d, dirs[d]), free' = free \cup X,
                  NEW t \in Dir, Tabled(t), Apart(d, t), Pages(d, t) = Pages(d, dirs[d]) \ X,
                  dirs' = [dirs EXCEPT ![d] = t], d \notin holed => Mapped(t) = 0..size - 1,
                  proc' = [proc EXCEPT ![p] = [@ EXCEPT !.sz = IF size = 0 THEN proc[p].sz ELSE size]],
                  holed' = IF size = 0 THEN holed \cup {d} ELSE holed,
                  UNCHANGED <<op, lost, stop>>
           PROVE  Inv'
  <2> USE <1>shrink
  <2> DEFINE s == [proc[p] EXCEPT !.sz = IF size = 0 THEN proc[p].sz ELSE size]
  <2>1. StageOK(op[p], proc[p], dirs) /\ SlotOK(op[p], proc[p], dirs) /\ proc[p] \in Slots
    BY Facts, Zenon
  <2>2. /\ s \in Slots /\ s.state = "RUN" /\ s.kstack = proc[p].kstack /\ s.pgdir = d
        /\ size # 0 => s.sz = size
    BY <2>1 DEF Slots
  <2>3. op[p] = Idle /\ d \in DOMAIN dirs
    BY <2>1 DEF StageOK, SlotOK
  <2>4. op' = [op EXCEPT ![p] = Idle] /\ proc' = [proc EXCEPT ![p] = s]
    BY <2>3 DEF Inv, TypeOK
  <2> HIDE DEF s
  <2>5. Has(Idle, s) = Has(op[p], proc[p]) /\ Hold(Idle, s) = Hold(op[p], proc[p])
    BY <2>2, <2>3 DEF Has, Hold
  <2>6. d \in Has(op[p], proc[p]) /\ holed' \in {holed, holed \cup {d}}
    <3>1. d # None
      BY <2>3, DirFacts, Zenon
    <3> QED
      BY <3>1 DEF Has
  <2>7. Moved(Has(op[p], proc[p]), Has(Idle, s)) /\ DirSet(d, t)
    BY <2>3, <2>5, <2>6, DirChanged, Zenon
  <2>8. StageOK(Idle, s, dirs')
    BY IdleFacts DEF StageOK
  <2>9. SlotOK(Idle, s, dirs')
    BY <2>1, <2>2, <2>3, <2>7, IdleFacts DEF SlotOK, DirSet
  <2>10. SizeOK(Idle, s, dirs', holed')
    <3>1. d \notin holed' => Mapped(dirs'[d]) = 0..s.sz - 1
      BY <2>2, <2>7 DEF DirSet
    <3> QED
      BY <2>2, <3>1, IdleFacts DEF SizeOK
  <2>11. InOnePlace'
    <3>1. Holds' = Holds /\ DOMAIN Spaces = DOMAIN dirs /\ Spaces[d] = Pages(d, dirs[d])
      BY <2>2, <2>3, <2>4, <2>5 DEF Holds, Spaces, Inv, TypeOK
    <3>2. Spaces' = [Spaces EXCEPT ![d] = @ \ X]
      BY <2>7, <3>1 DEF DirSet
    <3>3. Partition(free, lost, Spaces, Holds) /\ d \in DOMAIN Spaces /\ X \subseteq Spaces[d]
      BY <2>3, <3>1 DEF Inv, InOnePlace
    <3>4. Partition(free \cup X, lost, [Spaces EXCEPT ![d] = @ \ X], Holds)
      BY <3>3, PartToFree, Zenon
    <3> QED
      BY <3>1, <3>2, <3>4 DEF InOnePlace
  <2>12. /\ proc[p].state # "EMBRYO" /\ Idle.kid \in {None, op[p].kid} /\ Idle \in Ops
         /\ stop' = stop /\ (holed' # {} \/ holed = {} \/ stop = "no")
    BY IdleFacts
  <2> QED
    BY <2>2, <2>4, <2>7, <2>8, <2>9, <2>10, <2>11, <2>12, OneStep, Zenon
<1> DEFINE d == proc[p].pgdir
           sz == proc[p].sz
           newsz == sz + n
           t == deallocuvm(dirs[d], newsz, sz)
<1>1. /\ StageOK(op[p], proc[p], dirs) /\ SlotOK(op[p], proc[p], dirs)
      /\ SizeOK(op[p], proc[p], dirs, holed) /\ sz \in Nat /\ sz <= KERN /\ KERN \in Nat
  BY Facts, ZenonT(30)
<1>2. op[p].at = "user" /\ proc[p].state = "RUN" /\ n < 0 /\ newsz >= 0
  BY DEF SbrkDown, Here
<1>3. n \in Int
  BY VmAssumption, ZenonT(30), SMTT(30)
<1>4. newsz \in 0..KERN /\ newsz \in Nat /\ newsz \in 0..sz /\ sz \in 0..KERN /\ sz \in sz..KERN
  BY <1>1, <1>2, <1>3, SMTT(30), Z3T(30)
<1>5. d \in DOMAIN dirs
  BY <1>1, <1>2 DEF SlotOK
<1>6. dirs[d] \in Dir /\ Apart(d, dirs[d]) /\ Tabled(dirs[d])
  BY <1>5, ZenonT(30) DEF Inv, TypeOK, Formed
<1>7. /\ free' = free \cup Dropped(dirs[d], newsz, sz) /\ dirs' = [dirs EXCEPT ![d] = t]
      /\ proc' = [proc EXCEPT ![p] = [@ EXCEPT !.sz = IF newsz = 0 THEN proc[p].sz ELSE newsz]]
      /\ holed' = IF newsz = 0 THEN holed \cup {d} ELSE holed
      /\ UNCHANGED <<op, lost, stop>>
  BY ZenonT(30) DEF SbrkDown
<1>8. t = deallocuvm(dirs[d], newsz, sz)
  BY ZenonT(30), SMTT(30)
<1> HIDE DEF newsz, sz, t
<1>9. /\ t \in Dir /\ Tabled(t) /\ Apart(d, t)
      /\ Dropped(dirs[d], newsz, sz) \subseteq Pages(d, dirs[d])
      /\ Pages(d, t) = Pages(d, dirs[d]) \ Dropped(dirs[d], newsz, sz)
      /\ Mapped(t) = Mapped(dirs[d]) \ Visited(dirs[d], newsz, sz)
  <2>1. newsz \in Nat /\ sz \in 0..KERN
    BY <1>4, ZenonT(30), SMTT(30)
  <2> QED
    BY <1>6, <1>8, <2>1, Deallocated, SMTT(30), Z3T(30)
<1>10. d \notin holed => Mapped(t) = 0..newsz - 1
  <2> SUFFICES ASSUME d \notin holed PROVE Mapped(t) = 0..newsz - 1
    OBVIOUS
  <2>1. Mapped(dirs[d]) = 0..sz - 1
    BY <1>1, <1>2, Zenon DEF SizeOK, StageOK, sz
  <2>2. Mapped(dirs[d]) \ Visited(dirs[d], newsz, sz) = 0..newsz - 1
    BY <1>4, <1>6, <2>1, LeavesBelow, ZenonT(30)
  <2> QED
    BY <1>9, <2>2
<1> QED
  BY <1>2, <1>4, <1>7, <1>9, <1>10, <1>shrink, ZenonT(30)

\* allocuvm takes a page.
LEMMA GrowPageInv ==
  ASSUME Inv, NEW p \in Proc, GrowPage(p)
  PROVE  Inv'
\* sbrk undoes what it did.
<1>undo. ASSUME op[p].at = "grow", op[p].for = "sbrk",
                NEW d, d = op[p].dir, NEW X, X \subseteq Pages(d, dirs[d]), free' = free \cup X,
                NEW t \in Dir, Tabled(t), Apart(d, t), Pages(d, t) = Pages(d, dirs[d]) \ X,
                dirs' = [dirs EXCEPT ![d] = t], d \notin holed => Mapped(t) = 0..op[p].base - 1,
                op' = [op EXCEPT ![p] = Idle], UNCHANGED <<proc, lost, holed, stop>>
         PROVE  Inv'
  <2> USE <1>undo
  <2>1. /\ StageOK(op[p], proc[p], dirs) /\ SlotOK(op[p], proc[p], dirs)
        /\ SizeOK(op[p], proc[p], dirs, holed)
        /\ proc[p] \in Slots /\ None \notin DOMAIN dirs
    BY Facts, Zenon
  <2>2. /\ op[p].mem = None /\ d \in DOMAIN dirs /\ d = proc[p].pgdir /\ proc[p].state = "RUN"
        /\ d \in Has(op[p], proc[p]) /\ holed' \in {holed, holed \cup {d}} /\ op[p].base = proc[p].sz
    BY <2>1, Zenon DEF StageOK, SlotOK, SizeOK, Has
  <2>3. proc' = [proc EXCEPT ![p] = proc[p]]
    BY ZenonT(30), SMTT(30) DEF Inv, TypeOK
  <2>4. Has(Idle, proc[p]) = Has(op[p], proc[p]) /\ Hold(Idle, proc[p]) = Hold(op[p], proc[p])
    BY <2>2, IdleFacts DEF Has, Hold
  <2>5. Moved(Has(op[p], proc[p]), Has(Idle, proc[p])) /\ DirSet(d, t)
    BY <2>2, <2>4, DirChanged, ZenonT(30), SMTT(30)
  <2>6. StageOK(Idle, proc[p], dirs')
    BY IdleFacts, ZenonT(30), SMTT(30) DEF StageOK
  <2>7. SlotOK(Idle, proc[p], dirs')
    BY <2>1, <2>2, <2>5, IdleFacts, ZenonT(30), SMTT(30) DEF SlotOK, DirSet
  <2>8. SizeOK(Idle, proc[p], dirs', holed')
    <3>1. d \notin holed' => Mapped(dirs'[d]) = 0..proc[p].sz - 1
      BY <2>2, <2>5, ZenonT(30), SMTT(30) DEF DirSet
    <3> QED
      BY <2>2, <3>1, IdleFacts, ZenonT(30), SMTT(30) DEF SizeOK
  <2>9. InOnePlace'
    <3>1. Holds' = Holds /\ DOMAIN Spaces = DOMAIN dirs /\ Spaces[d] = Pages(d, dirs[d])
      BY <2>2, <2>4 DEF Holds, Spaces, Inv, TypeOK
    <3>2. Spaces' = [Spaces EXCEPT ![d] = @ \ X]
      BY <2>5, <3>1, Zenon DEF DirSet
    <3>3. Partition(free, lost, Spaces, Holds) /\ d \in DOMAIN Spaces /\ X \subseteq Spaces[d]
      BY <2>2, <3>1 DEF Inv, InOnePlace
    <3>4. Partition(free \cup X, lost, [Spaces EXCEPT ![d] = @ \ X], Holds)
      BY <3>3, PartToFree, Zenon
    <3> QED
      BY <3>1, <3>2, <3>4, ZenonT(30), SMTT(30) DEF InOnePlace
  <2>10. /\ proc[p].state # "EMBRYO" /\ Idle.kid \in {None, op[p].kid} /\ Idle \in Ops
         /\ stop' = stop /\ (holed' # {} \/ holed = {} \/ stop = "no")
    BY <2>2, IdleFacts
  <2> QED
    BY <2>1, <2>3, <2>5, <2>6, <2>7, <2>8, <2>9, <2>10, OneStep, Zenon
<1> DEFINE o == op[p]
           d == o.dir
<1>1. /\ StageOK(op[p], proc[p], dirs) /\ SlotOK(op[p], proc[p], dirs)
      /\ SizeOK(op[p], proc[p], dirs, holed)
      /\ o.va \in Nat /\ o.goal \in Nat /\ o.base \in Nat
      /\ KERN \in Nat /\ None \notin DOMAIN dirs
  BY Facts, ZenonT(30)
<1>2. o.at = "grow" /\ o.va < o.goal /\ stop = "no"
  BY ZenonT(30), SMTT(30) DEF GrowPage, Here
<1>3. /\ op[p].at \notin {"user", "setupkvm"} /\ op[p].mem = None /\ d \in DOMAIN dirs /\ d # None
  BY <1>1, <1>2 DEF StageOK
<1>4. \/ /\ free # {} /\ free' = free \ {kalloc}
         /\ op' = [op EXCEPT ![p] = [@ EXCEPT !.at = "growmap", !.mem = kalloc]]
         /\ UNCHANGED <<dirs, proc, lost, holed, stop>>
      \/ /\ o.for = "sbrk" /\ free' = free \cup Dropped(dirs[d], o.base, o.goal)
         /\ dirs' = [dirs EXCEPT ![d] = deallocuvm(dirs[d], o.base, o.goal)]
         /\ op' = [op EXCEPT ![p] = Idle] /\ UNCHANGED <<proc, lost, holed, stop>>
      \/ o.for # "sbrk" /\ Abandon(p, d, freevm(d), {})
  BY ZenonT(30) DEF GrowPage, Return
<1>5. CASE /\ free # {} /\ free' = free \ {kalloc}
           /\ op' = [op EXCEPT ![p] = [@ EXCEPT !.at = "growmap", !.mem = kalloc]]
           /\ UNCHANGED <<dirs, proc, lost, holed, stop>>
  <2>1. kalloc \in free
    BY <1>5, Kalloc DEF Inv, TypeOK
  <2> QED
    BY <1>2, <1>5, <2>1, TakePageInv, ZenonT(30)
<1>6. CASE /\ o.for = "sbrk" /\ free' = free \cup Dropped(dirs[d], o.base, o.goal)
           /\ dirs' = [dirs EXCEPT ![d] = deallocuvm(dirs[d], o.base, o.goal)]
           /\ op' = [op EXCEPT ![p] = Idle] /\ UNCHANGED <<proc, lost, holed, stop>>
  <2> DEFINE t == deallocuvm(dirs[d], o.base, o.goal)
  <2>1. dirs[d] \in Dir /\ Apart(d, dirs[d]) /\ Tabled(dirs[d])
    BY <1>3, ZenonT(30) DEF Inv, TypeOK, Formed
  <2>2. /\ o.base \in 0..o.va /\ o.va \in 0..KERN /\ o.goal \in o.va..KERN
        /\ o.goal \in 0..KERN /\ o.base \in Nat
    <3>1. o.goal < KERN /\ o.base <= o.va
      BY <1>1, <1>2, Zenon DEF SizeOK
    <3> HIDE DEF o
    <3> QED
      BY <1>1, <1>2, <3>1
  <2>6. dirs' = [dirs EXCEPT ![d] = t]
    BY <1>6, ZenonT(30)
  <2>3. t = deallocuvm(dirs[d], o.base, o.goal)
    OBVIOUS
  <2> HIDE DEF t
  <2>4. /\ t \in Dir /\ Tabled(t) /\ Apart(d, t)
        /\ Dropped(dirs[d], o.base, o.goal) \subseteq Pages(d, dirs[d])
        /\ Pages(d, t) = Pages(d, dirs[d]) \ Dropped(dirs[d], o.base, o.goal)
        /\ Mapped(t) = Mapped(dirs[d]) \ Visited(dirs[d], o.base, o.goal)
    <3> DEFINE b == o.base
               g == o.goal
               r == dirs[d]
    <3>1. /\ r \in Dir /\ Apart(d, r) /\ Tabled(r) /\ b \in Nat /\ g \in 0..KERN
          /\ t = deallocuvm(r, b, g)
      BY <2>1, <2>2, <2>3, ZenonT(30), SMTT(30)
    <3> HIDE DEF b, g, r, d
    <3>2. /\ t \in Dir /\ Tabled(t) /\ Apart(d, t)
          /\ Dropped(r, b, g) \subseteq Pages(d, r)
          /\ Pages(d, t) = Pages(d, r) \ Dropped(r, b, g)
          /\ Mapped(t) = Mapped(r) \ Visited(r, b, g)
      BY <3>1, Deallocated, SMTT(30), Z3T(30)
    <3> QED
      BY <3>2, ZenonT(30) DEF b, g, r, d
  <2>5. d \notin holed => Mapped(t) = 0..o.base - 1
    <3> SUFFICES ASSUME d \notin holed PROVE Mapped(t) = 0..o.base - 1
      OBVIOUS
    <3>1. Mapped(dirs[d]) = 0..o.va - 1
      BY <1>3, MappedTo, ZenonT(30)
    <3>2. Mapped(dirs[d]) \ Visited(dirs[d], o.base, o.goal) = 0..o.base - 1
      BY <2>1, <2>2, <3>1, LeavesBelow, ZenonT(30)
    <3> QED
      BY <2>4, <3>2
  <2> QED
    BY <1>2, <1>6, <2>6, <2>4, <2>5, <1>undo, ZenonT(30)
<1>7. CASE o.for # "sbrk" /\ Abandon(p, d, freevm(d), {})
  <2>1. {} = {op[p].mem} \ {None}
    BY <1>3
  <2> QED
    BY <1>2, <1>3, <1>7, <2>1, FreevmInv, ZenonT(30)
<1> QED
  BY <1>4, <1>5, <1>6, <1>7

\* allocuvm maps it, or does not notice that it could not.
LEMMA GrowMapInv ==
  ASSUME Inv, NEW p \in Proc, GrowMap(p)
  PROVE  Inv'
\* A page is dropped for want of a page table.
<1>drop. ASSUME op[p].at = "growmap", NEW d, d = op[p].dir, NEW m, m = op[p].mem,
                NEW va, va = op[p].va, lost' = lost \cup {m}, holed' = holed \cup {d},
                op' = [op EXCEPT ![p] = [@ EXCEPT !.at = "grow", !.va = va + 1, !.mem = None]],
                UNCHANGED <<free, dirs, proc, stop>>
         PROVE  Inv'
  <2> USE <1>drop
  <2> DEFINE o == [op[p] EXCEPT !.at = "grow", !.va = va + 1, !.mem = None]
  <2>1. /\ StageOK(op[p], proc[p], dirs) /\ SlotOK(op[p], proc[p], dirs)
        /\ SizeOK(op[p], proc[p], dirs, holed)
        /\ op[p] \in Ops /\ proc[p] \in Slots /\ None \notin DOMAIN dirs /\ va \in Nat
        /\ op[p].goal \in Nat
        /\ op[p].base \in Nat /\ proc[p].sz \in Nat
    BY Facts, Zenon
  <2>2. /\ o \in Ops /\ o.at = "grow" /\ o.dir = d /\ o.va = va + 1 /\ o.kid = op[p].kid
        /\ o.for = op[p].for /\ o.mem = None /\ o.base = op[p].base /\ o.goal = op[p].goal
    <3>1. op[p] \in Ops /\ va + 1 \in Nat /\ None \in PageOrNone
      BY <2>1 DEF PageOrNone
    <3> QED
      BY <3>1, Zenon DEF Ops
  <2>3. op' = [op EXCEPT ![p] = o] /\ proc' = [proc EXCEPT ![p] = proc[p]]
    BY DEF Inv, TypeOK
  <2> HIDE DEF o
  <2>4. /\ d \in DOMAIN dirs /\ proc[p].state = "RUN" /\ d # None
        /\ m # None /\ m # proc[p].kstack /\ d \in Has(op[p], proc[p]) /\ op[p].for # "fork"
        /\ d = proc[p].pgdir => op[p].for = "sbrk"
    BY <2>1 DEF StageOK, SlotOK, Has
  <2>5. Has(o, proc[p]) = Has(op[p], proc[p])
    BY <2>2 DEF Has
  <2>6. Moved(Has(op[p], proc[p]), Has(o, proc[p])) /\ Spaces' = Spaces
    BY <2>4, <2>5, SameDirs
  <2>7. StageOK(o, proc[p], dirs')
    BY <2>1, <2>2, <2>4, IdleFacts DEF StageOK
  <2>8. SlotOK(o, proc[p], dirs')
    BY <2>1, <2>2, <2>4, ZenonT(30), SMTT(30) DEF SlotOK
  <2>9. SizeOK(o, proc[p], dirs', holed')
    <3>1. op[p].goal < KERN /\ op[p].base <= va + 1 /\ va + 1 <= op[p].goal
      BY <2>1, SMTT(30), Z3T(30) DEF SizeOK
    <3> QED
      BY <2>1, <2>2, <2>4, <3>1 DEF SizeOK
  <2>10. InOnePlace'
    <3>1. Holds' = [Holds EXCEPT ![p] = Hold(o, proc[p])]
      BY <2>3, Zenon DEF Holds, Inv, TypeOK
    <3>2. /\ Hold(o, proc[p]) = Holds[p] \ {m} /\ m \in Holds[p] /\ DOMAIN Holds = Proc
      BY <2>2, <2>4 DEF Hold, Holds
    <3>3. Holds'[p] = Holds[p] \ {m} /\ \A q \in Proc \ {p} : Holds'[q] = Holds[q]
      BY <3>1, <3>2
    <3> QED
      BY <2>6, <3>2, <3>3 DEF Inv, InOnePlace, Partition
  <2>11. /\ proc[p].state # "EMBRYO" /\ o.kid \in {None, op[p].kid}
         /\ stop' = stop /\ (holed' # {} \/ holed = {} \/ stop = "no")
    BY <2>2, <2>4
  <2> QED
    BY <2>1, <2>2, <2>3, <2>6, <2>7, <2>8, <2>9, <2>10, <2>11, OneStep, Zenon
<1> DEFINE d == op[p].dir
           va == op[p].va
<1>1. /\ StageOK(op[p], proc[p], dirs) /\ SizeOK(op[p], proc[p], dirs, holed) /\ None \notin DOMAIN dirs
      /\ va \in Nat /\ op[p].goal \in Nat /\ KERN \in Nat
  BY Facts, ZenonT(30)
<1>2. op[p].at = "growmap" /\ stop = "no"
  BY ZenonT(30), SMTT(30) DEF GrowMap, Here
<1>3. d \in DOMAIN dirs /\ d # None
  BY <1>1, <1>2, ZenonT(30), SMTT(30) DEF StageOK
<1>4. va \in Va
  <2>1. va < op[p].goal /\ op[p].goal < KERN
    BY <1>1, <1>2, Zenon DEF SizeOK
  <2> QED
    BY <1>1, <2>1 DEF Va
<1>5. CASE dirs[d].map[va] # None
  <2>1. d \in holed
    <3> SUFFICES ASSUME d \notin holed PROVE FALSE
      OBVIOUS
    <3>1. Mapped(dirs[d]) = 0..va - 1
      BY <1>3, MappedTo, ZenonT(30)
    <3>2. va \notin 0..va - 1
      BY <1>1
    <3> QED
      BY <1>4, <1>5, <3>1, <3>2 DEF Mapped
  <2>2. Stop("remap")
    BY <1>5 DEF GrowMap
  <2> QED
    BY <2>1, <2>2, StopInv, ZenonT(30), SMTT(30)
<1>6. CASE dirs[d].map[va] = None
  <2>1. /\ \/ CanMap(d, va) /\ mappages(d, va, op[p].mem) /\ UNCHANGED <<lost, holed>>
           \/ /\ lost' = lost \cup {op[p].mem} /\ holed' = holed \cup {d}
              /\ UNCHANGED <<free, dirs>>
        /\ op' = [op EXCEPT ![p] = [@ EXCEPT !.at = "grow", !.va = va + 1, !.mem = None]]
        /\ UNCHANGED <<proc, stop>>
    BY <1>6, ZenonT(30) DEF GrowMap
  <2>2. CASE CanMap(d, va) /\ mappages(d, va, op[p].mem) /\ UNCHANGED <<lost, holed>>
    <3>1. UNCHANGED <<proc, lost, holed, stop>>
      BY <2>1, <2>2
    <3> QED
      BY <1>2, <1>4, <1>6, <2>1, <2>2, <3>1, MappagesInv, ZenonT(30)
  <2>3. CASE /\ lost' = lost \cup {op[p].mem} /\ holed' = holed \cup {d}
             /\ UNCHANGED <<free, dirs>>
    <3>1. UNCHANGED <<free, dirs, proc, stop>>
      BY <2>1, <2>3
    <3> QED
      BY <1>2, <2>1, <2>3, <3>1, <1>drop, ZenonT(30)
  <2> QED
    BY <2>1, <2>2, <2>3
<1> QED
  BY <1>5, <1>6

\* loaduvm reads a segment.
LEMMA LoadSegmentInv ==
  ASSUME Inv, NEW p \in Proc, LoadSegment(p)
  PROVE  Inv'
\* ... once it has read one.
<1>done. ASSUME op[p].at = "grow", op[p].for = "segment",
                op' = [op EXCEPT ![p] = [@ EXCEPT !.at = "segment"]],
                UNCHANGED <<free, dirs, proc, lost, holed, stop>>
         PROVE  Inv'
  <2> USE <1>done
  <2> DEFINE o == [op[p] EXCEPT !.at = "segment"]
  <2>1. StageOK(op[p], proc[p], dirs) /\ op[p] \in Ops
    BY Facts, Zenon
  <2>2. /\ o \in Ops /\ o.at = "segment" /\ o.dir = op[p].dir /\ o.va = op[p].va /\ o.mem = op[p].mem
        /\ o.kid = op[p].kid /\ o.for = op[p].for
    BY <2>1 DEF Ops
  <2>3. op' = [op EXCEPT ![p] = o]
    BY Zenon
  <2> HIDE DEF o
  <2>4. op[p].mem = None /\ op[p].at # "user"
    BY <2>1 DEF StageOK
  <2>5. StageOK(o, proc[p], dirs)
    BY <2>1, <2>2, <2>4, IdleFacts DEF StageOK
  <2>6. /\ o.at \notin {"copymap", "kmap", "growmap", "copy", "grow"}
        /\ o.mem = None /\ o.for # "sbrk" /\ op[p].for # "sbrk" /\ o.for # "stack"
    BY <2>2, <2>4
  <2> QED
    BY <2>2, <2>3, <2>4, <2>5, <2>6, StageStep, Zenon
<1> DEFINE o == op[p]
           d == o.dir
<1>1. /\ StageOK(op[p], proc[p], dirs) /\ SizeOK(op[p], proc[p], dirs, holed)
      /\ None \notin DOMAIN dirs /\ KERN \in Nat
      /\ o.va \in Nat /\ o.goal \in Nat /\ o.base \in Nat
  BY Facts, ZenonT(30)
<1>2. o.at = "grow" /\ o.va >= o.goal /\ o.for = "segment" /\ stop = "no"
  BY ZenonT(30), SMTT(30) DEF LoadSegment, Here
<1>3. /\ d \in DOMAIN dirs /\ d # None /\ o.mem = None /\ o.for # "sbrk"
      /\ o.at \notin {"user", "setupkvm"}
  BY <1>1, <1>2, ZenonT(30), SMTT(30) DEF StageOK
<1>4. \/ (\E va \in o.base..o.goal - 1 : dirs[d].pt[Table(va)] = None) /\ Stop("loaduvm")
      \/ Abandon(p, d, freevm(d), {})
      \/ /\ op' = [op EXCEPT ![p] = [@ EXCEPT !.at = "segment"]]
         /\ UNCHANGED <<free, dirs, proc, lost, holed, stop>>
  BY ZenonT(30) DEF LoadSegment
<1>5. CASE (\E va \in o.base..o.goal - 1 : dirs[d].pt[Table(va)] = None) /\ Stop("loaduvm")
  <2>1. d \in holed
    <3> SUFFICES ASSUME d \notin holed PROVE FALSE
      BY ZenonT(30), SMTT(30)
    <3>1. PICK va \in o.base..o.goal - 1 : dirs[d].pt[Table(va)] = None
      BY <1>5
    <3>2. Mapped(dirs[d]) = 0..o.va - 1
      BY <1>3, MappedTo, ZenonT(30)
    <3>3. va \in 0..o.va - 1
      BY <1>1, <1>2
    <3>4. Tabled(dirs[d])
      BY <1>3, ZenonT(30) DEF Inv, Formed
    <3> QED
      BY <3>1, <3>2, <3>3, <3>4, ZenonT(30), SMTT(30) DEF Tabled
  <2> QED
    BY <1>5, <2>1, StopInv, ZenonT(30), SMTT(30)
<1>6. CASE /\ op' = [op EXCEPT ![p] = [@ EXCEPT !.at = "segment"]]
           /\ UNCHANGED <<free, dirs, proc, lost, holed, stop>>
  BY <1>2, <1>6, <1>done, ZenonT(30), SMTT(30)
<1>7. CASE Abandon(p, d, freevm(d), {})
  <2>1. {} = {op[p].mem} \ {None}
    BY <1>3
  <2> QED
    BY <1>2, <1>3, <1>7, <2>1, FreevmInv, ZenonT(30)
<1> QED
  BY <1>4, <1>5, <1>6, <1>7

\* exec fills the stack, and commits.
LEMMA StackInv ==
  ASSUME Inv, NEW p \in Proc, Stack(p)
  PROVE  Inv'
\* exec commits to the new image: the old directory goes.
<1>commit. ASSUME op[p].at = "grow", op[p].for = "stack", op[p].va >= op[p].goal, stop = "no",
                  NEW d, d = op[p].dir, NEW old, old = proc[p].pgdir,
                  proc' = [proc EXCEPT ![p] = [@ EXCEPT !.pgdir = d, !.sz = op[p].goal]],
                  free' = free \cup Pages(old, dirs[old]), dirs' = Without(old), holed' = holed \ {old},
                  op' = [op EXCEPT ![p] = Idle], UNCHANGED <<lost, stop>>
           PROVE  Inv'
  <2> USE <1>commit
  <2> DEFINE s == [proc[p] EXCEPT !.pgdir = d, !.sz = op[p].goal]
  <2>1. /\ StageOK(op[p], proc[p], dirs) /\ SlotOK(op[p], proc[p], dirs)
        /\ SizeOK(op[p], proc[p], dirs, holed)
        /\ proc[p] \in Slots /\ op[p] \in Ops /\ None \notin DOMAIN dirs
        /\ op[p].va \in Nat /\ op[p].goal \in Nat /\ KERN \in Nat
    BY Facts, Zenon
  <2>2. /\ op[p].mem = None /\ d \in DOMAIN dirs /\ old \in DOMAIN dirs /\ d # old
        /\ proc[p].state = "RUN"
        /\ d # None /\ old # None /\ proc[p].kstack # None
    BY <2>1 DEF StageOK, SlotOK
  <2>3. op[p].goal \in 0..KERN /\ op[p].va = op[p].goal
    BY <2>1 DEF SizeOK
  <2>4. /\ s \in Slots /\ s.state = "RUN" /\ s.kstack = proc[p].kstack /\ s.pgdir = d /\ s.sz = op[p].goal
    BY <2>1, <2>2, <2>3, Zenon DEF Slots, Ops
  <2>5. proc' = [proc EXCEPT ![p] = s]
    BY Zenon
  <2> HIDE DEF s
  <2>6. /\ Has(op[p], proc[p]) \ {old} = Has(Idle, s) /\ Hold(Idle, s) = Hold(op[p], proc[p])
        /\ old \in Has(op[p], proc[p]) \cup {None}
    BY <2>2, <2>4, IdleFacts DEF Has, Hold
  <2>7. Moved(Has(op[p], proc[p]), Has(op[p], proc[p]) \ {old}) /\ DirGone(old)
    BY <2>6, DirRemoved, Zenon
  <2>8. StageOK(Idle, s, dirs')
    BY IdleFacts DEF StageOK
  <2>9. d \in DOMAIN dirs' /\ dirs'[d] = dirs[d]
    BY <2>2, <2>7 DEF DirGone
  <2>10. SlotOK(Idle, s, dirs')
    BY <2>2, <2>4, <2>9, IdleFacts DEF SlotOK
  <2>11. SizeOK(Idle, s, dirs', holed')
    <3>1. d \notin holed' => Mapped(dirs'[d]) = 0..s.sz - 1
      BY <2>1, <2>2, <2>3, <2>4, <2>9 DEF SizeOK
    <3> QED
      BY <2>4, <3>1, IdleFacts DEF SizeOK
  <2>12. InOnePlace'
    <3>1. Holds' = Holds /\ DOMAIN Spaces = DOMAIN dirs /\ Spaces[old] = Pages(old, dirs[old])
      BY <2>2, <2>5, <2>6 DEF Holds, Spaces, Inv, TypeOK
    <3>2. Partition(free, lost, Spaces, Holds)
      BY DEF Inv, InOnePlace
    <3> DEFINE A == Pages(old, dirs[old])
    <3>3. \A x : x \in A \cup {} <=> \/ old \in DOMAIN Spaces /\ x \in Spaces[old]
                                     \/ \E q \in Proc : x \in Holds[q] /\ x \notin Holds[q]
      BY <2>2, <3>1, SMTT(30), Z3T(30)
    <3> HIDE DEF A
    <3>4. Partition(free \cup A, lost \cup {}, [e \in DOMAIN Spaces \ {old} |-> Spaces[e]], Holds)
      BY <3>2, <3>3, GivenBack, Zenon
    <3>5. lost \cup {} = lost
      OBVIOUS
    <3> QED
      BY <2>7, <3>1, <3>4, <3>5 DEF InOnePlace, DirGone, A
  <2>13. /\ proc[p].state # "EMBRYO" /\ Idle.kid \in {None, op[p].kid} /\ Idle \in Ops
         /\ stop' = stop /\ (holed' # {} \/ holed = {} \/ stop = "no")
         /\ Moved(Has(op[p], proc[p]), Has(Idle, s))
    BY <2>2, <2>6, <2>7, IdleFacts, ZenonT(30), SMTT(30)
  <2> QED
    BY <2>4, <2>5, <2>8, <2>10, <2>11, <2>12, <2>13, OneStep, Zenon
<1> DEFINE o == op[p]
           d == o.dir
           old == proc[p].pgdir
<1>1. /\ StageOK(op[p], proc[p], dirs) /\ SlotOK(op[p], proc[p], dirs)
      /\ SizeOK(op[p], proc[p], dirs, holed) /\ None \notin DOMAIN dirs /\ KERN \in Nat
      /\ o.va \in Nat /\ o.goal \in Nat /\ o.base \in Nat
  BY Facts, ZenonT(30), SMTT(30)
<1>2. o.at = "grow" /\ o.va >= o.goal /\ o.for = "stack" /\ stop = "no"
  BY DEF Stack, Here
<1>3. /\ d \in DOMAIN dirs /\ d # None /\ o.mem = None /\ o.for # "sbrk"
      /\ o.at \notin {"user", "setupkvm"} /\ proc[p].state = "RUN"
  BY <1>1, <1>2, ZenonT(30), SMTT(30) DEF StageOK
<1>4. old \in DOMAIN dirs
  BY <1>1, <1>3 DEF SlotOK
<1>5. \/ None \in {dirs[d].pt[Table(va)] : va \in {o.goal - 2, o.goal - 1}} /\ Stop("copyout")
      \/ Abandon(p, d, freevm(d), {})
      \/ /\ proc' = [proc EXCEPT ![p] = [@ EXCEPT !.pgdir = op[p].dir, !.sz = op[p].goal]]
         /\ free' = free \cup freevm(old) /\ dirs' = Without(old) /\ holed' = holed \ {old}
         /\ op' = [op EXCEPT ![p] = Idle] /\ UNCHANGED <<lost, stop>>
  BY ZenonT(30) DEF Stack, Return
<1>6. CASE None \in {dirs[d].pt[Table(va)] : va \in {o.goal - 2, o.goal - 1}} /\ Stop("copyout")
  <2>1. d \in holed
    <3> SUFFICES ASSUME d \notin holed PROVE FALSE
      OBVIOUS
    <3>1. PICK va \in {o.goal - 2, o.goal - 1} : dirs[d].pt[Table(va)] = None
      BY <1>6
    <3>2. Mapped(dirs[d]) = 0..o.va - 1
      BY <1>3, MappedTo, ZenonT(30)
    <3>3. o.goal = o.base + 2
      BY <1>1, <1>2, ZenonT(30) DEF SizeOK
    <3>4. va \in 0..o.va - 1
      BY <1>1, <1>2, <3>3
    <3>5. Tabled(dirs[d])
      BY <1>3, ZenonT(30) DEF Inv, Formed
    <3> QED
      BY <3>1, <3>2, <3>4, <3>5, ZenonT(30), SMTT(30) DEF Tabled
  <2> QED
    BY <1>6, <2>1, StopInv, ZenonT(30), SMTT(30)
<1>7. CASE Abandon(p, d, freevm(d), {})
  <2>1. {} = {op[p].mem} \ {None}
    BY <1>3
  <2> QED
    BY <1>2, <1>3, <1>7, <2>1, FreevmInv, ZenonT(30)
<1>8. CASE /\ proc' = [proc EXCEPT ![p] = [@ EXCEPT !.pgdir = op[p].dir, !.sz = op[p].goal]]
           /\ free' = free \cup freevm(old) /\ dirs' = Without(old) /\ holed' = holed \ {old}
           /\ op' = [op EXCEPT ![p] = Idle] /\ UNCHANGED <<lost, stop>>
  <2>1. freevm(old) = Pages(old, dirs[old])
    BY <1>4, FreeVm, ZenonT(30)
  <2>2. free' = free \cup Pages(old, dirs[old])
    BY <1>8, <2>1
  <2> QED
    BY <1>2, <1>8, <2>2, <1>commit, ZenonT(30)
<1> QED
  BY <1>5, <1>6, <1>7, <1>8

\* Every step keeps the invariant.
LEMMA NextInv ==
  ASSUME Inv, [Next]_vars
  PROVE  Inv'
<1>1. CASE UNCHANGED vars
  <2>1. UNCHANGED <<free, dirs, proc, op, lost, holed, stop>>
    BY <1>1 DEF vars
  <2>2. TypeOK' /\ InOnePlace' /\ Formed'
    BY <2>1, Zenon DEF Inv, TypeOK, InOnePlace, Formed, Spaces, Holds
  <2>3. Owned' /\ Parents' /\ \A p \in Proc : ProcOK(op'[p], proc'[p], dirs', holed')
    BY <2>1, Zenon DEF Inv, Owned, Parents
  <2> QED
    BY <2>1, <2>2, <2>3, Zenon DEF Inv
<1>2. CASE Next
  <2>1. PICK p \in Proc :
          \/ \E kid \in Proc : Fork(p, kid) \/ Wait(p, kid)
          \/ \E image \in Images : Exec(p, image)
          \/ \E n \in Deltas : Sbrk(p, n) \/ SbrkDown(p, n)
          \/ SetupDir(p) \/ SetupMap(p)
          \/ CopyPage(p) \/ CopyMap(p) \/ ForkDone(p)
          \/ Segment(p) \/ GrowPage(p) \/ GrowMap(p)
          \/ SbrkDone(p) \/ LoadSegment(p) \/ Stack(p)
          \/ Exit(p)
    BY <1>2, ZenonT(30) DEF Next
  <2>2. CASE \E kid \in Proc : Fork(p, kid) \/ Wait(p, kid)
    BY <2>2, ForkInv, WaitInv, ZenonT(30)
  <2>3. CASE \E image \in Images : Exec(p, image)
    BY <2>3, ExecInv, ZenonT(30)
  <2>4. CASE \E n \in Deltas : Sbrk(p, n) \/ SbrkDown(p, n)
    BY <2>4, SbrkInv, SbrkDownInv, ZenonT(30)
  <2>5. CASE SetupDir(p) \/ SetupMap(p) \/ CopyPage(p) \/ CopyMap(p) \/ ForkDone(p)
    BY <2>5, SetupDirInv, SetupMapInv, CopyPageInv, CopyMapInv, ForkDoneInv, ZenonT(30)
  <2>6. CASE Segment(p) \/ GrowPage(p) \/ GrowMap(p) \/ SbrkDone(p)
    BY <2>6, NextSegmentInv, GrowPageInv, GrowMapInv, SbrkDoneInv, ZenonT(30)
  <2>7. CASE LoadSegment(p) \/ Stack(p) \/ Exit(p)
    BY <2>7, LoadSegmentInv, StackInv, ExitInv, ZenonT(30)
  <2> QED
    BY <2>1, <2>2, <2>3, <2>4, <2>5, <2>6, <2>7, ZenonT(30)
<1> QED
  BY <1>1, <1>2

-----------------------------------------------------------------------------
(* The theorems.                                                           *)

\* The invariant holds, however the calls of the processes interleave or fail.
THEOREM MemoryInvariant == Spec => []Inv
<1>1. Init => Inv
  BY InitInv
<1>2. Inv /\ [Next]_vars => Inv'
  BY NextInv
<1> QED
  BY <1>1, <1>2, PTL DEF Spec

\* No page of fork, exec, sbrk, exit or wait ever has two uses.
THEOREM PagesAreExclusive == Spec => []PagesExclusive
<1>1. Inv => PagesExclusive
  <2> SUFFICES ASSUME Inv PROVE PagesExclusive
    BY ZenonT(30), SMTT(30)
  <2>1. Partition(free, lost, Spaces, Holds)
    BY ZenonT(30), SMTT(30) DEF Inv, InOnePlace
  <2>2. /\ DOMAIN Spaces = DOMAIN dirs /\ \A d \in DOMAIN dirs : Spaces[d] = Space(d)
        /\ \A p \in Proc : Holds[p] = Held(p)
    BY DEF Spaces, Pages, Space, Holds, Hold, Held
  <2>3. \A d \in DOMAIN dirs : Apart(d, dirs[d])
    BY ZenonT(30) DEF Inv, Formed
  <2> QED
    BY <2>1, <2>2, <2>3 DEF PagesExclusive, Partition
<1> QED
  BY <1>1, MemoryInvariant, PTL

\* What fails half way, or exits, gives back all that it took.
THEOREM NothingIsLost == Spec => []NothingLost
<1>1. Inv => NothingLost
  <2> SUFFICES ASSUME Inv PROVE NothingLost
    OBVIOUS
  <2>1. Partition(free, lost, Spaces, Holds)
    BY DEF Inv, InOnePlace
  <2>2. /\ DOMAIN Spaces = DOMAIN dirs /\ \A d \in DOMAIN dirs : Spaces[d] = Space(d)
        /\ \A p \in Proc : Holds[p] = Held(p)
    BY DEF Spaces, Pages, Space, Holds, Hold, Held
  <2>3. \A d \in DOMAIN dirs : \E p \in Proc : d \in {proc[p].pgdir, op[p].dir}
    BY ZenonT(30) DEF Inv, Owned, Has
  <2>4. Page = free \cup lost \cup (UNION {Space(d) : d \in DOMAIN dirs})
               \cup (UNION {Held(p) : p \in Proc})
    <3>1. \A x \in Page : \/ x \in free \cup lost
                          \/ \E d \in DOMAIN dirs : x \in Space(d)
                          \/ \E p \in Proc : x \in Held(p)
      BY <2>1, <2>2, SMTT(30), Z3T(30) DEF Partition
    <3>2. /\ free \cup lost \subseteq Page
          /\ \A d \in DOMAIN dirs : Space(d) \subseteq Page
          /\ \A p \in Proc : Held(p) \subseteq Page
      BY <2>1, <2>2 DEF Partition
    <3> DEFINE S == UNION {Space(d) : d \in DOMAIN dirs}
               H == UNION {Held(p) : p \in Proc}
    <3>3. \A x : x \in S <=> \E d \in DOMAIN dirs : x \in Space(d)
      BY ZenonT(30)
    <3>4. \A x : x \in H <=> \E p \in Proc : x \in Held(p)
      BY ZenonT(30)
    <3> HIDE DEF S, H
    <3>5. \A x : x \in Page <=> x \in free \cup lost \cup S \cup H
      BY <3>1, <3>2, <3>3, <3>4
    <3>6. Page = free \cup lost \cup S \cup H
      BY <3>5, ZenonT(30), SMTT(30)
    <3> QED
      BY <3>6, ZenonT(30) DEF S, H
  <2> QED
    BY <2>3, <2>4 DEF NothingLost
<1> QED
  BY <1>1, MemoryInvariant, PTL

\* The pages below the size of a process are mapped, and none else, so that
\* copyuvm, loaduvm, copyout and mappages find what they rely on.
THEOREM SizesAreMapped == Spec => []SizeIsMapped
<1>1. Inv => SizeIsMapped
  <2> SUFFICES ASSUME Inv PROVE SizeIsMapped
    OBVIOUS
  <2>1. stop # "no" => holed # {}
    BY ZenonT(30), SMTT(30) DEF Inv
  <2> SUFFICES ASSUME NEW p \in Proc, proc[p].state \in {"RUN", "ZOMBIE"}, proc[p].pgdir \notin holed,
                      op[p].at = "user" \/ op[p].for # "sbrk"
               PROVE  Mapped(dirs[proc[p].pgdir]) = 0..proc[p].sz - 1
    BY <2>1 DEF SizeIsMapped
  <2>2. StageOK(op[p], proc[p], dirs) /\ SizeOK(op[p], proc[p], dirs, holed)
    BY Facts, ZenonT(30), SMTT(30)
  <2>3. op[p].for # "sbrk"
    BY <2>2 DEF StageOK
  <2> QED
    BY <2>2, <2>3, ZenonT(30), SMTT(30) DEF SizeOK
<1> QED
  BY <1>1, MemoryInvariant, PTL

=============================================================================
