------------------------------ MODULE Umalloc -------------------------------
(***************************************************************************)
(* The allocator of umalloc.c: malloc, free and morecore over the circular *)
(* list of free blocks in address order.                                   *)
(*                                                                         *)
(* Memory is counted in units of sizeof(Header).  Each unit is the header  *)
(* of a block or part of one; base, the first node of the list, is a       *)
(* static variable below the heap.  What no header of a block is any more  *)
(* holds Null and 0: the program may have overwritten it.                  *)
(***************************************************************************)
EXTENDS Integers, FiniteSets

CONSTANTS
  HeapMax,    \* bound: the last unit that sbrk gives out
  Chunk,      \* the least morecore asks for (4096)
  Units,      \* sizes of blocks asked for, header included
  Steps       \* sizes of the program's own calls of sbrk

VARIABLES
  heap,       \* ptr and size of every header, and freep
  brk,        \* the first unit above the heap
  live,       \* headers of the blocks the program has
  core        \* the units that morecore got

umvars == <<heap, brk, live, core>>

base == 0
Null == -1
Addr == 0..HeapMax

UmInit ==
  /\ heap = [ptr |-> [a \in Addr |-> Null], size |-> [a \in Addr |-> 0], freep |-> Null]
  /\ brk = 1
  /\ live = {} /\ core = {}
-----------------------------------------------------------------------------
\* The list node after which free inserts bp, searched from p.
RECURSIVE Place(_, _, _)
Place(h, p, bp) ==
  LET next == h.ptr[p]
  IN  IF \/ p < bp /\ bp < next
         \/ p >= next /\ (bp > p \/ bp < next)
      THEN p ELSE Place(h, next, bp)

\* Fault for HeapSound: bp is never joined to the block after it.
JoinUpperNot(h, p, bp) ==
  [h EXCEPT !.ptr[bp] = h.ptr[p]]

\* bp followed by its successor, joined if they touch.
JoinUpper(h, p, bp) ==
  LET next == h.ptr[p]
  IN  IF bp + h.size[bp] = next
      THEN [h EXCEPT !.size[bp] = @ + h.size[next], !.ptr[bp] = h.ptr[next],
                     !.size[next] = 0, !.ptr[next] = Null]
      ELSE [h EXCEPT !.ptr[bp] = next]

\* p followed by bp, joined if they touch.
JoinLower(h, p, bp) ==
  IF p + h.size[p] = bp
  THEN [h EXCEPT !.size[p] = @ + h.size[bp], !.ptr[p] = h.ptr[bp],
                 !.size[bp] = 0, !.ptr[bp] = Null]
  ELSE [h EXCEPT !.ptr[p] = bp]

Freed(h, bp) ==
  LET p == Place(h, h.freep, bp)
  IN  [JoinLower(JoinUpper(h, p, bp), p, bp) EXCEPT !.freep = p]

\* malloc's loop: the node before the first block of n units or more, searched
\* from prevp to freep; Null if the list has none.
RECURSIVE Before(_, _, _)
Before(h, prevp, n) ==
  LET p == h.ptr[prevp]
  IN  CASE h.size[p] >= n -> prevp
        [] h.size[p] < n /\ p = h.freep -> Null
        [] OTHER -> Before(h, p, n)

\* The block it returns: the whole of p, or its tail end.
Block(h, prevp, n) == h.ptr[prevp] + h.size[h.ptr[prevp]] - n

Allocated(h, prevp, n) ==
  LET p == h.ptr[prevp]
  IN  IF h.size[p] = n
      THEN [h EXCEPT !.ptr[prevp] = h.ptr[p], !.ptr[p] = Null, !.freep = prevp]
      ELSE [h EXCEPT !.size[p] = @ - n, !.size[Block(h, prevp, n)] = n, !.freep = prevp]

\* The first call makes base a list of its own.
Listed(h) ==
  IF h.freep = Null THEN [h EXCEPT !.ptr[base] = base, !.size[base] = 0, !.freep = base]
  ELSE h

Return(h, n) ==
  LET prevp == Before(h, h.freep, n)
  IN  /\ heap' = Allocated(h, prevp, n)
      /\ live' = live \cup {Block(h, prevp, n)}

mallocFound(n) ==
  /\ Before(Listed(heap), Listed(heap).freep, n) # Null
  /\ Return(Listed(heap), n)
  /\ UNCHANGED <<brk, core>>

\* morecore: at least Chunk units more, freed into the list.
Asked(n) == IF n < Chunk THEN Chunk ELSE n

mallocMore(n) ==
  /\ Before(Listed(heap), Listed(heap).freep, n) = Null
  /\ brk + Asked(n) - 1 <= HeapMax
  /\ Return(Freed([Listed(heap) EXCEPT !.size[brk] = Asked(n)], brk), n)
  /\ brk' = brk + Asked(n)
  /\ core' = core \cup (brk..brk + Asked(n) - 1)

\* sbrk fails, and malloc returns 0.
mallocFails(n) ==
  /\ Before(Listed(heap), Listed(heap).freep, n) = Null
  /\ heap' = Listed(heap)
  /\ UNCHANGED <<brk, live, core>>

free(b) ==
  /\ b \in live
  /\ heap' = Freed(heap, b)
  /\ live' = live \ {b}
  /\ UNCHANGED <<brk, core>>

\* The program itself moves the break, so that the next chunk does not touch
\* the last one.
sbrk(n) ==
  /\ brk + n - 1 <= HeapMax
  /\ brk' = brk + n
  /\ UNCHANGED <<heap, live, core>>

UmNext ==
  \/ \E n \in Units : mallocFound(n) \/ mallocMore(n) \/ mallocFails(n)
  \/ \E b \in live : free(b)
  \/ \E n \in Steps : sbrk(n)

UmSpec == UmInit /\ [][UmNext]_umvars
-----------------------------------------------------------------------------
(* Property.                                                               *)

Span(b) == b..b + heap.size[b] - 1

\* The nodes of the free list but base: what ptr leads to.
RECURSIVE ListFrom(_, _)
ListFrom(p, seen) == IF p \in seen THEN seen ELSE ListFrom(heap.ptr[p], seen \cup {p})
FreeBlocks == IF heap.freep = Null THEN {} ELSE ListFrom(base, {}) \ {base}

\* Blocks of the program and free blocks share the units that morecore got, each
\* unit in exactly one: malloc gives out nothing twice and free loses nothing.
\* The list is one circle in address order that freep is on, and no two free
\* blocks touch, so that memory given back piece by piece serves a large request
\* again.
HeapSound ==
  /\ live \cap FreeBlocks = {}
  /\ \A a, b \in live \cup FreeBlocks : a # b => Span(a) \cap Span(b) = {}
  /\ UNION {Span(b) : b \in live \cup FreeBlocks} = core
  /\ heap.freep # Null =>
       /\ heap.freep \in FreeBlocks \cup {base}
       /\ Cardinality({a \in FreeBlocks \cup {base} : heap.ptr[a] <= a}) = 1
  /\ \A a, b \in FreeBlocks : a + heap.size[a] # b
=============================================================================
