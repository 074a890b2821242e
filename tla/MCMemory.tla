------------------------------ MODULE MCMemory ------------------------------
(***************************************************************************)
(* The kernel's memory and a program's, side by side: Vm and Umalloc share *)
(* no state here, and a behaviour moves one of them.                       *)
(***************************************************************************)
EXTENDS Vm

MCImages == {<<1>>, <<3>>}
MCDeltas == {-1, 1}

\* deallocuvm's loop, as it goes from address to address: Visited is what it
\* looks at, whichever page tables there are.
Loop(r, newsz, oldsz) ==
  LET from[a \in 0..oldsz + NPT] ==
        IF a >= oldsz THEN {}
        ELSE IF r.pt[Table(a)] = None THEN from[a + NPT]
        ELSE {a} \cup from[a + 1]
  IN  from[newsz]

ASSUME VisitedAssumption ==
  \A pt \in [0..4 -> {None, 1}] : \A oldsz \in 0..5 * NPT : \A newsz \in 0..oldsz :
    Visited([pt |-> pt], newsz, oldsz) = Loop([pt |-> pt], newsz, oldsz)

VARIABLES part, heap, brk, live, core

\* Three chunks fit, with a gap; a request may exceed a chunk.
Um == INSTANCE Umalloc WITH HeapMax <- 13, Chunk <- 4, Units <- {2, 3, 5}, Steps <- {1}

program == <<heap, brk, live, core>>

MemInit == part \in {"kernel", "program"} /\ Init /\ Um!UmInit

MemNext ==
  /\ UNCHANGED part
  /\ \/ part = "kernel" /\ Next /\ UNCHANGED program
     \/ part = "program" /\ Um!UmNext /\ UNCHANGED vars

MemSpec == MemInit /\ [][MemNext]_<<part, vars, program>>

\* malloc gives nothing out twice, and free loses nothing (Umalloc).
HeapSound == Um!HeapSound
=============================================================================
