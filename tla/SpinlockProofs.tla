--------------------------- MODULE SpinlockProofs ---------------------------
(***************************************************************************)
(* Spin locks exclude, for any number of CPUs and locks, and whatever the  *)
(* code of processes and handlers, as long as it keeps to SpinAssumption.  *)
(*                                                                         *)
(* The proof rests on what ncli counts: the locks that the running code    *)
(* has, and the call of acquire or release that it is in.  While that is   *)
(* not 0 interrupts are off, so that only code without locks is ever       *)
(* interrupted, and only the code on top of a CPU's stack has any.         *)
(***************************************************************************)
EXTENDS Spinlock, FiniteSets, FiniteSetTheorems, TLAPS

Ops == [op : {"acquire", "release"}, lock : Lock]
InAcquire == {"cli", "count", "held", "spin", "own"}
InRelease == {"xchg", "popcli"}

Frames == [calls : Seq(Ops), at : {"call"} \cup InAcquire \cup InRelease,
           eflags : BOOLEAN, has : SUBSET Lock]

\* The types of the variables.
TypeOK ==
  /\ locked \in [Lock -> BOOLEAN] /\ owner \in [Lock -> CPU \cup {NoCPU}]
  /\ flag \in [CPU -> BOOLEAN] /\ ncli \in [CPU -> Nat] /\ intena \in [CPU -> BOOLEAN]
  /\ stack \in [CPU -> Seq(Frames)]
  /\ spinpanic \in BOOLEAN

\* The lock of the call that the code is in.
Its(f) == Head(f.calls).lock

\* What code had when it made the call that it is in.
Had(f) == IF f.at \in InRelease THEN f.has \cup {Its(f)} ELSE f.has

\* The code is where it can be.
FrameOK(f) ==
  /\ f.at # "call" => f.calls # <<>>
  /\ f.at \in InAcquire => Head(f.calls).op = "acquire"
  /\ f.at \in InRelease => Head(f.calls).op = "release" /\ Its(f) \notin f.has
  /\ Disciplined(f.calls, Had(f))
  /\ IsFiniteSet(f.has)

\* Locks that are set for the code, and what ncli is when it runs.
Engaged(f) == f.has \cup IF f.at \in {"own", "xchg"} THEN {Its(f)} ELSE {}
Counted(f) == f.at \in {"held", "spin", "own", "xchg", "popcli"}
Depth(f) == Cardinality(f.has) + IF Counted(f) THEN 1 ELSE 0

\* Interrupts are on when the CPU runs a process out of all sections.
FlagOK(c) ==
  LET f == Top(c)  process == Len(stack[c]) = 1
  IN  /\ ncli[c] = Depth(f)
      /\ IF ncli[c] = 0 THEN flag[c] = (process /\ f.at # "count")
                        ELSE ~flag[c] /\ intena[c] = process
      /\ f.at \in {"cli", "count"} => f.eflags = (process /\ ncli[c] = 0)

StackOK(c) ==
  /\ Len(stack[c]) \in {1, 2}
  /\ \A i \in 1..Len(stack[c]) : FrameOK(stack[c][i])
  /\ Len(stack[c]) = 2 =>
       LET f == stack[c][1]
       IN  f.has = {} /\ f.at \in {"call", "cli"} /\ (f.at = "cli" => f.eflags)

\* Locks and those who have them.
LocksOK ==
  /\ \A c \in CPU : \A l \in Top(c).has : owner[l] = c
  /\ \A c \in CPU, l \in Lock : owner[l] = c => l \in Top(c).has
  /\ \A c \in CPU : \A l \in Engaged(Top(c)) : locked[l]
  /\ \A c, d \in CPU : \A l \in Engaged(Top(c)) \cap Engaged(Top(d)) : c = d

\* The inductive invariant.
Inv ==
  /\ TypeOK /\ ~spinpanic
  /\ \A c \in CPU : StackOK(c) /\ FlagOK(c)
  /\ LocksOK
-----------------------------------------------------------------------------
(* Code that keeps to its locks.                                           *)

\* The call it makes next, and what is left after it.
LEMMA NextCall ==
  ASSUME NEW calls \in Seq(Ops), NEW has, Disciplined(calls, has), calls # <<>>
  PROVE  LET o == Head(calls)
         IN  /\ o.op = "acquire" => /\ o.lock \notin has
                                    /\ Disciplined(Tail(calls), has \cup {o.lock})
             /\ o.op = "release" => /\ o.lock \in has
                                    /\ Disciplined(Tail(calls), has \ {o.lock})
<1> PICK h \in [1..Len(calls) + 1 -> SUBSET Lock] :
      /\ h[1] = has /\ h[Len(calls) + 1] = {}
      /\ \A i \in 1..Len(calls) :
           LET l == calls[i].lock
           IN  IF calls[i].op = "acquire" THEN l \notin h[i] /\ h[i + 1] = h[i] \cup {l}
                                          ELSE l \in h[i] /\ h[i + 1] = h[i] \ {l}
  BY SMTT(30) DEF Disciplined
<1> DEFINE rest == Tail(calls)
           g == [i \in 1..Len(rest) + 1 |-> h[i + 1]]
<1>1. /\ Len(calls) \in Nat /\ Len(calls) >= 1 /\ Head(calls) = calls[1]
      /\ rest \in Seq(Ops) /\ Len(rest) = Len(calls) - 1
      /\ \A i \in 1..Len(rest) : rest[i] = calls[i + 1]
  OBVIOUS
<1>2. g \in [1..Len(rest) + 1 -> SUBSET Lock]
  BY <1>1
<1>3. g[1] = h[2] /\ g[Len(rest) + 1] = {}
  BY <1>1
<1>4. \A i \in 1..Len(rest) :
        LET l == rest[i].lock
        IN  IF rest[i].op = "acquire" THEN l \notin g[i] /\ g[i + 1] = g[i] \cup {l}
                                      ELSE l \in g[i] /\ g[i + 1] = g[i] \ {l}
  <2> TAKE i \in 1..Len(rest)
  <2>1. i + 1 \in 1..Len(calls) /\ g[i] = h[i + 1] /\ g[i + 1] = h[i + 1 + 1]
    BY <1>1
  <2>2. rest[i] = calls[i + 1]
    BY <1>1
  <2> HIDE DEF g, rest
  <2> QED
    BY <2>1, <2>2
<1>5. Disciplined(rest, h[2])
  <2> HIDE DEF g, rest
  <2> QED
    BY <1>2, <1>3, <1>4, Zenon DEF Disciplined
<1>6. /\ Head(calls).op = "acquire" => /\ Head(calls).lock \notin has
                                       /\ h[2] = has \cup {Head(calls).lock}
      /\ Head(calls).op = "release" => /\ Head(calls).lock \in has
                                       /\ h[2] = has \ {Head(calls).lock}
  BY <1>1
<1> QED
  BY <1>5, <1>6, Zenon

\* Code at its end has no lock.
LEMMA AtEnd ==
  ASSUME NEW has, Disciplined(<<>>, has)
  PROVE  has = {}
BY DEF Disciplined

\* Sets of locks, with one more and with one less.
LEMMA OneMore ==
  ASSUME NEW S, IsFiniteSet(S), NEW l, l \notin S
  PROVE  IsFiniteSet(S \cup {l}) /\ Cardinality(S \cup {l}) = Cardinality(S) + 1
BY FS_AddElement, Zenon

\* Taking one lock out of a finite set of them leaves one fewer.
LEMMA OneLess ==
  ASSUME NEW S, IsFiniteSet(S), NEW l \in S
  PROVE  /\ IsFiniteSet(S \ {l}) /\ Cardinality(S \ {l}) \in Nat
         /\ Cardinality(S) = Cardinality(S \ {l}) + 1
<1>1. IsFiniteSet(S \ {l}) /\ l \notin S \ {l}
  BY FS_RemoveElement, Zenon
<1>2. (S \ {l}) \cup {l} = S
  OBVIOUS
<1>3. Cardinality((S \ {l}) \cup {l}) = Cardinality(S \ {l}) + 1
  BY <1>1, OneMore, Zenon
<1> QED
  BY <1>1, <1>2, <1>3, FS_CardinalityType, Zenon

\* ncli is 0 when the code has no lock and is in no counted part of a call.
LEMMA NoDepth ==
  ASSUME NEW f \in Frames, IsFiniteSet(f.has)
  PROVE  /\ Cardinality(f.has) \in Nat /\ Depth(f) \in Nat
         /\ Depth(f) = 0 <=> f.has = {} /\ ~Counted(f)
<1>1. Cardinality(f.has) \in Nat /\ (Cardinality(f.has) = 0 <=> f.has = {})
  BY FS_CardinalityType, FS_EmptySet, Zenon
<1> QED
  BY <1>1 DEF Depth
-----------------------------------------------------------------------------
(* Steps of one CPU.                                                       *)

\* The code on top of a stack.
LEMMA TopFrame ==
  ASSUME Inv, NEW c \in CPU
  PROVE  /\ Len(stack[c]) \in Nat /\ Len(stack[c]) \in 1..Len(stack[c])
         /\ stack[c] \in Seq(Frames) /\ Top(c) \in Frames /\ FrameOK(Top(c))
         /\ Top(c).calls \in Seq(Ops)
<1>1. stack[c] \in Seq(Frames) /\ Len(stack[c]) \in {1, 2}
  BY DEF Inv, TypeOK, StackOK
<1>2. \A i \in 1..Len(stack[c]) : stack[c][i] \in Frames /\ FrameOK(stack[c][i])
  BY <1>1 DEF Inv, StackOK
<1>3. Len(stack[c]) \in Nat /\ Len(stack[c]) \in 1..Len(stack[c])
  BY <1>1
<1>4. Top(c) \in Frames /\ FrameOK(Top(c))
  BY <1>2, <1>3, Zenon DEF Top
<1>5. Top(c).calls \in Seq(Ops)
  BY <1>4 DEF Frames
<1> QED
  BY <1>1, <1>3, <1>4, <1>5, Zenon

\* GoOn changes the code on top, and nothing else.
LEMMA Gone ==
  ASSUME Inv, NEW c \in CPU, NEW f \in Frames, GoOn(c, f)
  PROVE  /\ stack' \in [CPU -> Seq(Frames)]
         /\ Len(stack'[c]) = Len(stack[c]) /\ Top(c)' = f
         /\ \A i \in 1..Len(stack[c]) - 1 : stack'[c][i] = stack[c][i]
         /\ \A d \in CPU \ {c} : stack'[d] = stack[d] /\ Top(d)' = Top(d)
<1>1. stack \in [CPU -> Seq(Frames)] /\ Len(stack[c]) \in 1..Len(stack[c])
  BY TopFrame DEF Inv, TypeOK
<1> DEFINE s == [stack[c] EXCEPT ![Len(stack[c])] = f]
<1>2. /\ s \in Seq(Frames) /\ Len(s) = Len(stack[c]) /\ s[Len(s)] = f
      /\ \A i \in 1..Len(stack[c]) - 1 : s[i] = stack[c][i]
  BY <1>1
<1>3. stack' = [stack EXCEPT ![c] = s]
  BY DEF GoOn
<1> HIDE DEF s
<1> QED
  BY <1>1, <1>2, <1>3 DEF Top

\* A CPU is as it was when its part of the state is.
LEMMA OtherCpu ==
  ASSUME NEW d \in CPU, StackOK(d), FlagOK(d), stack'[d] = stack[d], Top(d)' = Top(d),
         flag'[d] = flag[d], ncli'[d] = ncli[d], intena'[d] = intena[d]
  PROVE  StackOK(d)' /\ FlagOK(d)'
BY DEF StackOK, FlagOK

\* The stack of a CPU whose code goes on.
LEMMA SameCpu ==
  ASSUME Inv, NEW c \in CPU, NEW f \in Frames, GoOn(c, f), FrameOK(f)
  PROVE  StackOK(c)'
<1> DEFINE n == Len(stack[c])
<1>1. /\ Len(stack'[c]) = n /\ Top(c)' = f /\ n \in {1, 2}
      /\ \A i \in 1..n - 1 : stack'[c][i] = stack[c][i]
  BY Gone DEF Inv, StackOK
<1>2. \A i \in 1..n : FrameOK(stack[c][i])
  BY DEF Inv, StackOK
<1>3. stack'[c][n] = f
  BY <1>1 DEF Top
<1>4. \A i \in 1..n : FrameOK(stack'[c][i])
  BY <1>1, <1>2, <1>3
<1>5. n = 2 => stack'[c][1] = stack[c][1]
  BY <1>1
<1> HIDE DEF n
<1>6. \A f1 : f1 = stack[c][1] /\ n = 2 =>
        f1.has = {} /\ f1.at \in {"call", "cli"} /\ (f1.at = "cli" => f1.eflags)
  BY DEF Inv, StackOK, n
<1> QED
  BY <1>1, <1>4, <1>5, <1>6 DEF StackOK

\* Locks are as they were when no code has others.
LEMMA SameLocks ==
  ASSUME LocksOK, UNCHANGED <<locked, owner>>,
         \A d \in CPU : Top(d)'.has = Top(d).has /\ Engaged(Top(d)') = Engaged(Top(d))
  PROVE  LocksOK'
<1>1. \A c \in CPU : \A l \in Top(c)'.has : owner'[l] = c
  BY DEF LocksOK
<1>2. \A c \in CPU, l \in Lock : owner'[l] = c => l \in Top(c)'.has
  BY DEF LocksOK
<1>3. \A c \in CPU : \A l \in Engaged(Top(c))' : locked'[l]
  BY DEF LocksOK
<1>4. \A c, d \in CPU : \A l \in Engaged(Top(c))' \cap Engaged(Top(d))' : c = d
  BY DEF LocksOK
<1> QED
  BY <1>1, <1>2, <1>3, <1>4 DEF LocksOK

\* A step within a call, that neither sets nor clears a lock.
LEMMA WithinCall ==
  ASSUME Inv, NEW c \in CPU, NEW f \in Frames, GoOn(c, f), FrameOK(f), FlagOK(c)',
         f.has = Top(c).has, Engaged(f) = Engaged(Top(c)),
         flag' \in [CPU -> BOOLEAN], ncli' \in [CPU -> Nat], intena' \in [CPU -> BOOLEAN],
         \A d \in CPU \ {c} :
           flag'[d] = flag[d] /\ ncli'[d] = ncli[d] /\ intena'[d] = intena[d],
         UNCHANGED <<locked, owner, spinpanic>>
  PROVE  Inv'
<1>1. /\ stack' \in [CPU -> Seq(Frames)] /\ Top(c)' = f
      /\ \A d \in CPU \ {c} : stack'[d] = stack[d] /\ Top(d)' = Top(d)
  BY Gone
<1>2. TypeOK' /\ ~spinpanic'
  BY <1>1 DEF Inv, TypeOK
<1>3. \A d \in CPU : StackOK(d)' /\ FlagOK(d)'
  BY <1>1, SameCpu, OtherCpu DEF Inv
<1>4. \A d \in CPU : Top(d)'.has = Top(d).has /\ Engaged(Top(d)') = Engaged(Top(d))
  BY <1>1, Zenon
<1>5. LocksOK'
  BY <1>4, SameLocks, SMTT(30) DEF Inv
<1> QED
  BY <1>2, <1>3, <1>5 DEF Inv

\* pushcli saving the flags keeps the invariant.
LEMMA PushcliReadInv ==
  ASSUME Inv, NEW c \in CPU, PushcliRead(c)
  PROVE  Inv'
<1> DEFINE f == [Top(c) EXCEPT !.eflags = flag[c], !.at = "cli"]
<1>0. Top(c) \in Frames /\ FrameOK(Top(c)) /\ flag[c] \in BOOLEAN /\ FlagOK(c)
  BY TopFrame DEF Inv, TypeOK
<1>1. /\ GoOn(c, f) /\ UNCHANGED <<locked, owner, flag, ncli, intena, spinpanic>>
      /\ Top(c).calls # <<>> /\ Head(Top(c).calls).op = "acquire" /\ Top(c).at = "call"
  BY DEF PushcliRead, Calls
<1>2. /\ f \in Frames /\ f.has = Top(c).has /\ f.calls = Top(c).calls
      /\ f.at = "cli" /\ f.eflags = flag[c]
  BY <1>0, ZenonT(30) DEF Frames, InAcquire
<1> HIDE DEF f
<1>3. FrameOK(f) /\ Engaged(f) = Engaged(Top(c)) /\ Depth(f) = Depth(Top(c))
  BY <1>0, <1>1, <1>2, SMTT(30)
     DEF FrameOK, Had, Engaged, Depth, Counted, InAcquire, InRelease
<1>4. Len(stack'[c]) = Len(stack[c]) /\ Top(c)' = f
  BY <1>1, <1>2, Gone
<1>5. FlagOK(c)'
  BY <1>0, <1>1, <1>2, <1>3, <1>4, SMTT(30) DEF FlagOK
<1> QED
  BY <1>1, <1>2, <1>3, <1>5, WithinCall, Zenon DEF Inv, TypeOK

\* pushcli's cli keeps the invariant: only the caller's flag changes.
LEMMA PushcliCliInv ==
  ASSUME Inv, NEW c \in CPU, PushcliCli(c)
  PROVE  Inv'
<1> DEFINE f == [Top(c) EXCEPT !.at = "count"]
<1>0. Top(c) \in Frames /\ FrameOK(Top(c)) /\ FlagOK(c) /\ flag \in [CPU -> BOOLEAN]
  BY TopFrame DEF Inv, TypeOK
<1>1. /\ GoOn(c, f) /\ UNCHANGED <<locked, owner, ncli, intena, spinpanic>>
      /\ flag' = [flag EXCEPT ![c] = FALSE]
      /\ Top(c).calls # <<>> /\ Head(Top(c).calls).op = "acquire" /\ Top(c).at = "cli"
  BY DEF PushcliCli, Calls, MoveTo
<1>2. /\ f \in Frames /\ f.has = Top(c).has /\ f.calls = Top(c).calls
      /\ f.at = "count" /\ f.eflags = Top(c).eflags
  BY <1>0, SMTT(30) DEF Frames, InAcquire
<1> HIDE DEF f
<1>3. FrameOK(f) /\ Engaged(f) = Engaged(Top(c)) /\ Depth(f) = Depth(Top(c))
  BY <1>0, <1>1, <1>2 DEF FrameOK, Had, Engaged, Depth, Counted, InAcquire, InRelease
<1>4. Len(stack'[c]) = Len(stack[c]) /\ Top(c)' = f
  BY <1>1, <1>2, Gone, SMTT(30)
<1>5. FlagOK(c)'
  BY <1>0, <1>1, <1>2, <1>3, <1>4, Zenon DEF FlagOK
<1> QED
  BY <1>0, <1>1, <1>2, <1>3, <1>5, WithinCall, Zenon DEF Inv, TypeOK

\* pushcli's count keeps the invariant; the first push saves the flag read.
LEMMA PushcliCountInv ==
  ASSUME Inv, NEW c \in CPU, PushcliCount(c)
  PROVE  Inv'
<1> DEFINE f == [Top(c) EXCEPT !.at = "held"]
<1>0. /\ Top(c) \in Frames /\ FrameOK(Top(c)) /\ FlagOK(c)
      /\ ncli \in [CPU -> Nat] /\ intena \in [CPU -> BOOLEAN]
  BY TopFrame DEF Inv, TypeOK
<1>1. /\ GoOn(c, f) /\ UNCHANGED <<locked, owner, flag, spinpanic>>
      /\ ncli' = [ncli EXCEPT ![c] = ncli[c] + 1]
      /\ intena' = IF ncli[c] = 0 THEN [intena EXCEPT ![c] = Top(c).eflags] ELSE intena
      /\ Top(c).calls # <<>> /\ Head(Top(c).calls).op = "acquire" /\ Top(c).at = "count"
  BY DEF PushcliCount, Calls, MoveTo
<1>2. /\ f \in Frames /\ f.has = Top(c).has /\ f.calls = Top(c).calls
      /\ f.at = "held" /\ Top(c).eflags \in BOOLEAN
  BY <1>0 DEF Frames, InAcquire
<1> HIDE DEF f
<1>3. FrameOK(f) /\ Engaged(f) = Engaged(Top(c))
  BY <1>0, <1>1, <1>2, SMTT(30) DEF FrameOK, Had, Engaged, InAcquire, InRelease
<1>4. Len(stack'[c]) = Len(stack[c]) /\ Top(c)' = f
  BY <1>1, <1>2, Gone
<1>5. Depth(f) = Depth(Top(c)) + 1 /\ Depth(Top(c)) \in Nat
  <2>1. Cardinality(f.has) \in Nat
    BY <1>2, <1>3, NoDepth, SMTT(30) DEF FrameOK
  <2> QED
    BY <2>1, <1>1, <1>2 DEF Depth, Counted
<1>6. /\ ncli' \in [CPU -> Nat] /\ ncli'[c] = ncli[c] + 1
      /\ intena' \in [CPU -> BOOLEAN]
      /\ intena'[c] = IF ncli[c] = 0 THEN Top(c).eflags ELSE intena[c]
      /\ \A d \in CPU \ {c} : ncli'[d] = ncli[d] /\ intena'[d] = intena[d]
  BY <1>0, <1>1, <1>2
<1>7. FlagOK(c)'
  <2>1. ncli'[c] = Depth(f) /\ ncli'[c] # 0
    BY <1>0, <1>5, <1>6 DEF FlagOK
  <2>2. ~flag'[c]
    BY <1>0, <1>1, Zenon DEF FlagOK
  <2>3. intena'[c] = (Len(stack[c]) = 1)
    BY <1>0, <1>1, <1>6, Zenon DEF FlagOK
  <2> QED
    BY <1>2, <1>4, <2>1, <2>2, <2>3 DEF FlagOK
<1> QED
  BY <1>1, <1>2, <1>3, <1>6, <1>7, WithinCall, Zenon DEF Inv, TypeOK

\* acquire does not find that its CPU has the lock already.
LEMMA AcquireTestInv ==
  ASSUME Inv, NEW c \in CPU, AcquireTest(c)
  PROVE  Inv'
<1> DEFINE f == [Top(c) EXCEPT !.at = "spin"]
<1>0. Top(c) \in Frames /\ FrameOK(Top(c)) /\ FlagOK(c) /\ Top(c).calls \in Seq(Ops)
  BY TopFrame DEF Inv
<1>1. Top(c).calls # <<>> /\ Head(Top(c).calls).op = "acquire" /\ Top(c).at = "held"
  BY DEF AcquireTest, Calls
<1>2. TheLock(c) \notin Top(c).has /\ TheLock(c) \in Lock
  <2>1. Disciplined(Top(c).calls, Top(c).has)
    BY <1>0, <1>1 DEF FrameOK, Had, InRelease
  <2>2. TheLock(c) \notin Top(c).has
    BY <2>1, <1>0, <1>1, NextCall, ZenonT(30) DEF TheLock
  <2>3. Head(Top(c).calls) \in Ops
    BY <1>0, <1>1, SMTT(30)
  <2> QED
    BY <2>2, <2>3, SMTT(30) DEF TheLock, Ops
<1>3. ~holding(c, TheLock(c))
  BY <1>2 DEF holding, Inv, LocksOK
<1>4. GoOn(c, f) /\ UNCHANGED <<locked, owner, flag, ncli, intena, spinpanic>>
  BY <1>3 DEF AcquireTest, MoveTo
<1>5. /\ f \in Frames /\ f.has = Top(c).has /\ f.calls = Top(c).calls
      /\ f.at = "spin"
  BY <1>0, SMTT(30) DEF Frames, InAcquire
<1> HIDE DEF f
<1>6. FrameOK(f) /\ Engaged(f) = Engaged(Top(c)) /\ Depth(f) = Depth(Top(c))
  BY <1>0, <1>1, <1>5, SMTT(30)
     DEF FrameOK, Had, Engaged, Depth, Counted, InAcquire, InRelease
<1>7. Len(stack'[c]) = Len(stack[c]) /\ Top(c)' = f
  BY <1>4, <1>5, Gone, SMTT(30)
<1>8. FlagOK(c)'
  BY <1>0, <1>1, <1>4, <1>5, <1>6, <1>7 DEF FlagOK
<1> QED
  BY <1>4, <1>5, <1>6, <1>8, WithinCall, SMTT(30) DEF Inv, TypeOK

\* Locks of the code are locks.
LEMMA EngagedType ==
  ASSUME NEW f \in Frames, FrameOK(f)
  PROVE  /\ f.has \subseteq Lock /\ Engaged(f) \subseteq Lock
         /\ f.calls # <<>> => Head(f.calls) \in Ops /\ Its(f) \in Lock
<1>1. f.has \subseteq Lock /\ f.calls \in Seq(Ops)
  BY DEF Frames
<1>2. f.calls # <<>> => Head(f.calls) \in Ops
  BY <1>1
<1>3. f.calls # <<>> => Its(f) \in Lock
  BY <1>2, SMTT(30) DEF Its, Ops
<1> QED
  BY <1>1, <1>2, <1>3 DEF Engaged, FrameOK

\* The locks, after a step of c that leaves it with f.
LEMMA NewLocks ==
  ASSUME Inv, NEW c \in CPU, NEW f \in Frames, GoOn(c, f), FrameOK(f), FlagOK(c)',
         UNCHANGED spinpanic, flag' \in [CPU -> BOOLEAN], ncli' \in [CPU -> Nat],
         UNCHANGED intena,
         \A d \in CPU \ {c} : flag'[d] = flag[d] /\ ncli'[d] = ncli[d],
         locked' \in [Lock -> BOOLEAN], owner' \in [Lock -> CPU \cup {NoCPU}],
         \A l \in f.has : owner'[l] = c,
         \A l \in Lock : owner'[l] = c => l \in f.has,
         \A d \in CPU \ {c}, l \in Lock :
           /\ owner'[l] = d <=> owner[l] = d
           /\ l \in Engaged(Top(d)) => l \notin Engaged(f) /\ locked'[l],
         \A l \in Engaged(f) : locked'[l]
  PROVE  Inv'
<1>1. /\ stack' \in [CPU -> Seq(Frames)] /\ Top(c)' = f
      /\ \A d \in CPU \ {c} : stack'[d] = stack[d] /\ Top(d)' = Top(d)
  BY Gone, SMTT(30)
<1>2. TypeOK' /\ ~spinpanic'
  BY <1>1, SMTT(30) DEF Inv, TypeOK
<1>3. \A d \in CPU : StackOK(d)' /\ FlagOK(d)'
  BY <1>1, SameCpu, OtherCpu, ZenonT(30) DEF Inv
<1>4. /\ Top(c)'.has = f.has /\ Engaged(Top(c))' = Engaged(f)
      /\ \A d \in CPU \ {c} : Top(d)'.has = Top(d).has /\ Engaged(Top(d))' = Engaged(Top(d))
  BY <1>1, Zenon
<1>5. \A d \in CPU : Top(d).has \subseteq Lock /\ Engaged(Top(d)) \subseteq Lock
  BY TopFrame, EngagedType, Zenon
<1>6. \A d \in CPU : \A l \in Top(d)'.has : owner'[l] = d
  <2> SUFFICES ASSUME NEW d \in CPU, NEW l \in Top(d)'.has PROVE owner'[l] = d
    BY SMTT(30)
  <2>1. CASE d = c
    BY <1>4, <2>1, SMTT(30)
  <2>2. CASE d # c
    BY <1>4, <1>5, <2>2, SMTT(30) DEF Inv, LocksOK
  <2> QED
    BY <2>1, <2>2, SMTT(30)
<1>7. \A d \in CPU, l \in Lock : owner'[l] = d => l \in Top(d)'.has
  BY <1>4, SMTT(30) DEF Inv, LocksOK
<1>8. \A d \in CPU : \A l \in Engaged(Top(d))' : locked'[l]
  <2> SUFFICES ASSUME NEW d \in CPU, NEW l \in Engaged(Top(d))' PROVE locked'[l]
    BY SMTT(30)
  <2>1. CASE d = c
    BY <1>4, <2>1, SMTT(30)
  <2>2. CASE d # c
    BY <1>4, <1>5, <2>2, SMTT(30)
  <2> QED
    BY <2>1, <2>2, SMTT(30)
<1>9. \A d, k \in CPU : \A l \in Engaged(Top(d))' \cap Engaged(Top(k))' : d = k
  <2> SUFFICES ASSUME NEW d \in CPU, NEW k \in CPU,
                      NEW l \in Engaged(Top(d))' \cap Engaged(Top(k))', d # k
               PROVE  FALSE
    BY SMTT(30)
  <2>1. CASE d # c /\ k # c
    BY <1>4, <2>1, SMTT(30) DEF Inv, LocksOK
  <2>2. CASE d = c
    BY <1>4, <1>5, <2>2, SMTT(30)
  <2>3. CASE k = c
    BY <1>4, <1>5, <2>3, SMTT(30)
  <2> QED
    BY <2>1, <2>2, <2>3, SMTT(30)
<1> QED
  BY <1>2, <1>3, <1>6, <1>7, <1>8, <1>9, SMTT(30) DEF Inv, LocksOK

\* acquire's xchg keeps the invariant: it takes a lock nobody holds.
LEMMA AcquireXchgInv ==
  ASSUME Inv, NEW c \in CPU, AcquireXchg(c)
  PROVE  Inv'
<1> DEFINE f == [Top(c) EXCEPT !.at = "own"]
           l == TheLock(c)
<1>0. /\ Top(c) \in Frames /\ FrameOK(Top(c)) /\ FlagOK(c)
      /\ locked \in [Lock -> BOOLEAN]
  BY TopFrame DEF Inv, TypeOK
<1>1. /\ Top(c).calls # <<>> /\ Head(Top(c).calls).op = "acquire" /\ Top(c).at = "spin"
      /\ GoOn(c, f) /\ UNCHANGED <<owner, flag, ncli, intena, spinpanic>>
      /\ ~locked[l] /\ locked' = [locked EXCEPT ![l] = TRUE]
  BY DEF AcquireXchg, Calls, MoveTo
<1>2. l \in Lock /\ Its(Top(c)) = l
  BY <1>0, <1>1, EngagedType DEF TheLock, Its
<1>3. f \in Frames /\ f.has = Top(c).has /\ f.calls = Top(c).calls /\ f.at = "own"
  BY <1>0, SMTT(30) DEF Frames, InAcquire
<1> HIDE DEF f, l
<1>4. FrameOK(f) /\ Depth(f) = Depth(Top(c))
  BY <1>0, <1>1, <1>3 DEF FrameOK, Had, Depth, Counted, InAcquire, InRelease
<1>5. Engaged(Top(c)) = Top(c).has /\ Engaged(f) = Top(c).has \cup {l}
  BY <1>1, <1>2, <1>3, SMTT(30) DEF Engaged, Its
<1>6. Len(stack'[c]) = Len(stack[c]) /\ Top(c)' = f
  BY <1>1, <1>3, Gone, SMTT(30)
<1>7. FlagOK(c)'
  BY <1>0, <1>1, <1>3, <1>4, <1>6, SMTT(30) DEF FlagOK
<1>8. locked' \in [Lock -> BOOLEAN] /\ \A k \in Lock : locked[k] => locked'[k]
  BY <1>0, <1>1, Zenon
<1>9. \A k \in Engaged(f) : locked'[k]
  <2>1. Engaged(f) \subseteq Lock
    BY <1>3, <1>4, EngagedType, SMTT(30)
  <2>2. \A k \in Top(c).has : locked[k]
    BY <1>5, SMTT(30) DEF Inv, LocksOK
  <2>3. locked'[l]
    BY <1>0, <1>1, <1>2
  <2> QED
    BY <2>1, <2>2, <2>3, <1>5, <1>8
<1>10. \A d \in CPU \ {c}, k \in Lock :
         k \in Engaged(Top(d)) => k \notin Engaged(f) /\ locked'[k]
  <2> SUFFICES ASSUME NEW d \in CPU \ {c}, NEW k \in Lock, k \in Engaged(Top(d))
               PROVE  k \notin Engaged(f) /\ locked'[k]
    BY SMTT(30)
  <2>1. locked[k] /\ k \notin Engaged(Top(c))
    BY SMTT(30) DEF Inv, LocksOK
  <2> QED
    BY <2>1, <1>1, <1>5, <1>8
<1>11. /\ \A k \in f.has : owner'[k] = c
       /\ \A k \in Lock : owner'[k] = c => k \in f.has
       /\ owner' \in [Lock -> CPU \cup {NoCPU}]
  BY <1>1, <1>3, SMTT(30) DEF Inv, LocksOK, TypeOK
<1> QED
  BY <1>1, <1>3, <1>4, <1>7, <1>8, <1>9, <1>10, <1>11, NewLocks, ZenonT(30) DEF Inv, TypeOK

\* acquire's recording of its owner keeps the invariant.
LEMMA AcquireOwnInv ==
  ASSUME Inv, NEW c \in CPU, AcquireOwn(c), NoCPU \notin CPU
  PROVE  Inv'
<1> DEFINE l == TheLock(c)
           f == [Top(c) EXCEPT !.at = "call", !.calls = Tail(Top(c).calls),
                               !.has = Top(c).has \cup {l}]
<1>0. /\ Top(c) \in Frames /\ FrameOK(Top(c)) /\ FlagOK(c)
      /\ Top(c).calls \in Seq(Ops) /\ owner \in [Lock -> CPU \cup {NoCPU}]
  BY TopFrame DEF Inv, TypeOK
<1>1. /\ Top(c).calls # <<>> /\ Head(Top(c).calls).op = "acquire" /\ Top(c).at = "own"
      /\ GoOn(c, f) /\ UNCHANGED <<locked, flag, ncli, intena, spinpanic>>
      /\ owner' = [owner EXCEPT ![l] = c]
  BY DEF AcquireOwn, Calls, Return
<1>2. l \in Lock /\ Its(Top(c)) = l
  BY <1>0, <1>1, EngagedType DEF TheLock, Its
<1>3. /\ f \in Frames /\ f.has = Top(c).has \cup {l}
      /\ f.calls = Tail(Top(c).calls) /\ f.at = "call"
  <2> HIDE DEF l
  <2>1. Tail(Top(c).calls) \in Seq(Ops) /\ Top(c).has \cup {l} \in SUBSET Lock
    BY <1>0, <1>1, <1>2 DEF Frames
  <2> QED
    BY <1>0, <2>1, Zenon DEF Frames
<1> HIDE DEF f
<1>4. l \notin Top(c).has /\ Disciplined(f.calls, f.has)
  <2>1. Disciplined(Top(c).calls, Top(c).has)
    BY <1>0, <1>1 DEF FrameOK, Had, InRelease
  <2>2. /\ Head(Top(c).calls).lock \notin Top(c).has
        /\ Disciplined(Tail(Top(c).calls), Top(c).has \cup {Head(Top(c).calls).lock})
    BY <2>1, <1>0, <1>1, NextCall, Zenon
  <2> QED
    BY <2>2, <1>3, Zenon DEF TheLock
<1> HIDE DEF l
<1>5. FrameOK(f) /\ Depth(f) = Depth(Top(c))
  <2>1. IsFiniteSet(Top(c).has)
    BY <1>0 DEF FrameOK
  <2>2. IsFiniteSet(f.has) /\ Cardinality(f.has) = Cardinality(Top(c).has) + 1
    BY <2>1, <1>3, <1>4, OneMore, SMTT(30)
  <2>3. Cardinality(Top(c).has) \in Nat
    BY <2>1, <1>0, NoDepth, SMTT(30)
  <2> QED
    BY <1>1, <1>3, <1>4, <2>2, <2>3, SMTT(30)
       DEF FrameOK, Had, Depth, Counted, InAcquire, InRelease
<1>6. Engaged(f) = Engaged(Top(c)) /\ Engaged(f) = f.has
  BY <1>1, <1>2, <1>3, SMTT(30) DEF Engaged
<1>7. Len(stack'[c]) = Len(stack[c]) /\ Top(c)' = f
  BY <1>1, <1>3, Gone, SMTT(30)
<1>8. FlagOK(c)'
  BY <1>0, <1>1, <1>3, <1>5, <1>7, SMTT(30) DEF FlagOK
<1>9. /\ \A k \in Engaged(f) : locked'[k]
      /\ \A d \in CPU \ {c}, k \in Lock :
           k \in Engaged(Top(d)) => k \notin Engaged(f) /\ locked'[k]
  BY <1>1, <1>6, ZenonT(30) DEF Inv, LocksOK
<1>10. /\ owner' \in [Lock -> CPU \cup {NoCPU}] /\ owner'[l] = c
       /\ \A k \in Lock \ {l} : owner'[k] = owner[k]
  BY <1>0, <1>1, <1>2, SMTT(30)
<1>11. \A d \in CPU : owner[l] # d
  <2>1. \A d \in CPU : l \notin Top(d).has
    <3> SUFFICES ASSUME NEW d \in CPU, l \in Top(d).has, d # c PROVE FALSE
      BY <1>4, Zenon
    <3>1. l \in Engaged(Top(d)) /\ l \in Engaged(Top(c))
      BY <1>3, <1>6, SMTT(30) DEF Engaged
    <3> QED
      BY <3>1 DEF Inv, LocksOK
  <2> QED
    BY <2>1, <1>2, Zenon DEF Inv, LocksOK
<1>12. /\ \A k \in f.has : owner'[k] = c
       /\ \A k \in Lock : owner'[k] = c => k \in f.has
       /\ \A d \in CPU \ {c}, k \in Lock : owner'[k] = d <=> owner[k] = d
  <2>1. f.has \subseteq Lock
    BY <1>3 DEF Frames
  <2> QED
    BY <2>1, <1>3, <1>10, <1>11 DEF Inv, LocksOK
<1> QED
  BY <1>1, <1>3, <1>5, <1>8, <1>9, <1>10, <1>12, NewLocks, ZenonT(30) DEF Inv, TypeOK

\* release finds that its CPU has the lock.
LEMMA ReleaseOwnInv ==
  ASSUME Inv, NEW c \in CPU, ReleaseOwn(c), NoCPU \notin CPU
  PROVE  Inv'
<1> DEFINE l == TheLock(c)
           f == [Top(c) EXCEPT !.at = "xchg", !.has = Top(c).has \ {l}]
<1>0. /\ Top(c) \in Frames /\ FrameOK(Top(c)) /\ FlagOK(c)
      /\ Top(c).calls \in Seq(Ops) /\ owner \in [Lock -> CPU \cup {NoCPU}]
  BY TopFrame DEF Inv, TypeOK
<1>1. Top(c).calls # <<>> /\ Head(Top(c).calls).op = "release" /\ Top(c).at = "call"
  BY DEF ReleaseOwn, Calls
<1>2. l \in Lock /\ Its(Top(c)) = l
  BY <1>0, <1>1, EngagedType, SMTT(30) DEF TheLock, Its
<1>3. l \in Top(c).has /\ Disciplined(Top(c).calls, Top(c).has)
  <2>1. Disciplined(Top(c).calls, Top(c).has)
    BY <1>0, <1>1, SMTT(30) DEF FrameOK, Had, InRelease
  <2>2. Head(Top(c).calls).lock \in Top(c).has
    BY <2>1, <1>0, <1>1, NextCall, Zenon
  <2> QED
    BY <2>1, <2>2 DEF TheLock
<1>4. holding(c, l)
  <2>1. l \in Engaged(Top(c))
    BY <1>3 DEF Engaged
  <2> QED
    BY <2>1, <1>3, SMTT(30) DEF holding, Inv, LocksOK
<1>5. /\ GoOn(c, f) /\ UNCHANGED <<locked, flag, ncli, intena, spinpanic>>
      /\ owner' = [owner EXCEPT ![l] = NoCPU]
  BY <1>4 DEF ReleaseOwn, OwnerCleared
<1> HIDE DEF l
<1>6. /\ f \in Frames /\ f.has = Top(c).has \ {l}
      /\ f.calls = Top(c).calls /\ f.at = "xchg" /\ Its(f) = l
  <2>1. Top(c).has \ {l} \in SUBSET Lock
    BY <1>0, SMTT(30) DEF Frames
  <2> QED
    BY <1>0, <1>2, <2>1, Zenon DEF Frames, InRelease, Its
<1> HIDE DEF f
<1>7. FrameOK(f) /\ Depth(f) = Depth(Top(c))
  <2>1. IsFiniteSet(Top(c).has)
    BY <1>0 DEF FrameOK
  <2>2. /\ IsFiniteSet(f.has) /\ Cardinality(f.has) \in Nat
        /\ Cardinality(Top(c).has) = Cardinality(f.has) + 1
    BY <2>1, <1>3, <1>6, OneLess, SMTT(30)
  <2>3. Depth(f) = Depth(Top(c))
    BY <1>1, <1>6, <2>2 DEF Depth, Counted
  <2>4. Had(f) = Top(c).has
    BY <1>3, <1>6, SMTT(30) DEF Had, InRelease
  <2> QED
    BY <1>1, <1>3, <1>6, <2>2, <2>3, <2>4, SMTT(30) DEF FrameOK, InAcquire
<1>8. Engaged(f) = Engaged(Top(c))
  BY <1>1, <1>3, <1>6, SMTT(30) DEF Engaged
<1>9. Len(stack'[c]) = Len(stack[c]) /\ Top(c)' = f
  BY <1>5, <1>6, Gone, SMTT(30)
<1>10. FlagOK(c)'
  BY <1>0, <1>1, <1>5, <1>6, <1>7, <1>9 DEF FlagOK
<1>11. /\ \A k \in Engaged(f) : locked'[k]
       /\ \A d \in CPU \ {c}, k \in Lock :
            k \in Engaged(Top(d)) => k \notin Engaged(f) /\ locked'[k]
  BY <1>5, <1>8, Zenon DEF Inv, LocksOK
<1>12. /\ owner' \in [Lock -> CPU \cup {NoCPU}] /\ owner'[l] = NoCPU
       /\ \A k \in Lock \ {l} : owner'[k] = owner[k]
  BY <1>0, <1>2, <1>5, SMTT(30)
<1>13. owner[l] = c /\ \A k \in Top(c).has : owner[k] = c
  BY <1>3 DEF Inv, LocksOK
<1>14. /\ \A k \in f.has : owner'[k] = c
       /\ \A k \in Lock : owner'[k] = c => k \in f.has
       /\ \A d \in CPU \ {c}, k \in Lock : owner'[k] = d <=> owner[k] = d
  <2>1. f.has \subseteq Lock
    BY <1>6, SMTT(30) DEF Frames
  <2>2. \A k \in Lock : owner[k] = c => k \in Top(c).has
    BY DEF Inv, LocksOK
  <2> QED
    BY <2>1, <2>2, <1>6, <1>12, <1>13
<1> QED
  BY <1>5, <1>6, <1>7, <1>10, <1>11, <1>12, <1>14, NewLocks, Zenon DEF Inv, TypeOK

\* release's xchg keeps the invariant: the lock leaves its holder's set.
LEMMA ReleaseXchgInv ==
  ASSUME Inv, NEW c \in CPU, ReleaseXchg(c)
  PROVE  Inv'
<1> DEFINE f == [Top(c) EXCEPT !.at = "popcli"]
           l == TheLock(c)
<1>0. /\ Top(c) \in Frames /\ FrameOK(Top(c)) /\ FlagOK(c)
      /\ locked \in [Lock -> BOOLEAN]
  BY TopFrame DEF Inv, TypeOK
<1>1. /\ Top(c).calls # <<>> /\ Head(Top(c).calls).op = "release" /\ Top(c).at = "xchg"
      /\ GoOn(c, f) /\ UNCHANGED <<owner, flag, ncli, intena, spinpanic>>
      /\ locked' = [locked EXCEPT ![l] = FALSE]
  BY DEF ReleaseXchg, Calls, MoveTo
<1>2. l \in Lock /\ Its(Top(c)) = l
  BY <1>0, <1>1, EngagedType DEF TheLock, Its
<1>3. f \in Frames /\ f.has = Top(c).has /\ f.calls = Top(c).calls /\ f.at = "popcli"
  BY <1>0, SMTT(30) DEF Frames, InRelease
<1> HIDE DEF f, l
<1>4. FrameOK(f) /\ Depth(f) = Depth(Top(c)) /\ l \notin f.has
  BY <1>0, <1>1, <1>2, <1>3, SMTT(30)
     DEF FrameOK, Had, Its, Depth, Counted, InAcquire, InRelease
<1>5. Engaged(Top(c)) = f.has \cup {l} /\ Engaged(f) = f.has
  BY <1>1, <1>2, <1>3, SMTT(30) DEF Engaged
<1>6. Len(stack'[c]) = Len(stack[c]) /\ Top(c)' = f
  BY <1>1, <1>3, Gone, SMTT(30)
<1>7. FlagOK(c)'
  BY <1>0, <1>1, <1>3, <1>4, <1>6, SMTT(30) DEF FlagOK
<1>8. locked' \in [Lock -> BOOLEAN] /\ \A k \in Lock : k # l /\ locked[k] => locked'[k]
  BY <1>0, <1>1, ZenonT(30)
<1>9. \A k \in Engaged(f) : locked'[k]
  <2>1. f.has \subseteq Lock
    BY <1>3, <1>4, EngagedType, SMTT(30)
  <2>2. \A k \in f.has : locked[k]
    BY <1>5, SMTT(30) DEF Inv, LocksOK
  <2> QED
    BY <2>1, <2>2, <1>4, <1>5, <1>8, SMTT(30)
<1>10. \A d \in CPU \ {c}, k \in Lock :
         k \in Engaged(Top(d)) => k \notin Engaged(f) /\ locked'[k]
  <2> SUFFICES ASSUME NEW d \in CPU \ {c}, NEW k \in Lock, k \in Engaged(Top(d))
               PROVE  k \notin Engaged(f) /\ locked'[k]
    OBVIOUS
  <2>1. locked[k] /\ k \notin Engaged(Top(c))
    BY DEF Inv, LocksOK
  <2> QED
    BY <2>1, <1>5, <1>8, SMTT(30)
<1>11. /\ \A k \in f.has : owner'[k] = c
       /\ \A k \in Lock : owner'[k] = c => k \in f.has
       /\ owner' \in [Lock -> CPU \cup {NoCPU}]
  BY <1>1, <1>3 DEF Inv, LocksOK, TypeOK
<1> QED
  BY <1>1, <1>3, <1>4, <1>7, <1>8, <1>9, <1>10, <1>11, NewLocks, Zenon DEF Inv, TypeOK

\* popcli finds interrupts off and ncli above 0; it turns interrupts on when the
\* process, and not a handler, leaves its last section.
LEMMA PopcliInv ==
  ASSUME Inv, NEW c \in CPU, Popcli(c)
  PROVE  Inv'
<1> DEFINE f == [Top(c) EXCEPT !.at = "call", !.calls = Tail(Top(c).calls),
                               !.has = Top(c).has]
<1>0. /\ Top(c) \in Frames /\ FrameOK(Top(c)) /\ FlagOK(c) /\ Top(c).calls \in Seq(Ops)
      /\ ncli \in [CPU -> Nat] /\ flag \in [CPU -> BOOLEAN] /\ intena \in [CPU -> BOOLEAN]
  BY TopFrame, SMTT(30) DEF Inv, TypeOK
<1>1. Top(c).calls # <<>> /\ Head(Top(c).calls).op = "release" /\ Top(c).at = "popcli"
  BY SMTT(30) DEF Popcli, Calls
<1>2. /\ Cardinality(Top(c).has) \in Nat
      /\ Cardinality(Top(c).has) = 0 <=> Top(c).has = {}
      /\ ncli[c] = Cardinality(Top(c).has) + 1
  <2>1. IsFiniteSet(Top(c).has)
    BY <1>0 DEF FrameOK
  <2>2. Cardinality(Top(c).has) \in Nat /\ (Cardinality(Top(c).has) = 0 <=> Top(c).has = {})
    BY <2>1, FS_CardinalityType, FS_EmptySet, Zenon
  <2> QED
    BY <2>2, <1>0, <1>1, SMTT(30) DEF FlagOK, Depth, Counted
<1>3. ncli[c] # 0 /\ ncli[c] >= 1
  BY <1>2
<1>4. ~flag[c] /\ intena[c] = (Len(stack[c]) = 1)
  BY <1>0, <1>3, Zenon DEF FlagOK
<1>5. /\ GoOn(c, f) /\ UNCHANGED <<locked, owner, intena, spinpanic>>
      /\ ncli' = [ncli EXCEPT ![c] = ncli[c] - 1]
      /\ flag' = [flag EXCEPT ![c] = Sti(c)]
  BY <1>0, <1>3, <1>4 DEF Popcli, Return
<1>6. /\ f \in Frames /\ f.has = Top(c).has
      /\ f.calls = Tail(Top(c).calls) /\ f.at = "call"
  <2>1. Tail(Top(c).calls) \in Seq(Ops)
    BY <1>0, <1>1, SMTT(30)
  <2> QED
    BY <1>0, <2>1, ZenonT(30) DEF Frames
<1> HIDE DEF f
<1>7. FrameOK(f) /\ Engaged(f) = Engaged(Top(c))
  <2> DEFINE l == Head(Top(c).calls).lock
  <2>1. /\ Disciplined(Top(c).calls, Top(c).has \cup {l}) /\ l \notin Top(c).has
        /\ IsFiniteSet(Top(c).has)
    BY <1>0, <1>1 DEF FrameOK, Had, Its, InRelease
  <2>2. Disciplined(Tail(Top(c).calls), (Top(c).has \cup {l}) \ {l})
    BY <2>1, <1>0, <1>1, NextCall, Zenon
  <2>3. (Top(c).has \cup {l}) \ {l} = Top(c).has
    BY <2>1, SMTT(30)
  <2>4. Disciplined(f.calls, f.has) /\ Had(f) = f.has
    BY <2>2, <2>3, <1>6, SMTT(30) DEF Had, InRelease
  <2> QED
    BY <2>1, <2>4, <1>1, <1>6, SMTT(30) DEF FrameOK, Engaged, InAcquire, InRelease
<1>8. Len(stack'[c]) = Len(stack[c]) /\ Top(c)' = f
  BY <1>5, <1>6, Gone, SMTT(30)
<1>9. /\ ncli' \in [CPU -> Nat] /\ ncli'[c] = Cardinality(f.has)
      /\ flag' \in [CPU -> BOOLEAN] /\ flag'[c] = Sti(c)
      /\ \A d \in CPU \ {c} : flag'[d] = flag[d] /\ ncli'[d] = ncli[d]
  <2>1. Sti(c) \in BOOLEAN
    BY SMTT(30) DEF Sti
  <2>2. ncli[c] - 1 \in Nat /\ ncli[c] - 1 = Cardinality(f.has)
    BY <1>2, <1>6, SMTT(30)
  <2> QED
    BY <2>1, <2>2, <1>0, <1>5
<1>10. FlagOK(c)'
  <2>1. ncli'[c] = Depth(f)
    BY <1>2, <1>6, <1>9, SMTT(30) DEF Depth, Counted
  <2>2. ncli[c] = 1 <=> ncli'[c] = 0
    BY <1>2, <1>6, <1>9
  <2>3. ncli'[c] = 0 => flag'[c] = (Len(stack[c]) = 1)
    BY <2>2, <1>4, <1>9, Zenon DEF Sti
  <2>4. ncli'[c] # 0 => ~flag'[c]
    BY <2>2, <1>9, Zenon DEF Sti
  <2> QED
    BY <2>1, <2>3, <2>4, <1>4, <1>5, <1>6, <1>8, SMTT(30) DEF FlagOK
<1> QED
  BY <1>5, <1>6, <1>7, <1>9, <1>10, WithinCall, Zenon DEF Inv, TypeOK
-----------------------------------------------------------------------------
(* Entry into the kernel, and handlers.                                    *)

\* Code begins without locks.
LEMMA NewCode ==
  ASSUME NEW code \in Seq(Ops), Disciplined(code, {})
  PROVE  /\ Code(code) \in Frames /\ FrameOK(Code(code))
         /\ Code(code).has = {} /\ Engaged(Code(code)) = {} /\ Depth(Code(code)) = 0
         /\ Code(code).at = "call"
<1>1. IsFiniteSet({}) /\ Cardinality({}) = 0
  BY FS_EmptySet, Zenon
<1> QED
  BY <1>1 DEF Code, Frames, FrameOK, Had, Engaged, Depth, Counted, InAcquire, InRelease

\* A CPU with nothing to do is at the end of code, without locks.
LEMMA IdleCode ==
  /\ Idle \in Frames /\ FrameOK(Idle) /\ Idle.has = {} /\ Engaged(Idle) = {}
  /\ Depth(Idle) = 0 /\ Idle.at = "call"
<1> DEFINE none == <<>>
           h == [i \in 1..Len(none) + 1 |-> {}]
<1>1. none \in Seq(Ops) /\ Len(none) = 0
  OBVIOUS
<1>2. h \in [1..Len(none) + 1 -> SUBSET Lock] /\ h[1] = {} /\ h[Len(none) + 1] = {}
  BY <1>1
<1>3. 1..Len(none) = {}
  BY <1>1, SMTT(30)
<1> HIDE DEF h, none
<1>4. Disciplined(none, {})
  BY <1>2, <1>3, SMTT(30) DEF Disciplined
<1>5. Idle = Code(none)
  BY DEF Idle, none
<1> QED
  BY <1>1, <1>4, <1>5, NewCode, ZenonT(30)

\* A CPU that starts a piece of code keeps the invariant.
LEMMA EnterInv ==
  ASSUME Inv, NEW c \in CPU, NEW code \in Seq(Ops), Disciplined(code, {}), Enter(c, code)
  PROVE  Inv'
<1> DEFINE f == Code(code)
<1>0. /\ f \in Frames /\ FrameOK(f) /\ f.has = {} /\ Engaged(f) = {}
      /\ Depth(f) = 0 /\ f.at = "call"
  BY NewCode, SMTT(30)
<1> HIDE DEF f
<1>1. /\ GoOn(c, f) /\ UNCHANGED <<locked, owner, flag, ncli, intena, spinpanic>>
      /\ stack[c] = <<Idle>>
  BY SMTT(30) DEF Enter, f
<1>2. /\ Top(c).has = {} /\ Engaged(Top(c)) = {} /\ Depth(Top(c)) = 0
      /\ Top(c).at = "call"
  <2>1. Top(c) = Idle
    BY <1>1, SMTT(30) DEF Top
  <2> QED
    BY <2>1, IdleCode, SMTT(30)
<1>3. Len(stack'[c]) = Len(stack[c]) /\ Top(c)' = f
  BY <1>0, <1>1, Gone, Zenon
<1>4. FlagOK(c)'
  <2>1. FlagOK(c)
    BY DEF Inv
  <2> QED
    BY <2>1, <1>0, <1>1, <1>2, <1>3, SMTT(30) DEF FlagOK
<1> QED
  BY <1>0, <1>1, <1>2, <1>4, WithinCall, Zenon DEF Inv, TypeOK

\* Stacks, of a process and of a handler on top of it.
LEMMA Appended ==
  ASSUME NEW s \in Seq(Frames), NEW f \in Frames
  PROVE  /\ Append(s, f) \in Seq(Frames) /\ Len(Append(s, f)) = Len(s) + 1
         /\ Append(s, f)[Len(s) + 1] = f
         /\ \A i \in 1..Len(s) : Append(s, f)[i] = s[i]
OBVIOUS

\* A frame pushed on a stack is its last, and the ones below are untouched.
LEMMA Pushed ==
  ASSUME NEW s \in Seq(Frames), Len(s) = 1, NEW f \in Frames
  PROVE  /\ Append(s, f) \in Seq(Frames) /\ Len(Append(s, f)) = 2
         /\ Append(s, f)[1] = s[1] /\ Append(s, f)[2] = f
<1>1. /\ Append(s, f) \in Seq(Frames) /\ Len(Append(s, f)) = Len(s) + 1
      /\ Append(s, f)[Len(s) + 1] = f
      /\ \A i \in 1..Len(s) : Append(s, f)[i] = s[i]
  BY Appended, Zenon
<1>2. Len(s) + 1 = 2 /\ 1 \in 1..Len(s)
  OBVIOUS
<1> QED
  BY <1>1, <1>2, Zenon

\* The stack left by a pop is its frames but the last.
LEMMA Popped ==
  ASSUME NEW s \in Seq(Frames), Len(s) = 2
  PROVE  /\ 1 \in 1..Len(s) /\ s[1] \in Frames
         /\ SubSeq(s, 1, Len(s) - 1) \in Seq(Frames)
         /\ Len(SubSeq(s, 1, Len(s) - 1)) = 1 /\ SubSeq(s, 1, Len(s) - 1)[1] = s[1]
OBVIOUS

\* Only a process, out of all sections, is interrupted.
LEMMA InterruptInv ==
  ASSUME Inv, NEW c \in CPU, NEW code \in Seq(Ops), Disciplined(code, {}),
         Interrupt(c, code)
  PROVE  Inv'
<1> DEFINE f == Code(code)
<1>0. /\ f \in Frames /\ FrameOK(f) /\ f.has = {} /\ Engaged(f) = {}
      /\ Depth(f) = 0 /\ f.at = "call"
  BY NewCode
<1> HIDE DEF f
<1>1. /\ flag[c] /\ flag' = [flag EXCEPT ![c] = FALSE]
      /\ stack' = [stack EXCEPT ![c] = Append(stack[c], f)]
      /\ UNCHANGED <<locked, owner, ncli, intena, spinpanic>>
  BY SMTT(30) DEF Interrupt, f
<1>2. /\ Top(c) \in Frames /\ FrameOK(Top(c)) /\ FlagOK(c) /\ StackOK(c)
      /\ stack \in [CPU -> Seq(Frames)] /\ flag \in [CPU -> BOOLEAN]
  BY TopFrame DEF Inv, TypeOK
<1>3. ncli[c] = 0 /\ Len(stack[c]) = 1 /\ Top(c).at # "count"
  BY <1>1, <1>2, Zenon DEF FlagOK
<1>4. Top(c).has = {} /\ ~Counted(Top(c))
  BY <1>2, <1>3, NoDepth, Zenon DEF FlagOK, FrameOK
<1>5. Top(c).at \in {"call", "cli"}
  BY <1>2, <1>3, <1>4 DEF Frames, Counted, InAcquire, InRelease
<1>6. Top(c).at = "cli" => Top(c).eflags
  BY <1>2, <1>3, Zenon DEF FlagOK
<1>7. Top(c) = stack[c][1]
  BY <1>3, SMTT(30) DEF Top
<1>8. /\ stack' \in [CPU -> Seq(Frames)] /\ Len(stack'[c]) = 2
      /\ stack'[c][1] = Top(c) /\ stack'[c][2] = f
      /\ \A d \in CPU \ {c} : stack'[d] = stack[d]
  <2> DEFINE s == Append(stack[c], f)
  <2>1. s \in Seq(Frames) /\ Len(s) = 2 /\ s[1] = stack[c][1] /\ s[2] = f
    <3>1. stack[c] \in Seq(Frames)
      BY <1>2
    <3> QED
      BY <3>1, <1>0, <1>3, Pushed
  <2>2. stack' = [stack EXCEPT ![c] = s]
    BY <1>1, SMTT(30)
  <2> HIDE DEF s
  <2> QED
    BY <2>1, <2>2, <1>2, <1>7, SMTT(30)
<1>9. Top(c)' = f /\ \A d \in CPU \ {c} : Top(d)' = Top(d)
  BY <1>8, SMTT(30) DEF Top
<1>10. TypeOK' /\ ~spinpanic'
  BY <1>1, <1>2, <1>8, SMTT(30) DEF Inv, TypeOK
<1>11. StackOK(c)'
  <2>1. \A i \in 1..2 : FrameOK(stack'[c][i])
    BY <1>0, <1>2, <1>8
  <2> QED
    BY <2>1, <1>4, <1>5, <1>6, <1>8, SMTT(30) DEF StackOK
<1>12. FlagOK(c)'
  <2>1. ~flag'[c] /\ ncli'[c] = 0
    BY <1>1, <1>2, <1>3, SMTT(30)
  <2>2. flag'[c] = FALSE /\ Len(stack'[c]) # 1
    BY <2>1, <1>1, <1>2, <1>8, SMTT(30)
  <2> QED
    BY <2>1, <2>2, <1>0, <1>9, Zenon DEF FlagOK
<1>13. \A d \in CPU \ {c} : StackOK(d)' /\ FlagOK(d)'
  <2> TAKE d \in CPU \ {c}
  <2>1. flag'[d] = flag[d]
    BY <1>1, <1>2, SMTT(30)
  <2> QED
    BY <2>1, <1>1, <1>8, <1>9, OtherCpu, ZenonT(30) DEF Inv
<1>14. Engaged(Top(c)) = {}
  BY <1>4, <1>5 DEF Engaged
<1>15. LocksOK'
  <2>1. \A d \in CPU : Top(d)'.has = Top(d).has /\ Engaged(Top(d)') = Engaged(Top(d))
    BY <1>0, <1>4, <1>9, <1>14, Zenon
  <2> QED
    BY <2>1, <1>1, SameLocks DEF Inv
<1> QED
  BY <1>10, <1>11, <1>12, <1>13, <1>15, Zenon DEF Inv

\* A handler that returns has left its sections, and with it interrupts are on.
LEMMA IretInv ==
  ASSUME Inv, NEW c \in CPU, Iret(c)
  PROVE  Inv'
<1> DEFINE f == stack[c][1]
<1>1. /\ flag' = [flag EXCEPT ![c] = TRUE] /\ Len(stack[c]) > 1 /\ Top(c).calls = <<>>
      /\ stack' = [stack EXCEPT ![c] = SubSeq(stack[c], 1, Len(stack[c]) - 1)]
      /\ UNCHANGED <<locked, owner, ncli, intena, spinpanic>>
  BY SMTT(30) DEF Iret
<1>2. /\ Top(c) \in Frames /\ FrameOK(Top(c)) /\ FlagOK(c) /\ StackOK(c)
      /\ stack \in [CPU -> Seq(Frames)] /\ flag \in [CPU -> BOOLEAN]
  BY TopFrame, SMTT(30) DEF Inv, TypeOK
<1>3. Len(stack[c]) = 2
  BY <1>1, <1>2 DEF StackOK
<1>4. /\ f \in Frames /\ FrameOK(f) /\ f.has = {} /\ f.at \in {"call", "cli"}
      /\ f.at = "cli" => f.eflags
  <2>1. 1 \in 1..Len(stack[c]) /\ stack[c][1] \in Frames
    <3>1. stack[c] \in Seq(Frames)
      BY <1>2
    <3> QED
      BY <3>1, <1>3, Popped
  <2> QED
    BY <2>1, <1>2, <1>3, Zenon DEF StackOK
<1>5. Top(c).at = "call" /\ Top(c).has = {}
  <2>1. Top(c).at = "call"
    BY <1>1, <1>2, SMTT(30) DEF FrameOK
  <2>2. Disciplined(<<>>, Top(c).has)
    BY <2>1, <1>1, <1>2, SMTT(30) DEF FrameOK, Had, InRelease
  <2> QED
    BY <2>1, <2>2, AtEnd, SMTT(30)
<1>6. ncli[c] = 0
  <2>1. Depth(Top(c)) = 0
    BY <1>2, <1>5, NoDepth, Zenon DEF FrameOK, Counted
  <2> QED
    BY <2>1, <1>2, SMTT(30) DEF FlagOK
<1>7. Depth(f) = 0
  BY <1>4, NoDepth, ZenonT(30) DEF FrameOK, Counted
<1>8. /\ stack' \in [CPU -> Seq(Frames)] /\ Len(stack'[c]) = 1 /\ stack'[c][1] = f
      /\ \A d \in CPU \ {c} : stack'[d] = stack[d]
  <2> DEFINE s == SubSeq(stack[c], 1, Len(stack[c]) - 1)
  <2>1. s \in Seq(Frames) /\ Len(s) = 1 /\ s[1] = stack[c][1]
    <3>1. stack[c] \in Seq(Frames)
      BY <1>2
    <3> QED
      BY <3>1, <1>3, Popped
  <2>2. stack' = [stack EXCEPT ![c] = s]
    BY <1>1
  <2> HIDE DEF s
  <2> QED
    BY <2>1, <2>2, <1>2, SMTT(30)
<1> HIDE DEF f
<1>9. Top(c)' = f /\ \A d \in CPU \ {c} : Top(d)' = Top(d)
  BY <1>8, SMTT(30) DEF Top
<1>10. TypeOK' /\ ~spinpanic'
  BY <1>1, <1>2, <1>8, SMTT(30) DEF Inv, TypeOK
<1>11. StackOK(c)'
  BY <1>4, <1>8, SMTT(30) DEF StackOK
<1>12. FlagOK(c)'
  <2>1. flag'[c] /\ ncli'[c] = 0
    BY <1>1, <1>2, <1>6, SMTT(30)
  <2> QED
    BY <2>1, <1>4, <1>7, <1>8, <1>9, Zenon DEF FlagOK
<1>13. \A d \in CPU \ {c} : StackOK(d)' /\ FlagOK(d)'
  <2> TAKE d \in CPU \ {c}
  <2>1. flag'[d] = flag[d]
    BY <1>1, <1>2, SMTT(30)
  <2> QED
    BY <2>1, <1>1, <1>8, <1>9, OtherCpu, ZenonT(30) DEF Inv
<1>14. LocksOK'
  <2>1. Engaged(Top(c)) = {} /\ Engaged(f) = {}
    BY <1>4, <1>5 DEF Engaged
  <2>2. \A d \in CPU : Top(d)'.has = Top(d).has /\ Engaged(Top(d)') = Engaged(Top(d))
    BY <2>1, <1>4, <1>5, <1>9, Zenon
  <2> QED
    BY <2>2, <1>1, SameLocks, SMTT(30) DEF Inv
<1> QED
  BY <1>10, <1>11, <1>12, <1>13, <1>14, Zenon DEF Inv
-----------------------------------------------------------------------------
\* The invariant holds initially: no lock is held and every stack is empty.
LEMMA InitInv ==
  ASSUME SpinInit, SpinAssumption
  PROVE  Inv
<1>1. \A c \in CPU : Len(stack[c]) = 1 /\ stack[c][1] = Idle /\ Top(c) = Idle
  BY Zenon DEF SpinInit, Top
<1>2. /\ Idle \in Frames /\ FrameOK(Idle) /\ Idle.has = {} /\ Engaged(Idle) = {}
      /\ Depth(Idle) = 0 /\ Idle.at = "call"
  BY IdleCode
<1>3. TypeOK
  <2>1. <<Idle>> \in Seq(Frames)
    BY <1>2
  <2> QED
    BY <2>1, Zenon DEF SpinInit, TypeOK
<1>4. \A c \in CPU : StackOK(c) /\ FlagOK(c)
  <2> TAKE c \in CPU
  <2>1. flag[c] = TRUE /\ ncli[c] = 0
    BY SMTT(30) DEF SpinInit
  <2>2. StackOK(c)
    BY <1>1, <1>2 DEF StackOK
  <2>3. FlagOK(c)
    BY <1>1, <1>2, <2>1, Zenon DEF FlagOK
  <2> QED
    BY <2>2, <2>3
<1>5. LocksOK
  BY <1>1, <1>2, SMTT(30) DEF SpinInit, SpinAssumption, LocksOK
<1> QED
  BY <1>3, <1>4, <1>5 DEF Inv, SpinInit

\* Every step of every CPU keeps the invariant.
LEMMA NextInv ==
  ASSUME Inv, SpinAssumption, [SpinNext]_spinvars
  PROVE  Inv'
<1>1. ASSUME NEW c \in CPU, Step(c) PROVE Inv'
  BY <1>1, PushcliReadInv, PushcliCliInv, PushcliCountInv, AcquireTestInv, AcquireXchgInv,
     AcquireOwnInv, ReleaseOwnInv, ReleaseXchgInv, PopcliInv, IretInv, Zenon
     DEF Step, SpinAssumption
<1>2. \A code \in Codes \cup Handlers : code \in Seq(Ops) /\ Disciplined(code, {})
  BY Zenon DEF SpinAssumption, Ops
<1>3. ASSUME NEW c \in CPU, NEW code \in Codes, Enter(c, code) PROVE Inv'
  BY <1>2, <1>3, EnterInv
<1>4. ASSUME NEW c \in CPU, NEW code \in Handlers, Interrupt(c, code) PROVE Inv'
  BY <1>2, <1>4, InterruptInv
<1>5. CASE UNCHANGED spinvars
  <2>1. \A d \in CPU : Top(d)' = Top(d)
    BY <1>5, SMTT(30) DEF spinvars, Top
  <2>2. \A d \in CPU : StackOK(d)' /\ FlagOK(d)'
    BY <1>5, <2>1, OtherCpu, Zenon DEF spinvars, Inv
  <2>3. LocksOK'
    BY <1>5, <2>1, SameLocks, Zenon DEF spinvars, Inv
  <2>4. TypeOK' /\ ~spinpanic'
    BY <1>5, SMTT(30) DEF spinvars, Inv, TypeOK
  <2> QED
    BY <2>2, <2>3, <2>4, SMTT(30) DEF Inv
<1> QED
  BY <1>1, <1>3, <1>4, <1>5 DEF SpinNext

\* What the invariant says of LocksSound.
LEMMA InvSound ==
  ASSUME Inv
  PROVE  LocksSound
<1>1. ASSUME NEW c \in CPU
      PROVE  \A i \in 1..Len(stack[c]) - 1 :
               stack[c][i].has = {} /\ stack[c][i].at \in {"call", "cli"}
  BY SMTT(30) DEF Inv, StackOK
<1>2. ASSUME NEW l \in Lock, NEW c \in CPU, NEW i \in DOMAIN stack[c],
             l \in stack[c][i].has
      PROVE  i = Len(stack[c]) /\ owner[l] = c
  <2>1. i \in 1..Len(stack[c]) /\ Len(stack[c]) \in Nat
    BY TopFrame, SMTT(30)
  <2>2. i = Len(stack[c])
    BY <2>1, <1>1, <1>2
  <2> QED
    BY <2>2, <1>2, SMTT(30) DEF Inv, LocksOK, Top
<1>3. \A l \in Lock, c, d \in CPU : \A i \in DOMAIN stack[c], j \in DOMAIN stack[d] :
        l \in stack[c][i].has \cap stack[d][j].has => c = d /\ i = j
  <2> SUFFICES ASSUME NEW l \in Lock, NEW c \in CPU, NEW d \in CPU,
                      NEW i \in DOMAIN stack[c], NEW j \in DOMAIN stack[d],
                      l \in stack[c][i].has, l \in stack[d][j].has
               PROVE  c = d /\ i = j
    BY Zenon
  <2>1. i = Len(stack[c]) /\ owner[l] = c
    BY <1>2, Zenon
  <2>2. j = Len(stack[d]) /\ owner[l] = d
    BY <1>2, Zenon
  <2> QED
    BY <2>1, <2>2
<1>4. ASSUME NEW c \in CPU, Top(c).at = "call", Top(c).has = {}
      PROVE  flag[c] = (Len(stack[c]) = 1)
  <2>1. Depth(Top(c)) = 0
    BY <1>4, TopFrame, NoDepth, SMTT(30) DEF FrameOK, Counted
  <2> QED
    BY <1>4, <2>1, Zenon DEF Inv, FlagOK
<1> QED
  BY <1>1, <1>3, <1>4, SMTT(30) DEF LocksSound, Inv
-----------------------------------------------------------------------------
\* Whatever the code, spinlock.c keeps its locks: two pieces of code never have
\* the same lock, code that has one is never interrupted, acquire, release and
\* popcli never panic, and interrupts are back on when a process leaves its last
\* section, in whatever order it left them.
THEOREM LocksAreSound == SpinSpec => []LocksSound
<1>1. SpinInit => Inv
  BY LockAssumption, InitInv
<1>2. Inv /\ [SpinNext]_spinvars => Inv'
  BY LockAssumption, NextInv, SMTT(30)
<1>3. Inv => LocksSound
  BY InvSound
<1> QED
  BY <1>1, <1>2, <1>3, PTL DEF SpinSpec
=============================================================================
