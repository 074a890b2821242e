----------------------------- MODULE PipeProofs ------------------------------
(***************************************************************************)
(* Proofs about the pipe, for every size of the buffer, every wrap of the  *)
(* counters that is a multiple of it, and any number of processes: it      *)
(* implements the byte stream of ByteStream, nobody sleeps who could go    *)
(* on, and nobody is inside a pipe that has been freed.                    *)
(*                                                                         *)
(* That the pipe is never over-full has to be known before anything else   *)
(* can be: the code derives how full it is from the difference of two      *)
(* counters that wrap.                                                     *)
(***************************************************************************)
EXTENDS Pipe, SequenceTheorems, TLAPS

Labels == {"user", "write", "read", "wfull", "rempty", "wsleep", "rsleep"}
InRead == {"read", "rempty", "rsleep"}
InWrite == {"write", "wfull", "wsleep"}

\* The types of the variables.
TypeOK ==
  /\ world \in Worlds
  /\ data \in [Index -> Byte]
  /\ nread \in 0..Wrap - 1 /\ nwrite \in 0..Wrap - 1
  /\ readopen \in BOOLEAN /\ writeopen \in BOOLEAN
  /\ rfd \subseteq Proc /\ wfd \subseteq Proc
  /\ pc \in [Proc -> Labels]
  /\ todo \in [Proc -> Seq(Byte)]
  /\ want \in [Proc -> Nat]
  /\ killed \in [Proc -> BOOLEAN]

\* A pipe never holds more than it has room for, although nothing but the
\* difference of the counters says how full it is.
Bounded == Used \in 0..PIPESIZE

\* An end is open while somebody has a descriptor of it, and who is inside a
\* call has the descriptor.
Ends ==
  /\ rfd # {} => readopen
  /\ wfd # {} => writeopen
  /\ \A p \in Proc : pc[p] \in InRead => p \in rfd
  /\ \A p \in Proc : pc[p] \in InWrite => p \in wfd

\* NoMissedWakeup, from the test that decides to sleep.
Awake ==
  (\A p \in Proc : ~killed[p]) => \A p \in Proc :
    /\ pc[p] \in {"rempty", "rsleep"} => Used = 0 /\ writeopen
    /\ pc[p] \in {"wfull", "wsleep"} => Used = PIPESIZE /\ readopen

Inv == TypeOK /\ Bounded /\ Ends /\ Awake
-----------------------------------------------------------------------------
(* Arithmetic of counters that wrap.                                       *)
\* The remainder is determined by the division.
LEMMA ModUnique ==
  ASSUME NEW n \in Nat \ {0}, NEW q \in Int, NEW r \in 0..n - 1
  PROVE  (n * q + r) % n = r
BY SMTT(30)

\* Every integer is a multiple and a remainder.
LEMMA ModSplit ==
  ASSUME NEW n \in Nat \ {0}, NEW x \in Int
  PROVE  x % n \in 0..n - 1 /\ \E q \in Int : x = n * q + (x % n)
<1>1. x = n * (x \div n) + (x % n) /\ x \div n \in Int /\ x % n \in 0..n - 1
  OBVIOUS
<1>2. \E q \in Int : x = n * q + (x % n)
  BY <1>1, ZenonT(30)
<1> QED
  BY <1>1, <1>2, ZenonT(30)

\* A counter that wraps at a multiple of n keeps its place modulo n.
LEMMA ModMod ==
  ASSUME NEW n \in Nat \ {0}, NEW w \in Nat \ {0}, w % n = 0, NEW x \in Int, NEW y \in Int
  PROVE  ((x % w) + y) % n = (x + y) % n
<1>1. PICK m \in Int : w = n * m
  BY ModSplit
<1>2. PICK q \in Int : x = w * q + (x % w)
  BY ModSplit, ZenonT(30)
<1> DEFINE r == x % w
           z == r + y
           t == z % n
           A == w * q
<1>3. r \in Int /\ z \in Int /\ A \in Int
  BY ModSplit
<1>4. PICK k \in Int : z = n * k + t
  BY <1>3, ModSplit, ZenonT(30)
<1>5. t \in 0..n - 1
  BY <1>3, ModSplit
<1> DEFINE B == n * k
<1>6. A + B = n * (m * q + k) /\ m * q + k \in Int /\ B \in Int
  BY <1>1
<1>7. x = A + r /\ z = B + t
  BY <1>2, <1>4
<1>8. x + y = A + B + t
  <2> HIDE DEF A, B, r, t
  <2> QED
    BY <1>3, <1>5, <1>6, <1>7
<1>9. (n * (m * q + k) + t) % n = t
  <2> HIDE DEF t
  <2> QED
    BY <1>5, <1>6, ModUnique, ZenonT(30)
<1> QED
  BY <1>6, <1>8, <1>9

\* Two indices less than n apart have different places.
LEMMA ModApart ==
  ASSUME NEW n \in Nat \ {0}, NEW x \in Int, NEW y \in Int, x < y, y - x < n
  PROVE  x % n # y % n
<1> SUFFICES ASSUME x % n = y % n PROVE FALSE
  OBVIOUS
<1>1. PICK q \in Int : x = n * q + (x % n)
  BY ModSplit, ZenonT(30)
<1>2. PICK k \in Int : y = n * k + (y % n)
  BY ModSplit, ZenonT(30)
<1>3. x % n \in Int /\ n * q \in Int /\ n * k \in Int
  BY ModSplit
<1>4. y - x = n * k - n * q
  BY <1>1, <1>2, <1>3
<1>5. n * k - n * q = n * (k - q)
  OBVIOUS
<1>6. CASE k - q <= 0
  <2>1. n * (k - q) <= 0
    BY <1>6
  <2> QED
    BY <1>4, <1>5, <2>1
<1>7. CASE k - q >= 1
  <2>1. n * (k - q) >= n
    BY <1>7
  <2> QED
    BY <1>4, <1>5, <2>1
<1> QED
  BY <1>6, <1>7

\* Short distances of indices.
LEMMA ModSmall ==
  ASSUME NEW n \in Nat \ {0}, NEW x \in Int, 0 - n <= x, x < 2 * n
  PROVE  x % n = IF x < 0 THEN x + n ELSE IF x < n THEN x ELSE x - n
<1>1. CASE x < 0
  <2>1. x = n * (-1) + (x + n) /\ x + n \in 0..n - 1
    BY <1>1
  <2> QED
    BY <1>1, <2>1, ModUnique
<1>2. CASE x >= 0 /\ x < n
  BY <1>2
<1>3. CASE x >= n
  <2>1. x = n * 1 + (x - n) /\ x - n \in 0..n - 1
    BY <1>3
  <2> QED
    BY <1>3, <2>1, ModUnique
<1> QED
  BY <1>1, <1>2, <1>3

\* A counter below w that is advanced wraps once at most.
LEMMA ModAdd ==
  ASSUME NEW w \in Nat \ {0}, NEW a \in 0..w - 1, NEW k \in 0..w,
         NEW x \in Int, x = a + k, NEW y, y = x % w
  PROVE  y = IF x < w THEN x ELSE x - w
<1>1. 0 - w <= x /\ x < 2 * w /\ ~(x < 0)
  OBVIOUS
<1>2. x % w = IF x < 0 THEN x + w ELSE IF x < w THEN x ELSE x - w
  BY <1>1, ModSmall, ZenonT(30)
<1> QED
  BY <1>1, <1>2

-----------------------------------------------------------------------------
(* What the loops of pipewrite and piperead do to the buffer.              *)

\* How full the pipe is after pipewrite has put k bytes in it.
LEMMA PutUsed ==
  ASSUME TypeOK, Bounded, NEW k \in 0..PIPESIZE - Used,
         nwrite' = (nwrite + k) % Wrap, nread' = nread
  PROVE  Used' = Used + k /\ nwrite' \in 0..Wrap - 1
<1>1. Wrap \in Nat \ {0} /\ PIPESIZE \in Nat /\ PIPESIZE < Wrap
  BY PipeAssumption
<1>2. nread \in 0..Wrap - 1 /\ nwrite \in 0..Wrap - 1
  BY DEF TypeOK
<1>3. Used = IF nwrite - nread < 0 THEN nwrite - nread + Wrap ELSE nwrite - nread
  <2>1. nwrite - nread \in Int /\ 0 - Wrap <= nwrite - nread /\ nwrite - nread < Wrap
    BY <1>1, <1>2
  <2> QED
    BY <2>1, <1>1, ModSmall DEF Used
<1>4. Used \in 0..PIPESIZE /\ k \in 0..PIPESIZE
  BY <1>1 DEF Bounded
<1>0. PICK x \in Int : x = nwrite + k
  BY <1>2, <1>4
<1>5. nwrite' = IF x < Wrap THEN x ELSE x - Wrap
  <2>1. nwrite' = x % Wrap
    BY <1>0
  <2>2. k \in 0..Wrap
    BY <1>1, <1>4
  <2> QED
    BY <1>0, <1>1, <1>2, <2>1, <2>2, ModAdd, ZenonT(30)
<1>6. nwrite' \in 0..Wrap - 1
  BY <1>0, <1>1, <1>2, <1>4, <1>5
<1>7. Used' = IF nwrite' - nread < 0 THEN nwrite' - nread + Wrap ELSE nwrite' - nread
  <2>1. nwrite' - nread \in Int /\ 0 - Wrap <= nwrite' - nread /\ nwrite' - nread < Wrap
    BY <1>1, <1>2, <1>6
  <2> QED
    BY <2>1, <1>1, ModSmall DEF Used
<1> QED
  BY <1>0, <1>1, <1>2, <1>3, <1>4, <1>5, <1>6, <1>7

\* How full it is after piperead has taken k bytes from it.
LEMMA GetUsed ==
  ASSUME TypeOK, Bounded, NEW k \in 0..Used,
         nread' = (nread + k) % Wrap, nwrite' = nwrite
  PROVE  Used' = Used - k /\ nread' \in 0..Wrap - 1
<1>1. Wrap \in Nat \ {0} /\ PIPESIZE \in Nat /\ PIPESIZE < Wrap
  BY PipeAssumption
<1>2. nread \in 0..Wrap - 1 /\ nwrite \in 0..Wrap - 1
  BY DEF TypeOK
<1>3. Used = IF nwrite - nread < 0 THEN nwrite - nread + Wrap ELSE nwrite - nread
  <2>1. nwrite - nread \in Int /\ 0 - Wrap <= nwrite - nread /\ nwrite - nread < Wrap
    BY <1>1, <1>2
  <2> QED
    BY <2>1, <1>1, ModSmall DEF Used
<1>4. Used \in 0..PIPESIZE /\ k \in 0..PIPESIZE
  BY <1>1 DEF Bounded
<1>0. PICK x \in Int : x = nread + k
  BY <1>2, <1>4
<1>5. nread' = IF x < Wrap THEN x ELSE x - Wrap
  <2>1. nread' = x % Wrap
    BY <1>0
  <2>2. k \in 0..Wrap
    BY <1>1, <1>4
  <2> QED
    BY <1>0, <1>1, <1>2, <2>1, <2>2, ModAdd, ZenonT(30)
<1>6. nread' \in 0..Wrap - 1
  BY <1>0, <1>1, <1>2, <1>4, <1>5
<1>7. Used' = IF nwrite - nread' < 0 THEN nwrite - nread' + Wrap ELSE nwrite - nread'
  <2>1. nwrite - nread' \in Int /\ 0 - Wrap <= nwrite - nread' /\ nwrite - nread' < Wrap
    BY <1>1, <1>2, <1>6
  <2> QED
    BY <2>1, <1>1, ModSmall DEF Used
<1> QED
  BY <1>0, <1>1, <1>2, <1>3, <1>4, <1>5, <1>6, <1>7

\* The write counter is Used bytes ahead of the read counter, modulo the wrap.
LEMMA Ahead ==
  ASSUME TypeOK, Bounded
  PROVE  nwrite = (nread + Used) % Wrap
<1>1. Wrap \in Nat \ {0} /\ PIPESIZE \in Nat /\ PIPESIZE < Wrap
  BY PipeAssumption
<1>2. nread \in 0..Wrap - 1 /\ nwrite \in 0..Wrap - 1
  BY DEF TypeOK
<1>3. Used = IF nwrite - nread < 0 THEN nwrite - nread + Wrap ELSE nwrite - nread
  <2>1. nwrite - nread \in Int /\ 0 - Wrap <= nwrite - nread /\ nwrite - nread < Wrap
    BY <1>1, <1>2
  <2> QED
    BY <2>1, <1>1, ModSmall DEF Used
<1>4. Used \in 0..PIPESIZE /\ Used \in 0..Wrap
  BY <1>1 DEF Bounded
<1>5. PICK x \in Int : x = nread + Used
  BY <1>2, <1>4
<1>6. PICK y : y = x % Wrap
  OBVIOUS
<1>7. y = IF x < Wrap THEN x ELSE x - Wrap
  BY <1>1, <1>2, <1>4, <1>5, <1>6, ModAdd, ZenonT(30)
<1>8. y = nwrite
  BY <1>1, <1>2, <1>3, <1>5, <1>7
<1> QED
  BY <1>5, <1>6, <1>8

\* The slot of the j-th byte that is written, counted from the read counter.
LEMMA SlotFromRead ==
  ASSUME TypeOK, Bounded, NEW j \in Int
  PROVE  Slot(nwrite + j - 1) = (nread + Used + j - 1) % PIPESIZE
<1>1. Wrap \in Nat \ {0} /\ PIPESIZE \in Nat \ {0} /\ Wrap % PIPESIZE = 0
  BY PipeAssumption
<1>2. nread \in Int /\ nwrite \in Int /\ Used \in Int
  BY <1>1 DEF TypeOK, Bounded
<1>3. PICK x \in Int : x = nread + Used
  BY <1>2
<1>4. PICK y \in Int : y = j - 1
  OBVIOUS
<1>5. nwrite = x % Wrap
  BY <1>3, Ahead
<1>6. ((x % Wrap) + y) % PIPESIZE = (x + y) % PIPESIZE
  BY <1>1, ModMod, ZenonT(30)
<1>7. nwrite + j - 1 = nwrite + y /\ nread + Used + j - 1 = x + y
  BY <1>2, <1>3, <1>4
<1> QED
  BY <1>5, <1>6, <1>7 DEF Slot

\* What a reader will find, first byte first.
Queue == [i \in 1..Used |-> data[(nread + i - 1) % PIPESIZE]]

\* The slots of the i-th byte that will be read, of the j-th that will be written.
Place(i) == (nread + i - 1) % PIPESIZE
Dest(j) == Slot(nwrite + j - 1)

\* The queue is a sequence of Used bytes.
LEMMA QueueIs ==
  ASSUME TypeOK, Bounded
  PROVE  /\ Queue \in Seq(Byte) /\ Len(Queue) = Used
         /\ \A i \in 1..Used : Queue[i] = data[Place(i)]
<1>1. PIPESIZE \in Nat \ {0}
  BY PipeAssumption
<1>2. Used \in 0..PIPESIZE /\ nread \in Int /\ Used \in Nat
  BY <1>1 DEF TypeOK, Bounded
<1>3. \A i \in 1..Used : Place(i) \in Index
  <2> SUFFICES ASSUME NEW i \in 1..Used
               PROVE  Place(i) \in Index
    OBVIOUS
  <2>1. PICK x \in Int : x = nread + i - 1
    BY <1>2
  <2>2. x % PIPESIZE \in 0..PIPESIZE - 1
    BY <1>1, ModSplit
  <2> QED
    BY <2>1, <2>2 DEF Index, Place
<1>4. \A i \in 1..Used : data[Place(i)] \in Byte
  BY <1>3 DEF TypeOK
<1>5. Queue = [i \in 1..Used |-> data[Place(i)]]
  BY DEF Queue, Place
<1> QED
  BY <1>2, <1>4, <1>5

\* pipewrite's rounds append to that, and disturb none of it.
LEMMA PutQueue ==
  ASSUME TypeOK, Bounded, NEW p \in Proc, NEW rest, NEW k \in 0..PIPESIZE - Used,
         k <= Len(todo[p]), Copied(p, k, rest)
  PROVE  /\ data' \in [Index -> Byte]
         /\ Queue' = Queue \o [j \in 1..k |-> todo[p][j]]
         /\ [j \in 1..k |-> todo[p][j]] \in [1..k -> Byte]
<1>1. PIPESIZE \in Nat \ {0}
  BY PipeAssumption
<1>2. Used \in 0..PIPESIZE /\ nread \in Int /\ nwrite \in Int /\ k \in Nat /\ Used + k <= PIPESIZE
  BY <1>1 DEF TypeOK, Bounded
<1>3. Used' = Used + k /\ nread' = nread
  BY PutUsed DEF Copied
<1>4. todo[p] \in Seq(Byte) /\ data \in [Index -> Byte]
  BY DEF TypeOK
<1>5. \A j \in 1..k : todo[p][j] \in Byte
  <2>1. \A j \in 1..Len(todo[p]) : todo[p][j] \in Byte
    BY <1>4
  <2>2. \A j \in 1..k : j \in 1..Len(todo[p])
    BY <1>2, <1>4
  <2> QED
    BY <2>1, <2>2
<1>6. \A i, j \in Int : i < j /\ j - i < PIPESIZE =>
                        Place(i) # Place(j)
  <2> SUFFICES ASSUME NEW i \in Int, NEW j \in Int, i < j, j - i < PIPESIZE
               PROVE  Place(i) # Place(j)
    OBVIOUS
  <2>1. PICK x \in Int : x = nread + i - 1
    BY <1>2
  <2>2. PICK y \in Int : y = nread + j - 1
    BY <1>2
  <2>3. x < y /\ y - x < PIPESIZE
    BY <1>1, <1>2, <2>1, <2>2
  <2>4. x % PIPESIZE # y % PIPESIZE
    BY <1>1, <2>3, ModApart, ZenonT(30)
  <2> QED
    BY <2>1, <2>2, <2>4 DEF Place
<1>7. \A i \in Int : Place(i) \in Index
  <2> SUFFICES ASSUME NEW i \in Int
               PROVE  Place(i) \in Index
    OBVIOUS
  <2>1. PICK x \in Int : x = nread + i - 1
    BY <1>2
  <2>2. x % PIPESIZE \in 0..PIPESIZE - 1
    BY <1>1, ModSplit, ZenonT(30)
  <2> QED
    BY <2>1, <2>2 DEF Index, Place
<1>8. \A j \in Int : Dest(j) = Place(Used + j)
  <2> SUFFICES ASSUME NEW j \in Int
               PROVE  Dest(j) = Place(Used + j)
    OBVIOUS
  <2>1. nread + Used + j - 1 = nread + (Used + j) - 1
    BY <1>2
  <2> QED
    BY <2>1, SlotFromRead DEF Place, Dest
<1>9. data' = [i \in Index |->
         IF \E j \in 1..k : Dest(j) = i
         THEN todo[p][CHOOSE j \in 1..k : Dest(j) = i]
         ELSE data[i]]
  BY DEF Copied, Dest
<1>10. data' \in [Index -> Byte]
  <2> SUFFICES ASSUME NEW i \in Index
               PROVE  (IF \E j \in 1..k : Dest(j) = i
                       THEN todo[p][CHOOSE j \in 1..k : Dest(j) = i]
                       ELSE data[i]) \in Byte
    BY <1>9
  <2>1. CASE \E j \in 1..k : Dest(j) = i
    <3> DEFINE c == CHOOSE j \in 1..k : Dest(j) = i
    <3>1. c \in 1..k
      BY <2>1
    <3> QED
      BY <1>5, <2>1, <3>1
  <2>2. CASE ~\E j \in 1..k : Dest(j) = i
    BY <1>4, <2>2
  <2> QED
    BY <2>1, <2>2
\* What was there stays.
<1>11. \A i \in 1..Used : data'[Place(i)] = data[Place(i)]
  <2> SUFFICES ASSUME NEW i \in 1..Used
               PROVE  data'[Place(i)] = data[Place(i)]
    OBVIOUS
  <2>1. ASSUME NEW j \in 1..k
        PROVE  Dest(j) # Place(i)
    <3>1. i \in Int /\ Used + j \in Int /\ i < Used + j /\ Used + j - i < PIPESIZE /\ j \in Int
      BY <1>1, <1>2
    <3>2. PICK m \in Int : m = Used + j
      BY <3>1
    <3>3. i \in Int /\ i < m /\ m - i < PIPESIZE
      BY <1>1, <1>2, <3>1, <3>2
    <3>4. Place(i) # Place(m)
      BY <1>6, <3>3
    <3> QED
      BY <1>8, <3>1, <3>2, <3>4
  <2>2. Place(i) \in Index
    BY <1>2, <1>7
  <2> QED
    BY <1>9, <2>1, <2>2
\* The new bytes are behind it, each in a slot of its own.
<1>12. \A j \in 1..k : data'[Place(Used + j)] = todo[p][j]
  <2> SUFFICES ASSUME NEW j \in 1..k
               PROVE  data'[Place(Used + j)] = todo[p][j]
    OBVIOUS
  <2> DEFINE s == Place(Used + j)
             c == CHOOSE m \in 1..k : Dest(m) = s
  <2>1. s \in Index
    BY <1>2, <1>7
  <2>2. Dest(j) = s
    BY <1>2, <1>8
  <2>3. c \in 1..k /\ Dest(c) = s
    BY <2>2
  <2>4. c = j
    <3>1. Place(Used + c) = Place(Used + j)
      BY <1>2, <1>8, <2>3
    <3> HIDE DEF c
    <3>2. ~(c < j)
      <4> SUFFICES ASSUME c < j PROVE FALSE
        OBVIOUS
      <4>1. /\ Used + c \in Int /\ Used + j \in Int
            /\ Used + c < Used + j /\ (Used + j) - (Used + c) < PIPESIZE
        BY <1>1, <1>2, <2>3
      <4> QED
        BY <1>6, <3>1, <4>1
    <3>3. ~(j < c)
      <4> SUFFICES ASSUME j < c PROVE FALSE
        OBVIOUS
      <4>1. /\ Used + c \in Int /\ Used + j \in Int
            /\ Used + j < Used + c /\ (Used + c) - (Used + j) < PIPESIZE
        BY <1>1, <1>2, <2>3
      <4> QED
        BY <1>6, <3>1, <4>1
    <3> QED
      BY <1>2, <2>3, <3>2, <3>3
  <2>5. data'[s] = todo[p][c]
    BY <1>9, <2>1, <2>2
  <2> QED
    BY <2>4, <2>5, ZenonT(30)
<1>13. [j \in 1..k |-> todo[p][j]] \in [1..k -> Byte]
  BY <1>5
<1>14. Queue' = Queue \o [j \in 1..k |-> todo[p][j]]
  <2> DEFINE t == [j \in 1..k |-> todo[p][j]]
             q == [i \in 1..Used + k |-> data'[Place(i)]]
  <2>1. Queue' = q
    BY <1>3 DEF Queue, Place
  <2>2. Queue \in Seq(Byte) /\ Len(Queue) = Used /\ \A i \in 1..Used : Queue[i] = data[Place(i)]
    BY QueueIs
  <2>3. t \in Seq(Byte) /\ Len(t) = k /\ \A j \in 1..k : t[j] = todo[p][j]
    BY <1>2, <1>13
  <2>4. q \in Seq(Byte) /\ Len(q) = Used + k
    <3>1. \A i \in 1..Used + k : data'[Place(i)] \in Byte
      BY <1>2, <1>7, <1>10
    <3>2. q \in [1..Used + k -> Byte] /\ Used + k \in Nat
      BY <1>2, <3>1
    <3> QED
      BY <3>2
  <2>5. \A i \in 1..Used : q[i] = Queue[i]
    BY <1>2, <1>11, <2>2
  <2>6. \A i \in 1..Used + k : i > Used => q[i] = t[i - Used]
    <3> SUFFICES ASSUME NEW i \in 1..Used + k, i > Used
                 PROVE  q[i] = t[i - Used]
      OBVIOUS
    <3>1. PICK j \in 1..k : i = Used + j
      <4>1. i - Used \in 1..k /\ i = Used + (i - Used)
        BY <1>2
      <4> QED
        BY <4>1
    <3>2. q[i] = todo[p][j]
      BY <1>12, <3>1
    <3>3. i - Used = j
      BY <1>2, <3>1
    <3> QED
      BY <2>3, <3>2, <3>3
  <2> HIDE DEF q, t
  <2>7. Queue \o t \in Seq(Byte) /\ Len(Queue \o t) = Used + k
    BY <2>2, <2>3, ConcatProperties, ZenonT(30)
  <2>8. \A i \in 1..Used + k : (Queue \o t)[i] = q[i]
    <3> SUFFICES ASSUME NEW i \in 1..Used + k
                 PROVE  (Queue \o t)[i] = q[i]
      BY ZenonT(30)
    <3>1. (Queue \o t)[i] = IF i <= Used THEN Queue[i] ELSE t[i - Used]
      BY <2>2, <2>3, ConcatProperties, SMTT(30)
    <3>2. CASE i <= Used
      BY <1>2, <2>5, <3>1, <3>2
    <3>3. CASE i > Used
      BY <1>2, <2>6, <3>1, <3>3
    <3>4. i <= Used \/ i > Used
      BY <1>1, <1>2
    <3> QED
      BY <3>2, <3>3, <3>4, ZenonT(30)
  <2>9. q = Queue \o t
    BY <2>4, <2>7, <2>8, SeqEqual, SMTT(30)
  <2> QED
    BY <2>1, <2>9 DEF t
<1> QED
  BY <1>10, <1>13, <1>14

\* piperead's rounds take from the front.
LEMMA GetQueue ==
  ASSUME TypeOK, Bounded, NEW k \in 0..Used,
         nread' = (nread + k) % Wrap, nwrite' = nwrite, data' = data
  PROVE  /\ [i \in 1..k |-> data[Slot(nread + i - 1)]] = SubSeq(Queue, 1, k)
         /\ Queue' = SubSeq(Queue, k + 1, Len(Queue))
<1>1. PIPESIZE \in Nat \ {0} /\ Wrap \in Nat \ {0} /\ Wrap % PIPESIZE = 0
  BY PipeAssumption
<1>2. Used \in 0..PIPESIZE /\ nread \in Int /\ Used \in Nat /\ k \in Nat /\ k <= Used
  BY <1>1 DEF TypeOK, Bounded
<1>3. Used' = Used - k
  BY GetUsed
<1>4. /\ Queue \in Seq(Byte) /\ Len(Queue) = Used
      /\ \A i \in 1..Used : Queue[i] = data[Place(i)]
  BY QueueIs
<1>5. [i \in 1..k |-> data[Slot(nread + i - 1)]] = SubSeq(Queue, 1, k)
  <2> DEFINE a == [i \in 1..k |-> data[Place(i)]]
  <2>1. a \in Seq(Byte) /\ Len(a) = k /\ \A i \in 1..k : a[i] = Queue[i]
    <3>1. \A i \in 1..k : i \in 1..Used
      BY <1>2
    <3>2. \A i \in 1..k : data[Place(i)] \in Byte
      BY <1>4, <3>1
    <3> QED
      BY <1>2, <1>4, <3>1, <3>2
  <2>2. [i \in 1..k |-> data[Slot(nread + i - 1)]] = a
    BY DEF Slot, Place
  <2> HIDE DEF a
  <2> DEFINE b == SubSeq(Queue, 1, k)
  <2>3. b \in Seq(Byte) /\ Len(b) = k /\ \A i \in 1..k : b[i] = Queue[i]
    BY <1>2, <1>4
  <2> HIDE DEF b
  <2>4. a = b
    BY <2>1, <2>3, SeqEqual
  <2> QED
    BY <2>2, <2>4 DEF b
<1>6. \A i \in Int : (nread' + i - 1) % PIPESIZE = Place(k + i)
  <2> SUFFICES ASSUME NEW i \in Int
               PROVE  (nread' + i - 1) % PIPESIZE = Place(k + i)
    OBVIOUS
  <2>1. PICK x \in Int : x = nread + k
    BY <1>2
  <2>2. PICK y \in Int : y = i - 1
    OBVIOUS
  <2>3. ((x % Wrap) + y) % PIPESIZE = (x + y) % PIPESIZE
    BY <1>1, ModMod, ZenonT(30)
  <2>4. nread' = x % Wrap
    BY <2>1
  <2>5. nread' \in Int
    BY <1>1, GetUsed
  <2>6. nread' + i - 1 = nread' + y /\ nread + (k + i) - 1 = x + y
    BY <1>2, <2>1, <2>2, <2>5
  <2> QED
    BY <2>3, <2>4, <2>6 DEF Place
<1>7. Queue' = SubSeq(Queue, k + 1, Len(Queue))
  <2> DEFINE a == [i \in 1..Used - k |-> data[Place(k + i)]]
             b == SubSeq(Queue, k + 1, Len(Queue))
  <2>1. Queue' = a
    BY <1>2, <1>3, <1>6 DEF Queue
  <2>2. \A i \in 1..Used - k : k + i \in 1..Used
    BY <1>2
  <2>3. a \in Seq(Byte) /\ Len(a) = Used - k /\ \A i \in 1..Used - k : a[i] = Queue[k + i]
    <3>1. \A i \in 1..Used - k : data[Place(k + i)] \in Byte
      BY <1>4, <2>2
    <3>2. Used - k \in Nat
      BY <1>2
    <3> QED
      BY <1>4, <2>2, <3>1, <3>2, SMTT(30)
  <2> HIDE DEF a
  <2>4. b \in Seq(Byte) /\ Len(b) = Used - k /\ \A i \in 1..Used - k : b[i] = Queue[k + i]
    BY <1>2, <1>4
  <2> HIDE DEF b
  <2>5. a = b
    BY <2>3, <2>4, SeqEqual
  <2> QED
    BY <2>1, <2>5 DEF b
<1> QED
  BY <1>5, <1>7

\* How many bytes the loop of pipewrite puts in before it ends or sleeps.
LEMMA FitsIs ==
  ASSUME TypeOK, Bounded, NEW p \in Proc
  PROVE  LET k == Fits(Len(todo[p]))
         IN  /\ Len(todo[p]) \in Nat
             /\ k \in 0..PIPESIZE - Used /\ k \in Nat /\ k <= Len(todo[p])
             /\ k < Len(todo[p]) => k = PIPESIZE - Used
<1>1. PIPESIZE \in Nat \ {0}
  BY PipeAssumption
<1>2. Used \in 0..PIPESIZE
  BY DEF Bounded
<1>3. Len(todo[p]) \in Nat
  BY DEF TypeOK
<1> QED
  BY <1>1, <1>2, <1>3 DEF Fits, Least

\* What the rounds of pipewrite do to the state.
LEMMA CopiedIs ==
  ASSUME TypeOK, Bounded, NEW p \in Proc, NEW rest \in Seq(Byte),
         Copied(p, Fits(Len(todo[p])), rest), pc' \in [Proc -> Labels]
  PROVE  TypeOK' /\ Bounded' /\ Used' = Used + Fits(Len(todo[p]))
<1> DEFINE k == Fits(Len(todo[p]))
<1>1. k \in 0..PIPESIZE - Used /\ k <= Len(todo[p]) /\ k \in Nat
  BY FitsIs
<1>2. Copied(p, k, rest)
  BY SMTT(30)
<1> HIDE DEF k
<1>3. Used' = Used + k /\ nwrite' \in 0..Wrap - 1
  BY <1>1, <1>2, PutUsed, SMTT(30) DEF Copied
<1>4. data' \in [Index -> Byte]
  BY <1>1, <1>2, PutQueue, SMTT(30)
<1>5. todo' \in [Proc -> Seq(Byte)]
  BY <1>2, SMTT(30) DEF Copied, TypeOK
<1>6. TypeOK'
  BY <1>2, <1>3, <1>4, <1>5, SMTT(30) DEF Copied, TypeOK
<1>7. PIPESIZE \in Nat \ {0} /\ Used \in 0..PIPESIZE
  BY PipeAssumption DEF Bounded
<1>8. Bounded'
  BY <1>1, <1>3, <1>7 DEF Bounded
<1> QED
  BY <1>3, <1>6, <1>8 DEF k

\* A wakeup changes the label of the caller and of those who sleep at "from".
LEMMA WakeIs ==
  ASSUME TypeOK, NEW p \in Proc, NEW label \in Labels, NEW from, NEW to \in Labels,
         pc' = Wake(p, label, from, to)
  PROVE  /\ pc' \in [Proc -> Labels]
         /\ pc'[p] = label
         /\ \A q \in Proc \ {p} : pc'[q] = IF pc[q] = from THEN to ELSE pc[q]
BY DEF TypeOK, Wake

\* Without a wakeup, only the caller's label changes.
LEMMA GotoIs ==
  ASSUME TypeOK, NEW p \in Proc, NEW label \in Labels, Goto(p, label)
  PROVE  /\ pc' \in [Proc -> Labels]
         /\ pc'[p] = label
         /\ \A q \in Proc \ {p} : pc'[q] = pc[q]
BY DEF TypeOK, Goto

-----------------------------------------------------------------------------
(* The invariant.                                                          *)

\* The invariant holds of the pipe that pipealloc makes.
LEMMA InitInv == Init => Inv
<1> SUFFICES ASSUME Init PROVE Inv
  OBVIOUS
<1>1. Wrap \in Nat \ {0} /\ PIPESIZE \in Nat \ {0} /\ Wrap > PIPESIZE
  BY PipeAssumption
<1>2. TypeOK
  <2>1. world \in Worlds /\ world.bytes \subseteq Byte /\ world.bytes # {}
        /\ world.ends \subseteq (SUBSET Proc) \X (SUBSET Proc)
    BY PipeAssumption DEF Init
  <2>2. data \in [Index -> Byte]
    BY <2>1 DEF Init
  <2>3. rfd \subseteq Proc /\ wfd \subseteq Proc
    <3>1. PICK e \in world.ends : rfd = e[1] /\ wfd = e[2]
      BY DEF Init
    <3>2. e \in (SUBSET Proc) \X (SUBSET Proc)
      BY <2>1
    <3> QED
      BY <3>1, <3>2
  <2>4. nread \in 0..Wrap - 1 /\ nwrite \in 0..Wrap - 1
    BY <1>1 DEF Init
  <2>5. todo \in [Proc -> Seq(Byte)]
    BY DEF Init
  <2> QED
    BY <2>1, <2>2, <2>3, <2>4, <2>5 DEF Init, TypeOK, Labels
<1>3. Bounded
  <2>1. nwrite - nread \in Int /\ 0 - Wrap <= nwrite - nread /\ nwrite - nread < Wrap
        /\ nwrite - nread = 0
    BY <1>1 DEF Init
  <2>2. Used = 0
    BY <1>1, <2>1, ModSmall DEF Used
  <2> QED
    BY <1>1, <2>2 DEF Bounded
<1>4. Ends
  BY DEF Init, Ends, InRead, InWrite
<1>5. Awake
  BY ZenonT(30) DEF Init, Awake
<1> QED
  BY <1>2, <1>3, <1>4, <1>5 DEF Inv

\* Entering a call, sleeping and failing leave the pipe as it is.
LEMMA UsedStays ==
  ASSUME UNCHANGED pipe
  PROVE  Used' = Used /\ Queue' = Queue
BY SMTT(30) DEF pipe, Used, Queue

\* Steps that change nothing of the pipe but who is where in the code.
LEMMA QuietStep ==
  ASSUME Inv, NEW p \in Proc, UNCHANGED <<world, pipe, rfd, wfd>>,
         todo' \in [Proc -> Seq(Byte)], want' \in [Proc -> Nat], UNCHANGED killed,
         NEW label \in Labels, Goto(p, label),
         label \in InRead => p \in rfd,
         label \in InWrite => p \in wfd,
         label \in {"rempty", "rsleep"} => (Used = 0 /\ writeopen) \/ \E q \in Proc : killed[q],
         label \in {"wfull", "wsleep"} => (Used = PIPESIZE /\ readopen) \/ \E q \in Proc : killed[q]
  PROVE  Inv'
<1>1. TypeOK
  BY SMTT(30) DEF Inv
<1>2. pc' \in [Proc -> Labels] /\ pc'[p] = label /\ \A q \in Proc \ {p} : pc'[q] = pc[q]
  BY <1>1, GotoIs
<1>3. Used' = Used
  BY UsedStays, SMTT(30)
<1>4. TypeOK'
  BY <1>1, <1>2, SMTT(30) DEF TypeOK, pipe
<1>5. Bounded'
  BY <1>3 DEF Bounded, Inv
<1>6. Ends'
  BY <1>2, ZenonT(30) DEF Ends, Inv, pipe
<1>7. Awake'
  BY <1>2, <1>3, ZenonT(30) DEF Awake, Inv, pipe
<1> QED
  BY <1>4, <1>5, <1>6, <1>7 DEF Inv

\* pipewrite that ends or finds the pipe full, and wakes the readers.
LEMMA WriteStep ==
  ASSUME Inv, NEW p \in Proc, pc[p] = "write", Unlocked,
         NEW rest \in Seq(Byte), Copied(p, Fits(Len(todo[p])), rest),
         \/ pc' = Wake(p, "user", "rsleep", "read")
         \/ /\ pc' = Wake(p, "wfull", "rsleep", "read")
            /\ Fits(Len(todo[p])) < Len(todo[p]) /\ readopen
         \/ Goto(p, "user") /\ (~readopen \/ killed[p])
  PROVE  Inv'
<1>1. TypeOK /\ Bounded
  BY SMTT(30) DEF Inv
<1>2. /\ pc' \in [Proc -> Labels]
      /\ pc'[p] = "user" \/ (pc'[p] = "wfull" /\ Fits(Len(todo[p])) < Len(todo[p]) /\ readopen)
      /\ \A q \in Proc \ {p} : pc'[q] = pc[q] \/ (pc[q] = "rsleep" /\ pc'[q] = "read")
      /\ \/ ~readopen \/ killed[p]
         \/ \A q \in Proc : pc'[q] # "rsleep"
  <2>1. "user" \in Labels /\ "wfull" \in Labels /\ "read" \in Labels
    BY SMTT(30) DEF Labels
  <2>2. CASE pc' = Wake(p, "user", "rsleep", "read")
    BY <1>1, <2>1, <2>2, WakeIs, SMTT(30)
  <2>3. CASE /\ pc' = Wake(p, "wfull", "rsleep", "read")
             /\ Fits(Len(todo[p])) < Len(todo[p]) /\ readopen
    BY <1>1, <2>1, <2>3, WakeIs, SMTT(30)
  <2>4. CASE Goto(p, "user") /\ (~readopen \/ killed[p])
    BY <1>1, <2>1, <2>4, GotoIs, SMTT(30)
  <2> QED
    BY <2>2, <2>3, <2>4, SMTT(30)
<1>3. TypeOK' /\ Bounded' /\ Used' = Used + Fits(Len(todo[p]))
  BY <1>1, <1>2, CopiedIs, SMTT(30)
<1>4. UNCHANGED <<readopen, writeopen, rfd, wfd, killed>>
  BY SMTT(30) DEF Copied
<1>5. Ends'
  BY <1>2, <1>4, SMTT(30) DEF Ends, Inv, InRead, InWrite
<1>6. Awake'
  <2> SUFFICES ASSUME \A q \in Proc : ~killed[q], NEW q \in Proc
               PROVE  /\ pc'[q] \in {"rempty", "rsleep"} => Used' = 0 /\ writeopen
                      /\ pc'[q] \in {"wfull", "wsleep"} => Used' = PIPESIZE /\ readopen
    BY <1>4, SMTT(30) DEF Awake
  <2>1. pc'[q] # "rempty"
    BY <1>2, SMTT(30) DEF Unlocked
  <2>2. pc'[q] # "rsleep"
    <3>1. CASE ~readopen
      <4>1. pc[q] \notin InRead
        BY <3>1, SMTT(30) DEF Ends, Inv
      <4> QED
        BY <4>1, <1>2, SMTT(30) DEF InRead
    <3> QED
      BY <1>2, <3>1, SMTT(30)
  <2>3. ASSUME pc'[q] = "wfull" PROVE Used' = PIPESIZE /\ readopen
    <3>1. q = p /\ Fits(Len(todo[p])) < Len(todo[p]) /\ readopen
      BY <1>2, <2>3, SMTT(30) DEF Unlocked
    <3>2. Fits(Len(todo[p])) = PIPESIZE - Used
      BY <1>1, <3>1, FitsIs, SMTT(30)
    <3>3. PIPESIZE \in Int /\ Used \in Int
      BY <1>1, PipeAssumption, SMTT(30) DEF Bounded
    <3> QED
      BY <1>3, <3>1, <3>2, <3>3, SMTT(30)
  <2>4. ASSUME pc'[q] = "wsleep" PROVE Used' = PIPESIZE /\ readopen
    <3>1. pc[q] = "wsleep"
      BY <1>2, <2>4, SMTT(30)
    <3>2. Used = PIPESIZE /\ readopen
      BY <3>1, SMTT(30) DEF Awake, Inv
    <3>3. Fits(Len(todo[p])) = 0
      BY <1>1, <3>2, FitsIs, PipeAssumption
    <3> QED
      BY <1>3, <3>2, <3>3, PipeAssumption, SMTT(30)
  <2> QED
    BY <2>1, <2>2, <2>3, <2>4, SMTT(30)
<1> QED
  BY <1>3, <1>5, <1>6, SMTT(30) DEF Inv

\* piperead that returns bytes, or none at the end of the stream.
LEMMA ReadStep ==
  ASSUME Inv, NEW p \in Proc, ReadDone(p)
  PROVE  Inv' /\ Least(want[p], Used) \in 0..Used
<1> DEFINE k == Least(want[p], Used)
<1>1. TypeOK /\ Bounded
  BY SMTT(30) DEF Inv
<1>2. want[p] \in Nat /\ Used \in 0..PIPESIZE /\ PIPESIZE \in Nat
  BY <1>1, PipeAssumption DEF TypeOK, Bounded
<1>3. k \in 0..Used /\ k \in Nat
  BY <1>2 DEF Least
<1>4. nread' = (nread + k) % Wrap /\ nwrite' = nwrite
  BY DEF ReadDone
<1> HIDE DEF k
<1>5. Used' = Used - k /\ nread' \in 0..Wrap - 1
  BY <1>1, <1>3, <1>4, GetUsed
<1>6. Bounded'
  BY <1>2, <1>3, <1>5, SMTT(30) DEF Bounded
<1>7. /\ pc' \in [Proc -> Labels]
      /\ pc'[p] = "user"
      /\ \A q \in Proc \ {p} : pc'[q] = IF pc[q] = "wsleep" THEN "write" ELSE pc[q]
  <2>1. "user" \in Labels /\ "write" \in Labels
    BY SMTT(30) DEF Labels
  <2> QED
    BY <1>1, <2>1, WakeIs DEF ReadDone
<1>8. TypeOK'
  BY <1>1, <1>5, <1>7, SMTT(30) DEF TypeOK, ReadDone
<1>9. Ends'
  BY <1>7 DEF Ends, Inv, InRead, InWrite, ReadDone
<1>10. Awake'
  <2> SUFFICES ASSUME \A q \in Proc : ~killed[q], NEW q \in Proc
               PROVE  /\ pc'[q] \in {"rempty", "rsleep"} => Used' = 0 /\ writeopen
                      /\ pc'[q] \in {"wfull", "wsleep"} => Used' = PIPESIZE /\ readopen
    BY SMTT(30) DEF Awake, ReadDone
  <2>1. pc'[q] \notin {"rempty", "wfull", "wsleep"}
    BY <1>7, SMTT(30) DEF ReadDone, Unlocked
  <2>2. ASSUME pc'[q] = "rsleep" PROVE FALSE
    <3>1. pc[q] = "rsleep"
      BY <1>7, <2>2
    <3> QED
      BY <3>1, SMTT(30) DEF Awake, Inv, ReadDone
  <2> QED
    BY <2>1, <2>2, SMTT(30)
<1> QED
  BY <1>3, <1>6, <1>8, <1>9, <1>10 DEF Inv, k

\* pipeclose.  Who sleeps at the other end when the last descriptor of one goes
\* is woken; nobody is left inside a call at this end.
LEMMA CloseStep ==
  ASSUME Inv, NEW p \in Proc, CloseRead(p) \/ CloseWrite(p)
  PROVE  Inv'
<1>1. TypeOK /\ Ends
  BY SMTT(30) DEF Inv
<1>2. UNCHANGED <<world, data, nread, nwrite, todo, want, killed>> /\ pc[p] = "user"
  BY DEF CloseRead, CloseWrite
<1>3. Used' = Used
  BY <1>2, SMTT(30) DEF Used
<1>4. /\ pc' \in [Proc -> Labels]
      /\ \A q \in Proc : pc'[q] = pc[q] \/ (pc[q] = "rsleep" /\ pc'[q] = "read")
                         \/ (pc[q] = "wsleep" /\ pc'[q] = "write")
  <2>1. "user" \in Labels /\ "write" \in Labels /\ "read" \in Labels
    BY DEF Labels
  <2>2. CASE pc' = Wake(p, "user", "wsleep", "write")
    BY <1>1, <1>2, <2>1, <2>2, WakeIs
  <2>3. CASE pc' = Wake(p, "user", "rsleep", "read")
    BY <1>1, <1>2, <2>1, <2>3, WakeIs
  <2>4. CASE pc' = pc
    BY <1>1, <2>4 DEF TypeOK
  <2> QED
    BY <2>2, <2>3, <2>4 DEF CloseRead, CloseWrite
<1>5. TypeOK'
  BY <1>1, <1>2, <1>4, ZenonT(30) DEF TypeOK, CloseRead, CloseWrite
<1>6. Bounded'
  BY <1>3 DEF Bounded, Inv
<1>7. Ends'
  <2>1. CASE CloseRead(p)
    BY <1>1, <1>2, <1>4, <2>1, ZenonT(30) DEF Ends, CloseRead, Last, InRead, InWrite
  <2>2. CASE CloseWrite(p)
    BY <1>1, <1>2, <1>4, <2>2, ZenonT(30) DEF Ends, CloseWrite, Last, InRead, InWrite
  <2> QED
    BY <2>1, <2>2
<1>8. Awake'
  <2> SUFFICES ASSUME \A q \in Proc : ~killed[q], NEW q \in Proc
               PROVE  /\ pc'[q] \in {"rempty", "rsleep"} => Used = 0 /\ writeopen'
                      /\ pc'[q] \in {"wfull", "wsleep"} => Used = PIPESIZE /\ readopen'
    BY <1>2, <1>3, SMTT(30) DEF Awake
  <2>1. ASSUME pc'[q] \in {"rempty", "rsleep"} PROVE Used = 0 /\ writeopen'
    <3>1. pc[q] = pc'[q]
      BY <1>4, <2>1, SMTT(30)
    <3>2. Used = 0 /\ writeopen
      BY <2>1, <3>1, SMTT(30) DEF Awake, Inv
    <3>3. ~(CloseWrite(p) /\ Last(p, wfd))
      BY <1>2, <2>1, <3>1 DEF CloseWrite, Wake, Unlocked
    <3> QED
      BY <3>2, <3>3, ZenonT(30) DEF CloseRead, CloseWrite
  <2>2. ASSUME pc'[q] \in {"wfull", "wsleep"} PROVE Used = PIPESIZE /\ readopen'
    <3>1. pc[q] = pc'[q]
      BY <1>4, <2>2, SMTT(30)
    <3>2. Used = PIPESIZE /\ readopen
      BY <2>2, <3>1, SMTT(30) DEF Awake, Inv
    <3>3. ~(CloseRead(p) /\ Last(p, rfd))
      BY <1>2, <2>2, <3>1 DEF CloseRead, Wake, Unlocked
    <3> QED
      BY <3>2, <3>3, ZenonT(30) DEF CloseRead, CloseWrite
  <2> QED
    BY <2>1, <2>2, SMTT(30)
<1> QED
  BY <1>5, <1>6, <1>7, <1>8 DEF Inv

\* A killed sleeper goes on where it slept; who is not woken is not lost either,
\* but Awake promises nothing from here on.
LEMMA KillStep ==
  ASSUME Inv, NEW p \in Proc, Kill(p)
  PROVE  Inv'
<1>1. TypeOK /\ Ends
  BY DEF Inv
<1>2. UNCHANGED <<world, data, nread, nwrite, readopen, writeopen, rfd, wfd, todo, want>>
  BY DEF Kill, pipe
<1>3. Used' = Used
  BY <1>2 DEF Used
<1>4. /\ pc' \in [Proc -> Labels]
      /\ \A q \in Proc : pc'[q] = pc[q] \/ (pc[q] = "rsleep" /\ pc'[q] = "read")
                         \/ (pc[q] = "wsleep" /\ pc'[q] = "write")
  BY <1>1 DEF TypeOK, Kill, Labels
<1>5. killed' \in [Proc -> BOOLEAN] /\ killed'[p]
  BY <1>1, SMTT(30) DEF TypeOK, Kill
<1>6. TypeOK'
  BY <1>1, <1>2, <1>4, <1>5 DEF TypeOK
<1>7. Bounded'
  BY <1>3 DEF Bounded, Inv
<1>8. Ends'
  BY <1>1, <1>2, <1>4 DEF Ends, InRead, InWrite
<1>9. Awake'
  BY <1>5, SMTT(30) DEF Awake
<1> QED
  BY <1>6, <1>7, <1>8, <1>9 DEF Inv

\* Every step of every process keeps the invariant.
LEMMA NextInv ==
  ASSUME Inv, [Next]_vars
  PROVE  Inv'
<1>1. CASE UNCHANGED vars
  <2>1. UNCHANGED pipe /\ UNCHANGED <<world, rfd, wfd, pc, todo, want, killed>>
    BY <1>1 DEF vars
  <2>2. Used' = Used
    BY <2>1, UsedStays
  <2> QED
    BY <2>1, <2>2 DEF Inv, TypeOK, Bounded, Ends, Awake, pipe
<1>2. ASSUME NEW p \in Proc,
             \/ \E s \in Strings : CallWrite(p, s)
             \/ \E n \in world.sizes : CallRead(p, n)
             \/ Run(p) \/ CloseRead(p) \/ CloseWrite(p) \/ Kill(p)
      PROVE  Inv'
  <2>1. TypeOK /\ Bounded /\ Ends /\ Awake
    BY SMTT(30) DEF Inv
  <2>2. world.bytes \subseteq Byte /\ world.sizes \subseteq Nat
    BY <2>1, PipeAssumption, SMTT(30) DEF TypeOK
  <2>3. ASSUME NEW s \in Strings, CallWrite(p, s) PROVE Inv'
    <3>1. s \in Seq(Byte)
      BY <2>2, SMTT(30) DEF Strings
    <3>2. todo' \in [Proc -> Seq(Byte)] /\ want' \in [Proc -> Nat]
      BY <2>1, <2>3, <3>1, SMTT(30) DEF TypeOK, CallWrite
    <3> QED
      BY <2>3, <3>2, QuietStep DEF CallWrite, Labels, InRead, InWrite
  <2>4. ASSUME NEW n \in world.sizes, CallRead(p, n) PROVE Inv'
    <3>1. n \in Nat
      BY <2>2, SMTT(30)
    <3>2. todo' \in [Proc -> Seq(Byte)] /\ want' \in [Proc -> Nat]
      BY <2>1, <2>4, <3>1, SMTT(30) DEF TypeOK, CallRead
    <3> QED
      BY <2>4, <3>2, QuietStep DEF CallRead, Labels, InRead, InWrite
  <2>5. <<>> \in Seq(Byte) /\ Len(todo[p]) \in Nat /\ todo[p] \in Seq(Byte)
    BY <2>1, SMTT(30) DEF TypeOK
  <2>6. CASE WriteDone(p)
    BY <2>5, <2>6, WriteStep, ZenonT(30) DEF WriteDone
  <2>7. CASE WriteFull(p)
    <3> DEFINE rest == SubSeq(todo[p], Fits(Len(todo[p])) + 1, Len(todo[p]))
    <3>1. rest \in Seq(Byte)
      BY <2>1, <2>5, FitsIs, SMTT(30)
    <3> HIDE DEF rest
    <3>2. Copied(p, Fits(Len(todo[p])), rest)
      BY <2>7 DEF WriteFull, rest
    <3> QED
      BY <2>7, <3>1, <3>2, WriteStep, SMTT(30) DEF WriteFull
  <2>8. CASE WriteFails(p)
    BY <2>5, <2>8, WriteStep, ZenonT(30) DEF WriteFails
  <2>9. CASE WriteSleep(p)
    BY <2>1, <2>9, QuietStep, ZenonT(30)
       DEF WriteSleep, TypeOK, Ends, Awake, Labels, InRead, InWrite
  <2>10. CASE ReadEmpty(p)
    BY <2>1, <2>10, QuietStep, ZenonT(30)
       DEF ReadEmpty, ReadMustSleep, TypeOK, Ends, Awake, Labels, InRead, InWrite
  <2>11. CASE ReadSleep(p)
    BY <2>1, <2>11, QuietStep, ZenonT(30)
       DEF ReadSleep, TypeOK, Ends, Awake, Labels, InRead, InWrite
  <2>12. CASE ReadFails(p)
    BY <2>1, <2>12, QuietStep, ZenonT(30)
       DEF ReadFails, TypeOK, Ends, Awake, Labels, InRead, InWrite
  <2>13. CASE ReadDone(p)
    BY <2>13, ReadStep
  <2>14. CASE CloseRead(p) \/ CloseWrite(p)
    BY <2>14, CloseStep
  <2>15. CASE Kill(p)
    BY <2>15, KillStep
  <2> QED
    BY <1>2, <2>3, <2>4, <2>6, <2>7, <2>8, <2>9, <2>10, <2>11, <2>12, <2>13, <2>14,
       <2>15, ZenonT(30)
       DEF Run
<1> QED
  BY <1>1, <1>2, SMTT(30) DEF Next

\* How full the pipe is, who is inside a call, and on what condition anybody
\* sleeps, in every reachable state of pipe.c.
THEOREM Invariant == Spec => []Inv
<1>1. Init => Inv
  BY InitInv
<1>2. Inv /\ [Next]_vars => Inv'
  BY NextInv
<1> QED
  BY <1>1, <1>2, PTL DEF Spec

\* When pipeclose has closed both ends, and freed the page, no process is inside
\* pipewrite or piperead.
THEOREM NobodyInAFreedPipe == Spec => []NoUseAfterFree
<1>1. Inv => NoUseAfterFree
  BY ZenonT(30) DEF Inv, TypeOK, Labels, Ends, InRead, InWrite, NoUseAfterFree
<1> QED
  BY <1>1, Invariant, PTL

\* As long as nobody is killed, a reader sleeps only in an empty pipe with a
\* write end, and a writer only in a full pipe with a read end.
THEOREM NoWakeupMissed == Spec => []NoMissedWakeup
<1>1. Inv => NoMissedWakeup
  BY ZenonT(30) DEF Inv, Awake, NoMissedWakeup
<1> QED
  BY <1>1, Invariant, PTL

-----------------------------------------------------------------------------
(* Refinement.                                                             *)

\* Every step of the pipe is a step of the stream, or none.
LEMMA StepImplements ==
  ASSUME Inv, Inv', [Next]_vars
  PROVE  [Stream!Next]_Stream!vars
<1>2. TypeOK /\ Bounded /\ Ends
  BY SMTT(30) DEF Inv
<1>3. Queue \in Seq(Byte) /\ Len(Queue) = Used
  BY <1>2, QueueIs
<1>4. PIPESIZE \in Nat \ {0} /\ Used \in 0..PIPESIZE
  BY <1>2, PipeAssumption, SMTT(30) DEF Bounded
<1>5. ASSUME Queue' = Queue, UNCHANGED <<out, readopen, writeopen>>
      PROVE  UNCHANGED Stream!vars
  BY <1>5 DEF Stream!vars, Queue
<1>6. ASSUME NEW p \in Proc, NEW rest, pc[p] = "write", Copied(p, Fits(Len(todo[p])), rest)
      PROVE  [Stream!Next]_Stream!vars
  <2> DEFINE k == Fits(Len(todo[p]))
             s == [j \in 1..k |-> todo[p][j]]
  <2>1. k \in 0..PIPESIZE - Used /\ k <= Len(todo[p]) /\ k \in Nat
    BY <1>2, FitsIs
  <2>2. Copied(p, k, rest)
    BY <1>6, SMTT(30)
  <2>3. writeopen /\ UNCHANGED <<out, readopen, writeopen>>
    BY <1>2, <1>6, SMTT(30) DEF Ends, InWrite, Copied
  <2> HIDE DEF k
  <2>4. Queue' = Queue \o s /\ s \in [1..k -> Byte]
    BY <1>2, <2>1, <2>2, PutQueue
  <2> HIDE DEF s
  <2>5. CASE k = 0
    <3>1. s \in Seq(Byte) /\ Len(s) = 0
      BY <2>4, <2>5
    <3>2. s = <<>>
      BY <3>1
    <3>3. Queue' = Queue
      BY <1>3, <2>4, <3>2
    <3> QED
      BY <1>5, <2>3, <3>3
  <2>6. CASE k # 0
    <3>1. k \in 1..PIPESIZE - Len(Queue)
      BY <1>3, <1>4, <2>1, <2>6
    <3>2. Stream!Put
      BY <1>2, <2>3, <2>4, <3>1, ZenonT(30) DEF Stream!Put, Queue, TypeOK
    <3> QED
      BY <3>2 DEF Stream!Next
  <2> QED
    BY <2>5, <2>6
<1>7. ASSUME NEW p \in Proc, ReadDone(p)
      PROVE  [Stream!Next]_Stream!vars
  <2> DEFINE k == Least(want[p], Used)
  <2>1. k \in 0..Used
    BY <1>7, ReadStep, SMTT(30)
  <2>2. nread' = (nread + k) % Wrap /\ nwrite' = nwrite /\ data' = data
        /\ out' = [i \in 1..k |-> data[Slot(nread + i - 1)]]
    BY <1>7 DEF ReadDone
  <2> HIDE DEF k
  <2>3. out' = SubSeq(Queue, 1, k) /\ Queue' = SubSeq(Queue, k + 1, Len(Queue))
    BY <1>2, <2>1, <2>2, GetQueue, SMTT(30)
  <2>4. readopen /\ UNCHANGED <<readopen, writeopen>>
    BY <1>2, <1>7 DEF Ends, InRead, ReadDone
  <2>5. k \in 0..Len(Queue)
    BY <1>3, <2>1, SMTT(30)
  <2>6. Stream!Get
    BY <1>2, <2>3, <2>4, <2>5, ZenonT(30) DEF Stream!Get, Queue, TypeOK
  <2> QED
    BY <2>6 DEF Stream!Next
<1>8. ASSUME NEW p \in Proc, CloseRead(p) \/ CloseWrite(p)
      PROVE  [Stream!Next]_Stream!vars
  <2>1. Queue' = Queue /\ UNCHANGED out
    BY <1>8, SMTT(30) DEF CloseRead, CloseWrite, Queue, Used
  <2>2. CASE readopen' = readopen /\ writeopen' = writeopen
    BY <1>5, <2>1, <2>2
  <2>3. CASE CloseRead(p) /\ readopen' # readopen
    <3>1. readopen = TRUE /\ readopen' = FALSE /\ UNCHANGED writeopen
      BY <1>2, <2>3, ZenonT(30) DEF CloseRead, TypeOK
    <3>2. Stream!CloseRead
      BY <2>1, <3>1, SMTT(30) DEF Stream!CloseRead, Queue
    <3> QED
      BY <3>2 DEF Stream!Next
  <2>4. CASE CloseWrite(p) /\ writeopen' # writeopen
    <3>1. writeopen = TRUE /\ writeopen' = FALSE /\ UNCHANGED readopen
      BY <1>2, <2>4, ZenonT(30) DEF CloseWrite, TypeOK
    <3>2. Stream!CloseWrite
      BY <2>1, <3>1 DEF Stream!CloseWrite, Queue
    <3> QED
      BY <3>2 DEF Stream!Next
  <2>5. CloseRead(p) => writeopen' = writeopen
    BY DEF CloseRead
  <2>6. CloseWrite(p) => readopen' = readopen
    BY DEF CloseWrite
  <2> QED
    BY <1>8, <2>2, <2>3, <2>4, <2>5, <2>6, SMTT(30)
<1>9. ASSUME UNCHANGED <<pipe, out>>
      PROVE  [Stream!Next]_Stream!vars
  <2>1. Queue' = Queue
    BY <1>9, UsedStays, SMTT(30)
  <2> QED
    BY <1>5, <1>9, <2>1 DEF pipe
<1>10. CASE UNCHANGED vars
  BY <1>9, <1>10, SMTT(30) DEF vars
<1>11. ASSUME NEW p \in Proc,
              \/ \E s \in Strings : CallWrite(p, s)
              \/ \E n \in world.sizes : CallRead(p, n)
              \/ Run(p) \/ CloseRead(p) \/ CloseWrite(p) \/ Kill(p)
       PROVE  [Stream!Next]_Stream!vars
  <2>1. CASE \/ \E s \in Strings : CallWrite(p, s)
             \/ \E n \in world.sizes : CallRead(p, n)
             \/ WriteSleep(p) \/ ReadEmpty(p) \/ ReadSleep(p) \/ ReadFails(p) \/ Kill(p)
    <3>1. UNCHANGED <<pipe, out>>
      BY <2>1 DEF CallWrite, CallRead, WriteSleep, ReadEmpty, ReadSleep, ReadFails, Kill
    <3> QED
      BY <1>9, <3>1
  <2>2. CASE WriteDone(p)
    <3>1. pc[p] = "write" /\ Copied(p, Fits(Len(todo[p])), <<>>)
      BY <2>2 DEF WriteDone
    <3> QED
      BY <1>6, <3>1
  <2>3. CASE WriteFull(p)
    <3>1. pc[p] = "write" /\ \E rest : Copied(p, Fits(Len(todo[p])), rest)
      BY <2>3 DEF WriteFull
    <3> QED
      BY <1>6, <3>1, SMTT(30)
  <2>4. CASE WriteFails(p)
    <3>1. pc[p] = "write" /\ Copied(p, Fits(Len(todo[p])), <<>>)
      BY <2>4 DEF WriteFails
    <3> QED
      BY <1>6, <3>1
  <2> QED
    BY <1>7, <1>8, <1>11, <2>1, <2>2, <2>3, <2>4, ZenonT(30) DEF Run
<1> QED
  BY <1>10, <1>11 DEF Next

\* The circular buffer of pipe.c implements a bounded first-in first-out stream.
THEOREM Implements == Spec => Fifo
<1>1. Init => Stream!Init
  <2> SUFFICES ASSUME Init PROVE Stream!Init
    OBVIOUS
  <2>1. Inv
    BY InitInv
  <2>2. Queue \in Seq(Byte) /\ Len(Queue) = Used
    BY <2>1, QueueIs DEF Inv
  <2>3. Used = 0
    <3>1. Wrap \in Nat \ {0} /\ nwrite - nread \in Int /\ 0 - Wrap <= nwrite - nread
          /\ nwrite - nread < Wrap /\ nwrite - nread = 0
      BY PipeAssumption DEF Init
    <3> QED
      BY <3>1, ModSmall, SMTT(30) DEF Used
  <2>4. Queue = <<>>
    BY <2>2, <2>3
  <2> QED
    BY <2>4 DEF Init, Stream!Init, Queue
<1>2. Inv /\ Inv' /\ [Next]_vars => [Stream!Next]_Stream!vars
  BY StepImplements
<1> QED
  BY <1>1, <1>2, Invariant, PTL DEF Spec, Fifo, Stream!Spec
=============================================================================
