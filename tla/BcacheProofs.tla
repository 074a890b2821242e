---------------------------- MODULE BcacheProofs ----------------------------
(***************************************************************************)
(* What Bcache promises for any number of buffers, processes and sectors:  *)
(* the buffers are shared soundly, with a disk that does not fail no store *)
(* is lost, and bget runs out of buffers only when those in use and the    *)
(* log's fill the cache.                                                   *)
(*                                                                         *)
(* The inductive invariant is Inv.  Requests ties idequeue to the          *)
(* processes that wait for it and Serving ties the controller to the head  *)
(* of idequeue: without them ideintr could mark a buffer valid that the    *)
(* disk did not serve.                                                     *)
(***************************************************************************)
EXTENDS Bcache, FiniteSetTheorems, TLAPS

\* Where a process is in relation to its buffer: a holder has the sector it
\* wants in it, and has valid data once bread has returned.
Holding ==
  /\ \A p \in Proc : pc[p] # "idle" => want[p] \in Sector
  /\ \A p \in Proc : Holds(p) =>
       /\ buf[p] \in Buf
       /\ busy[buf[p]]
       /\ sector[buf[p]] = want[p]
  /\ \A p \in Proc : pc[p] = "bsleep" => buf[p] \in Buf
  /\ \A p \in Proc : pc[p] = "have" => valid[buf[p]]
  /\ \A p \in Proc : pc[p] = "rw" => ~valid[buf[p]]
  /\ \A b \in Buf : valid[b] => sector[b] \in Sector
  /\ \A b \in Buf : dirty[b] => valid[b]

\* The buffers that agree with the disk, as far as the driver knows.
Served == {b \in Buf : InSync(b)}

\* b waits in idequeue.
Queued(b) == \E i \in DOMAIN queue : queue[i] = b

\* The requests in idequeue are those whose callers wait for them.
Requests ==
  /\ \A i, j \in DOMAIN queue : queue[i] = queue[j] => i = j
  /\ \A i \in DOMAIN queue :
       /\ queue[i] \notin Served
       /\ \E p \in Proc : pc[p] \in {"iderw", "isleep"} /\ buf[p] = queue[i]
  /\ \A p \in Proc : pc[p] = "isleep" => Queued(buf[p])
  /\ \A p \in Proc : pc[p] = "iderw" /\ buf[p] \notin Served => Queued(buf[p])

\* The controller has the request at the head of the queue, with its data.
Serving ==
  /\ DiskServesHead
  /\ queue # <<>> /\ active.write => active.data = bdata[Head(queue)]

\* The inductive invariant.
Inv ==
  /\ TypeOK /\ Holding /\ HeldByOne /\ OneBufferPerSector /\ NoMissedWakeup
  /\ Requests /\ Serving
  /\ DiskErrors = FALSE => NothingLost

-----------------------------------------------------------------------------
\* What ideintr takes from the queue, and what it leaves.
LEMMA TailFacts ==
  ASSUME NEW q \in Seq(Buf), q # <<>>
  PROVE  /\ Head(q) \in Buf /\ Head(q) = q[1] /\ 1 \in DOMAIN q
         /\ Tail(q) \in Seq(Buf)
         /\ \A i \in DOMAIN Tail(q) : i + 1 \in DOMAIN q /\ Tail(q)[i] = q[i + 1]
         /\ \A i \in DOMAIN q : i = 1 \/ (i - 1 \in DOMAIN Tail(q) /\ q[i] = Tail(q)[i - 1])
         /\ Tail(q) # <<>> => Head(Tail(q)) = q[2] /\ 2 \in DOMAIN q
OBVIOUS

\* What iderw adds to the queue.
LEMMA AppendFacts ==
  ASSUME NEW q \in Seq(Buf), NEW b \in Buf
  PROVE  /\ Append(q, b) \in Seq(Buf) /\ Append(q, b) # <<>>
         /\ \A i \in DOMAIN q : i \in DOMAIN Append(q, b) /\ Append(q, b)[i] = q[i]
         /\ \E n \in DOMAIN Append(q, b) :
              /\ Append(q, b)[n] = b
              /\ \A i \in DOMAIN Append(q, b) : i \in DOMAIN q \/ i = n
         /\ Head(Append(q, b)) = IF q = <<>> THEN b ELSE Head(q)
<1>1. /\ Len(q) + 1 \in DOMAIN Append(q, b)
      /\ Append(q, b)[Len(q) + 1] = b
      /\ \A i \in DOMAIN Append(q, b) : i \in DOMAIN q \/ i = Len(q) + 1
  OBVIOUS
<1> QED
  BY <1>1

\* The buffer that ideintr takes to be served is the one that the disk served.
LEMMA HeadFacts ==
  ASSUME TypeOK, Holding, Requests, Serving, Ideintr
  PROVE  /\ queue # <<>>
         /\ Head(queue) \in Buf /\ Head(queue) = queue[1] /\ 1 \in DOMAIN queue
         /\ sector[Head(queue)] \in Sector
         /\ active.sector = sector[Head(queue)]
         /\ active.write = dirty[Head(queue)]
<1>1. queue # <<>>
  BY DEF Ideintr, Serving, DiskServesHead
<1>2. Head(queue) \in Buf /\ Head(queue) = queue[1] /\ 1 \in DOMAIN queue
  BY <1>1, TailFacts DEF TypeOK
<1>3. PICK p \in Proc : pc[p] \in {"iderw", "isleep"} /\ buf[p] = queue[1]
  BY <1>2 DEF Requests
<1>4. sector[queue[1]] \in Sector
  BY <1>3 DEF Holding, Holds
<1> QED
  BY <1>1, <1>2, <1>4 DEF Serving, DiskServesHead

-----------------------------------------------------------------------------
\* Every step keeps the types.
LEMMA TypeStep ==
  ASSUME TypeOK, Holding, Requests, Serving, [Next]_vars
  PROVE  TypeOK'
<1> NBUF \in Nat \ {0} /\ Data \subseteq Nat /\ 0 \in Data
  BY BcacheAssumption DEF Data
<1>1. ASSUME NEW p \in Proc, NEW s \in Sector, Bread(p, s)
      PROVE  TypeOK'
  BY <1>1 DEF TypeOK, Holding, Holds, Bread, At, Goto, flags, ide
<1>2. ASSUME NEW p \in Proc, BgetCached(p)
      PROVE  TypeOK'
  BY <1>2 DEF TypeOK, Holding, Holds, BgetCached, At, Goto, flags, ide, Cached
<1>3. ASSUME NEW p \in Proc, BgetSleep(p)
      PROVE  TypeOK'
  BY <1>3 DEF TypeOK, Holding, Holds, BgetSleep, At, Goto, flags, ide, Cached
<1>4. ASSUME NEW p \in Proc, BgetRecycle(p)
      PROVE  TypeOK'
  BY <1>4 DEF TypeOK, Holding, Holds, BgetRecycle, At, Goto, flags, ide, Recyclable,
     Cached
<1>5. ASSUME NEW p \in Proc, BgetPanic(p)
      PROVE  TypeOK'
  BY <1>5 DEF TypeOK, Holding, Holds, BgetPanic, At, Goto, flags, ide
<1>6. ASSUME NEW p \in Proc, BreadRw(p)
      PROVE  TypeOK'
  BY <1>6 DEF TypeOK, Holding, Holds, BreadRw, At, Goto, flags, ide, Iderw, Idestart,
     StartIfFirst
<1>7. ASSUME NEW p \in Proc, IderwLoop(p)
      PROVE  TypeOK'
  BY <1>7 DEF TypeOK, Holding, Holds, IderwLoop, At, Goto, flags, ide
<1>8. ASSUME NEW p \in Proc, NEW d \in Data, Bwrite(p, d)
      PROVE  TypeOK'
  BY <1>8 DEF TypeOK, Holding, Holds, Bwrite, At, Goto, flags, ide, Store, Iderw,
     Idestart, StartIfFirst
<1>9. ASSUME NEW p \in Proc, NEW d \in Data, LogWrite(p, d)
      PROVE  TypeOK'
  BY <1>9 DEF TypeOK, Holding, Holds, LogWrite, At, Goto, flags, ide, Store
<1>10. ASSUME NEW p \in Proc, Brelse(p)
      PROVE  TypeOK'
  <2> USE DEF TypeOK, Holding, Holds
  <2>1. lru' \in [Buf -> Buf]
    <3>1. buf[p] \in Buf /\ \A k \in Buf : k = 1 \/ k - 1 \in Buf
      BY <1>10 DEF Brelse, At, Buf
    <3> QED
      BY <1>10, <3>1 DEF Brelse, MovedToFront
  <2>2. pc' \in [Proc -> {"idle", "bget", "bsleep", "rw", "iderw", "isleep", "have"}]
    BY <1>10, ZenonT(30) DEF Brelse, Wakeup, Woken
  <2> QED
    BY <1>10, <2>1, <2>2 DEF Brelse, ide, At
<1>11. ASSUME NEW p \in Proc, Kill(p)
      PROVE  TypeOK'
  BY <1>11, SMTT(30) DEF TypeOK, Holding, Holds, Kill, At, Goto, flags, ide, Woken
<1>12. ASSUME Ideintr
      PROVE  TypeOK'
  <2> USE DEF TypeOK, Holding, Holds
  <2> DEFINE b == Head(queue)
  <2>1. queue # <<>> /\ b \in Buf /\ active.sector \in Sector
    BY <1>12, HeadFacts
  <2>2. disk' \in [Sector -> Data] /\ bdata' \in [Buf -> Data]
    <3>1. PICK ok \in {TRUE} \cup {~DiskErrors} :
            /\ disk' = IF active.write /\ ok
                       THEN [disk EXCEPT ![active.sector] = active.data] ELSE disk
            /\ bdata' = IF ~dirty[b] /\ ok
                        THEN [bdata EXCEPT ![b] = disk[active.sector]] ELSE bdata
      BY <1>12, ZenonT(30) DEF Ideintr
    <3> QED
      BY <2>1, <3>1
  <2>3. queue' = Tail(queue) /\ queue' \in Seq(Buf)
    BY <1>12, <2>1, TailFacts DEF Ideintr
  <2>4. active' \in [sector : Sector \cup {NoSector}, write : BOOLEAN, data : Data]
    <3>1. active' = StartNext(queue')
      BY <1>12 DEF Ideintr
    <3>2. CASE queue' = <<>>
      BY <3>1, <3>2 DEF StartNext, Off
    <3>3. CASE queue' # <<>>
      <4>1. Head(queue') \in Buf
        BY <2>3, <3>3, TailFacts
      <4> QED
        BY <2>2, <3>1, <3>3, <4>1 DEF StartNext, Idestart
    <3> QED
      BY <3>2, <3>3
  <2>5. pc' \in [Proc -> {"idle", "bget", "bsleep", "rw", "iderw", "isleep", "have"}]
    BY <1>12 DEF Ideintr, Wakeup, Woken
  <2>6. valid' \in [Buf -> BOOLEAN] /\ dirty' \in [Buf -> BOOLEAN]
    BY <1>12, <2>1 DEF Ideintr
  <2> QED
    BY <1>12, <2>2, <2>3, <2>4, <2>5, <2>6, SMTT(30) DEF Ideintr
<1>13. CASE UNCHANGED vars
  BY <1>13 DEF TypeOK, Holding, Holds, vars, flags, ide, At, Goto
<1> QED
  BY <1>1, <1>2, <1>3, <1>4, <1>5, <1>6, <1>7, <1>8, <1>9, <1>10, <1>11, <1>12, <1>13, ZenonT(30)
     DEF Next, Run

-----------------------------------------------------------------------------
\* brelse frees the buffer and wakes those that sleep for it.
LEMMA BrelseFrees ==
  ASSUME TypeOK, Holding, HeldByOne, NEW p \in Proc, Brelse(p)
  PROVE  /\ Holds(p) /\ pc[p] = "have" /\ buf[p] \in Buf
         /\ pc'[p] = "idle"
         /\ \A q \in Proc \ {p} : /\ buf'[q] = buf[q] /\ want'[q] = want[q]
                                 /\ IF pc[q] = "bsleep" /\ buf[q] = buf[p]
                                    THEN pc'[q] = "bget" ELSE pc'[q] = pc[q]
         /\ \A b \in Buf : busy'[b] <=> busy[b] /\ b # buf[p]
         /\ UNCHANGED <<sector, valid, dirty, queue>>
<1>1. pc[p] = "have" /\ Holds(p)
  BY DEF Brelse, At, Holds
<1>2. buf[p] \in Buf
  BY <1>1 DEF Holding
<1>3. pc' = [q \in Proc |-> IF q = p THEN "idle"
                           ELSE IF buf[q] = buf[p] THEN Woken(pc[q]) ELSE pc[q]]
  BY ZenonT(30) DEF Brelse, Wakeup
<1>4. \A q \in Proc \ {p} : pc[q] = "isleep" => buf[q] # buf[p]
  BY <1>1 DEF HeldByOne, Holds
<1>5. \A q \in Proc \ {p} : IF pc[q] = "bsleep" /\ buf[q] = buf[p]
                           THEN pc'[q] = "bget" ELSE pc'[q] = pc[q]
  BY <1>3, <1>4 DEF Woken
<1>6. \A q \in Proc \ {p} : buf'[q] = buf[q] /\ want'[q] = want[q]
  BY DEF Brelse, TypeOK
<1>7. \A b \in Buf : busy'[b] <=> busy[b] /\ b # buf[p]
  BY <1>2 DEF Brelse, TypeOK
<1>8. UNCHANGED <<sector, valid, dirty, queue>>
  BY DEF Brelse, ide
<1> QED
  BY <1>1, <1>2, <1>3, <1>5, <1>6, <1>7, <1>8

\* Every step keeps Holding, one holder for a buffer and one buffer for a sector:
\* bget looks the sector up and claims a buffer under one bcache.lock.
LEMMA HoldingStep ==
  ASSUME TypeOK, Holding, HeldByOne, OneBufferPerSector, Requests, Serving, [Next]_vars
  PROVE  (Holding /\ HeldByOne /\ OneBufferPerSector)'
<1> NoBuf \notin Buf /\ NoSector \notin Sector
  BY BcacheAssumption, SMTT(30) DEF Buf, NoBuf
<1>1. ASSUME NEW p \in Proc, NEW s \in Sector, Bread(p, s)
      PROVE  (Holding /\ HeldByOne /\ OneBufferPerSector)'
  BY <1>1, SMTT(30)
     DEF TypeOK, Holding, HeldByOne, OneBufferPerSector, Holds, Bread, At, Goto,
     flags, ide
<1>2. ASSUME NEW p \in Proc, BgetCached(p)
      PROVE  (Holding /\ HeldByOne /\ OneBufferPerSector)'
  BY <1>2, SMTT(30)
     DEF TypeOK, Holding, HeldByOne, OneBufferPerSector, Holds, BgetCached, At,
     Goto, flags, ide, Cached
<1>3. ASSUME NEW p \in Proc, BgetSleep(p)
      PROVE  (Holding /\ HeldByOne /\ OneBufferPerSector)'
  BY <1>3, SMTT(30)
     DEF TypeOK, Holding, HeldByOne, OneBufferPerSector, Holds, BgetSleep, At,
     Goto, flags, ide, Cached
<1>4. ASSUME NEW p \in Proc, BgetRecycle(p)
      PROVE  (Holding /\ HeldByOne /\ OneBufferPerSector)'
  BY <1>4, SMTT(30)
     DEF TypeOK, Holding, HeldByOne, OneBufferPerSector, Holds, BgetRecycle, At,
     Goto, flags, ide, Recyclable, Cached
<1>5. ASSUME NEW p \in Proc, BgetPanic(p)
      PROVE  (Holding /\ HeldByOne /\ OneBufferPerSector)'
  BY <1>5, SMTT(30)
     DEF TypeOK, Holding, HeldByOne, OneBufferPerSector, Holds, BgetPanic, At,
     Goto, flags, ide
<1>6. ASSUME NEW p \in Proc, BreadRw(p)
      PROVE  (Holding /\ HeldByOne /\ OneBufferPerSector)'
  BY <1>6, SMTT(30)
     DEF TypeOK, Holding, HeldByOne, OneBufferPerSector, Holds, BreadRw, At, Goto,
     flags, ide, Iderw, Idestart, StartIfFirst
<1>7. ASSUME NEW p \in Proc, IderwLoop(p)
      PROVE  (Holding /\ HeldByOne /\ OneBufferPerSector)'
  BY <1>7, SMTT(30)
     DEF TypeOK, Holding, HeldByOne, OneBufferPerSector, Holds, IderwLoop, At,
     Goto, flags, ide, InSync
<1>8. ASSUME NEW p \in Proc, NEW d \in Data, Bwrite(p, d)
      PROVE  (Holding /\ HeldByOne /\ OneBufferPerSector)'
  BY <1>8, SMTT(30)
     DEF TypeOK, Holding, HeldByOne, OneBufferPerSector, Holds, Bwrite, At, Goto,
     flags, ide, Store, Iderw, Idestart, StartIfFirst
<1>9. ASSUME NEW p \in Proc, NEW d \in Data, LogWrite(p, d)
      PROVE  (Holding /\ HeldByOne /\ OneBufferPerSector)'
  BY <1>9 DEF TypeOK, Holding, HeldByOne, OneBufferPerSector, Holds, LogWrite, At, Goto,
     flags, ide, Store
<1>10. ASSUME NEW p \in Proc, Brelse(p)
      PROVE  (Holding /\ HeldByOne /\ OneBufferPerSector)'
  <2>1. /\ Holds(p) /\ pc'[p] = "idle"
        /\ \A q \in Proc \ {p} : /\ buf'[q] = buf[q] /\ want'[q] = want[q]
                                /\ \/ pc'[q] = pc[q]
                                   \/ pc[q] = "bsleep" /\ pc'[q] = "bget"
        /\ \A b \in Buf : busy'[b] <=> busy[b] /\ b # buf[p]
        /\ UNCHANGED <<sector, valid, dirty>>
    BY <1>10, BrelseFrees
  <2>2. \A q \in Proc : Holds(q)' <=> Holds(q) /\ q # p
    BY <2>1 DEF Holds
  <2>3. \A q \in Proc : Holds(q)' => buf'[q] # buf[p]
    BY <2>1, <2>2, SMTT(30) DEF HeldByOne
  <2>4. Holding'
    <3> SUFFICES ASSUME NEW q \in Proc PROVE
            /\ pc'[q] # "idle" => want'[q] \in Sector
            /\ Holds(q)' => buf'[q] \in Buf /\ busy'[buf'[q]] /\ sector'[buf'[q]] = want'[q]
            /\ pc'[q] = "bsleep" => buf'[q] \in Buf
            /\ pc'[q] = "have" => valid'[buf'[q]]
            /\ pc'[q] = "rw" => ~valid'[buf'[q]]
      BY <2>1, SMTT(30) DEF Holding
    <3>1. CASE q = p
      BY <2>1, <3>1, SMTT(30) DEF Holds
    <3>2. CASE q # p
      BY <2>1, <2>2, <2>3, <3>2 DEF Holding
    <3> QED
      BY <3>1, <3>2, SMTT(30)
  <2>5. HeldByOne'
    BY <2>1, <2>2 DEF HeldByOne
  <2>6. OneBufferPerSector'
    BY <2>1 DEF OneBufferPerSector
  <2> QED
    BY <2>4, <2>5, <2>6, SMTT(30)
<1>11. ASSUME NEW p \in Proc, Kill(p)
      PROVE  (Holding /\ HeldByOne /\ OneBufferPerSector)'
  BY <1>11 DEF TypeOK, Holding, HeldByOne, OneBufferPerSector, Holds, Kill, At, Goto,
     flags, ide, Woken
<1>12. ASSUME Ideintr
      PROVE  (Holding /\ HeldByOne /\ OneBufferPerSector)'
  <2> DEFINE b == Head(queue)
  <2>1. b \in Buf /\ sector[b] \in Sector
    BY <1>12, HeadFacts
  <2>2. \A q \in Proc : \/ pc'[q] = pc[q]
                        \/ pc[q] = "bsleep" /\ pc'[q] = "bget"
                        \/ pc[q] = "isleep" /\ pc'[q] = "iderw"
    BY <1>12, SMTT(30) DEF Ideintr, Wakeup, Woken, TypeOK
  <2>3. \A c \in Buf : (valid'[c] <=> c = b \/ valid[c]) /\ (dirty'[c] <=> c # b /\ dirty[c])
    BY <1>12, <2>1 DEF Ideintr, TypeOK
  <2>4. UNCHANGED <<sector, busy, buf, want>>
    BY <1>12 DEF Ideintr
  <2>5. \A q \in Proc : pc[q] = "rw" => buf[q] # b
    <3>1. PICK r \in Proc : pc[r] \in {"iderw", "isleep"} /\ buf[r] = b
      BY <1>12, HeadFacts DEF Requests
    <3> QED
      BY <3>1, SMTT(30) DEF HeldByOne, Holds
  <2> HIDE DEF b
  <2>6. \A q \in Proc : Holds(q)' <=> Holds(q)
    BY <2>2, SMTT(30) DEF Holds
  <2>7. Holding'
    <3>1. \A q \in Proc :
            /\ pc'[q] # "idle" => want'[q] \in Sector
            /\ Holds(q)' => buf'[q] \in Buf /\ busy'[buf'[q]] /\ sector'[buf'[q]] = want'[q]
            /\ pc'[q] = "bsleep" => buf'[q] \in Buf
      BY <2>2, <2>4, <2>6, SMTT(30) DEF Holding
    <3>2. \A q \in Proc :
            /\ pc'[q] = "have" => valid'[buf'[q]]
            /\ pc'[q] = "rw" => ~valid'[buf'[q]]
      BY <2>2, <2>3, <2>4, <2>5, SMTT(30) DEF Holding, Holds
    <3>3. \A c \in Buf : /\ valid'[c] => sector'[c] \in Sector
                         /\ dirty'[c] => valid'[c]
      BY <2>1, <2>3, <2>4 DEF Holding
    <3> QED
      BY <3>1, <3>2, <3>3, SMTT(30) DEF Holding
  <2>8. HeldByOne'
    BY <2>4, <2>6 DEF HeldByOne
  <2>9. OneBufferPerSector'
    BY <2>4, SMTT(30) DEF OneBufferPerSector
  <2> QED
    BY <2>7, <2>8, <2>9
<1>13. CASE UNCHANGED vars
  BY <1>13, SMTT(30)
     DEF TypeOK, Holding, HeldByOne, OneBufferPerSector, Holds, vars, flags, ide,
     At, Goto
<1> QED
  BY <1>1, <1>2, <1>3, <1>4, <1>5, <1>6, <1>7, <1>8, <1>9, <1>10, <1>11, <1>12, <1>13, ZenonT(30)
     DEF Next, Run

\* iderw puts a buffer in the queue that is not in it, since its holder is not waiting.
LEMMA IderwRequests ==
  ASSUME TypeOK, Holding, HeldByOne, NoMissedWakeup, Requests,
         NEW p \in Proc, pc[p] \in {"rw", "have"}, NEW d, Iderw(p, buf[p], d),
         Served' = Served \ {buf[p]},
         UNCHANGED <<busy, buf>>
  PROVE  (Requests /\ NoMissedWakeup)'
<1> DEFINE b == buf[p]
<1>1. b \in Buf /\ busy[b]
  BY SMTT(30) DEF Holding, Holds
<1>2. \A i \in DOMAIN queue : queue[i] # b
  BY SMTT(30) DEF Requests, HeldByOne, Holds
<1>3. \A q \in Proc \ {p} : Holds(q) => buf[q] \in Buf \ {b}
  BY SMTT(30) DEF HeldByOne, Holding, Holds
<1>4. /\ \A i \in DOMAIN queue : i \in DOMAIN queue' /\ queue'[i] = queue[i]
      /\ \E n \in DOMAIN queue' : /\ queue'[n] = b
                                  /\ \A i \in DOMAIN queue' : i \in DOMAIN queue \/ i = n
      /\ \A i \in DOMAIN queue : queue[i] \in Buf
  BY <1>1, AppendFacts, SMTT(30) DEF Iderw, TypeOK
<1>5. pc' = [pc EXCEPT ![p] = "isleep"]
  BY SMTT(30) DEF Iderw, Goto
<1> HIDE DEF b
<1>6. \A i, j \in DOMAIN queue' : queue'[i] = queue'[j] => i = j
  BY <1>2, <1>4, SMTT(30) DEF Requests
<1>7. ASSUME NEW i \in DOMAIN queue'
      PROVE  /\ queue'[i] \notin Served'
             /\ \E q \in Proc : pc'[q] \in {"iderw", "isleep"} /\ buf'[q] = queue'[i]
  <2>1. CASE i \in DOMAIN queue
    <3>1. PICK q \in Proc : pc[q] \in {"iderw", "isleep"} /\ buf[q] = queue[i]
      BY <2>1, SMTT(30) DEF Requests
    <3>2. pc'[q] = pc[q]
      BY <1>5, <3>1, SMTT(30) DEF TypeOK
    <3> QED
      BY <1>2, <1>4, <2>1, <3>1, <3>2, SMTT(30) DEF Requests
  <2>2. CASE queue'[i] = b
    BY <1>5, <2>2 DEF TypeOK, b
  <2> QED
    BY <1>4, <2>1, <2>2, SMTT(30)
<1>8. ASSUME NEW q \in Proc,
   pc'[q] = "isleep" \/ (pc'[q] = "iderw" /\ buf'[q] \notin Served')
      PROVE  Queued(buf[q])'
  <2>1. CASE q = p
    BY <1>4, <2>1, SMTT(30) DEF Queued, b
  <2>2. CASE q # p
    <3>1. Queued(buf[q])
      BY <1>3, <1>5, <1>8, <2>2, SMTT(30) DEF Requests, Holds, TypeOK, b
    <3> QED
      BY <1>4, <3>1, SMTT(30) DEF Queued
  <2> QED
    BY <2>1, <2>2, SMTT(30)
<1>9. \A q \in Proc : pc'[q] = "bsleep" => busy'[buf'[q]]
  BY <1>5 DEF NoMissedWakeup, TypeOK
<1> QED
  BY <1>6, <1>7, <1>8, <1>9, SMTT(30) DEF Requests, NoMissedWakeup, Queued

-----------------------------------------------------------------------------
\* Every step keeps Requests and NoMissedWakeup: ideintr wakes whoever waits for the
\* request it takes, and brelse whoever waits for the buffer.
LEMMA RequestsStep ==
  ASSUME TypeOK, Holding, HeldByOne, NoMissedWakeup, Requests, Serving, [Next]_vars
  PROVE  (Requests /\ NoMissedWakeup)'
<1>1. ASSUME NEW p \in Proc, NEW s \in Sector, Bread(p, s)
      PROVE  (Requests /\ NoMissedWakeup)'
  BY <1>1, SMTT(30) DEF TypeOK, Holding, HeldByOne, Requests, NoMissedWakeup, Holds, Queued,
     Bread, At, Goto, flags, ide, Served, InSync
<1>2. ASSUME NEW p \in Proc, BgetCached(p)
      PROVE  (Requests /\ NoMissedWakeup)'
  BY <1>2, SMTT(30) DEF TypeOK, Holding, HeldByOne, Requests, NoMissedWakeup, Holds, Queued,
     BgetCached, At, Goto, flags, ide, Served, InSync, Cached
<1>3. ASSUME NEW p \in Proc, BgetSleep(p)
      PROVE  (Requests /\ NoMissedWakeup)'
  BY <1>3, SMTT(30) DEF TypeOK, Holding, HeldByOne, Requests, NoMissedWakeup, Holds, Queued,
     BgetSleep, At, Goto, flags, ide, Served, InSync, Cached
<1>4. ASSUME NEW p \in Proc, BgetRecycle(p)
      PROVE  (Requests /\ NoMissedWakeup)'
  BY <1>4, SMTT(30) DEF TypeOK, Holding, HeldByOne, Requests, NoMissedWakeup, Holds, Queued,
     BgetRecycle, At, Goto, flags, ide, Served, InSync, Recyclable, Cached
<1>5. ASSUME NEW p \in Proc, BgetPanic(p)
      PROVE  (Requests /\ NoMissedWakeup)'
  BY <1>5, SMTT(30) DEF TypeOK, Holding, HeldByOne, Requests, NoMissedWakeup, Holds, Queued,
     BgetPanic, At, Goto, flags, ide, Served, InSync
<1>6. ASSUME NEW p \in Proc, BreadRw(p)
      PROVE  (Requests /\ NoMissedWakeup)'
  <2>1. /\ pc[p] = "rw" /\ Iderw(p, buf[p], dirty[buf[p]]) 
        /\ UNCHANGED <<busy, valid, dirty, buf>>
    BY <1>6, SMTT(30) DEF BreadRw, At, flags
  <2>2. Served' = Served \ {buf[p]}
    BY <2>1, SMTT(30) DEF Served, InSync, TypeOK, Holding, Holds
  <2> QED
    BY <2>1, <2>2, IderwRequests, SMTT(30)
<1>7. ASSUME NEW p \in Proc, IderwLoop(p)
      PROVE  (Requests /\ NoMissedWakeup)'
  BY <1>7, SMTT(30) DEF TypeOK, Holding, HeldByOne, Requests, NoMissedWakeup, Holds, Queued,
     IderwLoop, At, Goto, flags, ide, Served, InSync
<1>8. ASSUME NEW p \in Proc, NEW d \in Data, Bwrite(p, d)
      PROVE  (Requests /\ NoMissedWakeup)'
  <2>1. /\ pc[p] = "have" /\ Iderw(p, buf[p], TRUE)
        /\ UNCHANGED <<busy, valid, buf>> /\ dirty' = [dirty EXCEPT ![buf[p]] = TRUE]
    BY <1>8, ZenonT(30) DEF Bwrite, Store, At
  <2>2. Served' = Served \ {buf[p]}
    BY <2>1, SMTT(30) DEF Served, InSync, TypeOK, Holding, Holds
  <2> QED
    BY <2>1, <2>2, IderwRequests, ZenonT(30)
<1>9. ASSUME NEW p \in Proc, NEW d \in Data, LogWrite(p, d)
      PROVE  (Requests /\ NoMissedWakeup)'
  BY <1>9, SMTT(30) DEF TypeOK, Holding, HeldByOne, Requests, NoMissedWakeup, Holds, Queued,
     LogWrite, At, Goto, flags, ide, Served, InSync, Store
<1>10. ASSUME NEW p \in Proc, Brelse(p)
      PROVE  (Requests /\ NoMissedWakeup)'
  <2>1. /\ pc[p] = "have" /\ pc'[p] = "idle"
        /\ \A q \in Proc \ {p} : /\ buf'[q] = buf[q]
                                /\ IF pc[q] = "bsleep" /\ buf[q] = buf[p]
                                   THEN pc'[q] = "bget" ELSE pc'[q] = pc[q]
        /\ \A b \in Buf : busy'[b] <=> busy[b] /\ b # buf[p]
        /\ UNCHANGED <<valid, dirty, queue>>
    BY <1>10, BrelseFrees, SMTT(30)
  <2>2. \A q \in Proc : /\ pc'[q] \in {"iderw", "isleep"} <=> pc[q] \in {"iderw", "isleep"}
                        /\ pc'[q] \in {"iderw", "isleep"} => pc'[q] = pc[q] /\ buf'[q] = buf[q]
    BY <2>1, SMTT(30)
  <2>3. Requests'
    <3>1. Served' = Served
      BY <2>1, SMTT(30) DEF Served, InSync
    <3>2. \A i \in DOMAIN queue' :
            /\ queue'[i] \notin Served'
            /\ \E q \in Proc : pc'[q] \in {"iderw", "isleep"} /\ buf'[q] = queue'[i]
      <4> SUFFICES ASSUME NEW i \in DOMAIN queue
                   PROVE  /\ queue[i] \notin Served
                          /\ \E q \in Proc : pc'[q] \in {"iderw", "isleep"} /\ buf'[q] = queue[i]
        BY <2>1, <3>1, SMTT(30)
      <4>1. PICK q \in Proc : pc[q] \in {"iderw", "isleep"} /\ buf[q] = queue[i]
        BY SMTT(30) DEF Requests
      <4>2. pc'[q] \in {"iderw", "isleep"} /\ buf'[q] = queue[i]
        BY <2>2, <4>1, SMTT(30)
      <4> QED
        BY <4>2, SMTT(30) DEF Requests
    <3>3. ASSUME NEW q \in Proc,
                 pc'[q] = "isleep" \/ (pc'[q] = "iderw" /\ buf'[q] \notin Served')
          PROVE  Queued(buf[q])'
      <4>1. Queued(buf[q]) /\ buf'[q] = buf[q]
        BY <2>2, <3>1, <3>3, SMTT(30) DEF Requests
      <4> QED
        BY <2>1, <4>1, SMTT(30) DEF Queued
    <3>4. \A i, j \in DOMAIN queue' : queue'[i] = queue'[j] => i = j
      BY <2>1, SMTT(30) DEF Requests
    <3> QED
      BY <3>2, <3>3, <3>4, SMTT(30) DEF Requests
  <2>4. ASSUME NEW q \in Proc
        PROVE  /\ pc'[q] = "bsleep" => busy'[buf'[q]]
               /\ pc'[q] = "isleep" => \E i \in DOMAIN queue' : queue'[i] = buf'[q]
    <3>1. pc'[q] = "bsleep" => pc[q] = "bsleep" /\ buf'[q] = buf[q] /\ buf[q] # buf[p]
      BY <2>1, SMTT(30)
    <3>2. pc'[q] = "bsleep" => buf[q] \in Buf /\ busy[buf[q]]
      BY <3>1, SMTT(30) DEF NoMissedWakeup, Holding
    <3>3. pc'[q] = "isleep" => pc[q] = "isleep" /\ buf'[q] = buf[q]
      BY <2>2, SMTT(30)
    <3> QED
      BY <2>1, <3>1, <3>2, <3>3, SMTT(30) DEF NoMissedWakeup
  <2> QED
    BY <2>3, <2>4, SMTT(30) DEF NoMissedWakeup
<1>11. ASSUME NEW p \in Proc, Kill(p)
      PROVE  (Requests /\ NoMissedWakeup)'
  BY <1>11, SMTT(30)
     DEF TypeOK, Holding, HeldByOne, Requests, NoMissedWakeup, Holds, Queued,
     Kill, At, Goto, flags, ide, Served, InSync, Woken
<1>12. ASSUME Ideintr
      PROVE  (Requests /\ NoMissedWakeup)'
  <2> DEFINE b == Head(queue)
  <2>1. /\ queue # <<>> /\ b \in Buf /\ b = queue[1] /\ 1 \in DOMAIN queue
        /\ queue' = Tail(queue)
        /\ UNCHANGED <<busy, buf>>
    BY <1>12, HeadFacts, ZenonT(30) DEF Ideintr
  <2>2. /\ \A i \in DOMAIN queue' : i + 1 \in DOMAIN queue /\ queue'[i] = queue[i + 1]
        /\ \A i \in DOMAIN queue : i = 1 \/ (i - 1 \in DOMAIN queue' /\ queue[i] = queue'[i - 1])
        /\ DOMAIN queue \subseteq Nat /\ DOMAIN queue' \subseteq Nat \ {0}
    BY <2>1, TailFacts, SMTT(30) DEF TypeOK
  <2>3. Served' = Served \cup {b}
    BY <1>12, <2>1, SMTT(30) DEF Ideintr, Served, InSync, TypeOK
  <2>4. \A q \in Proc : pc'[q] = IF buf[q] = b THEN Woken(pc[q]) ELSE pc[q]
    BY <1>12, SMTT(30) DEF Ideintr, Wakeup, TypeOK
  <2>5. \A i \in DOMAIN queue' : queue'[i] # b /\ queue'[i] \in Buf
    BY <2>1, <2>2, SMTT(30) DEF Requests, TypeOK
  <2> HIDE DEF b
  <2>6. \A i, j \in DOMAIN queue' : queue'[i] = queue'[j] => i = j
    BY <2>2, SMTT(30) DEF Requests
  <2>7. ASSUME NEW i \in DOMAIN queue'
        PROVE  /\ queue'[i] \notin Served'
               /\ \E q \in Proc : pc'[q] \in {"iderw", "isleep"} /\ buf'[q] = queue'[i]
    <3>1. queue[i + 1] \notin Served
      BY <2>2, SMTT(30) DEF Requests
    <3>2. PICK q \in Proc : pc[q] \in {"iderw", "isleep"} /\ buf[q] = queue[i + 1]
      BY <2>2, SMTT(30) DEF Requests
    <3>3. pc'[q] = pc[q]
      BY <2>2, <2>4, <2>5, <3>2
    <3> QED
      BY <2>1, <2>2, <2>3, <2>5, <3>1, <3>2, <3>3, SMTT(30)
  <2>8. ASSUME NEW q \in Proc,
               pc'[q] = "isleep" \/ (pc'[q] = "iderw" /\ buf'[q] \notin Served')
        PROVE  Queued(buf[q])'
    <3>1. buf[q] \in Buf /\ buf[q] # b /\ pc'[q] = pc[q]
      BY <2>1, <2>3, <2>4, <2>8, SMTT(30) DEF Woken, TypeOK, Holding, Holds
    <3>2. PICK i \in DOMAIN queue : queue[i] = buf[q]
      BY <2>1, <2>3, <2>8, <3>1, SMTT(30) DEF Requests, Queued
    <3>3. i - 1 \in DOMAIN queue' /\ queue'[i - 1] = buf'[q]
      BY <2>1, <2>2, <3>1, <3>2
    <3> QED
      BY <3>3 DEF Queued
  <2>9. \A q \in Proc : pc'[q] = "bsleep" => busy'[buf'[q]]
    BY <2>1, <2>4, SMTT(30) DEF Woken, NoMissedWakeup, TypeOK
  <2> QED
    BY <2>1, <2>6, <2>7, <2>8, <2>9, SMTT(30) DEF Requests, NoMissedWakeup, Queued
<1>13. CASE UNCHANGED vars
  BY <1>13 DEF TypeOK, Holding, HeldByOne, Requests, NoMissedWakeup, Holds, Queued,
     vars, flags, ide, At, Goto, Served, InSync
<1> QED
  BY <1>1, <1>2, <1>3, <1>4, <1>5, <1>6, <1>7, <1>8, <1>9, <1>10, <1>11, <1>12, <1>13, ZenonT(30)
     DEF Next, Run

\* Whoever may change a buffer does not have the one that the disk works on.
LEMMA HeadHeld ==
  ASSUME TypeOK, Holding, HeldByOne, Requests, queue # <<>>
  PROVE  /\ Head(queue) \in Buf /\ busy[Head(queue)]
         /\ \A p \in Proc : pc[p] \in {"rw", "have"} => buf[p] # Head(queue)
<1>1. Head(queue) \in Buf /\ Head(queue) = queue[1] /\ 1 \in DOMAIN queue
  BY TailFacts, SMTT(30) DEF TypeOK
<1>2. PICK q \in Proc : pc[q] \in {"iderw", "isleep"} /\ buf[q] = queue[1]
  BY <1>1 DEF Requests
<1>3. Holds(q) /\ buf[q] = Head(queue)
  BY <1>1, <1>2 DEF Holds
<1>4. ASSUME NEW p \in Proc, pc[p] \in {"rw", "have"} PROVE buf[p] # Head(queue)
  BY <1>2, <1>3, <1>4, SMTT(30) DEF HeldByOne, Holds
<1> QED
  BY <1>1, <1>3, <1>4, ZenonT(30) DEF Holding

-----------------------------------------------------------------------------
\* Whoever stores in a buffer holds it.
LEMMA HolderHas ==
  ASSUME Holding, NEW p \in Proc, NEW d, Store(p, d)
  PROVE  pc[p] = "have" /\ buf[p] \in Buf /\ sector[buf[p]] \in Sector
BY DEF Store, At, Holding, Holds

\* Every step keeps Serving: nobody changes the buffer the disk works on.
LEMMA ServingStep ==
  ASSUME TypeOK, Holding, HeldByOne, Requests, Serving, [Next]_vars
  PROVE  Serving'
<1>h. queue # <<>> =>
        /\ Head(queue) \in Buf /\ busy[Head(queue)]
        /\ \A p \in Proc : pc[p] \in {"rw", "have"} => buf[p] # Head(queue)
  BY HeadHeld, SMTT(30)
<1>1. ASSUME NEW p \in Proc, NEW s \in Sector, Bread(p, s)
      PROVE  Serving'
  BY <1>1, SMTT(30) DEF TypeOK, Serving, DiskServesHead, Bread, At, Goto, flags, ide
<1>2. ASSUME NEW p \in Proc, BgetCached(p)
      PROVE  Serving'
  BY <1>2, SMTT(30)
     DEF TypeOK, Serving, DiskServesHead, BgetCached, At, Goto, flags, ide, Cached
<1>3. ASSUME NEW p \in Proc, BgetSleep(p)
      PROVE  Serving'
  BY <1>3 DEF TypeOK, Serving, DiskServesHead, BgetSleep, At, Goto, flags, ide, Cached
<1>4. ASSUME NEW p \in Proc, BgetRecycle(p)
      PROVE  Serving'
  BY <1>4, <1>h, ZenonT(30)
     DEF TypeOK, Serving, DiskServesHead, BgetRecycle, At, Goto, flags, ide,
     Recyclable, Cached
<1>5. ASSUME NEW p \in Proc, BgetPanic(p)
      PROVE  Serving'
  BY <1>5, SMTT(30) DEF TypeOK, Serving, DiskServesHead, BgetPanic, At, Goto, flags, ide
<1>6. ASSUME NEW p \in Proc, BreadRw(p)
      PROVE  Serving'
  <2>1. buf[p] \in Buf /\ UNCHANGED flags /\ Iderw(p, buf[p], dirty[buf[p]])
    BY <1>6, SMTT(30) DEF BreadRw, At, Holding, Holds
  <2>2. queue' # <<>> /\ Head(queue') = IF queue = <<>> THEN buf[p] ELSE Head(queue)
    BY <2>1, AppendFacts, SMTT(30) DEF Iderw, TypeOK
  <2> QED
    BY <2>1, <2>2, <1>h, SMTT(30)
       DEF Iderw, Idestart, StartIfFirst, flags, TypeOK, Serving, DiskServesHead
<1>7. ASSUME NEW p \in Proc, IderwLoop(p)
      PROVE  Serving'
  BY <1>7 DEF TypeOK, Serving, DiskServesHead, IderwLoop, At, Goto, flags, ide
<1>8. ASSUME NEW p \in Proc, NEW d \in Data, Bwrite(p, d)
      PROVE  Serving'
  <2>1. /\ buf[p] \in Buf /\ Store(p, d) /\ pc[p] = "have"
        /\ Iderw(p, buf[p], TRUE)
    BY <1>8, HolderHas, ZenonT(30) DEF Bwrite
  <2>2. queue' # <<>> /\ Head(queue') = IF queue = <<>> THEN buf[p] ELSE Head(queue)
    BY <2>1, AppendFacts, SMTT(30) DEF Iderw, TypeOK
  <2>3. CASE queue = <<>>
    BY <2>1, <2>2, <2>3
       DEF Iderw, Idestart, StartIfFirst, Store, TypeOK, Serving, DiskServesHead
  <2>4. CASE queue # <<>>
    <3>1. active' = active /\ Head(queue') = Head(queue)
      BY <2>1, <2>2, <2>4, SMTT(30) DEF Iderw, StartIfFirst
    <3>2. Head(queue) \in Buf /\ Head(queue) # buf[p]
      BY <2>1, <2>4, <1>h, SMTT(30)
    <3> QED
      BY <2>1, <2>2, <2>4, <3>1, <3>2, ZenonT(30) DEF Store, TypeOK, Serving, DiskServesHead
  <2> QED
    BY <2>3, <2>4
<1>9. ASSUME NEW p \in Proc, NEW d \in Data, LogWrite(p, d)
      PROVE  Serving'
  <2>1. buf[p] \in Buf /\ Store(p, d) /\ UNCHANGED ide /\ pc[p] = "have"
    BY <1>9, HolderHas DEF LogWrite
  <2> QED
    <3>1. UNCHANGED <<queue, active, sector>>
      BY <2>1 DEF Store, ide
    <3>2. ASSUME queue # <<>>
          PROVE  dirty'[Head(queue)] = dirty[Head(queue)] /\ bdata'[Head(queue)] = bdata[Head(queue)]
      BY <2>1, <3>2, <1>h, ZenonT(30) DEF Store, TypeOK
    <3> QED
      BY <3>1, <3>2, SMTT(30) DEF Serving, DiskServesHead
<1>10. ASSUME NEW p \in Proc, Brelse(p)
      PROVE  Serving'
  BY <1>10 DEF TypeOK, Serving, DiskServesHead, Brelse, At, Goto, flags, ide,
     MovedToFront, Wakeup, Woken
<1>11. ASSUME NEW p \in Proc, Kill(p)
      PROVE  Serving'
  BY <1>11 DEF TypeOK, Serving, DiskServesHead, Kill, At, Goto, flags, ide, Woken
<1>12. ASSUME Ideintr
      PROVE  Serving'
  <2>1. /\ queue # <<>> /\ queue' = Tail(queue) /\ queue' \in Seq(Buf)
        /\ Head(queue) = queue[1] /\ 1 \in DOMAIN queue
        /\ active' = StartNext(queue')
        /\ UNCHANGED sector
        /\ dirty' = [dirty EXCEPT ![Head(queue)] = FALSE]
    BY <1>12, HeadFacts, TailFacts, ZenonT(30) DEF Ideintr, TypeOK
  <2>2. CASE queue' = <<>>
    BY <2>1, <2>2, ZenonT(30) DEF StartNext, Serving, DiskServesHead
  <2>3. CASE queue' # <<>>
    <3>1. Head(queue') = queue[2] /\ 2 \in DOMAIN queue /\ Head(queue') \in Buf
      BY <2>1, <2>3, TailFacts, SMTT(30) DEF TypeOK
    <3>2. Head(queue') # Head(queue)
      BY <2>1, <3>1, SMTT(30) DEF Requests
    <3> QED
      BY <2>1, <2>3, <3>1, <3>2, ZenonT(30)
         DEF StartNext, Idestart, Serving, DiskServesHead, TypeOK
  <2> QED
    BY <2>2, <2>3
<1>13. CASE UNCHANGED vars
  BY <1>13, SMTT(30) DEF TypeOK, Serving, DiskServesHead, vars, flags, ide, At, Goto
<1> QED
  BY <1>1, <1>2, <1>3, <1>4, <1>5, <1>6, <1>7, <1>8, <1>9, <1>10, <1>11, <1>12, <1>13, ZenonT(30)
     DEF Next, Run

\* A store in a buffer reaches the one buffer of its sector.
LEMMA StoreLosesNothing ==
  ASSUME TypeOK, Holding, OneBufferPerSector, NothingLost,
         NEW p \in Proc, NEW d \in Data, Store(p, d), disk' = disk
  PROVE  NothingLost'
<1>1. buf[p] \in Buf /\ sector[buf[p]] \in Sector
  BY HolderHas
<1> QED
  BY <1>1, BcacheAssumption, SMTT(30)
     DEF Store, TypeOK, OneBufferPerSector, NothingLost, Cached,
     Holding

-----------------------------------------------------------------------------
\* With no disk errors every step keeps NothingLost: bget recycles no dirty buffer,
\* and a buffer stops being dirty when the disk has it.
LEMMA NothingLostStep ==
  ASSUME TypeOK, Holding, HeldByOne, OneBufferPerSector, Requests, Serving, NothingLost,
         [Next]_vars, DiskErrors = FALSE
  PROVE  NothingLost'
<1>1. ASSUME NEW p \in Proc, NEW s \in Sector, Bread(p, s)
      PROVE  NothingLost'
  BY <1>1, SMTT(30) DEF TypeOK, Holding, HeldByOne, OneBufferPerSector, NothingLost, Holds,
     Cached, Bread, At, Goto, flags, ide
<1>2. ASSUME NEW p \in Proc, BgetCached(p)
      PROVE  NothingLost'
  BY <1>2, SMTT(30) DEF TypeOK, Holding, HeldByOne, OneBufferPerSector, NothingLost, Holds,
     Cached, BgetCached, At, Goto, flags, ide
<1>3. ASSUME NEW p \in Proc, BgetSleep(p)
      PROVE  NothingLost'
  BY <1>3, SMTT(30) DEF TypeOK, Holding, HeldByOne, OneBufferPerSector, NothingLost, Holds,
     Cached, BgetSleep, At, Goto, flags, ide
<1>4. ASSUME NEW p \in Proc, BgetRecycle(p)
      PROVE  NothingLost'
  BY <1>4, SMTT(30) DEF TypeOK, Holding, HeldByOne, OneBufferPerSector, NothingLost, Holds,
     Cached, BgetRecycle, At, Goto, flags, ide, Recyclable
<1>5. ASSUME NEW p \in Proc, BgetPanic(p)
      PROVE  NothingLost'
  BY <1>5, SMTT(30) DEF TypeOK, Holding, HeldByOne, OneBufferPerSector, NothingLost, Holds,
     Cached, BgetPanic, At, Goto, flags, ide
<1>6. ASSUME NEW p \in Proc, BreadRw(p)
      PROVE  NothingLost'
  BY <1>6, SMTT(30) DEF TypeOK, Holding, HeldByOne, OneBufferPerSector, NothingLost, Holds,
     Cached, BreadRw, At, Goto, flags, ide, Iderw, Idestart, StartIfFirst
<1>7. ASSUME NEW p \in Proc, IderwLoop(p)
      PROVE  NothingLost'
  BY <1>7 DEF TypeOK, Holding, HeldByOne, OneBufferPerSector, NothingLost, Holds,
     Cached, IderwLoop, At, Goto, flags, ide
<1>8. ASSUME NEW p \in Proc, NEW d \in Data, Bwrite(p, d)
      PROVE  NothingLost'
  <2>1. Store(p, d) /\ disk' = disk
    BY <1>8 DEF Bwrite, Iderw
  <2> QED
    BY <2>1, StoreLosesNothing
<1>9. ASSUME NEW p \in Proc, NEW d \in Data, LogWrite(p, d)
      PROVE  NothingLost'
  <2>1. Store(p, d) /\ disk' = disk
    BY <1>9 DEF LogWrite, ide
  <2> QED
    BY <2>1, StoreLosesNothing
<1>10. ASSUME NEW p \in Proc, Brelse(p)
      PROVE  NothingLost'
  BY <1>10 DEF TypeOK, Holding, HeldByOne, OneBufferPerSector, NothingLost, Holds,
     Cached, Brelse, At, Goto, flags, ide, MovedToFront, Wakeup, Woken
<1>11. ASSUME NEW p \in Proc, Kill(p)
      PROVE  NothingLost'
  BY <1>11 DEF TypeOK, Holding, HeldByOne, OneBufferPerSector, NothingLost, Holds,
     Cached, Kill, At, Goto, flags, ide, Woken
<1>12. ASSUME Ideintr
      PROVE  NothingLost'
  <2> DEFINE b == Head(queue)
  <2>1. /\ b \in Buf /\ sector[b] \in Sector
        /\ active.sector = sector[b] /\ active.write = dirty[b]
        /\ active.write => active.data = bdata[b]
    BY <1>12, HeadFacts DEF Serving
  <2>2. /\ disk' = IF dirty[b] THEN [disk EXCEPT ![sector[b]] = bdata[b]] ELSE disk
        /\ bdata' = IF dirty[b] THEN bdata ELSE [bdata EXCEPT ![b] = disk[sector[b]]]
    BY <1>12, <2>1, ZenonT(30) DEF Ideintr, TypeOK
  <2>3. /\ valid' = [valid EXCEPT ![b] = TRUE]
        /\ dirty' = [dirty EXCEPT ![b] = FALSE]
        /\ UNCHANGED <<sector, latest>>
    BY <1>12, SMTT(30) DEF Ideintr
  <2> HIDE DEF b
  <2>4. CASE dirty[b]
    BY <2>1, <2>2, <2>3, <2>4, BcacheAssumption, SMTT(30)
       DEF TypeOK, Holding, OneBufferPerSector, NothingLost, Cached
  <2>5. CASE ~dirty[b]
    <3>1. disk[sector[b]] = latest[sector[b]]
      BY <2>1, <2>5, BcacheAssumption, ZenonT(30)
         DEF OneBufferPerSector, NothingLost, Cached
    <3> QED
      BY <2>1, <2>2, <2>3, <2>5, <3>1
         DEF TypeOK, Holding, OneBufferPerSector, NothingLost, Cached
  <2> QED
    BY <2>4, <2>5, SMTT(30)
<1>13. CASE UNCHANGED vars
  BY <1>13, SMTT(30) DEF TypeOK, Holding, HeldByOne, OneBufferPerSector, NothingLost, Holds,
     Cached, vars, flags, ide, At, Goto
<1> QED
  BY <1>1, <1>2, <1>3, <1>4, <1>5, <1>6, <1>7, <1>8, <1>9, <1>10, <1>11, <1>12, <1>13, ZenonT(30)
     DEF Next, Run
-----------------------------------------------------------------------------
\* What binit and ideinit leave satisfies the invariant.
LEMMA InitInv == Init => Inv
<1> SUFFICES ASSUME Init PROVE Inv
  OBVIOUS
<1> USE BcacheAssumption DEF Init
<1>1. TypeOK
  <2>1. lru \in [Buf -> Buf]
    BY DEF Buf
  <2>2. 0 \in Data /\ NoBuf \in Buf \cup {NoBuf} /\ queue \in Seq(Buf)
    BY SMTT(30) DEF Data
  <2>3. active \in [sector : Sector \cup {NoSector}, write : BOOLEAN, data : Data]
    BY <2>2, SMTT(30) DEF Off
  <2> QED
    BY <2>1, <2>2, <2>3, ZenonT(30) DEF TypeOK
<1>2. Holding /\ HeldByOne /\ OneBufferPerSector /\ NoMissedWakeup
  BY <1>1, SMTT(30) DEF Holding, HeldByOne, OneBufferPerSector, NoMissedWakeup, Holds
<1>3. Requests /\ Serving
  BY <1>1, SMTT(30) DEF Requests, Serving, DiskServesHead, Queued
<1>4. NothingLost
  BY <1>1 DEF NothingLost
<1> QED
  BY <1>1, <1>2, <1>3, <1>4 DEF Inv

\* Inv holds in every reachable state of the buffer cache.
THEOREM Invariant == Spec => []Inv
<1>1. Inv /\ [Next]_vars => Inv'
  <2> SUFFICES ASSUME Inv, [Next]_vars PROVE Inv'
    OBVIOUS
  <2> USE DEF Inv
  <2>1. TypeOK'
    BY TypeStep
  <2>2. Holding' /\ HeldByOne' /\ OneBufferPerSector'
    BY <2>1, HoldingStep
  <2>3. Requests' /\ NoMissedWakeup'
    BY <2>1, RequestsStep
  <2>4. Serving'
    BY <2>1, ServingStep
  <2>5. DiskErrors = FALSE => NothingLost'
    BY <2>1, NothingLostStep, ZenonT(30)
  <2> QED
    BY <2>1, <2>2, <2>3, <2>4, <2>5
<1> QED
  BY <1>1, InitInv, PTL DEF Spec

\* bget and brelse share the buffers soundly: one holder for a buffer, one buffer
\* for a sector, and nobody sleeps for a buffer or a request that will not come.
THEOREM CacheShared == Spec => []BuffersShared
<1>1. Inv => BuffersShared
  BY DEF Inv, BuffersShared, Serving
<1> QED
  BY <1>1, Invariant, PTL

\* With a disk that does not fail, what was last stored in a sector is in its valid
\* buffer, and on the disk unless a dirty buffer waits: bget evicts no store.
THEOREM StoresKept == DiskErrors = FALSE => (Spec => []NothingLost)
<1> SUFFICES ASSUME DiskErrors = FALSE PROVE Spec => []NothingLost
  BY ZenonT(30)
<1>1. Inv => NothingLost
  BY DEF Inv
<1> QED
  BY <1>1, Invariant, PTL
-----------------------------------------------------------------------------
(* The panic of bget.                                                      *)

\* The buffers that log_write keeps dirty: bwrite's are in idequeue.
Pinned == {b \in Buf : dirty[b]} \ {queue[i] : i \in DOMAIN queue}

\* The log's end bounds what is pinned, and so when bget can panic.
Room == Cardinality(Pinned) <= MaxPinned /\ PanicsOnlyWhenFull

\* Sets of buffers are finite, and have at most as many as a set that has them.
LEMMA BufSets ==
  ASSUME NEW S \in SUBSET Buf
  PROVE  /\ IsFiniteSet(S) /\ Cardinality(S) \in Nat
         /\ \A T \in SUBSET S : Cardinality(T) <= Cardinality(S)
         /\ Cardinality(Buf) = NBUF
<1>1. IsFiniteSet(Buf) /\ Cardinality(Buf) = NBUF
  BY BcacheAssumption, FS_Interval, SMTT(30), Z3T(30) DEF Buf
<1>2. IsFiniteSet(S)
  BY <1>1, FS_Subset, SMTT(30), Z3T(30)
<1>3. Cardinality(S) \in Nat
  BY <1>2, FS_CardinalityType, SMTT(30), Z3T(30)
<1>4. \A T \in SUBSET S : Cardinality(T) <= Cardinality(S)
  BY <1>2, FS_Subset, SMTT(30), Z3T(30)
<1> QED
  BY <1>1, <1>2, <1>3, <1>4, SMTT(30), Z3T(30)

\* Where no more is pinned, and nothing panics, there is room as before.
LEMMA RoomKept ==
  ASSUME Room, Pinned' \subseteq Pinned, ~panicked'
  PROVE  Room'
<1>1. Pinned \in SUBSET Buf /\ Pinned' \in SUBSET Pinned /\ Pinned' \in SUBSET Buf
  BY SMTT(30), ZenonT(30) DEF Pinned
<1>2. Cardinality(Pinned') <= Cardinality(Pinned)
  BY <1>1, BufSets, ZenonT(30), SMTT(30)
<1>3. Cardinality(Pinned') \in Nat /\ Cardinality(Pinned) \in Nat
  BY <1>1, BufSets, ZenonT(30), SMTT(30)
<1> QED
  BY <1>2, <1>3, BcacheAssumption, SMTT(30), Z3T(30) DEF Room, PanicsOnlyWhenFull

\* Every step leaves room: a request pins nothing, its end unpins, log_write stops at
\* the end of the log, and when bget panics the buffers not held are pinned.
LEMMA RoomStep ==
  ASSUME Inv, Room, [Next]_vars
  PROVE  Room'
<1>t. TypeOK /\ Holding /\ Requests /\ Serving
  BY SMTT(30), ZenonT(30) DEF Inv
<1>q. queue \in Seq(Buf) /\ dirty \in [Buf -> BOOLEAN]
  BY <1>t, SMTT(30), Z3T(30) DEF TypeOK
<1>1. ASSUME NEW p \in Proc,
             \/ \E s \in Sector : Bread(p, s)
             \/ BgetCached(p) \/ BgetSleep(p) \/ IderwLoop(p) \/ Brelse(p) \/ Kill(p)
      PROVE  Room'
  <2>1. UNCHANGED <<dirty, queue>> /\ ~panicked'
    <3>1. CASE \E s \in Sector : Bread(p, s)
      BY <3>1, SMTT(30), Z3T(30) DEF Bread, At, flags, ide
    <3>2. CASE BgetCached(p)
      BY <3>2, SMTT(30), Z3T(30) DEF BgetCached, At, ide
    <3>3. CASE BgetSleep(p)
      BY <3>3, SMTT(30), Z3T(30) DEF BgetSleep, At, flags, ide
    <3>4. CASE IderwLoop(p)
      BY <3>4, SMTT(30), Z3T(30) DEF IderwLoop, At, flags, ide
    <3>5. CASE Brelse(p)
      BY <3>5, SMTT(30), Z3T(30) DEF Brelse, At, ide
    <3>6. CASE Kill(p)
      BY <3>6, SMTT(30), Z3T(30) DEF Kill, At, flags, ide
    <3> QED
      BY <1>1, <3>1, <3>2, <3>3, <3>4, <3>5, <3>6, ZenonT(30), SMTT(30)
  <2> QED
    BY <2>1, RoomKept, SMTT(30), Z3T(30) DEF Pinned
<1>2. ASSUME NEW p \in Proc, BgetRecycle(p)
      PROVE  Room'
  <2>1. PICK i \in DOMAIN lru : dirty' = [dirty EXCEPT ![lru[i]] = FALSE]
    BY <1>2, ZenonT(30), SMTT(30) DEF BgetRecycle
  <2>2. UNCHANGED queue /\ ~panicked'
    BY <1>2, SMTT(30), Z3T(30) DEF BgetRecycle, At, ide
  <2> QED
    BY <1>q, <2>1, <2>2, RoomKept, SMTT(30), Z3T(30) DEF Pinned
<1>3. ASSUME NEW p \in Proc, BgetPanic(p)
      PROVE  Room'
  <2> DEFINE B == {b \in Buf : busy[b]}
  <2>1. UNCHANGED <<dirty, queue, busy>> /\ \A b \in Buf : busy[b] \/ dirty[b]
    BY <1>3, SMTT(30), Z3T(30) DEF BgetPanic, Recyclable, flags, ide
  <2>2. \A i \in DOMAIN queue : busy[queue[i]]
    BY <1>t, ZenonT(30), SMTT(30) DEF Requests, Holding, Holds
  <2>3. Buf = B \cup Pinned
    BY <2>1, <2>2, SMTT(30), Z3T(30) DEF Pinned
  <2>4. B \in SUBSET Buf /\ Pinned \in SUBSET Buf /\ B \cap Pinned \in SUBSET Buf
    BY SMTT(30), ZenonT(30) DEF Pinned
  <2> HIDE DEF B
  <2>5. /\ IsFiniteSet(B) /\ Cardinality(B) \in Nat
        /\ IsFiniteSet(Pinned) /\ Cardinality(Pinned) \in Nat
        /\ Cardinality(B \cap Pinned) \in Nat /\ Cardinality(Buf) = NBUF
    BY <2>4, BufSets, ZenonT(30), SMTT(30)
  <2>6. Cardinality(Buf) = Cardinality(B) + Cardinality(Pinned) - Cardinality(B \cap Pinned)
    BY <2>3, <2>5, FS_Union, ZenonT(30), SMTT(30)
  <2>7. Cardinality(B) + MaxPinned >= NBUF
    BY <2>5, <2>6, BcacheAssumption, SMTT(30), Z3T(30) DEF Room
  <2>8. B' = B /\ Pinned' = Pinned
    BY <2>1, SMTT(30), Z3T(30) DEF B, Pinned
  <2> QED
    BY <2>7, <2>8, ZenonT(30), SMTT(30) DEF Room, PanicsOnlyWhenFull, B
<1>4. ASSUME NEW p \in Proc, BreadRw(p)
      PROVE  Room'
  <2>1. UNCHANGED dirty /\ queue' = Append(queue, buf[p]) /\ ~panicked'
    BY <1>4, SMTT(30), Z3T(30) DEF BreadRw, Iderw, At, flags
  <2>2. buf[p] \in Buf
    BY <1>4, <1>t, SMTT(30), Z3T(30) DEF BreadRw, At, Holding, Holds
  <2>3. \A i \in DOMAIN queue : i \in DOMAIN queue' /\ queue'[i] = queue[i]
    BY <1>q, <2>1, <2>2, AppendFacts, SMTT(30), Z3T(30)
  <2>4. Pinned' \subseteq Pinned
    BY <2>1, <2>3, SMTT(30), Z3T(30) DEF Pinned
  <2> QED
    BY <2>1, <2>4, RoomKept, SMTT(30), Z3T(30)
<1>5. ASSUME NEW p \in Proc, NEW d \in Data, Bwrite(p, d)
      PROVE  Room'
  <2>1. /\ dirty' = [dirty EXCEPT ![buf[p]] = TRUE] /\ queue' = Append(queue, buf[p])
        /\ ~panicked' /\ Store(p, d)
    BY <1>5, SMTT(30), Z3T(30) DEF Bwrite, Store, Iderw, At
  <2>2. buf[p] \in Buf
    BY <1>t, <2>1, HolderHas, ZenonT(30), SMTT(30)
  <2>3. /\ \A i \in DOMAIN queue : i \in DOMAIN queue' /\ queue'[i] = queue[i]
        /\ \E n \in DOMAIN queue' : queue'[n] = buf[p]
    BY <1>q, <2>1, <2>2, AppendFacts, SMTT(30), Z3T(30)
  <2>4. Pinned' \subseteq Pinned
    BY <1>q, <2>1, <2>2, <2>3, SMTT(30), Z3T(30) DEF Pinned
  <2> QED
    BY <2>1, <2>4, RoomKept, SMTT(30), Z3T(30)
<1>6. ASSUME NEW p \in Proc, NEW d \in Data, LogWrite(p, d)
      PROVE  Room'
  <2> DEFINE b == buf[p]
  <2>1. /\ dirty' = [dirty EXCEPT ![b] = TRUE] /\ UNCHANGED queue
        /\ ~panicked' /\ Store(p, d)
    BY <1>6, SMTT(30), Z3T(30) DEF LogWrite, Store, At, ide
  <2>2. dirty[b] \/ Cardinality(Pinned) < MaxPinned
    BY <1>6, ZenonT(30), SMTT(30) DEF LogWrite, Pinnable, Pinned
  <2>3. b \in Buf
    BY <1>t, <2>1, HolderHas, ZenonT(30), SMTT(30)
  <2>4. CASE dirty[b]
    BY <1>q, <2>1, <2>3, <2>4, RoomKept, SMTT(30), Z3T(30) DEF Pinned
  <2>5. CASE Cardinality(Pinned) < MaxPinned
    <3>1. Pinned' \subseteq Pinned \cup {b}
      BY <1>q, <2>1, <2>3, SMTT(30), Z3T(30) DEF Pinned
    <3>2. Pinned \in SUBSET Buf /\ Pinned \cup {b} \in SUBSET Buf /\ Pinned' \in SUBSET Buf
      BY <2>3, SMTT(30), Z3T(30) DEF Pinned
    <3>3. /\ IsFiniteSet(Pinned) /\ Cardinality(Pinned) \in Nat /\ Cardinality(Pinned') \in Nat
          /\ Cardinality(Pinned') <= Cardinality(Pinned \cup {b})
      BY <3>1, <3>2, BufSets, ZenonT(30), SMTT(30)
    <3>4. Cardinality(Pinned \cup {b}) = IF b \in Pinned THEN Cardinality(Pinned)
                                          ELSE Cardinality(Pinned) + 1
      BY <3>3, FS_AddElement, ZenonT(30), SMTT(30)
    <3>5. Cardinality(Pinned') <= MaxPinned
      BY <2>5, <3>3, <3>4, BcacheAssumption, SMTT(30), Z3T(30)
    <3> QED
      BY <2>1, <3>5, SMTT(30), Z3T(30) DEF Room, PanicsOnlyWhenFull
  <2> QED
    BY <2>2, <2>4, <2>5, SMTT(30), Z3T(30)
<1>7. ASSUME Ideintr
      PROVE  Room'
  <2>1. /\ queue # <<>> /\ queue' = Tail(queue) /\ Head(queue) = queue[1] /\ Head(queue) \in Buf
        /\ dirty' = [dirty EXCEPT ![Head(queue)] = FALSE] /\ ~panicked'
    BY <1>7, <1>t, HeadFacts, ZenonT(30), SMTT(30) DEF Ideintr
  <2>2. \A i \in DOMAIN queue : i = 1 \/ (i - 1 \in DOMAIN queue' /\ queue[i] = queue'[i - 1])
    BY <1>q, <2>1, TailFacts, ZenonT(30), SMTT(30)
  <2>3. ASSUME NEW b \in Buf, dirty'[b], \A i \in DOMAIN queue' : queue'[i] # b
        PROVE  dirty[b] /\ \A i \in DOMAIN queue : queue[i] # b
    <3>1. dirty[b] /\ b # Head(queue)
      BY <1>q, <2>1, <2>3, ZenonT(30), SMTT(30)
    <3> QED
      BY <2>1, <2>2, <2>3, <3>1, ZenonT(30), SMTT(30)
  <2>4. Pinned' \subseteq Pinned
    BY <2>3, SMTT(30), Z3T(30) DEF Pinned
  <2> QED
    BY <2>1, <2>4, RoomKept, SMTT(30), Z3T(30)
<1>8. CASE UNCHANGED vars
  BY <1>8, SMTT(30), Z3T(30) DEF vars, flags, ide, Room, Pinned, PanicsOnlyWhenFull
<1> QED
  BY <1>1, <1>2, <1>3, <1>4, <1>5, <1>6, <1>7, <1>8, ZenonT(30), SMTT(30) DEF Next, Run

\* bget panics only when the buffers that processes hold and the most that the log
\* can pin fill the cache, for any NBUF and any end of the log.
THEOREM CacheSuffices == Spec => []PanicsOnlyWhenFull
<1>1. Init => Room
  <2> SUFFICES ASSUME Init PROVE Room
    OBVIOUS
  <2>1. Pinned = {} /\ ~panicked
    BY SMTT(30), ZenonT(30) DEF Init, Pinned
  <2> QED
    BY <2>1, FS_EmptySet, BcacheAssumption, SMTT(30), Z3T(30)
       DEF Room, PanicsOnlyWhenFull
<1>2. Inv /\ Room /\ [Next]_vars => Room'
  BY RoomStep, SMTT(30), Z3T(30)
<1>3. Room => PanicsOnlyWhenFull
  BY SMTT(30), ZenonT(30) DEF Room
<1> QED
  BY <1>1, <1>2, <1>3, Invariant, PTL DEF Spec
=============================================================================
