------------------------------- MODULE Bcache -------------------------------
(***************************************************************************)
(* The buffer cache of bio.c over the disk driver of ide.c: bget, bread,   *)
(* bwrite and brelse by processes that share few buffers, the queue of     *)
(* requests of iderw, the disk controller, and the interrupt that ends a   *)
(* request.                                                                *)
(*                                                                         *)
(* A section under bcache.lock or idelock is one step.  The sleepers of    *)
(* bget and of iderw use the same channel, the buffer, and kill may wake   *)
(* one early.  A process has one buffer at a time.                         *)
(***************************************************************************)
EXTENDS Integers, Sequences, FiniteSets

CONSTANTS
  Proc,
  NBUF,
  Sector,
  NoSector,    \* the sector of a buffer not used yet
  MaxData,     \* bound: a sector holds one of the values 0..MaxData
  MaxPinned,   \* buffers that log_write keeps dirty at a time (log.size - 1)
  DiskErrors   \* may the disk fail a request?

ASSUME BcacheAssumption ==
  /\ NBUF \in Nat \ {0}
  /\ MaxData \in Nat /\ MaxPinned \in Nat
  /\ DiskErrors \in BOOLEAN
  /\ NoSector \notin Sector

VARIABLES
  sector, busy, valid, dirty, bdata,  \* struct buf
  lru,         \* the list at bcache.head, most recently used first
  queue,       \* idequeue
  active,      \* the command the controller is working on, if any
  disk,        \* content of the sectors
  latest,      \* what the last holder of each sector's buffer stored in it
  pc,          \* per process: "idle", "bget", "bsleep" (in bget), "rw" (about
               \* to call iderw), "iderw", "isleep" (in iderw), "have" (bread
               \* returned a buffer)
  buf,         \* per process: the buffer it holds or sleeps for
  want,        \* per process: the sector it asked for
  panicked

flags == <<sector, busy, valid, dirty, bdata>>
ide == <<queue, active, disk>>
vars == <<flags, lru, ide, latest, pc, buf, want, panicked>>

Buf == 1..NBUF
Data == 0..MaxData
NoBuf == 0
Off == [sector |-> NoSector, write |-> FALSE, data |-> 0]

\* binit puts each buffer before those already in the list.
Init ==
  /\ sector = [b \in Buf |-> NoSector]
  /\ busy = [b \in Buf |-> FALSE]
  /\ valid = [b \in Buf |-> FALSE]
  /\ dirty = [b \in Buf |-> FALSE]
  /\ bdata = [b \in Buf |-> 0]
  /\ lru = [i \in Buf |-> NBUF + 1 - i]
  /\ queue = <<>>
  /\ active = Off
  /\ disk \in [Sector -> Data]
  /\ latest = disk
  /\ pc = [p \in Proc |-> "idle"]
  /\ buf = [p \in Proc |-> NoBuf]
  /\ want = [p \in Proc |-> NoSector]
  /\ panicked = FALSE

At(p, label) == ~panicked /\ pc[p] = label
Goto(p, label) == pc' = [pc EXCEPT ![p] = label]

\* A sleeper that is made runnable looks at its condition again.
Woken(label) ==
  CASE label = "bsleep" -> "bget" [] label = "isleep" -> "iderw" [] OTHER -> label

Wakeup(b) == [q \in Proc |-> IF buf[q] = b THEN Woken(pc[q]) ELSE pc[q]]
-----------------------------------------------------------------------------
(* bget and bread.                                                         *)

Bread(p, s) ==
  /\ At(p, "idle")
  /\ want' = [want EXCEPT ![p] = s]
  /\ Goto(p, "bget")
  /\ UNCHANGED <<flags, lru, ide, latest, buf, panicked>>

\* Fault for BuffersShared: a buffer that is being read does not count.
CachedValid(s) == {b \in Buf : sector[b] = s /\ valid[b]}

Cached(s) == {b \in Buf : sector[b] = s}

\* bget finds the sector cached and free; bread reads it if it is not valid.
BgetCached(p) ==
  /\ At(p, "bget")
  /\ \E b \in Cached(want[p]) :
       /\ ~busy[b]
       /\ busy' = [busy EXCEPT ![b] = TRUE]
       /\ buf' = [buf EXCEPT ![p] = b]
       /\ Goto(p, IF valid[b] THEN "have" ELSE "rw")
  /\ UNCHANGED <<sector, valid, dirty, bdata, lru, ide, latest, want, panicked>>

\* bget finds it busy.
BgetSleep(p) ==
  /\ At(p, "bget")
  /\ \E b \in Cached(want[p]) :
       /\ busy[b]
       /\ buf' = [buf EXCEPT ![p] = b]
  /\ Goto(p, "bsleep")
  /\ UNCHANGED <<flags, lru, ide, latest, want, panicked>>

\* Fault for NothingLost: bget takes a dirty buffer.
RecyclableDirty(b) == ~busy[b]

Recyclable(b) == ~busy[b] /\ ~dirty[b]

\* Not cached: the least recently used buffer that can be recycled.
BgetRecycle(p) ==
  /\ At(p, "bget")
  /\ Cached(want[p]) = {}
  /\ \E i \in DOMAIN lru :
       /\ Recyclable(lru[i])
       /\ \A j \in DOMAIN lru : j > i => ~Recyclable(lru[j])
       /\ sector' = [sector EXCEPT ![lru[i]] = want[p]]
       /\ busy' = [busy EXCEPT ![lru[i]] = TRUE]
       /\ valid' = [valid EXCEPT ![lru[i]] = FALSE]
       /\ dirty' = [dirty EXCEPT ![lru[i]] = FALSE]
       /\ buf' = [buf EXCEPT ![p] = lru[i]]
  /\ Goto(p, "rw")
  /\ UNCHANGED <<bdata, lru, ide, latest, want, panicked>>

\* panic("bget: no buffers")
BgetPanic(p) ==
  /\ At(p, "bget")
  /\ Cached(want[p]) = {}
  /\ \A b \in Buf : ~Recyclable(b)
  /\ panicked' = TRUE
  /\ UNCHANGED <<flags, lru, ide, latest, pc, buf, want>>
-----------------------------------------------------------------------------
(* iderw, the controller and its interrupt.                                *)

\* idestart: the command for a buffer; a write takes the data along.
Idestart(b, d) == [sector |-> sector[b], write |-> d, data |-> IF d THEN bdata'[b] ELSE 0]

\* if(idequeue == b)
StartIfFirst(b) == queue = <<>>

\* iderw: append the buffer, start the disk if it is the only one, and sleep.
Iderw(p, b, d) ==
  /\ queue' = Append(queue, b)
  /\ active' = IF StartIfFirst(b) THEN Idestart(b, d) ELSE active
  /\ disk' = disk
  /\ Goto(p, "isleep")

\* bread's call of iderw.
BreadRw(p) ==
  /\ At(p, "rw")
  /\ UNCHANGED <<flags, lru, latest, buf, want, panicked>>
  /\ Iderw(p, buf[p], dirty[buf[p]])

\* A woken process in iderw's loop.
InSync(b) == valid[b] /\ ~dirty[b]

IderwLoop(p) ==
  /\ At(p, "iderw")
  /\ Goto(p, IF InSync(buf[p]) THEN "have" ELSE "isleep")
  /\ UNCHANGED <<flags, lru, ide, latest, buf, want, panicked>>

\* Fault for DiskRequestsEnd: ideintr does not start the next request.
StartNothing(q) == Off

\* ideintr's idestart for the rest of the queue.
StartNext(q) == IF q = <<>> THEN Off ELSE Idestart(Head(q), dirty[Head(q)])

\* The disk ends its command, and ideintr handles the interrupt.  A request
\* that failed looks to the driver as one that was served.
Ideintr ==
  /\ ~panicked /\ active # Off
  /\ LET b == Head(queue)
     IN  /\ \E ok \in {TRUE} \cup {~DiskErrors} :
              /\ disk' = IF active.write /\ ok
                         THEN [disk EXCEPT ![active.sector] = active.data] ELSE disk
              /\ bdata' = IF ~dirty[b] /\ ok
                          THEN [bdata EXCEPT ![b] = disk[active.sector]] ELSE bdata
         /\ valid' = [valid EXCEPT ![b] = TRUE]
         /\ dirty' = [dirty EXCEPT ![b] = FALSE]
         /\ pc' = Wakeup(b)
  /\ queue' = Tail(queue)
  /\ active' = StartNext(queue')
  /\ UNCHANGED <<sector, busy, lru, latest, buf, want, panicked>>
-----------------------------------------------------------------------------
(* What a process does with the buffer it has.                             *)

\* It stores d in the buffer, which becomes dirty.
Store(p, d) ==
  /\ At(p, "have")
  /\ bdata' = [bdata EXCEPT ![buf[p]] = d]
  /\ latest' = [latest EXCEPT ![sector[buf[p]]] = d]
  /\ dirty' = [dirty EXCEPT ![buf[p]] = TRUE]
  /\ UNCHANGED <<sector, busy, valid, lru, buf, want, panicked>>

\* bwrite
Bwrite(p, d) == Store(p, d) /\ Iderw(p, buf[p], TRUE)

\* Fault for PanicsOnlyWhenFull: log_write does not see the end of the log.
PinnableAlways(b) == b \in Buf

\* log_write's test for the end of the log; a buffer in the log is absorbed.
Pinnable(b) ==
  LET written == {queue[i] : i \in DOMAIN queue}
  IN  dirty[b] \/ Cardinality({c \in Buf : dirty[c]} \ written) < MaxPinned

\* log_write marks the buffer dirty, so that bget does not recycle it.
LogWrite(p, d) == Store(p, d) /\ Pinnable(buf[p]) /\ UNCHANGED <<ide, pc>>

\* The list with b taken out and put at its head.
MovedToFront(b) ==
  LET i == CHOOSE k \in Buf : lru[k] = b
  IN  [k \in Buf |-> IF k = 1 THEN b ELSE IF k <= i THEN lru[k - 1] ELSE lru[k]]

Brelse(p) ==
  /\ At(p, "have")
  /\ lru' = MovedToFront(buf[p])
  /\ busy' = [busy EXCEPT ![buf[p]] = FALSE]
  /\ pc' = [Wakeup(buf[p]) EXCEPT ![p] = "idle"]
  /\ buf' = [buf EXCEPT ![p] = NoBuf]
  /\ want' = [want EXCEPT ![p] = NoSector]
  /\ UNCHANGED <<sector, valid, dirty, bdata, ide, latest, panicked>>

\* kill makes a sleeper runnable.
Kill(p) ==
  /\ At(p, "bsleep") \/ At(p, "isleep")
  /\ Goto(p, Woken(pc[p]))
  /\ UNCHANGED <<flags, lru, ide, latest, buf, want, panicked>>

\* What a process does without being asked.
Run(p) ==
  \/ BgetCached(p) \/ BgetSleep(p) \/ BgetRecycle(p) \/ BgetPanic(p)
  \/ BreadRw(p) \/ IderwLoop(p)

Next ==
  \/ \E p \in Proc :
       \/ \E s \in Sector : Bread(p, s)
       \/ Run(p)
       \/ \E d \in Data : Bwrite(p, d) \/ LogWrite(p, d)
       \/ Brelse(p)
       \/ Kill(p)
  \/ Ideintr

Spec == Init /\ [][Next]_vars

\* A runnable process is scheduled; the disk ends what it has started.
FairSpec == Spec /\ WF_vars(Ideintr) /\ \A p \in Proc : WF_vars(Run(p))
-----------------------------------------------------------------------------
(* Properties.                                                             *)

\* The types of the variables.
TypeOK ==
  /\ sector \in [Buf -> Sector \cup {NoSector}]
  /\ busy \in [Buf -> BOOLEAN] /\ valid \in [Buf -> BOOLEAN] /\ dirty \in [Buf -> BOOLEAN]
  /\ bdata \in [Buf -> Data] /\ disk \in [Sector -> Data] /\ latest \in [Sector -> Data]
  /\ lru \in [Buf -> Buf]
  /\ queue \in Seq(Buf)
  /\ active \in [sector : Sector \cup {NoSector}, write : BOOLEAN, data : Data]
  /\ pc \in [Proc -> {"idle", "bget", "bsleep", "rw", "iderw", "isleep", "have"}]
  /\ buf \in [Proc -> Buf \cup {NoBuf}]
  /\ want \in [Proc -> Sector \cup {NoSector}]
  /\ panicked \in BOOLEAN

Holds(p) == pc[p] \in {"rw", "iderw", "isleep", "have"}

\* bio.c's "Only one process at a time can use a buffer": two processes past
\* bget never have the same buffer, and exactly the buffers held are B_BUSY.
HeldByOne ==
  /\ \A p, q \in Proc : Holds(p) /\ Holds(q) /\ buf[p] = buf[q] => p = q
  /\ \A b \in Buf : busy[b] <=> \E p \in Proc : Holds(p) /\ buf[p] = b

\* Two processes that ask for a sector at once, one while the other still
\* reads it, meet in one buffer; bget caches no sector twice.
OneBufferPerSector ==
  \A b, c \in Buf : sector[b] = sector[c] /\ sector[b] # NoSector => b = c

\* Whoever reads a sector through the cache sees what was last stored in it:
\* it is in the valid buffer if there is one, and on the disk unless a dirty
\* buffer waits to be written.  No eviction by bget loses a store.
NothingLost ==
  /\ \A b \in Buf : valid[b] => bdata[b] = latest[sector[b]]
  /\ \A s \in Sector : (\A b \in Cached(s) : ~dirty[b]) => disk[s] = latest[s]

\* The controller works on the request at the head of idequeue, the one
\* ideintr takes to be served, and on none if idequeue is empty.
DiskServesHead ==
  IF queue = <<>> THEN active = Off
  ELSE /\ active.sector = sector[Head(queue)]
       /\ active.write = dirty[Head(queue)]

\* A process sleeps in bget only for a buffer that is held, and in iderw only
\* for one that the disk has still to serve.
NoMissedWakeup ==
  \A p \in Proc :
    /\ pc[p] = "bsleep" => busy[buf[p]]
    /\ pc[p] = "isleep" => \E i \in DOMAIN queue : queue[i] = buf[p]

\* Processes share the buffers soundly: one holder for a buffer, one buffer for
\* a sector, and no sleeper whose wakeup is past.
BuffersShared == HeldByOne /\ OneBufferPerSector /\ NoMissedWakeup

\* "Return a B_BUSY buf with the contents of the indicated disk sector": a
\* buffer that bread returned and nobody changed is what the sector holds.
ContentsOfSector ==
  \A p \in Proc : pc[p] = "have" /\ ~dirty[buf[p]] => bdata[buf[p]] = disk[sector[buf[p]]]

\* Every request handed to iderw is served and its caller goes on, unless another
\* process panics in bget.
RequestsEnd ==
  \A p \in Proc : pc[p] \in {"rw", "iderw", "isleep"} ~> pc[p] = "have" \/ panicked

\* bget panics ("bget: no buffers") only when the buffers that processes hold and
\* as many as log_write lets a transaction keep dirty fill the cache, so that an
\* NBUF above both excludes it: no buffer stays busy or dirty besides those.
PanicsOnlyWhenFull == panicked => Cardinality({b \in Buf : busy[b]}) + MaxPinned >= NBUF
=============================================================================
