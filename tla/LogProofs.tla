----------------------------- MODULE LogProofs -----------------------------
(***************************************************************************)
(* Proofs about Log, for every number of processes, sectors and contents   *)
(* and every log size: type correctness, the consistency of the log, and   *)
(* that the log implements AtomicDisk.                                     *)
(***************************************************************************)
EXTENDS Log, TLAPS

Inv == TypeOK /\ LogAgrees

\* The bound on a transaction is at least one block.
LEMMA CapNat == Cap \in Nat /\ Cap >= 1
BY SizeAssumption DEF Cap

\* An absorbed or installed sector's slot is its position in the header.
LEMMA SlotOfNamed ==
  ASSUME NEW h \in Seq(Sector), NamedOnce(h), NEW i \in 1..Len(h)
  PROVE  SlotOf(h, h[i]) = i
BY DEF SlotOf, Logged, NamedOnce

\* Any sector has a slot, the first free one when it is not logged.
LEMMA SlotOfRange ==
  ASSUME NEW h \in Seq(Sector), NEW s \in Sector
  PROVE  /\ SlotOf(h, s) \in 1..Len(h) + 1
         /\ s \in Logged(h) => SlotOf(h, s) \in 1..Len(h) /\ h[SlotOf(h, s)] = s
         /\ s \notin Logged(h) => SlotOf(h, s) = Len(h) + 1
<1>1. CASE s \in Logged(h)
  <2>1. \E i \in 1..Len(h) : h[i] = s
    BY <1>1 DEF Logged
  <2>2. SlotOf(h, s) = CHOOSE i \in 1..Len(h) : h[i] = s
    BY <1>1 DEF SlotOf
  <2> QED
    BY <1>1, <2>1, <2>2
<1>2. CASE s \notin Logged(h)
  BY <1>2 DEF SlotOf
<1> QED
  BY <1>1, <1>2

\* mkfs's empty log is consistent.
LEMMA InitInv == Init => Inv
<1> SUFFICES ASSUME Init PROVE Inv
  OBVIOUS
<1>1. TypeOK
  <2>1. head \in Seq(Sector) /\ lh \in Seq(Sector) /\ Len(head) = 0 /\ Len(lh) = 0
    BY DEF Init
  <2>2. cache \in [Sector -> Data \cup {NoBuf}] /\ dirty \subseteq Sector
    BY DEF Init
  <2>3. pc \in [Proc -> {"out", "asleep", "woken", "trans"}] /\ phase \in Phase
    BY DEF Init, Phase
  <2>4. tail \in 0..Cap /\ Len(lh) <= Cap /\ Len(head) <= Cap
    BY CapNat, <2>1 DEF Init
  <2> QED
    BY <2>1, <2>2, <2>3, <2>4, ZenonT(30) DEF Init, TypeOK
<1>2. NamedOnce(lh) /\ NamedOnce(head)
  BY DEF Init, NamedOnce
<1>3. OneTrans /\ HeadsAgree
  BY DEF Init, OneTrans, HeadsAgree, Down
<1>4. Pinned /\ Replayed /\ CleanCoherent
  BY DEF Init, Pinned, Replayed, CleanCoherent, Down
<1> QED
  BY <1>1, <1>2, <1>3, <1>4 DEF Inv, LogAgrees

\* Recovery's read of the header and each install step keep the log consistent.
LEMMA RecoverInv ==
  ASSUME Inv, ReadHead \/ InstallTrans \/ EraseHead
  PROVE  Inv'
<1> USE CapNat DEF Inv, LogAgrees
<1>1. CASE ReadHead
  <2>1. TypeOK'
    BY <1>1 DEF TypeOK, ReadHead, disk, Phase
  <2>2. NamedOnce(lh)' /\ NamedOnce(head)' /\ OneTrans' /\ HeadsAgree'
    BY <1>1 DEF ReadHead, disk, NamedOnce, OneTrans, HeadsAgree, Down, TypeOK
  <2>3. Pinned' /\ Replayed' /\ CleanCoherent'
    BY <1>1 DEF ReadHead, disk, Pinned, Replayed, CleanCoherent, Down, TypeOK
  <2> QED
    BY <2>1, <2>2, <2>3
<1>2. CASE InstallTrans
  <2> DEFINE s == lh[tail + 1]
             d == logblk[tail + 1]
  <2>1. /\ phase \in {"recover", "install"} /\ tail < Len(lh)
        /\ home' = [home EXCEPT ![s] = d]
        /\ cache' = [cache EXCEPT ![s] = d]
        /\ dirty' = dirty \ {s}
        /\ tail' = tail + 1
        /\ UNCHANGED <<logblk, head, lh, busy, phase, pc>>
    BY <1>2 DEF InstallTrans
  <2>2. s \in Sector /\ d \in Data /\ tail + 1 \in 1..Len(lh) /\ tail + 1 \in Slot
    BY <2>1 DEF TypeOK, Slot
  <2>3. TypeOK'
    BY <2>1, <2>2 DEF TypeOK
  <2>4. NamedOnce(lh)' /\ NamedOnce(head)' /\ OneTrans' /\ HeadsAgree'
    BY <2>1, <2>2 DEF NamedOnce, OneTrans, HeadsAgree, Down, TypeOK
  <2>5. \A i \in 1..Len(lh) : i # tail + 1 => lh[i] # s
    BY <2>2 DEF NamedOnce
  <2>6. Pinned'
    <3>1. phase = "install" => dirty' = {lh[i] : i \in tail + 2..Len(lh)}
      BY <2>1, <2>2, <2>5, SMTT(30) DEF Pinned, TypeOK
    <3>2. phase = "recover" => dirty' = {}
      BY <2>1 DEF Pinned, Down
    <3>3. ASSUME phase = "install", NEW i \in 1..Len(lh), lh[i] \in dirty'
          PROVE  cache'[lh[i]] = logblk[i]
      BY <3>3, <2>1, <2>2, <2>5, SMTT(30) DEF Pinned, TypeOK, Down
    <3>4. phase' = phase /\ phase \in {"recover", "install"}
          /\ tail' = tail + 1 /\ lh' = lh /\ logblk' = logblk /\ tail \in Nat
      BY <2>1 DEF TypeOK
    <3>5. CASE phase = "install"
      <4>1. dirty' = {lh'[i] : i \in tail' + 1..Len(lh')}
        <5>1. tail' + 1 = tail + 2
          BY <3>4
        <5> QED
          BY <3>1, <3>4, <3>5, <5>1
      <4> QED
        BY <3>3, <3>4, <3>5, <4>1 DEF Pinned, Down
    <3>6. CASE phase = "recover"
      BY <3>2, <3>4, <3>6 DEF Pinned, Down
    <3> QED
      BY <3>4, <3>5, <3>6
  <2>7. Replayed'
    BY <2>1, <2>2, <2>5 DEF Replayed, TypeOK
  <2>8. CleanCoherent'
    BY <2>1, <2>2 DEF CleanCoherent, TypeOK
  <2> QED
    BY <2>3, <2>4, <2>6, <2>7, <2>8
<1>3. CASE EraseHead
  <2>1. TypeOK'
    BY <1>3 DEF TypeOK, EraseHead, Phase
  <2>2. NamedOnce(lh)' /\ NamedOnce(head)' /\ OneTrans' /\ HeadsAgree'
    BY <1>3 DEF EraseHead, NamedOnce, OneTrans, HeadsAgree, Down, TypeOK
  <2>3. dirty = {}
    BY <1>3 DEF EraseHead, Installed, Pinned, Down, TypeOK
  <2>4. Pinned' /\ Replayed' /\ CleanCoherent'
    BY <1>3, <2>3
       DEF EraseHead, Pinned, Replayed, CleanCoherent, Logged, Down, TypeOK
  <2> QED
    BY <2>1, <2>2, <2>4
<1> QED
  BY <1>1, <1>2, <1>3

\* Entering, leaving and waiting for a transaction.
LEMMA TransInv ==
  ASSUME Inv, NEW p \in Proc,
         BeginTrans(p) \/ BeginSleep(p) \/ TooBig(p) \/ CommitHead(p) \/ CommitEnd(p)
  PROVE  Inv'
<1> USE CapNat DEF Inv, LogAgrees
<1>1. CASE BeginTrans(p)
  <2>1. TypeOK' /\ NamedOnce(lh)' /\ NamedOnce(head)'
    BY <1>1 DEF TypeOK, BeginTrans, disk, NamedOnce
  <2>2. OneTrans' /\ HeadsAgree'
    BY <1>1 DEF BeginTrans, disk, OneTrans, HeadsAgree, Down, TypeOK
  <2>3. Pinned' /\ Replayed' /\ CleanCoherent'
    BY <1>1 DEF BeginTrans, disk, Pinned, Replayed, CleanCoherent, Down, Logged
  <2> QED
    BY <2>1, <2>2, <2>3
<1>2. CASE BeginSleep(p)
  <2>1. TypeOK' /\ NamedOnce(lh)' /\ NamedOnce(head)'
    BY <1>2 DEF TypeOK, BeginSleep, disk, mem, NamedOnce
  <2>2. OneTrans' /\ HeadsAgree'
    BY <1>2 DEF BeginSleep, disk, mem, OneTrans, HeadsAgree, Down, TypeOK
  <2>3. Pinned' /\ Replayed' /\ CleanCoherent'
    BY <1>2 DEF BeginSleep, disk, mem, Pinned, Replayed, CleanCoherent, Down, Logged
  <2> QED
    BY <2>1, <2>2, <2>3
<1>3. CASE TooBig(p)
  <2>1. TypeOK' /\ NamedOnce(lh)' /\ NamedOnce(head)'
    BY <1>3 DEF TypeOK, TooBig, disk, mem, NamedOnce, Phase
  <2>2. OneTrans' /\ HeadsAgree'
    BY <1>3 DEF TooBig, disk, mem, OneTrans, HeadsAgree, Down, TypeOK
  <2>3. Pinned' /\ Replayed' /\ CleanCoherent'
    BY <1>3 DEF TooBig, disk, mem, Pinned, Replayed, CleanCoherent, Down, Logged
  <2> QED
    BY <2>1, <2>2, <2>3
<1>4. CASE CommitHead(p)
  <2>1. TypeOK' /\ NamedOnce(lh)' /\ NamedOnce(head)'
    BY <1>4 DEF TypeOK, CommitHead, NamedOnce, Phase
  <2>2. OneTrans' /\ HeadsAgree'
    BY <1>4 DEF CommitHead, OneTrans, HeadsAgree, Down, TypeOK
  <2>3. Pinned' /\ Replayed' /\ CleanCoherent'
    BY <1>4 DEF CommitHead, Pinned, Replayed, CleanCoherent, Down, Logged, TypeOK
  <2> QED
    BY <2>1, <2>2, <2>3
<1>5. CASE CommitEnd(p)
  <2>1. pc' \in [Proc -> {"out", "asleep", "woken", "trans"}]
    BY <1>5 DEF CommitEnd, WakeupLog, TypeOK
  <2>2. TypeOK' /\ NamedOnce(lh)' /\ NamedOnce(head)'
    BY <1>5, <2>1, ZenonT(30) DEF TypeOK, CommitEnd, disk, NamedOnce, Phase
  <2>3. \A q \in Proc : pc'[q] # "trans"
    BY <1>5 DEF CommitEnd, WakeupLog, OneTrans, TypeOK
  <2>4. OneTrans' /\ HeadsAgree'
    BY <1>5, <2>3 DEF CommitEnd, disk, OneTrans, HeadsAgree, Down
  <2>5. Pinned' /\ Replayed' /\ CleanCoherent'
    BY <1>5 DEF CommitEnd, disk, HeadsAgree, Pinned, Replayed, CleanCoherent, Down,
                Logged, TypeOK
  <2> QED
    BY <2>2, <2>4, <2>5
<1> QED
  BY <1>1, <1>2, <1>3, <1>4, <1>5

\* log_write, absorbed or not.
LEMMA LogWriteInv ==
  ASSUME Inv, NEW p \in Proc, NEW s \in Sector, NEW d \in Data, LogWrite(p, s, d)
  PROVE  Inv'
<1> USE CapNat DEF Inv, LogAgrees
<1> DEFINE k == SlotOf(lh, s)
<1>1. /\ phase = "run" /\ pc[p] = "trans" /\ Len(lh) < Cap
      /\ cache' = [cache EXCEPT ![s] = d]
      /\ logblk' = [logblk EXCEPT ![k] = d]
      /\ lh' = IF s \in Logged(lh) THEN lh ELSE Append(lh, s)
      /\ dirty' = dirty \cup {s}
      /\ UNCHANGED <<home, head, tail, busy, phase, pc>>
  BY DEF LogWrite, Room
<1>2. lh \in Seq(Sector) /\ Len(lh) \in Nat /\ Cap \in Nat
  BY DEF TypeOK
<1>3. k \in 1..Len(lh) + 1 /\ k \in Slot
  BY <1>1, <1>2, SlotOfRange DEF Slot
<1>4. lh' \in Seq(Sector) /\ Len(lh') <= Cap /\ lh'[k] = s /\ k \in 1..Len(lh')
  BY <1>1, <1>2, <1>3, SlotOfRange
<1>5. \A i \in 1..Len(lh') : i # k => i \in 1..Len(lh) /\ lh'[i] = lh[i] /\ lh[i] # s
  <2>1. CASE s \in Logged(lh)
    BY <2>1, <1>1, <1>2, SlotOfRange, SMTT(30) DEF NamedOnce
  <2>2. CASE s \notin Logged(lh)
    <3>1. k = Len(lh) + 1
      BY <2>2, <1>2, SlotOfRange
    <3> QED
      BY <2>2, <3>1, <1>1, <1>2 DEF Logged
  <2> QED
    BY <2>1, <2>2
<1>6. Logged(lh)' = Logged(lh) \cup {s}
  BY <1>1, <1>2, SMTT(30) DEF Logged
<1>7. TypeOK'
  BY <1>1, <1>3, <1>4 DEF TypeOK
<1>8. NamedOnce(lh)' /\ NamedOnce(head)'
  BY <1>1, <1>4, <1>5 DEF NamedOnce
<1>9. OneTrans' /\ HeadsAgree'
  BY <1>1, SMTT(30) DEF OneTrans, HeadsAgree, Down
<1>10. Pinned'
  <2>1. dirty' = Logged(lh)'
    BY <1>1, <1>6 DEF Pinned
  <2>2. \A i \in 1..Len(lh') : cache'[lh'[i]] = logblk'[i]
    <3> TAKE i \in 1..Len(lh')
    <3>1. CASE i = k
      BY <3>1, <1>1, <1>3, <1>4 DEF TypeOK
    <3>2. CASE i # k
      <4>1. i \in 1..Len(lh) /\ lh'[i] = lh[i] /\ lh[i] # s /\ lh[i] \in Sector
        BY <3>2, <1>2, <1>5, SMTT(30)
      <4>2. cache[lh[i]] = logblk[i]
        BY <4>1, <1>1 DEF Pinned, Down, Logged
      <4>3. i \in Slot
        BY <4>1, <1>1, <1>2 DEF Slot
      <4> QED
        BY <4>1, <4>2, <4>3, <3>2, <1>1, SMTT(30) DEF TypeOK
    <3> QED
      BY <3>1, <3>2
  <2> QED
    BY <2>1, <2>2, <1>1, SMTT(30) DEF Pinned, Down
<1>11. Replayed' /\ CleanCoherent'
  BY <1>1 DEF Replayed, CleanCoherent, TypeOK
<1> QED
  BY <1>7, <1>8, <1>9, <1>10, <1>11

\* The buffer cache's own steps, a crash, and stuttering.
LEMMA OtherInv ==
  ASSUME Inv, (\E s \in Sector : Bread(s) \/ Recycle(s)) \/ Crash \/ UNCHANGED vars
  PROVE  Inv'
<1> USE CapNat DEF Inv, LogAgrees
<1>1. ASSUME NEW s \in Sector, Bread(s) \/ Recycle(s)
      PROVE  Inv'
  <2>1. s \notin dirty
    <3>1. CASE Recycle(s)
      BY <3>1, SMTT(30) DEF Recycle, Recyclable
    <3>2. CASE Bread(s)
      <4>1. SUFFICES ASSUME s \in dirty PROVE FALSE
        BY SMTT(30)
      <4>2. \E i \in 1..Len(lh) : lh[i] = s
        BY <4>1, <3>2 DEF Bread, Pinned, Logged, TypeOK
      <4> QED
        BY <4>1, <4>2, <3>2, NoBufAssumption DEF Bread, Pinned, Down, TypeOK, Slot
    <3> QED
      BY <1>1, <3>1, <3>2
  <2>2. /\ cache' \in [Sector -> Data \cup {NoBuf}]
        /\ \A t \in Sector : t # s => cache'[t] = cache[t]
        /\ cache'[s] \in {NoBuf, home[s]}
        /\ UNCHANGED <<home, logblk, head, lh, tail, busy, dirty, phase, pc>>
    BY <1>1, SMTT(30) DEF Bread, Recycle, disk, TypeOK
  <2>3. TypeOK' /\ NamedOnce(lh)' /\ NamedOnce(head)' /\ OneTrans' /\ HeadsAgree'
    BY <2>2, SMTT(30) DEF TypeOK, NamedOnce, OneTrans, HeadsAgree, Down
  <2>4. Pinned'
    BY <2>1, <2>2, SMTT(30) DEF Pinned, Down, Logged, TypeOK
  <2>5. Replayed' /\ CleanCoherent'
    BY <2>2 DEF Replayed, CleanCoherent
  <2> QED
    BY <2>3, <2>4, <2>5
<1>2. CASE Crash
  <2>1. TypeOK'
    <3>1. lh' \in Seq(Sector) /\ Len(lh') = 0
      BY <1>2 DEF Crash
    <3>2. /\ cache' \in [Sector -> Data \cup {NoBuf}] /\ dirty' \subseteq Sector
          /\ pc' \in [Proc -> {"out", "asleep", "woken", "trans"}]
      BY <1>2 DEF Crash
    <3>3. tail' \in 0..Cap /\ phase' \in Phase
      BY <1>2 DEF Crash, Phase
    <3>4. busy' \in BOOLEAN
      BY <1>2, ZenonT(30) DEF Crash
    <3> QED
      BY <1>2, <3>1, <3>2, <3>3, <3>4 DEF Crash, disk, TypeOK
  <2>2. NamedOnce(lh)' /\ NamedOnce(head)' /\ OneTrans' /\ HeadsAgree'
    BY <1>2, SMTT(30) DEF Crash, disk, NamedOnce, OneTrans, HeadsAgree, Down
  <2>3. Pinned' /\ Replayed' /\ CleanCoherent'
    BY <1>2, SMTT(30) DEF Crash, disk, Pinned, Replayed, CleanCoherent, Down
  <2> QED
    BY <2>1, <2>2, <2>3
<1>3. CASE UNCHANGED vars
  <2>1. TypeOK' /\ NamedOnce(lh)' /\ NamedOnce(head)' /\ OneTrans' /\ HeadsAgree'
    BY <1>3, SMTT(30) DEF vars, TypeOK, NamedOnce, OneTrans, HeadsAgree, Down
  <2>2. Pinned' /\ Replayed' /\ CleanCoherent'
    BY <1>3 DEF vars, Pinned, Replayed, CleanCoherent, Down, Logged
  <2> QED
    BY <2>1, <2>2
<1> QED
  BY <1>1, <1>2, <1>3

\* The invariant is inductive.
LEMMA NextInv == Inv /\ [Next]_vars => Inv'
BY RecoverInv, TransInv, LogWriteInv, OtherInv DEF Next

\* Every step of log.c keeps its variables in their types: no transaction
\* overruns the header or the on-disk log area.
THEOREM TypeCorrect == Spec => []TypeOK
<1>1. Inv => TypeOK
  BY DEF Inv
<1> QED
  BY InitInv, NextInv, <1>1, PTL DEF Spec

\* The log is never overrun, and header, log, buffers and home sectors agree
\* through commits, recoveries and crashes at any point of either.
THEOREM Consistent == Spec => []LogConsistent
<1>1. Inv => LogConsistent
  BY DEF Inv, TypeOK, LogConsistent
<1> QED
  BY InitInv, NextInv, <1>1, PTL DEF Spec
-----------------------------------------------------------------------------
(* The refinement.  The disk a reboot would recover, Overlay(head), changes *)
(* at one step only: the write of a non-empty header.                      *)

\* An empty header leaves the home sectors as they are.
LEMMA OverlayEmpty == TypeOK /\ head = <<>> => Overlay(head) = home
<1> SUFFICES ASSUME TypeOK, head = <<>> PROVE Overlay(head) = home
  OBVIOUS
<1>1. Logged(head) = {}
  BY DEF Logged
<1> QED
  BY <1>1 DEF Overlay, TypeOK

\* What the buffers show is what recovery would make of the logged blocks.
LEMMA ViewIsOverlay ==
  Inv /\ phase \in {"run", "install", "panic"} => View = Overlay(lh)
<1> SUFFICES ASSUME Inv, phase \in {"run", "install", "panic"}
             PROVE  View = Overlay(lh)
  BY SMTT(30)
<1> USE DEF Inv, LogAgrees
<1> SUFFICES ASSUME NEW s \in Sector
             PROVE  View[s] = Overlay(lh)[s]
  BY DEF View, Overlay
<1>1. lh \in Seq(Sector)
  BY DEF TypeOK
<1>2. CASE s \in Logged(lh)
  <2> DEFINE i == SlotOf(lh, s)
  <2>1. i \in 1..Len(lh) /\ lh[i] = s /\ i \in Slot
    BY <1>1, <1>2, SlotOfRange, CapNat DEF TypeOK, Slot
  <2>2. Overlay(lh)[s] = logblk[i]
    BY <1>2, SMTT(30) DEF Overlay
  <2>3. CASE s \in dirty
    <3>1. cache[s] = logblk[i]
      BY <2>1, <2>3, SMTT(30) DEF Pinned, Down
    <3> QED
      BY <3>1, <2>1, <2>2, NoBufAssumption DEF View, TypeOK
  <2>4. CASE s \notin dirty
    <3>1. phase = "install" /\ i \in 1..tail
      BY <1>2, <2>1, <2>4, SMTT(30) DEF Pinned, TypeOK
    <3>2. home[s] = logblk[i]
      BY <2>1, <3>1, SMTT(30) DEF Replayed
    <3> QED
      BY <2>2, <2>4, <3>2, SMTT(30) DEF CleanCoherent, View
  <2> QED
    BY <2>3, <2>4
<1>3. CASE s \notin Logged(lh)
  <2>1. s \notin dirty
    BY <1>3 DEF Pinned, Logged, TypeOK
  <2> QED
    BY <1>3, <2>1 DEF CleanCoherent, View, Overlay
<1> QED
  BY <1>2, <1>3

\* Once the last block is installed, nothing distinguishes home from log.
LEMMA OverlayInstalled ==
  ASSUME Inv, phase \in {"recover", "install"}, tail = Len(lh)
  PROVE  Overlay(head) = home
<1> USE DEF Inv, LogAgrees
<1>1. head = lh /\ lh \in Seq(Sector)
  BY DEF HeadsAgree, TypeOK
<1>2. ASSUME NEW s \in Sector, s \in Logged(head)
      PROVE  logblk[SlotOf(head, s)] = home[s]
  <2>1. SlotOf(lh, s) \in 1..tail /\ lh[SlotOf(lh, s)] = s
    BY <1>1, <1>2, SlotOfRange
  <2> QED
    BY <1>1, <2>1 DEF Replayed
<1> QED
  BY <1>2 DEF Overlay, TypeOK

\* With no transaction data outstanding the buffers show the disk.
LEMMA ViewClean == Inv /\ dirty = {} => View = home
BY DEF Inv, LogAgrees, CleanCoherent, View, TypeOK

\* The recovered disk depends on nothing in memory.
LEMMA SameDisk ==
  ASSUME UNCHANGED disk
  PROVE  Overlay(head)' = Overlay(head)
<1>1. home' = home /\ logblk' = logblk /\ head' = head
  BY DEF disk
<1> QED
  BY <1>1 DEF Overlay, Logged, SlotOf

\* Writing the header in memory to disk makes its overlay the stable disk.
LEMMA HeadWritten ==
  ASSUME head' = lh, UNCHANGED <<home, logblk>>
  PROVE  Overlay(head)' = Overlay(lh)
BY DEF Overlay, Logged, SlotOf

\* mkfs's disk is stable as it is, and the machine is down.
LEMMA InitRefines == Init => AD!Init
<1> SUFFICES ASSUME Init PROVE AD!Init
  OBVIOUS
<1>1. TypeOK /\ head = <<>> /\ Down
  BY InitInv DEF Inv, Init, Down
<1>2. Overlay(head) \in [Sector -> Data]
  BY <1>1, OverlayEmpty DEF TypeOK
<1>3. Trans = "down"
  BY <1>1 DEF Trans
<1> QED
  BY <1>1, <1>2, <1>3 DEF AD!Init

\* Recovery replays what is already stable; its last step is the Reboot.
LEMMA RecoverRefines ==
  ASSUME Inv, Inv', ReadHead \/ InstallTrans \/ EraseHead
  PROVE  AD!Next \/ UNCHANGED AD!vars
<1> USE DEF Inv, LogAgrees
<1>1. CASE ReadHead
  <2>1. Down /\ Down' /\ Overlay(head)' = Overlay(head)
    BY <1>1, SameDisk, SMTT(30) DEF ReadHead, Down
  <2> QED
    BY <2>1 DEF AD!vars, Trans
<1>2. CASE InstallTrans
  <2>1. head = lh /\ lh[tail + 1] \in Logged(lh) /\ lh[tail + 1] \in Sector
    BY <1>2, SMTT(30) DEF InstallTrans, HeadsAgree, TypeOK, Logged
  <2>2. Overlay(head)' = Overlay(head)
    BY <1>2, <2>1, SMTT(30) DEF InstallTrans, Overlay, Logged, SlotOf, TypeOK
  <2>3. CASE phase = "recover"
    BY <1>2, <2>2, <2>3, SMTT(30) DEF InstallTrans, AD!vars, Trans, Down
  <2>4. CASE phase = "install"
    <3>0. (Inv /\ phase \in {"run", "install", "panic"} => View = Overlay(lh))'
      BY ViewIsOverlay, PTL
    <3>1. View = Overlay(lh) /\ View' = Overlay(lh)'
      BY <1>2, <2>4, <3>0, ViewIsOverlay, SMTT(30) DEF InstallTrans
    <3>2. lh' = lh /\ head' = head
      BY <1>2 DEF InstallTrans
    <3>3. View' = View
      BY <2>1, <2>2, <3>1, <3>2
    <3> QED
      BY <1>2, <2>2, <2>4, <3>3 DEF InstallTrans, AD!vars, Trans, Down
  <2> QED
    BY <1>2, <2>3, <2>4, SMTT(30) DEF InstallTrans
<1>3. CASE EraseHead
  <2>0. (TypeOK /\ head = <<>> => Overlay(head) = home)'
    BY OverlayEmpty, PTL
  <2>1. Overlay(head)' = home' /\ Overlay(head) = home /\ home' = home
    BY <1>3, <2>0, OverlayInstalled, SMTT(30) DEF EraseHead, Installed
  <2>2. CASE phase = "recover"
    <3>1. Down /\ ~Down' /\ ~busy'
      BY <1>3, <2>2 DEF EraseHead, Down, OneTrans
    <3>2. View' = home'
      <4>1. dirty' = {}
        BY <1>3, <2>2 DEF EraseHead, Pinned, Down
      <4>2. (Inv /\ dirty = {} => View = home)'
        BY ViewClean, PTL
      <4> QED
        BY <4>1, <4>2, SMTT(30)
    <3>3. Trans = "down" /\ Trans' = "none"
      BY <1>3, <2>2, <3>1 DEF EraseHead, Trans
    <3> QED
      BY <2>1, <3>1, <3>2, <3>3 DEF AD!Next, AD!Reboot
  <2>3. CASE phase = "install"
    <3>1. View' = View
      BY <1>3, SMTT(30) DEF EraseHead, View
    <3>2. ~Down /\ ~Down' /\ Trans' = Trans
      BY <1>3, <2>3 DEF EraseHead, Down, Trans
    <3> QED
      BY <2>1, <3>1, <3>2, SMTT(30) DEF AD!vars
  <2> QED
    BY <1>3, <2>2, <2>3 DEF EraseHead
<1> QED
  BY <1>1, <1>2, <1>3

\* The header write is the Commit; the other steps leave the stable disk alone.
LEMMA TransRefines ==
  ASSUME Inv, Inv', NEW p \in Proc,
         \/ BeginTrans(p) \/ BeginSleep(p) \/ TooBig(p) \/ CommitHead(p) \/ CommitEnd(p)
         \/ \E s \in Sector, d \in Data : LogWrite(p, s, d)
  PROVE  AD!Next \/ UNCHANGED AD!vars
<1> USE DEF Inv, LogAgrees
<1>1. CASE BeginTrans(p)
  <2>0. UNCHANGED disk /\ home' = home /\ cache' = cache
    BY <1>1 DEF BeginTrans, disk
  <2>1. Overlay(head)' = Overlay(head) /\ View' = View
    <3>1. Overlay(head)' = Overlay(head)
      BY <2>0, SameDisk, ZenonT(30)
    <3>2. View' = View
      BY <2>0 DEF View
    <3> QED
      BY <3>1, <3>2
  <2>2. ~Down /\ ~Down' /\ Trans = "none" /\ Trans' = "open"
    BY <1>1 DEF BeginTrans, Down, Trans
  <2> QED
    BY <2>1, <2>2, SMTT(30) DEF AD!Next, AD!Begin
<1>2. CASE BeginSleep(p) \/ TooBig(p)
  <2>0. UNCHANGED disk /\ home' = home /\ cache' = cache
    BY <1>2 DEF BeginSleep, TooBig, disk, mem
  <2>1. Overlay(head)' = Overlay(head) /\ View' = View
    <3>1. Overlay(head)' = Overlay(head)
      BY <2>0, SameDisk, ZenonT(30)
    <3>2. View' = View
      BY <2>0 DEF View
    <3> QED
      BY <3>1, <3>2
  <2>2. ~Down /\ ~Down' /\ Trans = Trans'
    BY <1>2 DEF BeginSleep, TooBig, mem, Down, Trans
  <2> QED
    BY <2>1, <2>2, SMTT(30) DEF AD!vars
<1>3. CASE CommitHead(p)
  <2>1. busy /\ Trans = "open" /\ Trans' = "committed" /\ ~Down /\ ~Down'
    BY <1>3 DEF CommitHead, OneTrans, Trans, Down
  <2>2. Overlay(head)' = Overlay(lh) /\ View' = View
    BY <1>3, HeadWritten, ZenonT(30) DEF CommitHead, View
  <2>3. View = Overlay(lh)
    BY <1>3, ViewIsOverlay, SMTT(30) DEF CommitHead
  <2> QED
    BY <2>1, <2>2, <2>3, SMTT(30) DEF AD!Next, AD!Commit
<1>4. CASE CommitEnd(p)
  <2>1. busy /\ Trans' = "none" /\ ~Down /\ ~Down'
    BY <1>4, SMTT(30) DEF CommitEnd, OneTrans, Trans, Down
  <2>2. Overlay(head)' = Overlay(head) /\ View' = View
    BY <1>4, SameDisk, SMTT(30) DEF CommitEnd, disk, View
  <2>3. CASE phase = "end"
    <3>1. Trans = "committed"
      BY <2>3 DEF Trans, Down
    <3> QED
      BY <2>1, <2>2, <3>1 DEF AD!Next, AD!End
  <2>4. CASE phase = "run" /\ lh = <<>>
    <3>1. dirty = {} /\ head = <<>>
      BY <2>4 DEF Pinned, HeadsAgree, Logged
    <3>2. View = Overlay(head)
      BY <3>1, ViewClean, OverlayEmpty, SMTT(30)
    <3>3. Trans = "open"
      BY <2>1, <2>4, SMTT(30) DEF Trans, Down
    <3> QED
      BY <2>1, <2>2, <3>2, <3>3, SMTT(30) DEF AD!Next, AD!End
  <2> QED
    BY <1>4, <2>3, <2>4, SMTT(30) DEF CommitEnd
<1>5. ASSUME NEW s \in Sector, NEW d \in Data, LogWrite(p, s, d)
      PROVE  AD!Next
  <2>1. /\ Trans = "open" /\ Trans' = "open" /\ ~Down /\ ~Down'
        /\ head = <<>> /\ head' = <<>> /\ home' = home
    BY <1>5, SMTT(30) DEF LogWrite, OneTrans, HeadsAgree, Trans, Down
  <2>0. (TypeOK /\ head = <<>> => Overlay(head) = home)'
    BY OverlayEmpty, PTL
  <2>2. Overlay(head)' = Overlay(head)
    BY <2>0, <2>1, OverlayEmpty, SMTT(30)
  <2>3. View' = [View EXCEPT ![s] = d]
    BY <1>5, NoBufAssumption, ZenonT(30) DEF LogWrite, View, TypeOK
  <2> QED
    BY <2>1, <2>2, <2>3, ZenonT(30) DEF AD!Next, AD!Write
<1> QED
  BY <1>1, <1>2, <1>3, <1>4, <1>5

\* Reading and recycling buffers is invisible; a crash falls back to stable.
LEMMA OtherRefines ==
  ASSUME Inv, Inv', (\E s \in Sector : Bread(s) \/ Recycle(s)) \/ Crash \/ UNCHANGED vars
  PROVE  AD!Next \/ UNCHANGED AD!vars
<1> USE DEF Inv, LogAgrees
<1>1. ASSUME NEW s \in Sector, Bread(s) \/ Recycle(s)
      PROVE  UNCHANGED AD!vars
  <2>1. Overlay(head)' = Overlay(head)
    BY <1>1, SameDisk DEF Bread, Recycle
  <2>2. ~Down /\ ~Down' /\ Trans' = Trans
    BY <1>1, SMTT(30) DEF Bread, Recycle, Down, Trans
  <2>3. View' = View
    BY <1>1, NoBufAssumption
       DEF Bread, Recycle, Recyclable, disk, View, CleanCoherent, TypeOK
  <2> QED
    BY <2>1, <2>2, <2>3 DEF AD!vars
<1>2. CASE Crash
  <2>1. Overlay(head)' = Overlay(head)
    BY <1>2, SameDisk DEF Crash
  <2>2. Down' /\ Trans' = "down"
    BY <1>2, SMTT(30) DEF Crash, Down, Trans
  <2> QED
    BY <2>1, <2>2, SMTT(30) DEF AD!Next, AD!Crash
<1>3. CASE UNCHANGED vars
  BY <1>3, SameDisk DEF vars, disk, AD!vars, View, Down, Trans
<1> QED
  BY <1>1, <1>2, <1>3

\* log.c gives the file system a disk with crash-atomic transactions.
THEOREM Implements == Spec => Atomic
<1>1. Inv /\ Inv' /\ [Next]_vars => [AD!Next]_(AD!vars)
  BY RecoverRefines, TransRefines, OtherRefines DEF Next
<1> QED
  BY InitInv, NextInv, InitRefines, <1>1, PTL DEF Spec, Atomic
=============================================================================
