----------------------------- MODULE DittoProofs -----------------------------
(***************************************************************************)
(* Proofs about checksums and ditto inodes, for files of any length, words *)
(* of any size and any number of processes.                                *)
(*                                                                         *)
(* What makes the check of ilock_ext worth anything is that the checksum   *)
(* on disk is always that of the true content, and that a copy differs     *)
(* from it in one block at most; what makes the inodes that are trusted    *)
(* unchecked harmless is that ip is then sound, or being repaired.  Both   *)
(* hold only in the worlds that Repairable names.                          *)
(***************************************************************************)
EXTENDS Ditto, FiniteSetTheorems, TLAPS

Kids == {<<"child1">>, <<"child1", "child2">>}

\* The types of the variables.
TypeOK ==
  /\ world \in Worlds
  /\ truth \in Content
  /\ data \in [Copy -> Content]
  /\ sum \in [Copy -> Word]
  /\ children \in Kids \cup {<<>>}
  /\ incore \subseteq Copy /\ valid \subseteq Copy
  /\ leaked \in BOOLEAN
  /\ lock \in Proc \cup {NoProc}
  /\ pc \in [Proc -> {"user", "rescue", "copy", "dup"}]
  /\ src \in [Proc -> Kids \cup {<<>>, <<"child2">>}]
  /\ pos \in [Proc -> 0..NBlock]
  /\ fd \in [Proc -> {"none", "open", "forced"}]
  /\ \A p \in Proc : /\ pc[p] \in {"rescue", "copy"} => src[p] \in {<<"child1">>, <<"child2">>}
                     /\ pc[p] = "dup" => src[p] \in Kids

\* The worlds in which a file can be trusted: its copies never decay, or they
\* decay while the system is down, a repair fits one transaction, and nobody
\* goes around the check with forceopen or unlink.
Repairable ==
  \/ world.rots = "never"
  \/ /\ world.rots = "offline"
     /\ world.calls \subseteq {"open", "write", "duplicate"}
     /\ NBlock <= RescueMax

\* d is the file's content but for one block at most, or none where nothing
\* decays.
Near(d) ==
  \/ d = truth
  \/ /\ world.rots # "never"
     /\ \E b \in Block : \A i \in Block \ {b} : d[i] = truth[i]

\* The checksum on disk is the true content's, and that is what makes the check
\* worth anything: a copy that decayed differs from it in one block only.
OnDisk == \A c \in Copies : sum[c] = Checksum(truth) /\ Near(data[c])

\* Who holds ip's lock between steps, and what is in the inode cache then.
Busy ==
  /\ \A p \in Proc : pc[p] \in {"copy", "dup"} => lock = p /\ "ip" \in valid
  /\ lock # NoProc => pc[lock] \in {"copy", "dup"}
  /\ valid \subseteq incore
  /\ \A p \in Proc : pc[p] # "user" => "ip" \in incore
  /\ \A p \in Proc : fd[p] # "none" => "ip" \in valid

\* An inode marked valid without a check does no harm: ip is valid and corrupted
\* only under the lock of its repair, and a ditto only while ip is sound.
Trusted ==
  /\ data["ip"] # truth =>
       /\ "ip" \in valid => \E p \in Proc : pc[p] = "copy" /\ pos[p] = 0
       /\ \A c \in valid \cap Dittos : data[c] = truth

\* A repair reads a sound ditto.
Repairing ==
  \A p \in Proc :
    /\ pc[p] \in {"rescue", "copy"} =>
         /\ world.rots # "never"
         /\ \E c \in Dittos \cap incore : src[p] = <<c>> /\ data[c] = truth
    /\ pc[p] = "copy" /\ pos[p] # 0 => data["ip"] = truth
    /\ pc[p] = "copy" => pos[p] \in {0, NBlock}

\* duplicate copies a sound file.
Duplicating ==
  \A p \in Proc : pc[p] = "dup" =>
    /\ children = <<>> /\ data["ip"] = truth
    /\ \A i \in DOMAIN src[p], b \in Block : b < pos[p] => data[src[p][i]][b] = truth[b]

Sound == OnDisk /\ Busy /\ Trusted /\ Repairing /\ Duplicating

Inv == TypeOK /\ (Repairable => Sound)
-----------------------------------------------------------------------------
(* What a checksum can tell.                                               *)

\* A bit that one block sets in d and not in e, where they agree otherwise, is
\* in exactly one of the checksums.
LEMMA OneBit ==
  ASSUME NEW d \in Content, NEW e \in Content, NEW b \in Block,
         \A i \in Block \ {b} : d[i] = e[i],
         NEW x \in Bit, x \in d[b], x \notin e[b]
  PROVE  Checksum(d) # Checksum(e)
<1> DEFINE D == {i \in Block : x \in d[i]}
           E == {i \in Block : x \in e[i]}
<1>1. D = E \cup {b} /\ b \notin E
  OBVIOUS
<1>2. IsFiniteSet(E)
  <2>1. IsFiniteSet(Block)
    BY DittoAssumption, FS_Interval DEF Block
  <2> QED
    BY <2>1, FS_Subset
<1>3. Cardinality(D) = Cardinality(E) + 1 /\ Cardinality(E) \in Nat
  BY <1>1, <1>2, FS_AddElement, FS_CardinalityType, ZenonT(30)
<1>4. (Cardinality(D) % 2 = 1) # (Cardinality(E) % 2 = 1)
  BY <1>3
<1> QED
  BY <1>4 DEF Checksum

\* XOR detects damage that is confined to one block.
LEMMA OneBlock ==
  ASSUME NEW d \in Content, NEW e \in Content, NEW b \in Block,
         \A i \in Block \ {b} : d[i] = e[i],
         Checksum(d) = Checksum(e)
  PROVE  d = e
<1>1. \A x \in Bit : x \in d[b] <=> x \in e[b]
  BY OneBit
<1>2. d[b] = e[b]
  BY <1>1 DEF Content, Word
<1> QED
  BY <1>2 DEF Content

\* What passes the check is sound.
LEMMA CheckTells ==
  ASSUME TypeOK, OnDisk, NEW c \in Copies, sum[c] = Checksum(data[c])
  PROVE  data[c] = truth
<1>1. c \in Copy
  BY DEF Copies, Dittos, TypeOK, Kids, Copy
<1>2. data[c] \in Content /\ truth \in Content
  BY <1>1 DEF TypeOK
<1>3. Near(data[c]) /\ Checksum(data[c]) = Checksum(truth)
  BY DEF OnDisk
<1>4. ASSUME NEW b \in Block, \A i \in Block \ {b} : data[c][i] = truth[i]
      PROVE  data[c] = truth
  BY <1>2, <1>3, <1>4, OneBlock
<1> QED
  BY <1>3, <1>4 DEF Near

\* What ilock_ext(c, 1) lets through while nobody holds ip's lock is sound: ip,
\* and, if ip is not, a ditto.
LEMMA LockTells ==
  ASSUME TypeOK, Sound, NEW c \in Copies, Lockable(c), lock = NoProc,
         c = "ip" \/ data["ip"] # truth
  PROVE  data[c] = truth
<1>1. CASE sum[c] = Checksum(data[c])
  BY <1>1, CheckTells DEF Sound
<1>2. CASE c \in valid /\ c = "ip"
  <2>1. \A p \in Proc : pc[p] # "copy"
    BY DittoAssumption DEF Sound, Busy
  <2> QED
    BY <1>2, <2>1 DEF Sound, Trusted
<1>3. CASE c \in valid /\ c # "ip"
  BY <1>3 DEF Sound, Trusted, Copies
<1> QED
  BY <1>1, <1>2, <1>3 DEF Lockable

\* The dittos of a file are among its copies, and ip is not one of them.
LEMMA DittosAre ==
  ASSUME TypeOK
  PROVE  /\ Dittos \subseteq {"child1", "child2"} /\ "ip" \notin Dittos
         /\ Copies \subseteq Copy /\ "ip" \in Copies
         /\ children = <<>> => Copies = {"ip"}
         /\ \A i \in DOMAIN children : i \in {1, 2} /\ 1..i \subseteq DOMAIN children
<1>1. children \in Kids \cup {<<>>}
  BY DEF TypeOK
<1>2. \A i \in DOMAIN children : i \in {1, 2} /\ 1..i \subseteq DOMAIN children
  BY <1>1 DEF Kids
<1> QED
  BY <1>1, <1>2 DEF Kids, Dittos, Copies, Copy

\* A list of dittos to be filled holds child1, or child1 and child2.
LEMMA KidsAre ==
  ASSUME NEW s \in Kids \cup {<<>>, <<"child2">>}
  PROVE  {s[i] : i \in DOMAIN s} \subseteq {"child1", "child2"}
BY DEF Kids

-----------------------------------------------------------------------------
(* Types.                                                                  *)

\* A checksum is a word.
LEMMA ChecksumType ==
  ASSUME NEW d
  PROVE  Checksum(d) \in Word
BY SMTT(30) DEF Checksum, Word

\* Every step keeps the types.
LEMMA NextType ==
  ASSUME TypeOK, [Next]_vars
  PROVE  TypeOK'
<1> USE DEF TypeOK
<1>1. CASE UNCHANGED vars
  BY <1>1 DEF vars
<1>2. ASSUME NEW p \in Proc, OpenOk(p) PROVE TypeOK'
  BY <1>2 DEF OpenOk, Copy, disk, local
<1>3. ASSUME NEW p \in Proc, OpenRescue(p) PROVE TypeOK'
  <2>1. PICK i \in DOMAIN children :
          /\ incore' = incore \cup {"ip"} \cup {children[j] : j \in 1..i}
          /\ valid' = valid \cup {children[i]}
          /\ src' = [src EXCEPT ![p] = <<children[i]>>]
    BY <1>3, ZenonT(30) DEF OpenRescue
  <2>2. \A j \in 1..i : j \in DOMAIN children
    BY <2>1, DittosAre
  <2>3. \A j \in DOMAIN children : children[j] \in {"child1", "child2"}
    BY DittosAre, ZenonT(30) DEF Dittos
  <2>4. incore' \subseteq Copy /\ valid' \subseteq Copy
    BY <2>1, <2>2, <2>3 DEF Copy
  <2>5. src' \in [Proc -> Kids \cup {<<>>, <<"child2">>}]
    BY <2>1, <2>3 DEF Kids
  <2>6. pc' \in [Proc -> {"user", "rescue", "copy", "dup"}]
    BY <1>3 DEF OpenRescue
  <2>7. UNCHANGED <<world, truth, data, sum, children, leaked, lock, pos, fd>>
    BY <1>3 DEF OpenRescue, disk
  <2>8. src'[p] \in {<<"child1">>, <<"child2">>} /\ pc'[p] = "rescue"
        /\ \A q \in Proc \ {p} : src'[q] = src[q] /\ pc'[q] = pc[q]
    BY <1>3, <2>1, <2>3 DEF OpenRescue
  <2> QED
    BY <2>4, <2>5, <2>6, <2>7, <2>8
<1>4. ASSUME NEW p \in Proc, OpenCorrupted(p) PROVE TypeOK'
  BY <1>4, DittosAre DEF OpenCorrupted, disk, local
<1>5. ASSUME NEW p \in Proc, ForceOpen(p) PROVE TypeOK'
  BY <1>5 DEF ForceOpen, Copy, disk, local
<1>6. ASSUME NEW p \in Proc, Close(p) PROVE TypeOK'
  BY <1>6 DEF Close, disk, local
<1>7. ASSUME NEW p \in Proc, RescueLock(p) PROVE TypeOK'
  <2>1. src[p][1] \in Copy
    BY <1>7 DEF RescueLock, Copy
  <2>2. valid' \subseteq Copy /\ lock' \in Proc
    BY <1>7, <2>1, ZenonT(30) DEF RescueLock, Copy
  <2>3. pos' \in [Proc -> 0..NBlock]
    BY <1>7, DittoAssumption DEF RescueLock
  <2>4. pc' \in [Proc -> {"user", "rescue", "copy", "dup"}]
        /\ pc[p] = "rescue" /\ pc'[p] = "copy" /\ \A q \in Proc \ {p} : pc'[q] = pc[q]
    BY <1>7 DEF RescueLock
  <2>5. UNCHANGED <<world, truth, data, sum, children, incore, leaked, src, fd>>
    BY <1>7 DEF RescueLock, disk
  <2> QED
    BY <2>2, <2>3, <2>4, <2>5
<1>8. \A p \in Proc, m \in Nat \ {0} : Advance(p, m) \in 0..NBlock
  BY DittoAssumption DEF Advance
<1>9. ASSUME NEW p \in Proc, RescueChunk(p) PROVE TypeOK'
  <2> DEFINE d == [b \in Block |-> IF b \in Chunk(p, RescueMax)
                                   THEN data[src[p][1]][b] ELSE data["ip"][b]]
  <2>1. src[p][1] \in Copy /\ "ip" \in Copy
    BY <1>9 DEF RescueChunk, Copy
  <2>2. d \in Content
    BY <2>1, SMTT(30) DEF Content
  <2>3. data' = [data EXCEPT !["ip"] = d] /\ sum' = [sum EXCEPT !["ip"] = Checksum(d)]
    BY <1>9 DEF RescueChunk
  <2> HIDE DEF d
  <2>4. data' \in [Copy -> Content] /\ sum' \in [Copy -> Word]
    BY <2>2, <2>3, ChecksumType, ZenonT(30)
  <2>5. pos' \in [Proc -> 0..NBlock]
    BY <1>8, <1>9, DittoAssumption, SMTT(30) DEF RescueChunk
  <2>6. UNCHANGED <<world, truth, children, incore, valid, leaked, lock, pc, src, fd>>
    BY <1>9 DEF RescueChunk
  <2> QED
    BY <2>4, <2>5, <2>6, SMTT(30)
<1>10. ASSUME NEW p \in Proc, RescueDone(p) PROVE TypeOK'
  BY <1>10 DEF RescueDone, disk
<1>11. ASSUME NEW d, NEW kids PROVE Summed(d, kids) \in [Copy -> Word]
  BY ChecksumType, SMTT(30) DEF Summed
<1>12. ASSUME NEW p \in Proc, NEW b \in Block, NEW w \in Word, Write(p, b, w) PROVE TypeOK'
  <2>1. data' \in [Copy -> Content]
    BY <1>12 DEF Write, Content
  <2>2. truth' \in Content
    BY <1>12 DEF Write, Content
  <2>3. sum' \in [Copy -> Word]
    BY <1>11, <1>12 DEF Write
  <2>4. incore' \subseteq Copy /\ valid' \subseteq Copy
    BY <1>12, DittosAre DEF Write, Copies
  <2> QED
    BY <1>12, <2>1, <2>2, <2>3, <2>4 DEF Write, local
<1>13. ASSUME NEW p \in Proc, Unlink(p) PROVE TypeOK'
  <2>1. sum' \in [Copy -> Word]
    BY <1>11, <1>13 DEF Unlink
  <2>2. incore' \subseteq Copy /\ valid' \subseteq Copy
    BY <1>13, DittosAre DEF Unlink, Copies
  <2> QED
    BY <1>13, <2>1, <2>2, SMTT(30) DEF Unlink, local
<1>14. ASSUME NEW p \in Proc, DupStart(p) PROVE TypeOK'
  <2>1. src' \in [Proc -> Kids \cup {<<>>, <<"child2">>}] /\ src'[p] \in Kids
        /\ \A q \in Proc \ {p} : src'[q] = src[q]
    BY <1>14 DEF DupStart, Kids
  <2>2. pos' \in [Proc -> 0..NBlock]
    BY <1>14, DittoAssumption DEF DupStart
  <2>3. pc' \in [Proc -> {"user", "rescue", "copy", "dup"}]
        /\ pc'[p] = "dup" /\ \A q \in Proc \ {p} : pc'[q] = pc[q]
    BY <1>14 DEF DupStart
  <2>4. incore' \subseteq Copy /\ valid' \subseteq Copy /\ lock' \in Proc
    BY <1>14 DEF DupStart, Copy
  <2>5. UNCHANGED <<world, truth, data, sum, children, leaked, fd>>
    BY <1>14, SMTT(30) DEF DupStart, disk
  <2> QED
    BY <2>1, <2>2, <2>3, <2>4, <2>5
<1>15. ASSUME NEW p \in Proc, DupCorrupted(p) PROVE TypeOK'
  BY <1>15, SMTT(30) DEF DupCorrupted, Copy, disk, local
<1>16. ASSUME NEW p \in Proc, DupChunk(p) PROVE TypeOK'
  <2>1. data' \in [Copy -> Content]
    BY <1>16, SMTT(30) DEF DupChunk, Content, Copy
  <2>2. pos' \in [Proc -> 0..NBlock]
    BY <1>8, <1>16, DittoAssumption DEF DupChunk
  <2> QED
    BY <1>16, <2>1, <2>2, SMTT(30) DEF DupChunk
<1>17. ASSUME NEW p \in Proc, DupDone(p) PROVE TypeOK'
  <2>1. children' \in Kids
    BY <1>17 DEF DupDone
  <2>2. {src[p][i] : i \in DOMAIN src[p]} \subseteq Copy
    BY KidsAre, ZenonT(30) DEF Copy
  <2>3. sum' \in [Copy -> Word] /\ incore' \subseteq Copy /\ valid' \subseteq Copy
    BY <1>11, <1>17, <2>2, SMTT(30) DEF DupDone
  <2> QED
    BY <1>17, <2>1, <2>3 DEF DupDone
<1>18. ASSUME NEW c \in Copy, NEW b \in Block, Rot(c, b) PROVE TypeOK'
  <2>1. data' \in [Copy -> Content]
    BY <1>18 DEF Rot, Content
  <2> QED
    BY <1>18, <2>1 DEF Rot, local
<1>19. CASE Crash
  <2>1. 0 \in 0..NBlock
    BY DittoAssumption
  <2>2. pos' \in [Proc -> 0..NBlock]
    BY <1>19, <2>1 DEF Crash
  <2>3. src' \in [Proc -> Kids \cup {<<>>, <<"child2">>}]
    BY <1>19 DEF Crash
  <2>4. pc' \in [Proc -> {"user", "rescue", "copy", "dup"}] /\ \A p \in Proc : pc'[p] = "user"
    BY <1>19 DEF Crash
  <2> QED
    BY <1>19, <2>2, <2>3, <2>4, ZenonT(30) DEF Crash, disk
<1> QED
  BY <1>1, <1>2, <1>3, <1>4, <1>5, <1>6, <1>7, <1>9, <1>10, <1>12, <1>13, <1>14, <1>15,
     <1>16, <1>17, <1>18, <1>19, ZenonT(30) DEF Next
-----------------------------------------------------------------------------
(* Soundness, step by step.                                                *)

\* Steps that leave the disk alone keep what is on it.
LEMMA DiskStays ==
  ASSUME UNCHANGED <<world, truth, disk>>
  PROVE  /\ Dittos' = Dittos /\ Copies' = Copies
         /\ OnDisk => OnDisk'
<1>1. Dittos' = Dittos /\ Copies' = Copies
  BY DEF disk, Dittos, Copies
<1> QED
  BY <1>1 DEF OnDisk, Near, disk

\* Without ip's lock nobody is in the middle of a repair or of duplicate.
LEMMA Unlocked ==
  ASSUME Busy, lock = NoProc
  PROVE  \A q \in Proc : pc[q] \notin {"copy", "dup"}
BY DittoAssumption DEF Busy

\* A file whose copies never decay is sound, and so are its dittos.
LEMMA NeverRots ==
  ASSUME OnDisk, world.rots = "never", NEW c \in Copies
  PROVE  data[c] = truth
BY DEF OnDisk, Near

\* open of a file that passes the check.
LEMMA OpenOkSound ==
  ASSUME TypeOK, Sound, NEW p \in Proc, OpenOk(p)
  PROVE  Sound'
<1>1. lock = NoProc /\ Lockable("ip") /\ UNCHANGED <<world, truth, disk, lock, pc, src, pos>>
  BY DEF OpenOk, Starts, local
<1>2. data["ip"] = truth
  BY <1>1, DittosAre, LockTells
<1>3. Dittos' = Dittos /\ OnDisk'
  BY <1>1, DiskStays, SMTT(30) DEF Sound
<1>4. Busy'
  BY <1>1 DEF Sound, Busy, OpenOk, TypeOK
<1>5. Trusted'
  BY <1>1, <1>2, SMTT(30) DEF Trusted, disk
<1>6. Repairing'
  BY <1>1, <1>3, SMTT(30) DEF Sound, Repairing, OpenOk, disk
<1>7. Duplicating'
  BY <1>1 DEF Sound, Duplicating, disk
<1> QED
  BY <1>3, <1>4, <1>5, <1>6, <1>7 DEF Sound

\* open of a file that fails it, when a ditto passes.
LEMMA OpenRescueSound ==
  ASSUME TypeOK, Sound, NEW p \in Proc, OpenRescue(p)
  PROVE  Sound'
<1>1. /\ lock = NoProc /\ pc[p] = "user" /\ ~Lockable("ip")
      /\ UNCHANGED <<world, truth, disk, lock, pos, fd>>
  BY DEF OpenRescue, Starts
<1>2. PICK i \in DOMAIN children :
        /\ ReplicaFound(i)
        /\ incore' = incore \cup {"ip"} \cup {children[j] : j \in 1..i}
        /\ valid' = valid \cup {children[i]}
        /\ src' = [src EXCEPT ![p] = <<children[i]>>]
  BY ZenonT(30) DEF OpenRescue
<1> DEFINE c == children[i]
<1>3. c \in Dittos /\ c # "ip" /\ c \in Copies
  BY <1>2, DittosAre DEF Dittos, Copies
<1>4. data["ip"] # truth /\ "ip" \notin valid
  BY <1>1, DittosAre DEF Lockable, Sound, OnDisk
<1>5. data[c] = truth
  BY <1>1, <1>2, <1>3, <1>4, LockTells DEF ReplicaFound
<1>6. c \in incore'
  <2>1. i \in 1..i
    BY DittosAre
  <2> QED
    BY <1>2, <2>1
<1>7. incore \subseteq incore' /\ "ip" \in incore' /\ valid' = valid \cup {c}
      /\ src'[p] = <<c>> /\ \A q \in Proc \ {p} : src'[q] = src[q]
  BY <1>2 DEF TypeOK
<1> HIDE DEF c
<1>8. pc'[p] = "rescue" /\ \A q \in Proc \ {p} : pc'[q] = pc[q]
  BY DEF OpenRescue, TypeOK
<1>9. Dittos' = Dittos /\ OnDisk'
  BY <1>1, DiskStays, SMTT(30) DEF Sound
<1>10. Busy'
  BY <1>1, <1>6, <1>7, <1>8, DittoAssumption, SMTT(30) DEF Sound, Busy
<1>11. Trusted'
  BY <1>1, <1>3, <1>4, <1>5, <1>7, <1>9 DEF Sound, Trusted, disk
<1>12. world.rots # "never"
  BY <1>4, DittosAre, NeverRots, SMTT(30) DEF Sound
<1>13. Repairing'
  BY <1>1, <1>3, <1>5, <1>6, <1>7, <1>8, <1>9, <1>12, SMTT(30) DEF Sound, Repairing, disk
<1>14. Duplicating'
  BY <1>1, <1>7, <1>8 DEF Sound, Duplicating, disk
<1> QED
  BY <1>9, <1>10, <1>11, <1>13, <1>14, SMTT(30) DEF Sound

\* open and duplicate that report corruption only load inodes.
LEMMA CorruptedSound ==
  ASSUME TypeOK, Sound, NEW p \in Proc, OpenCorrupted(p) \/ DupCorrupted(p)
  PROVE  Sound'
<1>1. incore \subseteq incore' /\ UNCHANGED <<world, truth, disk, valid, lock, pc, src, pos, fd>>
  BY DEF OpenCorrupted, DupCorrupted, local
<1>2. Dittos' = Dittos /\ OnDisk'
  BY <1>1, DiskStays, SMTT(30) DEF Sound
<1>3. Busy'
  BY <1>1, SMTT(30) DEF Sound, Busy
<1>4. Trusted'
  BY <1>1, <1>2, SMTT(30) DEF Sound, Trusted, disk
<1>5. Repairing'
  BY <1>1, <1>2, SMTT(30) DEF Sound, Repairing, disk
<1>6. Duplicating'
  BY <1>1 DEF Sound, Duplicating, disk
<1> QED
  BY <1>2, <1>3, <1>4, <1>5, <1>6 DEF Sound

\* forceopen trusts ip unseen, in a world where nothing decays.
LEMMA ForceOpenSound ==
  ASSUME TypeOK, Repairable, Sound, NEW p \in Proc, ForceOpen(p)
  PROVE  Sound'
<1>1. /\ "forceopen" \in world.calls
      /\ UNCHANGED <<world, truth, disk, lock, pc, src, pos>>
  BY DEF ForceOpen, Starts, local
<1>2. data["ip"] = truth
  BY <1>1, DittosAre, NeverRots DEF Repairable, Sound
<1>3. Dittos' = Dittos /\ OnDisk'
  BY <1>1, DiskStays, SMTT(30) DEF Sound
<1>4. Busy'
  BY <1>1 DEF Sound, Busy, ForceOpen, TypeOK
<1>5. Trusted'
  BY <1>1, <1>2, SMTT(30) DEF Trusted, disk
<1>6. Repairing'
  BY <1>1, <1>3, SMTT(30) DEF Sound, Repairing, ForceOpen, disk
<1>7. Duplicating'
  BY <1>1 DEF Sound, Duplicating, disk
<1> QED
  BY <1>3, <1>4, <1>5, <1>6, <1>7 DEF Sound

\* close drops ip from the inode cache only when nobody else needs it there.
LEMMA CloseSound ==
  ASSUME TypeOK, Sound, NEW p \in Proc, Close(p)
  PROVE  Sound'
<1>1. pc[p] = "user" /\ UNCHANGED <<world, truth, disk, lock, pc, src, pos>>
  BY DEF Close, local
<1>2. Dittos' = Dittos /\ OnDisk' /\ "ip" \notin Dittos
  BY <1>1, DiskStays, DittosAre DEF Sound
<1>3. fd'[p] = "none" /\ \A q \in Proc \ {p} : fd'[q] = fd[q]
  BY DEF Close, TypeOK
<1>4. \/ valid' = valid /\ incore' = incore
      \/ /\ valid' = valid \ {"ip"} /\ incore' = incore \ {"ip"}
         /\ \A q \in Proc \ {p} : fd[q] = "none" /\ pc[q] = "user"
  BY SMTT(30) DEF Close, Referenced
<1>5. Busy'
  BY <1>1, <1>3, <1>4, DittoAssumption, SMTT(30) DEF Sound, Busy, TypeOK
<1>6. Trusted'
  BY <1>1, <1>2, <1>4, SMTT(30) DEF Sound, Trusted, disk
<1>7. Repairing'
  BY <1>1, <1>2, <1>4, SMTT(30) DEF Sound, Repairing, disk
<1>8. Duplicating'
  BY <1>1 DEF Sound, Duplicating, disk
<1> QED
  BY <1>2, <1>5, <1>6, <1>7, <1>8 DEF Sound

\* irescue locks ip and the ditto, unchecked.
LEMMA RescueLockSound ==
  ASSUME TypeOK, Sound, NEW p \in Proc, RescueLock(p)
  PROVE  Sound'
<1>1. /\ pc[p] = "rescue" /\ lock = NoProc /\ lock' = p
      /\ UNCHANGED <<world, truth, disk, incore, src, fd>>
  BY SMTT(30) DEF RescueLock
<1>2. PICK c \in Dittos \cap incore : src[p] = <<c>> /\ data[c] = truth
  BY <1>1, SMTT(30) DEF Sound, Repairing
<1>3. valid' = valid \cup {"ip", c}
  BY <1>2, SMTT(30) DEF RescueLock
<1>4. /\ pc'[p] = "copy" /\ pos'[p] = 0
      /\ \A q \in Proc \ {p} : pc'[q] = pc[q] /\ pos'[q] = pos[q]
  BY DEF RescueLock, TypeOK
<1>5. \A q \in Proc : pc[q] \notin {"copy", "dup"}
  BY <1>1, Unlocked DEF Sound
<1>6. Dittos' = Dittos /\ OnDisk' /\ "ip" \notin Dittos
  BY <1>1, DiskStays, DittosAre, SMTT(30) DEF Sound
<1>7. Busy'
  BY <1>1, <1>2, <1>3, <1>4, <1>5, SMTT(30) DEF Sound, Busy
<1>8. Trusted'
  BY <1>1, <1>2, <1>3, <1>4, <1>6 DEF Sound, Trusted, disk
<1>9. Repairing'
  BY <1>1, <1>4, <1>5, <1>6, ZenonT(30) DEF Sound, Repairing, disk
<1>10. Duplicating'
  BY <1>1, <1>4, <1>5, SMTT(30) DEF Sound, Duplicating
<1> QED
  BY <1>6, <1>7, <1>8, <1>9, <1>10 DEF Sound

\* The transaction that repairs ip makes it whole.
LEMMA RescueChunkSound ==
  ASSUME TypeOK, Repairable, Sound, NEW p \in Proc, RescueChunk(p)
  PROVE  Sound' /\ data'["ip"] = truth /\ sum'["ip"] = Checksum(truth) /\ Copies' = Copies
<1> DEFINE d == [b \in Block |-> IF b \in Chunk(p, RescueMax)
                                 THEN data[src[p][1]][b] ELSE data["ip"][b]]
<1>1. /\ pc[p] = "copy" /\ pos[p] < NBlock
      /\ data' = [data EXCEPT !["ip"] = d] /\ sum' = [sum EXCEPT !["ip"] = Checksum(d)]
      /\ pos' = [pos EXCEPT ![p] = Advance(p, RescueMax)]
      /\ UNCHANGED <<world, truth, children, incore, valid, lock, pc, src, fd>>
  BY SMTT(30) DEF RescueChunk
<1>2. NBlock \in Nat \ {0} /\ RescueMax \in Nat \ {0} /\ NBlock <= RescueMax
  BY <1>1, DittoAssumption, SMTT(30) DEF Repairable, Sound, Repairing
<1>3. pos[p] = 0
  BY <1>1, <1>2, SMTT(30) DEF Sound, Repairing
<1>4. PICK c \in Dittos \cap incore : src[p] = <<c>> /\ data[c] = truth
  BY <1>1 DEF Sound, Repairing
<1>5. Chunk(p, RescueMax) = Block
  BY <1>2, <1>3, SMTT(30) DEF Chunk, Block
<1>6. d = truth
  <2>1. src[p][1] = c
    BY <1>4, SMTT(30)
  <2>2. d = [b \in Block |-> truth[b]]
    BY <1>4, <1>5, <2>1
  <2> QED
    BY <2>2, SMTT(30) DEF TypeOK, Content
<1> HIDE DEF d
<1>7. Advance(p, RescueMax) = NBlock
  BY <1>2, <1>3, SMTT(30) DEF Advance
<1>8. /\ data'["ip"] = truth /\ sum'["ip"] = Checksum(truth)
      /\ \A x \in Copy \ {"ip"} : data'[x] = data[x] /\ sum'[x] = sum[x]
      /\ pos'[p] = NBlock /\ \A q \in Proc \ {p} : pos'[q] = pos[q]
  BY <1>1, <1>6, <1>7, SMTT(30) DEF TypeOK, Copy
<1>9. Dittos' = Dittos /\ Copies' = Copies /\ Copies \subseteq Copy /\ "ip" \notin Dittos
  BY <1>1, DittosAre, SMTT(30) DEF Dittos, Copies
<1>10. lock = p /\ \A q \in Proc \ {p} : pc[q] \notin {"copy", "dup"}
  BY <1>1, SMTT(30) DEF Sound, Busy
<1>11. OnDisk'
  BY <1>1, <1>8, <1>9, SMTT(30) DEF Sound, OnDisk, Near
<1>12. Busy'
  BY <1>1, SMTT(30) DEF Sound, Busy
<1>13. Trusted'
  BY <1>1, <1>8, SMTT(30) DEF Trusted
<1>14. Repairing'
  <2>1. \A x \in Dittos : data'[x] = data[x]
    BY <1>8, <1>9, SMTT(30) DEF Copies
  <2> QED
    BY <1>1, <1>8, <1>9, <1>10, <2>1, SMTT(30) DEF Sound, Repairing
<1>15. Duplicating'
  BY <1>1, <1>10 DEF Duplicating
<1> QED
  BY <1>8, <1>9, <1>11, <1>12, <1>13, <1>14, <1>15, SMTT(30) DEF Sound

\* The end of a repair, and of the open that asked for it.
LEMMA RescueDoneSound ==
  ASSUME TypeOK, Sound, NEW p \in Proc, RescueDone(p)
  PROVE  Sound'
<1>1. /\ pc[p] = "copy" /\ pos[p] = NBlock /\ lock' = NoProc
      /\ UNCHANGED <<world, truth, disk, incore, valid, src, pos>>
  BY SMTT(30) DEF RescueDone
<1>2. data["ip"] = truth /\ "ip" \in valid
  BY <1>1, DittoAssumption, SMTT(30) DEF Sound, Repairing, Busy
<1>3. /\ pc'[p] = "user" /\ fd'[p] = "open"
      /\ \A q \in Proc \ {p} : pc'[q] = pc[q] /\ fd'[q] = fd[q]
  BY SMTT(30) DEF RescueDone, TypeOK
<1>4. \A q \in Proc \ {p} : pc[q] \notin {"copy", "dup"}
  BY <1>1, SMTT(30) DEF Sound, Busy
<1>5. Dittos' = Dittos /\ OnDisk'
  BY <1>1, DiskStays, SMTT(30) DEF Sound
<1>6. Busy'
  BY <1>1, <1>2, <1>3, <1>4, SMTT(30) DEF Sound, Busy
<1>7. Trusted'
  BY <1>1, <1>2, SMTT(30) DEF Trusted, disk
<1>8. Repairing'
  BY <1>1, <1>3, <1>5, SMTT(30) DEF Sound, Repairing, disk
<1>9. Duplicating'
  BY <1>1, <1>3, <1>4 DEF Duplicating
<1> QED
  BY <1>5, <1>6, <1>7, <1>8, <1>9 DEF Sound

\* A write reaches a sound ip, and all dittos.
LEMMA WriteSound ==
  ASSUME TypeOK, Sound, NEW p \in Proc, NEW b \in Block, NEW w \in Word, Write(p, b, w)
  PROVE  Sound' /\ data'["ip"] = truth' /\ sum'["ip"] = Checksum(truth') /\ Copies' = Copies
<1>1. /\ lock = NoProc /\ fd[p] # "none" /\ truth' = [truth EXCEPT ![b] = w]
      /\ valid' = valid \cup Dittos /\ incore' = incore \cup Dittos
      /\ sum' = Summed(data', Dittos)
      /\ data' = [c \in Copy |-> IF c \in Copies THEN [data[c] EXCEPT ![b] = w] ELSE data[c]]
      /\ UNCHANGED <<world, children, lock, pc, src, pos, fd>>
  BY SMTT(30) DEF Write, Starts, local
<1>2. \A q \in Proc : pc[q] \notin {"copy", "dup"}
  BY <1>1, Unlocked, SMTT(30) DEF Sound
<1>3. data["ip"] = truth
  BY <1>1, <1>2, SMTT(30) DEF Sound, Busy, Trusted
<1>4. Copies \subseteq Copy /\ Dittos' = Dittos /\ Copies' = Copies /\ "ip" \in Copies
      /\ Copies = {"ip"} \cup Dittos
  BY <1>1, DittosAre, SMTT(30) DEF Dittos, Copies
<1>5. \A c \in Copies : data'[c] = [data[c] EXCEPT ![b] = w]
  BY <1>1, <1>4
<1>6. data'["ip"] = truth'
  BY <1>1, <1>3, <1>4, <1>5, ZenonT(30)
<1>7. \A c \in Copies : sum'[c] = Checksum(truth')
  BY <1>1, <1>4, <1>6 DEF Summed
<1>8. \A c \in Copies : data[c] = truth => data'[c] = truth'
  BY <1>1, <1>5, ZenonT(30)
<1>9. \A c \in Copies : Near(data[c])'
  <2> SUFFICES ASSUME NEW c \in Copies
               PROVE  Near(data[c])'
    BY SMTT(30)
  <2>1. CASE data[c] = truth
    BY <1>8, <2>1, SMTT(30) DEF Near
  <2>2. ASSUME world.rots # "never", NEW e \in Block, \A i \in Block \ {e} : data[c][i] = truth[i]
        PROVE  Near(data[c])'
    <3>1. data[c] \in Content /\ truth \in Content
      BY <1>4 DEF TypeOK
    <3>2. \A i \in Block : data'[c][i] = IF i = b THEN w ELSE data[c][i]
      BY <1>5, <3>1, ZenonT(30) DEF Content
    <3>4. \A i \in Block : truth'[i] = IF i = b THEN w ELSE truth[i]
      BY <1>1, <3>1, SMTT(30) DEF Content
    <3>3. \A i \in Block \ {e} : data'[c][i] = truth'[i]
      BY <2>2, <3>2, <3>4
    <3> QED
      BY <1>1, <2>2, <3>3, ZenonT(30) DEF Near
  <2> QED
    BY <2>1, <2>2 DEF Sound, OnDisk, Near
<1>10. OnDisk'
  BY <1>4, <1>7, <1>9, SMTT(30) DEF OnDisk
<1>11. Busy'
  BY <1>1, SMTT(30) DEF Sound, Busy
<1>12. Trusted'
  BY <1>6, SMTT(30) DEF Trusted
<1>13. Repairing'
  BY <1>1, <1>2, <1>4, <1>8, ZenonT(30) DEF Sound, Repairing
<1>14. Duplicating'
  BY <1>1, <1>2, ZenonT(30) DEF Duplicating
<1> QED
  BY <1>4, <1>6, <1>7, <1>10, <1>11, <1>12, <1>13, <1>14, SMTT(30) DEF Sound

\* unlink recomputes the checksums of a file that never decays.
LEMMA UnlinkSound ==
  ASSUME TypeOK, Repairable, Sound, NEW p \in Proc, Unlink(p)
  PROVE  Sound' /\ data'["ip"] = truth' /\ sum'["ip"] = Checksum(truth') /\ Copies' = Copies
<1>1. /\ "unlink" \in world.calls /\ sum' = Summed(data, Dittos)
      /\ incore' = incore \cup Dittos
      /\ valid' = valid \cup Dittos \cup ({"ip"} \cap incore)
      /\ UNCHANGED <<world, truth, data, children, lock, pc, src, pos, fd>>
  BY ZenonT(30) DEF Unlink, Starts, local
<1>2. world.rots = "never"
  BY <1>1, ZenonT(30) DEF Repairable
<1>3. /\ Copies \subseteq Copy /\ Dittos' = Dittos /\ Copies' = Copies
      /\ "ip" \in Copies /\ Copies = {"ip"} \cup Dittos
  BY <1>1, DittosAre, ZenonT(30) DEF Dittos, Copies
<1>4. \A c \in Copies : data[c] = truth
  BY <1>2, NeverRots, SMTT(30) DEF Sound
<1>5. \A c \in Copies : sum'[c] = Checksum(truth)
  BY <1>1, <1>3, <1>4, SMTT(30) DEF Summed
<1>6. OnDisk'
  BY <1>1, <1>3, <1>4, <1>5, SMTT(30) DEF OnDisk, Near
<1>7. Busy'
  BY <1>1, SMTT(30) DEF Sound, Busy
<1>8. Trusted'
  BY <1>1, <1>3, <1>4, SMTT(30) DEF Trusted
<1>9. Repairing'
  BY <1>1, <1>2, SMTT(30) DEF Sound, Repairing
<1>10. Duplicating'
  BY <1>1, SMTT(30) DEF Sound, Duplicating
<1>11. Sound'
  BY <1>6, <1>7, <1>8, <1>9, <1>10, ZenonT(30) DEF Sound
<1>12. data'["ip"] = truth' /\ sum'["ip"] = Checksum(truth')
  BY <1>1, <1>3, <1>4, <1>5, ZenonT(30)
<1> QED
  BY <1>3, <1>11, <1>12, ZenonT(30)

\* duplicate begins with a file that passed the check.
LEMMA DupStartSound ==
  ASSUME TypeOK, Sound, NEW p \in Proc, DupStart(p)
  PROVE  Sound'
<1>1. /\ lock = NoProc /\ pc[p] = "user" /\ Lockable("ip") /\ children = <<>> /\ lock' = p
      /\ incore' = incore \cup {"ip"} /\ valid' = valid \cup {"ip"}
      /\ UNCHANGED <<world, truth, disk, fd>>
  BY SMTT(30) DEF DupStart, Starts
<1>2. data["ip"] = truth
  BY <1>1, DittosAre, LockTells, SMTT(30)
<1>3. \A q \in Proc : pc[q] \notin {"copy", "dup"}
  BY <1>1, Unlocked, SMTT(30) DEF Sound
<1>4. /\ pc'[p] = "dup" /\ pos'[p] = 0
      /\ \A q \in Proc \ {p} : pc'[q] = pc[q] /\ pos'[q] = pos[q] /\ src'[q] = src[q]
  BY SMTT(30) DEF DupStart, TypeOK
<1>5. Dittos' = Dittos /\ OnDisk'
  BY <1>1, DiskStays, SMTT(30) DEF Sound
<1>6. Busy'
  BY <1>1, <1>3, <1>4, SMTT(30) DEF Sound, Busy
<1>7. Trusted'
  BY <1>1, <1>2, SMTT(30) DEF Trusted, disk
<1>8. Repairing'
  BY <1>1, <1>3, <1>4, <1>5, SMTT(30) DEF Sound, Repairing, disk
<1>9. Duplicating'
  <2>1. \A b \in Block : ~(b < 0)
    BY SMTT(30) DEF Block
  <2> QED
    BY <1>1, <1>2, <1>3, <1>4, <2>1 DEF Duplicating, disk
<1> QED
  BY <1>5, <1>6, <1>7, <1>8, <1>9 DEF Sound

\* While duplicate runs, the file has no dittos, and nobody repairs it.
LEMMA DupAlone ==
  ASSUME TypeOK, Sound, NEW p \in Proc, pc[p] = "dup"
  PROVE  /\ children = <<>> /\ data["ip"] = truth /\ lock = p /\ "ip" \in valid
         /\ Dittos = {} /\ Copies = {"ip"}
         /\ \A q \in Proc \ {p} : pc[q] = "user"
<1>1. children = <<>> /\ data["ip"] = truth /\ lock = p /\ "ip" \in valid
  BY SMTT(30) DEF Sound, Busy, Duplicating
<1>2. Dittos = {} /\ Copies = {"ip"}
  BY <1>1, SMTT(30) DEF Dittos, Copies
<1>3. \A q \in Proc \ {p} : pc[q] = "user"
  BY <1>1, <1>2, SMTT(30) DEF Sound, Busy, Repairing, TypeOK
<1> QED
  BY <1>1, <1>2, <1>3, SMTT(30)

\* A transaction of duplicate fills a part of the dittos to be.
LEMMA DupChunkSound ==
  ASSUME TypeOK, Sound, NEW p \in Proc, DupChunk(p)
  PROVE  Sound' /\ data'["ip"] = data["ip"] /\ Copies' = Copies /\ Copies = {"ip"}
<1> DEFINE kids == {src[p][i] : i \in DOMAIN src[p]}
<1>1. /\ pc[p] = "dup" /\ pos' = [pos EXCEPT ![p] = Advance(p, DupMax)]
      /\ data' = [c \in Copy |-> [b \in Block |-> IF c \in kids /\ b \in Chunk(p, DupMax)
                                                  THEN data["ip"][b] ELSE data[c][b]]]
      /\ UNCHANGED <<world, truth, sum, children, incore, valid, lock, pc, src, fd>>
  BY DEF DupChunk
<1>2. kids \subseteq {"child1", "child2"}
  BY KidsAre, ZenonT(30) DEF TypeOK
<1> HIDE DEF kids
<1>3. /\ children = <<>> /\ data["ip"] = truth /\ Dittos = {} /\ Copies = {"ip"}
      /\ \A q \in Proc \ {p} : pc[q] = "user"
  BY <1>1, DupAlone, SMTT(30)
<1>4. Dittos' = Dittos /\ Copies' = Copies
  BY <1>1, SMTT(30) DEF Dittos, Copies
<1>5. data'["ip"] = truth
  <2>1. data'["ip"] = [b \in Block |-> data["ip"][b]]
    BY <1>1, <1>2, SMTT(30) DEF Copy
  <2> QED
    BY <1>3, <2>1, SMTT(30) DEF TypeOK, Content
<1>6. OnDisk'
  BY <1>1, <1>3, <1>4, <1>5, SMTT(30) DEF Sound, OnDisk, Near
<1>7. Busy'
  BY <1>1, ZenonT(30) DEF Sound, Busy
<1>8. Trusted'
  BY <1>1, <1>5, SMTT(30) DEF Trusted
<1>9. Repairing'
  BY <1>1, <1>3, SMTT(30) DEF Repairing
<1>10. ASSUME NEW i \in DOMAIN src[p], NEW b \in Block, b < pos'[p]
       PROVE  data'[src[p][i]][b] = truth[b]
  <2>1. src[p][i] \in kids /\ src[p][i] \in Copy
    BY <1>2, <1>10, SMTT(30) DEF kids, Copy
  <2>2. CASE b \in Chunk(p, DupMax)
    BY <1>1, <1>3, <2>1, <2>2, SMTT(30)
  <2>3. CASE b \notin Chunk(p, DupMax)
    <3>1. b < pos[p]
      <4>1. pos[p] \in 0..NBlock /\ DupMax \in Nat \ {0} /\ NBlock \in Nat /\ b \in Nat
        BY DittoAssumption, SMTT(30) DEF TypeOK, Block
      <4>2. pos'[p] <= pos[p] + DupMax
        BY <1>1, <4>1 DEF Advance, TypeOK
      <4>3. ~(pos[p] <= b /\ b < pos[p] + DupMax)
        BY <2>3, ZenonT(30) DEF Chunk
      <4> HIDE DEF kids
      <4>4. pos'[p] \in Int
        BY <1>1, <4>1, SMTT(30) DEF Advance, TypeOK
      <4> QED
        BY <1>10, <4>1, <4>2, <4>3, <4>4, SMTT(30)
    <3>2. data[src[p][i]][b] = truth[b]
      BY <1>1, <1>10, <3>1, SMTT(30) DEF Sound, Duplicating
    <3> QED
      BY <1>1, <2>1, <2>3, <3>2, SMTT(30)
  <2> QED
    BY <2>2, <2>3, SMTT(30)
<1>11. Duplicating'
  <2>1. \A q \in Proc : pc'[q] = "dup" => q = p
    BY <1>1, <1>3, SMTT(30)
  <2>2. children' = <<>> /\ src' = src /\ truth' = truth
    BY <1>1, <1>3, SMTT(30)
  <2>3. \A i \in DOMAIN src[p], b \in Block : b < pos'[p] => data'[src[p][i]][b] = truth[b]
    BY <1>10, SMTT(30)
  <2> QED
    BY <1>5, <2>1, <2>2, <2>3, SMTT(30) DEF Duplicating
<1> QED
  BY <1>3, <1>4, <1>5, <1>6, <1>7, <1>8, <1>9, <1>11, SMTT(30) DEF Sound

\* The last transaction of duplicate makes the dittos known.
LEMMA DupDoneSound ==
  ASSUME TypeOK, Sound, NEW p \in Proc, DupDone(p)
  PROVE  Sound' /\ data'["ip"] = truth /\ sum'["ip"] = Checksum(truth) /\ "ip" \in Copies'
<1> DEFINE kids == {src[p][i] : i \in DOMAIN src[p]}
           drop == IF Referenced(p) \/ fd[p] # "none" THEN {} ELSE {"ip"}
<1>1. /\ pc[p] = "dup" /\ pos[p] = NBlock /\ children' = src[p]
      /\ sum' = Summed(data, kids) /\ lock' = NoProc
      /\ incore' = (incore \cup kids) \ drop /\ valid' = (valid \cup kids) \ drop
      /\ UNCHANGED <<world, truth, data, src, pos, fd>>
  BY DEF DupDone
<1>2. kids \subseteq {"child1", "child2"}
  BY KidsAre, ZenonT(30) DEF TypeOK
<1>3. /\ data["ip"] = truth /\ "ip" \in valid /\ \A q \in Proc \ {p} : pc[q] = "user"
  BY <1>1, DupAlone, ZenonT(30)
<1>4. \/ drop = {}
      \/ drop = {"ip"} /\ \A q \in Proc : fd[q] = "none"
  BY SMTT(30) DEF Referenced
<1>5. Dittos' = kids /\ Copies' = {"ip"} \cup kids
  BY <1>1, ZenonT(30) DEF Dittos, Copies
<1>6. \A c \in kids : data[c] = truth
  <2> SUFFICES ASSUME NEW i \in DOMAIN src[p]
               PROVE  data[src[p][i]] = truth
    BY SMTT(30)
  <2>1. src[p][i] \in Copy
    BY <1>2, SMTT(30) DEF Copy
  <2>2. \A b \in Block : b < pos[p]
    BY <1>1, DittoAssumption, SMTT(30) DEF Block
  <2>3. \A b \in Block : data[src[p][i]][b] = truth[b]
    BY <1>1, <2>2, SMTT(30) DEF Sound, Duplicating
  <2> QED
    BY <2>1, <2>3, SMTT(30) DEF TypeOK, Content
<1> HIDE DEF kids, drop
<1>7. pc'[p] = "user" /\ \A q \in Proc \ {p} : pc'[q] = pc[q]
  BY SMTT(30) DEF DupDone, TypeOK
<1>8. \A q \in Proc : pc'[q] = "user"
  BY <1>3, <1>7, SMTT(30)
<1>9. \A c \in {"ip"} \cup kids : sum'[c] = Checksum(truth) /\ data'[c] = truth
  BY <1>1, <1>2, <1>3, <1>6, SMTT(30) DEF Summed, Copy
<1>10. OnDisk'
  BY <1>1, <1>5, <1>9, SMTT(30) DEF OnDisk, Near
<1>11. Busy'
  BY <1>1, <1>2, <1>3, <1>4, <1>8, SMTT(30) DEF Sound, Busy
<1>12. Trusted'
  BY <1>1, <1>9, SMTT(30) DEF Trusted
<1>13. Repairing' /\ Duplicating'
  BY <1>8, SMTT(30) DEF Repairing, Duplicating
<1> QED
  BY <1>5, <1>9, <1>10, <1>11, <1>12, <1>13, SMTT(30) DEF Sound

\* Decay of a copy while the system is down, of one block at most.
LEMMA RotSound ==
  ASSUME TypeOK, Repairable, Sound, NEW c \in Copy, NEW b \in Block, Rot(c, b)
  PROVE  Sound'
<1>1. /\ incore = {} /\ world.rots # "never" /\ data[c] = truth
      /\ UNCHANGED <<world, truth, sum, children, incore, valid, lock, pc, src, pos, fd>>
  BY DEF Rot, Repairable, local
<1>2. PICK w \in Word : data' = [data EXCEPT ![c][b] = w]
  BY ZenonT(30) DEF Rot
<1>3. valid = {} /\ \A p \in Proc : pc[p] = "user" /\ fd[p] = "none"
  BY <1>1, ZenonT(30) DEF Sound, Busy
<1>4. Copies' = Copies /\ Copies \subseteq Copy
  BY <1>1, DittosAre, SMTT(30) DEF Copies, Dittos
<1>5. \A x \in Copy \ {c} : data'[x] = data[x]
  BY <1>2, SMTT(30) DEF TypeOK
<1>6. \A i \in Block \ {b} : data'[c][i] = truth[i]
  BY <1>1, <1>2, SMTT(30) DEF TypeOK, Content
<1>7. OnDisk'
  <2>1. Near(data[c])'
    BY <1>1, <1>6, SMTT(30) DEF Near
  <2>2. \A x \in Copies \ {c} : Near(data[x])'
    <3> SUFFICES ASSUME NEW x \in Copies \ {c}
                 PROVE  Near(data[x])'
      BY SMTT(30)
    <3>1. data'[x] = data[x] /\ Near(data[x])
      BY <1>4, <1>5, SMTT(30) DEF Sound, OnDisk
    <3> QED
      BY <1>1, <3>1 DEF Near
  <2>3. \A x \in Copies : sum'[x] = Checksum(truth)
    BY <1>1, SMTT(30) DEF Sound, OnDisk
  <2> QED
    BY <1>1, <1>4, <2>1, <2>2, <2>3, SMTT(30) DEF OnDisk
<1>8. Busy'
  BY <1>1, SMTT(30) DEF Sound, Busy
<1>9. Trusted' /\ Repairing' /\ Duplicating'
  BY <1>1, <1>3, SMTT(30) DEF Trusted, Repairing, Duplicating
<1> QED
  BY <1>7, <1>8, <1>9, SMTT(30) DEF Sound

\* A crash forgets what was trusted, and leaves what is on disk.
LEMMA CrashSound ==
  ASSUME Sound, Crash
  PROVE  Sound'
<1>1. OnDisk'
  BY DiskStays, SMTT(30) DEF Crash, Sound
<1>2. /\ lock' = NoProc /\ incore' = {} /\ valid' = {}
      /\ \A p \in Proc : pc'[p] = "user" /\ fd'[p] = "none"
  BY SMTT(30) DEF Crash
<1> QED
  BY <1>1, <1>2, DittoAssumption, SMTT(30) DEF Sound, Busy, Trusted, Repairing, Duplicating

\* Every step keeps a repairable file sound.
LEMMA NextSound ==
  ASSUME TypeOK, Repairable, Sound, [Next]_vars
  PROVE  Sound'
<1>1. CASE UNCHANGED vars
  <2>1. UNCHANGED <<world, truth, disk>> /\ UNCHANGED <<incore, valid, lock, pc, src, pos, fd>>
    BY <1>1 DEF vars, disk
  <2>2. Dittos' = Dittos /\ OnDisk'
    BY <2>1, DiskStays, SMTT(30) DEF Sound
  <2>3. Busy'
    BY <2>1, SMTT(30) DEF Sound, Busy
  <2>4. Trusted'
    BY <2>1, <2>2, SMTT(30) DEF Sound, Trusted, disk
  <2>5. Repairing'
    BY <2>1, <2>2, SMTT(30) DEF Sound, Repairing, disk
  <2>6. Duplicating'
    BY <2>1 DEF Sound, Duplicating, disk
  <2> QED
    BY <2>2, <2>3, <2>4, <2>5, <2>6, SMTT(30) DEF Sound
<1>2. ASSUME NEW p \in Proc,
             \/ OpenOk(p) \/ OpenRescue(p) \/ OpenCorrupted(p)
             \/ ForceOpen(p) \/ Close(p)
             \/ RescueLock(p) \/ RescueChunk(p) \/ RescueDone(p)
             \/ \E b \in Block, w \in Word : Write(p, b, w)
             \/ Unlink(p)
             \/ DupStart(p) \/ DupCorrupted(p) \/ DupChunk(p) \/ DupDone(p)
      PROVE  Sound'
  BY <1>2, OpenOkSound, OpenRescueSound, CorruptedSound, ForceOpenSound, CloseSound,
     RescueLockSound, RescueChunkSound, RescueDoneSound, WriteSound, UnlinkSound,
     DupStartSound, DupChunkSound, DupDoneSound, ZenonT(30)
<1>3. ASSUME NEW c \in Copy, NEW b \in Block, Rot(c, b)
      PROVE  Sound'
  BY <1>3, RotSound
<1>4. CASE Crash
  BY <1>4, CrashSound
<1> QED
  BY <1>1, <1>2, <1>3, <1>4 DEF Next

\* A fresh file is sound.
LEMMA InitInv == Init => Inv
<1> SUFFICES ASSUME Init PROVE Inv
  OBVIOUS
<1>1. children \in Kids \cup {<<>>}
  BY SMTT(30) DEF Init, Kids
<1>2. data \in [Copy -> Content] /\ sum \in [Copy -> Word]
  BY ChecksumType, SMTT(30) DEF Init
<1>3. pos \in [Proc -> 0..NBlock] /\ src \in [Proc -> Kids \cup {<<>>, <<"child2">>}]
  <2>1. 0 \in 0..NBlock
    BY DittoAssumption
  <2> QED
    BY <2>1 DEF Init
<1>4. TypeOK
  BY <1>1, <1>2, <1>3, ZenonT(30) DEF Init, TypeOK
<1>5. OnDisk
  BY <1>4, DittosAre, SMTT(30) DEF Init, OnDisk, Near
<1>6. Sound
  BY <1>5, DittoAssumption DEF Init, Sound, Busy, Trusted, Repairing, Duplicating
<1> QED
  BY <1>4, <1>6 DEF Inv

\* The invariant of a file, its checksums and its dittos: the types, and, in a
\* world where a file can be trusted, what makes it so.
THEOREM Invariant == Spec => []Inv
<1>1. Init => Inv
  BY InitInv
<1>2. Inv /\ [Next]_vars => Inv'
  <2> SUFFICES ASSUME Inv, [Next]_vars PROVE Inv'
    OBVIOUS
  <2>1. TypeOK'
    BY NextType, SMTT(30) DEF Inv
  <2>2. world' = world
    BY ZenonT(30)
       DEF Next, vars, OpenOk, OpenRescue, OpenCorrupted, ForceOpen, Close, RescueLock,
           RescueChunk, RescueDone, Write, Unlink, DupStart, DupCorrupted, DupChunk,
           DupDone, Rot, Crash
  <2>3. Repairable' => Repairable
    BY <2>2 DEF Repairable
  <2>4. Repairable' => Sound'
    BY <2>3, NextSound DEF Inv
  <2> QED
    BY <2>1, <2>4 DEF Inv
<1> QED
  BY <1>1, <1>2, PTL DEF Spec

\* Where a file can be trusted, whoever opened it with open reads what was
\* written to it (ilock_ext, irescue).
THEOREM TrueReads == Spec => [](Repairable => ReadsAreTrue)
<1>1. Inv => (Repairable => ReadsAreTrue)
  <2> SUFFICES ASSUME Inv, Repairable, NEW p \in Proc, fd[p] = "open", lock = NoProc
               PROVE  data["ip"] = truth
    BY SMTT(30) DEF ReadsAreTrue
  <2>1. "ip" \in valid /\ \A q \in Proc : pc[q] # "copy"
    BY Unlocked DEF Inv, Sound, Busy
  <2> QED
    BY <2>1 DEF Inv, Sound, Trusted
<1> QED
  BY <1>1, Invariant, PTL

\* There, a copy on disk whose checksum matches holds what was written (iupdate,
\* cupdate, irescue), also where a crash interrupts a call.
THEOREM TrueChecksums == Spec => [](Repairable => HonestChecksums)
<1>1. Inv => (Repairable => HonestChecksums)
  BY CheckTells DEF Inv, Sound, HonestChecksums
<1> QED
  BY <1>1, Invariant, PTL

\* A ditto of a file that never decays is its mirror image (writei_ext, cupdate,
\* duplicate), whatever the calls and the crashes.
THEOREM DittosMirror == Spec => []Mirrored
<1>1. Inv => Mirrored
  <2> SUFFICES ASSUME Inv, world.rots = "never", NEW c \in Dittos
               PROVE  data[c] = data["ip"] /\ sum[c] = sum["ip"]
    BY DEF Mirrored
  <2>1. Sound /\ c \in Copies /\ "ip" \in Copies
    BY DEF Inv, Repairable, Copies
  <2>2. data[c] = truth /\ data["ip"] = truth
    BY <2>1, NeverRots DEF Sound
  <2> QED
    BY <2>1, <2>2 DEF Sound, OnDisk
<1> QED
  BY <1>1, Invariant, PTL

\* Where a file can be trusted, open reports E_CORRUPTED only when no copy holds
\* what was written (ilock_ext's loop over the dittos): the checksum on disk is
\* always the true content's, so a copy that has the content passes the check.
THEOREM AlarmIsTrue == Spec /\ []Repairable => NoFalseAlarm
<1>1. ASSUME TypeOK, OnDisk, NEW p \in Proc, OpenCorrupted(p), NEW c \in Copies
      PROVE  data[c] # truth
  <2> SUFFICES ASSUME data[c] = truth PROVE FALSE
    OBVIOUS
  <2>1. Lockable(c)
    BY <1>1, SMTT(30) DEF OnDisk, Lockable
  <2>2. ~Lockable("ip") /\ \A i \in DOMAIN children : ~ReplicaFound(i)
    BY <1>1, SMTT(30) DEF OpenCorrupted
  <2>3. PICK i \in DOMAIN children : c = children[i]
    BY <2>1, <2>2, SMTT(30) DEF Copies, Dittos
  <2>4. i \in {1, 2} /\ 1..i \subseteq DOMAIN children
    BY <1>1, DittosAre, SMTT(30)
  <2>5. CASE i = 1 \/ ~Lockable(children[1])
    <3>1. \A j \in 1..i - 1 : j = 1 /\ i # 1
      BY <2>4, SMTT(30)
    <3> QED
      BY <2>1, <2>2, <2>3, <2>5, <3>1 DEF ReplicaFound
  <2>6. CASE Lockable(children[1])
    <3>1. 1 \in DOMAIN children /\ 1..1 - 1 = {}
      BY <2>4
    <3> QED
      BY <2>2, <2>6, <3>1 DEF ReplicaFound
  <2> QED
    BY <2>5, <2>6
<1>2. Inv /\ Repairable /\ [Next]_vars =>
        [\A p \in Proc : OpenCorrupted(p) => \A c \in Copies : data[c] # truth]_vars
  BY <1>1 DEF Inv, Sound
<1> QED
  BY <1>2, Invariant, PTL DEF Spec, NoFalseAlarm

\* Where a file can be trusted, no call and no crash destroys its last sound copy.
THEOREM LastCopyKept == Spec /\ []Repairable => GoodCopySurvives
<1> DEFINE Kept == (\E c \in Copies : Intact(c)) /\ (\A c \in Copy, b \in Block : ~Rot(c, b))
                     => (\E c \in Copies : Intact(c))'
<1>1. ASSUME TypeOK, Repairable, Sound, [Next]_vars
      PROVE  [Kept]_vars
  <2> SUFFICES ASSUME Next, NEW c \in Copies, Intact(c), \A x \in Copy, b \in Block : ~Rot(x, b)
               PROVE  (\E x \in Copies : Intact(x))'
    BY <1>1, SMTT(30)
  <2>1. ASSUME data'["ip"] = truth', sum'["ip"] = Checksum(truth')
        PROVE  (\E x \in Copies : Intact(x))'
    BY <2>1, SMTT(30) DEF Copies, Intact
  <2>2. ASSUME UNCHANGED <<world, truth, disk>>
        PROVE  (\E x \in Copies : Intact(x))'
    BY <2>2, DiskStays DEF disk, Intact
  <2>3. ASSUME NEW p \in Proc, RescueChunk(p)
        PROVE  (\E x \in Copies : Intact(x))'
    BY <1>1, <2>1, <2>3, RescueChunkSound, ZenonT(30) DEF RescueChunk
  <2>4. ASSUME NEW p \in Proc, NEW b \in Block, NEW w \in Word, Write(p, b, w)
        PROVE  (\E x \in Copies : Intact(x))'
    BY <1>1, <2>1, <2>4, WriteSound, SMTT(30)
  <2>5. ASSUME NEW p \in Proc, Unlink(p)
        PROVE  (\E x \in Copies : Intact(x))'
    BY <1>1, <2>1, <2>5, UnlinkSound, SMTT(30)
  <2>6. ASSUME NEW p \in Proc, DupChunk(p)
        PROVE  (\E x \in Copies : Intact(x))'
    <3>1. data'["ip"] = data["ip"] /\ Copies = {"ip"}
      BY <1>1, <2>6, DupChunkSound, ZenonT(30)
    <3>2. truth' = truth /\ sum' = sum
      BY <2>6, ZenonT(30) DEF DupChunk
    <3> QED
      BY <2>1, <3>1, <3>2 DEF Intact
  <2>7. ASSUME NEW p \in Proc, DupDone(p)
        PROVE  (\E x \in Copies : Intact(x))'
    BY <1>1, <2>1, <2>7, DupDoneSound, ZenonT(30) DEF DupDone
  <2>8. ASSUME NEW p \in Proc,
               \/ OpenOk(p) \/ OpenRescue(p) \/ OpenCorrupted(p) \/ ForceOpen(p) \/ Close(p)
               \/ RescueLock(p) \/ RescueDone(p) \/ DupStart(p) \/ DupCorrupted(p)
        PROVE  (\E x \in Copies : Intact(x))'
    BY <2>2, <2>8, ZenonT(30)
       DEF OpenOk, OpenRescue, OpenCorrupted, ForceOpen, Close, RescueLock,
                      RescueDone, DupStart, DupCorrupted
  <2>9. CASE Crash
    BY <2>2, <2>9 DEF Crash
  <2> QED
    BY <2>3, <2>4, <2>5, <2>6, <2>7, <2>8, <2>9, SMTT(30) DEF Next
<1>2. Inv /\ Repairable /\ [Next]_vars => [Kept]_vars
  BY <1>1 DEF Inv
<1> QED
  BY <1>2, Invariant, PTL DEF Spec, GoodCopySurvives
=============================================================================
