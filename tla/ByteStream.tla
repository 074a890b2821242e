----------------------------- MODULE ByteStream -----------------------------
(***************************************************************************)
(* What a pipe promises: a bounded first-in first-out stream of bytes with *)
(* two ends that can each be closed once.                                  *)
(***************************************************************************)
EXTENDS Naturals, Sequences

CONSTANTS Byte, Capacity

VARIABLES
  queue,     \* bytes written and not yet read
  out,       \* bytes delivered by the last read
  readend, writeend  \* is this end open?

vars == <<queue, out, readend, writeend>>

Init == queue = <<>> /\ out = <<>> /\ readend = TRUE /\ writeend = TRUE

\* A writer appends some bytes, as many as fit.
Put ==
  /\ writeend = TRUE
  /\ \E n \in 1..Capacity - Len(queue) :
       \E s \in [1..n -> Byte] : queue' = queue \o s
  /\ UNCHANGED <<out, readend, writeend>>

\* A reader takes some bytes, or none from a stream that has ended.
Get ==
  /\ readend = TRUE
  /\ \E n \in 0..Len(queue) :
       /\ out' = SubSeq(queue, 1, n)
       /\ queue' = SubSeq(queue, n + 1, Len(queue))
  /\ UNCHANGED <<readend, writeend>>

CloseRead == readend = TRUE /\ readend' = FALSE /\ UNCHANGED <<queue, out, writeend>>
CloseWrite == writeend = TRUE /\ writeend' = FALSE /\ UNCHANGED <<queue, out, readend>>

Next == Put \/ Get \/ CloseRead \/ CloseWrite

Spec == Init /\ [][Next]_vars
=============================================================================
