------------------------------- MODULE Console ------------------------------
(***************************************************************************)
(* The console input of console.c: the ring that consoleintr edits and     *)
(* consoleread empties, with its three indices r, w and e.                 *)
(*                                                                         *)
(* A handler call and a section of consoleread under input.lock, from      *)
(* acquire or the return of sleep to release or sleep, are one step.  The  *)
(* echo on the screen and the inode that consoleread unlocks are left out. *)
(***************************************************************************)
EXTENDS Integers, Sequences

CONSTANTS
  Reader,
  INPUT_BUF,
  Wrap,        \* the indices are uint: they count modulo Wrap, a multiple of
               \* INPUT_BUF (2^32 in the program)
  Letter,      \* characters without a meaning to the driver
  Sizes,       \* lengths that consoleread is called with
  MaxTyped     \* bound: keys pressed

VARIABLES
  input, r, w, e,   \* struct input: buf, r, w and e
  rpc,              \* per reader: "out", "in" (will acquire), "asleep"
  need, target,     \* per reader: n and target of consoleread
  killed,           \* per reader
  committed,        \* characters that readers may have, not read yet
  line,             \* characters typed since, as edited
  typed             \* keys pressed

convars == <<input, r, w, e, rpc, need, target, killed, committed, line, typed>>

\* Keys: letters, newline, end of file, backspace, kill line.
NL == "newline"
CtrlD == "ctrl-d"
Backspace == "backspace"
CtrlU == "ctrl-u"
Char == Letter \cup {NL, CtrlD}

\* Arithmetic of uint, and the place of an index in the ring.
Plus(i, n) == (i + n) % Wrap
InRing(i) == i % INPUT_BUF

\* The ring has a place, 2^32 is a multiple of its size, and a larger one.
ConAssumption ==
  /\ INPUT_BUF \in Nat \ {0} /\ Wrap \in Nat
  /\ Wrap > INPUT_BUF /\ Wrap % INPUT_BUF = 0
  /\ Sizes \subseteq Nat

ASSUME InputAssumption == ConAssumption

\* Before the first key the indices may be anywhere, as after earlier lines.
ConInit ==
  /\ r \in 0..Wrap - 1 /\ w = r /\ e = r
  /\ input = [i \in 0..INPUT_BUF - 1 |-> NL]
  /\ rpc = [p \in Reader |-> "out"]
  /\ need = [p \in Reader |-> 0] /\ target = [p \in Reader |-> 0]
  /\ killed = [p \in Reader |-> FALSE]
  /\ committed = <<>> /\ line = <<>>
  /\ typed = 0

WakeupReaders ==
  [p \in Reader |-> IF rpc[p] = "asleep" THEN "in" ELSE rpc[p]]
-----------------------------------------------------------------------------
(* consoleintr, for one character.                                         *)

\* Fault for InputIntact: the difference of the indices is not taken as a uint.
FitsSigned == e - r < INPUT_BUF

\* input.e-input.r < INPUT_BUF
Fits == Plus(e, Wrap - r) < INPUT_BUF

\* A character is stored; a newline, the end of file or a full ring commits.
Type(c) ==
  /\ Fits
  /\ input' = [input EXCEPT ![InRing(e)] = c]
  /\ e' = Plus(e, 1)
  /\ IF c \in {NL, CtrlD} \/ e' = Plus(r, INPUT_BUF)
     THEN /\ w' = e'
          /\ rpc' = WakeupReaders
          /\ committed' = committed \o Append(line, c) /\ line' = <<>>
     ELSE /\ line' = Append(line, c)
          /\ UNCHANGED <<w, rpc, committed>>

\* The ring is full: the key has no effect.
TypeLost == ~Fits /\ UNCHANGED <<input, e, w, rpc, committed, line>>

\* Backspace takes back one character, not past w.
Erase ==
  /\ IF e # w THEN e' = Plus(e, Wrap - 1) /\ line' = SubSeq(line, 1, Len(line) - 1)
              ELSE UNCHANGED <<e, line>>
  /\ UNCHANGED <<input, w, rpc, committed>>

\* Control-U takes back characters to w or to a newline before it.
KillLine ==
  LET n == CHOOSE k \in 0..INPUT_BUF :
             /\ Plus(w, k) = e
             /\ \A j \in 0..k - 1 : Plus(w, j) # e
      stops == {k \in 0..n : k = 0 \/ input[InRing(Plus(w, k - 1))] = NL}
      stop == CHOOSE k \in stops : \A j \in stops : j <= k
  IN  /\ e' = Plus(w, stop)
      /\ line' = SubSeq(line, 1, stop)
      /\ UNCHANGED <<input, w, rpc, committed>>

consoleintr ==
  /\ typed < MaxTyped
  /\ typed' = typed + 1
  /\ \/ \E c \in Char : Type(c)
     \/ TypeLost
     \/ Erase
     \/ KillLine
  /\ UNCHANGED <<r, need, target, killed>>
-----------------------------------------------------------------------------
(* consoleread.                                                            *)

Call(p) ==
  /\ rpc[p] = "out" /\ ~killed[p]
  /\ \E n \in Sizes :
       need' = [need EXCEPT ![p] = n] /\ target' = [target EXCEPT ![p] = n]
  /\ rpc' = [rpc EXCEPT ![p] = "in"]
  /\ UNCHANGED <<input, r, w, e, killed, committed, line, typed>>

\* The characters it finds between r and w.
Ready == CHOOSE k \in 0..INPUT_BUF : Plus(r, k) = w /\ \A j \in 0..k - 1 : Plus(r, j) # w
CharAt(k) == input[InRing(Plus(r, k - 1))]

\* How many of them end the loop: the first newline or end of file, or all it
\* still needs.  None if the loop has to sleep for more.
Ends(p) == {k \in 1..Ready : CharAt(k) \in {NL, CtrlD} \/ k = need[p]}
Last(p) == CHOOSE k \in Ends(p) : \A j \in Ends(p) : k <= j

\* "Save ^D for next time": it is not taken if characters came before it.
Saved(p) ==
  CharAt(Last(p)) = CtrlD /\ (need[p] - (Last(p) - 1) < target[p])

\* k characters are taken out of the ring.
Take(k) ==
  /\ r' = Plus(r, k)
  /\ committed' = SubSeq(committed, k + 1, Len(committed))

Taken(p) == IF Saved(p) THEN Last(p) - 1 ELSE Last(p)

\* The loop ends: release, and return.
Finish(p) ==
  /\ rpc[p] = "in"
  /\ IF need[p] = 0 THEN Take(0) ELSE Ends(p) # {} /\ Take(Taken(p))
  /\ rpc' = [rpc EXCEPT ![p] = "out"]
  /\ need' = [need EXCEPT ![p] = 0] /\ target' = [target EXCEPT ![p] = 0]
  /\ UNCHANGED <<input, w, e, killed, line, typed>>

\* The ring is empty before the loop ends: return -1 if killed, else sleep.  A
\* kill that comes between the test of killed and sleep wakes nobody.
Starve(p) ==
  /\ rpc[p] = "in"
  /\ need[p] > 0 /\ Ends(p) = {}
  /\ Take(Ready)
  /\ rpc' = [rpc EXCEPT ![p] = IF killed[p] THEN "out" ELSE "asleep"]
  /\ need' = [need EXCEPT ![p] = IF killed[p] THEN 0 ELSE @ - Ready]
  /\ target' = [target EXCEPT ![p] = IF killed[p] THEN 0 ELSE @]
  /\ \E late \in BOOLEAN : killed' = [killed EXCEPT ![p] = @ \/ late]
  /\ UNCHANGED <<input, w, e, line, typed>>

\* kill marks a reader and wakes it.
KillReader(p) ==
  /\ ~killed[p]
  /\ killed' = [killed EXCEPT ![p] = TRUE]
  /\ rpc' = [rpc EXCEPT ![p] = IF @ = "asleep" THEN "in" ELSE @]
  /\ UNCHANGED <<input, r, w, e, need, target, committed, line, typed>>

ConNext ==
  \/ consoleintr
  \/ \E p \in Reader : Call(p) \/ Finish(p) \/ Starve(p) \/ KillReader(p)

ConSpec == ConInit /\ [][ConNext]_convars
-----------------------------------------------------------------------------
(* Property.                                                               *)

\* Readers get what was typed, as edited, and all of it: in the ring, from r,
\* are the characters committed and not read, and after them, from w to e, the
\* line still edited, wherever the indices have wrapped and however full the
\* ring is; and no reader sleeps while there are characters for it.
InputIntact ==
  /\ Len(committed) + Len(line) <= INPUT_BUF
  /\ w = Plus(r, Len(committed)) /\ e = Plus(w, Len(line))
  /\ \A i \in 1..Len(committed) : input[InRing(Plus(r, i - 1))] = committed[i]
  /\ \A i \in 1..Len(line) : input[InRing(Plus(w, i - 1))] = line[i]
  /\ \A p \in Reader : rpc[p] = "asleep" => committed = <<>>
=============================================================================
