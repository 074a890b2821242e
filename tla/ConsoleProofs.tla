---------------------------- MODULE ConsoleProofs ----------------------------
(***************************************************************************)
(* The console's ring, for any size of it, any range of the indices that   *)
(* is a multiple of the size, and any number of readers and keys.          *)
(*                                                                         *)
(* Indices count modulo Wrap and places modulo INPUT_BUF.  The proof turns *)
(* them into distances from r: two distances of at most INPUT_BUF that     *)
(* give the same index are equal, and so are two below INPUT_BUF that give *)
(* the same place.                                                         *)
(***************************************************************************)
EXTENDS Console, SequenceTheorems, WellFoundedInduction, TLAPS

Index == 0..Wrap - 1
Place == 0..INPUT_BUF - 1

\* The types of the variables.
TypeOK ==
  /\ r \in Index /\ w \in Index /\ e \in Index
  /\ input \in [Place -> Char]
  /\ rpc \in [Reader -> {"out", "in", "asleep"}]
  /\ need \in [Reader -> Nat]
  /\ committed \in Seq(Char) /\ line \in Seq(Char)

\* The inductive invariant.
Inv == TypeOK /\ InputIntact
-----------------------------------------------------------------------------
(* Arithmetic of remainders.                                               *)

\* Products of natural numbers.
LEMMA Product ==
  ASSUME NEW n \in Nat, NEW x \in Nat
  PROVE  n * x \in Nat
OBVIOUS

\* A number is a multiple of n and a remainder.
LEMMA Division ==
  ASSUME NEW n \in Nat \ {0}, NEW x \in Nat
  PROVE  /\ x % n \in 0..n - 1
         /\ \E q \in Nat : x = n * q + (x % n)
<1>1. x \div n \in Nat /\ x % n \in 0..n - 1 /\ x = n * (x \div n) + (x % n)
  OBVIOUS
<1> QED
  BY <1>1, Zenon

\* A larger multiple is larger by n.
LEMMA Multiples ==
  ASSUME NEW n \in Nat, NEW p \in Nat, NEW q \in Nat, p > q
  PROVE  n * p >= n * q + n
<1> PICK z \in Nat : p = q + 1 + z
  <2>1. p - q - 1 \in Nat /\ p = q + 1 + (p - q - 1)
    OBVIOUS
  <2> QED
    BY <2>1
<1>1. n * p = n * q + n + n * z
  OBVIOUS
<1>2. n * z \in Nat /\ n * q \in Nat /\ n * p \in Nat
  BY Product
<1> QED
  BY <1>1, <1>2

\* The remainder is the only one.
LEMMA Remainder ==
  ASSUME NEW n \in Nat \ {0}, NEW q \in Nat, NEW a \in 0..n - 1
  PROVE  (n * q + a) % n = a
<1> DEFINE x == n * q + a
<1>1. x \in Nat /\ n * q \in Nat /\ n \in Nat
  BY Product
<1> PICK p \in Nat : x = n * p + (x % n)
  <2> HIDE DEF x
  <2> QED
    BY <1>1, Division, Zenon
<1>2. x % n \in 0..n - 1
  <2> HIDE DEF x
  <2> QED
    BY <1>1, Division, Zenon
<1>3. n * p \in Nat
  BY Product
<1> DEFINE b == x % n
<1>4. b \in 0..n - 1 /\ n * p + b = n * q + a
  BY <1>2
<1> HIDE DEF b, x
<1>5. p = q
  <2>1. p > q => n * p >= n * q + n
    BY <1>1, Multiples, Zenon
  <2>2. q > p => n * q >= n * p + n
    BY <1>1, Multiples, Zenon
  <2> QED
    BY <2>1, <2>2, <1>1, <1>3, <1>4
<1>6. b = a
  BY <1>1, <1>3, <1>4, <1>5
<1> QED
  BY <1>6 DEF b, x

\* Remainders of sums.
LEMMA SumOfRemainders ==
  ASSUME NEW n \in Nat \ {0}, NEW x \in Nat, NEW y \in Nat
  PROVE  ((x % n) + y) % n = (x + y) % n
<1> PICK q \in Nat : x = n * q + (x % n)
  BY Division, Zenon
<1> DEFINE a == x % n
<1>1. a \in Nat /\ x = n * q + a /\ a + y \in Nat
  BY Division
<1> HIDE DEF a
<1> PICK p \in Nat : a + y = n * p + ((a + y) % n)
  BY <1>1, Division, Zenon
<1> DEFINE b == (a + y) % n
<1>2. b \in 0..n - 1 /\ a + y = n * p + b
  BY <1>1, Division, Zenon
<1> HIDE DEF b
<1>3. x + y = n * (q + p) + b
  <2>1. n * (q + p) = n * q + n * p /\ n * q \in Nat /\ n * p \in Nat
    OBVIOUS
  <2> QED
    BY <2>1, <1>1, <1>2
<1>4. q + p \in Nat
  OBVIOUS
<1>5. (x + y) % n = b
  BY <1>2, <1>3, <1>4, Remainder, Zenon
<1> QED
  BY <1>5 DEF b, a

\* n more make no difference.
LEMMA OnceAround ==
  ASSUME NEW n \in Nat \ {0}, NEW x \in Nat
  PROVE  (x + n) % n = x % n
<1>1. x % n \in 0..n - 1
  BY Division, Zenon
<1> PICK q \in Nat : x = n * q + (x % n)
  BY Division, Zenon
<1>2. x + n = n * (q + 1) + (x % n) /\ q + 1 \in Nat
  OBVIOUS
<1> QED
  BY <1>1, <1>2, Remainder, Zenon

\* The remainder of a remainder, for a divisor of n.
LEMMA RemainderTwice ==
  ASSUME NEW k \in Nat \ {0}, NEW n \in Nat \ {0}, n % k = 0, NEW x \in Nat
  PROVE  (x % n) % k = x % k
<1> PICK m \in Nat : n = k * m
  <2> PICK m \in Nat : n = k * m + (n % k)
    BY Division, Zenon
  <2>1. k * m \in Nat
    BY Product
  <2> QED
    BY <2>1
<1> PICK q \in Nat : x = n * q + (x % n)
  BY Division, Zenon
<1> DEFINE a == x % n
<1>1. a \in Nat /\ x = n * q + a
  <2>1. x % n \in 0..n - 1
    BY Division, Zenon
  <2> QED
    BY <2>1
<1> HIDE DEF a
<1> PICK p \in Nat : a = k * p + (a % k)
  BY <1>1, Division, Zenon
<1>2. a % k \in 0..k - 1
  BY <1>1, Division, Zenon
<1> DEFINE b == a % k
<1>3. b \in 0..k - 1 /\ a = k * p + b
  BY <1>2
<1> HIDE DEF b
<1>4. m * q \in Nat /\ m * q + p \in Nat /\ k * (m * q) = n * q
  BY Product
<1>5. k * (m * q + p) = k * (m * q) + k * p
  BY <1>4
<1>6. x = k * (m * q + p) + b
  <2>1. k * p \in Nat /\ n * q \in Nat
    BY Product
  <2> QED
    BY <2>1, <1>1, <1>3, <1>4, <1>5
<1>7. x % k = b
  BY <1>3, <1>4, <1>6, Remainder, Zenon
<1> QED
  BY <1>7 DEF a, b

\* Numbers less than n apart have different remainders.
LEMMA Different ==
  ASSUME NEW n \in Nat \ {0}, NEW x \in Nat, NEW y \in Nat, x <= y, y < x + n,
         x % n = y % n
  PROVE  x = y
<1> PICK p \in Nat : x = n * p + (x % n)
  BY Division, Zenon
<1> PICK q \in Nat : y = n * q + (y % n)
  BY Division, Zenon
<1>1. x % n \in 0..n - 1 /\ n * p \in Nat /\ n * q \in Nat
  BY Division, Product
<1>2. q > p => n * q >= n * p + n
  BY Multiples
<1>3. p > q => n * p >= n * q + n
  BY Multiples
<1> DEFINE a == x % n
<1>4. a \in Nat /\ x = n * p + a /\ y = n * q + a
  BY <1>1
<1> HIDE DEF a
<1>5. p = q
  BY <1>1, <1>2, <1>3, <1>4
<1> QED
  BY <1>4, <1>5
-----------------------------------------------------------------------------
(* Indices and places.                                                     *)

\* An index is one again after it has moved.
LEMMA PlusType ==
  ASSUME ConAssumption, NEW i \in Nat, NEW k \in Nat
  PROVE  Plus(i, k) \in Index /\ InRing(Plus(i, k)) \in Place
<1>1. /\ Wrap \in Nat \ {0} /\ INPUT_BUF \in Nat \ {0} /\ i + k \in Nat
  BY DEF ConAssumption
<1>2. (i + k) % Wrap \in 0..Wrap - 1
  BY <1>1, Division, Zenon
<1>3. (i + k) % Wrap \in Nat
  BY <1>2
<1>4. ((i + k) % Wrap) % INPUT_BUF \in 0..INPUT_BUF - 1
  BY <1>1, <1>3, Division, Zenon
<1> QED
  BY <1>2, <1>4 DEF Plus, InRing, Index, Place

\* Moving twice, and not at all.
LEMMA PlusPlus ==
  ASSUME ConAssumption, NEW i \in Nat, NEW j \in Nat, NEW k \in Nat
  PROVE  Plus(Plus(i, j), k) = Plus(i, j + k)
<1>1. Wrap \in Nat \ {0} /\ i + j \in Nat /\ (i + j) + k = i + (j + k)
  BY DEF ConAssumption
<1>2. (((i + j) % Wrap) + k) % Wrap = ((i + j) + k) % Wrap
  BY <1>1, SumOfRemainders, Zenon
<1> QED
  BY <1>1, <1>2, Zenon DEF Plus

\* An index moved by nothing is itself.
LEMMA PlusZero ==
  ASSUME ConAssumption, NEW i \in Index
  PROVE  Plus(i, 0) = i
<1>1. Wrap \in Nat \ {0} /\ i \in 0..Wrap - 1 /\ Wrap * 0 + i = i + 0
  BY DEF ConAssumption, Index
<1>2. (Wrap * 0 + i) % Wrap = i
  BY <1>1, Remainder, Zenon
<1> QED
  BY <1>1, <1>2 DEF Plus

\* input.e-- goes one back.
LEMMA OneBack ==
  ASSUME ConAssumption, NEW i \in Nat, NEW k \in Nat \ {0}
  PROVE  Plus(Plus(i, k), Wrap - 1) = Plus(i, k - 1)
<1>1. /\ Wrap \in Nat \ {0} /\ Wrap - 1 \in Nat /\ k \in Nat /\ i + (k - 1) \in Nat
      /\ i + (k + (Wrap - 1)) = (i + (k - 1)) + Wrap
  BY DEF ConAssumption
<1>2. Plus(Plus(i, k), Wrap - 1) = Plus(i, k + (Wrap - 1))
  BY <1>1, PlusPlus, Zenon
<1>3. ((i + (k - 1)) + Wrap) % Wrap = (i + (k - 1)) % Wrap
  BY <1>1, OnceAround, Zenon
<1> QED
  BY <1>1, <1>2, <1>3, Zenon DEF Plus

\* input.e-input.r, as a uint, is how far e is from r.
LEMMA Distance ==
  ASSUME ConAssumption, NEW i \in Index, NEW k \in 0..INPUT_BUF
  PROVE  Plus(Plus(i, k), Wrap - i) = k
<1>1. /\ Wrap \in Nat \ {0} /\ Wrap - i \in Nat /\ k \in Nat /\ i \in Nat
      /\ k \in 0..Wrap - 1 /\ i + (k + (Wrap - i)) = k + Wrap
      /\ Wrap * 0 + k = k
  BY DEF ConAssumption, Index
<1>2. Plus(Plus(i, k), Wrap - i) = Plus(i, k + (Wrap - i))
  BY <1>1, PlusPlus, Zenon
<1>3. (k + Wrap) % Wrap = k % Wrap
  BY <1>1, OnceAround, Zenon
<1>4. (Wrap * 0 + k) % Wrap = k
  BY <1>1, Remainder, Zenon
<1> QED
  BY <1>1, <1>2, <1>3, <1>4, Zenon DEF Plus

\* Indices not further apart than the ring is long are different, ...
LEMMA SameIndex ==
  ASSUME ConAssumption, NEW i \in Nat, NEW j \in 0..INPUT_BUF, NEW k \in 0..INPUT_BUF,
         Plus(i, j) = Plus(i, k)
  PROVE  j = k
<1>1. /\ Wrap \in Nat \ {0} /\ i + j \in Nat /\ i + k \in Nat
      /\ i + j < (i + k) + Wrap /\ i + k < (i + j) + Wrap
      /\ i + j <= i + k \/ i + k <= i + j
  BY DEF ConAssumption
<1>2. (i + j) % Wrap = (i + k) % Wrap
  BY DEF Plus
<1>3. i + j = i + k
  BY <1>1, <1>2, Different, Zenon
<1> QED
  BY <1>3

\* ... and so are the places of those that are closer.
LEMMA SamePlace ==
  ASSUME ConAssumption, NEW i \in Nat, NEW j \in Place, NEW k \in Place,
         InRing(Plus(i, j)) = InRing(Plus(i, k))
  PROVE  j = k
<1>1. /\ Wrap \in Nat \ {0} /\ INPUT_BUF \in Nat \ {0} /\ Wrap % INPUT_BUF = 0
      /\ i + j \in Nat /\ i + k \in Nat
      /\ i + j < (i + k) + INPUT_BUF /\ i + k < (i + j) + INPUT_BUF
      /\ i + j <= i + k \/ i + k <= i + j
  BY DEF ConAssumption, Place
<1>2. ((i + j) % Wrap) % INPUT_BUF = (i + j) % INPUT_BUF
  BY <1>1, RemainderTwice, Zenon
<1>3. ((i + k) % Wrap) % INPUT_BUF = (i + k) % INPUT_BUF
  BY <1>1, RemainderTwice, Zenon
<1>4. (i + j) % INPUT_BUF = (i + k) % INPUT_BUF
  BY <1>2, <1>3 DEF Plus, InRing
<1>5. i + j = i + k
  BY <1>1, <1>4, Different, Zenon
<1> QED
  BY <1>5 DEF Place
-----------------------------------------------------------------------------
(* What the loops of the driver come to.                                   *)

\* A set of numbers has a smallest, and a bounded one a largest.
LEMMA Smallest ==
  ASSUME NEW S \in SUBSET Nat, S # {}
  PROVE  \E k \in S : \A j \in S : k <= j
<1>1. PICK k \in S : \A j \in S : ~(<<j, k>> \in OpToRel(<, Nat))
  BY NatLessThanWellFounded, WFMin, Zenon
<1>2. \A j \in S : ~(j < k)
  BY <1>1, Zenon DEF OpToRel
<1> QED
  BY <1>2

\* A non-empty set of naturals below a bound has a largest element.
LEMMA Largest ==
  ASSUME NEW n \in Nat, NEW S \in SUBSET (0..n), S # {}
  PROVE  \E k \in S : \A j \in S : j <= k
<1> DEFINE T == {n - k : k \in S}
<1>1. T \in SUBSET Nat /\ T # {}
  <2>1. \A k \in S : n - k \in Nat
    OBVIOUS
  <2>2. PICK k \in S : TRUE
    BY Zenon
  <2>3. n - k \in T
    BY <2>2
  <2> QED
    BY <2>1, <2>3
<1>2. PICK t \in T : \A u \in T : t <= u
  <2> HIDE DEF T
  <2> QED
    BY <1>1, Smallest, Zenon
<1>3. PICK k \in S : t = n - k
  BY <1>2
<1>4. \A j \in S : n - k <= n - j
  BY <1>2, <1>3, Zenon
<1> QED
  BY <1>3, <1>4

\* Facts about the state that the proofs below use.
LEMMA Lengths ==
  ASSUME Inv, ConAssumption
  PROVE  /\ r \in Nat /\ w \in Nat /\ e \in Nat
         /\ Len(committed) \in 0..INPUT_BUF /\ Len(line) \in 0..INPUT_BUF
         /\ Len(committed) + Len(line) \in 0..INPUT_BUF
         /\ Len(committed) \in Nat /\ Len(line) \in Nat
         /\ w = Plus(r, Len(committed)) /\ e = Plus(r, Len(committed) + Len(line))
<1>1. r \in Nat /\ w \in Nat /\ e \in Nat /\ Len(committed) \in Nat /\ Len(line) \in Nat
  BY DEF Inv, TypeOK, Index, ConAssumption
<1>2. /\ Len(committed) + Len(line) <= INPUT_BUF /\ INPUT_BUF \in Nat
      /\ w = Plus(r, Len(committed)) /\ e = Plus(w, Len(line))
  BY DEF Inv, InputIntact, ConAssumption
<1>3. Plus(Plus(r, Len(committed)), Len(line)) = Plus(r, Len(committed) + Len(line))
  BY <1>1, PlusPlus, Zenon
<1> QED
  BY <1>1, <1>2, <1>3

\* The characters found between r and w are those committed.
LEMMA ReadyIs ==
  ASSUME Inv, ConAssumption
  PROVE  Ready = Len(committed)
<1> DEFINE n == Len(committed)
           P(k) == Plus(r, k) = w /\ \A j \in 0..k - 1 : Plus(r, j) # w
<1>1. r \in Nat /\ n \in 0..INPUT_BUF /\ INPUT_BUF \in Nat /\ w = Plus(r, n)
  BY Lengths DEF ConAssumption
<1>2. \A k \in 0..INPUT_BUF : Plus(r, k) = w => k = n
  BY <1>1, SameIndex, Zenon
<1>3. P(n)
  BY <1>1, <1>2
<1>4. Ready = CHOOSE k \in 0..INPUT_BUF : P(k)
  BY DEF Ready
<1> HIDE DEF n
<1> QED
  BY <1>1, <1>2, <1>3, <1>4 DEF n

\* The places from r on, as far as the ring is used.
LEMMA Cells ==
  ASSUME Inv, ConAssumption
  PROVE  /\ \A i \in 1..Len(committed) : committed[i] = input[InRing(Plus(r, i - 1))]
         /\ \A i \in 1..Len(line) : line[i] = input[InRing(Plus(r, Len(committed) + i - 1))]
<1>1. \A i \in 1..Len(line) :
        /\ line[i] = input[InRing(Plus(w, i - 1))]
        /\ Plus(w, i - 1) = Plus(r, Len(committed) + i - 1)
  <2> TAKE i \in 1..Len(line)
  <2>1. /\ r \in Nat /\ Len(committed) \in Nat /\ i - 1 \in Nat
        /\ w = Plus(r, Len(committed))
        /\ Len(committed) + (i - 1) = Len(committed) + i - 1
    BY Lengths
  <2>2. Plus(Plus(r, Len(committed)), i - 1) = Plus(r, Len(committed) + (i - 1))
    BY <2>1, PlusPlus, Zenon
  <2>3. line[i] = input[InRing(Plus(w, i - 1))]
    BY DEF Inv, InputIntact
  <2> QED
    BY <2>1, <2>2, <2>3
<1> QED
  BY <1>1 DEF Inv, InputIntact

\* What is in the ring, read from r on, is intact.
LEMMA Intact ==
  ASSUME ConAssumption, r' \in Index, input' \in [Place -> Char],
         NEW C \in Seq(Char), NEW L \in Seq(Char), committed' = C, line' = L,
         Len(C) + Len(L) <= INPUT_BUF,
         w' = Plus(r', Len(C)), e' = Plus(r', Len(C) + Len(L)),
         \A i \in 1..Len(C) : C[i] = input'[InRing(Plus(r', i - 1))],
         \A i \in 1..Len(L) : L[i] = input'[InRing(Plus(r', Len(C) + i - 1))],
         rpc' \in [Reader -> {"out", "in", "asleep"}], need' \in [Reader -> Nat],
         \A p \in Reader : rpc'[p] = "asleep" => C = <<>>
  PROVE  Inv'
<1>1. r' \in Nat /\ Len(C) \in Nat /\ Len(L) \in Nat /\ Len(C) + Len(L) \in Nat
  BY DEF Index, ConAssumption
<1>2. w' \in Index /\ e' \in Index
  BY <1>1, PlusType
<1>3. TypeOK'
  BY <1>2 DEF TypeOK
<1>4. e' = Plus(w', Len(L))
  <2>1. Plus(Plus(r', Len(C)), Len(L)) = Plus(r', Len(C) + Len(L))
    BY <1>1, PlusPlus, Zenon
  <2> QED
    BY <2>1
<1>5. \A i \in 1..Len(L) : input'[InRing(Plus(w', i - 1))] = L[i]
  <2> TAKE i \in 1..Len(L)
  <2>1. i - 1 \in Nat /\ Len(C) + (i - 1) = Len(C) + i - 1
    BY <1>1
  <2>2. Plus(Plus(r', Len(C)), i - 1) = Plus(r', Len(C) + (i - 1))
    BY <1>1, <2>1, PlusPlus, Zenon
  <2> QED
    BY <2>1, <2>2
<1>6. InputIntact'
  BY <1>4, <1>5 DEF InputIntact
<1> QED
  BY <1>3, <1>6 DEF Inv

\* One character after those of two sequences.
LEMMA Joined ==
  ASSUME NEW s \in Seq(Char), NEW t \in Seq(Char), NEW c \in Char
  PROVE  /\ Append(t, c) \in Seq(Char) /\ Len(Append(t, c)) = Len(t) + 1
         /\ Append(t, c)[Len(t) + 1] = c
         /\ \A i \in 1..Len(t) : Append(t, c)[i] = t[i]
         /\ s \o Append(t, c) \in Seq(Char)
         /\ Len(s \o Append(t, c)) = Len(s) + Len(t) + 1
         /\ (s \o Append(t, c))[Len(s) + Len(t) + 1] = c
         /\ \A i \in 1..Len(s) : (s \o Append(t, c))[i] = s[i]
         /\ \A i \in 1..Len(t) : (s \o Append(t, c))[Len(s) + i] = t[i]
<1> DEFINE u == Append(t, c)
<1>1. /\ u \in Seq(Char) /\ Len(u) = Len(t) + 1 /\ u[Len(t) + 1] = c
      /\ \A i \in 1..Len(t) : u[i] = t[i]
  OBVIOUS
<1> HIDE DEF u
<1>2. Len(s) \in Nat /\ Len(t) \in Nat
  OBVIOUS
<1>3. /\ s \o u \in Seq(Char) /\ Len(s \o u) = Len(s) + Len(u)
      /\ \A i \in 1..Len(s) + Len(u) :
           (s \o u)[i] = IF i <= Len(s) THEN s[i] ELSE u[i - Len(s)]
  BY <1>1
<1>4. /\ \A i \in 1..Len(s) : (s \o u)[i] = s[i]
      /\ \A i \in 1..Len(u) : (s \o u)[Len(s) + i] = u[i]
  BY <1>1, <1>2, <1>3
<1>5. Len(s \o u) = Len(s) + Len(t) + 1 /\ (s \o u)[Len(s) + Len(t) + 1] = c
  BY <1>1, <1>2, <1>3, <1>4
<1> QED
  BY <1>1, <1>2, <1>3, <1>4, <1>5, SMTT(30) DEF u

\* A character goes to the first place after those used, and changes no other.
LEMMA Stored ==
  ASSUME Inv, ConAssumption, Fits, NEW c \in Char
  PROVE  LET n == Len(committed) + Len(line)
             b == [input EXCEPT ![InRing(e)] = c]
         IN  /\ n < INPUT_BUF /\ b \in [Place -> Char]
             /\ b[InRing(Plus(r, n))] = c
             /\ \A k \in 0..n - 1 : b[InRing(Plus(r, k))] = input[InRing(Plus(r, k))]
<1> DEFINE n == Len(committed) + Len(line)
           b == [input EXCEPT ![InRing(e)] = c]
<1>0. /\ r \in Index /\ r \in Nat /\ n \in 0..INPUT_BUF /\ INPUT_BUF \in Nat
      /\ e = Plus(r, n) /\ n \in Nat /\ input \in [Place -> Char]
  BY Lengths DEF Inv, TypeOK, ConAssumption
<1> HIDE DEF n
<1>1. n < INPUT_BUF
  <2>1. Plus(Plus(r, n), Wrap - r) = n
    BY <1>0, Distance, Zenon
  <2> QED
    BY <2>1, <1>0 DEF Fits
<1>2. \A k \in 0..n : k \in Place /\ k \in Nat
  BY <1>0, <1>1 DEF Place
<1>3. n \in 0..n /\ \A k \in 0..n - 1 : k \in 0..n /\ k # n
  BY <1>0
<1>4. InRing(e) \in Place
  BY <1>0, PlusType, Zenon
<1>5. \A k \in 0..n - 1 : InRing(Plus(r, k)) # InRing(e) /\ InRing(Plus(r, k)) \in Place
  <2> TAKE k \in 0..n - 1
  <2>1. InRing(Plus(r, k)) \in Place
    BY <1>0, <1>2, <1>3, PlusType, Zenon
  <2>2. k \in Place /\ n \in Place /\ k # n
    BY <1>2, <1>3
  <2> QED
    BY <2>1, <2>2, <1>0, SamePlace, Zenon
<1> QED
  BY <1>0, <1>1, <1>4, <1>5 DEF n
-----------------------------------------------------------------------------
(* The actions.                                                            *)

\* consoleintr storing a character, and committing the line when it ends one.
LEMMA TypeInv ==
  ASSUME Inv, ConAssumption, NEW c \in Char, Type(c), UNCHANGED <<r, need>>
  PROVE  Inv'
<1> DEFINE m == Len(committed)
           n == Len(line)
           C == committed \o Append(line, c)
           L == Append(line, c)
<1>0. /\ r \in Index /\ r \in Nat /\ m \in Nat /\ n \in Nat
      /\ committed \in Seq(Char) /\ line \in Seq(Char) /\ INPUT_BUF \in Nat
      /\ rpc \in [Reader -> {"out", "in", "asleep"}] /\ need \in [Reader -> Nat]
      /\ w = Plus(r, m) /\ e = Plus(r, m + n)
  BY Lengths DEF Inv, TypeOK, ConAssumption
<1>1. /\ \A i \in 1..m : committed[i] = input[InRing(Plus(r, i - 1))]
      /\ \A i \in 1..n : line[i] = input[InRing(Plus(r, m + i - 1))]
      /\ \A p \in Reader : rpc[p] = "asleep" => committed = <<>>
  BY Cells DEF Inv, InputIntact
<1>2. Fits /\ input' = [input EXCEPT ![InRing(e)] = c] /\ e' = Plus(e, 1)
  BY DEF Type
<1>3. /\ m + n < INPUT_BUF /\ input' \in [Place -> Char] /\ input'[InRing(Plus(r, m + n))] = c
      /\ \A k \in 0..m + n - 1 : input'[InRing(Plus(r, k))] = input[InRing(Plus(r, k))]
  BY <1>2, Stored
<1>4. e' = Plus(r, m + n + 1)
  <2>1. Plus(Plus(r, m + n), 1) = Plus(r, (m + n) + 1)
    BY <1>0, PlusPlus
  <2> QED
    BY <2>1, <1>0, <1>2
<1>5. /\ L \in Seq(Char) /\ Len(L) = n + 1 /\ L[n + 1] = c
      /\ \A i \in 1..n : L[i] = line[i]
      /\ C \in Seq(Char) /\ Len(C) = m + n + 1 /\ C[m + n + 1] = c
      /\ \A i \in 1..m : C[i] = committed[i]
      /\ \A i \in 1..n : C[m + i] = line[i]
  BY <1>0, Joined, SMTT(30)
<1> DEFINE full == c \in {NL, CtrlD} \/ e' = Plus(r, INPUT_BUF)
<1>6. CASE full
  <2>1. w' = e' /\ rpc' = WakeupReaders /\ committed' = C /\ line' = <<>>
    BY <1>6 DEF Type
  <2> HIDE DEF C, L, m, n, full
  <2>2. \A i \in 1..Len(C) : C[i] = input'[InRing(Plus(r', i - 1))]
    <3> TAKE i \in 1..Len(C)
    <3>1. CASE i \in 1..m
      BY <3>1, <1>0, <1>1, <1>3, <1>5, SMTT(30)
    <3>2. CASE i \in m + 1..m + n
      <4>1. i - m \in 1..n /\ m + (i - m) = i /\ m + (i - m) - 1 = i - 1
            /\ i - 1 \in 0..m + n - 1
        BY <3>2, <1>0
      <4>2. C[i] = line[i - m] /\ line[i - m] = input[InRing(Plus(r, i - 1))]
        BY <4>1, <1>1, <1>5
      <4> QED
        BY <4>1, <4>2, <1>3
    <3>3. CASE i = m + n + 1
      BY <3>3, <1>0, <1>3, <1>5
    <3> QED
      BY <3>1, <3>2, <3>3, <1>0, <1>5
  <2>3. /\ rpc' \in [Reader -> {"out", "in", "asleep"}]
        /\ \A p \in Reader : rpc'[p] # "asleep"
    BY <2>1, <1>0 DEF WakeupReaders
  <2> DEFINE none == <<>>
  <2>4. /\ none \in Seq(Char) /\ Len(C) + Len(none) = Len(C) /\ Len(C) <= INPUT_BUF
        /\ 1..Len(none) = {}
    BY <1>0, <1>3, <1>5
  <2>5. line' = none /\ r' = r /\ need' = need
    BY <2>1, SMTT(30)
  <2> HIDE DEF none
  <2> QED
    BY <2>1, <2>2, <2>3, <2>4, <2>5, <1>0, <1>3, <1>4, <1>5, Intact, ZenonT(30)
<1>7. CASE ~full
  <2>1. UNCHANGED <<w, rpc, committed>> /\ line' = L
    BY <1>7 DEF Type
  <2> HIDE DEF C, L, n, full
  <2>2. \A i \in 1..Len(L) : L[i] = input'[InRing(Plus(r', m + i - 1))]
    <3> TAKE i \in 1..Len(L)
    <3>1. CASE i \in 1..n
      <4>1. m + i - 1 \in 0..m + n - 1
        BY <3>1, <1>0, SMTT(30)
      <4> QED
        BY <3>1, <4>1, <1>1, <1>3, <1>5
    <3>2. CASE i = n + 1
      <4>1. m + (n + 1) - 1 = m + n
        BY <1>0, SMTT(30)
      <4> QED
        BY <3>2, <4>1, <1>3, <1>5
    <3> QED
      BY <3>1, <3>2, <1>0, <1>5, SMTT(30)
  <2>3. \A i \in 1..m : committed[i] = input'[InRing(Plus(r', i - 1))]
    <3> TAKE i \in 1..m
    <3>1. i - 1 \in 0..m + n - 1
      BY <1>0
    <3> QED
      BY <3>1, <1>1, <1>3
  <2>4. m + Len(L) <= INPUT_BUF /\ m + Len(L) = m + n + 1
    BY <1>0, <1>3, <1>5, SMTT(30)
  <2> QED
    BY <2>1, <2>2, <2>3, <2>4, <1>0, <1>1, <1>3, <1>4, <1>5, Intact, SMTT(30)
<1> QED
  BY <1>6, <1>7

\* The line loses what is after its first k characters.
LEMMA Cut ==
  ASSUME Inv, ConAssumption, NEW k \in 0..Len(line), e' = Plus(w, k),
         line' = SubSeq(line, 1, k), UNCHANGED <<input, r, w, rpc, committed, need>>
  PROVE  Inv'
<1> DEFINE m == Len(committed)
           L == SubSeq(line, 1, k)
<1>0. /\ r \in Index /\ r \in Nat /\ m \in Nat /\ Len(line) \in Nat /\ k \in Nat
      /\ committed \in Seq(Char) /\ line \in Seq(Char) /\ INPUT_BUF \in Nat
      /\ rpc \in [Reader -> {"out", "in", "asleep"}] /\ need \in [Reader -> Nat]
      /\ w = Plus(r, m) /\ m + Len(line) <= INPUT_BUF /\ input \in [Place -> Char]
  BY Lengths, SMTT(30) DEF Inv, TypeOK, ConAssumption
<1>1. /\ \A i \in 1..m : committed[i] = input[InRing(Plus(r, i - 1))]
      /\ \A i \in 1..Len(line) : line[i] = input[InRing(Plus(r, m + i - 1))]
      /\ \A p \in Reader : rpc[p] = "asleep" => committed = <<>>
  BY Cells DEF Inv, InputIntact
<1>2. L \in Seq(Char) /\ Len(L) = k /\ \A i \in 1..k : L[i] = line[i]
  BY <1>0, SMTT(30)
<1>3. e' = Plus(r, m + k)
  <2>1. Plus(Plus(r, m), k) = Plus(r, m + k)
    BY <1>0, PlusPlus, Zenon
  <2> QED
    BY <2>1, <1>0
<1>4. m + k <= INPUT_BUF /\ \A i \in 1..k : i \in 1..Len(line)
  BY <1>0
<1>5. line' = L /\ committed' = committed
  OBVIOUS
<1> HIDE DEF L, m
<1>6. \A i \in 1..Len(L) : L[i] = input[InRing(Plus(r, m + i - 1))]
  BY <1>1, <1>2, <1>4, Zenon
<1> QED
  BY <1>0, <1>1, <1>2, <1>3, <1>4, <1>5, <1>6, Intact, ZenonT(30) DEF m

\* consoleintr erasing the last character of the line keeps the invariant.
LEMMA EraseInv ==
  ASSUME Inv, ConAssumption, Erase, UNCHANGED <<r, need>>
  PROVE  Inv'
<1>0. /\ w \in Nat /\ w \in Index /\ Len(line) \in Nat /\ e = Plus(w, Len(line))
  BY Lengths, SMTT(30) DEF Inv, TypeOK, InputIntact
<1>1. CASE e # w
  <2>1. Len(line) \in Nat \ {0}
    <3>1. Len(line) = 0 => Plus(w, Len(line)) = w
      BY <1>0, PlusZero
    <3> QED
      BY <3>1, <1>0, <1>1
  <2>2. Plus(Plus(w, Len(line)), Wrap - 1) = Plus(w, Len(line) - 1)
    BY <2>1, <1>0, OneBack, Zenon
  <2>3. Len(line) - 1 \in 0..Len(line)
    BY <2>1
  <2>4. /\ e' = Plus(w, Len(line) - 1) /\ line' = SubSeq(line, 1, Len(line) - 1)
        /\ UNCHANGED <<input, r, w, rpc, committed, need>>
    BY <2>2, <1>0, <1>1 DEF Erase
  <2> QED
    BY <2>3, <2>4, Cut, Zenon
<1>2. CASE e = w
  BY <1>2, Zenon DEF Erase, Inv, TypeOK, InputIntact
<1> QED
  BY <1>1, <1>2

\* Control-U goes back from e by no more than the line.
LEMMA KillLineInv ==
  ASSUME Inv, ConAssumption, KillLine, UNCHANGED <<r, need>>
  PROVE  Inv'
<1> DEFINE P(k) == Plus(w, k) = e /\ \A j \in 0..k - 1 : Plus(w, j) # e
           n == CHOOSE k \in 0..INPUT_BUF : P(k)
           stops == {k \in 0..n : k = 0 \/ input[InRing(Plus(w, k - 1))] = NL}
           stop == CHOOSE k \in stops : \A j \in stops : j <= k
<1>0. /\ w \in Nat /\ Len(line) \in 0..INPUT_BUF /\ INPUT_BUF \in Nat
      /\ e = Plus(w, Len(line)) /\ Len(line) \in Nat
  BY Lengths, SMTT(30) DEF Inv, InputIntact, ConAssumption
<1>1. \A k \in 0..INPUT_BUF : Plus(w, k) = e => k = Len(line)
  BY <1>0, SameIndex, Zenon
<1>2. P(Len(line))
  BY <1>0, <1>1
<1>3. n = Len(line)
  <2> HIDE DEF P
  <2>1. \A k \in 0..INPUT_BUF : P(k) => k = Len(line)
    BY <1>1 DEF P
  <2> QED
    BY <2>1, <1>0, <1>2
<1> HIDE DEF n
<1>4. stops \in SUBSET (0..n) /\ 0 \in stops /\ n \in Nat
  BY <1>0, <1>3
<1>5. stop \in 0..Len(line)
  <2> HIDE DEF stops
  <2>1. \E k \in stops : \A j \in stops : j <= k
    BY <1>4, Largest, Zenon
  <2>2. stop \in stops
    BY <2>1
  <2> QED
    BY <2>2, <1>3, <1>4, Zenon
<1>6. /\ e' = Plus(w, stop) /\ line' = SubSeq(line, 1, stop)
      /\ UNCHANGED <<input, r, w, rpc, committed, need>>
  BY Zenon DEF KillLine, n
<1> HIDE DEF stop
<1> QED
  BY <1>5, <1>6, Cut, Zenon

\* A key.
LEMMA ConsoleintrInv ==
  ASSUME Inv, ConAssumption, consoleintr
  PROVE  Inv'
<1>1. UNCHANGED <<r, need>>
  BY DEF consoleintr
<1>2. CASE TypeLost
  BY <1>1, <1>2 DEF TypeLost, Inv, TypeOK, InputIntact
<1> QED
  BY <1>1, <1>2, TypeInv, EraseInv, KillLineInv DEF consoleintr

\* k of the characters committed are taken out of the ring.
LEMMA TakeInv ==
  ASSUME Inv, ConAssumption, NEW k \in 0..Len(committed), Take(k),
         UNCHANGED <<input, w, e, line>>,
         rpc' \in [Reader -> {"out", "in", "asleep"}], need' \in [Reader -> Nat],
         \A p \in Reader :
           rpc'[p] = "asleep" => rpc[p] = "asleep" \/ k = Len(committed)
  PROVE  Inv'
<1> DEFINE m == Len(committed)
           n == Len(line)
           C == SubSeq(committed, k + 1, m)
<1>0. /\ r \in Index /\ r \in Nat /\ m \in Nat /\ n \in Nat /\ k \in Nat
      /\ committed \in Seq(Char) /\ line \in Seq(Char) /\ INPUT_BUF \in Nat
      /\ w = Plus(r, m) /\ e = Plus(r, m + n) /\ m + n <= INPUT_BUF
      /\ input \in [Place -> Char] /\ m - k \in Nat
  BY Lengths, SMTT(30) DEF Inv, TypeOK, ConAssumption
<1>1. /\ \A i \in 1..m : committed[i] = input[InRing(Plus(r, i - 1))]
      /\ \A i \in 1..n : line[i] = input[InRing(Plus(r, m + i - 1))]
      /\ \A p \in Reader : rpc[p] = "asleep" => committed = <<>>
  BY Cells, SMTT(30) DEF Inv, InputIntact
<1>2. r' = Plus(r, k) /\ committed' = C /\ line' = line
  BY DEF Take
<1>3. C \in Seq(Char) /\ Len(C) = m - k /\ \A i \in 1..m - k : C[i] = committed[k + i]
  BY <1>0, SMTT(30)
<1>4. r' \in Index
  BY <1>0, <1>2, PlusType
<1> HIDE DEF C, m, n
<1>5. \A j \in Nat : Plus(r', j) = Plus(r, k + j)
  BY <1>0, <1>2, PlusPlus, SMTT(30)
<1>6. w' = Plus(r', Len(C)) /\ e' = Plus(r', Len(C) + n) /\ Len(C) + n <= INPUT_BUF
  <2>1. k + (m - k) = m /\ k + (m - k + n) = m + n /\ m - k + n \in Nat
    BY <1>0
  <2>2. Plus(r', m - k) = Plus(r, k + (m - k))
    BY <1>0, <1>5, Zenon
  <2>3. Plus(r', m - k + n) = Plus(r, k + (m - k + n))
    BY <2>1, <1>5, Zenon
  <2> QED
    BY <2>1, <2>2, <2>3, <1>0, <1>3
<1>7. \A i \in 1..Len(C) : C[i] = input'[InRing(Plus(r', i - 1))]
  <2> TAKE i \in 1..Len(C)
  <2>1. k + i \in 1..m /\ i \in 1..m - k /\ k + i - 1 = k + (i - 1) /\ i - 1 \in Nat
    BY <1>0, <1>3, SMTT(30)
  <2>2. C[i] = input[InRing(Plus(r, k + i - 1))]
    BY <2>1, <1>1, <1>3, SMTT(30)
  <2>3. Plus(r', i - 1) = Plus(r, k + (i - 1))
    BY <2>1, <1>5, Zenon
  <2> QED
    BY <2>1, <2>2, <2>3
<1>8. \A i \in 1..n : line[i] = input'[InRing(Plus(r', Len(C) + i - 1))]
  <2> TAKE i \in 1..n
  <2>1. k + (m - k + i - 1) = m + i - 1 /\ m - k + i - 1 \in Nat
    BY <1>0
  <2>2. Plus(r', m - k + i - 1) = Plus(r, k + (m - k + i - 1))
    BY <2>1, <1>5, Zenon
  <2> QED
    BY <2>1, <2>2, <1>1, <1>3
<1>9. \A p \in Reader : rpc'[p] = "asleep" => C = <<>>
  <2> SUFFICES ASSUME NEW p \in Reader, rpc'[p] = "asleep" PROVE C = <<>>
    BY SMTT(30)
  <2>1. k = m
    <3>1. committed = <<>> => m = 0
      BY DEF m
    <3> QED
      BY <3>1, <1>0, <1>1 DEF m
  <2>2. Len(C) = 0
    BY <2>1, <1>0, <1>3
  <2> QED
    BY <2>2, <1>3
<1> QED
  BY <1>0, <1>2, <1>3, <1>4, <1>6, <1>7, <1>8, <1>9, Intact, Zenon DEF n

\* consoleread returning keeps the invariant.
LEMMA FinishInv ==
  ASSUME Inv, ConAssumption, NEW p \in Reader, Finish(p)
  PROVE  Inv'
<1> DEFINE k == IF need[p] = 0 THEN 0 ELSE Taken(p)
<1>0. /\ rpc \in [Reader -> {"out", "in", "asleep"}] /\ need \in [Reader -> Nat]
      /\ Len(committed) \in Nat /\ Ready = Len(committed)
  BY Lengths, ReadyIs DEF Inv, TypeOK
<1>1. /\ Take(k) /\ UNCHANGED <<input, w, e, line>>
      /\ rpc' = [rpc EXCEPT ![p] = "out"] /\ need' = [need EXCEPT ![p] = 0]
      /\ need[p] # 0 => Ends(p) # {}
  BY DEF Finish
<1>2. k \in 0..Len(committed)
  <2>1. Ends(p) \in SUBSET Nat /\ Ends(p) \subseteq 1..Len(committed)
    BY <1>0 DEF Ends
  <2>2. Ends(p) # {} => Last(p) \in Ends(p)
    <3> SUFFICES ASSUME Ends(p) # {} PROVE Last(p) \in Ends(p)
      OBVIOUS
    <3>1. \E j \in Ends(p) : \A i \in Ends(p) : j <= i
      BY <2>1, Smallest, Zenon
    <3> QED
      BY <3>1 DEF Last
  <2>3. Ends(p) # {} => Last(p) \in 1..Len(committed)
    BY <2>1, <2>2
  <2> QED
    BY <2>3, <1>0, <1>1 DEF Taken
<1> HIDE DEF k
<1>3. /\ rpc' \in [Reader -> {"out", "in", "asleep"}] /\ need' \in [Reader -> Nat]
      /\ \A q \in Reader : rpc'[q] = "asleep" => rpc[q] = "asleep"
  BY <1>0, <1>1
<1> QED
  BY <1>1, <1>2, <1>3, TakeInv, SMTT(30)

\* consoleread taking all there is, and sleeping or (its process killed) giving up.
LEMMA StarveInv ==
  ASSUME Inv, ConAssumption, NEW p \in Reader, Starve(p)
  PROVE  Inv'
<1>0. /\ rpc \in [Reader -> {"out", "in", "asleep"}] /\ need \in [Reader -> Nat]
      /\ Len(committed) \in Nat /\ Ready = Len(committed)
  BY Lengths, ReadyIs DEF Inv, TypeOK
<1>1. /\ Take(Ready) /\ UNCHANGED <<input, w, e, line>>
      /\ rpc' = [rpc EXCEPT ![p] = IF killed[p] THEN "out" ELSE "asleep"]
      /\ need' = [need EXCEPT ![p] = IF killed[p] THEN 0 ELSE need[p] - Ready]
      /\ need[p] > 0 /\ Ends(p) = {}
  BY DEF Starve
<1>2. need[p] - Ready \in Nat
  <2>1. need[p] \notin 1..Ready
    BY <1>1 DEF Ends
  <2> QED
    BY <2>1, <1>0, <1>1
<1>3. rpc' \in [Reader -> {"out", "in", "asleep"}] /\ need' \in [Reader -> Nat]
  BY <1>0, <1>1, <1>2, SMTT(30)
<1> QED
  BY <1>0, <1>1, <1>3, TakeInv, SMTT(30)

\* Steps that move neither the ring nor a reader to sleep.
LEMMA ReaderInv ==
  ASSUME Inv, UNCHANGED <<input, r, w, e, committed, line>>,
         rpc' \in [Reader -> {"out", "in", "asleep"}], need' \in [Reader -> Nat],
         \A p \in Reader : rpc'[p] = "asleep" => rpc[p] = "asleep"
  PROVE  Inv'
BY DEF Inv, TypeOK, InputIntact

\* Every step of the console keeps the invariant.
LEMMA NextInv ==
  ASSUME Inv, ConAssumption, [ConNext]_convars
  PROVE  Inv'
<1>0. rpc \in [Reader -> {"out", "in", "asleep"}] /\ need \in [Reader -> Nat]
  BY SMTT(30) DEF Inv, TypeOK
<1>1. ASSUME NEW p \in Reader, Call(p) PROVE Inv'
  BY <1>0, <1>1, ReaderInv, SMTT(30) DEF Call, ConAssumption
<1>2. ASSUME NEW p \in Reader, KillReader(p) PROVE Inv'
  BY <1>0, <1>2, ReaderInv DEF KillReader
<1>3. CASE UNCHANGED convars
  BY <1>0, <1>3, ReaderInv DEF convars
<1> QED
  BY <1>1, <1>2, <1>3, ConsoleintrInv, FinishInv, StarveInv DEF ConNext

\* The invariant holds initially: the ring is empty.
LEMMA InitInv ==
  ASSUME ConInit, ConAssumption
  PROVE  Inv
<1>1. r \in Index /\ w = r /\ e = r /\ committed = <<>> /\ line = <<>>
  BY DEF ConInit, Index
<1>2. TypeOK
  BY <1>1 DEF ConInit, TypeOK, Place, Char
<1>3. Plus(r, 0) = r
  BY <1>1, PlusZero
<1>4. Len(committed) = 0 /\ Len(line) = 0 /\ INPUT_BUF \in Nat
  BY <1>1 DEF ConAssumption
<1>5. InputIntact
  BY <1>1, <1>3, <1>4 DEF InputIntact
<1> QED
  BY <1>2, <1>5 DEF Inv
------------------------------------------------------------------------------
\* Whatever is typed, edited and read, in any ring and from any value of the
\* indices, consoleread gets what consoleintr committed, in order and all of it,
\* and sleeps only while there is nothing for it.
THEOREM InputIsIntact == ConSpec => []InputIntact
<1>1. ConInit => Inv
  BY InputAssumption, InitInv
<1>2. Inv /\ [ConNext]_convars => Inv'
  BY InputAssumption, NextInv
<1>3. Inv => InputIntact
  BY DEF Inv
<1> QED
  BY <1>1, <1>2, <1>3, PTL DEF ConSpec
==============================================================================
