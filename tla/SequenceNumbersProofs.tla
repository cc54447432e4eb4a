----------------------- MODULE SequenceNumbersProofs -----------------------
(***************************************************************************)
(* As long as the positions in use are less than half the numbers apart,   *)
(* counting in sequence numbers is counting in positions, and bytes less   *)
(* than a ring apart have slots of their own in it.                        *)
(***************************************************************************)
EXTENDS SequenceNumbers, TLAPS

LEMMA NumbersConstants == SEQUENCES \in Nat \ {0} /\ FIRST \in Nat
BY NumbersAssumption
-----------------------------------------------------------------------------
(* Remainders.                                                             *)

LEMMA Remainder ==
  ASSUME NEW a \in Int, NEW n \in Nat \ {0}
  PROVE  /\ a % n \in 0 .. n - 1 /\ a \div n \in Int
         /\ n * (a \div n) + (a % n) = a
OBVIOUS

\* There is only one way to write a number as so many rounds and a rest.
LEMMA OneRemainder ==
  ASSUME NEW n \in Nat \ {0}, NEW k \in Int, NEW r \in 0 .. n - 1, NEW a \in Int,
         a = n * k + r
  PROVE  a % n = r /\ a \div n = k
<1> DEFINE q == a \div n
           s == a % n
<1>1. s \in 0 .. n - 1 /\ q \in Int /\ n * q + s = a
  BY Remainder
<1> HIDE DEF q, s
<1>2. n * k + r = n * q + s
  BY <1>1
<1>3. k = q /\ r = s
  BY <1>1, <1>2
<1>4. QED
  BY <1>3 DEF q, s

LEMMA WholeRounds ==
  ASSUME NEW n \in Nat \ {0}, NEW a \in Int, NEW k \in Int
  PROVE  (a + n * k) % n = a % n
<1> DEFINE q == a \div n
           s == a % n
<1>1. s \in 0 .. n - 1 /\ q \in Int /\ n * q + s = a
  BY Remainder
<1> HIDE DEF q, s
<1> DEFINE b == a + n * k
           j == q + k
<1>2. b = n * j + s /\ j \in Int /\ b \in Int
  BY <1>1
<1> HIDE DEF b, j
<1>3. b % n = s
  BY <1>1, <1>2, OneRemainder
<1>4. (a + n * k) % n = s
  BY <1>3 DEF b
<1>5. QED
  BY <1>4 DEF s

\* Taking remainders on the way changes nothing.
LEMMA RemainderOfSum ==
  ASSUME NEW n \in Nat \ {0}, NEW a \in Int, NEW b \in Int
  PROVE  /\ ((a % n) + b) % n = (a + b) % n
         /\ ((a % n) - b) % n = (a - b) % n
         /\ (b - (a % n)) % n = (b - a) % n
<1> DEFINE q == a \div n
           s == a % n
<1>1. s \in 0 .. n - 1 /\ q \in Int /\ n * q + s = a
  BY Remainder
<1> HIDE DEF q, s
<1>2. s + b = (a + b) + n * (- q) /\ s - b = (a - b) + n * (- q) /\ b - s = (b - a) + n * q
  BY <1>1
<1>3. a + b \in Int /\ a - b \in Int /\ b - a \in Int /\ - q \in Int
  BY <1>1
<1>4. ((a + b) + n * (- q)) % n = (a + b) % n
  BY <1>3, WholeRounds
<1>5. ((a - b) + n * (- q)) % n = (a - b) % n
  BY <1>3, WholeRounds
<1>6. ((b - a) + n * q) % n = (b - a) % n
  BY <1>1, <1>3, WholeRounds
<1>7. QED
  BY <1>2, <1>4, <1>5, <1>6 DEF s

LEMMA SmallRemainder ==
  ASSUME NEW n \in Nat \ {0}, NEW a \in Int
  PROVE  /\ a \in 0 .. n - 1 => a % n = a
         /\ a \in - n .. -1 => a % n = a + n
<1>1. a \in 0 .. n - 1 => a % n = a
  OBVIOUS
<1>2. ASSUME a \in - n .. -1 PROVE a % n = a + n
  <2>1. a + n \in 0 .. n - 1 /\ a = n * (-1) + (a + n)
    BY <1>2
  <2>2. QED
    BY <2>1, OneRemainder
<1>3. QED
  BY <1>1, <1>2
-----------------------------------------------------------------------------
(* Sequence numbers and positions.                                         *)

LEMMA PositionOf ==
  ASSUME NEW p \in Int
  PROVE  /\ Numbered(p) \in Sequence
         /\ p \in Sequence => Position(Numbered(p)) = p
<1> USE NumbersConstants
<1>1. Numbered(p) \in Sequence
  BY Remainder DEF Numbered, Sequence
<1> DEFINE a == FIRST + p
<1>2. Position(Numbered(p)) = (a - FIRST) % SEQUENCES
  <2>1. a \in Int /\ Position(Numbered(p)) = ((a % SEQUENCES) - FIRST) % SEQUENCES
    BY DEF Position, Numbered
  <2> HIDE DEF a
  <2>2. ((a % SEQUENCES) - FIRST) % SEQUENCES = (a - FIRST) % SEQUENCES
    <3>1. a \in Int /\ FIRST \in Int /\ SEQUENCES \in Nat \ {0}
      BY <2>1
    <3>2. QED
      BY ONLY <3>1, RemainderOfSum, Zenon
  <2>3. QED
    BY <2>1, <2>2
<1>3. a - FIRST = p
  OBVIOUS
<1> HIDE DEF a
<1>4. QED
  BY <1>1, <1>2, <1>3, SmallRemainder DEF Sequence

LEMMA NumberOf ==
  ASSUME NEW s \in Sequence
  PROVE  Position(s) \in Sequence /\ Numbered(Position(s)) = s
<1> USE NumbersConstants
<1>1. s \in Int /\ s - FIRST \in Int
  BY DEF Sequence
<1>2. Position(s) \in Sequence
  BY <1>1, Remainder DEF Position, Sequence
<1> DEFINE a == s - FIRST
<1>3. Numbered(Position(s)) = ((a % SEQUENCES) + FIRST) % SEQUENCES
  <2>1. (s - FIRST) % SEQUENCES \in Int
    BY <1>2 DEF Position, Sequence
  <2>2. FIRST + ((s - FIRST) % SEQUENCES) = ((s - FIRST) % SEQUENCES) + FIRST
    BY <2>1
  <2>3. QED
    BY <2>2 DEF Numbered, Position
<1>4. Numbered(Position(s)) = (a + FIRST) % SEQUENCES
  <2>1. a \in Int
    BY <1>1
  <2> HIDE DEF a
  <2>2. ((a % SEQUENCES) + FIRST) % SEQUENCES = (a + FIRST) % SEQUENCES
    <3>1. a \in Int /\ FIRST \in Int /\ SEQUENCES \in Nat \ {0}
      BY <2>1
    <3>2. QED
      BY ONLY <3>1, RemainderOfSum, Zenon
  <2>3. QED
    BY <1>3, <2>2
<1>5. a + FIRST = s
  BY <1>1
<1> HIDE DEF a
<1>6. QED
  BY <1>1, <1>2, <1>4, <1>5, SmallRemainder DEF Sequence

\* Going on by so many bytes.
LEMMA Advanced ==
  ASSUME NEW s \in Sequence, NEW n \in Int, Position(s) + n \in Sequence
  PROVE  /\ (s + n) % SEQUENCES \in Sequence
         /\ Position((s + n) % SEQUENCES) = Position(s) + n
<1> USE NumbersConstants
<1> DEFINE p == Position(s)
<1>1. p \in Sequence /\ s = Numbered(p)
  BY NumberOf
<1> HIDE DEF p
<1>2. p \in Int /\ FIRST + p \in Int
  BY <1>1 DEF Sequence
<1>3. (s + n) % SEQUENCES = ((FIRST + p) + n) % SEQUENCES
  BY <1>1, <1>2, RemainderOfSum DEF Numbered
<1>4. (FIRST + p) + n = FIRST + (p + n)
  BY <1>2
<1>5. (s + n) % SEQUENCES = Numbered(p + n)
  BY <1>3, <1>4 DEF Numbered
<1>6. QED
  BY <1>2, <1>5, PositionOf DEF p

\* How far apart two numbers are is how far apart their positions are.
LEMMA ApartIs ==
  ASSUME NEW a \in Sequence, NEW b \in Sequence
  PROVE  Apart(a, b) = IF Position(a) >= Position(b) THEN Position(a) - Position(b)
                       ELSE Position(a) - Position(b) + SEQUENCES
<1> USE NumbersConstants
<1> DEFINE p == Position(a)
           q == Position(b)
<1>1. p \in Sequence /\ q \in Sequence /\ a = Numbered(p) /\ b = Numbered(q)
  BY NumberOf
<1> HIDE DEF p, q
<1>2. /\ p \in Int /\ q \in Int /\ FIRST + p \in Int /\ FIRST + q \in Int
      /\ a \in Int /\ b \in Int
  BY <1>1 DEF Sequence
<1>3. Apart(a, b) = ((FIRST + p) - b) % SEQUENCES
  BY <1>1, <1>2, RemainderOfSum DEF Apart, Numbered
<1>4. ((FIRST + p) - b) % SEQUENCES = ((FIRST + p) - (FIRST + q)) % SEQUENCES
  BY <1>1, <1>2, RemainderOfSum DEF Numbered
<1>5. (FIRST + p) - (FIRST + q) = p - q
  BY <1>2
<1>6. Apart(a, b) = (p - q) % SEQUENCES
  BY <1>3, <1>4, <1>5
<1>7. p >= q => p - q \in 0 .. SEQUENCES - 1
  BY <1>1 DEF Sequence
<1>8. ~(p >= q) => p - q \in - SEQUENCES .. -1
  BY <1>1 DEF Sequence
<1>9. p - q \in Int
  BY <1>2
<1>10. QED
  BY <1>6, <1>7, <1>8, <1>9, SmallRemainder DEF p, q

\* The earlier half of the positions compare as they should.
LEMMA AfterIs ==
  ASSUME NEW a \in Sequence, NEW b \in Sequence,
         Position(a) < SEQUENCES \div 2, Position(b) < SEQUENCES \div 2
  PROVE  /\ isAfter(a, b) <=> Position(a) > Position(b)
         /\ isAtOrAfter(a, b) <=> Position(a) >= Position(b)
<1> USE NumbersConstants
<1> DEFINE p == Position(a)
           q == Position(b)
           half == SEQUENCES \div 2
<1>1. p \in Nat /\ q \in Nat
  BY NumberOf DEF Sequence
<1>2. half \in Nat /\ 2 * half <= SEQUENCES
  OBVIOUS
<1>3. Apart(a, b) = IF p >= q THEN p - q ELSE p - q + SEQUENCES
  BY ApartIs
<1> HIDE DEF p, q, half
<1>4. p < half /\ q < half
  BY DEF p, q, half
<1>5. Apart(a, b) \in 1 .. half - 1 <=> p > q
  BY <1>1, <1>2, <1>3, <1>4
<1>6. Apart(a, b) < half <=> p >= q
  BY <1>1, <1>2, <1>3, <1>4
<1>7. QED
  BY <1>5, <1>6 DEF isAfter, isAtOrAfter, p, q, half
-----------------------------------------------------------------------------
(* A ring that the sequence numbers fill a whole number of times.          *)

LEMMA RingRemainder ==
  ASSUME NEW ring \in Nat \ {0}, SEQUENCES % ring = 0, NEW a \in Int
  PROVE  (a % SEQUENCES) % ring = a % ring
<1> USE NumbersConstants
<1> DEFINE turns == SEQUENCES \div ring
           rounds == a \div SEQUENCES
           rest == a % SEQUENCES
<1>1. turns \in Int /\ ring * turns = SEQUENCES
  BY Remainder
<1>2. rest \in Int /\ rounds \in Int /\ SEQUENCES * rounds + rest = a
  BY Remainder
<1> HIDE DEF turns, rounds, rest
<1> DEFINE all == turns * rounds
<1>3. all \in Int
  BY <1>1, <1>2
<1>4. SEQUENCES * rounds = ring * all
  BY <1>1, <1>2
<1> HIDE DEF all
<1>5. a = rest + ring * all
  BY <1>2, <1>3, <1>4
<1>6. a % ring = rest % ring
  BY <1>2, <1>3, <1>5, WholeRounds
<1>7. QED
  BY <1>6 DEF rest

\* How far a slot is beyond the slot of the byte a run starts with.
LEMMA RingOffset ==
  ASSUME NEW ring \in Nat \ {0}, SEQUENCES % ring = 0, NEW p \in Int, NEW q \in Int
  PROVE  /\ Numbered(p) % ring \in 0 .. ring - 1
         /\ ((Numbered(p) % ring) - Numbered(q)) % ring = (p - q) % ring
<1> USE NumbersConstants
<1> DEFINE a == Numbered(p)
           b == Numbered(q)
           c == FIRST + p
           d == FIRST + q
<1>1. a \in Int /\ b \in Int /\ c \in Int /\ d \in Int
  BY PositionOf DEF Sequence
<1>2. a = c % SEQUENCES /\ b = d % SEQUENCES /\ c - d = p - q
  BY DEF Numbered
<1> HIDE DEF a, b, c, d
<1>3. a % ring = c % ring /\ b % ring = d % ring
  BY <1>1, <1>2, RingRemainder
<1>4. ((a % ring) - b) % ring = (a - b) % ring
  BY <1>1, RemainderOfSum
<1>5. (a - b) % ring = ((c % ring) - b) % ring
  BY <1>3, <1>4
<1>6. ((c % ring) - b) % ring = (c - b) % ring
  BY <1>1, RemainderOfSum
<1>7. (c - b) % ring = (c - (b % ring)) % ring
  BY <1>1, RemainderOfSum
<1>8. (c - (d % ring)) % ring = (c - d) % ring
  BY <1>1, RemainderOfSum
<1>9. a % ring \in 0 .. ring - 1
  BY <1>1, Remainder
<1>10. QED
  BY <1>2, <1>3, <1>4, <1>5, <1>6, <1>7, <1>8, <1>9 DEF a, b
=============================================================================
