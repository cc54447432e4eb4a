------------------------- MODULE WgTcpReceiveProofs -------------------------
(***************************************************************************)
(* For any ring, any number of remembered runs and any stream whose length *)
(* fits the sequence numbers: whatever pieces arrive, in whatever order,   *)
(* nothing counted as here is overwritten, the runs stay apart, what was   *)
(* taken is acknowledged or owed, and the app reads the stream.            *)
(***************************************************************************)
EXTENDS WgTcpReceive, SequenceNumbersProofs, FiniteSetTheorems, SequenceTheorems,
        WellFoundedInduction

Half == SEQUENCES \div 2

LEMMA ReceiveConstants ==
  /\ RECEIVE_MAX \in Nat \ {0} /\ HOLE_MAX \in Nat \ {0} /\ ACKNOWLEDGE_EVERY \in Nat \ {0}
  /\ UNIT \in Nat \ {0} /\ FIELD_MAX \in Nat \ {0} /\ SEGMENT_MAX \in Nat \ {0}
  /\ StreamLength \in Nat /\ MaxFail \in Nat
  /\ SEQUENCES % RECEIVE_MAX = 0
  /\ StreamLength + RECEIVE_MAX < Half /\ Half \in Nat /\ 2 * Half <= SEQUENCES
<1>1. SEQUENCES \in Int /\ SEQUENCES >= 0
  BY NumbersConstants
<1>2. SEQUENCES % 2 \in 0 .. 1 /\ Half \in Int /\ 2 * Half + (SEQUENCES % 2) = SEQUENCES
  BY <1>1, Remainder DEF Half
<1>3. StreamLength + RECEIVE_MAX < Half
  BY StreamAssumption DEF Half
<1> HIDE DEF Half
<1>4. Half \in Nat /\ 2 * Half <= SEQUENCES
  BY <1>1, <1>2
<1>5. QED
  BY <1>3, <1>4, StreamAssumption
-----------------------------------------------------------------------------
(* What holds between any two steps, in positions of the stream.           *)

pStart == Position(receiveStart)
pNext == Position(receiveNext)
Finished == IF remoteHasFinished THEN 1 ELSE 0
pTaken == pNext - Finished

\* The other end scaled its windows too, or the ring is small: the field can
\* say all the room there is, in units finer than what is worth saying.
FieldIsEnough == RECEIVE_MAX \div UNIT <= FIELD_MAX /\ UNIT <= WorthSaying

CountersInv ==
    /\ state \in {"OPEN", "CLOSING", "CLOSED", "FAILED"}
    /\ servicing \in BOOLEAN /\ leaving \in BOOLEAN
    /\ remoteHasFinished \in BOOLEAN
    /\ segmentsSinceAcknowledgement \in Nat /\ advertisedWindow \in 0 .. FIELD_MAX
    /\ fails \in 0 .. MaxFail /\ acknowledged \in Nat /\ offered \in Nat

\* What was read, and what may be: the app has the bytes before the start.
ReadInv ==
    /\ receiveStart \in Sequence /\ receiveNext \in Sequence
    /\ pStart <= pTaken /\ pTaken <= pStart + RECEIVE_MAX /\ pTaken <= StreamLength
    /\ remoteHasFinished => pTaken = StreamLength
    /\ handedUp = [i \in 1 .. pStart |-> i - 1]

HolesInv ==
    /\ holes \subseteq [start : Sequence, end : Sequence]
    /\ IsFiniteSet(holes)
    /\ \A r \in holes : Position(r.end) <= StreamLength
    /\ RunsLieApart

KeptInv ==
    /\ incoming \in [0 .. RECEIVE_MAX - 1 -> 0 .. StreamLength \cup {Empty}]
    /\ NothingOverwritten

SaidInv ==
    /\ ~remoteHasFinished => acknowledged = pNext \/ segmentsSinceAcknowledgement > 0
    /\ ~remoteHasFinished => offered <= pStart + RECEIVE_MAX
    /\ fails = 0 => acknowledged + advertisedWindow * UNIT <= offered
    /\ FieldIsEnough /\ fails = 0 /\ ~remoteHasFinished => ~ShouldAnnounceWindow(ReceiveWindow)

ReceiveInv == CountersInv /\ ReadInv /\ HolesInv /\ KeptInv /\ SaidInv
-----------------------------------------------------------------------------
(* Positions.                                                              *)

\* A position of this stream or of the ring laid along it.
Near(s) == s \in Sequence /\ Position(s) <= StreamLength + RECEIVE_MAX

LEMMA NearIs ==
  ASSUME NEW s, Near(s)
  PROVE  s \in Sequence /\ Position(s) \in Nat /\ Position(s) < Half
BY ReceiveConstants, NumbersConstants, NumberOf DEF Near, Sequence

LEMMA OrderIs ==
  ASSUME NEW a, NEW b, Near(a), Near(b)
  PROVE  /\ isAfter(a, b) <=> Position(a) > Position(b)
         /\ isAtOrAfter(a, b) <=> Position(a) >= Position(b)
         /\ Position(a) = Position(b) => a = b
<1>1. isAfter(a, b) <=> Position(a) > Position(b)
  BY NearIs, AfterIs DEF Half
<1>2. isAtOrAfter(a, b) <=> Position(a) >= Position(b)
  BY NearIs, AfterIs DEF Half
<1>3. a = Numbered(Position(a)) /\ b = Numbered(Position(b))
  BY NearIs, NumberOf
<1>4. QED
  BY <1>1, <1>2, <1>3

LEMMA AdvanceNear ==
  ASSUME NEW s, Near(s), NEW n \in Nat, Position(s) + n <= StreamLength + RECEIVE_MAX
  PROVE  /\ Near((s + n) % SEQUENCES)
         /\ Position((s + n) % SEQUENCES) = Position(s) + n
<1>1. s \in Sequence /\ Position(s) \in Nat
  BY NearIs
<1>2. Position(s) + n \in Sequence /\ n \in Int
  BY <1>1, ReceiveConstants, NumbersConstants DEF Sequence
<1>3. QED
  BY <1>1, <1>2, Advanced DEF Near

LEMMA NumberedNear ==
  ASSUME NEW p \in 0 .. StreamLength
  PROVE  Near(Numbered(p)) /\ Position(Numbered(p)) = p
<1>1. p \in Int /\ p \in Sequence
  BY ReceiveConstants, NumbersConstants DEF Sequence
<1>2. p <= StreamLength + RECEIVE_MAX
  BY ReceiveConstants
<1>3. QED
  BY <1>1, <1>2, PositionOf DEF Near
-----------------------------------------------------------------------------
(* The first and the last of some positions.                               *)

LEMMA LeastOf ==
  ASSUME NEW T, T \subseteq Nat, T # {}
  PROVE  \E x \in T : \A y \in T : x <= y
<1>1. IsWellFoundedOn(OpToRel(<, Nat), Nat)
  BY NatLessThanWellFounded
<1>2. PICK x \in T : \A y \in T : ~(<<y, x>> \in OpToRel(<, Nat))
  BY <1>1, WFMin
<1>3. ASSUME NEW y \in T
      PROVE  x <= y
  <2>1. ~(<<y, x>> \in OpToRel(<, Nat)) /\ x \in Nat /\ y \in Nat
    BY <1>2
  <2>2. ~(y < x)
    <3>1. SUFFICES ASSUME y < x
                   PROVE  FALSE
      OBVIOUS
    <3>2. <<y, x>> \in Nat \X Nat /\ <<y, x>>[1] < <<y, x>>[2]
      BY <2>1, <3>1
    <3>3. <<y, x>> \in OpToRel(<, Nat)
      BY <3>2 DEF OpToRel
    <3>4. QED
      BY <2>1, <3>3
  <2>3. x \in Nat /\ y \in Nat
    OBVIOUS
  <2>4. QED
    BY <2>2, <2>3
<1>4. QED
  BY <1>3

LEMMA GreatestOf ==
  ASSUME NEW T, T \subseteq Nat, T # {}, NEW most \in Nat, \A x \in T : x <= most
  PROVE  \E x \in T : \A y \in T : y <= x
<1> DEFINE R == {most - x : x \in T}
<1>1. R \subseteq Nat /\ R # {}
  <2>1. \A x \in T : most - x \in Nat
    OBVIOUS
  <2>2. QED
    BY <2>1
<1>2. PICK z \in R : \A y \in R : z <= y
  <2> HIDE DEF R
  <2>1. QED
    BY <1>1, LeastOf
<1>3. PICK x \in T : z = most - x
  OBVIOUS
<1>4. ASSUME NEW y \in T
      PROVE  y <= x
  <2>1. most - y \in R /\ x \in Nat /\ y \in Nat
    OBVIOUS
  <2>2. most - x <= most - y
    BY <1>2, <1>3, <2>1
  <2>3. QED
    BY <2>1, <2>2
<1>5. QED
  BY <1>4

\* addReceivedRange: the run that stands for some that touch starts where the
\* first of them does and ends where the last does.
LEMMA MergedIs ==
  ASSUME NEW runs, runs \subseteq [start : Sequence, end : Sequence], runs # {},
         \A r \in runs : Near(r.start) /\ Near(r.end)
  PROVE  /\ Merged(runs) \in [start : Sequence, end : Sequence]
         /\ \E r \in runs : Merged(runs).start = r.start
         /\ \E r \in runs : Merged(runs).end = r.end
         /\ \A r \in runs : /\ Position(Merged(runs).start) <= Position(r.start)
                            /\ Position(r.end) <= Position(Merged(runs).end)
<1> DEFINE IsFirst(r) == \A q \in runs : isAtOrAfter(q.start, r.start)
           IsLast(r) == \A q \in runs : isAtOrAfter(r.end, q.end)
           f == CHOOSE r \in runs : IsFirst(r)
           l == CHOOSE r \in runs : IsLast(r)
<1>1. \A r \in runs : /\ Position(r.start) \in Nat /\ Position(r.end) \in Nat
                      /\ Position(r.end) < Half
  BY NearIs
<1>2. \E r \in runs : IsFirst(r)
  <2> DEFINE T == {Position(r.start) : r \in runs}
  <2>1. T \subseteq Nat /\ T # {}
    BY <1>1
  <2> HIDE DEF T
  <2>2. PICK x \in T : \A y \in T : x <= y
    BY <2>1, LeastOf
  <2>3. PICK r \in runs : x = Position(r.start)
    BY DEF T
  <2>4. \A q \in runs : Position(q.start) >= Position(r.start)
    BY <1>1, <2>2, <2>3 DEF T
  <2>5. IsFirst(r)
    BY <2>4, OrderIs
  <2> HIDE DEF IsFirst
  <2>6. QED
    BY <2>5
<1>3. \E r \in runs : IsLast(r)
  <2> DEFINE T == {Position(r.end) : r \in runs}
  <2>1. T \subseteq Nat /\ T # {} /\ \A x \in T : x <= Half
    BY <1>1, ReceiveConstants
  <2> HIDE DEF T
  <2>2. PICK x \in T : \A y \in T : y <= x
    BY <2>1, GreatestOf, ReceiveConstants
  <2>3. PICK r \in runs : x = Position(r.end)
    BY DEF T
  <2>4. \A q \in runs : Position(r.end) >= Position(q.end)
    BY <1>1, <2>2, <2>3 DEF T
  <2>5. IsLast(r)
    BY <2>4, OrderIs
  <2> HIDE DEF IsLast
  <2>6. QED
    BY <2>5
<1>4. f \in runs /\ IsFirst(f)
  <2> HIDE DEF IsFirst
  <2>1. QED
    BY <1>2
<1>5. l \in runs /\ IsLast(l)
  <2> HIDE DEF IsLast
  <2>1. QED
    BY <1>3
<1>6. Merged(runs) = [start |-> f.start, end |-> l.end]
  BY DEF Merged
<1> HIDE DEF f, l
<1>7. \A r \in runs : Position(f.start) <= Position(r.start) /\ Position(r.end) <= Position(l.end)
  <2>1. TAKE r \in runs
  <2>2. isAtOrAfter(r.start, f.start) /\ isAtOrAfter(l.end, r.end)
    BY <1>4, <1>5
  <2>3. Position(r.start) >= Position(f.start) /\ Position(l.end) >= Position(r.end)
    BY <1>4, <1>5, <2>2, OrderIs
  <2>4. QED
    BY <1>1, <1>4, <1>5, <2>3
<1>8. QED
  BY <1>4, <1>5, <1>6, <1>7
-----------------------------------------------------------------------------
(* takeSegmentData: what folding a segment into the ring leaves.           *)

\* The parts of the two invariants a fold must leave, for what it leaves.
HolesOK(start, next, H) ==
    /\ H \subseteq [start : Sequence, end : Sequence]
    /\ IsFiniteSet(H) /\ Cardinality(H) <= HOLE_MAX
    /\ \A r \in H : /\ next < Position(r.start) /\ Position(r.start) < Position(r.end)
                    /\ Position(r.end) <= start + RECEIVE_MAX
                    /\ Position(r.end) <= StreamLength
    /\ \A r, q \in H :
          r # q => Position(r.end) < Position(q.start) \/ Position(q.end) < Position(r.start)

Waiting(H) == UNION {Position(r.start) .. Position(r.end) - 1 : r \in H}

RingOK(start, upTo, H, kept) ==
    /\ kept \in [0 .. RECEIVE_MAX - 1 -> 0 .. StreamLength \cup {Empty}]
    /\ \A p \in (start .. upTo - 1) \cup Waiting(H) : kept[Slot(Numbered(p))] = p

LEMMA HolesAreOK == HolesInv <=> HolesOK(pStart, pNext, holes)
BY DEF HolesInv, HolesOK, RunsLieApart, pStart, pNext

LEMMA RingIsOK ==
  ASSUME remoteHasFinished \in BOOLEAN, pNext \in Nat
  PROVE  KeptInv <=> RingOK(pStart, pTaken, holes, incoming)
<1> DEFINE upTo == IF remoteHasFinished THEN Position(receiveNext) - 1 ELSE Position(receiveNext)
<1>1. upTo = pTaken
  BY DEF pTaken, Finished, pNext
<1> HIDE DEF upTo
<1>2. NothingOverwritten <=>
         \A p \in (Position(receiveStart) .. upTo - 1)
                  \cup UNION {Position(r.start) .. Position(r.end) - 1 : r \in holes} :
            incoming[Slot(Numbered(p))] = p
  BY DEF NothingOverwritten, upTo
<1>3. QED
  BY <1>1, <1>2 DEF KeptInv, RingOK, Waiting, pStart

LEMMA PlacesAre ==
  ASSUME ReadInv
  PROVE  /\ Near(receiveStart) /\ Near(receiveNext) /\ Near(WindowEnd)
         /\ pStart \in Nat /\ pNext \in Nat /\ pTaken \in Nat /\ Finished \in {0, 1}
         /\ pNext = pTaken + Finished
         /\ Position(WindowEnd) = pStart + RECEIVE_MAX
<1>1. receiveStart \in Sequence /\ receiveNext \in Sequence
  BY DEF ReadInv
<1>2. pStart \in Nat /\ pNext \in Nat
  BY <1>1, NumberOf, NumbersConstants DEF pStart, pNext, Sequence
<1>3. Finished \in {0, 1} /\ pTaken = pNext - Finished
  BY DEF Finished, pTaken
<1>4. pStart <= pTaken /\ pTaken <= StreamLength
  BY DEF ReadInv
<1>5. pTaken \in Nat /\ pNext = pTaken + Finished
  BY <1>2, <1>3, <1>4
<1>6. pStart <= StreamLength /\ pNext <= StreamLength + RECEIVE_MAX
      /\ pStart + RECEIVE_MAX <= StreamLength + RECEIVE_MAX
  BY <1>2, <1>3, <1>4, <1>5, ReceiveConstants
<1>7. Near(receiveStart) /\ Near(receiveNext)
  BY <1>1, <1>2, <1>6, ReceiveConstants DEF Near, pStart, pNext
<1>8. Near(WindowEnd) /\ Position(WindowEnd) = pStart + RECEIVE_MAX
  BY <1>6, <1>7, ReceiveConstants, AdvanceNear DEF WindowEnd, pStart
<1>9. QED
  BY <1>2, <1>3, <1>5, <1>7, <1>8

Cut(e) == IF isAfter(e, WindowEnd) THEN WindowEnd ELSE e
Trim(s) == IF isAfter(receiveNext, s) THEN receiveNext ELSE s
Touched(s, e) == Touching(Trim(s), Cut(e))
Run(s, e) == Merged(Touched(s, e) \cup {[start |-> Trim(s), end |-> Cut(e)]})
Dropped(s, e) ==
    \/ s = e \/ isAtOrAfter(s, WindowEnd) \/ isAtOrAfter(receiveNext, Cut(e))
    \/ Cardinality(holes \ Touched(s, e)) >= HOLE_MAX

\* A piece that is not dropped is new, inside the window, and not empty.
LEMMA CutIs ==
  ASSUME ReadInv, NEW s, NEW e, Near(s), Near(e), Position(s) <= Position(e),
         Position(e) <= StreamLength, ~Dropped(s, e)
  PROVE  /\ Near(Trim(s)) /\ Near(Cut(e))
         /\ Position(Trim(s)) \in Nat /\ Position(Cut(e)) \in Nat
         /\ pNext <= Position(Trim(s)) /\ Position(Trim(s)) < Position(Cut(e))
         /\ Position(Cut(e)) <= pStart + RECEIVE_MAX /\ Position(Cut(e)) <= StreamLength
         /\ ~remoteHasFinished
<1>1. /\ Near(receiveNext) /\ Near(WindowEnd) /\ pStart \in Nat /\ pNext \in Nat
      /\ Position(WindowEnd) = pStart + RECEIVE_MAX /\ Position(receiveNext) = pNext
      /\ pNext = pTaken + Finished
  BY PlacesAre DEF pNext
<1>2. Position(s) \in Nat /\ Position(e) \in Nat
  BY NearIs
<1>3. /\ s # e /\ ~isAtOrAfter(s, WindowEnd) /\ ~isAtOrAfter(receiveNext, Cut(e))
  BY DEF Dropped
<1>4. Position(s) < Position(e)
  BY <1>2, <1>3, OrderIs
<1>5. Position(s) < pStart + RECEIVE_MAX
  <2>1. ~(Position(s) >= Position(WindowEnd))
    BY <1>1, <1>3, OrderIs
  <2>2. QED
    BY <1>1, <1>2, <2>1, ReceiveConstants
<1>6. /\ Near(Cut(e)) /\ Position(Cut(e)) \in Nat
      /\ Position(Cut(e)) <= pStart + RECEIVE_MAX /\ Position(Cut(e)) <= Position(e)
      /\ Position(Cut(e)) > Position(s)
  <2>1. CASE isAfter(e, WindowEnd)
    <3>1. Cut(e) = WindowEnd /\ Position(e) > Position(WindowEnd)
      BY <1>1, <2>1, OrderIs DEF Cut
    <3>2. QED
      BY <1>1, <1>2, <1>5, <3>1, ReceiveConstants
  <2>2. CASE ~isAfter(e, WindowEnd)
    <3>1. Cut(e) = e /\ ~(Position(e) > Position(WindowEnd))
      BY <1>1, <2>2, OrderIs DEF Cut
    <3>2. QED
      BY <1>1, <1>2, <1>4, <3>1, ReceiveConstants
  <2>3. QED
    BY <2>1, <2>2
<1>7. pNext < Position(Cut(e))
  <2>1. ~(Position(receiveNext) >= Position(Cut(e)))
    BY <1>1, <1>3, <1>6, OrderIs
  <2>2. QED
    BY <1>1, <1>6, <2>1
<1>8. /\ Near(Trim(s)) /\ Position(Trim(s)) \in Nat
      /\ pNext <= Position(Trim(s)) /\ Position(Trim(s)) < Position(Cut(e))
  <2>1. CASE isAfter(receiveNext, s)
    <3>1. Trim(s) = receiveNext
      BY <2>1 DEF Trim
    <3>2. QED
      BY <1>1, <1>7, <3>1
  <2>2. CASE ~isAfter(receiveNext, s)
    <3>1. Trim(s) = s /\ ~(Position(receiveNext) > Position(s))
      BY <1>1, <2>2, OrderIs DEF Trim
    <3>2. QED
      BY <1>1, <1>2, <1>6, <3>1
  <2>3. QED
    BY <2>1, <2>2
<1>9. Position(Cut(e)) <= StreamLength
  BY <1>2, <1>6, ReceiveConstants
<1>10. ~remoteHasFinished
  <2>1. SUFFICES ASSUME remoteHasFinished
                 PROVE  FALSE
    OBVIOUS
  <2>2. pTaken = StreamLength /\ Finished = 1
    BY <2>1 DEF ReadInv, Finished
  <2>3. QED
    BY <1>1, <1>6, <1>7, <1>9, <2>2, ReceiveConstants
<1>11. QED
  BY <1>6, <1>8, <1>9, <1>10

\* The run a piece becomes with those it touches: nothing else touches it,
\* and every byte of it is of the piece or of one of them.
LEMMA RunIs ==
  ASSUME ReadInv, HolesOK(pStart, pNext, holes), NEW s, NEW e, Near(s), Near(e),
         Position(s) <= Position(e), Position(e) <= StreamLength, ~Dropped(s, e)
  PROVE  LET m == Run(s, e)
         IN  /\ m \in [start : Sequence, end : Sequence]
             /\ Near(m.start) /\ Near(m.end)
             /\ pNext <= Position(m.start) /\ Position(m.start) < Position(m.end)
             /\ Position(m.end) <= pStart + RECEIVE_MAX /\ Position(m.end) <= StreamLength
             /\ \A r \in holes \ Touched(s, e) :
                   Position(m.end) < Position(r.start) \/ Position(r.end) < Position(m.start)
             /\ \A p \in Position(m.start) .. Position(m.end) - 1 :
                   \/ p \in Position(Trim(s)) .. Position(Cut(e)) - 1
                   \/ p \in Waiting(holes)
<1> DEFINE start == Trim(s)
           end == Cut(e)
           touched == Touched(s, e)
           runs == touched \cup {[start |-> start, end |-> end]}
           m == Run(s, e)
<1>1. /\ Near(start) /\ Near(end)
      /\ Position(start) \in Nat /\ Position(end) \in Nat
      /\ pNext <= Position(start) /\ Position(start) < Position(end)
      /\ Position(end) <= pStart + RECEIVE_MAX /\ Position(end) <= StreamLength
  BY CutIs
<1>2. touched = {r \in holes : ~isAfter(r.start, end) /\ ~isAfter(start, r.end)}
  BY DEF Touched, Touching
<1>3. m = Merged(runs)
  BY DEF Run
<1> HIDE DEF start, end, touched, m
<1>4. pStart \in Nat /\ pNext \in Nat
  BY PlacesAre
<1>5. \A r \in holes : /\ r \in [start : Sequence, end : Sequence]
                       /\ Position(r.start) \in Nat /\ Position(r.end) \in Nat
                       /\ pNext < Position(r.start) /\ Position(r.start) < Position(r.end)
                       /\ Position(r.end) <= pStart + RECEIVE_MAX
                       /\ Position(r.end) <= StreamLength
                       /\ Near(r.start) /\ Near(r.end)
  <2>1. TAKE r \in holes
  <2>2. r.start \in Sequence /\ r.end \in Sequence /\ r \in [start : Sequence, end : Sequence]
    BY DEF HolesOK
  <2>3. Position(r.start) \in Nat /\ Position(r.end) \in Nat
    BY <2>2, NumberOf, NumbersConstants DEF Sequence
  <2>4. /\ pNext < Position(r.start) /\ Position(r.start) < Position(r.end)
        /\ Position(r.end) <= pStart + RECEIVE_MAX /\ Position(r.end) <= StreamLength
    BY DEF HolesOK
  <2>5. /\ Position(r.start) <= StreamLength + RECEIVE_MAX
        /\ Position(r.end) <= StreamLength + RECEIVE_MAX
    BY <2>3, <2>4, ReceiveConstants
  <2>6. QED
    BY <2>2, <2>3, <2>4, <2>5 DEF Near
<1>6. \A r \in holes : r \in touched <=>
            Position(r.start) <= Position(end) /\ Position(start) <= Position(r.end)
  <2>1. TAKE r \in holes
  <2>2. /\ isAfter(r.start, end) <=> Position(r.start) > Position(end)
        /\ isAfter(start, r.end) <=> Position(start) > Position(r.end)
    BY <1>1, <1>5, OrderIs
  <2>3. QED
    BY <1>1, <1>2, <1>5, <2>2
<1>7. touched \subseteq holes
  BY <1>2
<1>8. \A r \in runs : /\ r \in [start : Sequence, end : Sequence]
                      /\ Near(r.start) /\ Near(r.end)
                      /\ pNext <= Position(r.start) /\ Position(r.start) < Position(r.end)
                      /\ Position(r.end) <= pStart + RECEIVE_MAX
                      /\ Position(r.end) <= StreamLength
                      /\ Position(r.start) \in Nat /\ Position(r.end) \in Nat
  <2>1. TAKE r \in runs
  <2>2. CASE r \in touched
    BY <1>4, <1>5, <1>7, <2>2
  <2>3. CASE r = [start |-> start, end |-> end]
    <3>1. r.start = start /\ r.end = end /\ start \in Sequence /\ end \in Sequence
      BY <1>1, <2>3, NearIs
    <3>2. r \in [start : Sequence, end : Sequence]
      BY <2>3, <3>1
    <3>3. QED
      BY <1>1, <3>1, <3>2
  <2>4. QED
    BY <2>2, <2>3
<1>9. /\ m \in [start : Sequence, end : Sequence]
      /\ \E r \in runs : m.start = r.start
      /\ \E r \in runs : m.end = r.end
      /\ \A r \in runs : /\ Position(m.start) <= Position(r.start)
                         /\ Position(r.end) <= Position(m.end)
  <2>1. runs \subseteq [start : Sequence, end : Sequence] /\ runs # {}
        /\ \A r \in runs : Near(r.start) /\ Near(r.end)
    BY <1>8
  <2> HIDE DEF runs
  <2>2. QED
    BY <1>3, <2>1, MergedIs
<1>10. PICK f \in runs : m.start = f.start
  BY <1>9
<1>11. PICK l \in runs : m.end = l.end
  BY <1>9
<1>12. Position(m.start) <= Position(start) /\ Position(end) <= Position(m.end)
  <2>1. [start |-> start, end |-> end] \in runs
    OBVIOUS
  <2> HIDE DEF runs
  <2>2. /\ Position(m.start) <= Position([start |-> start, end |-> end].start)
        /\ Position([start |-> start, end |-> end].end) <= Position(m.end)
    BY <1>9, <2>1
  <2>3. QED
    BY <2>2
<1>13. /\ Near(m.start) /\ Near(m.end) /\ Position(m.start) \in Nat /\ Position(m.end) \in Nat
       /\ pNext <= Position(m.start) /\ Position(m.end) <= pStart + RECEIVE_MAX
       /\ Position(m.end) <= StreamLength
  BY <1>8, <1>10, <1>11
<1>14. Position(m.start) < Position(m.end)
  BY <1>1, <1>12, <1>13
\* nothing left touches it
<1>15. ASSUME NEW r \in holes \ touched
       PROVE  Position(m.end) < Position(r.start) \/ Position(r.end) < Position(m.start)
  <2>1. Position(end) < Position(r.start) \/ Position(r.end) < Position(start)
    BY <1>1, <1>5, <1>6
  <2>2. ASSUME NEW q \in touched
        PROVE  /\ Position(q.start) <= Position(end) /\ Position(start) <= Position(q.end)
               /\ Position(q.end) < Position(r.start) \/ Position(r.end) < Position(q.start)
               /\ Position(q.start) \in Nat /\ Position(q.end) \in Nat
               /\ Position(q.start) < Position(q.end)
    <3>1. q \in holes /\ q # r
      BY <1>7, <1>15
    <3>2. QED
      BY <1>5, <1>6, <3>1 DEF HolesOK
  <2>3. CASE Position(end) < Position(r.start)
    <3>1. CASE l = [start |-> start, end |-> end]
      BY <1>11, <2>3, <3>1
    <3>2. CASE l \in touched
      <4>1. Position(l.end) < Position(r.start)
        BY <1>1, <1>5, <2>2, <2>3, <3>2
      <4>2. QED
        BY <1>11, <4>1
    <3>3. QED
      BY <3>1, <3>2
  <2>4. CASE Position(r.end) < Position(start)
    <3>1. CASE f = [start |-> start, end |-> end]
      BY <1>10, <2>4, <3>1
    <3>2. CASE f \in touched
      <4>1. Position(r.end) < Position(f.start)
        BY <1>1, <1>5, <2>2, <2>4, <3>2
      <4>2. QED
        BY <1>10, <4>1
    <3>3. QED
      BY <3>1, <3>2
  <2>5. QED
    BY <2>1, <2>3, <2>4
\* every byte of it is new or was waiting
<1>16. ASSUME NEW p \in Position(m.start) .. Position(m.end) - 1
       PROVE  p \in Position(start) .. Position(end) - 1 \/ p \in Waiting(holes)
  <2>1. p \in Int /\ Position(m.start) <= p /\ p < Position(m.end)
    BY <1>13, <1>16
  <2>2. ASSUME NEW q \in touched, Position(q.start) <= p, p < Position(q.end)
        PROVE  p \in Waiting(holes)
    <3>1. p \in Position(q.start) .. Position(q.end) - 1 /\ q \in holes
      BY <1>5, <1>7, <2>1, <2>2
    <3>2. QED
      BY <3>1 DEF Waiting
  <2>3. CASE p < Position(start)
    <3>1. f \in touched
      BY <1>1, <1>10, <2>1, <2>3
    <3>2. Position(f.start) <= p /\ p < Position(f.end)
      BY <1>1, <1>5, <1>6, <1>7, <1>10, <2>1, <2>3, <3>1
    <3>3. QED
      BY <2>2, <3>1, <3>2
  <2>4. CASE p >= Position(end)
    <3>1. l \in touched
      BY <1>1, <1>11, <2>1, <2>4
    <3>2. Position(l.start) <= p /\ p < Position(l.end)
      BY <1>1, <1>5, <1>6, <1>7, <1>11, <2>1, <2>4, <3>1
    <3>3. QED
      BY <2>2, <3>1, <3>2
  <2>5. QED
    BY <1>1, <2>1, <2>3, <2>4
<1>17. QED
  BY <1>9, <1>13, <1>14, <1>15, <1>16 DEF m, start, end, touched

\* The ring after a piece is written: its bytes are in their slots, and every
\* other byte the ring has a slot for is where it was.
LEMMA WriteIs ==
  ASSUME ReadInv, NEW s, NEW start, NEW end, Near(start), Near(end),
         incoming \in [0 .. RECEIVE_MAX - 1 -> 0 .. StreamLength \cup {Empty}],
         pStart <= Position(start), Position(start) <= Position(end),
         Position(end) <= pStart + RECEIVE_MAX, Position(end) <= StreamLength
  PROVE  LET kept == WriteRing(s, start, end)
         IN  /\ kept \in [0 .. RECEIVE_MAX - 1 -> 0 .. StreamLength \cup {Empty}]
             /\ \A p \in pStart .. (pStart + RECEIVE_MAX) - 1 :
                   kept[Slot(Numbered(p))] =
                      IF p \in Position(start) .. Position(end) - 1 THEN p
                      ELSE incoming[Slot(Numbered(p))]
<1> DEFINE offset(slot) == (slot - start) % RECEIVE_MAX
           length == (end - start) % SEQUENCES
           b == Position(start)
           kept == WriteRing(s, start, end)
<1>1. /\ b \in Nat /\ Position(end) \in Nat /\ start \in Int /\ start = Numbered(b)
      /\ pStart \in Nat
  BY NearIs, NumberOf, NumbersConstants, PlacesAre DEF Sequence
<1>2. length = Position(end) - b
  <2>1. Apart(end, start) = Position(end) - b
    BY NearIs, ApartIs
  <2>2. QED
    BY <2>1 DEF Apart
<1>3. kept = [slot \in 0 .. RECEIVE_MAX - 1 |->
                 IF offset(slot) < length THEN b + offset(slot) ELSE incoming[slot]]
  BY DEF WriteRing, Content
<1> HIDE DEF length, kept, b
<1>4. length \in Nat /\ b + length = Position(end) /\ length <= RECEIVE_MAX
  BY <1>1, <1>2, ReceiveConstants DEF b
<1>5. ASSUME NEW slot \in 0 .. RECEIVE_MAX - 1
      PROVE  offset(slot) \in 0 .. RECEIVE_MAX - 1
  <2>1. slot - start \in Int
    BY <1>1, <1>5, ReceiveConstants
  <2>2. QED
    BY <2>1, ReceiveConstants, Remainder
<1> HIDE DEF offset
<1>6. kept \in [0 .. RECEIVE_MAX - 1 -> 0 .. StreamLength \cup {Empty}]
  <2>1. ASSUME NEW slot \in 0 .. RECEIVE_MAX - 1
        PROVE  (IF offset(slot) < length THEN b + offset(slot) ELSE incoming[slot])
                  \in 0 .. StreamLength \cup {Empty}
    <3>1. CASE offset(slot) < length
      <4>1. offset(slot) \in Nat
        BY <1>5, ReceiveConstants
      <4>2. b + offset(slot) \in 0 .. StreamLength
        BY <1>1, <1>4, <3>1, <4>1, ReceiveConstants
      <4>3. QED
        BY <3>1, <4>2
    <3>2. CASE ~(offset(slot) < length)
      BY <3>2
    <3>3. QED
      BY <3>1, <3>2
  <2>2. QED
    BY <1>3, <2>1
<1>7. ASSUME NEW p \in pStart .. (pStart + RECEIVE_MAX) - 1
      PROVE  kept[Slot(Numbered(p))] =
                IF p \in b .. Position(end) - 1 THEN p ELSE incoming[Slot(Numbered(p))]
  <2> DEFINE slot == Slot(Numbered(p))
             away == p - b
  <2>1. /\ p \in Int /\ away \in Int /\ b \in Int
        /\ away >= - RECEIVE_MAX /\ away < RECEIVE_MAX
    BY <1>1, <1>7, ReceiveConstants DEF b
  <2>2. slot \in 0 .. RECEIVE_MAX - 1 /\ offset(slot) = away % RECEIVE_MAX
    BY <1>1, <2>1, ReceiveConstants, RingOffset DEF offset, Slot
  <2>3. kept[slot] = IF offset(slot) < length THEN b + offset(slot) ELSE incoming[slot]
    BY <1>3, <2>2
  <2> HIDE DEF slot
  <2>4. CASE p >= b
    <3>1. away \in 0 .. RECEIVE_MAX - 1
      BY <2>1, <2>4, ReceiveConstants
    <3>2. offset(slot) = away
      BY <2>1, <2>2, <3>1, ReceiveConstants, SmallRemainder
    <3>3. CASE away < length
      <4>1. p \in b .. Position(end) - 1 /\ b + away = p
        BY <1>1, <1>4, <2>1, <2>4, <3>3
      <4>2. kept[slot] = b + away
        BY <2>3, <3>2, <3>3
      <4>3. QED
        BY <4>1, <4>2 DEF slot
    <3>4. CASE ~(away < length)
      <4>1. ~(p \in b .. Position(end) - 1)
        BY <1>1, <1>4, <2>1, <3>4
      <4>2. kept[slot] = incoming[slot]
        BY <2>3, <3>2, <3>4
      <4>3. QED
        BY <4>1, <4>2 DEF slot
    <3>5. QED
      BY <3>3, <3>4
  <2>5. CASE p < b
    <3>1. away \in - RECEIVE_MAX .. -1
      BY <1>1, <2>1, <2>5, ReceiveConstants
    <3>2. offset(slot) = away + RECEIVE_MAX
      BY <2>1, <2>2, <3>1, ReceiveConstants, SmallRemainder
    <3>3. ~(offset(slot) < length)
      BY <1>1, <1>4, <1>7, <2>1, <3>2, ReceiveConstants
    <3>4. ~(p \in b .. Position(end) - 1)
      BY <1>1, <2>1, <2>5
    <3>5. kept[slot] = incoming[slot]
      BY <2>3, <3>3
    <3>6. QED
      BY <3>4, <3>5 DEF slot
  <2>6. QED
    BY <1>1, <2>1, <2>4, <2>5
<1>8. QED
  BY <1>6, <1>7 DEF kept, b

\* A fold keeps the runs apart, overwrites nothing that is here, and what is
\* next is never less than it was; after the goodbye nothing changes.
LEMMA FoldIs ==
  ASSUME ReadInv, remoteHasFinished \in BOOLEAN,
         HolesOK(pStart, pNext, holes), RingOK(pStart, pTaken, holes, incoming),
         NEW s, NEW e, Near(s), Near(e),
         Position(s) <= Position(e), Position(e) <= StreamLength
  PROVE  LET taken == takeSegmentData(s, e)
         IN  /\ Near(taken.next) /\ pNext <= Position(taken.next)
             /\ taken.next = receiveNext
                  \/ (/\ Position(taken.next) <= pStart + RECEIVE_MAX
                      /\ Position(taken.next) <= StreamLength /\ ~remoteHasFinished)
             /\ HolesOK(pStart, Position(taken.next), taken.holes)
             /\ RingOK(pStart, Position(taken.next) - Finished, taken.holes, taken.ring)
             /\ s = e \/ remoteHasFinished => taken.next = receiveNext
<1> DEFINE start == Trim(s)
           end == Cut(e)
           touched == Touched(s, e)
           left == holes \ touched
           m == Run(s, e)
           runs == left \cup {m}
           first == {r \in runs : r.start = receiveNext}
           kept == WriteRing(s, start, end)
           taken == takeSegmentData(s, e)
<1>1. /\ Near(receiveNext) /\ pStart \in Nat /\ pNext \in Nat /\ Finished \in {0, 1}
      /\ pNext = pTaken + Finished /\ pTaken = pNext - Finished
      /\ Position(receiveNext) = pNext /\ pStart <= pTaken /\ pTaken \in Nat
  BY PlacesAre DEF pNext, ReadInv, pTaken
<1>2. CASE Dropped(s, e)
  <2>1. taken = [next |-> receiveNext, holes |-> holes, ring |-> incoming]
    BY <1>2 DEF takeSegmentData, Dropped, Cut, Trim, Touched
  <2> HIDE DEF taken
  <2>2. taken.next = receiveNext /\ taken.holes = holes /\ taken.ring = incoming
    BY <2>1
  <2>3. pNext <= pNext
    BY <1>1
  <2>4. QED
    BY <1>1, <2>2, <2>3 DEF taken
<1>3. CASE ~Dropped(s, e)
  <2>1. taken = [next |-> IF first = {} THEN receiveNext ELSE (CHOOSE r \in first : TRUE).end,
                 holes |-> runs \ first, ring |-> kept]
    BY <1>3 DEF takeSegmentData, Dropped, Cut, Trim, Touched, Run
  <2>2. /\ Near(start) /\ Near(end)
        /\ Position(start) \in Nat /\ Position(end) \in Nat
        /\ pNext <= Position(start) /\ Position(start) < Position(end)
        /\ Position(end) <= pStart + RECEIVE_MAX /\ Position(end) <= StreamLength
        /\ ~remoteHasFinished
    BY <1>3, CutIs
  <2>3. /\ m \in [start : Sequence, end : Sequence]
        /\ Near(m.start) /\ Near(m.end)
        /\ pNext <= Position(m.start) /\ Position(m.start) < Position(m.end)
        /\ Position(m.end) <= pStart + RECEIVE_MAX /\ Position(m.end) <= StreamLength
        /\ \A r \in left :
              Position(m.end) < Position(r.start) \/ Position(r.end) < Position(m.start)
        /\ \A p \in Position(m.start) .. Position(m.end) - 1 :
              \/ p \in Position(start) .. Position(end) - 1
              \/ p \in Waiting(holes)
    BY <1>3, RunIs
  <2>4. Cardinality(left) < HOLE_MAX /\ IsFiniteSet(left)
    <3>1. ~(Cardinality(left) >= HOLE_MAX)
      BY <1>3 DEF Dropped
    <3>2. IsFiniteSet(holes) /\ left \subseteq holes
      BY DEF HolesOK
    <3>3. IsFiniteSet(left) /\ Cardinality(left) \in Nat
      BY <3>2, FS_Subset, FS_CardinalityType
    <3>4. QED
      BY <3>1, <3>3, ReceiveConstants
  <2>5. /\ kept \in [0 .. RECEIVE_MAX - 1 -> 0 .. StreamLength \cup {Empty}]
        /\ \A p \in pStart .. (pStart + RECEIVE_MAX) - 1 :
              kept[Slot(Numbered(p))] =
                 IF p \in Position(start) .. Position(end) - 1 THEN p
                 ELSE incoming[Slot(Numbered(p))]
    <3>1. pStart <= Position(start) /\ Position(start) <= Position(end)
      BY <1>1, <2>2
    <3>2. incoming \in [0 .. RECEIVE_MAX - 1 -> 0 .. StreamLength \cup {Empty}]
      BY DEF RingOK
    <3> HIDE DEF start, end
    <3>3. QED
      BY <2>2, <3>1, <3>2, WriteIs
  <2> HIDE DEF start, end, touched, m, kept, taken
  <2>6. \A r \in left : /\ r \in [start : Sequence, end : Sequence] /\ r \in holes
                        /\ Position(r.start) \in Nat /\ Position(r.end) \in Nat
                        /\ pNext < Position(r.start) /\ Position(r.start) < Position(r.end)
                        /\ Position(r.end) <= pStart + RECEIVE_MAX
                        /\ Position(r.end) <= StreamLength
    <3>1. TAKE r \in left
    <3>2. r \in [start : Sequence, end : Sequence] /\ r \in holes
      BY DEF HolesOK
    <3>3. Position(r.start) \in Nat /\ Position(r.end) \in Nat
      BY <3>2, NumberOf, NumbersConstants DEF Sequence
    <3>4. QED
      BY <3>2, <3>3 DEF HolesOK
  <2>7. \A r, q \in left :
           r # q => Position(r.end) < Position(q.start) \/ Position(q.end) < Position(r.start)
    BY DEF HolesOK
  <2>8. Position(m.start) \in Nat /\ Position(m.end) \in Nat
    BY <2>3, NearIs
  \* the bytes of the new run, of those left, and read in order, are in their slots
  <2>9. ASSUME NEW p \in Int, pStart <= p, p < pStart + RECEIVE_MAX,
               p < pTaken \/ p \in Waiting(holes)
                  \/ (Position(m.start) <= p /\ p < Position(m.end))
        PROVE  kept[Slot(Numbered(p))] = p
    <3>1. p \in pStart .. (pStart + RECEIVE_MAX) - 1
      BY <1>1, <2>9, ReceiveConstants
    <3>2. CASE p \in Position(start) .. Position(end) - 1
      BY <2>5, <3>1, <3>2
    <3>3. CASE ~(p \in Position(start) .. Position(end) - 1)
      <4>1. p \in Waiting(holes) \/ p < pTaken
        BY <2>3, <2>8, <2>9, <3>3
      <4>2. incoming[Slot(Numbered(p))] = p
        BY <1>1, <2>9, <4>1 DEF RingOK
      <4>3. QED
        BY <2>5, <3>1, <3>3, <4>2
    <3>4. QED
      BY <3>2, <3>3
  <2>10. \A r \in left : \A p \in Position(r.start) .. Position(r.end) - 1 :
            kept[Slot(Numbered(p))] = p
    <3>1. TAKE r \in left
    <3>2. TAKE p \in Position(r.start) .. Position(r.end) - 1
    <3>3. /\ p \in Int /\ pStart <= p /\ p < pStart + RECEIVE_MAX /\ p \in Waiting(holes)
      BY <1>1, <2>6, ReceiveConstants DEF Waiting
    <3>4. QED
      BY <2>9, <3>3
  <2>11. \A p \in Position(m.start) .. Position(m.end) - 1 : kept[Slot(Numbered(p))] = p
    <3>1. TAKE p \in Position(m.start) .. Position(m.end) - 1
    <3>2. /\ p \in Int /\ pStart <= p /\ p < pStart + RECEIVE_MAX
          /\ Position(m.start) <= p /\ p < Position(m.end)
      BY <1>1, <2>3, <2>8, ReceiveConstants
    <3>3. QED
      BY <2>9, <3>2
  <2>12. \A p \in pStart .. pTaken - 1 : kept[Slot(Numbered(p))] = p
    <3>1. TAKE p \in pStart .. pTaken - 1
    <3>2. pTaken <= pStart + RECEIVE_MAX
      BY DEF ReadInv
    <3>3. p \in Int /\ pStart <= p /\ p < pStart + RECEIVE_MAX /\ p < pTaken
      BY <1>1, <3>2, ReceiveConstants
    <3>4. QED
      BY <2>9, <3>3
  <2>13. Finished = 0
    BY <2>2 DEF Finished
  <2>14. \A r \in left : r.start # receiveNext
    <3>1. TAKE r \in left
    <3>2. pNext < Position(r.start)
      BY <2>6
    <3>3. QED
      BY <1>1, <2>6, <3>2
  <2>15. ~(s = e)
    BY <1>3 DEF Dropped
  \* the run starts where the next byte is: it is absorbed
  <2>16. CASE m.start = receiveNext
    <3>1. first = {m}
      BY <2>14, <2>16
    <3>2. m \notin left
      BY <2>14, <2>16
    <3>3. taken.next = m.end /\ taken.holes = left /\ taken.ring = kept
      <4>1. runs \ first = left
        BY <3>1, <3>2
      <4>2. first # {} /\ (CHOOSE r \in first : TRUE) = m
        BY <3>1
      <4>3. QED
        BY <2>1, <4>1, <4>2
    <3> HIDE DEF first, runs
    <3>4. Position(m.start) = pNext
      BY <1>1, <2>16
    <3>5. HolesOK(pStart, Position(m.end), left)
      <4>1. left \subseteq [start : Sequence, end : Sequence]
        BY <2>6
      <4>2. \A r \in left : Position(m.end) < Position(r.start)
        BY <1>1, <2>3, <2>6, <2>8, <3>4
      <4>3. Cardinality(left) <= HOLE_MAX
        <5>1. Cardinality(left) \in Nat
          BY <2>4, FS_CardinalityType
        <5>2. QED
          BY <2>4, <5>1, ReceiveConstants
      <4> HIDE DEF left
      <4>4. QED
        BY <2>4, <2>6, <2>7, <4>1, <4>2, <4>3 DEF HolesOK
    <3>6. RingOK(pStart, Position(m.end) - Finished, left, kept)
      <4>1. ASSUME NEW p \in (pStart .. (Position(m.end) - Finished) - 1) \cup Waiting(left)
            PROVE  kept[Slot(Numbered(p))] = p
        <5>1. CASE p \in Waiting(left)
          <6>1. PICK r \in left : p \in Position(r.start) .. Position(r.end) - 1
            BY <5>1 DEF Waiting
          <6>2. QED
            BY <2>10, <6>1
        <5>2. CASE p \in pStart .. (Position(m.end) - Finished) - 1
          <6>1. p \in pStart .. pTaken - 1 \/ p \in Position(m.start) .. Position(m.end) - 1
            BY <1>1, <2>8, <2>13, <3>4, <5>2
          <6>2. QED
            BY <2>11, <2>12, <6>1
        <5>3. QED
          BY <4>1, <5>1, <5>2
      <4>2. QED
        BY <2>5, <4>1 DEF RingOK
    <3>7. pNext <= Position(m.end)
      BY <1>1, <2>3, <2>8
    <3>8. QED
      BY <2>2, <2>3, <2>15, <3>3, <3>5, <3>6, <3>7 DEF taken
  \* or it waits beyond a gap
  <2>17. CASE m.start # receiveNext
    <3>1. first = {}
      BY <2>14, <2>17
    <3>2. taken.next = receiveNext /\ taken.holes = runs /\ taken.ring = kept
      BY <2>1, <3>1
    <3> HIDE DEF first
    <3>3. pNext < Position(m.start)
      <4>1. Position(m.start) # pNext
        BY <1>1, <2>3, <2>17, OrderIs
      <4>2. QED
        BY <1>1, <2>3, <2>8, <4>1
    <3>4. HolesOK(pStart, pNext, runs)
      <4>1. runs \subseteq [start : Sequence, end : Sequence]
        BY <2>3, <2>6
      <4>2. \A r \in runs : /\ pNext < Position(r.start) /\ Position(r.start) < Position(r.end)
                            /\ Position(r.end) <= pStart + RECEIVE_MAX
                            /\ Position(r.end) <= StreamLength
        BY <2>3, <2>6, <3>3
      <4>3. \A r, q \in runs :
               r # q => Position(r.end) < Position(q.start) \/ Position(q.end) < Position(r.start)
        BY <2>3, <2>7
      <4>4. IsFiniteSet(runs) /\ Cardinality(runs) <= HOLE_MAX
        <5>1. Cardinality(left) \in Nat
          BY <2>4, FS_CardinalityType
        <5> HIDE DEF left
        <5>2. IsFiniteSet(runs) /\ (Cardinality(runs) = Cardinality(left)
                                      \/ Cardinality(runs) = Cardinality(left) + 1)
          BY <2>4, FS_AddElement
        <5>3. QED
          BY <2>4, <5>1, <5>2, ReceiveConstants
      <4> HIDE DEF runs
      <4>5. QED
        BY <4>1, <4>2, <4>3, <4>4 DEF HolesOK
    <3>5. RingOK(pStart, pNext - Finished, runs, kept)
      <4>1. ASSUME NEW p \in (pStart .. (pNext - Finished) - 1) \cup Waiting(runs)
            PROVE  kept[Slot(Numbered(p))] = p
        <5>1. CASE p \in Waiting(runs)
          <6>1. PICK r \in runs : p \in Position(r.start) .. Position(r.end) - 1
            BY <5>1 DEF Waiting
          <6>2. QED
            BY <2>10, <2>11, <6>1
        <5>2. CASE p \in pStart .. (pNext - Finished) - 1
          <6>1. p \in pStart .. pTaken - 1
            BY <1>1, <5>2
          <6>2. QED
            BY <2>12, <6>1
        <5>3. QED
          BY <4>1, <5>1, <5>2
      <4>2. QED
        BY <2>5, <4>1 DEF RingOK
    <3>6. pNext <= pNext
      BY <1>1
    <3>7. QED
      BY <1>1, <2>2, <2>15, <3>2, <3>4, <3>5, <3>6 DEF taken
  <2>18. QED
    BY <2>16, <2>17
<1>4. QED
  BY <1>2, <1>3
-----------------------------------------------------------------------------
(* What leaves, and what it says.                                          *)

LEMMA FieldIs ==
  ASSUME NEW w \in 0 .. RECEIVE_MAX
  PROVE  LET field == AtMost(w \div UNIT, FIELD_MAX)
         IN  /\ field \in 0 .. FIELD_MAX /\ field * UNIT \in Nat /\ field * UNIT <= w
             /\ FieldIsEnough => w < field * UNIT + WorthSaying
<1> DEFINE units == w \div UNIT
           all == RECEIVE_MAX \div UNIT
           rest == w % UNIT
           field == AtMost(units, FIELD_MAX)
<1>1. rest \in 0 .. UNIT - 1 /\ units \in Int /\ UNIT * units + rest = w
  <2>1. w \in Int /\ UNIT \in Nat \ {0}
    BY ReceiveConstants
  <2>2. QED
    BY <2>1, Remainder
<1>2. RECEIVE_MAX % UNIT \in Int /\ all \in Int /\ UNIT * all + (RECEIVE_MAX % UNIT) = RECEIVE_MAX
  BY ReceiveConstants, Remainder
<1>3. RECEIVE_MAX % UNIT = 0
  BY StreamAssumption
<1>4. field = IF units < FIELD_MAX THEN units ELSE FIELD_MAX
  BY DEF AtMost
<1>5. FieldIsEnough => all <= FIELD_MAX /\ UNIT <= WorthSaying
  BY DEF FieldIsEnough
<1>6. WorthSaying \in Int
  BY ReceiveConstants, Remainder DEF WorthSaying, AtMost
<1>7. w \in Int /\ 0 <= w /\ w <= RECEIVE_MAX /\ UNIT \in Int /\ UNIT > 0 /\ FIELD_MAX \in Int
      /\ FIELD_MAX > 0
  BY ReceiveConstants
<1> DEFINE worth == WorthSaying
<1> SUFFICES /\ field \in 0 .. FIELD_MAX /\ field * UNIT \in Nat /\ field * UNIT <= w
             /\ FieldIsEnough => w < field * UNIT + worth
  OBVIOUS
<1> HIDE DEF units, all, rest, field, worth
<1>8. units >= 0
  <2>1. SUFFICES ASSUME units <= -1
                 PROVE  FALSE
    BY <1>1
  <2>2. UNIT * units <= - UNIT
    BY <1>1, <1>7, <2>1
  <2>3. UNIT * units \in Int
    BY <1>1, <1>7
  <2>4. QED
    BY <1>1, <1>7, <2>2, <2>3
<1>9. units <= all
  <2>1. SUFFICES ASSUME units >= all + 1
                 PROVE  FALSE
    BY <1>1, <1>2
  <2>2. UNIT * units >= UNIT * all + UNIT
    BY <1>1, <1>2, <1>7, <2>1
  <2>3. UNIT * units \in Int /\ UNIT * all = RECEIVE_MAX
    BY <1>1, <1>2, <1>3, <1>7
  <2>4. UNIT * units >= RECEIVE_MAX + UNIT /\ RECEIVE_MAX \in Int
    BY <2>2, <2>3, ReceiveConstants
  <2> DEFINE product == UNIT * units
  <2>5. product \in Int /\ product >= RECEIVE_MAX + UNIT /\ product + rest = w
    BY <1>1, <2>3, <2>4
  <2> HIDE DEF product
  <2>6. QED
    BY <1>1, <1>7, <2>4, <2>5
<1>10. field \in 0 .. FIELD_MAX /\ field <= units
  BY <1>1, <1>4, <1>7, <1>8
<1>11. field * UNIT <= units * UNIT /\ field * UNIT \in Nat /\ units * UNIT = UNIT * units
  BY <1>1, <1>7, <1>10
<1>12. units * UNIT \in Int /\ units * UNIT <= w
  BY <1>1, <1>7, <1>11
<1>13. FieldIsEnough => field = units
  BY <1>1, <1>2, <1>4, <1>5, <1>7, <1>9
<1>14. FieldIsEnough => w < field * UNIT + worth
  <2>1. SUFFICES ASSUME FieldIsEnough
                 PROVE  w < field * UNIT + worth
    OBVIOUS
  <2>2. UNIT <= worth /\ worth \in Int /\ field * UNIT = UNIT * units
    BY <1>5, <1>6, <1>11, <1>13, <2>1 DEF worth
  <2>3. QED
    BY <1>1, <1>7, <1>12, <2>2
<1>15. QED
  BY <1>10, <1>11, <1>12, <1>14, <1>7

\* The room there is, whichever of the two states of a step it is asked of.
LEMMA RoomIs ==
  ASSUME NEW start, NEW next, NEW done \in {0, 1}, Near(start), Near(next),
         Position(start) <= Position(next) - done,
         Position(next) - done <= Position(start) + RECEIVE_MAX
  PROVE  /\ Apart(next, start) - done = (Position(next) - done) - Position(start)
         /\ RECEIVE_MAX - (Apart(next, start) - done) \in 0 .. RECEIVE_MAX
         /\ RECEIVE_MAX - (Apart(next, start) - done)
               = (Position(start) + RECEIVE_MAX) - (Position(next) - done)
<1>1. /\ start \in Sequence /\ next \in Sequence
      /\ Position(start) \in Nat /\ Position(next) \in Nat
  BY NearIs
<1>2. Apart(next, start) = Position(next) - Position(start)
  BY <1>1, ApartIs
<1>3. QED
  BY <1>1, <1>2, ReceiveConstants

Places ==
    /\ Near(receiveStart) /\ Near(receiveNext)
    /\ pStart \in Nat /\ pNext \in Nat /\ pTaken \in Nat /\ Finished \in {0, 1}
    /\ pNext = pTaken + Finished
    /\ Readable = pTaken - pStart
    /\ ReceiveWindow \in 0 .. RECEIVE_MAX
    /\ ReceiveWindow = (pStart + RECEIVE_MAX) - pTaken

LEMMA PlacesOf == ReadInv => Places
<1> SUFFICES ASSUME ReadInv
             PROVE  Places
  OBVIOUS
<1>1. /\ Near(receiveStart) /\ Near(receiveNext)
      /\ pStart \in Nat /\ pNext \in Nat /\ pTaken \in Nat /\ Finished \in {0, 1}
      /\ pNext = pTaken + Finished
  BY PlacesAre
<1>2. /\ Position(receiveStart) <= Position(receiveNext) - Finished
      /\ Position(receiveNext) - Finished <= Position(receiveStart) + RECEIVE_MAX
  BY DEF ReadInv, pStart, pTaken, pNext
<1>3. Readable = Apart(receiveNext, receiveStart) - Finished
  BY DEF Readable, Finished
<1>4. ReceiveWindow = RECEIVE_MAX - (Apart(receiveNext, receiveStart) - Finished)
  BY <1>3 DEF ReceiveWindow
<1>5. QED
  BY <1>1, <1>2, <1>3, <1>4, RoomIs DEF Places, pStart, pNext, pTaken

LEMMA PlacesStay == ReadInv' => Places'
BY PlacesOf, PTL

SaidTypes ==
    /\ segmentsSinceAcknowledgement \in Nat /\ advertisedWindow \in 0 .. FIELD_MAX
    /\ fails \in 0 .. MaxFail /\ acknowledged \in Nat /\ offered \in Nat

\* A segment that leaves says what is so when it leaves; one that does not
\* leave is counted, and what was owed stays owed.
LEMMA SendOK ==
  ASSUME SaidTypes, SaidInv, ReadInv', remoteHasFinished' \in BOOLEAN,
         NEW owed \in Nat, SendSegment(owed),
         ~remoteHasFinished' => acknowledged = pNext' \/ owed > 0,
         ~remoteHasFinished' => offered <= pStart' + RECEIVE_MAX
  PROVE  SaidTypes' /\ SaidInv'
<1>1. /\ pStart' \in Nat /\ pNext' \in Nat /\ pTaken' \in Nat /\ Finished' \in {0, 1}
      /\ pNext' = pTaken' + Finished'
      /\ ReceiveWindow' \in 0 .. RECEIVE_MAX
      /\ ReceiveWindow' = (pStart' + RECEIVE_MAX) - pTaken'
  BY PlacesStay DEF Places
<1>2. WindowField' = AtMost(ReceiveWindow' \div UNIT, FIELD_MAX)
  BY DEF WindowField, AtMost
<1>3. /\ WindowField' \in 0 .. FIELD_MAX /\ WindowField' * UNIT \in Nat
      /\ WindowField' * UNIT <= ReceiveWindow'
      /\ FieldIsEnough => ReceiveWindow' < WindowField' * UNIT + WorthSaying
  BY <1>1, <1>2, FieldIs
<1>4. advertisedWindow' = WindowField'
  BY DEF SendSegment
<1>5. remoteHasFinished' = FALSE => Finished' = 0
  BY DEF Finished
<1> DEFINE saidNow == advertisedWindow' * UNIT
           next == pNext'
           start == pStart'
           room == ReceiveWindow'
           told == acknowledged
           toldNow == acknowledged'
           offer == offered
           offerNow == offered'
<1>6. saidNow \in Nat /\ saidNow <= room
  BY <1>3, <1>4
<1>7. next \in Nat /\ start \in Nat /\ told \in Nat /\ offer \in Nat /\ room \in Nat
  <2>1. acknowledged \in Nat /\ offered \in Nat
    BY DEF SaidTypes
  <2>2. ReceiveWindow' \in Nat
    <3>1. \A w \in 0 .. RECEIVE_MAX : w \in Nat
      BY ReceiveConstants
    <3>2. QED
      BY <1>1, <3>1
  <2>3. QED
    BY <1>1, <2>1, <2>2
<1>8. ~remoteHasFinished' => next + room = start + RECEIVE_MAX
  <2>1. SUFFICES ASSUME ~remoteHasFinished'
                 PROVE  next + room = start + RECEIVE_MAX
    OBVIOUS
  <2>2. Finished' = 0
    BY <1>5, <2>1
  <2>3. QED
    BY <1>1, <2>2, ReceiveConstants
<1>9. FieldIsEnough => ~ShouldAnnounceWindow(ReceiveWindow)'
  <2>1. SUFFICES ASSUME FieldIsEnough
                 PROVE  ~ShouldAnnounceWindow(ReceiveWindow)'
    OBVIOUS
  <2>2. ReceiveWindow' < advertisedWindow' * UNIT + WorthSaying
    BY <1>3, <1>4, <2>1
  <2>3. WorthSaying \in Int
    BY ReceiveConstants, Remainder DEF WorthSaying, AtMost
  <2>4. ~(ReceiveWindow' >= advertisedWindow' * UNIT + WorthSaying)
    BY <1>6, <1>7, <2>2, <2>3
  <2>5. ShouldAnnounceWindow(ReceiveWindow)'
           <=> ReceiveWindow' >= advertisedWindow' * UNIT + WorthSaying
    BY DEF ShouldAnnounceWindow, WorthSaying, AtMost
  <2>6. QED
    BY <2>4, <2>5
\* it left
<1>10. CASE /\ segmentsSinceAcknowledgement' = 0
            /\ acknowledged' = Position(receiveNext')
            /\ LET edge == acknowledged' + advertisedWindow' * UNIT
               IN  offered' = IF edge > offered THEN edge ELSE offered
            /\ UNCHANGED fails
  <2>1. toldNow = next
    BY <1>10 DEF pNext, Position
  <2>2. offerNow = IF toldNow + saidNow > offer THEN toldNow + saidNow ELSE offer
    BY <1>10
  <2>3. ~remoteHasFinished' => offer <= start + RECEIVE_MAX
    OBVIOUS
  <2> HIDE DEF saidNow, next, start, room, told, toldNow, offer, offerNow
  <2>4. /\ toldNow \in Nat /\ offerNow \in Nat /\ toldNow + saidNow <= offerNow
        /\ ~remoteHasFinished' => offerNow <= start + RECEIVE_MAX
    BY <1>6, <1>7, <1>8, <2>1, <2>2, <2>3, ReceiveConstants
  <2>5. acknowledged' \in Nat /\ offered' \in Nat
        /\ acknowledged' + advertisedWindow' * UNIT <= offered'
        /\ (~remoteHasFinished' => offered' <= pStart' + RECEIVE_MAX)
        /\ acknowledged' = pNext'
    BY <2>1, <2>4 DEF saidNow, next, start, toldNow, offerNow
  <2>6. SaidTypes'
    BY <1>3, <1>4, <1>10, <2>5 DEF SaidTypes
  <2>7. QED
    BY <1>9, <1>10, <2>5, <2>6 DEF SaidInv
\* the tunnel refused it
<1>11. CASE /\ fails < MaxFail /\ fails' = fails + 1
            /\ segmentsSinceAcknowledgement' = OwedAfterFailure(owed)
            /\ UNCHANGED <<acknowledged, offered>>
  <2>1. segmentsSinceAcknowledgement' = owed /\ acknowledged' = acknowledged /\ offered' = offered
    BY <1>11 DEF OwedAfterFailure
  <2>2. fails' \in 0 .. MaxFail /\ fails' # 0
    BY <1>11, ReceiveConstants DEF SaidTypes
  <2>3. SaidTypes'
    BY <1>3, <1>4, <2>1, <2>2 DEF SaidTypes
  <2>4. QED
    BY <2>1, <2>2, <2>3 DEF SaidInv
<1>12. QED
  BY <1>10, <1>11 DEF SendSegment

\* Nothing left: what was saidNow is as true as it was of the room there is now.
LEMMA SilenceOK ==
  ASSUME SaidTypes, SaidInv, NEW owed \in Nat, SendNothing(owed),
         ~remoteHasFinished' => acknowledged = pNext' \/ owed > 0,
         ~remoteHasFinished' => offered <= pStart' + RECEIVE_MAX,
         FieldIsEnough /\ fails = 0 /\ ~remoteHasFinished' => ~ShouldAnnounceWindow(ReceiveWindow')
  PROVE  SaidTypes' /\ SaidInv'
<1>1. /\ segmentsSinceAcknowledgement' = owed /\ advertisedWindow' = advertisedWindow
      /\ acknowledged' = acknowledged /\ offered' = offered /\ fails' = fails
  BY DEF SendNothing
<1>2. SaidTypes'
  BY <1>1 DEF SaidTypes
<1>3. ShouldAnnounceWindow(ReceiveWindow)' <=> ShouldAnnounceWindow(ReceiveWindow')
  BY <1>1 DEF ShouldAnnounceWindow, WorthSaying, AtMost
<1>4. QED
  BY <1>1, <1>2, <1>3 DEF SaidInv
-----------------------------------------------------------------------------
(* The same of the state a step leaves.                                    *)

LEMMA HolesStay == HolesInv' <=> HolesOK(pStart', pNext', holes')
BY DEF HolesInv, HolesOK, RunsLieApart, pStart, pNext, Position

LEMMA RingStays ==
  ASSUME remoteHasFinished' \in BOOLEAN, pNext' \in Nat
  PROVE  KeptInv' <=> RingOK(pStart', pTaken', holes', incoming')
<1>1. CASE remoteHasFinished'
  <2>1. pTaken' = Position(receiveNext') - 1
    BY <1>1 DEF pTaken, Finished, pNext, Position
  <2> DEFINE upTo == Position(receiveNext') - 1
  <2>2. NothingOverwritten' <=>
          \A p \in (Position(receiveStart') .. upTo - 1)
                   \cup UNION {Position(r.start) .. Position(r.end) - 1 : r \in holes'} :
             incoming'[Slot(Numbered(p))] = p
    BY <1>1 DEF NothingOverwritten, Position, Slot, Numbered
  <2>3. pStart' = Position(receiveStart')
    BY DEF pStart, Position
  <2> HIDE DEF upTo
  <2>4. upTo = pTaken'
    BY <2>1 DEF upTo
  <2>5. KeptInv' <=> /\ incoming' \in [0 .. RECEIVE_MAX - 1 -> 0 .. StreamLength \cup {Empty}]
                     /\ NothingOverwritten'
    BY DEF KeptInv, Empty
  <2>6. QED
    BY <2>2, <2>3, <2>4, <2>5 DEF RingOK, Waiting
<1>2. CASE ~remoteHasFinished'
  <2>1. pTaken' = Position(receiveNext')
    <3>1. pTaken' = pNext' - 0
      BY <1>2 DEF pTaken, Finished
    <3>2. Position(receiveNext') = pNext'
      BY DEF pNext, Position
    <3>3. \A n \in Nat : n - 0 = n
      OBVIOUS
    <3>4. QED
      BY <3>1, <3>2, <3>3
  <2> DEFINE upTo == Position(receiveNext')
  <2>2. NothingOverwritten' <=>
          \A p \in (Position(receiveStart') .. upTo - 1)
                   \cup UNION {Position(r.start) .. Position(r.end) - 1 : r \in holes'} :
             incoming'[Slot(Numbered(p))] = p
    BY <1>2 DEF NothingOverwritten, Position, Slot, Numbered
  <2>3. pStart' = Position(receiveStart')
    BY DEF pStart, Position
  <2> HIDE DEF upTo
  <2>4. upTo = pTaken'
    BY <2>1 DEF upTo
  <2>5. KeptInv' <=> /\ incoming' \in [0 .. RECEIVE_MAX - 1 -> 0 .. StreamLength \cup {Empty}]
                     /\ NothingOverwritten'
    BY DEF KeptInv, Empty
  <2>6. QED
    BY <2>2, <2>3, <2>4, <2>5 DEF RingOK, Waiting
<1>3. QED
  BY <1>1, <1>2

\* Reading gives room; it takes nothing away.
LEMMA RoomGiven ==
  ASSUME NEW start \in Nat, NEW later \in Nat, start <= later, NEW next, NEW H, NEW upTo, NEW kept,
         upTo \in Int,
         HolesOK(start, next, H), RingOK(start, upTo, H, kept)
  PROVE  HolesOK(later, next, H) /\ RingOK(later, upTo, H, kept)
<1>1. HolesOK(later, next, H)
  <2>1. \A r \in H : Position(r.end) <= later + RECEIVE_MAX
    <3>1. TAKE r \in H
    <3>2. Position(r.end) \in Int
      BY NumberOf, NumbersConstants DEF HolesOK, Sequence
    <3>3. Position(r.end) <= start + RECEIVE_MAX
      BY DEF HolesOK
    <3>4. QED
      BY <3>2, <3>3, ReceiveConstants
  <2>2. QED
    BY <2>1 DEF HolesOK
<1>2. RingOK(later, upTo, H, kept)
  <2>1. \A p \in later .. upTo - 1 : p \in start .. upTo - 1
    OBVIOUS
  <2>2. QED
    BY <2>1 DEF RingOK
<1>3. QED
  BY <1>1, <1>2
-----------------------------------------------------------------------------
(* The steps that take nothing in.                                         *)

LEMMA RingFrame ==
  ASSUME ReadInv, HolesInv, KeptInv, UNCHANGED ring, UNCHANGED handedUp
  PROVE  /\ ReadInv' /\ HolesInv' /\ KeptInv'
         /\ pStart' = pStart /\ pNext' = pNext /\ ReceiveWindow' = ReceiveWindow
<1>1. UNCHANGED <<receiveStart, receiveNext, holes, incoming, remoteHasFinished, handedUp>>
  BY DEF ring
<1>2. pStart' = pStart /\ pNext' = pNext /\ ReceiveWindow' = ReceiveWindow
  BY <1>1 DEF pStart, pNext, Position, ReceiveWindow, Readable, Apart
<1>3. ReadInv'
  BY <1>1 DEF ReadInv, pStart, pTaken, pNext, Finished, Position, Sequence
<1>4. HolesInv'
  BY <1>1 DEF HolesInv, RunsLieApart, Position, Sequence
<1>5. KeptInv'
  BY <1>1 DEF KeptInv, NothingOverwritten, Position, Slot, Numbered, Empty
<1>6. QED
  BY <1>2, <1>3, <1>4, <1>5

LEMMA SaidIs ==
  CountersInv <=> /\ state \in {"OPEN", "CLOSING", "CLOSED", "FAILED"}
                  /\ servicing \in BOOLEAN /\ leaving \in BOOLEAN
                  /\ remoteHasFinished \in BOOLEAN /\ SaidTypes
BY DEF CountersInv, SaidTypes

LEMMA SaidStays ==
  ASSUME state' \in {"OPEN", "CLOSING", "CLOSED", "FAILED"}, servicing' \in BOOLEAN,
         leaving' \in BOOLEAN, remoteHasFinished' \in BOOLEAN, SaidTypes'
  PROVE  CountersInv'
BY DEF CountersInv, SaidTypes

LEMMA OwedNow ==
  ASSUME ReceiveInv
  PROVE  /\ segmentsSinceAcknowledgement \in Nat /\ remoteHasFinished \in BOOLEAN
         /\ ~remoteHasFinished => acknowledged = pNext \/ segmentsSinceAcknowledgement > 0
         /\ ~remoteHasFinished => offered <= pStart + RECEIVE_MAX
BY DEF ReceiveInv, CountersInv, SaidInv

LEMMA QuietKeeps ==
  ASSUME ReceiveInv, UNCHANGED ring, UNCHANGED handedUp,
         state' \in {"OPEN", "CLOSING", "CLOSED", "FAILED"}, servicing' \in BOOLEAN,
         leaving' \in BOOLEAN,
         \/ SendSegment(segmentsSinceAcknowledgement)
         \/ SendNothing(segmentsSinceAcknowledgement)
  PROVE  ReceiveInv'
<1>1. /\ ReadInv' /\ HolesInv' /\ KeptInv'
      /\ pStart' = pStart /\ pNext' = pNext /\ ReceiveWindow' = ReceiveWindow
  BY RingFrame DEF ReceiveInv
<1>2. remoteHasFinished' = remoteHasFinished
  BY DEF ring
<1>3. SaidTypes /\ SaidInv
  BY SaidIs DEF ReceiveInv
<1>4. /\ ~remoteHasFinished' => acknowledged = pNext' \/ segmentsSinceAcknowledgement > 0
      /\ ~remoteHasFinished' => offered <= pStart' + RECEIVE_MAX
      /\ segmentsSinceAcknowledgement \in Nat /\ remoteHasFinished' \in BOOLEAN
  BY <1>1, <1>2, OwedNow
<1>5. SaidTypes' /\ SaidInv'
  <2>1. CASE SendSegment(segmentsSinceAcknowledgement)
    BY <1>1, <1>3, <1>4, <2>1, SendOK
  <2>2. CASE SendNothing(segmentsSinceAcknowledgement)
    <3>1. FieldIsEnough /\ fails = 0 /\ ~remoteHasFinished'
             => ~ShouldAnnounceWindow(ReceiveWindow')
      BY <1>1, <1>2, <1>3 DEF SaidInv
    <3>2. QED
      BY <1>3, <1>4, <2>2, <3>1, SilenceOK
  <2>3. QED
    BY <2>1, <2>2
<1>6. QED
  BY <1>1, <1>4, <1>5, SaidStays DEF ReceiveInv

LEMMA SaidTypesNow ==
  ASSUME ReceiveInv
  PROVE  /\ state \in {"OPEN", "CLOSING", "CLOSED", "FAILED"}
         /\ servicing \in BOOLEAN /\ leaving \in BOOLEAN
BY DEF ReceiveInv, CountersInv

\* The steps that may send: the ring is as it was, whatever the state becomes.
LEMMA SendingStepsKeep ==
  ASSUME ReceiveInv, SendData \/ SayGoodbye \/ EndService
  PROVE  ReceiveInv'
<1>1. CASE SendData
  <2>1. /\ UNCHANGED ring /\ UNCHANGED handedUp /\ SendSegment(segmentsSinceAcknowledgement)
        /\ state' = state /\ servicing' = servicing /\ leaving' = leaving
    BY <1>1 DEF SendData
  <2>2. QED
    BY <2>1, SaidTypesNow, QuietKeeps
<1>2. CASE SayGoodbye
  <2>1. /\ UNCHANGED ring /\ UNCHANGED handedUp /\ SendSegment(segmentsSinceAcknowledgement)
        /\ state' = "CLOSING" /\ servicing' = servicing /\ leaving' = FALSE
    BY <1>2 DEF SayGoodbye
  <2>2. QED
    BY <2>1, SaidTypesNow, QuietKeeps
<1>3. CASE EndService
  <2>1. /\ UNCHANGED ring /\ UNCHANGED handedUp
        /\ state' = state /\ servicing' = FALSE /\ leaving' = leaving
        /\ \/ SendSegment(segmentsSinceAcknowledgement)
           \/ SendNothing(segmentsSinceAcknowledgement)
    BY <1>3 DEF EndService
  <2>2. QED
    BY <2>1, SaidTypesNow, QuietKeeps
<1>4. QED
  BY <1>1, <1>2, <1>3

LEMMA StillKeeps ==
  ASSUME ReceiveInv, UNCHANGED <<ring, said, handedUp>>,
         state' \in {"OPEN", "CLOSING", "CLOSED", "FAILED"}, servicing' \in BOOLEAN,
         leaving' \in BOOLEAN
  PROVE  ReceiveInv'
<1>1. UNCHANGED ring /\ UNCHANGED handedUp
  OBVIOUS
<1>2. SendNothing(segmentsSinceAcknowledgement)
  BY DEF said, SendNothing
<1>3. QED
  BY <1>1, <1>2, QuietKeeps

SilentStep == BeginService \/ BreakOff \/ StartClose \/ TakeReset \/ UNCHANGED vars

LEMMA SilentStepIs ==
  ASSUME SilentStep
  PROVE  /\ UNCHANGED <<ring, said, handedUp>>
         /\ state' \in {state, "CLOSED", "FAILED"}
         /\ servicing' \in {servicing, TRUE, FALSE} /\ leaving' \in {leaving, TRUE}
<1>1. CASE BeginService
  BY <1>1 DEF BeginService
<1>2. CASE BreakOff
  BY <1>2 DEF BreakOff
<1>3. CASE StartClose
  BY <1>3 DEF StartClose
<1>4. CASE TakeReset
  BY <1>4 DEF TakeReset
<1>5. CASE UNCHANGED vars
  BY <1>5 DEF vars
<1>6. QED
  BY <1>1, <1>2, <1>3, <1>4, <1>5 DEF SilentStep

LEMMA SilentStepsKeep ==
  ASSUME ReceiveInv, SilentStep
  PROVE  ReceiveInv'
<1>1. /\ UNCHANGED <<ring, said, handedUp>>
      /\ state' \in {"OPEN", "CLOSING", "CLOSED", "FAILED"}
      /\ servicing' \in BOOLEAN /\ leaving' \in BOOLEAN
  BY SilentStepIs, SaidTypesNow
<1>2. QED
  BY <1>1, StillKeeps
-----------------------------------------------------------------------------
(* recvWgTcp.                                                              *)

\* The ring is indexed by sequence number: the slot n bytes on is the slot of
\* the byte n bytes on, wherever the numbers wrap.
LEMMA SlotOf ==
  ASSUME NEW s \in Sequence, NEW n \in Nat
  PROVE  Slot(s + n) = Slot(Numbered(Position(s) + n))
<1> DEFINE p == Position(s)
           a == FIRST + p
           b == FIRST + (p + n)
<1>1. p \in Nat /\ s = Numbered(p) /\ s \in Int
  BY NumberOf, NumbersConstants DEF Sequence
<1>2. RECEIVE_MAX \in Nat \ {0} /\ SEQUENCES % RECEIVE_MAX = 0
  BY ReceiveConstants
<1> HIDE DEF p
<1>3. a \in Int /\ b \in Int /\ b = a + n /\ n \in Int
  BY <1>1, NumbersConstants
<1>4. s = a % SEQUENCES /\ Numbered(p + n) = b % SEQUENCES
  BY <1>1 DEF Numbered
<1> HIDE DEF a, b
<1>5. s % RECEIVE_MAX = a % RECEIVE_MAX /\ Numbered(p + n) % RECEIVE_MAX = b % RECEIVE_MAX
  BY <1>2, <1>3, <1>4, RingRemainder
<1>6. (s + n) % RECEIVE_MAX = ((s % RECEIVE_MAX) + n) % RECEIVE_MAX
  BY <1>1, <1>2, <1>3, RemainderOfSum
<1>7. ((a % RECEIVE_MAX) + n) % RECEIVE_MAX = (a + n) % RECEIVE_MAX
  BY <1>2, <1>3, RemainderOfSum
<1>8. QED
  BY <1>3, <1>5, <1>6, <1>7 DEF Slot, p

\* What was handed up and the next bytes of the stream are the stream so far.
LEMMA HandedOn ==
  ASSUME NEW a \in Nat, NEW n \in Nat
  PROVE  [i \in 1 .. a |-> i - 1] \o [i \in 1 .. n |-> (a + i) - 1]
            = [i \in 1 .. a + n |-> i - 1]
<1> DEFINE before == [i \in 1 .. a |-> i - 1]
           more == [i \in 1 .. n |-> (a + i) - 1]
           after == [i \in 1 .. a + n |-> i - 1]
<1>1. before \in Seq(Int) /\ Len(before) = a
  OBVIOUS
<1>2. more \in Seq(Int) /\ Len(more) = n
  OBVIOUS
<1>3. after \in Seq(Int) /\ Len(after) = a + n
  OBVIOUS
<1>4. /\ \A i \in 1 .. a : before[i] = i - 1
      /\ \A i \in 1 .. n : more[i] = (a + i) - 1
      /\ \A i \in 1 .. a + n : after[i] = i - 1
  OBVIOUS
<1> HIDE DEF before, more, after
<1>5. /\ before \o more \in Seq(Int)
      /\ Len(before \o more) = a + n
      /\ \A i \in 1 .. a + n : (before \o more)[i] = IF i <= a THEN before[i] ELSE more[i - a]
  BY <1>1, <1>2, ConcatProperties
<1>6. \A i \in 1 .. a + n : (before \o more)[i] = after[i]
  <2>1. TAKE i \in 1 .. a + n
  <2>2. CASE i <= a
    BY <1>4, <1>5, <2>2
  <2>3. CASE ~(i <= a)
    <3>1. i - a \in 1 .. n /\ more[i - a] = (a + (i - a)) - 1
      BY <1>4, <2>3
    <3>2. QED
      BY <1>4, <1>5, <2>3, <3>1
  <2>4. QED
    BY <2>2, <2>3
<1>7. before \o more = after
  BY <1>3, <1>5, <1>6, SeqEqual
<1>8. QED
  BY <1>7 DEF before, more, after

\* The app reads the next bytes of the stream, and nothing else moves.
LEMMA ReadIs ==
  ASSUME ReceiveInv, NEW n \in 1 .. RECEIVE_MAX, Read(n)
  PROVE  \E take \in Nat :
            /\ take <= pTaken - pStart
            /\ handedUp' = handedUp \o [i \in 1 .. take |-> (pStart + i) - 1]
            /\ Near(receiveStart') /\ pStart' = pStart + take
            /\ pNext' = pNext /\ pTaken' = pTaken
<1> DEFINE take == AtMost(n, Readable)
<1>1. ReadInv /\ remoteHasFinished \in BOOLEAN /\ KeptInv
  BY DEF ReceiveInv, CountersInv
<1>2. /\ Near(receiveStart) /\ pStart \in Nat /\ pNext \in Nat /\ pTaken \in Nat
      /\ Readable = pTaken - pStart
  BY <1>1, PlacesOf DEF Places
<1>3. pStart <= pTaken /\ pTaken <= pStart + RECEIVE_MAX /\ pTaken <= StreamLength
  BY <1>1 DEF ReadInv
<1>4. take \in Nat /\ take <= pTaken - pStart
  BY <1>2, <1>3 DEF AtMost
<1>5. /\ receiveStart' = (receiveStart + take) % SEQUENCES
      /\ handedUp' = handedUp \o [i \in 1 .. take |-> incoming[Slot(receiveStart + i - 1)]]
      /\ receiveNext' = receiveNext /\ remoteHasFinished' = remoteHasFinished
  BY DEF Read
<1> HIDE DEF take
<1>6. Near(receiveStart') /\ pStart' = pStart + take
  <2>1. Position(receiveStart) + take <= StreamLength + RECEIVE_MAX
    BY <1>2, <1>3, <1>4, ReceiveConstants DEF pStart
  <2>2. /\ Near((receiveStart + take) % SEQUENCES)
        /\ Position((receiveStart + take) % SEQUENCES) = Position(receiveStart) + take
    BY <1>2, <1>4, <2>1, AdvanceNear
  <2>3. pStart' = Position(receiveStart')
    BY DEF pStart, Position
  <2>4. QED
    BY <1>5, <2>2, <2>3 DEF pStart
<1>7. pNext' = pNext /\ pTaken' = pTaken
  BY <1>5 DEF pTaken, pNext, Finished, Position
<1>8. \A i \in 1 .. take : incoming[Slot(receiveStart + i - 1)] = (pStart + i) - 1
  <2>1. TAKE i \in 1 .. take
  <2> DEFINE k == i - 1
  <2>2. k \in Nat /\ k < take /\ receiveStart + i - 1 = receiveStart + k
    BY <1>4
  <2>3. (pStart + i) - 1 = pStart + k
    BY <1>2, <1>4
  <2> HIDE DEF k
  <2>4. receiveStart \in Sequence
    BY <1>1 DEF ReadInv
  <2>5. Slot(receiveStart + k) = Slot(Numbered(pStart + k))
    BY <2>2, <2>4, SlotOf DEF pStart
  <2>6. pStart + k \in pStart .. pTaken - 1
    BY <1>2, <1>4, <2>2
  <2>7. RingOK(pStart, pTaken, holes, incoming)
    BY <1>1, <1>2, RingIsOK
  <2>8. incoming[Slot(Numbered(pStart + k))] = pStart + k
    BY <2>6, <2>7 DEF RingOK
  <2>9. QED
    BY <2>2, <2>3, <2>5, <2>8
<1>9. [i \in 1 .. take |-> incoming[Slot(receiveStart + i - 1)]]
         = [i \in 1 .. take |-> (pStart + i) - 1]
  BY <1>8
<1>10. handedUp' = handedUp \o [i \in 1 .. take |-> (pStart + i) - 1]
  BY <1>5, <1>9
<1>11. QED
  BY <1>4, <1>6, <1>7, <1>10

LEMMA ReadKeeps ==
  ASSUME ReceiveInv, NEW n \in 1 .. RECEIVE_MAX, Read(n)
  PROVE  ReceiveInv'
<1>1. PICK take \in Nat :
         /\ take <= pTaken - pStart
         /\ handedUp' = handedUp \o [i \in 1 .. take |-> (pStart + i) - 1]
         /\ Near(receiveStart') /\ pStart' = pStart + take
         /\ pNext' = pNext /\ pTaken' = pTaken
  BY ReadIs
<1>2. UNCHANGED <<state, receiveNext, holes, incoming, remoteHasFinished, servicing, leaving>>
  BY DEF Read
<1>3. /\ pStart \in Nat /\ pNext \in Nat /\ pTaken \in Nat
      /\ pStart <= pTaken /\ pTaken <= pStart + RECEIVE_MAX /\ pTaken <= StreamLength
      /\ remoteHasFinished => pTaken = StreamLength
      /\ handedUp = [i \in 1 .. pStart |-> i - 1] /\ receiveNext \in Sequence
  BY PlacesOf DEF ReceiveInv, ReadInv, Places
<1>4. pStart' \in Nat /\ pStart <= pStart' /\ pStart' <= pTaken /\ pTaken <= pStart' + RECEIVE_MAX
  BY <1>1, <1>3, ReceiveConstants
<1>5. handedUp' = [i \in 1 .. pStart' |-> i - 1]
  <2>1. [i \in 1 .. pStart |-> i - 1] \o [i \in 1 .. take |-> (pStart + i) - 1]
           = [i \in 1 .. pStart + take |-> i - 1]
    BY <1>3, HandedOn
  <2>2. QED
    BY <1>1, <1>3, <2>1
<1>6. ReadInv'
  <2>1. receiveStart' \in Sequence /\ receiveNext' \in Sequence
    BY <1>1, <1>2, <1>3 DEF Near
  <2>2. QED
    BY <1>1, <1>2, <1>3, <1>4, <1>5, <2>1 DEF ReadInv, Sequence
<1>7. HolesInv' /\ KeptInv'
  <2>1. remoteHasFinished \in BOOLEAN
    BY DEF ReceiveInv, CountersInv
  <2>2. HolesOK(pStart, pNext, holes) /\ RingOK(pStart, pTaken, holes, incoming)
    BY <1>3, <2>1, HolesAreOK, RingIsOK DEF ReceiveInv
  <2>3. HolesOK(pStart', pNext, holes) /\ RingOK(pStart', pTaken, holes, incoming)
    BY <1>3, <1>4, <2>2, RoomGiven
  <2>4. QED
    BY <1>1, <1>2, <1>3, <2>1, <2>3, HolesStay, RingStays
<1>8. SaidTypes' /\ SaidInv'
  <2>1. SaidTypes /\ SaidInv
    BY SaidIs DEF ReceiveInv
  <2>2. segmentsSinceAcknowledgement \in Nat /\ remoteHasFinished' \in BOOLEAN
    BY <1>2, OwedNow
  <2>3. ~remoteHasFinished' => acknowledged = pNext' \/ segmentsSinceAcknowledgement > 0
    BY <1>1, <1>2, OwedNow
  <2>4. ~remoteHasFinished' => offered <= pStart' + RECEIVE_MAX
    <3>1. SUFFICES ASSUME ~remoteHasFinished'
                   PROVE  offered <= pStart' + RECEIVE_MAX
      OBVIOUS
    <3>2. offered \in Nat /\ offered <= pStart + RECEIVE_MAX
      BY <1>2, <2>1, <3>1, OwedNow DEF SaidTypes
    <3>3. \A a, b, c \in Nat : a <= b + RECEIVE_MAX /\ b <= c => a <= c + RECEIVE_MAX
      BY ReceiveConstants
    <3>4. QED
      BY <1>3, <1>4, <3>2, <3>3
  <2>5. CASE ShouldAnnounceWindow(ReceiveWindow')
    <3>1. SendSegment(segmentsSinceAcknowledgement)
      BY <2>5 DEF Read
    <3>2. QED
      BY <1>6, <2>1, <2>2, <2>3, <2>4, <3>1, SendOK
  <2>6. CASE ~ShouldAnnounceWindow(ReceiveWindow')
    <3>1. SendNothing(segmentsSinceAcknowledgement)
      BY <2>6 DEF Read
    <3>2. QED
      BY <1>2, <2>1, <2>2, <2>3, <2>4, <2>6, <3>1, SilenceOK
  <2>7. QED
    BY <2>5, <2>6
<1>9. QED
  <2>1. CountersInv'
    BY <1>2, <1>8, SaidStays DEF ReceiveInv, CountersInv
  <2>2. QED
    BY <1>6, <1>7, <1>8, <2>1 DEF ReceiveInv
-----------------------------------------------------------------------------
(* processTcpSegment.                                                      *)

\* One segment of the stream, wherever it lies: nothing is handed up, what is
\* here grows, and the goodbye counts once all before it is here.
LEMMA ArriveIs ==
  ASSUME ReceiveInv, NEW p \in 0 .. StreamLength, NEW n \in Nat, NEW fin \in BOOLEAN,
         p + n <= StreamLength, fin => p + n = StreamLength,
         Arrive(Numbered(p), Numbered(p + n), fin)
  PROVE  /\ ReadInv' /\ HolesInv' /\ KeptInv' /\ remoteHasFinished' \in BOOLEAN
         /\ handedUp' = handedUp /\ pStart' = pStart /\ pNext <= pNext'
         /\ remoteHasFinished => UNCHANGED <<receiveNext, remoteHasFinished>>
         /\ Numbered(p) = Numbered(p + n) /\ ~remoteHasFinished' => pNext' = pNext
<1> DEFINE s == Numbered(p)
           e == Numbered(p + n)
           taken == takeSegmentData(s, e)
           finished == fin /\ Finishes(e, taken.next)
           next == taken.next
           left == taken.holes
           kept == taken.ring
<1>1. /\ receiveNext' = IF finished THEN (next + 1) % SEQUENCES ELSE next
      /\ holes' = left /\ incoming' = kept
      /\ remoteHasFinished' = (remoteHasFinished \/ finished)
      /\ receiveStart' = receiveStart /\ handedUp' = handedUp
  BY DEF Arrive
<1>2. /\ ReadInv /\ remoteHasFinished \in BOOLEAN /\ HolesInv /\ KeptInv
  BY DEF ReceiveInv, CountersInv
<1>3. /\ Near(receiveStart) /\ Near(receiveNext)
      /\ pStart \in Nat /\ pNext \in Nat /\ pTaken \in Nat /\ Finished \in {0, 1}
      /\ pNext = pTaken + Finished
  BY <1>2, PlacesOf DEF Places
<1>4. HolesOK(pStart, pNext, holes) /\ RingOK(pStart, pTaken, holes, incoming)
  BY <1>2, <1>3, HolesAreOK, RingIsOK
<1>5. /\ p \in Nat /\ p + n \in 0 .. StreamLength /\ p + n \in Nat
  BY ReceiveConstants
<1>6. /\ Near(s) /\ Near(e) /\ Position(s) = p /\ Position(e) = p + n
  BY <1>5, NumberedNear
<1>7. /\ Near(next) /\ pNext <= Position(next)
      /\ next = receiveNext
           \/ (/\ Position(next) <= pStart + RECEIVE_MAX
               /\ Position(next) <= StreamLength /\ ~remoteHasFinished)
      /\ HolesOK(pStart, Position(next), left)
      /\ RingOK(pStart, Position(next) - Finished, left, kept)
      /\ s = e \/ remoteHasFinished => next = receiveNext
  <2>1. Position(s) <= Position(e) /\ Position(e) <= StreamLength
    BY <1>5, <1>6
  <2> HIDE DEF s, e
  <2>2. QED
    BY <1>2, <1>4, <1>6, <2>1, FoldIs
<1>8. finished <=> fin /\ e = next
  BY DEF Finishes
<1> HIDE DEF s, e, taken, next, left, kept, finished
<1>9. Position(next) \in Nat /\ finished \in BOOLEAN
  BY <1>7, <1>8, NearIs
<1>10. pStart <= pTaken /\ pTaken <= pStart + RECEIVE_MAX /\ pTaken <= StreamLength
       /\ (remoteHasFinished => pTaken = StreamLength)
       /\ handedUp = [i \in 1 .. pStart |-> i - 1]
  BY <1>2 DEF ReadInv
<1>11. pStart' = pStart /\ pNext' = Position(receiveNext')
  BY <1>1 DEF pStart, pNext, Position
<1>12. pNext = Position(receiveNext) /\ (remoteHasFinished => Finished = 1)
       /\ (~remoteHasFinished => Finished = 0)
  BY DEF pNext, Finished
\* the goodbye is counted: everything is here, and nothing waits
<1>13. CASE finished
  <2>1. Position(next) = StreamLength
    BY <1>5, <1>6, <1>8, <1>13
  <2>2. ~remoteHasFinished
    <3>1. SUFFICES ASSUME remoteHasFinished
                   PROVE  FALSE
      OBVIOUS
    <3>2. next = receiveNext /\ pNext = StreamLength + 1
      BY <1>3, <1>7, <1>10, <1>12, <3>1
    <3>3. Position(next) = StreamLength + 1
      BY <1>12, <3>2
    <3>4. StreamLength \in Nat
      BY ReceiveConstants
    <3>5. QED
      BY <2>1, <3>3, <3>4
  <2>3. /\ Near((next + 1) % SEQUENCES)
        /\ Position((next + 1) % SEQUENCES) = StreamLength + 1
    <3>1. Position(next) + 1 <= StreamLength + RECEIVE_MAX
      BY <2>1, ReceiveConstants
    <3>2. QED
      BY <1>7, <2>1, <3>1, AdvanceNear
  <2>4. receiveNext' = (next + 1) % SEQUENCES /\ remoteHasFinished' = TRUE
    BY <1>1, <1>13
  <2>5. pNext' = StreamLength + 1 /\ Near(receiveNext')
    BY <1>11, <2>3, <2>4
  <2>6. Finished' = 1 /\ pTaken' = pNext' - Finished'
    BY <2>4 DEF Finished, pTaken
  <2>7. pTaken' = StreamLength
    BY <2>5, <2>6, ReceiveConstants
  <2>8. Finished = 0 /\ Position(next) - Finished = StreamLength
    BY <1>12, <2>1, <2>2, ReceiveConstants
  <2>9. StreamLength <= pStart + RECEIVE_MAX /\ pStart <= StreamLength
    <3>1. next = receiveNext => pTaken = StreamLength
      BY <1>3, <1>12, <2>1, <2>8
    <3>2. QED
      BY <1>3, <1>7, <1>10, <2>1, <3>1, ReceiveConstants
  <2>10. ReadInv'
    <3>1. receiveStart' \in Sequence /\ receiveNext' \in Sequence
      BY <1>1, <1>3, <2>5 DEF Near
    <3>2. handedUp' = [i \in 1 .. pStart' |-> i - 1]
      BY <1>1, <1>10, <1>11
    <3>3. pStart' <= pTaken' /\ pTaken' <= pStart' + RECEIVE_MAX /\ pTaken' <= StreamLength
      BY <1>11, <2>7, <2>9, ReceiveConstants
    <3>4. QED
      BY <2>7, <3>1, <3>2, <3>3 DEF ReadInv, Sequence
  <2>11. left = {}
    <3>1. SUFFICES ASSUME left # {}
                   PROVE  FALSE
      OBVIOUS
    <3>2. PICK r \in left : TRUE
      BY <3>1
    <3>3. /\ Position(r.start) \in Int /\ Position(r.end) \in Int
      BY <1>7, NumberOf, NumbersConstants DEF HolesOK, Sequence
    <3>4. /\ StreamLength < Position(r.start) /\ Position(r.start) < Position(r.end)
          /\ Position(r.end) <= StreamLength
      BY <1>7, <2>1 DEF HolesOK
    <3>5. QED
      BY <3>3, <3>4, ReceiveConstants
  <2>12. HolesInv'
    <3>1. HolesOK(pStart', pNext', {})
      BY FS_EmptySet, ReceiveConstants DEF HolesOK
    <3>2. QED
      BY <1>1, <2>11, <3>1, HolesStay
  <2>13. KeptInv'
    <3>1. RingOK(pStart', pTaken', holes', incoming')
      BY <1>1, <1>7, <1>11, <2>7, <2>8
    <3>2. pNext' \in Nat /\ remoteHasFinished' \in BOOLEAN
      BY <2>4, <2>5, ReceiveConstants
    <3>3. QED
      BY <3>1, <3>2, RingStays
  <2>14. pNext <= pNext'
    <3>1. pNext <= StreamLength + 1
      BY <1>3, <1>7, <1>9, <2>1, ReceiveConstants
    <3>2. QED
      BY <2>5, <3>1
  <2>15. QED
    BY <1>1, <1>11, <2>2, <2>4, <2>10, <2>12, <2>13, <2>14
\* only data, if that
<1>14. CASE ~finished
  <2>1. receiveNext' = next /\ remoteHasFinished' = remoteHasFinished
    BY <1>1, <1>2, <1>9, <1>14
  <2>2. pNext' = Position(next) /\ Finished' = Finished /\ pTaken' = pNext' - Finished'
    BY <1>11, <2>1 DEF Finished, pTaken
  <2>3. pTaken' = Position(next) - Finished
    BY <2>2
  <2>4. next = receiveNext => pNext' = pNext /\ pTaken' = pTaken
    BY <1>3, <1>12, <2>2, <2>3
  <2>5. next # receiveNext => Finished = 0 /\ pTaken' = Position(next)
    BY <1>7, <1>9, <1>12, <2>3
  <2>6. ReadInv'
    <3>1. receiveStart' \in Sequence /\ receiveNext' \in Sequence
      BY <1>1, <1>3, <1>7, <2>1 DEF Near
    <3>2. handedUp' = [i \in 1 .. pStart' |-> i - 1]
      BY <1>1, <1>10, <1>11
    <3>3. /\ pStart' <= pTaken' /\ pTaken' <= pStart' + RECEIVE_MAX /\ pTaken' <= StreamLength
          /\ remoteHasFinished' => pTaken' = StreamLength
      <4>1. CASE next = receiveNext
        BY <1>10, <1>11, <2>1, <2>4, <4>1
      <4>2. CASE next # receiveNext
        <5>1. /\ Position(next) <= pStart + RECEIVE_MAX
              /\ Position(next) <= StreamLength /\ ~remoteHasFinished
          BY <1>7, <4>2
        <5>2. pStart <= Position(next)
          BY <1>3, <1>7, <1>9, <1>10, <2>5, <4>2
        <5>3. QED
          BY <1>11, <2>1, <2>5, <4>2, <5>1, <5>2
      <4>3. QED
        BY <4>1, <4>2
    <3>4. QED
      BY <3>1, <3>2, <3>3 DEF ReadInv, Sequence
  <2>7. HolesInv'
    BY <1>1, <1>7, <1>11, <2>2, HolesStay
  <2>8. KeptInv'
    <3>1. pNext' \in Nat /\ remoteHasFinished' \in BOOLEAN
      BY <1>2, <1>9, <2>1, <2>2
    <3>2. QED
      BY <1>1, <1>7, <1>11, <2>3, <3>1, RingStays
  <2>9. pNext <= pNext' /\ (remoteHasFinished => receiveNext' = receiveNext)
    BY <1>7, <2>1, <2>2
  <2>10. s = e => pNext' = pNext
    BY <1>7, <2>4
  <2>11. QED
    BY <1>1, <1>2, <1>11, <2>1, <2>6, <2>7, <2>8, <2>9, <2>10 DEF s, e
<1>15. QED
  BY <1>9, <1>13, <1>14

LEMMA ArriveKeeps ==
  ASSUME ReceiveInv, servicing' = servicing, leaving' = leaving,
         state' \in {"OPEN", "CLOSING", "CLOSED", "FAILED"},
         NEW p \in 0 .. StreamLength, NEW n \in Nat, NEW fin \in BOOLEAN,
         p + n <= StreamLength, fin => p + n = StreamLength,
         Arrive(Numbered(p), Numbered(p + n), fin)
  PROVE  ReceiveInv'
<1> DEFINE s == Numbered(p)
           e == Numbered(p + n)
           owed == segmentsSinceAcknowledgement + (IF s = e THEN 0 ELSE 1)
<1>1. /\ ReadInv' /\ HolesInv' /\ KeptInv' /\ remoteHasFinished' \in BOOLEAN
      /\ pStart' = pStart /\ pNext <= pNext'
      /\ remoteHasFinished => UNCHANGED <<receiveNext, remoteHasFinished>>
      /\ s = e /\ ~remoteHasFinished' => pNext' = pNext
  BY ArriveIs
<1>2. SendSegment(owed) \/ SendNothing(owed)
  BY DEF Arrive
<1>3. remoteHasFinished \in BOOLEAN /\ segmentsSinceAcknowledgement \in Nat
      /\ SaidTypes /\ SaidInv
  BY SaidIs DEF ReceiveInv, SaidTypes
<1>4. owed \in Nat /\ (s # e => owed > 0) /\ (s = e => owed = segmentsSinceAcknowledgement)
  BY <1>3
<1> HIDE DEF s, e, owed
<1>5. ~remoteHasFinished' => ~remoteHasFinished
  BY <1>1, <1>3
<1>6. ~remoteHasFinished' => acknowledged = pNext' \/ owed > 0
  BY <1>1, <1>4, <1>5, OwedNow
<1>7. ~remoteHasFinished' => offered <= pStart' + RECEIVE_MAX
  BY <1>1, <1>5, OwedNow
<1>8. SaidTypes' /\ SaidInv'
  <2>1. CASE SendSegment(owed)
    BY <1>1, <1>3, <1>4, <1>6, <1>7, <2>1, SendOK
  <2>2. CASE SendNothing(owed)
    <3>1. FieldIsEnough /\ fails = 0 /\ ~remoteHasFinished'
             => ~ShouldAnnounceWindow(ReceiveWindow')
      <4>1. SUFFICES ASSUME FieldIsEnough, fails = 0, ~remoteHasFinished'
                     PROVE  ~ShouldAnnounceWindow(ReceiveWindow')
        OBVIOUS
      <4>2. ~ShouldAnnounceWindow(ReceiveWindow)
        BY <1>3, <1>5, <4>1 DEF SaidInv
      <4>3. /\ ReceiveWindow = (pStart + RECEIVE_MAX) - pTaken
            /\ pStart \in Nat /\ pTaken \in Nat /\ pNext = pTaken + Finished
        BY PlacesOf DEF ReceiveInv, Places
      <4>4. /\ ReceiveWindow' = (pStart' + RECEIVE_MAX) - pTaken'
            /\ pTaken' \in Nat /\ pNext' = pTaken' + Finished'
        BY <1>1, PlacesStay DEF Places
      <4>5. Finished = 0 /\ Finished' = 0
        BY <1>5, <4>1 DEF Finished
      <4>6. /\ ReceiveWindow \in Int /\ ReceiveWindow' \in Int
            /\ ReceiveWindow' <= ReceiveWindow
        <5>1. ReceiveWindow = (pStart + RECEIVE_MAX) - pNext
          BY <4>3, <4>5
        <5>2. ReceiveWindow' = (pStart + RECEIVE_MAX) - pNext' /\ pNext \in Nat /\ pNext' \in Nat
          <6>1. pTaken' = pNext'
            <7>1. \A a \in Nat : a + 0 = a
              OBVIOUS
            <7>2. pNext' = pTaken' + 0 /\ pTaken' \in Nat
              BY <4>4, <4>5
            <7>3. QED
              BY <7>1, <7>2
          <6>2. pNext = pTaken
            BY <4>3, <4>5
          <6>3. ReceiveWindow' = (pStart + RECEIVE_MAX) - pTaken'
            BY <1>1, <4>4
          <6>4. QED
            BY <4>3, <4>4, <6>1, <6>2, <6>3
        <5>3. \A a, b, c \in Nat : b <= c =>
                 /\ (a + RECEIVE_MAX) - b \in Int /\ (a + RECEIVE_MAX) - c \in Int
                 /\ (a + RECEIVE_MAX) - c <= (a + RECEIVE_MAX) - b
          BY ReceiveConstants
        <5>4. QED
          BY <1>1, <4>3, <5>1, <5>2, <5>3
      <4> DEFINE worth == advertisedWindow * UNIT + WorthSaying
      <4>7. worth \in Int
        BY <1>3, ReceiveConstants, Remainder DEF SaidTypes, WorthSaying, AtMost
      <4>8. ~(ReceiveWindow >= worth)
        BY <4>2 DEF ShouldAnnounceWindow
      <4> HIDE DEF worth
      <4>9. ~(ReceiveWindow' >= worth)
        BY <4>6, <4>7, <4>8
      <4>10. QED
        BY <4>9 DEF ShouldAnnounceWindow, worth
    <3>2. QED
      BY <1>3, <1>4, <1>6, <1>7, <2>2, <3>1, SilenceOK
  <2>3. QED
    BY <1>2, <2>1, <2>2
<1>9. servicing' \in BOOLEAN /\ leaving' \in BOOLEAN
  BY DEF ReceiveInv, CountersInv
<1>10. QED
  BY <1>1, <1>8, <1>9, SaidStays DEF ReceiveInv

LEMMA TakeSegmentIs ==
  ASSUME TakeSegment
  PROVE  \E p \in 0 .. StreamLength, n \in Nat, fin \in BOOLEAN :
            /\ p + n <= StreamLength /\ (fin => p + n = StreamLength)
            /\ Arrive(Numbered(p), Numbered(p + n), fin)
<1>1. 0 .. SEGMENT_MAX \subseteq Nat
  OBVIOUS
<1>2. QED
  BY <1>1 DEF TakeSegment

LEMMA TakeSegmentKeeps ==
  ASSUME ReceiveInv, TakeSegment
  PROVE  ReceiveInv'
<1>1. PICK p \in 0 .. StreamLength, n \in Nat, fin \in BOOLEAN :
         /\ p + n <= StreamLength /\ (fin => p + n = StreamLength)
         /\ Arrive(Numbered(p), Numbered(p + n), fin)
  BY TakeSegmentIs
<1>2. state \in {"OPEN", "CLOSING"}
  BY DEF TakeSegment
<1>3. servicing' = servicing /\ leaving' = leaving /\ state' \in {"CLOSED", state}
  BY <1>1 DEF Arrive
<1>4. QED
  BY <1>1, <1>2, <1>3, ArriveKeeps
-----------------------------------------------------------------------------
(* The answer to the hello.                                                *)

\* The whole ring is room, and the field says it but for part of a unit.
LEMMA InitRoom ==
  ASSUME ReceiveWindow = RECEIVE_MAX, WindowField * UNIT \in Nat,
         advertisedWindow = WindowField, FieldIsEnough
  PROVE  ~ShouldAnnounceWindow(ReceiveWindow)
<1>1. RECEIVE_MAX < WindowField * UNIT + WorthSaying
  BY ReceiveConstants, FieldIs DEF WindowField
<1>2. RECEIVE_MAX \in Int /\ WindowField * UNIT \in Int /\ WorthSaying \in Int
  BY ReceiveConstants, Remainder DEF WorthSaying, AtMost
<1> DEFINE told == WindowField * UNIT
           worth == WorthSaying
<1>3. told \in Int /\ worth \in Int /\ RECEIVE_MAX < told + worth
  BY <1>1, <1>2
<1> HIDE DEF told, worth
<1>4. ~(RECEIVE_MAX >= told + worth)
  BY <1>2, <1>3
<1>5. QED
  BY <1>4 DEF ShouldAnnounceWindow, told, worth

LEMMA InitKeeps ==
  ASSUME Init
  PROVE  ReceiveInv
<1>1. /\ receiveStart = Numbered(0) /\ receiveNext = Numbered(0) /\ holes = {}
      /\ incoming = [slot \in 0 .. RECEIVE_MAX - 1 |-> Empty] /\ remoteHasFinished = FALSE
      /\ state = "OPEN" /\ servicing = TRUE /\ leaving = FALSE /\ handedUp = << >>
      /\ segmentsSinceAcknowledgement = 0 /\ advertisedWindow = WindowField
      /\ acknowledged = 0
  BY DEF Init
<1>2. Near(Numbered(0)) /\ Position(Numbered(0)) = 0
  <2>1. 0 \in 0 .. StreamLength
    BY ReceiveConstants
  <2>2. QED
    BY <2>1, NumberedNear
<1>3. pStart = 0 /\ pNext = 0 /\ Finished = 0 /\ pTaken = 0
  BY <1>1, <1>2 DEF pStart, pNext, pTaken, Finished
<1>4. ReadInv
  <2>1. [i \in 1 .. 0 |-> i - 1] = << >>
    OBVIOUS
  <2>2. QED
    BY <1>1, <1>2, <1>3, <2>1, ReceiveConstants DEF ReadInv, Near
<1>5. HolesInv
  <2>1. HolesOK(pStart, pNext, {})
    BY FS_EmptySet, ReceiveConstants DEF HolesOK
  <2>2. QED
    BY <1>1, <2>1, HolesAreOK
<1>6. KeptInv
  <2>1. RingOK(pStart, pTaken, {}, incoming)
    BY <1>1, <1>3 DEF RingOK, Waiting
  <2>2. QED
    BY <1>1, <1>3, <2>1, RingIsOK
<1>7. ReceiveWindow = RECEIVE_MAX
  BY <1>3, <1>4, PlacesOf, ReceiveConstants DEF Places
<1>8. /\ WindowField \in 0 .. FIELD_MAX /\ WindowField * UNIT \in Nat
      /\ WindowField * UNIT <= RECEIVE_MAX
  BY <1>7, ReceiveConstants, FieldIs DEF WindowField
<1>9. AtMost(RECEIVE_MAX, FIELD_MAX) \in Nat /\ AtMost(RECEIVE_MAX, FIELD_MAX) <= RECEIVE_MAX
  BY ReceiveConstants DEF AtMost
<1>10. CASE offered = WindowField * UNIT /\ fails = 0
  <2>1. offered \in Nat /\ offered <= pStart + RECEIVE_MAX /\ fails \in 0 .. MaxFail
    BY <1>3, <1>8, <1>10, ReceiveConstants
  <2>2. acknowledged + advertisedWindow * UNIT <= offered
    BY <1>1, <1>8, <1>10
  <2>3. SaidInv
    <3>1. FieldIsEnough => ~ShouldAnnounceWindow(ReceiveWindow)
      BY <1>1, <1>7, <1>8, InitRoom
    <3>2. QED
      BY <1>1, <1>3, <2>1, <2>2, <3>1 DEF SaidInv
  <2>4. CountersInv
    BY <1>1, <1>8, <2>1 DEF CountersInv
  <2>5. QED
    BY <1>4, <1>5, <1>6, <2>3, <2>4 DEF ReceiveInv
<1>11. CASE MaxFail > 0 /\ offered = AtMost(RECEIVE_MAX, FIELD_MAX) /\ fails = 1
  <2>1. offered \in Nat /\ offered <= pStart + RECEIVE_MAX /\ fails \in 0 .. MaxFail /\ fails # 0
    BY <1>3, <1>9, <1>11, ReceiveConstants
  <2>2. SaidInv
    BY <1>1, <1>3, <2>1 DEF SaidInv
  <2>3. CountersInv
    BY <1>1, <1>8, <2>1 DEF CountersInv
  <2>4. QED
    BY <1>4, <1>5, <1>6, <2>2, <2>3 DEF ReceiveInv
<1>12. QED
  BY <1>10, <1>11 DEF Init
-----------------------------------------------------------------------------
LEMMA NextKeeps ==
  ASSUME ReceiveInv, [Next]_vars
  PROVE  ReceiveInv'
<1>1. CASE SilentStep
  BY <1>1, SilentStepsKeep
<1>2. CASE TakeSegment
  BY <1>2, TakeSegmentKeeps
<1>3. CASE SendData \/ SayGoodbye \/ EndService
  BY <1>3, SendingStepsKeep
<1>4. ASSUME NEW n \in 1 .. RECEIVE_MAX, Read(n)
      PROVE  ReceiveInv'
  BY <1>4, ReadKeeps
<1>5. QED
  BY <1>1, <1>2, <1>3, <1>4 DEF Next, SilentStep

(***************************************************************************)
(* The invariant holds of every state of every run.                        *)
(***************************************************************************)
THEOREM ReceiveAlwaysHolds == Spec => []ReceiveInv
<1>1. Init => ReceiveInv
  BY InitKeeps
<1>2. ReceiveInv /\ [Next]_vars => ReceiveInv'
  BY NextKeeps
<1>3. QED
  BY <1>1, <1>2, PTL DEF Spec

LEMMA InvImplied ==
  ASSUME ReceiveInv
  PROVE  /\ TypeOK /\ RunsLieApart /\ NothingOverwritten /\ AcknowledgedOrOwed
         /\ OfferedRoomExists /\ (FieldIsEnough => RoomIsToldTruly)
<1>1. CountersInv /\ ReadInv /\ HolesInv /\ KeptInv /\ SaidInv
  BY DEF ReceiveInv
<1>2. /\ pStart \in Nat /\ pNext \in Nat /\ pTaken \in Nat /\ Finished \in {0, 1}
      /\ pNext = pTaken + Finished /\ Readable = pTaken - pStart
      /\ ReceiveWindow = (pStart + RECEIVE_MAX) - pTaken
  BY <1>1, PlacesOf DEF Places
<1>3. TypeOK
  <2>1. Readable \in 0 .. RECEIVE_MAX
    BY <1>1, <1>2, ReceiveConstants DEF ReadInv
  <2>2. QED
    BY <1>1, <2>1 DEF TypeOK, CountersInv, ReadInv, HolesInv, KeptInv
<1>4. RunsLieApart /\ NothingOverwritten
  BY <1>1 DEF HolesInv, KeptInv
<1>5. AcknowledgedOrOwed
  BY <1>1 DEF AcknowledgedOrOwed, SaidInv, pNext
<1>6. OfferedRoomExists
  <2>1. SUFFICES ASSUME ~remoteHasFinished
                 PROVE  RoomUnannounced >= 0
    BY DEF OfferedRoomExists
  <2>2. offered \in Nat /\ offered <= pStart + RECEIVE_MAX
    BY <1>1, <2>1 DEF SaidInv, CountersInv
  <2>3. QED
    BY <1>2, <2>2, ReceiveConstants DEF RoomUnannounced, pStart
<1>7. FieldIsEnough => RoomIsToldTruly
  <2>1. SUFFICES ASSUME FieldIsEnough, fails = 0, ~remoteHasFinished
                 PROVE  RoomUnannounced < WorthSaying + (Position(receiveNext) - acknowledged)
    BY <1>6 DEF RoomIsToldTruly, RoomIsAnnounced
  <2>2. ~ShouldAnnounceWindow(ReceiveWindow)
    BY <1>1, <2>1 DEF SaidInv
  <2>3. acknowledged + advertisedWindow * UNIT <= offered
    BY <1>1, <2>1 DEF SaidInv
  <2> DEFINE told == advertisedWindow * UNIT
             worth == WorthSaying
             room == ReceiveWindow
  <2>4. told \in Nat /\ offered \in Nat /\ acknowledged \in Nat /\ worth \in Int
    BY <1>1, ReceiveConstants, Remainder DEF CountersInv, WorthSaying, AtMost
  <2>5. room \in Int /\ room = (pStart + RECEIVE_MAX) - pNext
    <3>1. Finished = 0
      BY <2>1 DEF Finished
    <3>2. QED
      BY <1>2, <3>1, ReceiveConstants
  <2>6. ~(room >= told + worth)
    BY <2>2 DEF ShouldAnnounceWindow
  <2>7. RoomUnannounced = (pStart + RECEIVE_MAX) - offered
    <3>1. RoomUnannounced = pStart + RECEIVE_MAX - offered
      BY DEF RoomUnannounced, pStart
    <3>2. QED
      BY <1>2, <2>4, <3>1, ReceiveConstants
  <2>8. acknowledged + told <= offered
    BY <2>3
  <2> HIDE DEF told, worth, room
  <2>9. (pStart + RECEIVE_MAX) - offered < worth + (pNext - acknowledged)
    BY <1>2, <2>4, <2>5, <2>6, <2>8, ReceiveConstants
  <2>10. QED
    BY <2>7, <2>9 DEF worth, pNext
<1>8. QED
  BY <1>3, <1>4, <1>5, <1>6, <1>7

(***************************************************************************)
(* The numbers stay sequence numbers, the ring holds what it can hold, and *)
(* what can be read is never more than the ring.                           *)
(***************************************************************************)
THEOREM ReceiveTypesHold == Spec => []TypeOK
<1>1. ReceiveInv => TypeOK
  BY InvImplied
<1>2. QED
  BY <1>1, ReceiveAlwaysHolds, PTL

(***************************************************************************)
(* addReceivedRange and absorbReceivedRange: the remembered runs lie       *)
(* beyond a gap and inside the ring, apart from each other, and there are  *)
(* never more than the list holds.                                         *)
(***************************************************************************)
THEOREM RunsAlwaysApart == Spec => []RunsLieApart
<1>1. ReceiveInv => RunsLieApart
  BY InvImplied
<1>2. QED
  BY <1>1, ReceiveAlwaysHolds, PTL

(***************************************************************************)
(* takeSegmentData: no piece, however late, repeated or far ahead, is      *)
(* written over a byte that is here.                                       *)
(***************************************************************************)
THEOREM NeverOverwritten == Spec => []NothingOverwritten
<1>1. ReceiveInv => NothingOverwritten
  BY InvImplied
<1>2. QED
  BY <1>1, ReceiveAlwaysHolds, PTL

(***************************************************************************)
(* Whatever was taken is acknowledged when a service call ends, or owed,   *)
(* also when the tunnel refused the segment that would have said it, or    *)
(* failed and the call broke off.                                          *)
(***************************************************************************)
THEOREM NothingGoesUnacknowledged == Spec => []AcknowledgedOrOwed
<1>1. ReceiveInv => AcknowledgedOrOwed
  BY InvImplied
<1>2. QED
  BY <1>1, ReceiveAlwaysHolds, PTL

(***************************************************************************)
(* The other end is told of no room that is not there, and, when the field *)
(* can say all the room in units finer than what is worth saying, of what  *)
(* there is, but for what is not worth saying and for the bytes still to   *)
(* be acknowledged, also after service calls that broke off.  A field too  *)
(* narrow for the ring cannot: then the room it leaves out is announced    *)
(* again and again, and stays unannounced.                                 *)
(***************************************************************************)
THEOREM RoomAlwaysToldTruly ==
  ASSUME FieldIsEnough
  PROVE  Spec => []RoomIsToldTruly
<1>1. ReceiveInv => RoomIsToldTruly
  BY InvImplied
<1>2. QED
  BY <1>1, ReceiveAlwaysHolds, PTL
-----------------------------------------------------------------------------
(* The refinement.                                                         *)

LEMMA FinishedIs ==
  ASSUME ReceiveInv
  PROVE  /\ isWgTcpFinished \in BOOLEAN
         /\ isWgTcpFinished <=> remoteHasFinished /\ pTaken = pStart
         /\ remoteHasFinished => pTaken = StreamLength
         /\ pStart \in Nat /\ pTaken \in Nat /\ pStart <= pTaken /\ pTaken <= StreamLength
         /\ handedUp = [i \in 1 .. pStart |-> i - 1] /\ Len(handedUp) = pStart
<1>1. /\ pStart \in Nat /\ pTaken \in Nat /\ Readable = pTaken - pStart
      /\ pStart <= pTaken /\ pTaken <= StreamLength
      /\ remoteHasFinished => pTaken = StreamLength
      /\ handedUp = [i \in 1 .. pStart |-> i - 1]
  BY PlacesOf DEF ReceiveInv, ReadInv, Places
<1>2. remoteHasFinished \in BOOLEAN
  BY DEF ReceiveInv, CountersInv
<1>3. isWgTcpFinished <=> remoteHasFinished /\ pTaken = pStart
  BY <1>1 DEF isWgTcpFinished
<1>4. Len(handedUp) = pStart
  BY <1>1
<1>5. QED
  BY <1>1, <1>2, <1>3, <1>4 DEF isWgTcpFinished

LEMMA InitHands == Init => Stream!Init
<1> SUFFICES ASSUME Init
             PROVE  Stream!Init
  OBVIOUS
<1>1. handedUp = << >> /\ remoteHasFinished = FALSE
  BY DEF Init
<1>2. isWgTcpFinished = FALSE
  BY <1>1 DEF isWgTcpFinished
<1>3. QED
  BY <1>1, <1>2 DEF Stream!Init

\* isWgTcpFinished as one of the values of the state the step leaves
LEMMA FinishedStays ==
  ASSUME ReceiveInv, ReceiveInv'
  PROVE  /\ isWgTcpFinished' \in BOOLEAN
         /\ isWgTcpFinished' <=> remoteHasFinished' /\ pTaken' = pStart'
         /\ remoteHasFinished' => pTaken' = StreamLength
         /\ Len(handedUp') = pStart'
<1>1. ReceiveInv => /\ isWgTcpFinished \in BOOLEAN
                    /\ isWgTcpFinished <=> remoteHasFinished /\ pTaken = pStart
                    /\ remoteHasFinished => pTaken = StreamLength
                    /\ Len(handedUp) = pStart
  BY FinishedIs
<1>2. (ReceiveInv => /\ isWgTcpFinished \in BOOLEAN
                     /\ isWgTcpFinished <=> remoteHasFinished /\ pTaken = pStart
                     /\ remoteHasFinished => pTaken = StreamLength
                     /\ Len(handedUp) = pStart)'
  BY FinishedIs, PTL
<1>3. QED
  BY <1>2

\* A step of the receiver hands up the next bytes, tells that it is the end, or
\* is nothing to the reader.
LEMMA StepHands ==
  ASSUME ReceiveInv, ReceiveInv', [Next]_vars
  PROVE  [Stream!Next]_<<handedUp, isWgTcpFinished>>
<1>1. /\ isWgTcpFinished \in BOOLEAN
      /\ isWgTcpFinished <=> remoteHasFinished /\ pTaken = pStart
      /\ remoteHasFinished => pTaken = StreamLength
      /\ pStart \in Nat /\ pTaken \in Nat /\ pStart <= pTaken /\ pTaken <= StreamLength
      /\ Len(handedUp) = pStart
  BY FinishedIs
<1>2. /\ isWgTcpFinished' \in BOOLEAN
      /\ isWgTcpFinished' <=> remoteHasFinished' /\ pTaken' = pStart'
      /\ remoteHasFinished' => pTaken' = StreamLength
      /\ Len(handedUp') = pStart'
  BY FinishedStays
\* the app reads
<1>3. ASSUME NEW n \in 1 .. RECEIVE_MAX, Read(n)
      PROVE  [Stream!Next]_<<handedUp, isWgTcpFinished>>
  <2>1. PICK take \in Nat :
           /\ take <= pTaken - pStart
           /\ handedUp' = handedUp \o [i \in 1 .. take |-> (pStart + i) - 1]
           /\ pStart' = pStart + take /\ pTaken' = pTaken
    BY <1>3, ReadIs
  <2>2. remoteHasFinished' = remoteHasFinished
    BY <1>3 DEF Read
  <2>3. CASE take = 0
    <3>1. [i \in 1 .. take |-> (pStart + i) - 1] = << >>
      BY <2>3
    <3>2. handedUp \in Seq(Int)
      BY <1>1, FinishedIs
    <3>3. handedUp' = handedUp
      BY <2>1, <3>1, <3>2, ConcatEmptySeq
    <3>4. pStart' = pStart
      BY <1>1, <2>1, <2>3
    <3>5. isWgTcpFinished' = isWgTcpFinished
      BY <1>1, <1>2, <2>1, <2>2, <3>4
    <3>6. QED
      BY <3>3, <3>5
  <2>4. CASE take # 0
    <3>1. take \in 1 .. StreamLength - Len(handedUp)
      BY <1>1, <2>1, <2>4, ReceiveConstants
    <3>2. \A i \in 1 .. take : (pStart + i) - 1 = Len(handedUp) + i - 1
      BY <1>1
    <3>3. handedUp' = handedUp \o [i \in 1 .. take |-> Len(handedUp) + i - 1]
      BY <2>1, <3>2
    <3>4. ~isWgTcpFinished
      BY <1>1, <2>1, <2>4
    <3>5. isWgTcpFinished' \in {FALSE, Len(handedUp') = StreamLength}
      <4>1. CASE isWgTcpFinished'
        <5>1. Len(handedUp') = StreamLength
          BY <1>2, <4>1
        <5>2. QED
          BY <1>2, <4>1, <5>1
      <4>2. CASE ~isWgTcpFinished'
        BY <1>2, <4>2
      <4>3. QED
        BY <4>1, <4>2
    <3>6. Stream!Hand
      BY <3>1, <3>3, <3>4, <3>5 DEF Stream!Hand
    <3>7. QED
      BY <3>6 DEF Stream!Next
  <2>5. QED
    BY <2>3, <2>4
\* a segment comes: the last one may leave nothing to read
<1>4. CASE TakeSegment
  <2>1. PICK p \in 0 .. StreamLength, n \in Nat, fin \in BOOLEAN :
           /\ p + n <= StreamLength /\ (fin => p + n = StreamLength)
           /\ Arrive(Numbered(p), Numbered(p + n), fin)
    BY <1>4, TakeSegmentIs
  <2>2. /\ handedUp' = handedUp /\ pStart' = pStart
        /\ remoteHasFinished => UNCHANGED <<receiveNext, remoteHasFinished>>
    BY <2>1, ArriveIs
  <2>3. CASE isWgTcpFinished' = isWgTcpFinished
    BY <2>2, <2>3
  <2>4. CASE isWgTcpFinished' # isWgTcpFinished
    <3>1. ~remoteHasFinished
      <4>1. SUFFICES ASSUME remoteHasFinished
                     PROVE  FALSE
        OBVIOUS
      <4>2. pTaken' = pTaken /\ remoteHasFinished' = remoteHasFinished
        BY <2>2, <4>1 DEF pTaken, pNext, Finished, Position
      <4>3. isWgTcpFinished' <=> isWgTcpFinished
        BY <1>1, <1>2, <2>2, <4>2
      <4>4. QED
        BY <1>1, <1>2, <2>4, <4>3
    <3>2. ~isWgTcpFinished
      BY <1>1, <3>1
    <3>3. isWgTcpFinished'
      BY <1>1, <1>2, <2>4, <3>2
    <3>4. Len(handedUp) = StreamLength
      BY <1>1, <1>2, <2>2, <3>3
    <3>5. isWgTcpFinished' = TRUE
      BY <1>2, <3>3
    <3>6. Stream!End
      BY <2>2, <3>2, <3>4, <3>5 DEF Stream!End
    <3>7. QED
      BY <3>6 DEF Stream!Next
  <2>5. QED
    BY <2>3, <2>4
\* the rest is nothing to the reader
<1>5. CASE SilentStep \/ EndService \/ SendData \/ SayGoodbye
  <2>1. UNCHANGED ring /\ handedUp' = handedUp
    BY <1>5, SilentStepIs DEF EndService, SendData, SayGoodbye
  <2>2. isWgTcpFinished' = isWgTcpFinished
    BY <2>1 DEF ring, isWgTcpFinished, Readable, Apart
  <2>3. QED
    BY <2>1, <2>2
<1>6. QED
  BY <1>3, <1>4, <1>5 DEF Next, SilentStep

(***************************************************************************)
(* The receiver implements the reader's promise, wg-net.h's: every byte    *)
(* once and in order, and the end told after the last of them and never    *)
(* before, for every ring, every cut, order, loss and repeat of the        *)
(* segments, and every place at which the sequence numbers wrap.           *)
(***************************************************************************)
THEOREM ReaderGetsTheStream == Spec => DeliversTheStream
<1>1. Init => Stream!Init
  BY InitHands
<1>2. ReceiveInv /\ ReceiveInv' /\ [Next]_vars => [Stream!Next]_<<handedUp, isWgTcpFinished>>
  BY StepHands
<1>3. QED
  BY <1>1, <1>2, ReceiveAlwaysHolds, PTL DEF Spec, DeliversTheStream, Stream!Spec
=============================================================================
