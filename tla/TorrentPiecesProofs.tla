------------------------ MODULE TorrentPiecesProofs ------------------------
(***************************************************************************)
(* For any number of pieces, blocks, peers and faults: a piece is counted  *)
(* once and only when it is right on disk, none is lost from reach, and    *)
(* what is owed has been asked for.                                        *)
(***************************************************************************)
EXTENDS TorrentPieces, FiniteSetTheorems, WellFoundedInduction, TLAPS

LEMMA Constants ==
  /\ IsFiniteSet(Pieces) /\ NoPiece \notin Pieces
  /\ PEER_ACTIVE_MAX \in Nat \ {0} /\ PIECE_WORK_MAX \in Nat \ {0}
  /\ IN_FLIGHT_MAX \in Nat \ {0} /\ SECOND_ASK_MAX \in Nat \ {0}
  /\ SECOND_ASK_MAX <= IN_FLIGHT_MAX
  /\ MISSES_BEFORE_TRUSTING \in Nat \ {0} /\ TRACKER_ROUNDS_MAX \in Nat
  /\ BlockCount \in [Pieces -> Nat \ {0}] /\ Holdings \subseteq SUBSET Pieces
BY PiecesAssumption
-----------------------------------------------------------------------------
(* The least and the greatest of a set of numbers, and the first few of a  *)
(* set of blocks.                                                          *)

LEMMA LeastNumber ==
  ASSUME NEW S \in SUBSET Nat, S # {}
  PROVE  \E x \in S : \A y \in S : x <= y
<1> DEFINE R == {p \in Nat \X Nat : p[1] < p[2]}
<1>1. IsWellFoundedOn(R, Nat)
  BY NatLessThanWellFounded DEF OpToRel
<1>2. PICK x \in S : \A y \in S : ~(<<y, x>> \in R)
  <2> HIDE DEF R
  <2> QED BY <1>1, WFMin
<1>3. ASSUME NEW y \in S, y < x PROVE FALSE
  <2>1. <<y, x>> \in Nat \X Nat /\ <<y, x>>[1] = y /\ <<y, x>>[2] = x
    BY <1>2
  <2>2. QED
    BY <1>2, <1>3, <2>1
<1>4. QED
  BY <1>3

LEMMA MinIsIn ==
  ASSUME NEW S \in SUBSET Nat, S # {}
  PROVE  Min(S) \in S
BY LeastNumber DEF Min

LEMMA GreatestBelow ==
  ASSUME NEW n \in Nat, NEW S \in SUBSET (0 .. n), S # {}
  PROVE  \E x \in S : \A y \in S : y <= x
<1> DEFINE T == {k \in Nat : \E x \in S : k = n - x}
<1>1. T \in SUBSET Nat /\ T # {}
  <2>1. PICK x \in S : TRUE
    OBVIOUS
  <2>2. n - x \in T
    BY <2>1
  <2>3. QED
    BY <2>2
<1>2. PICK k \in T : \A y \in T : k <= y
  <2> HIDE DEF T
  <2> QED BY <1>1, LeastNumber
<1>3. PICK x \in S : k = n - x
  BY <1>2
<1>4. ASSUME NEW y \in S PROVE y <= x
  <2>1. n - y \in T
    OBVIOUS
  <2>2. n - x <= n - y
    BY <1>2, <1>3, <2>1
  <2>3. QED
    BY <2>2
<1>5. QED
  BY <1>4

\* A finite set of numbers has a greatest one: the least count of a set that
\* had none would not be the least.
LEMMA FiniteHasGreatest ==
  ASSUME NEW S \in SUBSET Nat, IsFiniteSet(S), S # {}
  PROVE  \E x \in S : \A y \in S : y <= x
<1> DEFINE Greatest(T) == \E x \in T : \A y \in T : y <= x
           Bad == {n \in Nat : \E T \in SUBSET Nat :
                     IsFiniteSet(T) /\ T # {} /\ Cardinality(T) = n /\ ~Greatest(T)}
<1>1. SUFFICES ASSUME Bad # {} PROVE FALSE
  <2>1. Cardinality(S) \in Nat
    BY FS_CardinalityType
  <2>2. QED
    BY <2>1
<1>2. PICK n \in Bad : \A m \in Bad : n <= m
  <2>1. Bad \in SUBSET Nat
    OBVIOUS
  <2> HIDE DEF Bad
  <2>2. QED
    BY <1>1, <2>1, LeastNumber
<1>3. PICK T \in SUBSET Nat :
         IsFiniteSet(T) /\ T # {} /\ Cardinality(T) = n /\ ~Greatest(T)
  BY <1>2
<1>4. PICK x \in T : TRUE
  BY <1>3
<1> DEFINE U == T \ {x}
<1>5. IsFiniteSet(U) /\ Cardinality(U) = n - 1 /\ Cardinality(U) \in Nat
  BY <1>3, <1>4, FS_RemoveElement, FS_CardinalityType
<1>6. U # {}
  <2> SUFFICES ASSUME U = {} PROVE Greatest(T)
    BY <1>3
  <2>1. \A y \in T : y = x
    OBVIOUS
  <2>2. QED
    BY <1>4, <2>1
<1>7. Cardinality(U) \notin Bad
  BY <1>2, <1>5
<1>8. Greatest(U)
  BY <1>5, <1>6, <1>7
<1>9. PICK m \in U : \A y \in U : y <= m
  BY <1>8
<1>10. Greatest(T)
  <2>1. CASE x <= m
    BY <1>9, <2>1
  <2>2. CASE ~(x <= m)
    <3>1. \A y \in T : y <= x
      BY <1>4, <1>9, <2>2
    <3>2. QED
      BY <1>4, <3>1
  <2>3. QED
    BY <2>1, <2>2
<1>11. QED
  BY <1>3, <1>10

\* Every piece's blocks are among the Blocks, and there are finitely many.
LEMMA BlocksAreBlocks ==
  /\ Max(Range(BlockCount)) \in Nat
  /\ IsFiniteSet(Blocks) /\ Blocks \subseteq Nat
  /\ \A piece \in Pieces :
        /\ BlocksOf(piece) \subseteq Blocks /\ IsFiniteSet(BlocksOf(piece))
        /\ Cardinality(BlocksOf(piece)) = BlockCount[piece]
        /\ BlockCount[piece] \in 0 .. Cardinality(Blocks)
<1> DEFINE counts == Range(BlockCount)
<1>1. counts \in SUBSET Nat /\ counts # {} /\ \A piece \in Pieces : BlockCount[piece] \in counts
  <2>1. Pieces # {}
    BY PiecesAssumption
  <2>2. QED
    BY <2>1, Constants DEF Range
<1>2. IsFiniteSet(counts)
  <2>1. BlockCount \in Surjection(Pieces, counts)
    BY Constants DEF Surjection, Range
  <2>2. QED
    BY <2>1, Constants, FS_Surjection
<1>3. PICK most \in counts : \A count \in counts : count <= most
  <2> HIDE DEF counts
  <2> QED BY <1>1, <1>2, FiniteHasGreatest
<1>4. Max(counts) \in counts /\ \A count \in counts : count <= Max(counts)
  BY <1>1, <1>3 DEF Max
<1>5. Max(counts) \in Nat
  BY <1>1, <1>4
<1>6. IsFiniteSet(Blocks) /\ Blocks \subseteq Nat
  BY <1>5, FS_Interval DEF Blocks
<1>7. ASSUME NEW piece \in Pieces
      PROVE  /\ BlocksOf(piece) \subseteq Blocks /\ IsFiniteSet(BlocksOf(piece))
             /\ Cardinality(BlocksOf(piece)) = BlockCount[piece]
             /\ BlockCount[piece] \in 0 .. Cardinality(Blocks)
  <2>1. BlockCount[piece] \in Nat \ {0} /\ BlockCount[piece] <= Max(counts)
    BY <1>1, <1>4, Constants
  <2>2. BlocksOf(piece) \subseteq Blocks
    BY <1>5, <2>1 DEF BlocksOf, Blocks
  <2>3. Cardinality(BlocksOf(piece)) = BlockCount[piece]
    BY <2>1, FS_Interval DEF BlocksOf
  <2>4. IsFiniteSet(BlocksOf(piece)) /\ Cardinality(BlocksOf(piece)) <= Cardinality(Blocks)
    BY <1>6, <2>2, FS_Subset
  <2>5. Cardinality(Blocks) \in Nat
    BY <1>6, FS_CardinalityType
  <2>6. QED
    BY <2>1, <2>2, <2>3, <2>4, <2>5
<1>8. QED
  BY <1>5, <1>6, <1>7

Places == Works \X Blocks

LEMMA PlacesFinite == IsFiniteSet(Works) /\ IsFiniteSet(Places)
<1>1. IsFiniteSet(Works)
  BY Constants, FS_Interval DEF Works
<1>2. QED
  BY <1>1, BlocksAreBlocks, FS_Product DEF Places

\* The last of a set of places, in the order they are asked for.
LEMMA LastPlace ==
  ASSUME NEW F \in SUBSET Places, F # {}
  PROVE  \E last \in F : \A place \in F : place = last \/ Before(place, last)
<1>0. \A place \in F : /\ place[1] \in 1 .. PIECE_WORK_MAX
                       /\ place[2] \in 1 .. Max(Range(BlockCount))
                       /\ place = <<place[1], place[2]>>
  BY DEF Places, Works, Blocks
<1> DEFINE rows == {i \in 0 .. PIECE_WORK_MAX : \E place \in F : place[1] = i}
<1>1. PICK row \in rows : \A other \in rows : other <= row
  <2>1. rows \in SUBSET (0 .. PIECE_WORK_MAX) /\ rows # {}
    BY <1>0, Constants
  <2> HIDE DEF rows
  <2>2. QED
    BY <2>1, Constants, GreatestBelow
<1> DEFINE most == Max(Range(BlockCount))
           columns == {j \in 0 .. most : \E place \in F : place[1] = row /\ place[2] = j}
<1>2. PICK column \in columns : \A other \in columns : other <= column
  <2>1. columns \in SUBSET (0 .. most) /\ columns # {}
    BY <1>0, <1>1, BlocksAreBlocks
  <2>2. most \in Nat
    BY BlocksAreBlocks
  <2> HIDE DEF columns, most
  <2>3. QED
    BY <2>1, <2>2, GreatestBelow
<1>3. PICK last \in F : last[1] = row /\ last[2] = column
  BY <1>2
<1>4. ASSUME NEW place \in F PROVE place = last \/ Before(place, last)
  <2>1. place[1] \in rows /\ place[1] <= row
    BY <1>0, <1>1, Constants
  <2>2. place[1] = row => place[2] <= column
    BY <1>0, <1>2, BlocksAreBlocks
  <2>3. /\ place[1] \in Nat /\ place[2] \in Nat /\ row \in Nat /\ column \in Nat
        /\ place = <<place[1], place[2]>> /\ last = <<row, column>>
    BY <1>0, <1>3, Constants, BlocksAreBlocks
  <2>4. QED
    BY <1>3, <2>1, <2>2, <2>3 DEF Before
<1>5. QED
  BY <1>4

\* The first so many of them are no more than so many.
LEMMA FirstOfAreFew ==
  ASSUME NEW S \in SUBSET Places, NEW n \in Nat
  PROVE  /\ FirstOf(S, n) \subseteq S /\ IsFiniteSet(FirstOf(S, n))
         /\ Cardinality(FirstOf(S, n)) \in 0 .. n
<1> DEFINE F == FirstOf(S, n)
<1>1. F \subseteq S /\ IsFiniteSet(F) /\ IsFiniteSet(S) /\ Cardinality(F) \in Nat
  <2>1. F \in SUBSET S
    BY DEF FirstOf
  <2>2. IsFiniteSet(S)
    BY PlacesFinite, FS_Subset
  <2>3. IsFiniteSet(F)
    BY <2>1, <2>2, FS_Subset
  <2>4. Cardinality(F) \in Nat
    BY <2>3, FS_CardinalityType
  <2>5. QED
    BY <2>1, <2>2, <2>3, <2>4
<1>2. CASE F = {}
  BY <1>1, <1>2, FS_EmptySet
<1>3. CASE F # {}
  <2>1. PICK last \in F : \A place \in F : place = last \/ Before(place, last)
    <3>1. F \in SUBSET Places
      BY <1>1
    <3> HIDE DEF F
    <3>2. QED
      BY <1>3, <3>1, LastPlace
  <2> DEFINE earlier == {a \in S : Before(a, last)}
  <2>2. Cardinality(earlier) < n
    BY <2>1 DEF FirstOf
  <2>3. earlier \in SUBSET S /\ IsFiniteSet(earlier) /\ Cardinality(earlier) \in Nat
    <3>1. earlier \in SUBSET S
      OBVIOUS
    <3>2. IsFiniteSet(earlier)
      BY <1>1, <3>1, FS_Subset
    <3>3. QED
      BY <3>1, <3>2, FS_CardinalityType
  <2>4. F \ {last} \in SUBSET earlier
    BY <1>1, <2>1
  <2>5. Cardinality(F \ {last}) <= Cardinality(earlier)
    BY <2>3, <2>4, FS_Subset
  <2>6. Cardinality(F \ {last}) = Cardinality(F) - 1
    BY <1>1, <2>1, FS_RemoveElement
  <2>7. Cardinality(F) <= n
    BY <1>1, <2>2, <2>3, <2>5, <2>6
  <2>8. QED
    BY <1>1, <2>7
<1>4. QED
  BY <1>2, <1>3
-----------------------------------------------------------------------------
(* The pieces being collected, slot by slot.                               *)

\* A slot is whole when nothing is left, and owes only what it still misses.
SlotOK(slot) ==
    /\ slot \in WorkType
    /\ slot.piece # NoPiece =>
          /\ slot.done \subseteq BlocksOf(slot.piece)
          /\ slot.left = Cardinality(BlocksOf(slot.piece) \ slot.done)
    /\ \A block \in Blocks : slot.owner[block] # Nobody =>
          slot.piece # NoPiece /\ block \in BlocksOf(slot.piece) \ slot.done

WorkInv == work \in [Works -> WorkType] /\ \A index \in Works : SlotOK(work[index])

LEMMA FreeSlot ==
  /\ SlotOK(FreeWork) /\ FreeWork.piece = NoPiece
  /\ \A block \in Blocks : FreeWork.owner[block] = Nobody
<1>1. Cardinality(Blocks) \in Nat
  BY BlocksAreBlocks, FS_CardinalityType
<1>2. [block \in Blocks |-> Nobody] \in [Blocks -> Links \cup {Nobody}]
  OBVIOUS
<1>3. FreeWork \in WorkType
  BY <1>1, <1>2 DEF FreeWork, WorkType
<1>4. FreeWork.piece = NoPiece /\ FreeWork.owner = [block \in Blocks |-> Nobody]
  BY DEF FreeWork
<1>5. QED
  BY <1>3, <1>4 DEF SlotOK

LEMMA NewSlot ==
  ASSUME NEW piece \in Pieces
  PROVE  /\ SlotOK(startWork(piece)) /\ startWork(piece).piece = piece
         /\ \A block \in Blocks : startWork(piece).owner[block] = Nobody
<1> DEFINE slot == startWork(piece)
<1>1. FreeWork \in WorkType
  BY FreeSlot DEF SlotOK
<1>2. FreeWork.done = {} /\ FreeWork.owner = [block \in Blocks |-> Nobody]
  BY DEF FreeWork
<1>3. BlockCount[piece] \in 0 .. Cardinality(Blocks)
      /\ Cardinality(BlocksOf(piece) \ {}) = BlockCount[piece]
  <2>1. BlocksOf(piece) \ {} = BlocksOf(piece)
    OBVIOUS
  <2>2. QED
    BY <2>1, BlocksAreBlocks
<1>4. slot \in WorkType
  BY <1>1, <1>3 DEF startWork, WorkType
<1>5. slot.piece = piece /\ slot.done = {} /\ slot.left = BlockCount[piece]
      /\ slot.owner = [block \in Blocks |-> Nobody]
  BY <1>1, <1>2 DEF startWork, WorkType
<1> HIDE DEF slot
<1>6. SlotOK(slot)
  BY <1>3, <1>4, <1>5 DEF SlotOK
<1>7. QED
  BY <1>5, <1>6 DEF slot

\* Who owes what may change as long as nothing that came is owed.
Reowned(slot, then) ==
    /\ then.piece = slot.piece /\ then.done = slot.done /\ then.left = slot.left
    /\ then.wrong = slot.wrong

LEMMA ReownedSlot ==
  ASSUME NEW slot, SlotOK(slot), NEW owner \in [Blocks -> Links \cup {Nobody}],
         \A block \in Blocks : owner[block] # Nobody =>
            \/ owner[block] = slot.owner[block]
            \/ slot.piece # NoPiece /\ block \in BlocksOf(slot.piece) \ slot.done
  PROVE  /\ SlotOK([slot EXCEPT !.owner = owner])
         /\ Reowned(slot, [slot EXCEPT !.owner = owner])
         /\ [slot EXCEPT !.owner = owner].owner = owner
<1> DEFINE then == [slot EXCEPT !.owner = owner]
<1>1. slot \in WorkType
  BY DEF SlotOK
<1>2. then \in WorkType /\ then.owner = owner
  BY <1>1 DEF WorkType
<1>3. Reowned(slot, then)
  BY <1>1 DEF WorkType, Reowned
<1> HIDE DEF then
<1>4. \A block \in Blocks : then.owner[block] # Nobody =>
         then.piece # NoPiece /\ block \in BlocksOf(then.piece) \ then.done
  BY <1>2, <1>3 DEF SlotOK, Reowned
<1>5. SlotOK(then)
  BY <1>2, <1>3, <1>4 DEF SlotOK, Reowned
<1>6. QED
  BY <1>2, <1>3, <1>5 DEF then

LEMMA FilledSlot ==
  ASSUME NEW slot, SlotOK(slot), slot.piece # NoPiece, NEW block \in BlocksOf(slot.piece),
         NEW spoilt \in SUBSET Blocks
  PROVE  LET then == takeBlock(slot, block, spoilt)
         IN  /\ SlotOK(then) /\ then.piece = slot.piece
             /\ \A other \in Blocks : then.owner[other] =
                   IF other = block /\ block \notin slot.done THEN Nobody ELSE slot.owner[other]
<1> DEFINE then == takeBlock(slot, block, spoilt)
<1>1. slot \in WorkType /\ slot.piece \in Pieces /\ block \in Blocks
  BY BlocksAreBlocks DEF SlotOK, WorkType
<1>2. CASE block \in slot.done
  BY <1>2 DEF takeBlock
<1>3. CASE block \notin slot.done
  <2> DEFINE missing == BlocksOf(slot.piece) \ slot.done
  <2>1. then = [slot EXCEPT !.done = @ \cup {block}, !.left = @ - 1,
                            !.wrong = (@ \ {block}) \cup spoilt,
                            !.owner = [@ EXCEPT ![block] = Nobody]]
    BY <1>3 DEF takeBlock
  <2>2. /\ then.piece = slot.piece /\ then.done = slot.done \cup {block}
        /\ then.left = slot.left - 1 /\ then.owner = [slot.owner EXCEPT ![block] = Nobody]
    BY <1>1, <2>1 DEF WorkType
  <2>3. IsFiniteSet(missing) /\ block \in missing /\ slot.left = Cardinality(missing)
    <3>1. IsFiniteSet(BlocksOf(slot.piece))
      BY <1>1, BlocksAreBlocks
    <3>2. IsFiniteSet(missing)
      BY <3>1, FS_Difference
    <3>3. QED
      BY <1>3, <3>2 DEF SlotOK
  <2>4. BlocksOf(slot.piece) \ then.done = missing \ {block}
    BY <2>2
  <2>5. then.left = Cardinality(BlocksOf(then.piece) \ then.done)
    BY <2>2, <2>3, <2>4, FS_RemoveElement
  <2>6. then.left \in 0 .. Cardinality(Blocks)
    <3>1. then.left \in Nat
      <4>1. IsFiniteSet(missing \ {block})
        BY <2>3, FS_RemoveElement
      <4>2. QED
        BY <2>2, <2>4, <2>5, <4>1, FS_CardinalityType
    <3>2. slot.left \in 0 .. Cardinality(Blocks) /\ Cardinality(Blocks) \in Nat
      BY <1>1, BlocksAreBlocks, FS_CardinalityType DEF WorkType
    <3>3. QED
      BY <2>2, <3>1, <3>2
  <2>7. then \in WorkType
    <3>1. slot.done \cup {block} \in SUBSET Blocks
      BY <1>1 DEF WorkType
    <3>2. (slot.wrong \ {block}) \cup spoilt \in SUBSET Blocks
      BY <1>1 DEF WorkType
    <3>3. [slot.owner EXCEPT ![block] = Nobody] \in [Blocks -> Links \cup {Nobody}]
      BY <1>1 DEF WorkType
    <3>4. slot.left - 1 \in 0 .. Cardinality(Blocks)
      BY <2>2, <2>6
    <3>5. QED
      BY <1>1, <2>1, <3>1, <3>2, <3>3, <3>4 DEF WorkType
  <2>8. \A other \in Blocks : then.owner[other] =
           IF other = block THEN Nobody ELSE slot.owner[other]
    BY <1>1, <2>2 DEF WorkType
  <2> HIDE DEF then
  <2>9. \A other \in Blocks : then.owner[other] # Nobody =>
           then.piece # NoPiece /\ other \in BlocksOf(then.piece) \ then.done
    BY <2>2, <2>8 DEF SlotOK
  <2>10. then.done \subseteq BlocksOf(then.piece)
    BY <2>2 DEF SlotOK
  <2>11. SlotOK(then)
    BY <2>5, <2>7, <2>9, <2>10 DEF SlotOK
  <2>12. QED
    BY <1>3, <2>2, <2>8, <2>11 DEF then
<1>4. QED
  BY <1>2, <1>3
-----------------------------------------------------------------------------
(* Where the engine is.                                                    *)

Statuses == {"WAITING", "ASKING", "DOWNLOADING", "PAUSED", "FINISHED", "FAILED"}

EngineTyped ==
    /\ status \in Statuses /\ active \in BOOLEAN
    /\ turn \in {"idle", "fill", "filled", "ask", "hear", "write"}
    /\ at \in 1 .. PEER_ACTIVE_MAX \/ at \in 1 .. PIECE_WORK_MAX + 1
    /\ trackerRounds \in 0 .. TRACKER_ROUNDS_MAX + 1

\* A slice runs only for the torrent whose turn it is, and what it stands at
\* is a link or a slot.
InASlice == turn # "idle" => active /\ status \in {"DOWNLOADING", "FAILED"}
AtInRange ==
    /\ turn \in {"ask", "hear"} => at \in Links
    /\ turn = "fill" => at \in Works

\* A torrent that still goes on has not used up its rounds of the trackers.
RoundsLeft ==
    status \in {"WAITING", "ASKING", "DOWNLOADING"} \/ turn # "idle"
        => trackerRounds <= TRACKER_ROUNDS_MAX

ControlInv == EngineTyped /\ InASlice /\ AtInRange /\ RoundsLeft

LEMMA LeastOf ==
  /\ \A S \in SUBSET Links : S # {} => Min(S) \in S
  /\ \A S \in SUBSET Works : S # {} => Min(S) \in S
<1>1. Links \in SUBSET Nat /\ Works \in SUBSET Nat
  BY Constants DEF Links, Works
<1>2. QED
  BY <1>1, MinIsIn

LEMMA NextTurn ==
  ASSUME NEW from, AskNext(from, links')
  PROVE  \/ turn' = "write" /\ at' = 1
         \/ turn' = "ask" /\ at' \in Links
<1> DEFINE later == {link \in Links : link >= from /\ links'[link].state # "DEAD"}
<1>1. \/ later = {} /\ turn' = "write" /\ at' = 1
      \/ later # {} /\ turn' = "ask" /\ at' = Min(later)
  BY DEF AskNext, GoTo
<1>2. later # {} => Min(later) \in Links
  BY LeastOf
<1> HIDE DEF later
<1>3. QED
  BY <1>1, <1>2

LEMMA ControlInit == Init => ControlInv
<1> SUFFICES ASSUME Init PROVE ControlInv
  OBVIOUS
<1>1. /\ status = "WAITING" /\ active \in BOOLEAN /\ turn = "idle" /\ at = 1
      /\ trackerRounds = 0
  BY DEF Init
<1>2. QED
  BY <1>1, Constants DEF ControlInv, EngineTyped, InASlice, AtInRange, RoundsLeft, Statuses

LEMMA ControlNext == ControlInv /\ [Next]_vars => ControlInv'
<1> SUFFICES ASSUME ControlInv, [Next]_vars PROVE ControlInv'
  OBVIOUS
<1> USE Constants DEF ControlInv, EngineTyped, InASlice, AtInRange, RoundsLeft, Statuses,
        Links, Works
<1>1. CASE UNCHANGED vars
  BY <1>1 DEF vars, engine
<1>2. CASE TurnOver
  BY <1>2 DEF TurnOver
<1>3. CASE StartAsking
  <2>1. /\ turn = "idle" /\ UNCHANGED <<turn, at>> /\ status = "WAITING"
        /\ active' \in BOOLEAN
    BY <1>3 DEF StartAsking
  <2>2. \/ /\ status' \in {"ASKING", "FAILED"}
           /\ trackerRounds' = trackerRounds
        \/ /\ trackerRounds' = trackerRounds + 1
           /\ status' = IF trackerRounds + 1 > TRACKER_ROUNDS_MAX THEN "FAILED" ELSE "WAITING"
    BY <1>3 DEF StartAsking, waitAndAskAgain
  <2>3. QED
    BY <2>1, <2>2
<1>4. CASE serviceAsking
  BY <1>4 DEF serviceAsking, waitAndAskAgain
<1>5. CASE StartSlice
  BY <1>5 DEF StartSlice, GoTo
<1>6. ASSUME NEW piece \in Pieces, TakeOn(piece) PROVE ControlInv'
  <2>1. Min(FreeFrom(at)) \in Works
    BY <1>6, LeastOf DEF TakeOn, FreeFrom
  <2>2. \/ turn' = "filled" /\ at' = 1
        \/ turn' = "fill" /\ at' \in Works
    BY <1>6, <2>1 DEF TakeOn, FoundOnDisk, NotOnDisk, GoTo
  <2>3. turn = "fill" /\ UNCHANGED <<status, active, trackerRounds>>
    BY <1>6 DEF TakeOn
  <2>4. QED
    BY <2>2, <2>3
<1>7. CASE finishTorrent
  BY <1>7 DEF finishTorrent, GoTo, Filled
<1>8. ASSUME NEW opened, fillPeerSlots(opened) PROVE ControlInv'
  <2>1. AskNext(1, links') /\ turn # "idle" /\ UNCHANGED <<status, active, trackerRounds>>
    BY <1>8 DEF fillPeerSlots, Filled
  <2>2. QED
    BY <2>1, NextTurn
<1>9. ASSUME NEW link \in Links, askForBlocks(link) PROVE ControlInv'
  <2>1. turn = "ask" /\ UNCHANGED <<status, active, trackerRounds>>
        /\ (GoTo("hear", link) \/ AskNext(link + 1, links'))
    BY <1>9 DEF askForBlocks
  <2>2. QED
    BY <2>1, NextTurn DEF GoTo
<1>10. ASSUME turn = "hear", NEW from, AskNext(from, links'),
              UNCHANGED <<status, active, trackerRounds>>
       PROVE ControlInv'
  BY <1>10, NextTurn
<1>11. ASSUME NEW link \in Links,
              \/ HearNothing(link) \/ HearGreeting(link) \/ HearUnchoke(link)
              \/ HearChoke(link) \/ \E holds \in Holdings : HearHoldings(link, holds)
       PROVE ControlInv'
  <2>1. turn = "hear" /\ AskNext(at + 1, links') /\ UNCHANGED <<status, active, trackerRounds>>
    BY <1>11 DEF HearNothing, HearGreeting, HearUnchoke, HearChoke, HearHoldings, Hearing, Heard
  <2>2. QED
    BY <1>10, <2>1
<1>12. ASSUME NEW link \in Links, HearDeath(link) PROVE ControlInv'
  <2>1. turn = "hear" /\ AskNext(link + 1, links') /\ UNCHANGED <<status, active, trackerRounds>>
    BY <1>12 DEF HearDeath, Hearing
  <2>2. QED
    BY <1>10, <2>1
<1>13. ASSUME NEW link \in Links,
              \/ HearLateBlock(link) \/ DropPeer(link)
              \/ \E index \in Works, block \in Blocks : HearBlock(link, index, block)
       PROVE ControlInv'
  <2>1. UNCHANGED <<status, active, turn, at, trackerRounds>>
    BY <1>13 DEF HearLateBlock, DropPeer, HearBlock, engine
  <2>2. QED
    BY <2>1
<1>14. ASSUME NEW index \in Works, ThrowAway(index) \/ WritePiece(index) \/ WriteFails(index)
       PROVE ControlInv'
  BY <1>14 DEF ThrowAway, WritePiece, WriteFails, GoTo
<1>15. CASE StillGoing
  BY <1>15 DEF StillGoing, GoTo
<1>16. CASE GoneQuiet
  BY <1>16 DEF GoneQuiet, waitAndAskAgain, GoTo
<1>17. CASE pauseTorrent
  BY <1>17 DEF pauseTorrent
<1>18. CASE resumeTorrent
  BY <1>18 DEF resumeTorrent
<1>19. CASE Crash
  <2>1. /\ status' = "WAITING" /\ active' \in BOOLEAN /\ turn' = "idle" /\ at' = 1
        /\ trackerRounds' = 0
    BY <1>19 DEF Crash, GoTo
  <2>2. QED
    BY <2>1
<1>20. QED
  BY <1>1, <1>2, <1>3, <1>4, <1>5, <1>6, <1>7, <1>8, <1>9, <1>11, <1>12, <1>13, <1>14,
     <1>15, <1>16, <1>17, <1>18, <1>19 DEF Next, Slice
-----------------------------------------------------------------------------
(* What the engine knows of its peers.                                     *)

LinksInv == links \in [Links -> LinkType]

LEMMA DeadLinkType == DeadLink \in LinkType
BY Constants DEF DeadLink, LinkType

\* What is wanted of a peer fits beside what it has been asked for already.
LEMMA WantedFits ==
  ASSUME NEW link \in Links, LinksInv
  PROVE  /\ Wanted(link) \subseteq Missing(link) /\ IsFiniteSet(Wanted(link))
         /\ links[link].requests + Cardinality(Wanted(link)) \in 0 .. IN_FLIGHT_MAX
         /\ Cardinality(Wanted(link)) \in Nat
         /\ Wanted(link) # {} => isReady(link) /\ ~links[link].choked
<1> DEFINE l == links[link]
<1>1. l.requests \in 0 .. IN_FLIGHT_MAX
  BY DEF LinksInv, LinkType
<1>2. Unasked(link) \in SUBSET Places /\ Unasked(link) \subseteq Missing(link)
      /\ AskedOfAnother(link) \in SUBSET Places /\ AskedOfAnother(link) \subseteq Missing(link)
  BY DEF Unasked, AskedOfAnother, Missing, Places
<1>3. \/ Wanted(link) = {}
      \/ /\ l.state = "READY" /\ ~l.choked
         /\ \/ Wanted(link) = FirstOf(Unasked(link), IN_FLIGHT_MAX - l.requests)
            \/ l.requests = 0 /\ Wanted(link) = FirstOf(AskedOfAnother(link), SECOND_ASK_MAX)
  BY DEF Wanted
<1>4. CASE Wanted(link) = {}
  BY <1>1, <1>4, FS_EmptySet, Constants
<1>5. CASE l.state = "READY" /\ ~l.choked
           /\ Wanted(link) = FirstOf(Unasked(link), IN_FLIGHT_MAX - l.requests)
  <2>1. IN_FLIGHT_MAX - l.requests \in Nat
    BY <1>1, Constants
  <2>2. /\ Wanted(link) \subseteq Unasked(link) /\ IsFiniteSet(Wanted(link))
        /\ Cardinality(Wanted(link)) \in 0 .. (IN_FLIGHT_MAX - l.requests)
    BY <1>2, <1>5, <2>1, FirstOfAreFew
  <2>3. l.requests + Cardinality(Wanted(link)) \in 0 .. IN_FLIGHT_MAX
    BY <1>1, <2>1, <2>2, Constants
  <2>4. QED
    BY <1>2, <1>5, <2>2, <2>3 DEF isReady
<1>6. CASE l.state = "READY" /\ ~l.choked /\ l.requests = 0
           /\ Wanted(link) = FirstOf(AskedOfAnother(link), SECOND_ASK_MAX)
  <2>1. /\ Wanted(link) \subseteq AskedOfAnother(link) /\ IsFiniteSet(Wanted(link))
        /\ Cardinality(Wanted(link)) \in 0 .. SECOND_ASK_MAX
    BY <1>2, <1>6, Constants, FirstOfAreFew
  <2>2. l.requests + Cardinality(Wanted(link)) \in 0 .. IN_FLIGHT_MAX
    BY <1>6, <2>1, Constants
  <2>3. QED
    BY <1>2, <1>6, <2>1, <2>2 DEF isReady
<1>7. QED
  BY <1>3, <1>4, <1>5, <1>6

LEMMA LinksInit == Init => LinksInv
BY DeadLinkType DEF Init, LinksInv

LEMMA LinksDrop ==
  ASSUME LinksInv, NEW gone, Drop(gone)
  PROVE  LinksInv'
BY DeadLinkType DEF LinksInv, Drop

LEMMA LinksNext == LinksInv /\ [Next]_vars => LinksInv'
<1> SUFFICES ASSUME LinksInv, [Next]_vars PROVE LinksInv'
  OBVIOUS
<1> USE DEF LinksInv
<1>1. CASE \/ UNCHANGED vars \/ TurnOver \/ StartAsking \/ serviceAsking \/ StartSlice
           \/ StillGoing \/ resumeTorrent
  BY <1>1 DEF vars, hands, TurnOver, StartAsking, serviceAsking, StartSlice, StillGoing,
              resumeTorrent
<1>2. ASSUME NEW piece \in Pieces, TakeOn(piece) PROVE LinksInv'
  BY <1>2 DEF TakeOn
<1>3. CASE finishTorrent \/ GoneQuiet
  BY <1>3, LinksDrop DEF finishTorrent, GoneQuiet
<1>4. ASSUME NEW opened, fillPeerSlots(opened) PROVE LinksInv'
  <2>1. [DeadLink EXCEPT !.state = "CONNECTING"] \in LinkType
    BY DeadLinkType DEF LinkType
  <2>2. QED
    BY <1>4, <2>1 DEF fillPeerSlots
<1>5. ASSUME NEW link \in Links, askForBlocks(link) PROVE LinksInv'
  <2>1. CASE links' = [links EXCEPT ![link].requests = @ + Cardinality(Wanted(link))]
    <3>1. links[link].requests + Cardinality(Wanted(link)) \in 0 .. IN_FLIGHT_MAX
      BY WantedFits
    <3>2. QED
      BY <2>1, <3>1 DEF LinkType
  <2>2. CASE links' = [links EXCEPT ![link] = DeadLink]
    BY <2>2, DeadLinkType
  <2>3. QED
    BY <1>5, <2>1, <2>2 DEF askForBlocks
<1>6. ASSUME NEW link \in Links, \/ HearNothing(link) \/ HearGreeting(link) \/ HearUnchoke(link)
                                 \/ HearChoke(link)
      PROVE LinksInv'
  <2>1. CASE HearNothing(link)
    BY <2>1 DEF HearNothing, Heard
  <2>2. CASE HearGreeting(link)
    BY <2>2 DEF HearGreeting, Heard, LinkType
  <2>3. CASE HearUnchoke(link)
    BY <2>3 DEF HearUnchoke, Heard, LinkType
  <2>4. CASE HearChoke(link)
    <3>1. 0 \in 0 .. IN_FLIGHT_MAX
      BY Constants
    <3>2. [links[link] EXCEPT !.choked = TRUE, !.requests = 0] \in LinkType
      BY <3>1 DEF LinkType
    <3>3. links' = [links EXCEPT ![link] = [links[link] EXCEPT !.choked = TRUE, !.requests = 0]]
      BY <2>4 DEF HearChoke, Heard
    <3>4. QED
      BY <3>2, <3>3
  <2>5. QED
    BY <1>6, <2>1, <2>2, <2>3, <2>4
<1>7. ASSUME NEW link \in Links, NEW holds \in Holdings, HearHoldings(link, holds) PROVE LinksInv'
  <2>1. holds \in SUBSET Pieces
    BY Constants
  <2>2. QED
    BY <1>7, <2>1 DEF HearHoldings, Heard, LinkType
<1>8. ASSUME NEW link \in Links, HearDeath(link) \/ DropPeer(link) PROVE LinksInv'
  BY <1>8, LinksDrop DEF HearDeath, DropPeer
<1>9. ASSUME NEW link \in Links,
             \/ HearLateBlock(link)
             \/ \E index \in Works, block \in Blocks : HearBlock(link, index, block)
      PROVE LinksInv'
  <2>1. CASE HearLateBlock(link)
    <3>1. links[link].requests \in 0 .. IN_FLIGHT_MAX /\ links[link].requests > 0
      <4>1. IsFiniteSet(Owed(link))
        <5>1. Owed(link) \in SUBSET Places
          BY DEF Owed, Places
        <5>2. QED
          BY <5>1, PlacesFinite, FS_Subset
      <4>2. Cardinality(Owed(link)) \in Nat
        BY <4>1, FS_CardinalityType
      <4>3. QED
        BY <2>1, <4>2 DEF HearLateBlock, LinkType
    <3>2. links[link].requests - 1 \in 0 .. IN_FLIGHT_MAX
      BY <3>1, Constants
    <3>3. links' = [links EXCEPT ![link].requests = @ - 1]
      BY <2>1 DEF HearLateBlock
    <3>4. QED
      BY <3>2, <3>3 DEF LinkType
  <2>2. CASE \E index \in Works, block \in Blocks : HearBlock(link, index, block)
    <3> DEFINE left == IF links[link].requests > 0 THEN links[link].requests - 1
                       ELSE links[link].requests
    <3>1. left \in 0 .. IN_FLIGHT_MAX
      BY Constants DEF LinkType
    <3>2. links' = [links EXCEPT ![link].requests = left]
      BY <2>2 DEF HearBlock
    <3> HIDE DEF left
    <3>3. QED
      BY <3>1, <3>2 DEF LinkType
  <2>3. QED
    BY <1>9, <2>1, <2>2
<1>10. ASSUME NEW index \in Works, ThrowAway(index) \/ WritePiece(index) \/ WriteFails(index)
       PROVE LinksInv'
  BY <1>10, LinksDrop DEF ThrowAway, WritePiece, WriteFails
<1>11. CASE pauseTorrent \/ Crash
  BY <1>11, DeadLinkType DEF pauseTorrent, Crash, hands
<1>12. QED
  BY <1>1, <1>2, <1>3, <1>4, <1>5, <1>6, <1>7, <1>8, <1>9, <1>10, <1>11 DEF Next, Slice
-----------------------------------------------------------------------------
(* Every piece is on offer, in hand in one slot, or counted.               *)

\* What handing back and asking do to the slots.
LEMMA ReleasedWork ==
  ASSUME WorkInv, NEW gone
  PROVE  LET then == Released(work, gone)
         IN  /\ then \in [Works -> WorkType]
             /\ \A index \in Works :
                  /\ SlotOK(then[index]) /\ Reowned(work[index], then[index])
                  /\ \A block \in Blocks : then[index].owner[block] =
                        IF work[index].owner[block] \in gone THEN Nobody
                        ELSE work[index].owner[block]
<1> DEFINE then == Released(work, gone)
           owner(index) == [block \in Blocks |->
                IF work[index].owner[block] \in gone THEN Nobody ELSE work[index].owner[block]]
<1>1. ASSUME NEW index \in Works
      PROVE  /\ then[index] = [work[index] EXCEPT !.owner = owner(index)]
             /\ SlotOK(then[index]) /\ Reowned(work[index], then[index])
             /\ then[index].owner = owner(index)
  <2>1. then[index] = [work[index] EXCEPT !.owner = owner(index)]
    BY DEF Released
  <2>2. SlotOK(work[index]) /\ work[index] \in WorkType
    BY DEF WorkInv
  <2>3. owner(index) \in [Blocks -> Links \cup {Nobody}]
    BY <2>2 DEF WorkType
  <2>4. \A block \in Blocks : owner(index)[block] # Nobody =>
           owner(index)[block] = work[index].owner[block]
    OBVIOUS
  <2> HIDE DEF owner, then
  <2>5. QED
    BY <2>1, <2>2, <2>3, <2>4, ReownedSlot
<1>2. \A index \in Works : then[index] \in WorkType
  BY <1>1 DEF SlotOK
<1>3. then \in [Works -> WorkType]
  <2>1. then = [index \in Works |-> then[index]]
    BY DEF Released
  <2> HIDE DEF then
  <2>2. QED
    BY <1>2, <2>1
<1>4. ASSUME NEW index \in Works, NEW block \in Blocks
      PROVE  then[index].owner[block] =
                IF work[index].owner[block] \in gone THEN Nobody ELSE work[index].owner[block]
  <2>1. owner(index)[block] =
                IF work[index].owner[block] \in gone THEN Nobody ELSE work[index].owner[block]
    OBVIOUS
  <2> HIDE DEF owner, then
  <2>2. QED
    BY <1>1, <2>1
<1> HIDE DEF then, owner
<1>5. QED
  BY <1>1, <1>3, <1>4 DEF then

LEMMA AskedForWork ==
  ASSUME WorkInv, LinksInv, NEW link \in Links, NEW asked \in SUBSET Missing(link)
  PROVE  LET then == AskedFor(asked, link)
         IN  /\ then \in [Works -> WorkType]
             /\ \A index \in Works :
                  /\ SlotOK(then[index]) /\ Reowned(work[index], then[index])
                  /\ \A block \in Blocks : then[index].owner[block] =
                        IF <<index, block>> \in asked /\ work[index].owner[block] = Nobody
                        THEN link ELSE work[index].owner[block]
<1> DEFINE then == AskedFor(asked, link)
           owner(index) == [block \in Blocks |->
                IF <<index, block>> \in asked /\ work[index].owner[block] = Nobody
                THEN link ELSE work[index].owner[block]]
<1>1. ASSUME NEW index \in Works
      PROVE  /\ then[index] = [work[index] EXCEPT !.owner = owner(index)]
             /\ SlotOK(then[index]) /\ Reowned(work[index], then[index])
             /\ then[index].owner = owner(index)
  <2>1. then[index] = [work[index] EXCEPT !.owner = owner(index)]
    BY DEF AskedFor
  <2>2. SlotOK(work[index]) /\ work[index] \in WorkType
    BY DEF WorkInv
  <2>3. owner(index) \in [Blocks -> Links \cup {Nobody}]
    BY <2>2 DEF WorkType
  <2>4. ASSUME NEW block \in Blocks, <<index, block>> \in asked
        PROVE  /\ work[index].piece # NoPiece
               /\ block \in BlocksOf(work[index].piece) \ work[index].done
    <3>1. links[link].holds \subseteq Pieces
      BY DEF LinksInv, LinkType
    <3>2. /\ work[index].piece \in links[link].holds
          /\ block \in BlocksOf(work[index].piece) \ work[index].done
      BY <2>4 DEF Missing
    <3>3. QED
      BY <3>1, <3>2, Constants
  <2>5. \A block \in Blocks : owner(index)[block] # Nobody =>
           \/ owner(index)[block] = work[index].owner[block]
           \/ /\ work[index].piece # NoPiece
              /\ block \in BlocksOf(work[index].piece) \ work[index].done
    BY <2>4
  <2> HIDE DEF owner, then
  <2>6. QED
    BY <2>1, <2>2, <2>3, <2>5, ReownedSlot
<1>2. \A index \in Works : then[index] \in WorkType
  BY <1>1 DEF SlotOK
<1>3. then \in [Works -> WorkType]
  <2>1. then = [index \in Works |-> then[index]]
    BY DEF AskedFor
  <2> HIDE DEF then
  <2>2. QED
    BY <1>2, <2>1
<1>4. ASSUME NEW index \in Works, NEW block \in Blocks
      PROVE  then[index].owner[block] =
                IF <<index, block>> \in asked /\ work[index].owner[block] = Nobody
                THEN link ELSE work[index].owner[block]
  <2>1. owner(index)[block] =
                IF <<index, block>> \in asked /\ work[index].owner[block] = Nobody
                THEN link ELSE work[index].owner[block]
    OBVIOUS
  <2> HIDE DEF owner, then
  <2>2. QED
    BY <1>1, <2>1
<1> HIDE DEF then, owner
<1>5. QED
  BY <1>1, <1>3, <1>4 DEF then
\* A torrent whose turn it is not has nothing in hand.
IdleHandsEmpty == ~active => InHand = {}

HandsInv ==
    /\ WorkInv /\ taken \subseteq Pieces /\ counted \subseteq Pieces
    /\ TakenIsDoneOrInHand /\ IdleHandsEmpty

LEMMA HandsInit == Init => HandsInv
<1> SUFFICES ASSUME Init PROVE HandsInv
  OBVIOUS
<1>1. work = [index \in Works |-> FreeWork] /\ taken = {} /\ counted = {}
  BY DEF Init
<1>2. WorkInv /\ \A index \in Works : work[index].piece = NoPiece
  BY <1>1, FreeSlot DEF WorkInv, SlotOK
<1>3. InHand = {}
  BY <1>2 DEF InHand
<1>4. QED
  BY <1>1, <1>2, <1>3 DEF HandsInv, TakenIsDoneOrInHand, IdleHandsEmpty

\* Nothing is taken on and nothing let go.
LEMMA HandsSame ==
  ASSUME HandsInv, work' \in [Works -> WorkType],
         \A index \in Works : SlotOK(work'[index]) /\ work'[index].piece = work[index].piece,
         UNCHANGED <<taken, counted>>, active' \/ ~active
  PROVE  HandsInv'
<1>1. WorkInv'
  BY DEF WorkInv, SlotOK, Works, WorkType
<1>2. InHand' = InHand
  BY DEF InHand, NoPiece, Works
<1>3. TakenIsDoneOrInHand'
  BY <1>2 DEF HandsInv, TakenIsDoneOrInHand, NoPiece, Works
<1>4. IdleHandsEmpty'
  BY <1>2 DEF HandsInv, IdleHandsEmpty
<1>5. QED
  BY <1>1, <1>3, <1>4 DEF HandsInv

LEMMA HandsUntouched ==
  ASSUME HandsInv, UNCHANGED <<work, taken, counted>>, active' \/ ~active
  PROVE  HandsInv'
BY HandsSame DEF HandsInv, WorkInv

\* Everything in hand is let go.
LEMMA HandsFreed ==
  ASSUME HandsInv, work' = [index \in Works |-> FreeWork],
         taken' = counted', counted' \subseteq counted
  PROVE  HandsInv'
<1>1. work' \in [Works -> WorkType]
      /\ \A index \in Works : SlotOK(work'[index]) /\ work'[index].piece = NoPiece
  BY FreeSlot DEF SlotOK
<1>2. WorkInv'
  BY <1>1 DEF WorkInv, SlotOK, Works, WorkType
<1>3. InHand' = {}
  BY <1>1 DEF InHand, NoPiece, Works
<1>4. TakenIsDoneOrInHand'
  BY <1>1, <1>3 DEF TakenIsDoneOrInHand, NoPiece, Works
<1>5. QED
  BY <1>2, <1>3, <1>4 DEF HandsInv, IdleHandsEmpty

LEMMA HandsDrop ==
  ASSUME HandsInv, NEW gone, Drop(gone), UNCHANGED <<active, taken, counted>>
  PROVE  HandsInv'
<1>1. work' = Released(work, gone)
  BY DEF Drop
<1>2. work' \in [Works -> WorkType] /\ \A index \in Works :
         SlotOK(work'[index]) /\ work'[index].piece = work[index].piece
  BY <1>1, ReleasedWork DEF HandsInv, Reowned
<1>3. QED
  BY <1>2, HandsSame

LEMMA HandsTakeOn ==
  ASSUME ControlInv, HandsInv, NEW piece \in Pieces, TakeOn(piece)
  PROVE  HandsInv'
<1>1. /\ turn = "fill" /\ piece \in Pieces \ taken /\ active /\ active' = active
      /\ taken' = taken \cup {piece}
  BY DEF TakeOn, Choosable, Served, Offered, ControlInv, InASlice
<1>2. piece \notin InHand /\ piece \notin counted /\ piece # NoPiece
  BY <1>1, Constants DEF HandsInv, TakenIsDoneOrInHand
<1>3. ASSUME FoundOnDisk(piece) PROVE HandsInv'
  <2>1. work' = work /\ counted' = counted \cup {piece}
    BY <1>3 DEF FoundOnDisk
  <2>2. InHand' = InHand
    BY <2>1 DEF InHand, NoPiece, Works
  <2>3. WorkInv'
    BY <2>1 DEF HandsInv, WorkInv, SlotOK, Works, WorkType
  <2>4. TakenIsDoneOrInHand'
    BY <1>1, <1>2, <2>1, <2>2 DEF HandsInv, TakenIsDoneOrInHand, NoPiece, Works
  <2>5. QED
    BY <1>1, <2>1, <2>3, <2>4 DEF HandsInv, IdleHandsEmpty
<1>4. ASSUME NotOnDisk(piece) PROVE HandsInv'
  <2>1. PICK index \in Works : /\ work[index].piece = NoPiece
                               /\ work' = [work EXCEPT ![index] = startWork(piece)]
    <3>1. Min(FreeFrom(at)) \in FreeFrom(at)
      BY LeastOf DEF TakeOn, FreeFrom
    <3>2. work' = [work EXCEPT ![Min(FreeFrom(at))] = startWork(piece)]
      BY <1>4 DEF NotOnDisk
    <3>3. QED
      BY <3>1, <3>2 DEF FreeFrom
  <2>2. counted' = counted
    BY <1>4 DEF NotOnDisk
  <2>3. work' \in [Works -> WorkType] /\ work'[index].piece = piece
        /\ \A other \in Works : SlotOK(work'[other]) /\ (other # index => work'[other] = work[other])
    BY <2>1, NewSlot DEF HandsInv, WorkInv, SlotOK
  <2>4. WorkInv'
    BY <2>3 DEF WorkInv, SlotOK, Works, WorkType
  <2>5. InHand' = InHand \cup {piece}
    <3>1. InHand' = {work'[other].piece : other \in Works} \ {NoPiece}
      BY DEF InHand, NoPiece, Works
    <3>2. \A p : p \in {work'[other].piece : other \in Works} \ {NoPiece} <=> p \in InHand \cup {piece}
      BY <1>2, <2>1, <2>3 DEF InHand
    <3>3. QED
      BY <3>1, <3>2
  <2>6. TakenIsDoneOrInHand'
    <3>1. taken' = counted' \cup InHand' /\ counted' \cap InHand' = {}
      BY <1>1, <1>2, <2>2, <2>5 DEF HandsInv, TakenIsDoneOrInHand
    <3>2. ASSUME NEW i \in Works, NEW j \in Works, work'[i].piece = work'[j].piece, i # j
          PROVE  work'[i].piece = NoPiece
      <4>1. \A other \in Works : other # index => work'[other].piece # piece
        BY <1>2, <2>3 DEF InHand
      <4>2. QED
        BY <2>3, <3>2, <4>1 DEF HandsInv, TakenIsDoneOrInHand
    <3>3. QED
      BY <3>1, <3>2 DEF TakenIsDoneOrInHand, NoPiece, Works
  <2>7. QED
    BY <1>1, <2>2, <2>4, <2>6 DEF HandsInv, IdleHandsEmpty
<1>5. QED
  BY <1>3, <1>4 DEF TakeOn

\* The slot that is written or asked for again holds a piece, and it is whole.
LEMMA FirstWhole ==
  ASSUME HandsInv, NEW index \in Works, Whole # {}, index = Min(Whole)
  PROVE  /\ work[index].piece # NoPiece /\ work[index].piece \in Pieces
         /\ work[index].left = 0 /\ work[index].piece \in InHand /\ work[index].piece \notin counted
<1>1. Min(Whole) \in Whole
  BY LeastOf DEF Whole
<1>2. work[index].piece # NoPiece /\ work[index].left = 0
  BY <1>1 DEF Whole
<1>3. work[index].piece \in Pieces
  BY <1>2 DEF HandsInv, WorkInv, WorkType
<1>4. work[index].piece \in InHand
  BY <1>2 DEF InHand
<1>5. QED
  BY <1>2, <1>3, <1>4 DEF HandsInv, TakenIsDoneOrInHand

LEMMA HandsWrite ==
  ASSUME ControlInv, HandsInv, NEW index \in Works, WritePiece(index)
  PROVE  HandsInv'
<1> DEFINE piece == work[index].piece
<1>1. /\ turn = "write" /\ active /\ active' = active /\ taken' = taken
      /\ counted' = counted \cup {piece}
      /\ work' = [work EXCEPT ![index] = FreeWork] /\ Whole # {} /\ index = Min(Whole)
  BY DEF WritePiece, ControlInv, InASlice
<1>2. piece # NoPiece /\ piece \in Pieces /\ piece \in InHand /\ piece \notin counted
  BY <1>1, FirstWhole
<1>3. /\ work' \in [Works -> WorkType] /\ work'[index].piece = NoPiece
      /\ \A other \in Works : SlotOK(work'[other]) /\ (other # index => work'[other] = work[other])
  BY <1>1, FreeSlot DEF HandsInv, WorkInv, SlotOK
<1>4. WorkInv'
  BY <1>3 DEF WorkInv, SlotOK, Works, WorkType
<1>5. \A other \in Works : other # index => work[other].piece # piece
  BY <1>2 DEF HandsInv, TakenIsDoneOrInHand
<1>6. InHand' = InHand \ {piece}
  <2>1. InHand' = {work'[other].piece : other \in Works} \ {NoPiece}
    BY DEF InHand, NoPiece, Works
  <2>2. \A p : p \in {work'[other].piece : other \in Works} \ {NoPiece} <=> p \in InHand \ {piece}
    BY <1>3, <1>5 DEF InHand
  <2>3. QED
    BY <2>1, <2>2
<1>7. TakenIsDoneOrInHand'
  <2>1. taken' = counted' \cup InHand' /\ counted' \cap InHand' = {}
    BY <1>1, <1>2, <1>6 DEF HandsInv, TakenIsDoneOrInHand
  <2>2. ASSUME NEW i \in Works, NEW j \in Works, work'[i].piece = work'[j].piece, i # j
        PROVE  work'[i].piece = NoPiece
    BY <1>3, <2>2 DEF HandsInv, TakenIsDoneOrInHand
  <2>3. QED
    BY <2>1, <2>2 DEF TakenIsDoneOrInHand, NoPiece, Works
<1>8. QED
  BY <1>1, <1>2, <1>4, <1>7 DEF HandsInv, IdleHandsEmpty

LEMMA HandsThrowAway ==
  ASSUME HandsInv, NEW index \in Works, ThrowAway(index)
  PROVE  HandsInv'
<1> DEFINE piece == work[index].piece
<1>1. /\ UNCHANGED <<active, taken, counted>> /\ Whole # {} /\ index = Min(Whole)
      /\ work' = [work EXCEPT ![index] = startWork(piece)]
  BY DEF ThrowAway
<1>2. piece \in Pieces
  BY <1>1, FirstWhole
<1>3. SlotOK(startWork(piece)) /\ startWork(piece).piece = piece
  BY <1>2, NewSlot
<1> HIDE DEF piece
<1>4. /\ work' \in [Works -> WorkType]
      /\ \A other \in Works : SlotOK(work'[other]) /\ work'[other].piece = work[other].piece
  BY <1>1, <1>3 DEF HandsInv, WorkInv, SlotOK, piece
<1>5. QED
  BY <1>1, <1>4, HandsSame

LEMMA HandsBlock ==
  ASSUME HandsInv, NEW link, NEW index \in Works, NEW block \in Blocks,
         HearBlock(link, index, block)
  PROVE  HandsInv'
<1>1. UNCHANGED <<active, taken, counted>> /\ work[index].piece # NoPiece
      /\ block \in BlocksOf(work[index].piece)
  BY DEF HearBlock
<1>2. PICK spoilt \in SUBSET Blocks : work' = [work EXCEPT ![index] = takeBlock(@, block, spoilt)]
  <2>1. BlocksOf(work[index].piece) \in SUBSET Blocks
    BY <1>1, BlocksAreBlocks DEF HandsInv, WorkInv, WorkType
  <2>2. \A spoilt \in {{block}, {block + 1} \cap BlocksOf(work[index].piece)} :
           spoilt \in SUBSET Blocks
    BY <2>1
  <2>3. QED
    BY <2>2 DEF HearBlock
<1>3. SlotOK(takeBlock(work[index], block, spoilt))
      /\ takeBlock(work[index], block, spoilt).piece = work[index].piece
  BY <1>1, FilledSlot DEF HandsInv, WorkInv
<1>4. /\ work' \in [Works -> WorkType]
      /\ \A other \in Works : SlotOK(work'[other]) /\ work'[other].piece = work[other].piece
  BY <1>2, <1>3 DEF HandsInv, WorkInv, SlotOK
<1>5. QED
  BY <1>1, <1>4, HandsSame

LEMMA HandsAsk ==
  ASSUME HandsInv, LinksInv, NEW link \in Links, askForBlocks(link)
  PROVE  HandsInv'
<1>1. UNCHANGED <<active, taken, counted>>
  BY DEF askForBlocks
<1>2. PICK asked \in SUBSET Missing(link) : work' = AskedFor(asked, link)
  <2>1. Wanted(link) \subseteq Missing(link)
    BY WantedFits
  <2>2. \A sent : FirstOf(Wanted(link), sent) \subseteq Wanted(link)
    BY DEF FirstOf
  <2>3. QED
    BY <2>1, <2>2 DEF askForBlocks
<1>3. /\ work' \in [Works -> WorkType]
      /\ \A index \in Works : SlotOK(work'[index]) /\ work'[index].piece = work[index].piece
  BY <1>2, AskedForWork DEF HandsInv, Reowned
<1>4. QED
  BY <1>1, <1>3, HandsSame

LEMMA HandsNext == ControlInv /\ LinksInv /\ HandsInv /\ [Next]_vars => HandsInv'
<1> SUFFICES ASSUME ControlInv, LinksInv, HandsInv, [Next]_vars PROVE HandsInv'
  OBVIOUS
<1>0. HandsInv => TakenIsDoneOrInHand /\ IdleHandsEmpty /\ taken \ InHand = counted
  BY DEF HandsInv, TakenIsDoneOrInHand
<1>1. CASE \/ UNCHANGED vars \/ serviceAsking \/ StartSlice \/ StillGoing \/ resumeTorrent
  BY <1>1, HandsUntouched DEF vars, engine, hands, serviceAsking, StartSlice, StillGoing,
                              resumeTorrent
<1>2. CASE TurnOver
  BY <1>0, <1>2, HandsFreed DEF TurnOver, FreeAllWork, StillTaken
<1>3. CASE StartAsking
  <2>1. ~active /\ UNCHANGED <<taken, counted>> /\ taken = counted
    BY <1>0, <1>3 DEF StartAsking, IdleHandsEmpty, TakenIsDoneOrInHand
  <2>2. work' = [index \in Works |-> FreeWork] \/ work' = work
    BY <1>3 DEF StartAsking
  <2>3. QED
    BY <2>1, <2>2, HandsFreed, HandsUntouched
<1>4. CASE finishTorrent \/ GoneQuiet
  BY <1>4, HandsDrop DEF finishTorrent, GoneQuiet
<1>5. ASSUME NEW opened, fillPeerSlots(opened) PROVE HandsInv'
  BY <1>5, HandsUntouched DEF fillPeerSlots
<1>6. ASSUME NEW link \in Links,
             \/ HearNothing(link) \/ HearGreeting(link) \/ HearUnchoke(link)
             \/ HearChoke(link) \/ HearLateBlock(link)
             \/ \E holds \in Holdings : HearHoldings(link, holds)
      PROVE HandsInv'
  <2>1. UNCHANGED <<active, work, taken, counted>>
    BY <1>6 DEF HearNothing, HearGreeting, HearUnchoke, HearChoke, HearLateBlock, HearHoldings,
                Heard, engine
  <2>2. QED
    BY <2>1, HandsUntouched
<1>7. ASSUME NEW link \in Links, HearDeath(link) \/ DropPeer(link) PROVE HandsInv'
  <2>1. Drop({link}) /\ UNCHANGED <<active, taken, counted>>
    BY <1>7 DEF HearDeath, DropPeer, engine
  <2>2. QED
    BY <2>1, HandsDrop
<1>8. ASSUME NEW index \in Works, WriteFails(index) PROVE HandsInv'
  BY <1>8, HandsDrop DEF WriteFails
<1>9. CASE pauseTorrent
  <2>1. CASE active
    BY <1>0, <1>9, <2>1, HandsFreed DEF pauseTorrent, FreeAllWork, StillTaken
  <2>2. CASE ~active
    BY <1>9, <2>2, HandsUntouched DEF pauseTorrent, hands
  <2>3. QED
    BY <2>1, <2>2
<1>10. CASE Crash
  BY <1>10, HandsFreed DEF Crash
<1>11. QED
  BY <1>1, <1>2, <1>3, <1>4, <1>5, <1>6, <1>7, <1>8, <1>9, <1>10, HandsTakeOn, HandsWrite,
     HandsThrowAway, HandsBlock, HandsAsk DEF Next, Slice
-----------------------------------------------------------------------------
(* What is counted is on disk.                                             *)

ResumeType == [asked : BOOLEAN, resuming : BOOLEAN, misses : Nat]
DiskType == [Pieces -> {"absent", "right", "wrong"}]
DiskInv == resume \in ResumeType /\ spent \subseteq Faults /\ disk \in DiskType /\ DoneIsOnDisk

LEMMA DiskInit == Init => DiskInv
<1> SUFFICES ASSUME Init PROVE DiskInv
  OBVIOUS
<1>1. /\ resume = [asked |-> FALSE, resuming |-> FALSE, misses |-> 0]
      /\ spent = {} /\ counted = {} /\ piecesDone = 0 /\ status = "WAITING"
      /\ disk = [piece \in Pieces |-> "absent"]
  BY DEF Init
<1>2. resume \in ResumeType /\ disk \in DiskType
  BY <1>1 DEF ResumeType, DiskType
<1>3. DoneIsOnDisk
  BY <1>1, FS_EmptySet DEF DoneIsOnDisk
<1>4. QED
  BY <1>1, <1>2, <1>3 DEF DiskInv

LEMMA SpentGrows == spent \subseteq Faults /\ [Next]_vars => spent' \subseteq Faults
<1> SUFFICES ASSUME spent \subseteq Faults, [Next]_vars PROVE spent' \subseteq Faults
  OBVIOUS
<1> USE DEF CanFault
<1>1. CASE \/ UNCHANGED vars \/ TurnOver \/ StartAsking \/ serviceAsking \/ StartSlice
           \/ finishTorrent \/ StillGoing \/ GoneQuiet \/ pauseTorrent \/ resumeTorrent \/ Crash
           \/ \E opened \in SUBSET Links : fillPeerSlots(opened)
  BY <1>1 DEF vars, TurnOver, StartAsking, serviceAsking, StartSlice, finishTorrent, StillGoing,
              GoneQuiet, pauseTorrent, resumeTorrent, Crash, fillPeerSlots
<1>2. ASSUME NEW piece \in Pieces, TakeOn(piece) PROVE spent' \subseteq Faults
  BY <1>2 DEF TakeOn, FoundOnDisk, NotOnDisk
<1>3. ASSUME NEW link \in Links,
             \/ askForBlocks(link) \/ HearNothing(link) \/ HearGreeting(link)
             \/ HearUnchoke(link) \/ HearChoke(link) \/ HearDeath(link) \/ HearLateBlock(link)
             \/ DropPeer(link) \/ \E holds \in Holdings : HearHoldings(link, holds)
      PROVE spent' \subseteq Faults
  BY <1>3 DEF askForBlocks, HearNothing, HearGreeting, HearUnchoke, HearChoke, HearDeath,
              HearLateBlock, DropPeer, HearHoldings
<1>4. ASSUME NEW link \in Links, NEW index \in Works, NEW block \in Blocks,
             HearBlock(link, index, block)
      PROVE spent' \subseteq Faults
  BY <1>4 DEF HearBlock
<1>5. ASSUME NEW index \in Works, ThrowAway(index) \/ WritePiece(index) \/ WriteFails(index)
      PROVE spent' \subseteq Faults
  BY <1>5 DEF ThrowAway, WritePiece, WriteFails
<1>6. QED
  BY <1>1, <1>2, <1>3, <1>4, <1>5 DEF Next, Slice

LEMMA ResumeKept == resume \in ResumeType /\ [Next]_vars => resume' \in ResumeType
<1> SUFFICES ASSUME resume \in ResumeType, [Next]_vars PROVE resume' \in ResumeType
  OBVIOUS
<1>1. CASE \/ UNCHANGED vars \/ TurnOver \/ StartAsking \/ serviceAsking
           \/ finishTorrent \/ StillGoing \/ GoneQuiet \/ pauseTorrent \/ resumeTorrent
           \/ \E opened \in SUBSET Links : fillPeerSlots(opened)
  BY <1>1 DEF vars, TurnOver, StartAsking, serviceAsking, finishTorrent, StillGoing,
              GoneQuiet, pauseTorrent, resumeTorrent, fillPeerSlots
<1>2. CASE Crash
  BY <1>2 DEF Crash, ResumeType
<1>3. CASE StartSlice
  <2>1. resume' = resume \/ resume' = [resume EXCEPT !.asked = TRUE, !.resuming = isAnythingOnDisk]
    BY <1>3 DEF StartSlice
  <2>2. isAnythingOnDisk \in BOOLEAN
    BY DEF isAnythingOnDisk
  <2>3. QED
    BY <2>1, <2>2 DEF ResumeType
<1>4. ASSUME NEW piece \in Pieces, TakeOn(piece) PROVE resume' \in ResumeType
  <2>1. CASE FoundOnDisk(piece)
    BY <2>1 DEF FoundOnDisk, ResumeType
  <2>2. CASE NotOnDisk(piece)
    <3> DEFINE misses == resume.misses + (IF resume.resuming THEN 1 ELSE 0)
               resuming == resume.resuming /\ misses < MISSES_BEFORE_TRUSTING
    <3>1. resume' = [resume EXCEPT !.misses = misses, !.resuming = resuming]
      BY <2>2 DEF NotOnDisk
    <3>2. misses \in Nat /\ resuming \in BOOLEAN
      BY DEF ResumeType
    <3> HIDE DEF misses, resuming
    <3>3. QED
      BY <3>1, <3>2 DEF ResumeType
  <2>3. QED
    BY <1>4, <2>1, <2>2 DEF TakeOn
<1>5. ASSUME NEW link \in Links,
             \/ askForBlocks(link) \/ HearNothing(link) \/ HearGreeting(link)
             \/ HearUnchoke(link) \/ HearChoke(link) \/ HearDeath(link) \/ HearLateBlock(link)
             \/ DropPeer(link) \/ \E holds \in Holdings : HearHoldings(link, holds)
             \/ \E index \in Works, block \in Blocks : HearBlock(link, index, block)
      PROVE resume' \in ResumeType
  BY <1>5 DEF askForBlocks, HearNothing, HearGreeting, HearUnchoke, HearChoke, HearDeath,
              HearLateBlock, DropPeer, HearHoldings, HearBlock, Heard
<1>6. ASSUME NEW index \in Works, ThrowAway(index) \/ WritePiece(index) \/ WriteFails(index)
      PROVE resume' \in ResumeType
  BY <1>6 DEF ThrowAway, WritePiece, WriteFails
<1>7. QED
  BY <1>1, <1>2, <1>3, <1>4, <1>5, <1>6 DEF Next, Slice

\* The four steps that are about the disk; a finished torrent is never written.
DiskKept == disk \in DiskType /\ DoneIsOnDisk

LEMMA DiskSame ==
  ASSUME DiskKept, UNCHANGED <<piecesDone, disk, counted>>,
         status' = "FINISHED" => status = "FINISHED"
  PROVE  DiskKept'
BY DEF DiskKept, DiskType, DoneIsOnDisk

LEMMA DiskTakeOn ==
  ASSUME ControlInv, HandsInv, DiskKept, NEW piece \in Pieces, TakeOn(piece)
  PROVE  DiskKept'
<1>1. status' = status /\ disk' = disk /\ piece \notin taken
  BY DEF TakeOn, Choosable, Served, Offered
<1>2. CASE NotOnDisk(piece)
  BY <1>1, <1>2, DiskSame DEF NotOnDisk
<1>3. CASE FoundOnDisk(piece)
  <2>1. /\ disk[piece] = "right" /\ piecesDone' = piecesDone + 1
        /\ counted' = counted \cup {piece}
    BY <1>3 DEF FoundOnDisk, isPieceOnDisk
  <2>2. piece \notin counted /\ IsFiniteSet(counted)
    BY <1>1, Constants, FS_Subset DEF HandsInv, TakenIsDoneOrInHand
  <2>3. piecesDone' = Cardinality(counted')
    BY <2>1, <2>2, FS_AddElement DEF DiskKept, DoneIsOnDisk
  <2>4. QED
    BY <1>1, <2>1, <2>3 DEF DiskKept, DiskType, DoneIsOnDisk
<1>4. QED
  BY <1>2, <1>3 DEF TakeOn

LEMMA DiskWrite ==
  ASSUME ControlInv, HandsInv, DiskKept, NEW index \in Works, WritePiece(index)
  PROVE  DiskKept'
<1> DEFINE piece == work[index].piece
<1>1. /\ Whole # {} /\ index = Min(Whole) /\ turn = "write" /\ status' = status
      /\ disk' = [disk EXCEPT ![piece] = "right"]
      /\ piecesDone' = piecesDone + 1 /\ counted' = counted \cup {piece}
  BY DEF WritePiece, isPieceRight, Contents
<1>2. piece \in Pieces /\ piece \notin counted
  BY <1>1, FirstWhole
<1>3. IsFiniteSet(counted)
  BY Constants, FS_Subset DEF HandsInv
<1> HIDE DEF piece
<1>4. piecesDone' = Cardinality(counted')
  BY <1>1, <1>2, <1>3, FS_AddElement DEF DiskKept, DoneIsOnDisk
<1>5. disk' \in DiskType /\ \A other \in Pieces : disk[other] = "right" => disk'[other] = "right"
  BY <1>1, <1>2 DEF DiskKept, DiskType
<1>6. disk'[piece] = "right"
  BY <1>1, <1>2 DEF DiskKept, DiskType
<1>7. counted \subseteq Pieces
  BY DEF HandsInv
<1>8. \A other \in counted' : disk'[other] = "right"
  BY <1>1, <1>5, <1>6, <1>7 DEF DiskKept, DoneIsOnDisk
<1>9. status' # "FINISHED"
  BY <1>1 DEF ControlInv, InASlice
<1>10. QED
  BY <1>4, <1>5, <1>8, <1>9 DEF DiskKept, DiskType, DoneIsOnDisk

LEMMA DiskWriteFails ==
  ASSUME HandsInv, DiskKept, NEW index \in Works, WriteFails(index)
  PROVE  DiskKept'
<1> DEFINE piece == work[index].piece
<1>1. /\ Whole # {} /\ index = Min(Whole) /\ status' = "FAILED"
      /\ UNCHANGED <<piecesDone, counted>>
  BY DEF WriteFails
<1>2. PICK left \in {disk[piece], "wrong"} : disk' = [disk EXCEPT ![piece] = left]
  BY DEF WriteFails
<1>3. piece \in Pieces /\ piece \notin counted
  BY <1>1, FirstWhole
<1> HIDE DEF piece
<1>4. disk' \in DiskType /\ \A other \in Pieces : other # piece => disk'[other] = disk[other]
  BY <1>2, <1>3 DEF DiskKept, DiskType
<1>5. counted \subseteq Pieces
  BY DEF HandsInv
<1>6. QED
  BY <1>1, <1>3, <1>4, <1>5 DEF DiskKept, DiskType, DoneIsOnDisk

LEMMA DiskFinish ==
  ASSUME HandsInv, DiskKept, finishTorrent
  PROVE  DiskKept'
<1>1. UNCHANGED <<piecesDone, disk, counted>> /\ piecesDone >= Cardinality(Pieces)
  BY DEF finishTorrent, AllDone
<1>2. counted = Pieces
  <2>1. counted \subseteq Pieces /\ IsFiniteSet(Pieces)
    BY Constants DEF HandsInv
  <2>2. Cardinality(counted) <= Cardinality(Pieces) /\ Cardinality(counted) \in Nat
        /\ Cardinality(Pieces) \in Nat
    BY <2>1, FS_Subset, FS_CardinalityType
  <2>3. Cardinality(counted) = Cardinality(Pieces)
    BY <1>1, <2>2 DEF DiskKept, DoneIsOnDisk
  <2>4. QED
    BY <2>1, <2>3, FS_Subset
<1>3. QED
  BY <1>1, <1>2 DEF DiskKept, DiskType, DoneIsOnDisk

LEMMA DiskCrash ==
  ASSUME DiskKept, Crash
  PROVE  DiskKept'
<1>1. counted' = {} /\ piecesDone' = 0 /\ status' = "WAITING"
  BY DEF Crash
<1>2. disk' = disk \/ disk' = [disk EXCEPT ![work[Min(Whole)].piece] = "wrong"]
  BY DEF Crash
<1>3. disk' \in DiskType
  BY <1>2 DEF DiskKept, DiskType
<1>4. QED
  BY <1>1, <1>3, FS_EmptySet DEF DiskKept, DiskType, DoneIsOnDisk

LEMMA DiskNext == ControlInv /\ HandsInv /\ DiskInv /\ [Next]_vars => DiskInv'
<1> SUFFICES ASSUME ControlInv, HandsInv, DiskInv, [Next]_vars PROVE DiskInv'
  OBVIOUS
<1>1. DiskKept
  BY DEF DiskInv, DiskKept
<1>2. DiskKept'
  <2>1. CASE \/ UNCHANGED vars \/ TurnOver \/ serviceAsking \/ StartSlice
             \/ StillGoing \/ pauseTorrent \/ resumeTorrent
             \/ \E opened \in SUBSET Links : fillPeerSlots(opened)
    BY <1>1, <2>1, DiskSame DEF vars, engine, TurnOver, serviceAsking, StartSlice,
       StillGoing, pauseTorrent, resumeTorrent, fillPeerSlots, waitAndAskAgain
  <2>2. CASE StartAsking \/ GoneQuiet
    BY <1>1, <2>2, DiskSame DEF StartAsking, GoneQuiet, waitAndAskAgain
  <2>3. ASSUME NEW link \in Links,
               \/ askForBlocks(link) \/ HearNothing(link) \/ HearGreeting(link)
               \/ HearUnchoke(link) \/ HearChoke(link) \/ HearDeath(link) \/ HearLateBlock(link)
               \/ DropPeer(link) \/ \E holds \in Holdings : HearHoldings(link, holds)
               \/ \E index \in Works, block \in Blocks : HearBlock(link, index, block)
        PROVE DiskKept'
    <3>1. UNCHANGED <<status, piecesDone, disk, counted>>
      BY <2>3 DEF askForBlocks, HearNothing, HearGreeting, HearUnchoke, HearChoke, HearDeath,
                  HearLateBlock, DropPeer, HearHoldings, HearBlock, Heard, engine
    <3>2. QED
      BY <1>1, <3>1, DiskSame
  <2>4. ASSUME NEW index \in Works, ThrowAway(index) PROVE DiskKept'
    BY <1>1, <2>4, DiskSame DEF ThrowAway
  <2>5. QED
    BY <1>1, <2>1, <2>2, <2>3, <2>4, DiskTakeOn, DiskWrite, DiskWriteFails, DiskFinish,
       DiskCrash DEF Next, Slice
<1>3. spent' \subseteq Faults /\ resume' \in ResumeType
  BY SpentGrows, ResumeKept DEF DiskInv
<1>4. QED
  BY <1>2, <1>3 DEF DiskInv, DiskKept, ResumeType
-----------------------------------------------------------------------------
(* What is owed has been asked for.                                        *)

OwedIn(works, link) == {where \in Places : works[where[1]].owner[where[2]] = link}

\* A peer that owes these blocks is serving us, and was asked for as many.
Asked(owed, l) ==
    owed # {} => /\ l.state = "READY" /\ ~l.choked
                 /\ Cardinality(owed) <= l.requests

CutShort == spent \cap {"send", "choke", "stray"} # {}

LEMMA OwedNow ==
  /\ OwedIsAsked <=> \A link \in Links : Asked(OwedIn(work, link), links[link])
  /\ OwedIsAsked' <=> \A link \in Links : Asked(OwedIn(work', link), links'[link])
  /\ \A link : Owed(link) = OwedIn(work, link)
<1>1. \A link : Owed(link) = OwedIn(work, link)
  BY DEF Owed, Owner, OwedIn, Places
<1>2. OwedIsAsked <=> \A link \in Links : Asked(OwedIn(work, link), links[link])
  BY <1>1 DEF OwedIsAsked, Asked, isReady
<1>3. OwedIsAsked' <=> \A link \in Links : Asked(OwedIn(work', link), links'[link])
  BY DEF OwedIsAsked, Asked, isReady, Owed, Owner, OwedIn, Places, Works, Blocks, Links
<1>4. QED
  BY <1>1, <1>2, <1>3

LEMMA OwedFinite ==
  ASSUME NEW works, NEW link
  PROVE  IsFiniteSet(OwedIn(works, link)) /\ Cardinality(OwedIn(works, link)) \in Nat
<1>1. OwedIn(works, link) \in SUBSET Places
  BY DEF OwedIn
<1>2. QED
  BY <1>1, PlacesFinite, FS_Subset, FS_CardinalityType

\* Owing less, a peer owes no more than it was asked for.
LEMMA OwesLess ==
  ASSUME NEW works, NEW then, NEW link, NEW l, Asked(OwedIn(works, link), l),
         l.requests \in Nat, OwedIn(then, link) \subseteq OwedIn(works, link)
  PROVE  Asked(OwedIn(then, link), l)
<1>1. Cardinality(OwedIn(then, link)) <= Cardinality(OwedIn(works, link))
  BY OwedFinite, FS_Subset
<1>2. Cardinality(OwedIn(then, link)) \in Nat /\ Cardinality(OwedIn(works, link)) \in Nat
  BY OwedFinite
<1>3. ASSUME OwedIn(then, link) # {}
      PROVE  l.state = "READY" /\ ~l.choked /\ Cardinality(OwedIn(works, link)) <= l.requests
  BY <1>3 DEF Asked
<1>4. Cardinality(OwedIn(works, link)) <= l.requests
        => Cardinality(OwedIn(then, link)) <= l.requests
  BY <1>1, <1>2
<1>5. QED
  BY <1>3, <1>4 DEF Asked

\* Who owned a block and does no longer.
LEMMA OwnersLeave ==
  ASSUME NEW works, NEW then, NEW link \in Links,
         \A index \in Works, block \in Blocks :
            then[index].owner[block] \in {Nobody, works[index].owner[block]}
  PROVE  OwedIn(then, link) \subseteq OwedIn(works, link)
<1>1. link # Nobody
  BY Constants DEF Links, Nobody
<1>2. QED
  BY <1>1 DEF OwedIn, Places

\* The peers stay as they are, and blocks are only handed back.
LEMMA OwedReturns ==
  ASSUME LinksInv, OwedIsAsked, UNCHANGED links,
         \A index \in Works, block \in Blocks :
            work'[index].owner[block] \in {Nobody, work[index].owner[block]}
  PROVE  OwedIsAsked'
<1>1. ASSUME NEW link \in Links PROVE Asked(OwedIn(work', link), links'[link])
  <2>1. Asked(OwedIn(work, link), links[link])
    BY OwedNow
  <2>2. OwedIn(work', link) \subseteq OwedIn(work, link)
    BY OwnersLeave
  <2>3. links[link].requests \in Nat
    BY Constants DEF LinksInv, LinkType
  <2>4. QED
    BY <2>1, <2>2, <2>3, OwesLess
<1>2. QED
  BY <1>1, OwedNow

LEMMA OwedNothing ==
  ASSUME \A index \in Works, block \in Blocks : work'[index].owner[block] = Nobody
  PROVE  OwedIsAsked'
<1>1. ASSUME NEW link \in Links PROVE OwedIn(work', link) = {}
  <2>1. link # Nobody
    BY Constants DEF Links, Nobody
  <2>2. QED
    BY <2>1 DEF OwedIn, Places
<1>2. QED
  BY <1>1, OwedNow DEF Asked

LEMMA OwedDrop ==
  ASSUME LinksInv, HandsInv, OwedIsAsked, NEW gone, Drop(gone)
  PROVE  OwedIsAsked'
<1>1. \A index \in Works, block \in Blocks :
         work'[index].owner[block] = IF work[index].owner[block] \in gone THEN Nobody
                                     ELSE work[index].owner[block]
  BY ReleasedWork DEF Drop, HandsInv
<1>2. ASSUME NEW link \in Links PROVE Asked(OwedIn(work', link), links'[link])
  <2>0. link # Nobody
    BY Constants DEF Links, Nobody
  <2>1. CASE link \in gone
    <3>1. OwedIn(work', link) = {}
      BY <1>1, <2>0, <2>1 DEF OwedIn, Places
    <3>2. QED
      BY <3>1 DEF Asked
  <2>2. CASE link \notin gone
    <3>1. links'[link] = links[link]
      BY <2>2 DEF Drop
    <3>2. OwedIn(work', link) \subseteq OwedIn(work, link)
      BY <1>1, OwnersLeave
    <3>3. links[link].requests \in Nat
      BY Constants DEF LinksInv, LinkType
    <3>4. Asked(OwedIn(work, link), links[link])
      BY OwedNow
    <3>5. QED
      BY <3>1, <3>2, <3>3, <3>4, OwesLess
  <2>3. QED
    BY <2>1, <2>2
<1>3. QED
  BY <1>2, OwedNow

\* One peer changes, and nobody owes anything else.
LEMMA OwedOneLink ==
  ASSUME OwedIsAsked, work' = work, NEW link \in Links,
         \A other \in Links : other # link => links'[other] = links[other],
         Asked(OwedIn(work, link), links'[link])
  PROVE  OwedIsAsked'
BY OwedNow

LEMMA OwedAsk ==
  ASSUME LinksInv, HandsInv, OwedIsAsked, NEW link \in Links, askForBlocks(link), ~CutShort'
  PROVE  OwedIsAsked'
<1> DEFINE wanted == Wanted(link)
<1>1. /\ work' = AskedFor(wanted, link)
      /\ links' = [links EXCEPT ![link].requests = @ + Cardinality(wanted)]
  BY DEF askForBlocks, CutShort
<1>2. /\ wanted \subseteq Missing(link) /\ IsFiniteSet(wanted) /\ Cardinality(wanted) \in Nat
      /\ wanted # {} => links[link].state = "READY" /\ ~links[link].choked
  BY WantedFits DEF isReady
<1>3. links[link].requests \in Nat
  BY Constants DEF LinksInv, LinkType
<1>4. /\ links'[link].state = links[link].state /\ links'[link].choked = links[link].choked
      /\ links'[link].requests = links[link].requests + Cardinality(wanted)
      /\ \A other \in Links : other # link => links'[other] = links[other]
  BY <1>1 DEF LinksInv, LinkType
<1> HIDE DEF wanted
<1>5. \A index \in Works, block \in Blocks :
         work'[index].owner[block] =
            IF <<index, block>> \in wanted /\ work[index].owner[block] = Nobody
            THEN link ELSE work[index].owner[block]
  BY <1>1, <1>2, AskedForWork DEF HandsInv
<1>6. ASSUME NEW other \in Links, other # link
      PROVE  OwedIn(work', other) \subseteq OwedIn(work, other)
  BY <1>5, <1>6 DEF OwedIn, Places
<1>7. OwedIn(work', link) \subseteq OwedIn(work, link) \cup wanted
  BY <1>5 DEF OwedIn, Places
<1>8. Asked(OwedIn(work', link), links'[link])
  <2>1. Asked(OwedIn(work, link), links[link])
    BY OwedNow
  <2>2. IsFiniteSet(OwedIn(work, link)) /\ Cardinality(OwedIn(work, link)) \in Nat
        /\ IsFiniteSet(OwedIn(work', link)) /\ Cardinality(OwedIn(work', link)) \in Nat
    BY OwedFinite
  <2>3. OwedIn(work, link) \cap wanted \in SUBSET wanted
    OBVIOUS
  <2>4. Cardinality(OwedIn(work, link) \cup wanted) <= Cardinality(OwedIn(work, link)) + Cardinality(wanted)
    <3>1. IsFiniteSet(OwedIn(work, link) \cap wanted)
          /\ Cardinality(OwedIn(work, link) \cap wanted) \in Nat
      BY <1>2, <2>3, FS_Subset, FS_CardinalityType
    <3>2. Cardinality(OwedIn(work, link) \cup wanted) =
             Cardinality(OwedIn(work, link)) + Cardinality(wanted)
             - Cardinality(OwedIn(work, link) \cap wanted)
      BY <1>2, <2>2, FS_Union
    <3>3. QED
      BY <1>2, <2>2, <3>1, <3>2
  <2>5. IsFiniteSet(OwedIn(work, link) \cup wanted)
    BY <1>2, <2>2, FS_Union
  <2>6. Cardinality(OwedIn(work', link)) <= Cardinality(OwedIn(work, link) \cup wanted)
        /\ Cardinality(OwedIn(work, link) \cup wanted) \in Nat
    BY <1>7, <2>5, FS_Subset, FS_CardinalityType
  <2>7. OwedIn(work, link) = {} => Cardinality(OwedIn(work, link)) = 0
    BY FS_EmptySet
  <2>8. Cardinality(OwedIn(work, link)) <= links[link].requests
    <3>1. CASE OwedIn(work, link) = {}
      BY <1>3, <2>7, <3>1
    <3>2. CASE OwedIn(work, link) # {}
      BY <2>1, <3>2 DEF Asked
    <3>3. QED
      BY <3>1, <3>2
  <2>9. Cardinality(OwedIn(work', link)) <= links'[link].requests
    BY <1>2, <1>3, <1>4, <2>2, <2>4, <2>6, <2>8
  <2>10. OwedIn(work', link) # {} => links[link].state = "READY" /\ ~links[link].choked
    <3>1. CASE OwedIn(work, link) # {}
      BY <2>1, <3>1 DEF Asked
    <3>2. CASE wanted # {}
      BY <1>2, <3>2
    <3>3. QED
      BY <1>7, <3>1, <3>2
  <2>11. QED
    BY <1>4, <2>9, <2>10 DEF Asked
<1>9. ASSUME NEW other \in Links PROVE Asked(OwedIn(work', other), links'[other])
  <2>1. CASE other = link
    BY <1>8, <2>1
  <2>2. CASE other # link
    <3>1. links'[other] = links[other] /\ links[other].requests \in Nat
      BY <1>4, <2>2, Constants DEF LinksInv, LinkType
    <3>2. Asked(OwedIn(work, other), links[other])
      BY OwedNow
    <3>3. OwedIn(work', other) \subseteq OwedIn(work, other)
      BY <1>6, <2>2
    <3>4. QED
      BY <3>1, <3>2, <3>3, OwesLess
  <2>3. QED
    BY <2>1, <2>2
<1>10. QED
  BY <1>9, OwedNow
\* An answer is one request less: either its block is owed no longer, or the
\* peer owed less than it was asked for.
LEMMA OwedBlock ==
  ASSUME LinksInv, HandsInv, OwedIsAsked, NEW link \in Links, NEW index \in Works,
         NEW block \in Blocks, HearBlock(link, index, block), ~CutShort'
  PROVE  OwedIsAsked'
<1>1. work[index].piece # NoPiece /\ block \in BlocksOf(work[index].piece)
  BY DEF HearBlock
<1>2. /\ links[link].requests > 0
      /\ \/ <<index, block>> \in Owed(link)
         \/ Cardinality(Owed(link)) < links[link].requests
  BY DEF HearBlock, Answers, CutShort
<1>3. PICK spoilt \in SUBSET Blocks : work' = [work EXCEPT ![index] = takeBlock(@, block, spoilt)]
  <2>1. BlocksOf(work[index].piece) \in SUBSET Blocks
    BY <1>1, BlocksAreBlocks DEF HandsInv, WorkInv, WorkType
  <2>2. \A spoilt \in {{block}, {block + 1} \cap BlocksOf(work[index].piece)} :
           spoilt \in SUBSET Blocks
    BY <2>1
  <2>3. QED
    BY <2>2 DEF HearBlock
<1>4. SlotOK(work[index]) /\ work \in [Works -> WorkType]
  BY DEF HandsInv, WorkInv
<1>5. \A other \in Blocks : takeBlock(work[index], block, spoilt).owner[other] =
         IF other = block /\ block \notin work[index].done THEN Nobody
         ELSE work[index].owner[other]
  BY <1>1, <1>4, FilledSlot
<1>6. \A place \in Works, other \in Blocks : work'[place].owner[other] =
         IF place = index /\ other = block /\ block \notin work[index].done THEN Nobody
         ELSE work[place].owner[other]
  BY <1>3, <1>4, <1>5
<1>7. \A place \in Works, other \in Blocks :
         work'[place].owner[other] \in {Nobody, work[place].owner[other]}
  BY <1>6
<1>8. links[link].requests \in Nat
  BY Constants DEF LinksInv, LinkType
<1>9. links' = [links EXCEPT ![link].requests = links[link].requests - 1]
  BY <1>2 DEF HearBlock
<1>10. /\ links'[link].state = links[link].state /\ links'[link].choked = links[link].choked
       /\ links'[link].requests = links[link].requests - 1
       /\ \A other \in Links : other # link => links'[other] = links[other]
  BY <1>9 DEF LinksInv, LinkType
<1>11. OwedIn(work', link) \subseteq OwedIn(work, link)
  BY <1>7, OwnersLeave
<1>12. Asked(OwedIn(work, link), links[link])
  BY OwedNow
<1>13. IsFiniteSet(OwedIn(work, link)) /\ Cardinality(OwedIn(work, link)) \in Nat
       /\ Cardinality(OwedIn(work', link)) \in Nat
       /\ Cardinality(OwedIn(work', link)) <= Cardinality(OwedIn(work, link))
  BY <1>11, OwedFinite, FS_Subset
<1>14. OwedIn(work', link) # {} => Cardinality(OwedIn(work', link)) <= links[link].requests - 1
  <2>1. CASE Cardinality(Owed(link)) < links[link].requests
    BY <1>8, <1>13, <2>1, OwedNow
  <2>2. CASE <<index, block>> \in Owed(link)
    <3>1. <<index, block>> \in OwedIn(work, link)
      BY <2>2, OwedNow
    <3>2. work[index].owner[block] = link
      BY <3>1 DEF OwedIn
    <3>3. link # Nobody
      BY Constants DEF Links, Nobody
    <3>4. block \notin work[index].done
      BY <1>4, <3>2, <3>3 DEF SlotOK
    <3>5. OwedIn(work', link) \subseteq OwedIn(work, link) \ {<<index, block>>}
      <4>1. work'[index].owner[block] # link
        BY <1>6, <3>3, <3>4
      <4>2. <<index, block>> \notin OwedIn(work', link)
        BY <4>1 DEF OwedIn
      <4>3. QED
        BY <1>11, <4>2
    <3>6. IsFiniteSet(OwedIn(work, link) \ {<<index, block>>})
          /\ Cardinality(OwedIn(work, link) \ {<<index, block>>}) = Cardinality(OwedIn(work, link)) - 1
      BY <1>13, <3>1, FS_RemoveElement
    <3>7. Cardinality(OwedIn(work', link)) <= Cardinality(OwedIn(work, link)) - 1
      BY <3>5, <3>6, FS_Subset
    <3>8. Cardinality(OwedIn(work, link)) <= links[link].requests
      BY <1>12, <3>1 DEF Asked
    <3>9. QED
      BY <1>8, <1>13, <3>7, <3>8
  <2>3. QED
    BY <1>2, <2>1, <2>2
<1>15. Asked(OwedIn(work', link), links'[link])
  <2>1. OwedIn(work', link) # {} => OwedIn(work, link) # {}
    BY <1>11
  <2>2. OwedIn(work, link) # {} => links[link].state = "READY" /\ ~links[link].choked
    BY <1>12 DEF Asked
  <2>3. QED
    BY <1>10, <1>14, <2>1, <2>2 DEF Asked
<1>16. ASSUME NEW other \in Links PROVE Asked(OwedIn(work', other), links'[other])
  <2>1. CASE other = link
    BY <1>15, <2>1
  <2>2. CASE other # link
    <3>1. links'[other] = links[other] /\ links[other].requests \in Nat
      BY <1>10, <2>2, Constants DEF LinksInv, LinkType
    <3>2. Asked(OwedIn(work, other), links[other])
      BY OwedNow
    <3>3. OwedIn(work', other) \subseteq OwedIn(work, other)
      BY <1>7, OwnersLeave
    <3>4. QED
      BY <3>1, <3>2, <3>3, OwesLess
  <2>3. QED
    BY <2>1, <2>2
<1>17. QED
  BY <1>16, OwedNow

LEMMA OwedLateBlock ==
  ASSUME LinksInv, OwedIsAsked, NEW link \in Links, HearLateBlock(link)
  PROVE  OwedIsAsked'
<1>1. /\ work' = work /\ links' = [links EXCEPT ![link].requests = links[link].requests - 1]
      /\ Cardinality(OwedIn(work, link)) < links[link].requests
  BY OwedNow DEF HearLateBlock
<1>2. links[link].requests \in Nat
  BY Constants DEF LinksInv, LinkType
<1>3. /\ links'[link].state = links[link].state /\ links'[link].choked = links[link].choked
      /\ links'[link].requests = links[link].requests - 1
      /\ \A other \in Links : other # link => links'[other] = links[other]
  BY <1>1 DEF LinksInv, LinkType
<1>4. OwedIn(work, link) # {} => links[link].state = "READY" /\ ~links[link].choked
  BY OwedNow DEF Asked
<1>5. Cardinality(OwedIn(work, link)) <= links'[link].requests
  BY <1>1, <1>2, <1>3, OwedFinite
<1>6. Asked(OwedIn(work, link), links'[link])
  BY <1>3, <1>4, <1>5 DEF Asked
<1>7. QED
  BY <1>1, <1>3, <1>6, OwedOneLink

\* A peer that greets us owes nothing; serving us or saying what it holds
\* does not change what it owes.
LEMMA OwedNews ==
  ASSUME LinksInv, OwedIsAsked, NEW link \in Links,
         \/ HearGreeting(link) \/ HearUnchoke(link) \/ \E holds \in Holdings : HearHoldings(link, holds)
  PROVE  OwedIsAsked'
<1>1. Asked(OwedIn(work, link), links[link])
  BY OwedNow
<1>2. CASE HearGreeting(link)
  <2>1. OwedIn(work, link) = {}
    BY <1>1, <1>2 DEF HearGreeting, Asked
  <2>2. work' = work /\ \A other \in Links : other # link => links'[other] = links[other]
    BY <1>2 DEF HearGreeting, Heard, LinksInv
  <2>3. QED
    BY <2>1, <2>2, OwedOneLink DEF Asked
<1>3. CASE HearUnchoke(link)
  <2>1. links' = [links EXCEPT ![link].choked = FALSE] /\ work' = work
    BY <1>3 DEF HearUnchoke, Heard
  <2>2. /\ links'[link].state = links[link].state /\ ~links'[link].choked
        /\ links'[link].requests = links[link].requests
        /\ \A other \in Links : other # link => links'[other] = links[other]
    BY <2>1 DEF LinksInv, LinkType
  <2>3. Asked(OwedIn(work, link), links'[link])
    BY <1>1, <2>2 DEF Asked
  <2>4. QED
    BY <2>1, <2>2, <2>3, OwedOneLink
<1>4. CASE \E holds \in Holdings : HearHoldings(link, holds)
  <2>1. PICK holds : links' = [links EXCEPT ![link].holds = holds]
    BY <1>4 DEF HearHoldings, Heard
  <2>2. work' = work
    BY <1>4 DEF HearHoldings, Heard
  <2>3. /\ links'[link].state = links[link].state /\ links'[link].choked = links[link].choked
        /\ links'[link].requests = links[link].requests
        /\ \A other \in Links : other # link => links'[other] = links[other]
    BY <2>1 DEF LinksInv, LinkType
  <2>4. Asked(OwedIn(work, link), links'[link])
    BY <1>1, <2>3 DEF Asked
  <2>5. QED
    BY <2>2, <2>3, <2>4, OwedOneLink
<1>5. QED
  BY <1>2, <1>3, <1>4

\* A connection is opened in place of a dead one, and the dead owe nothing.
LEMMA OwedOpened ==
  ASSUME LinksInv, OwedIsAsked, NEW opened, fillPeerSlots(opened)
  PROVE  OwedIsAsked'
<1>1. work' = work /\ opened \subseteq Empty
      /\ \A link \in Links : link \notin opened => links'[link] = links[link]
  BY DEF fillPeerSlots
<1>2. ASSUME NEW link \in Links PROVE Asked(OwedIn(work', link), links'[link])
  <2>1. Asked(OwedIn(work, link), links[link])
    BY OwedNow
  <2>2. CASE link \in opened
    <3>1. links[link].state = "DEAD"
      BY <1>1, <2>2 DEF Empty
    <3>2. OwedIn(work, link) = {}
      BY <2>1, <3>1 DEF Asked
    <3>3. QED
      BY <1>1, <3>2 DEF Asked
  <2>3. CASE link \notin opened
    BY <1>1, <2>1, <2>3
  <2>4. QED
    BY <2>2, <2>3
<1>3. QED
  BY <1>2, OwedNow

\* A piece is taken on, asked for again or let go: its slot owes nothing.
LEMMA OwedSlot ==
  ASSUME LinksInv, HandsInv, OwedIsAsked, links' = links, NEW index \in Works, NEW slot,
         work' = [work EXCEPT ![index] = slot],
         \A block \in Blocks : slot.owner[block] = Nobody
  PROVE  OwedIsAsked'
<1>1. \A place \in Works, block \in Blocks :
         work'[place].owner[block] \in {Nobody, work[place].owner[block]}
  BY DEF HandsInv, WorkInv
<1>2. QED
  BY <1>1, OwedReturns

OwedInv == ~CutShort => OwedIsAsked

LEMMA SpentStays == [Next]_vars => spent \subseteq spent'
<1> SUFFICES ASSUME [Next]_vars PROVE spent \subseteq spent'
  OBVIOUS
<1>1. CASE \/ UNCHANGED vars \/ TurnOver \/ StartAsking \/ serviceAsking \/ StartSlice
           \/ finishTorrent \/ StillGoing \/ GoneQuiet \/ pauseTorrent \/ resumeTorrent \/ Crash
           \/ \E opened \in SUBSET Links : fillPeerSlots(opened)
  BY <1>1 DEF vars, TurnOver, StartAsking, serviceAsking, StartSlice, finishTorrent, StillGoing,
              GoneQuiet, pauseTorrent, resumeTorrent, Crash, fillPeerSlots
<1>2. ASSUME NEW piece \in Pieces, TakeOn(piece) PROVE spent \subseteq spent'
  BY <1>2 DEF TakeOn, FoundOnDisk, NotOnDisk
<1>3. ASSUME NEW link \in Links,
             \/ askForBlocks(link) \/ HearNothing(link) \/ HearGreeting(link)
             \/ HearUnchoke(link) \/ HearChoke(link) \/ HearDeath(link) \/ HearLateBlock(link)
             \/ DropPeer(link) \/ \E holds \in Holdings : HearHoldings(link, holds)
             \/ \E index \in Works, block \in Blocks : HearBlock(link, index, block)
      PROVE spent \subseteq spent'
  BY <1>3 DEF askForBlocks, HearNothing, HearGreeting, HearUnchoke, HearChoke, HearDeath,
              HearLateBlock, DropPeer, HearHoldings, HearBlock
<1>4. ASSUME NEW index \in Works, ThrowAway(index) \/ WritePiece(index) \/ WriteFails(index)
      PROVE spent \subseteq spent'
  BY <1>4 DEF ThrowAway, WritePiece, WriteFails
<1>5. QED
  BY <1>1, <1>2, <1>3, <1>4 DEF Next, Slice

LEMMA OwedInit == Init => OwedInv
<1>1. ASSUME Init PROVE OwedIsAsked
  <2>1. \A index \in Works, block \in Blocks : work[index].owner[block] = Nobody
    BY <1>1, FreeSlot DEF Init
  <2>2. ASSUME NEW link \in Links PROVE OwedIn(work, link) = {}
    BY <2>1, Constants DEF OwedIn, Places, Links, Nobody
  <2>3. QED
    BY <2>2, OwedNow DEF Asked
<1>2. QED
  BY <1>1 DEF OwedInv

LEMMA OwedNext ==
  ControlInv /\ LinksInv /\ HandsInv /\ OwedInv /\ [Next]_vars => OwedInv'
<1> SUFFICES ASSUME ControlInv, LinksInv, HandsInv, OwedInv, [Next]_vars, ~CutShort'
             PROVE  OwedIsAsked'
  BY DEF OwedInv
<1>0. OwedIsAsked
  BY SpentStays DEF OwedInv, CutShort
<1>1. ASSUME UNCHANGED <<links, work>> PROVE OwedIsAsked'
  BY <1>0, <1>1, OwedNow
<1>2. ASSUME work' = [index \in Works |-> FreeWork] PROVE OwedIsAsked'
  BY <1>2, FreeSlot, OwedNothing
<1>3. ASSUME NEW gone, Drop(gone) PROVE OwedIsAsked'
  BY <1>0, <1>3, OwedDrop
<1>4. CASE \/ UNCHANGED vars \/ serviceAsking \/ StartSlice \/ StillGoing \/ resumeTorrent
  BY <1>1, <1>4 DEF vars, hands, serviceAsking, StartSlice, StillGoing, resumeTorrent
<1>5. CASE TurnOver \/ Crash
  BY <1>2, <1>5 DEF TurnOver, FreeAllWork, Crash
<1>6. CASE StartAsking \/ pauseTorrent
  BY <1>1, <1>2, <1>6 DEF StartAsking, pauseTorrent, FreeAllWork, hands
<1>7. CASE finishTorrent \/ GoneQuiet
  BY <1>3, <1>7 DEF finishTorrent, GoneQuiet
<1>8. ASSUME NEW piece \in Pieces, TakeOn(piece) PROVE OwedIsAsked'
  <2>1. links' = links
    BY <1>8 DEF TakeOn
  <2>2. CASE FoundOnDisk(piece)
    BY <1>1, <2>1, <2>2 DEF FoundOnDisk
  <2>3. CASE NotOnDisk(piece)
    <3>1. Min(FreeFrom(at)) \in Works
      BY <1>8, LeastOf DEF TakeOn, FreeFrom
    <3>2. work' = [work EXCEPT ![Min(FreeFrom(at))] = startWork(piece)]
      BY <2>3 DEF NotOnDisk
    <3>3. \A block \in Blocks : startWork(piece).owner[block] = Nobody
      BY NewSlot
    <3> DEFINE index == Min(FreeFrom(at))
               slot == startWork(piece)
    <3>4. index \in Works /\ work' = [work EXCEPT ![index] = slot]
          /\ \A block \in Blocks : slot.owner[block] = Nobody
      BY <3>1, <3>2, <3>3
    <3> HIDE DEF index, slot
    <3>5. QED
      BY <1>0, <2>1, <3>4, OwedSlot
  <2>4. QED
    BY <1>8, <2>2, <2>3 DEF TakeOn
<1>9. ASSUME NEW link \in Links, HearNothing(link) PROVE OwedIsAsked'
  BY <1>1, <1>9 DEF HearNothing, Heard
<1>10. ASSUME NEW link \in Links, HearChoke(link) PROVE OwedIsAsked'
  BY <1>10 DEF HearChoke, CutShort
<1>11. ASSUME NEW link \in Links, HearDeath(link) \/ DropPeer(link) PROVE OwedIsAsked'
  BY <1>3, <1>11 DEF HearDeath, DropPeer
<1>12. ASSUME NEW index \in Works, WriteFails(index) PROVE OwedIsAsked'
  BY <1>3, <1>12 DEF WriteFails
<1>13. ASSUME NEW index \in Works, WritePiece(index) PROVE OwedIsAsked'
  BY <1>0, <1>13, FreeSlot, OwedSlot DEF WritePiece
<1>14. ASSUME NEW index \in Works, ThrowAway(index) PROVE OwedIsAsked'
  <2>1. work[index].piece \in Pieces
    BY <1>14, FirstWhole DEF ThrowAway
  <2> DEFINE slot == startWork(work[index].piece)
  <2>2. links' = links /\ work' = [work EXCEPT ![index] = slot]
    BY <1>14 DEF ThrowAway
  <2>3. \A block \in Blocks : slot.owner[block] = Nobody
    BY <2>1, NewSlot
  <2> HIDE DEF slot
  <2>4. QED
    BY <1>0, <2>2, <2>3, OwedSlot
<1>15. QED
  BY <1>0, <1>4, <1>5, <1>6, <1>7, <1>8, <1>9, <1>10, <1>11, <1>12, <1>13, <1>14,
     OwedOpened, OwedAsk, OwedNews, OwedLateBlock, OwedBlock DEF Next, Slice
-----------------------------------------------------------------------------
(* What follows for every behaviour.                                       *)

IInv == ControlInv /\ LinksInv /\ HandsInv /\ DiskInv /\ OwedInv

LEMMA InvInit == Init => IInv
BY ControlInit, LinksInit, HandsInit, DiskInit, OwedInit DEF IInv

LEMMA InvNext == IInv /\ [Next]_vars => IInv'
BY ControlNext, LinksNext, HandsNext, DiskNext, OwedNext DEF IInv

LEMMA InvHolds == Spec => []IInv
BY InvInit, InvNext, PTL DEF Spec

(* Every variable keeps its type, for any number of peers, slots, blocks   *)
(* and requests: never more than IN_FLIGHT_MAX blocks are asked of a peer  *)
(* and never more than TRACKER_ROUNDS_MAX rounds of the trackers made.     *)
THEOREM TypeAlwaysOK == Spec => []TypeOK
<1>1. IInv => TypeOK
  <2> SUFFICES ASSUME IInv PROVE TypeOK
    OBVIOUS
  <2>1. /\ status \in {"WAITING", "ASKING", "DOWNLOADING", "PAUSED", "FINISHED", "FAILED"}
        /\ active \in BOOLEAN
        /\ turn \in {"idle", "fill", "filled", "ask", "hear", "write"}
        /\ trackerRounds \in 0 .. TRACKER_ROUNDS_MAX + 1
    BY DEF IInv, ControlInv, EngineTyped, Statuses
  <2>2. at \in 1 .. PEER_ACTIVE_MAX + PIECE_WORK_MAX + 1
    BY Constants DEF IInv, ControlInv, EngineTyped
  <2>3. links \in [Links -> LinkType] /\ work \in [Works -> WorkType]
        /\ taken \subseteq Pieces /\ counted \subseteq Pieces
    BY DEF IInv, LinksInv, HandsInv, WorkInv
  <2>4. /\ resume \in [asked : BOOLEAN, resuming : BOOLEAN, misses : Nat]
        /\ disk \in [Pieces -> {"absent", "right", "wrong"}] /\ spent \subseteq Faults
        /\ piecesDone = Cardinality(counted)
    BY DEF IInv, DiskInv, ResumeType, DiskType, DoneIsOnDisk
  <2>5. piecesDone \in 0 .. Cardinality(Pieces)
    <3>1. IsFiniteSet(counted) /\ Cardinality(counted) <= Cardinality(Pieces)
      BY <2>3, Constants, FS_Subset
    <3>2. Cardinality(counted) \in Nat /\ Cardinality(Pieces) \in Nat
      BY <3>1, Constants, FS_CardinalityType
    <3>3. QED
      BY <2>4, <3>1, <3>2
  <2>6. QED
    BY <2>1, <2>2, <2>3, <2>4, <2>5 DEF TypeOK
<1>2. QED
  BY <1>1, InvHolds, PTL

(* No piece is lost from reach: what chooseNextPiece passes over is done   *)
(* or is being collected, in one slot only, whatever was paused, refused,  *)
(* thrown away or cut off by a crash.                                      *)
THEOREM TakenAlwaysDoneOrInHand == Spec => []TakenIsDoneOrInHand
<1>1. IInv => TakenIsDoneOrInHand
  BY DEF IInv, HandsInv
<1>2. QED
  BY <1>1, InvHolds, PTL

(* A piece is counted once and only when it is right on disk, so a torrent *)
(* that says it is finished has every piece right on disk.                 *)
THEOREM DoneAlwaysOnDisk == Spec => []DoneIsOnDisk
<1>1. IInv => DoneIsOnDisk
  BY DEF IInv, DiskInv
<1>2. QED
  BY <1>1, InvHolds, PTL

(* The count of blocks a piece waits for is the number of those that have  *)
(* not come, however often one of them came: it never reaches zero early.  *)
THEOREM LeftAlwaysMissing == Spec => []LeftIsMissing
<1>1. IInv => LeftIsMissing
  BY DEF IInv, HandsInv, WorkInv, SlotOK, LeftIsMissing
<1>2. QED
  BY <1>1, InvHolds, PTL

(* Unless a request was refused, a peer choked us or sent what was not     *)
(* asked for, a peer that owes blocks is serving us and was asked for at   *)
(* least as many, so its silence gets it dropped.                          *)
THEOREM OwedAlwaysAsked == Spec => []OwedIsAskedUnlessCutShort
<1>1. IInv => OwedIsAskedUnlessCutShort
  BY DEF IInv, OwedInv, CutShort, OwedIsAskedUnlessCutShort
<1>2. QED
  BY <1>1, InvHolds, PTL

(* Only a write that fails or is cut off by a crash ever spoils a piece    *)
(* that was right on disk.                                                 *)
THEOREM RightAlwaysStaysRight == Spec => RightStaysRight
<1> DEFINE Spoilt == \E piece \in Pieces : disk[piece] = "right" /\ disk'[piece] # "right"
<1>1. ASSUME IInv, [Next]_vars, Spoilt PROVE spent' # spent
  <2>1. disk' # disk /\ disk \in DiskType
    BY <1>1 DEF IInv, DiskInv
  <2>2. CASE Crash
    BY <2>2 DEF Crash, CanFault
  <2>3. ASSUME NEW index \in Works, WriteFails(index) PROVE spent' # spent
    BY <2>3 DEF WriteFails, CanFault
  <2>4. ASSUME NEW index \in Works, WritePiece(index) PROVE FALSE
    <3>1. disk' = [disk EXCEPT ![work[index].piece] = "right"]
      BY <2>4 DEF WritePiece, isPieceRight, Contents
    <3>2. QED
      BY <1>1, <2>1, <3>1 DEF DiskType
  <2>5. CASE \/ UNCHANGED vars \/ TurnOver \/ StartAsking \/ serviceAsking \/ StartSlice
             \/ finishTorrent \/ StillGoing \/ GoneQuiet \/ pauseTorrent \/ resumeTorrent
             \/ \E opened \in SUBSET Links : fillPeerSlots(opened)
             \/ \E piece \in Pieces : TakeOn(piece)
             \/ \E index \in Works : ThrowAway(index)
    BY <2>1, <2>5 DEF vars, TurnOver, StartAsking, serviceAsking, StartSlice, finishTorrent,
       StillGoing, GoneQuiet, pauseTorrent, resumeTorrent, fillPeerSlots, TakeOn, ThrowAway
  <2>6. ASSUME NEW link \in Links,
               \/ askForBlocks(link) \/ HearNothing(link) \/ HearGreeting(link)
               \/ HearUnchoke(link) \/ HearChoke(link) \/ HearDeath(link) \/ HearLateBlock(link)
               \/ DropPeer(link) \/ \E holds \in Holdings : HearHoldings(link, holds)
               \/ \E index \in Works, block \in Blocks : HearBlock(link, index, block)
        PROVE FALSE
    BY <2>1, <2>6 DEF askForBlocks, HearNothing, HearGreeting, HearUnchoke, HearChoke,
       HearDeath, HearLateBlock, DropPeer, HearHoldings, HearBlock, Heard
  <2>7. QED
    BY <1>1, <2>2, <2>3, <2>4, <2>5, <2>6 DEF Next, Slice
<1>2. IInv /\ [Next]_vars
        => [\A piece \in Pieces : disk[piece] = "right" /\ disk'[piece] # "right"
              => spent' # spent]_vars
  BY <1>1
<1>3. QED
  BY <1>2, InvHolds, PTL DEF Spec, RightStaysRight
=============================================================================
