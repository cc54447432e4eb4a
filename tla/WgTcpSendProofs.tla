-------------------------- MODULE WgTcpSendProofs --------------------------
(***************************************************************************)
(* For any ring, window, segment and stream whose length fits the sequence *)
(* numbers: the cursors keep their order, every byte that may have to be   *)
(* sent again is in its slot, and none leaves it before the other end has  *)
(* it, whatever is lost, repeated, reordered or sent again.                *)
(***************************************************************************)
EXTENDS WgTcpSend, SequenceNumbersProofs, FiniteSetTheorems

Half == SEQUENCES \div 2

LEMMA SendConstants ==
  /\ SEND_MAX \in Nat \ {0} /\ RESEND_LIMIT \in Nat \ {0} /\ HELLO_LIMIT \in Nat \ {0}
  /\ DUPLICATE_ACKS_LOST \in Nat \ {0} /\ SEGMENT_MAX \in Nat \ {0}
  /\ PEER_UNIT \in Nat \ {0} /\ PEER_ROOM \in Nat \ {0} /\ StreamLength \in Nat
  /\ SEQUENCES % SEND_MAX = 0
  /\ StreamLength + 2 < Half /\ Half \in Nat /\ 2 * Half <= SEQUENCES
BY SendAssumption, NumbersConstants DEF Half
-----------------------------------------------------------------------------
(* What holds between any two steps, in positions of the stream.           *)

pUnconfirmed == Position(sendUnconfirmed)
pNext == Position(sendNext)
pEnd == Position(sendEnd)
pHighest == Position(sendHighest)
Goodbye == IF state = "CLOSING" THEN 1 ELSE 0
Ended == IF peerEnded THEN 1 ELSE 0
LimitMax == AtLeast(RESEND_LIMIT, HELLO_LIMIT)

\* What the counters and flags may be; the streams still going have tries left.
ControlInv ==
    /\ state \in {"CONNECTING", "OPEN", "CLOSING", "CLOSED", "FAILED"}
    /\ leaving \in {"NO", "FLUSHING", "PARTING"}
    /\ state \in {"CLOSING", "CLOSED"} <=> leaving = "PARTING"
    /\ leaving = "FLUSHING" => state \in {"OPEN", "FAILED"}
    /\ news \in BOOLEAN /\ peerOpen \in BOOLEAN /\ peerEnded \in BOOLEAN
    /\ resendCount \in 0 .. LimitMax + 1
    /\ state \in {"CONNECTING", "OPEN"} => resendCount <= LimitMax
    /\ duplicateAcks \in 0 .. DUPLICATE_ACKS_LOST + 1
    /\ peerWindow \in Nat /\ congestionWindow \in Nat

\* The other end has no more than was carried to it, and there is a goodbye
\* only once it was said.
AirInv ==
    /\ carried \in 0 .. StreamLength
    /\ air \subseteq HelloPosition .. carried - 1
    /\ goodbyes \subseteq HelloPosition .. StreamLength
    /\ peerNext \in 0 .. carried /\ peerRead \in 0 .. peerNext
    /\ peerNext - peerRead <= PEER_ROOM
    /\ state = "CONNECTING" => carried = 0
    /\ leaving # "PARTING" => goodbyes = {} /\ ~peerEnded
    /\ promised \in Nat

\* The cursors in positions: what is confirmed or sent again was sent before,
\* and what was sent was carried.
CursorInv ==
    /\ {sendUnconfirmed, sendNext, sendEnd, sendHighest} \subseteq Sequence
    /\ state = "CONNECTING" => pHighest = 0
    /\ Established =>
          /\ pUnconfirmed <= pNext /\ pNext <= pHighest /\ pHighest <= pEnd + Goodbye
          /\ pEnd <= pUnconfirmed + SEND_MAX /\ pEnd <= StreamLength
          /\ pNext <= carried + Goodbye
          /\ pUnconfirmed <= peerNext + Ended

RingInv ==
    /\ outgoing \in [0 .. SEND_MAX - 1 -> Int]
    /\ UnconfirmedIsKept

\* The furthest the other end said it had room, as the code understood it.
Room(upTo) == AtLeast(upTo, HelloRoom)

RoomInv ==
    /\ carried <= Room(promised) + 1
    /\ Established => pUnconfirmed + peerWindow <= Room(promised)

SendInv == ControlInv /\ AirInv /\ CursorInv /\ RingInv /\ RoomInv
-----------------------------------------------------------------------------
(* The cursors of a step.                                                  *)

\* A position of this stream, a goodbye's and the one after it included.
Near(s) == s \in Sequence /\ Position(s) <= StreamLength + 1

LEMMA NearIs ==
  ASSUME NEW s, Near(s)
  PROVE  s \in Sequence /\ Position(s) \in Nat /\ Position(s) < Half
BY SendConstants, NumberOf DEF Near, Sequence

LEMMA LaterIs ==
  ASSUME NEW a, NEW b, Near(a), Near(b)
  PROVE  /\ Later(a, b) \in {a, b} /\ Near(Later(a, b))
         /\ Position(Later(a, b)) = AtLeast(Position(a), Position(b))
         /\ isAfter(a, b) <=> Position(a) > Position(b)
         /\ isAtOrAfter(a, b) <=> Position(a) >= Position(b)
<1>1. isAfter(a, b) <=> Position(a) > Position(b)
  BY NearIs, AfterIs DEF Half
<1>2. isAtOrAfter(a, b) <=> Position(a) >= Position(b)
  BY NearIs, AfterIs DEF Half
<1>3. Position(a) \in Nat /\ Position(b) \in Nat
  BY NearIs
<1>4. CASE isAfter(a, b)
  BY <1>1, <1>2, <1>3, <1>4 DEF Later, AtLeast
<1>5. CASE ~isAfter(a, b)
  BY <1>1, <1>2, <1>3, <1>5 DEF Later, AtLeast
<1>6. QED
  BY <1>4, <1>5

LEMMA AdvanceNear ==
  ASSUME NEW s, Near(s), NEW n \in Nat, Position(s) + n <= StreamLength + 1
  PROVE  /\ Near((s + n) % SEQUENCES)
         /\ Position((s + n) % SEQUENCES) = Position(s) + n
<1>1. s \in Sequence /\ Position(s) \in Nat
  BY NearIs
<1>2. Position(s) + n \in Sequence /\ n \in Int
  BY <1>1, SendConstants, NumbersConstants DEF Sequence
<1>3. QED
  BY <1>1, <1>2, Advanced DEF Near

LEMMA NumberedNear ==
  ASSUME NEW p \in 0 .. StreamLength + 1
  PROVE  Near(Numbered(p)) /\ Position(Numbered(p)) = p
<1>1. p \in Int /\ p \in Sequence
  BY SendConstants, NumbersConstants DEF Sequence
<1>2. QED
  BY <1>1, PositionOf DEF Near

\* What goes fits what is written and, when anything goes at all, the window.
LEMMA FlushFits ==
  ASSUME NEW next, NEW unconfirmed, NEW end, Near(next), Near(unconfirmed), Near(end),
         NEW window \in Nat, NEW congestion \in Nat,
         Position(unconfirmed) <= Position(next), Position(next) <= Position(end),
         NEW length \in FlushLengths(next, unconfirmed, end, window, congestion)
  PROVE  /\ length \in Nat /\ Position(next) + length <= Position(end)
         /\ length > 0 => Position(next) + length <= Position(unconfirmed) + window
<1> DEFINE inFlight == Apart(next, unconfirmed)
           left == Apart(end, next)
           limit == AtMost(AtMost(window, congestion) - inFlight, left)
           rounds == limit \div SEGMENT_MAX
           n == Position(next)
           u == Position(unconfirmed)
           e == Position(end)
<1>1. n \in Nat /\ u \in Nat /\ e \in Nat
  BY NearIs
<1>2. inFlight = n - u /\ left = e - n
  BY ApartIs, NearIs
<1>3. length \in (IF limit >= SEGMENT_MAX THEN {k * SEGMENT_MAX : k \in 1 .. rounds}
                  ELSE IF limit <= 0 \/ inFlight > 0 THEN {0} ELSE {limit})
  BY DEF FlushLengths
<1> HIDE DEF inFlight, left, n, u, e
<1>4. inFlight \in Nat /\ left \in Nat
  BY <1>1, <1>2 DEF n, u, e
<1>5. limit \in Int /\ limit <= left /\ limit <= window - inFlight
  BY <1>4 DEF AtMost
<1> HIDE DEF limit
<1>6. ASSUME NEW k \in 1 .. rounds, limit >= SEGMENT_MAX
      PROVE  k * SEGMENT_MAX \in Nat /\ k * SEGMENT_MAX <= limit
  <2>1. limit % SEGMENT_MAX \in 0 .. SEGMENT_MAX - 1 /\ rounds \in Int
        /\ SEGMENT_MAX * rounds + (limit % SEGMENT_MAX) = limit
    BY <1>5, SendConstants, Remainder
  <2> HIDE DEF rounds
  <2> DEFINE full == SEGMENT_MAX * rounds
  <2>2. full \in Int /\ full <= limit
    BY <2>1, SendConstants
  <2>3. k \in Nat /\ k <= rounds
    BY <1>6, <2>1
  <2>4. k * SEGMENT_MAX \in Nat /\ k * SEGMENT_MAX <= full
    BY <2>1, <2>3, SendConstants
  <2> DEFINE part == k * SEGMENT_MAX
  <2> HIDE DEF full, part
  <2>5. part \in Nat /\ part <= full
    BY <2>4 DEF part
  <2>6. part \in Nat /\ part <= limit
    BY <2>2, <2>5, <1>5
  <2>7. QED
    BY <2>6 DEF part
<1>7. length \in Nat /\ (length > 0 => length <= limit) /\ (length = 0 \/ length > 0)
  <2>1. CASE limit >= SEGMENT_MAX
    <3>1. PICK k \in 1 .. rounds : length = k * SEGMENT_MAX
      BY <1>3, <2>1
    <3> HIDE DEF rounds
    <3>2. QED
      BY <1>6, <2>1, <3>1
  <2>2. CASE ~(limit >= SEGMENT_MAX)
    <3>1. length \in (IF limit <= 0 \/ inFlight > 0 THEN {0} ELSE {limit})
      BY <1>3, <2>2
    <3>2. QED
      BY <1>5, <3>1
  <2>3. QED
    BY <2>1, <2>2
<1>8. n + length <= e /\ (length > 0 => n + length <= u + window)
  BY <1>1, <1>2, <1>4, <1>5, <1>7 DEF n, u, e
<1>9. QED
  BY <1>7, <1>8 DEF n, u, e

\* What a flush leaves: the cursor is onward, nothing past what is written is
\* counted or carried, and nothing new past the window.
LEMMA FlushDone ==
  ASSUME NEW next, NEW unconfirmed, NEW end, Near(next), Near(unconfirmed), Near(end),
         NEW window \in Nat, NEW congestion \in Nat,
         Position(unconfirmed) <= Position(next), Position(next) <= Position(end),
         Position(end) <= StreamLength,
         Near(sendHighest), Position(sendHighest) <= Position(end),
         Position(next) <= carried,
         carried \in 0 .. StreamLength, air \subseteq HelloPosition .. carried - 1,
         Flush(next, unconfirmed, end, window, congestion)
  PROVE  /\ Near(sendNext') /\ Near(sendHighest')
         /\ Position(next) <= Position(sendNext') /\ Position(sendNext') <= Position(end)
         /\ Position(sendNext') <= Position(sendHighest')
         /\ Position(sendHighest') <= Position(end)
         /\ carried' \in 0 .. StreamLength /\ carried <= carried'
         /\ Position(sendNext') <= carried'
         /\ air' \subseteq HelloPosition .. carried' - 1 /\ goodbyes' = goodbyes
         /\ carried' = carried \/ carried' <= Position(unconfirmed) + window
<1> DEFINE n == Position(next)
<1>0. PICK length \in FlushLengths(next, unconfirmed, end, window, congestion) :
         /\ sendNext' = (next + length) % SEQUENCES
         /\ sendHighest' = Later((next + length) % SEQUENCES, sendHighest)
         /\ Carry(Position(next), Position(next) + length)
  BY DEF Flush
<1> DEFINE reached == (next + length) % SEQUENCES
<1>1. length \in Nat /\ n + length <= Position(end)
      /\ (length > 0 => n + length <= Position(unconfirmed) + window)
  BY FlushFits
<1>2. /\ sendNext' = reached /\ sendHighest' = Later(reached, sendHighest)
      /\ carried' = AtLeast(carried, n + length)
      /\ air' = air \cup n .. (n + length) - 1 /\ goodbyes' = goodbyes
  BY <1>0 DEF Carry
<1>3. n \in Nat /\ Position(end) \in Nat /\ Position(unconfirmed) \in Nat
      /\ Position(sendHighest) \in Nat
  BY NearIs
<1>4. Near(reached) /\ Position(reached) = n + length
  <2>1. n + length <= StreamLength + 1
    BY <1>1, <1>3, SendConstants
  <2>2. QED
    BY <2>1, <1>1, AdvanceNear
<1> HIDE DEF reached
<1>5. /\ Near(sendHighest') /\ Position(sendHighest') = AtLeast(n + length, Position(sendHighest))
  BY <1>2, <1>4, LaterIs
<1> HIDE DEF n
<1>6. AtLeast(n + length, Position(sendHighest)) >= n + length
      /\ AtLeast(n + length, Position(sendHighest)) <= Position(end)
  BY <1>1, <1>3 DEF AtLeast
<1>7. carried' \in 0 .. StreamLength /\ carried <= carried' /\ n + length <= carried'
      /\ (carried' = carried \/ (length > 0 /\ carried' = n + length))
  BY <1>1, <1>2, <1>3, SendConstants DEF AtLeast, n
<1>8. air' \subseteq HelloPosition .. carried' - 1
  BY <1>1, <1>2, <1>3, <1>7, SendConstants DEF HelloPosition
<1>9. Position(sendNext') = n + length /\ Near(sendNext')
  BY <1>2, <1>4
<1>10. n <= n + length /\ n + length <= Position(end)
       /\ (carried' = carried \/ carried' <= Position(unconfirmed) + window)
  BY <1>1, <1>3, <1>7
<1>11. QED
  BY <1>2, <1>5, <1>6, <1>7, <1>8, <1>9, <1>10 DEF n
-----------------------------------------------------------------------------
(* What the other end may say.                                             *)

MessageOK(m) ==
    /\ m.acknowledgment \in Sequence
    /\ Position(m.acknowledgment) <= peerNext + Ended
    /\ Offered(m) \in Nat /\ Meant(m) \in Nat
    /\ \/ Offered(m) = Meant(m)
       \/ Position(m.acknowledgment) = 0 /\ Offered(m) = HelloRoom

LEMMA HelloRoomIs == HelloRoom \in Nat /\ HelloRoom' = HelloRoom
<1>1. HelloAnswer.window = PEER_ROOM
  BY DEF HelloAnswer
<1>2. HelloRoom = PEER_ROOM * PEER_UNIT
  BY <1>1 DEF HelloRoom, Offered
<1>3. PEER_ROOM * PEER_UNIT \in Nat
  BY SendConstants
<1>4. QED
  BY <1>2, <1>3 DEF HelloRoom, Offered, HelloAnswer

\* What was understood only grows.
LEMMA RoomIs ==
  ASSUME NEW a \in Nat, NEW b \in Nat, a <= b
  PROVE  Room(a) \in Nat /\ Room(b) \in Nat /\ Room(a) <= Room(b) /\ b <= Room(b)
         /\ HelloRoom <= Room(b)
BY HelloRoomIs DEF Room, AtLeast

LEMMA HelloAnswerOK ==
  ASSUME AirInv
  PROVE  MessageOK(HelloAnswer) /\ Position(HelloAnswer.acknowledgment) = 0
<1>1. Position(Numbered(0)) = 0 /\ Numbered(0) \in Sequence
  <2>1. 0 \in Sequence
    BY SendConstants, NumbersConstants DEF Sequence
  <2>2. QED
    BY <2>1, PositionOf
<1>2. HelloAnswer.acknowledgment = Numbered(0) /\ HelloAnswer.window = PEER_ROOM
      /\ HelloAnswer.hello = TRUE
  BY DEF HelloAnswer
<1>3. Offered(HelloAnswer) \in Nat /\ Meant(HelloAnswer) \in Nat
  BY <1>2, SendConstants DEF Offered, Meant
<1>4. Offered(HelloAnswer) = HelloRoom
  BY DEF HelloRoom
<1>5. 0 <= peerNext + Ended
  BY DEF AirInv, Ended
<1>6. QED
  BY <1>1, <1>2, <1>3, <1>4, <1>5 DEF MessageOK

LEMMA AckOK ==
  ASSUME AirInv, NEW n \in 0 .. peerNext, NEW r \in 0 .. n, n - r <= PEER_ROOM,
         NEW ended \in BOOLEAN, ended => peerEnded
  PROVE  MessageOK(AckOf(n, r, ended))
<1> DEFINE p == n + (IF ended THEN 1 ELSE 0)
           m == AckOf(n, r, ended)
           free == PEER_ROOM - (n - r)
<1>1. carried \in 0 .. StreamLength /\ peerNext \in 0 .. carried
  BY DEF AirInv
<1>2. p \in 0 .. StreamLength + 1 /\ p <= peerNext + Ended
  BY <1>1, SendConstants DEF Ended
<1>3. m.acknowledgment = Numbered(p) /\ m.window = free \div PEER_UNIT /\ m.hello = FALSE
  BY DEF AckOf
<1> HIDE DEF p, m
<1>4. Near(Numbered(p)) /\ Position(Numbered(p)) = p
  BY <1>2, NumberedNear
<1>5. free \in Nat /\ free \in Int
  BY <1>1, SendConstants
<1> HIDE DEF free
<1>6. m.window \in Nat
  <2> DEFINE w == free \div PEER_UNIT
  <2>1. free % PEER_UNIT \in 0 .. PEER_UNIT - 1 /\ w \in Int
        /\ PEER_UNIT * w + (free % PEER_UNIT) = free
    BY <1>5, SendConstants, Remainder
  <2> HIDE DEF w
  <2>2. w < 0 => PEER_UNIT * w <= - PEER_UNIT
    BY <2>1, SendConstants
  <2>3. ~(w < 0)
    BY <2>1, <2>2, <1>5, SendConstants
  <2>4. QED
    BY <1>3, <2>1, <2>3 DEF w
<1>7. Offered(m) \in Nat /\ Meant(m) \in Nat /\ Offered(m) = Meant(m)
  <2>1. m.window * PEER_UNIT \in Nat
    BY <1>6, SendConstants
  <2>2. QED
    BY <1>3, <2>1 DEF Offered, Meant
<1>8. QED
  BY <1>2, <1>3, <1>4, <1>7, NearIs DEF MessageOK, m
-----------------------------------------------------------------------------
(* Every step keeps the invariant.                                         *)

\* Where the cursors may be while the stream goes on, as numbers.
LEMMA CursorsAreNear ==
  ASSUME SendInv, Established
  PROVE  /\ Near(sendUnconfirmed) /\ Near(sendNext) /\ Near(sendEnd) /\ Near(sendHighest)
         /\ pUnconfirmed \in Nat /\ pNext \in Nat /\ pEnd \in Nat /\ pHighest \in Nat
         /\ pEnd <= StreamLength
<1>1. {sendUnconfirmed, sendNext, sendEnd, sendHighest} \subseteq Sequence
  BY DEF SendInv, CursorInv
<1>2. /\ pUnconfirmed \in Nat /\ pNext \in Nat /\ pEnd \in Nat /\ pHighest \in Nat
  BY <1>1, NumberOf, NumbersConstants DEF pUnconfirmed, pNext, pEnd, pHighest, Sequence
<1>3. /\ pUnconfirmed <= pNext /\ pNext <= pHighest /\ pHighest <= pEnd + Goodbye
      /\ pEnd <= StreamLength
  BY DEF SendInv, CursorInv
<1>4. Goodbye \in {0, 1}
  BY DEF Goodbye
<1>5. /\ pUnconfirmed <= StreamLength + 1 /\ pNext <= StreamLength + 1
      /\ pEnd <= StreamLength + 1 /\ pHighest <= StreamLength + 1
  BY <1>2, <1>3, <1>4, SendConstants
<1>6. QED
  BY <1>1, <1>2, <1>3, <1>5 DEF Near, pUnconfirmed, pNext, pEnd, pHighest

\* What is kept stays kept while the cursors only tighten around it.
LEMMA KeptStays ==
  ASSUME RingInv, outgoing' = outgoing,
         Established' => /\ Established
                         /\ Position(sendUnconfirmed) \in Nat
                         /\ Position(sendUnconfirmed') \in Nat
                         /\ Position(sendUnconfirmed) <= Position(sendUnconfirmed')
                         /\ sendEnd' = sendEnd
  PROVE  RingInv'
<1>1. outgoing' \in [0 .. SEND_MAX - 1 -> Int]
  BY DEF RingInv
<1>2. ASSUME Established',
             NEW p \in Position(sendUnconfirmed') .. Position(sendEnd') - 1
      PROVE  outgoing'[Slot(Numbered(p))] = p
  <2>1. p \in Position(sendUnconfirmed) .. Position(sendEnd) - 1
    BY <1>2
  <2>2. QED
    BY <1>2, <2>1 DEF RingInv, UnconfirmedIsKept
<1>3. QED
  BY <1>1, <1>2 DEF RingInv, UnconfirmedIsKept

LEMMA FreshStream ==
  /\ Numbered(-1) \in Sequence /\ Numbered(0) \in Sequence /\ Position(Numbered(0)) = 0
  /\ [slot \in 0 .. SEND_MAX - 1 |-> 0] \in [0 .. SEND_MAX - 1 -> Int]
<1>1. 0 \in Sequence /\ -1 \in Int
  BY NumbersConstants DEF Sequence
<1>2. QED
  BY <1>1, PositionOf

LEMMA InitSend ==
  ASSUME Init
  PROVE  SendInv
<1>1. ControlInv
  <2>1. LimitMax \in Nat
    BY SendConstants DEF LimitMax, AtLeast
  <2>2. /\ state = "CONNECTING" /\ resendCount = 0 /\ duplicateAcks = 0
        /\ peerWindow = SEGMENT_MAX /\ congestionWindow = SEGMENT_MAX
    BY DEF Init
  <2>3. leaving = "NO" /\ news \in BOOLEAN /\ peerOpen \in BOOLEAN /\ peerEnded \in BOOLEAN
    BY DEF Init
  <2>4. QED
    BY <2>1, <2>2, <2>3, SendConstants DEF ControlInv
<1>2. AirInv
  BY SendConstants DEF Init, AirInv, HelloPosition
<1>3. CursorInv
  BY FreshStream DEF Init, CursorInv, Established, pHighest
<1>4. RingInv
  BY FreshStream DEF Init, RingInv, UnconfirmedIsKept, Established
<1>5. RoomInv
  <2>1. Room(0) \in Nat
    BY RoomIs
  <2>2. carried = 0 /\ promised = 0 /\ ~Established
    BY DEF Init, Established
  <2>3. QED
    BY <2>1, <2>2 DEF RoomInv
<1>6. QED
  BY <1>1, <1>2, <1>3, <1>4, <1>5 DEF SendInv

LEMMA StartCloseKeeps ==
  ASSUME SendInv, StartClose
  PROVE  SendInv'
<1>1. ControlInv'
  BY DEF SendInv, ControlInv, StartClose, cursors, control, sent, peer
<1>2. AirInv'
  BY DEF SendInv, AirInv, StartClose, cursors, control, sent, peer
<1>3. CursorInv'
  BY DEF SendInv, CursorInv, StartClose, cursors, control, sent, peer, Established,
         pUnconfirmed, pNext, pEnd, pHighest, Goodbye, Ended
<1>4. RingInv'
  BY DEF SendInv, RingInv, UnconfirmedIsKept, StartClose, cursors, Established
<1>5. RoomInv'
  BY HelloRoomIs DEF SendInv, RoomInv, Room, StartClose, cursors, control, sent, Established,
                     pUnconfirmed
<1>6. QED
  BY <1>1, <1>2, <1>3, <1>4, <1>5 DEF SendInv

LEMMA SayGoodbyeKeeps ==
  ASSUME SendInv, SayGoodbye
  PROVE  SendInv'
<1>1. /\ leaving = "FLUSHING" /\ state' = "CLOSING" /\ leaving' = "PARTING"
      /\ sendNext' = (sendNext + 1) % SEQUENCES
      /\ sendHighest' = Later(sendNext', sendHighest)
      /\ goodbyes' = goodbyes \cup {pNext} /\ carried' = carried /\ air' = air
      /\ UNCHANGED <<sendUnconfirmed, sendEnd, outgoing, peerWindow,
                     congestionWindow, duplicateAcks, resendCount, news, peerOpen,
                     peerNext, peerRead, peerEnded, promised>>
  BY DEF SayGoodbye, CarryGoodbye, control, peer, cursors, pNext
<1>2. Established /\ Established' /\ Goodbye = 0 /\ Goodbye' = 1 /\ Ended' = Ended
  BY <1>1 DEF SendInv, ControlInv, Established, Goodbye, Ended
<1>3. /\ Near(sendUnconfirmed) /\ Near(sendNext) /\ Near(sendEnd) /\ Near(sendHighest)
      /\ pUnconfirmed \in Nat /\ pNext \in Nat /\ pEnd \in Nat /\ pHighest \in Nat
      /\ pEnd <= StreamLength
  BY <1>2, CursorsAreNear
<1>4. /\ pUnconfirmed <= pNext /\ pNext <= pHighest /\ pHighest <= pEnd
      /\ pEnd <= pUnconfirmed + SEND_MAX /\ pNext <= carried
      /\ pUnconfirmed <= peerNext + Ended
  BY <1>2, <1>3 DEF SendInv, AirInv, CursorInv
<1>5. Near(sendNext') /\ Position(sendNext') = pNext + 1
  BY <1>1, <1>3, <1>4, SendConstants, AdvanceNear DEF pNext
<1>6. /\ Near(sendHighest')
      /\ Position(sendHighest') = AtLeast(pNext + 1, pHighest)
  BY <1>1, <1>3, <1>5, LaterIs DEF pHighest
<1>7. ControlInv'
  BY <1>1 DEF SendInv, ControlInv
<1>8. AirInv'
  BY <1>1, <1>3, <1>4, SendConstants DEF SendInv, AirInv, HelloPosition
<1>9. CursorInv'
  <2>1. /\ pUnconfirmed' = pUnconfirmed /\ pEnd' = pEnd
        /\ pNext' = pNext + 1 /\ pHighest' = AtLeast(pNext + 1, pHighest)
    BY <1>1, <1>5, <1>6 DEF pUnconfirmed, pNext, pEnd, pHighest
  <2>2. AtLeast(pNext + 1, pHighest) >= pNext + 1 /\ AtLeast(pNext + 1, pHighest) <= pEnd + 1
    BY <1>3, <1>4 DEF AtLeast
  <2>3. {sendUnconfirmed', sendNext', sendEnd', sendHighest'} \subseteq Sequence
    BY <1>1, <1>3, <1>5, <1>6, NearIs
  <2>4. /\ pUnconfirmed' <= pNext' /\ pNext' <= pHighest'
        /\ pHighest' <= pEnd' + Goodbye'
    BY <1>2, <1>3, <1>4, <2>1, <2>2
  <2>5. pEnd' <= pUnconfirmed' + SEND_MAX /\ pEnd' <= StreamLength
    BY <1>3, <1>4, <2>1
  <2>6. pNext' <= carried' + Goodbye' /\ pUnconfirmed' <= peerNext' + Ended'
    BY <1>1, <1>2, <1>3, <1>4, <2>1 DEF SendInv, AirInv
  <2>7. QED
    BY <1>1, <1>2, <2>3, <2>4, <2>5, <2>6 DEF CursorInv
<1>10. RingInv'
  BY <1>1, <1>2, <1>3, KeptStays DEF SendInv, pUnconfirmed
<1>11. RoomInv'
  BY <1>1, <1>2, HelloRoomIs DEF SendInv, RoomInv, Room, pUnconfirmed
<1>12. QED
  BY <1>7, <1>8, <1>9, <1>10, <1>11 DEF SendInv

LEMMA OpenIs ==
  ASSUME SendInv, state = "OPEN"
  PROVE  /\ Established /\ Goodbye = 0 /\ Ended = 0 /\ ~peerEnded /\ goodbyes = {}
         /\ pUnconfirmed <= pNext /\ pNext <= pHighest /\ pHighest <= pEnd
         /\ pEnd <= pUnconfirmed + SEND_MAX /\ pNext <= carried /\ pUnconfirmed <= peerNext
<1>1. Established /\ Goodbye = 0 /\ ~peerEnded /\ goodbyes = {} /\ Ended = 0
  BY DEF SendInv, ControlInv, AirInv, Established, Goodbye, Ended
<1>2. carried \in Nat /\ peerNext \in Nat
  BY SendConstants DEF SendInv, AirInv
<1>3. QED
  BY <1>1, <1>2, CursorsAreNear DEF SendInv, CursorInv

\* A stream that fails stays where it was; it goes on only to say its goodbye.
LEMMA FailsKeeps ==
  ASSUME SendInv, state \in {"CONNECTING", "OPEN"}, state' = "FAILED",
         resendCount' \in {resendCount, resendCount + 1},
         UNCHANGED <<leaving, sendUnconfirmed, sendNext, sendEnd, sendHighest, outgoing,
                     peerWindow, congestionWindow, duplicateAcks, carried,
                     goodbyes, air, news, peerOpen, peerNext, peerRead, peerEnded, promised>>
  PROVE  SendInv'
<1>1. Established' => Established /\ Goodbye = 0 /\ Goodbye' = 0
  BY DEF SendInv, ControlInv, Established, Goodbye
<1>2. ControlInv'
  <2>1. LimitMax \in Nat /\ resendCount \in Nat /\ resendCount <= LimitMax
    BY SendConstants DEF SendInv, ControlInv, LimitMax, AtLeast
  <2>2. resendCount' \in 0 .. LimitMax + 1
    BY <2>1
  <2>3. QED
    BY <2>2 DEF SendInv, ControlInv, LimitMax, AtLeast
<1>3. AirInv'
  BY DEF SendInv, AirInv
<1>4. CursorInv'
  BY <1>1 DEF SendInv, CursorInv, pUnconfirmed, pNext, pEnd, pHighest, Ended
<1>5. RingInv'
  BY <1>1, CursorsAreNear, KeptStays DEF SendInv, pUnconfirmed
<1>6. RoomInv'
  BY <1>1, HelloRoomIs DEF SendInv, RoomInv, Room, pUnconfirmed
<1>7. QED
  BY <1>2, <1>3, <1>4, <1>5, <1>6 DEF SendInv

\* The invariant of the cursors, from what a step says of them.
LEMMA CursorsOfOpen ==
  ASSUME state' = "OPEN",
         {sendUnconfirmed', sendNext', sendEnd', sendHighest'} \subseteq Sequence,
         Position(sendUnconfirmed') <= Position(sendNext'),
         Position(sendNext') <= Position(sendHighest'),
         Position(sendHighest') <= Position(sendEnd'),
         Position(sendEnd') <= Position(sendUnconfirmed') + SEND_MAX,
         Position(sendEnd') <= StreamLength,
         Position(sendNext') <= carried', carried' \in Nat, peerNext' \in Nat,
         Position(sendUnconfirmed') <= peerNext', ~peerEnded'
  PROVE  CursorInv'
<1>1. /\ Position(sendUnconfirmed') \in Nat /\ Position(sendNext') \in Nat
      /\ Position(sendEnd') \in Nat /\ Position(sendHighest') \in Nat
  BY NumberOf, NumbersConstants DEF Sequence
<1>2. Goodbye' = 0 /\ Ended' = 0
  BY DEF Goodbye, Ended
<1>3. /\ Position(sendHighest') <= Position(sendEnd') + Goodbye'
      /\ Position(sendNext') <= carried' + Goodbye'
      /\ Position(sendUnconfirmed') <= peerNext' + Ended'
  BY <1>1, <1>2
<1>4. QED
  BY <1>2, <1>3 DEF CursorInv, pUnconfirmed, pNext, pEnd, pHighest

\* An open stream flushes from a cursor that had been carried.
LEMMA FlushKeeps ==
  ASSUME SendInv, state = "OPEN", state' = "OPEN", NEW next, NEW congestion \in Nat,
         Near(next), Near(sendUnconfirmed'), Near(sendEnd'), peerWindow' \in Nat,
         Flush(next, sendUnconfirmed', sendEnd', peerWindow', congestion),
         Position(sendUnconfirmed') <= Position(next),
         Position(next) <= pEnd, Position(next) <= carried, pEnd <= Position(sendEnd'),
         Position(sendEnd') <= StreamLength,
         Position(sendEnd') <= Position(sendUnconfirmed') + SEND_MAX,
         Position(sendUnconfirmed') <= peerNext,
         UNCHANGED peer, promised' \in Nat, promised <= promised',
         Position(sendUnconfirmed') + peerWindow' <= Room(promised')
  PROVE  AirInv' /\ CursorInv' /\ RoomInv'
<1>1. /\ goodbyes = {} /\ ~peerEnded /\ pHighest <= pEnd /\ Near(sendHighest)
      /\ pHighest \in Nat /\ pEnd \in Nat
  BY OpenIs, CursorsAreNear
<1>2. /\ carried \in 0 .. StreamLength /\ air \subseteq HelloPosition .. carried - 1
      /\ peerNext \in 0 .. carried /\ peerRead \in 0 .. peerNext
      /\ peerNext - peerRead <= PEER_ROOM /\ promised \in Nat
  BY DEF SendInv, AirInv
<1>3. /\ Position(next) \in Nat /\ Position(sendEnd') \in Nat
      /\ Position(sendUnconfirmed') \in Nat
  BY NearIs
<1>4. Position(sendHighest) <= Position(sendEnd') /\ Position(next) <= Position(sendEnd')
  BY <1>1, <1>3 DEF pHighest
<1>5. /\ Near(sendNext') /\ Near(sendHighest')
      /\ Position(next) <= Position(sendNext')
      /\ Position(sendNext') <= Position(sendHighest')
      /\ Position(sendHighest') <= Position(sendEnd')
      /\ carried' \in 0 .. StreamLength /\ carried <= carried'
      /\ Position(sendNext') <= carried'
      /\ air' \subseteq HelloPosition .. carried' - 1 /\ goodbyes' = goodbyes
      /\ carried' = carried \/ carried' <= Position(sendUnconfirmed') + peerWindow'
  BY <1>1, <1>2, <1>4, FlushDone
<1>6. /\ peerNext' = peerNext /\ peerRead' = peerRead /\ peerEnded' = peerEnded
  BY DEF peer
<1>7. AirInv'
  <2>1. peerNext' \in 0 .. carried' /\ peerRead' \in 0 .. peerNext'
    BY <1>2, <1>5, <1>6, SendConstants
  <2>2. goodbyes' = {} /\ ~peerEnded' /\ {} \subseteq HelloPosition .. StreamLength
    BY <1>1, <1>5, <1>6
  <2>3. QED
    BY <1>2, <1>5, <1>6, <2>1, <2>2 DEF AirInv
<1>8. Position(sendNext') \in Nat /\ Position(sendHighest') \in Nat
      /\ sendNext' \in Sequence /\ sendHighest' \in Sequence
      /\ sendUnconfirmed' \in Sequence /\ sendEnd' \in Sequence
  BY <1>5, NearIs
<1>9. Position(sendUnconfirmed') <= Position(sendNext')
  BY <1>3, <1>5, <1>8
<1>10. CursorInv'
  BY <1>1, <1>2, <1>5, <1>6, <1>8, <1>9, CursorsOfOpen
<1>11. RoomInv'
  <2> DEFINE before == carried
             after == carried'
             room == Room(promised)
             now == Room(promised')
             allowed == Position(sendUnconfirmed') + peerWindow'
  <2>1. /\ before \in Int /\ after \in Int /\ room \in Int /\ now \in Int /\ allowed \in Int
        /\ room <= now
    BY <1>2, <1>3, <1>5, RoomIs, SendConstants
  <2>2. before <= room + 1 /\ allowed <= now /\ (after = before \/ after <= allowed)
    BY <1>5 DEF SendInv, RoomInv
  <2>3. Room(promised)' = now
    BY HelloRoomIs DEF Room
  <2> HIDE DEF before, after, room, now, allowed
  <2>4. after <= now + 1
    BY <2>1, <2>2
  <2>5. QED
    BY <2>2, <2>3, <2>4 DEF RoomInv, pUnconfirmed, after, now, allowed
<1>12. QED
  BY <1>7, <1>10, <1>11

LEMMA ResendFromOldestKeeps ==
  ASSUME SendInv, ResendFromOldest,
         UNCHANGED <<leaving, sendUnconfirmed, sendEnd, outgoing, peerWindow,
                     duplicateAcks, news, peer, promised>>
  PROVE  SendInv'
<1>1. state = "OPEN"
  BY DEF ResendFromOldest
<1>2. CASE resendCount >= RESEND_LIMIT
  <2>1. /\ state' = "FAILED" /\ resendCount' = resendCount + 1
        /\ UNCHANGED <<sendNext, sendHighest, congestionWindow, carried, goodbyes, air>>
    BY <1>2 DEF ResendFromOldest, Fail, sent
  <2>2. QED
    BY <1>1, <2>1, FailsKeeps DEF peer
<1>3. CASE ~(resendCount >= RESEND_LIMIT)
  <2>1. /\ state' = "OPEN" /\ resendCount' = resendCount + 1
        /\ congestionWindow' = SEGMENT_MAX
        /\ Flush(sendUnconfirmed, sendUnconfirmed, sendEnd, peerWindow, SEGMENT_MAX)
    BY <1>1, <1>3 DEF ResendFromOldest
  <2>2. ControlInv'
    <3>1. resendCount \in Nat /\ resendCount + 1 <= LimitMax /\ LimitMax \in Nat
      BY <1>3, SendConstants DEF SendInv, ControlInv, LimitMax, AtLeast
    <3>2. QED
      BY <1>1, <2>1, <3>1, SendConstants DEF SendInv, ControlInv, peer, LimitMax, AtLeast
  <2>3. /\ Near(sendUnconfirmed) /\ Near(sendEnd) /\ pUnconfirmed \in Nat /\ pEnd \in Nat
        /\ pNext \in Nat /\ pHighest \in Nat /\ pEnd <= StreamLength
    BY <1>1, OpenIs, CursorsAreNear
  <2>4. /\ pUnconfirmed <= pNext /\ pNext <= pHighest /\ pHighest <= pEnd
        /\ pEnd <= pUnconfirmed + SEND_MAX /\ pNext <= carried /\ pUnconfirmed <= peerNext
        /\ Established
    BY <1>1, OpenIs
  <2>5. carried \in Nat /\ promised \in Nat /\ peerWindow \in Nat
        /\ pUnconfirmed + peerWindow <= Room(promised)
    BY <2>4, SendConstants DEF SendInv, AirInv, RoomInv, ControlInv
  <2>6. AirInv' /\ CursorInv' /\ RoomInv'
    <3>1. /\ sendUnconfirmed' = sendUnconfirmed /\ sendEnd' = sendEnd
          /\ peerWindow' = peerWindow /\ promised' = promised /\ UNCHANGED peer
      OBVIOUS
    <3>2. /\ pUnconfirmed <= pEnd /\ pUnconfirmed <= carried /\ promised <= promised'
          /\ pUnconfirmed <= pUnconfirmed /\ pEnd <= pEnd
      BY <2>3, <2>4, <2>5, <3>1
    <3>3. QED
      BY <1>1, <2>1, <2>3, <2>4, <2>5, <3>1, <3>2, SendConstants, FlushKeeps
         DEF pUnconfirmed, pEnd
  <2>7. RingInv'
    BY <2>1, <2>3, <2>4, KeptStays DEF SendInv, pUnconfirmed
  <2>8. QED
    BY <2>2, <2>6, <2>7 DEF SendInv
<1>4. QED
  BY <1>2, <1>3

LEMMA GiveBackKeeps ==
  ASSUME SendInv, GiveBack
  PROVE  SendInv'
<1>1. ControlInv'
  <2>1. LimitMax \in Nat
    BY SendConstants DEF LimitMax, AtLeast
  <2>2. /\ state' = "CONNECTING" /\ resendCount' = 0 /\ duplicateAcks' = 0
        /\ peerWindow' = SEGMENT_MAX /\ congestionWindow' = SEGMENT_MAX
    BY DEF GiveBack
  <2>3. /\ leaving' = "NO" /\ news' \in BOOLEAN
        /\ peerOpen' \in BOOLEAN /\ peerEnded' \in BOOLEAN
    BY DEF GiveBack
  <2>4. QED
    BY <2>1, <2>2, <2>3, SendConstants DEF ControlInv, LimitMax, AtLeast
<1>2. AirInv'
  BY SendConstants DEF GiveBack, AirInv, HelloPosition
<1>3. CursorInv'
  BY FreshStream DEF GiveBack, CursorInv, Established, pHighest, Position, Sequence
<1>4. RingInv'
  BY FreshStream DEF GiveBack, RingInv, UnconfirmedIsKept, Established
<1>5. RoomInv'
  <2>1. Room(0) \in Nat /\ Room(promised)' = Room(promised')
    BY RoomIs, HelloRoomIs DEF Room
  <2>2. carried' = 0 /\ promised' = 0 /\ ~Established'
    BY DEF GiveBack, Established
  <2>3. QED
    BY <2>1, <2>2 DEF RoomInv
<1>6. QED
  BY <1>1, <1>2, <1>3, <1>4, <1>5 DEF SendInv

LEMMA ResendHelloKeeps ==
  ASSUME SendInv, ResendHello,
         UNCHANGED <<leaving, sendUnconfirmed, sendEnd, outgoing, peerWindow,
                     duplicateAcks, news, peer, promised>>
  PROVE  SendInv'
<1>1. CASE resendCount >= HELLO_LIMIT
  <2>1. /\ state = "CONNECTING" /\ state' = "FAILED" /\ resendCount' = resendCount + 1
        /\ UNCHANGED <<sendNext, sendHighest, congestionWindow, carried, goodbyes, air>>
    BY <1>1 DEF ResendHello, Fail, sent
  <2>2. QED
    BY <2>1, FailsKeeps DEF peer
<1>2. CASE ~(resendCount >= HELLO_LIMIT)
  <2>1. /\ state = "CONNECTING" /\ state' = state
        /\ resendCount' = resendCount + 1 /\ air' = air \cup {HelloPosition}
        /\ UNCHANGED <<sendNext, sendHighest, congestionWindow, carried, goodbyes>>
    BY <1>2 DEF ResendHello
  <2>2. ~Established /\ ~Established'
    BY <2>1 DEF SendInv, ControlInv, Established
  <2>3. ControlInv'
    <3>1. /\ LimitMax \in Nat /\ resendCount \in Nat /\ resendCount + 1 <= LimitMax
      BY <1>2, SendConstants DEF SendInv, ControlInv, LimitMax, AtLeast
    <3>2. resendCount' \in 0 .. LimitMax + 1 /\ resendCount' <= LimitMax
      BY <2>1, <3>1
    <3>3. QED
      BY <2>1, <3>2 DEF SendInv, ControlInv, peer, LimitMax, AtLeast
  <2>4. AirInv'
    <3>1. air' \subseteq HelloPosition .. carried' - 1
      BY <2>1, SendConstants DEF SendInv, AirInv, HelloPosition
    <3>2. QED
      BY <2>1, <3>1 DEF SendInv, AirInv, peer
  <2>5. CursorInv'
    BY <2>1, <2>2 DEF SendInv, CursorInv, pHighest
  <2>6. RingInv'
    BY <2>2, KeptStays DEF SendInv
  <2>7. RoomInv'
    BY <2>1, <2>2, HelloRoomIs DEF SendInv, RoomInv, Room
  <2>8. QED
    BY <2>3, <2>4, <2>5, <2>6, <2>7 DEF SendInv
<1>3. QED
  BY <1>1, <1>2

LEMMA ResendGoodbyeKeeps ==
  ASSUME SendInv, ResendGoodbye,
         UNCHANGED <<leaving, sendUnconfirmed, sendEnd, outgoing, peerWindow,
                     duplicateAcks, news, peer, promised>>
  PROVE  SendInv'
<1>1. /\ state = "CLOSING" /\ state' = state /\ sendNext' = sendNext
      /\ resendCount' = resendCount /\ congestionWindow' = congestionWindow
      /\ goodbyes' = goodbyes \cup {pNext - 1} /\ carried' = carried /\ air' = air
      /\ sendHighest' = Later(sendNext, sendHighest)
  BY DEF ResendGoodbye, CarryGoodbye, pNext
<1>2. Established /\ Goodbye = 1 /\ Goodbye' = 1 /\ Ended' = Ended
  BY <1>1 DEF Established, Goodbye, Ended, peer
<1>3. /\ Near(sendNext) /\ Near(sendHighest)
      /\ pUnconfirmed \in Nat /\ pNext \in Nat /\ pEnd \in Nat /\ pHighest \in Nat
      /\ pEnd <= StreamLength
  BY <1>2, CursorsAreNear
<1>4. pNext <= pHighest /\ pHighest <= pEnd + 1
  BY <1>2 DEF SendInv, CursorInv
<1>5. Near(sendHighest') /\ Position(sendHighest') = pHighest
  BY <1>1, <1>3, <1>4, LaterIs DEF pHighest, pNext, AtLeast
<1>6. ControlInv'
  BY <1>1 DEF SendInv, ControlInv, peer
<1>7. AirInv'
  <2>1. goodbyes' \subseteq HelloPosition .. StreamLength
    BY <1>1, <1>3, <1>4, SendConstants DEF SendInv, AirInv, HelloPosition
  <2>2. leaving = "PARTING"
    BY <1>1 DEF SendInv, ControlInv
  <2>3. QED
    BY <1>1, <2>1, <2>2 DEF SendInv, AirInv, peer
<1>8. CursorInv'
  <2>1. pHighest' = pHighest /\ sendHighest' \in Sequence
    BY <1>5, NearIs DEF pHighest
  <2>2. QED
    BY <1>1, <1>2, <2>1
       DEF SendInv, CursorInv, Established, pUnconfirmed, pNext, pEnd, peer
<1>9. RingInv'
  BY <1>1, <1>2, <1>3, KeptStays DEF SendInv, pUnconfirmed
<1>10. RoomInv'
  BY <1>1, HelloRoomIs DEF SendInv, RoomInv, Room, Established, pUnconfirmed
<1>11. QED
  BY <1>6, <1>7, <1>8, <1>9, <1>10 DEF SendInv

LEMMA ProbeKeeps ==
  ASSUME SendInv, Probe,
         UNCHANGED <<leaving, sendUnconfirmed, sendEnd, outgoing, peerWindow,
                     duplicateAcks, news, peer, promised>>
  PROVE  SendInv'
<1>1. /\ state = "OPEN" /\ state' = state /\ sendNext = sendUnconfirmed /\ sendEnd # sendNext
      /\ sendNext' = sendNext /\ resendCount' = resendCount
      /\ congestionWindow' = congestionWindow /\ goodbyes' = goodbyes
      /\ carried' = AtLeast(carried, pNext + 1) /\ air' = air \cup pNext .. (pNext + 1) - 1
      /\ sendHighest' = Later((sendNext + 1) % SEQUENCES, sendHighest)
  BY DEF Probe, Carry, ProbeLength, pNext
<1>2. /\ Near(sendUnconfirmed) /\ Near(sendNext) /\ Near(sendEnd) /\ Near(sendHighest)
      /\ pUnconfirmed \in Nat /\ pNext \in Nat /\ pEnd \in Nat /\ pHighest \in Nat
      /\ pEnd <= StreamLength
  BY <1>1, OpenIs, CursorsAreNear
<1>3. /\ Established /\ ~peerEnded /\ goodbyes = {}
      /\ pUnconfirmed <= pNext /\ pNext <= pHighest /\ pHighest <= pEnd
      /\ pEnd <= pUnconfirmed + SEND_MAX /\ pNext <= carried /\ pUnconfirmed <= peerNext
  BY <1>1, OpenIs
<1>4. pNext + 1 <= pEnd
  <2>1. sendNext = Numbered(pNext) /\ sendEnd = Numbered(pEnd)
    BY <1>2, NearIs, NumberOf DEF pNext, pEnd
  <2>2. pNext # pEnd
    BY <1>1, <2>1
  <2>3. QED
    BY <1>2, <1>3, <2>2
<1>5. Near(sendHighest') /\ Position(sendHighest') = AtLeast(pNext + 1, pHighest)
  <2>1. pNext + 1 <= StreamLength + 1
    BY <1>2, <1>4, SendConstants
  <2>2. /\ Near((sendNext + 1) % SEQUENCES)
        /\ Position((sendNext + 1) % SEQUENCES) = pNext + 1
    BY <1>2, <2>1, AdvanceNear DEF pNext
  <2>3. QED
    BY <1>1, <1>2, <2>2, LaterIs DEF pHighest
<1>6. /\ carried \in 0 .. StreamLength /\ air \subseteq HelloPosition .. carried - 1
      /\ peerNext \in 0 .. carried /\ promised \in Nat /\ peerWindow \in Nat
  BY DEF SendInv, AirInv, ControlInv
<1>7. carried' \in 0 .. StreamLength /\ carried <= carried'
      /\ (carried' = carried \/ carried' = pNext + 1) /\ pNext + 1 <= carried'
  BY <1>1, <1>2, <1>4, <1>6, SendConstants DEF AtLeast
<1>8. ControlInv'
  BY <1>1 DEF SendInv, ControlInv, peer
<1>9. AirInv'
  <2>1. air' \subseteq HelloPosition .. carried' - 1
    BY <1>1, <1>2, <1>6, <1>7, SendConstants DEF HelloPosition
  <2>2. peerNext' \in 0 .. carried'
    BY <1>6, <1>7, SendConstants DEF peer
  <2>3. QED
    BY <1>1, <1>7, <2>1, <2>2 DEF SendInv, AirInv, peer
<1>10. CursorInv'
  <2>1. /\ AtLeast(pNext + 1, pHighest) >= pNext /\ AtLeast(pNext + 1, pHighest) <= pEnd
    BY <1>2, <1>3, <1>4 DEF AtLeast
  <2>2. /\ Position(sendUnconfirmed') = pUnconfirmed /\ Position(sendNext') = pNext
        /\ Position(sendEnd') = pEnd
    BY <1>1 DEF pUnconfirmed, pNext, pEnd
  <2>3. {sendUnconfirmed', sendNext', sendEnd', sendHighest'} \subseteq Sequence
    BY <1>1, <1>2, <1>5, NearIs
  <2>4. peerNext' = peerNext /\ ~peerEnded' /\ peerNext \in Nat /\ carried' \in Nat
        /\ pNext <= carried'
    BY <1>2, <1>3, <1>6, <1>7, SendConstants DEF peer
  <2>5. QED
    BY <1>1, <1>2, <1>3, <1>5, <2>1, <2>2, <2>3, <2>4, CursorsOfOpen
<1>11. RingInv'
  BY <1>1, <1>2, <1>3, KeptStays DEF SendInv, pUnconfirmed
<1>12. RoomInv'
  <2> DEFINE after == carried'
             room == Room(promised)
  <2>1. room \in Nat
    BY <1>6, RoomIs
  <2>2. carried <= room + 1 /\ pUnconfirmed + peerWindow <= room
    BY <1>3 DEF SendInv, RoomInv
  <2>3. pUnconfirmed = pNext /\ (after = carried \/ after = pNext + 1)
    BY <1>1, <1>7 DEF pUnconfirmed, pNext
  <2>4. Room(promised)' = room /\ pUnconfirmed' = pUnconfirmed /\ peerWindow' = peerWindow
    BY HelloRoomIs DEF Room, pUnconfirmed
  <2> HIDE DEF after, room
  <2>5. after <= room + 1
    BY <1>2, <1>6, <2>1, <2>2, <2>3, SendConstants
  <2>6. QED
    BY <2>2, <2>4, <2>5 DEF RoomInv, after, room
<1>13. QED
  BY <1>8, <1>9, <1>10, <1>11, <1>12 DEF SendInv

\* What is written goes into slots nothing unconfirmed is in.
LEMMA WrittenFits ==
  ASSUME RingInv, Established, Near(sendUnconfirmed), Near(sendEnd),
         pUnconfirmed <= pEnd, NEW take \in Nat, pEnd + take <= pUnconfirmed + SEND_MAX,
         sendUnconfirmed' = sendUnconfirmed, Position(sendEnd') = pEnd + take,
         outgoing' = [slot \in DOMAIN outgoing |->
            LET offset == (slot - sendEnd) % SEND_MAX
            IN  IF offset < take THEN Position(sendEnd) + offset ELSE outgoing[slot]]
  PROVE  RingInv'
<1>1. /\ pUnconfirmed \in Nat /\ pEnd \in Nat /\ sendEnd \in Int
      /\ sendEnd = Numbered(pEnd)
  BY NearIs, NumberOf, NumbersConstants DEF pUnconfirmed, pEnd, Sequence
<1>2. outgoing \in [0 .. SEND_MAX - 1 -> Int] /\ DOMAIN outgoing = 0 .. SEND_MAX - 1
  BY DEF RingInv
<1> DEFINE offset(slot) == (slot - sendEnd) % SEND_MAX
<1>3. ASSUME NEW slot \in 0 .. SEND_MAX - 1
      PROVE  /\ offset(slot) \in 0 .. SEND_MAX - 1
             /\ outgoing'[slot] = IF offset(slot) < take THEN pEnd + offset(slot) ELSE outgoing[slot]
  <2>1. slot - sendEnd \in Int
    BY <1>1, <1>3, SendConstants
  <2>2. offset(slot) \in 0 .. SEND_MAX - 1
    BY <2>1, SendConstants, Remainder
  <2>3. outgoing'[slot] = IF offset(slot) < take THEN pEnd + offset(slot) ELSE outgoing[slot]
    BY <1>2, <1>3 DEF pEnd
  <2>4. QED
    BY <2>2, <2>3
<1> HIDE DEF offset
<1>4. outgoing' \in [0 .. SEND_MAX - 1 -> Int]
  <2>1. outgoing' = [slot \in 0 .. SEND_MAX - 1 |-> outgoing'[slot]]
    BY <1>2
  <2>2. ASSUME NEW slot \in 0 .. SEND_MAX - 1
        PROVE  outgoing'[slot] \in Int
    <3>1. outgoing[slot] \in Int /\ offset(slot) \in Int
      BY <1>2, <1>3
    <3>2. pEnd + offset(slot) \in Int
      BY <1>1, <3>1
    <3>3. CASE offset(slot) < take
      BY <1>3, <3>2, <3>3, Zenon
    <3>4. CASE ~(offset(slot) < take)
      BY <1>3, <3>1, <3>4, Zenon
    <3>5. QED
      BY <3>3, <3>4
  <2>3. QED
    BY <2>1, <2>2
<1>5. ASSUME NEW p \in pUnconfirmed .. (pEnd + take) - 1
      PROVE  outgoing'[Slot(Numbered(p))] = p
  <2> DEFINE slot == Slot(Numbered(p))
             away == p - pEnd
  <2>1. p \in Int /\ away \in Int /\ pEnd \in Int /\ away >= - SEND_MAX /\ away < take
        /\ take <= SEND_MAX
    BY <1>1, <1>5, SendConstants
  <2>2. slot \in 0 .. SEND_MAX - 1 /\ offset(slot) = away % SEND_MAX
    BY <1>1, <2>1, SendConstants, RingOffset DEF offset, Slot
  <2>3. outgoing'[slot] = IF offset(slot) < take THEN pEnd + offset(slot) ELSE outgoing[slot]
    BY <1>3, <2>2
  <2> HIDE DEF slot
  <2>4. CASE p >= pEnd
    <3>1. away \in 0 .. SEND_MAX - 1
      BY <1>1, <2>1, <2>4, SendConstants
    <3>2. away % SEND_MAX = away
      BY <3>1, <2>1, SendConstants, SmallRemainder
    <3>3. offset(slot) = away /\ away < take
      BY <2>1, <2>2, <3>2
    <3>4. outgoing'[slot] = pEnd + away
      BY <2>3, <3>3
    <3>5. QED
      BY <1>1, <2>1, <3>4 DEF slot
  <2>5. CASE p < pEnd
    <3>1. away \in - SEND_MAX .. -1
      BY <1>1, <2>1, <2>5, SendConstants
    <3>2. away % SEND_MAX = away + SEND_MAX
      BY <3>1, <2>1, SendConstants, SmallRemainder
    <3>3. ~(offset(slot) < take)
      BY <1>1, <1>5, <2>1, <2>2, <3>2, SendConstants
    <3>4. outgoing[slot] = p
      BY <1>1, <1>5, <2>1, <2>5 DEF RingInv, UnconfirmedIsKept, pUnconfirmed, pEnd, slot
    <3>5. QED
      BY <2>3, <3>3, <3>4 DEF slot
  <2>6. QED
    BY <1>1, <2>1, <2>4, <2>5
<1>6. Position(sendUnconfirmed') = pUnconfirmed /\ Position(sendEnd') = pEnd + take
  BY DEF pUnconfirmed
<1>7. \A p \in Position(sendUnconfirmed') .. Position(sendEnd') - 1 :
         outgoing'[Slot(Numbered(p))] = p
  BY <1>5, <1>6
<1>8. QED
  BY <1>4, <1>7 DEF RingInv, UnconfirmedIsKept

LEMMA WriteKeeps ==
  ASSUME SendInv, NEW n \in 1 .. StreamLength, Write(n)
  PROVE  SendInv'
<1> DEFINE take == AtMost(n, SendRoom)
<1>1. /\ state = "OPEN" /\ state' = state /\ pEnd + n <= StreamLength /\ take > 0
      /\ sendEnd' = (sendEnd + take) % SEQUENCES
      /\ outgoing' = [slot \in DOMAIN outgoing |->
            LET offset == (slot - sendEnd) % SEND_MAX
            IN  IF offset < take THEN Position(sendEnd) + offset ELSE outgoing[slot]]
      /\ UNCHANGED <<leaving, sendUnconfirmed, peerWindow, congestionWindow, duplicateAcks,
                     resendCount, news, peer, promised>>
  BY DEF Write, pEnd, control
<1>2. Flush(sendNext, sendUnconfirmed, sendEnd', peerWindow, congestionWindow)
  BY DEF Write
<1>3. /\ Near(sendUnconfirmed) /\ Near(sendNext) /\ Near(sendEnd)
      /\ pUnconfirmed \in Nat /\ pNext \in Nat /\ pEnd \in Nat /\ pHighest \in Nat
  BY <1>1, OpenIs, CursorsAreNear
<1>4. /\ Established /\ pUnconfirmed <= pNext /\ pNext <= pHighest /\ pHighest <= pEnd
      /\ pEnd <= pUnconfirmed + SEND_MAX /\ pNext <= carried /\ pUnconfirmed <= peerNext
  BY <1>1, OpenIs
<1>5. take \in Nat /\ take <= n /\ pEnd + take <= pUnconfirmed + SEND_MAX
  <2>1. Apart(sendEnd, sendUnconfirmed) = pEnd - pUnconfirmed
    BY <1>3, <1>4, NearIs, ApartIs DEF pEnd, pUnconfirmed
  <2>2. SendRoom = SEND_MAX - (pEnd - pUnconfirmed)
    BY <2>1 DEF SendRoom
  <2>3. SendRoom \in Nat
    BY <1>3, <1>4, <2>2, SendConstants
  <2>4. take \in Nat /\ take <= n /\ take <= SendRoom
    BY <2>3 DEF AtMost
  <2> HIDE DEF take
  <2>5. QED
    BY <1>3, <2>2, <2>3, <2>4, SendConstants
<1> HIDE DEF take
<1>6. Near(sendEnd') /\ Position(sendEnd') = pEnd + take /\ pEnd + take <= StreamLength
  <2>1. pEnd + take <= StreamLength /\ pEnd + take <= StreamLength + 1
    BY <1>1, <1>3, <1>5, SendConstants
  <2>2. QED
    BY <1>1, <1>3, <1>5, <2>1, AdvanceNear DEF pEnd
<1>7. ControlInv'
  BY <1>1 DEF SendInv, ControlInv, peer, LimitMax, AtLeast
<1>8. AirInv' /\ CursorInv' /\ RoomInv'
  <2>1. peerWindow \in Nat /\ congestionWindow \in Nat /\ promised \in Nat
        /\ pUnconfirmed + peerWindow <= Room(promised)
    BY <1>4 DEF SendInv, ControlInv, AirInv, RoomInv
  <2>2. /\ state' = "OPEN" /\ sendUnconfirmed' = sendUnconfirmed /\ peerWindow' = peerWindow
        /\ promised' = promised /\ UNCHANGED peer
    BY <1>1
  <2>3. /\ pNext <= pEnd /\ pEnd <= pEnd + take /\ promised <= promised
        /\ pEnd + take <= StreamLength /\ pEnd + take <= pUnconfirmed + SEND_MAX
    BY <1>3, <1>4, <1>5, <1>6, <2>1
  <2>4. Flush(sendNext, sendUnconfirmed', sendEnd', peerWindow', congestionWindow)
    BY <1>2, <2>2
  <2>5. QED
    BY <1>1, <1>3, <1>4, <1>6, <2>1, <2>2, <2>3, <2>4, FlushKeeps
       DEF pUnconfirmed, pNext
<1>9. RingInv'
  BY <1>1, <1>3, <1>4, <1>5, <1>6, WrittenFits DEF SendInv
<1>10. QED
  BY <1>7, <1>8, <1>9 DEF SendInv

LEMMA CongestionNat == Congestion \subseteq Nat
<1> DEFINE most == (SEND_MAX + SEGMENT_MAX - 1) \div SEGMENT_MAX
<1>1. most \in Int
  <2>1. SEND_MAX + SEGMENT_MAX - 1 \in Int
    BY SendConstants
  <2>2. QED
    BY <2>1, SendConstants, Remainder
<1> HIDE DEF most
<1>2. \A k \in 1 .. most : SEGMENT_MAX * k \in Nat
  BY <1>1, SendConstants
<1>3. QED
  BY <1>2 DEF Congestion, most

LEMMA AllowsMore ==
  ASSUME AirInv, NEW m, MessageOK(m)
  PROVE  /\ Allows(m) \in Nat /\ promised <= Allows(m)
         /\ Position(m.acknowledgment) \in Nat
         /\ Position(m.acknowledgment) + Offered(m) <= Room(Allows(m))
<1>1. promised \in Nat /\ Meant(m) \in Nat /\ m.acknowledgment \in Sequence
      /\ Offered(m) \in Nat
      /\ (Offered(m) = Meant(m) \/ (Position(m.acknowledgment) = 0 /\ Offered(m) = HelloRoom))
  BY DEF AirInv, MessageOK
<1>2. Position(m.acknowledgment) \in Nat
  BY <1>1, NumberOf, NumbersConstants DEF Sequence
<1>3. /\ Allows(m) \in Nat /\ promised <= Allows(m)
      /\ Position(m.acknowledgment) + Meant(m) <= Allows(m)
  BY <1>1, <1>2 DEF Allows, AtLeast
<1>4. Room(Allows(m)) \in Nat /\ Allows(m) <= Room(Allows(m)) /\ HelloRoom <= Room(Allows(m))
  BY <1>3, RoomIs
<1>5. QED
  BY <1>1, <1>2, <1>3, <1>4, HelloRoomIs

LEMMA TakeHelloAnswerKeeps ==
  ASSUME SendInv, NEW m, MessageOK(m), TakeHelloAnswer(m),
         UNCHANGED <<leaving, outgoing, peer>>, news' \in BOOLEAN
  PROVE  SendInv'
<1>1. /\ state = "CONNECTING" /\ state' = "OPEN"
      /\ sendUnconfirmed' = Numbered(0) /\ sendEnd' = Numbered(0) /\ sendNext' = Numbered(0)
      /\ peerWindow' = Offered(m) /\ congestionWindow' \in Congestion /\ promised' = Allows(m)
      /\ UNCHANGED <<sendHighest, duplicateAcks, resendCount, carried, goodbyes, air>>
      /\ UNCHANGED <<peerNext, peerRead, peerOpen, peerEnded>>
  BY DEF TakeHelloAnswer, sent, peer
<1>2. /\ carried = 0 /\ peerNext = 0 /\ ~peerEnded /\ goodbyes = {} /\ pHighest = 0
      /\ sendHighest \in Sequence /\ promised \in Nat
  BY <1>1, SendConstants DEF SendInv, ControlInv, AirInv, CursorInv
<1>3. /\ Allows(m) \in Nat /\ promised <= Allows(m)
      /\ Position(m.acknowledgment) \in Nat
      /\ Position(m.acknowledgment) + Offered(m) <= Room(Allows(m))
  BY AllowsMore DEF SendInv
<1>4. Offered(m) \in Nat
  BY DEF MessageOK
<1>5. ControlInv'
  BY <1>1, <1>4, CongestionNat DEF SendInv, ControlInv, LimitMax, AtLeast
<1>6. AirInv'
  BY <1>1, <1>2, <1>3 DEF SendInv, AirInv
<1>7. CursorInv'
  <2>1. /\ Position(sendUnconfirmed') = 0 /\ Position(sendNext') = 0 /\ Position(sendEnd') = 0
        /\ Position(sendHighest') = 0
        /\ {sendUnconfirmed', sendNext', sendEnd', sendHighest'} \subseteq Sequence
    BY <1>1, <1>2, FreshStream DEF pHighest
  <2>2. carried' \in Nat /\ peerNext' \in Nat /\ ~peerEnded' /\ 0 <= carried' /\ 0 <= peerNext'
    BY <1>1, <1>2
  <2>3. QED
    BY <1>1, <2>1, <2>2, SendConstants, CursorsOfOpen
<1>8. RingInv'
  <2>1. Position(sendUnconfirmed') .. Position(sendEnd') - 1 = {}
    BY <1>1, FreshStream
  <2>2. QED
    BY <1>1, <2>1 DEF SendInv, RingInv, UnconfirmedIsKept
<1>9. RoomInv'
  <2>1. Position(sendUnconfirmed') = 0 /\ carried' = 0
    BY <1>1, <1>2, FreshStream
  <2>2. Room(promised)' = Room(Allows(m)) /\ Room(Allows(m)) \in Nat
    BY <1>1, <1>3, HelloRoomIs, RoomIs DEF Room
  <2>3. 0 + peerWindow' <= Room(Allows(m)) /\ 0 <= Room(Allows(m)) + 1
    BY <1>1, <1>3, <1>4, <2>2
  <2>4. QED
    BY <2>1, <2>2, <2>3 DEF RoomInv, pUnconfirmed
<1>10. QED
  BY <1>5, <1>6, <1>7, <1>8, <1>9 DEF SendInv

\* What an acknowledgement does to what is confirmed.
LEMMA ConfirmedIs ==
  ASSUME SendInv, Established, NEW m, MessageOK(m), TakeAcknowledgement(m)
  PROVE  /\ Near(sendUnconfirmed') /\ Near(m.acknowledgment)
         /\ pUnconfirmed <= Position(sendUnconfirmed')
         /\ Position(sendUnconfirmed') <= pHighest
         /\ Position(sendUnconfirmed') <= peerNext + Ended
         /\ sendUnconfirmed' \in {sendUnconfirmed, m.acknowledgment}
         /\ IsDuplicate(m) => sendUnconfirmed' = sendUnconfirmed
<1>1. /\ Near(sendUnconfirmed) /\ Near(sendHighest)
      /\ pUnconfirmed \in Nat /\ pNext \in Nat /\ pHighest \in Nat
  BY CursorsAreNear
<1>2. pUnconfirmed <= pNext /\ pNext <= pHighest /\ pUnconfirmed <= peerNext + Ended
  BY DEF SendInv, CursorInv
<1>3. Near(m.acknowledgment) /\ Position(m.acknowledgment) \in Nat
  <2>1. peerNext \in Nat /\ peerNext <= StreamLength /\ Ended \in {0, 1}
    BY SendConstants DEF SendInv, AirInv, Ended
  <2>2. /\ m.acknowledgment \in Sequence /\ Position(m.acknowledgment) <= peerNext + Ended
    BY DEF MessageOK
  <2>3. Position(m.acknowledgment) \in Nat
    BY <2>2, NumberOf, NumbersConstants DEF Sequence
  <2>4. Position(m.acknowledgment) <= StreamLength + 1
    BY <2>1, <2>2, <2>3, SendConstants
  <2>5. QED
    BY <2>2, <2>3, <2>4 DEF Near
<1>4. \/ sendUnconfirmed' = sendUnconfirmed
      \/ ~IsDuplicate(m) /\ Confirms(m) /\ sendUnconfirmed' = m.acknowledgment
  BY DEF TakeAcknowledgement, Confirmed
<1>5. CASE sendUnconfirmed' = sendUnconfirmed
  BY <1>1, <1>2, <1>3, <1>5 DEF pUnconfirmed
<1>6. CASE ~IsDuplicate(m) /\ Confirms(m) /\ sendUnconfirmed' = m.acknowledgment
  <2>1. /\ isAfter(m.acknowledgment, sendUnconfirmed)
        /\ ~isAfter(m.acknowledgment, sendHighest)
    BY <1>6 DEF Confirms
  <2>2. /\ Position(m.acknowledgment) > pUnconfirmed
        /\ ~(Position(m.acknowledgment) > pHighest)
    BY <1>1, <1>3, <2>1, LaterIs DEF pUnconfirmed, pHighest
  <2>3. /\ Position(m.acknowledgment) >= pUnconfirmed
        /\ Position(m.acknowledgment) <= pHighest
    BY <1>1, <1>3, <2>2
  <2>4. Position(m.acknowledgment) <= peerNext + Ended
    BY DEF MessageOK
  <2>5. QED
    BY <1>1, <1>3, <1>6, <2>3, <2>4
<1>7. QED
  BY <1>4, <1>5, <1>6

\* The window it leaves reaches no further than what was ever allowed.
LEMMA WindowIs ==
  ASSUME SendInv, Established, NEW m, MessageOK(m), TakeAcknowledgement(m)
  PROVE  /\ peerWindow' \in Nat
         /\ Position(sendUnconfirmed') + peerWindow' <= Room(Allows(m))
<1>1. /\ Near(sendUnconfirmed') /\ Near(m.acknowledgment)
      /\ sendUnconfirmed' \in {sendUnconfirmed, m.acknowledgment}
  BY ConfirmedIs
<1>2. /\ Position(sendUnconfirmed') \in Nat
      /\ Allows(m) \in Nat /\ promised <= Allows(m) /\ Position(m.acknowledgment) \in Nat
      /\ Position(m.acknowledgment) + Offered(m) <= Room(Allows(m))
  BY <1>1, NearIs, AllowsMore DEF SendInv
<1>3. Offered(m) \in Nat /\ peerWindow \in Nat /\ promised \in Nat
  BY DEF SendInv, ControlInv, AirInv, MessageOK
<1>4. peerWindow' = WindowAfter(m) /\ Room(promised) <= Room(Allows(m))
      /\ Room(promised) \in Nat /\ Room(Allows(m)) \in Nat
  BY <1>2, <1>3, RoomIs DEF TakeAcknowledgement
<1>5. CASE isAtOrAfter(m.acknowledgment, sendUnconfirmed')
  <2>1. peerWindow' = Offered(m)
    BY <1>4, <1>5 DEF WindowAfter
  <2>2. Position(m.acknowledgment) >= Position(sendUnconfirmed')
    BY <1>1, <1>5, LaterIs
  <2> DEFINE u == Position(sendUnconfirmed')
             w == peerWindow'
             a == Position(m.acknowledgment)
             room == Room(Allows(m))
  <2>3. /\ u \in Nat /\ a \in Nat /\ w \in Nat /\ room \in Nat /\ a >= u
        /\ a + w <= room
    BY <1>2, <1>3, <1>4, <2>1, <2>2
  <2> HIDE DEF u, w, a, room
  <2>4. w \in Nat /\ u + w <= room
    BY <2>3
  <2>5. QED
    BY <2>4 DEF u, w, room
<1>6. CASE ~isAtOrAfter(m.acknowledgment, sendUnconfirmed')
  <2>1. peerWindow' = peerWindow
    BY <1>4, <1>6 DEF WindowAfter
  <2>2. ~(Position(m.acknowledgment) >= Position(sendUnconfirmed'))
    BY <1>1, <1>6, LaterIs
  <2>3. sendUnconfirmed' = sendUnconfirmed
    BY <1>1, <1>2, <2>2
  <2>4. pUnconfirmed + peerWindow <= Room(promised)
    BY DEF SendInv, RoomInv
  <2>5. pUnconfirmed \in Nat
    BY CursorsAreNear
  <2>6. pUnconfirmed + peerWindow <= Room(Allows(m))
    BY <1>3, <1>4, <2>4, <2>5
  <2>7. QED
    BY <1>3, <2>1, <2>3, <2>6 DEF pUnconfirmed
<1>7. QED
  BY <1>5, <1>6

LEMMA TakeAcknowledgementKeeps ==
  ASSUME SendInv, NEW m, MessageOK(m), TakeAcknowledgement(m),
         UNCHANGED <<leaving, outgoing, peer>>, news' \in BOOLEAN
  PROVE  SendInv'
<1> DEFINE rewound == IsDuplicate(m) /\ duplicateAcks + 1 = DUPLICATE_ACKS_LOST
           next == IF rewound THEN sendUnconfirmed ELSE Onward(sendUnconfirmed')
<1>1. /\ state \in {"OPEN", "CLOSING"} /\ state' = state /\ sendEnd' = sendEnd
      /\ promised' = Allows(m)
      /\ UNCHANGED <<leaving, outgoing, peerNext, peerRead, peerOpen, peerEnded>>
  BY DEF TakeAcknowledgement, peer
<1>2. /\ state = "OPEN" =>
            Flush(next, sendUnconfirmed', sendEnd, peerWindow', congestionWindow')
      /\ state # "OPEN" => sendNext' = next /\ UNCHANGED <<sendHighest, sent>>
  BY DEF TakeAcknowledgement
<1>3. Established /\ Established' /\ Goodbye' = Goodbye /\ Ended' = Ended
  BY <1>1 DEF Established, Goodbye, Ended
<1>4. /\ Near(sendUnconfirmed) /\ Near(sendNext) /\ Near(sendEnd) /\ Near(sendHighest)
      /\ pUnconfirmed \in Nat /\ pNext \in Nat /\ pEnd \in Nat /\ pHighest \in Nat
      /\ pEnd <= StreamLength
  BY <1>3, CursorsAreNear
<1>5. /\ pUnconfirmed <= pNext /\ pNext <= pHighest /\ pHighest <= pEnd + Goodbye
      /\ pEnd <= pUnconfirmed + SEND_MAX /\ pNext <= carried + Goodbye
      /\ pUnconfirmed <= peerNext + Ended
  BY <1>3 DEF SendInv, CursorInv
<1>6. /\ Near(sendUnconfirmed') /\ pUnconfirmed <= Position(sendUnconfirmed')
      /\ Position(sendUnconfirmed') <= pHighest
      /\ Position(sendUnconfirmed') <= peerNext + Ended
      /\ IsDuplicate(m) => sendUnconfirmed' = sendUnconfirmed
      /\ Position(sendUnconfirmed') \in Nat
  BY <1>3, ConfirmedIs, NearIs
<1>7. /\ peerWindow' \in Nat
      /\ Position(sendUnconfirmed') + peerWindow' <= Room(promised')
  BY <1>1, <1>3, WindowIs
<1>8. promised' \in Nat /\ promised <= promised'
  BY <1>1, AllowsMore DEF SendInv
<1>9. /\ carried \in 0 .. StreamLength /\ peerNext \in 0 .. carried
      /\ Goodbye \in {0, 1} /\ Ended \in {0, 1}
      /\ (state = "OPEN" => Goodbye = 0 /\ Ended = 0) /\ (state # "OPEN" => Goodbye = 1)
  BY <1>1 DEF SendInv, ControlInv, AirInv, Goodbye, Ended
\* the cursor the step goes on from
<1>10. /\ Near(next) /\ Position(sendUnconfirmed') <= Position(next)
       /\ Position(next) <= pHighest /\ Position(next) <= carried + Goodbye
  <2>1. CASE rewound
    <3>1. next = sendUnconfirmed /\ sendUnconfirmed' = sendUnconfirmed
      BY <1>6, <2>1
    <3>2. Position(sendUnconfirmed) = pUnconfirmed
      BY DEF pUnconfirmed
    <3>3. pUnconfirmed <= pHighest /\ pUnconfirmed <= carried + Goodbye
      BY <1>4, <1>5, <1>9, SendConstants
    <3> HIDE DEF next
    <3>4. QED
      BY <1>4, <3>1, <3>2, <3>3
  <2>2. CASE ~rewound
    <3>1. next = Later(sendUnconfirmed', sendNext)
      BY <2>2 DEF Onward
    <3> HIDE DEF next
    <3>2. Near(next) /\ Position(next) = AtLeast(Position(sendUnconfirmed'), pNext)
      BY <1>4, <1>6, <3>1, LaterIs DEF pNext
    <3>3. Position(next) \in {Position(sendUnconfirmed'), pNext}
          /\ Position(next) >= Position(sendUnconfirmed')
      BY <1>4, <1>6, <3>2 DEF AtLeast
    <3>4. Position(sendUnconfirmed') <= carried + Goodbye
      BY <1>6, <1>9, SendConstants
    <3> DEFINE n == Position(next)
               u == Position(sendUnconfirmed')
    <3>5. n \in {u, pNext} /\ n >= u /\ u \in Nat /\ u <= carried + Goodbye /\ u <= pHighest
      BY <1>6, <3>3, <3>4
    <3> HIDE DEF n, u
    <3>6. u <= n /\ n <= pHighest /\ n <= carried + Goodbye
      BY <1>4, <1>5, <1>9, <3>5, SendConstants
    <3>7. QED
      BY <3>2, <3>6 DEF n, u
  <2>3. QED
    BY <2>1, <2>2
<1> HIDE DEF next
<1>11. ControlInv'
  <2>1. duplicateAcks' \in 0 .. DUPLICATE_ACKS_LOST + 1
    <3>1. duplicateAcks \in 0 .. DUPLICATE_ACKS_LOST + 1
      BY DEF SendInv, ControlInv
    <3>2. duplicateAcks' \in {0, duplicateAcks, AtMost(duplicateAcks + 1, DUPLICATE_ACKS_LOST + 1)}
      BY DEF TakeAcknowledgement
    <3>3. AtMost(duplicateAcks + 1, DUPLICATE_ACKS_LOST + 1) \in 0 .. DUPLICATE_ACKS_LOST + 1
      BY <3>1, SendConstants DEF AtMost
    <3>4. QED
      BY <3>1, <3>2, <3>3, SendConstants
  <2>2. resendCount' \in {0, resendCount}
    BY DEF TakeAcknowledgement
  <2>3. congestionWindow' \in Nat
    <3>1. congestionWindow' = congestionWindow \/ congestionWindow' \in Congestion
      BY DEF TakeAcknowledgement
    <3>2. QED
      BY <3>1, CongestionNat DEF SendInv, ControlInv
  <2>4. LimitMax \in Nat /\ resendCount \in 0 .. LimitMax + 1
        /\ (state = "OPEN" => resendCount <= LimitMax)
    BY <1>1, SendConstants DEF SendInv, ControlInv, LimitMax, AtLeast
  <2>5. resendCount' \in 0 .. LimitMax + 1 /\ (state = "OPEN" => resendCount' <= LimitMax)
    BY <2>2, <2>4
  <2>6. QED
    BY <1>1, <1>7, <2>1, <2>3, <2>5 DEF SendInv, ControlInv, LimitMax, AtLeast
<1>12. RingInv'
  BY <1>1, <1>3, <1>4, <1>6, KeptStays DEF SendInv, pUnconfirmed
<1>13. pEnd <= Position(sendUnconfirmed') + SEND_MAX
  BY <1>4, <1>5, <1>6, SendConstants
<1>14. CASE state = "OPEN"
  <2>1. /\ Position(next) <= pEnd /\ Position(next) <= carried
        /\ Position(sendUnconfirmed') <= peerNext
    <3>1. Position(next) \in Nat
      BY <1>10, NearIs
    <3>2. QED
      BY <1>4, <1>5, <1>6, <1>9, <1>10, <1>14, <3>1, SendConstants
  <2>2. Flush(next, sendUnconfirmed', sendEnd', peerWindow', congestionWindow')
    BY <1>1, <1>2, <1>14
  <2>3. congestionWindow' \in Nat
    BY <1>11 DEF ControlInv
  <2>4. Near(sendEnd') /\ Position(sendEnd') = pEnd /\ pEnd <= pEnd /\ UNCHANGED peer
        /\ state' = "OPEN"
    BY <1>1, <1>4, <1>14 DEF pEnd, peer
  <2>5. AirInv' /\ CursorInv' /\ RoomInv'
    BY <1>4, <1>6, <1>7, <1>8, <1>10, <1>13, <1>14, <2>1, <2>2, <2>3, <2>4, FlushKeeps
  <2>6. QED
    BY <1>11, <1>12, <2>5 DEF SendInv
<1>15. CASE state # "OPEN"
  <2>1. /\ sendNext' = next
        /\ UNCHANGED <<sendHighest, carried, goodbyes, air>>
    BY <1>2, <1>15 DEF sent
  <2>2. AirInv'
    BY <1>1, <1>8, <2>1 DEF SendInv, AirInv
  <2>3. CursorInv'
    <3>1. {sendUnconfirmed', sendNext', sendEnd', sendHighest'} \subseteq Sequence
      BY <1>1, <1>4, <1>6, <1>10, <2>1, NearIs
    <3>2. /\ pUnconfirmed' = Position(sendUnconfirmed') /\ pNext' = Position(next)
          /\ pEnd' = pEnd /\ pHighest' = pHighest /\ peerNext' = peerNext /\ carried' = carried
      BY <1>1, <2>1 DEF pUnconfirmed, pNext, pEnd, pHighest
    <3>3. /\ pUnconfirmed' <= pNext' /\ pNext' <= pHighest' /\ pHighest' <= pEnd' + Goodbye'
      BY <1>3, <1>5, <1>10, <3>2
    <3>4. /\ pEnd' <= pUnconfirmed' + SEND_MAX /\ pEnd' <= StreamLength
          /\ pNext' <= carried' + Goodbye' /\ pUnconfirmed' <= peerNext' + Ended'
      BY <1>3, <1>4, <1>6, <1>10, <1>13, <3>2
    <3>5. QED
      BY <1>1, <1>3, <3>1, <3>3, <3>4 DEF CursorInv
  <2>4. RoomInv'
    <3> DEFINE now == Room(promised')
    <3>1. /\ now \in Nat /\ Room(promised) \in Nat /\ carried \in Nat
          /\ Room(promised) <= now
      BY <1>8, <1>9, RoomIs, SendConstants DEF SendInv, AirInv
    <3>2. carried <= Room(promised) + 1 /\ Room(promised)' = now
      BY HelloRoomIs DEF SendInv, RoomInv, Room
    <3>3. Position(sendUnconfirmed') + peerWindow' <= now
      BY <1>7
    <3> HIDE DEF now
    <3>4. carried <= now + 1
      BY <3>1, <3>2
    <3>5. QED
      BY <2>1, <3>2, <3>3, <3>4 DEF RoomInv, pUnconfirmed
  <2>5. QED
    BY <1>11, <1>12, <2>2, <2>3, <2>4 DEF SendInv
<1>16. QED
  BY <1>14, <1>15

LEMMA TakesKeeps ==
  ASSUME SendInv, NEW m, MessageOK(m), Takes(m), news' \in BOOLEAN
  PROVE  SendInv'
<1>1. UNCHANGED <<leaving, outgoing, peer>>
  BY DEF Takes
<1>2. CASE TakeHelloAnswer(m)
  BY <1>1, <1>2, TakeHelloAnswerKeeps
<1>3. CASE TakeAcknowledgement(m)
  BY <1>1, <1>3, TakeAcknowledgementKeeps
<1>4. QED
  BY <1>2, <1>3 DEF Takes

LEMMA LatestOK ==
  ASSUME AirInv, peerEnded \in BOOLEAN
  PROVE  MessageOK(Latest)
<1>1. CASE state = "CONNECTING"
  BY <1>1, HelloAnswerOK DEF Latest
<1>2. CASE state # "CONNECTING"
  <2>1. /\ carried \in 0 .. StreamLength /\ peerNext \in 0 .. carried /\ peerRead \in 0 .. peerNext
        /\ peerNext - peerRead <= PEER_ROOM
    BY DEF AirInv
  <2>2. peerNext \in 0 .. peerNext
    BY <2>1, SendConstants
  <2>3. MessageOK(AckOf(peerNext, peerRead, peerEnded))
    BY <2>1, <2>2, AckOK
  <2>4. QED
    BY <1>2, <2>3 DEF Latest
<1>3. QED
  BY <1>1, <1>2

LEMMA TakeLatestKeeps ==
  ASSUME SendInv, TakeLatest
  PROVE  SendInv'
<1>1. MessageOK(Latest)
  BY LatestOK DEF SendInv, ControlInv
<1>2. Takes(Latest) /\ news' \in BOOLEAN
  BY DEF TakeLatest
<1>3. QED
  BY <1>1, <1>2, TakesKeeps

LEMMA TakeStaleKeeps ==
  ASSUME SendInv, TakeStale
  PROVE  SendInv'
<1>1. news' \in BOOLEAN
  BY DEF TakeStale, SendInv, ControlInv
<1>2. CASE Takes(HelloAnswer)
  <2>1. MessageOK(HelloAnswer)
    BY HelloAnswerOK DEF SendInv
  <2>2. QED
    BY <1>1, <1>2, <2>1, TakesKeeps
<1>3. CASE peerEnded /\ Takes(Latest)
  <2>1. MessageOK(Latest)
    BY LatestOK DEF SendInv, ControlInv
  <2>2. QED
    BY <1>1, <1>3, <2>1, TakesKeeps
<1>4. ASSUME NEW n \in 0 .. peerNext, NEW r \in 0 .. AtMost(n, peerRead),
             n - r <= PEER_ROOM, Takes(AckOf(n, r, FALSE))
      PROVE  SendInv'
  <2>1. peerNext \in Nat /\ peerRead \in Nat
    BY SendConstants DEF SendInv, AirInv
  <2>2. r \in 0 .. n
    BY <1>4, <2>1 DEF AtMost
  <2>3. MessageOK(AckOf(n, r, FALSE))
    BY <1>4, <2>2, AckOK DEF SendInv
  <2>4. QED
    BY <1>1, <1>4, <2>3, TakesKeeps
<1>5. QED
  BY <1>2, <1>3, <1>4 DEF TakeStale

LEMMA TakeEndKeeps ==
  ASSUME SendInv, TakeEnd
  PROVE  SendInv'
<1>1. /\ state \in {"CONNECTING", "OPEN", "CLOSING"}
      /\ state' = IF state = "CLOSING" THEN "CLOSED" ELSE "FAILED"
      /\ UNCHANGED <<leaving, sendUnconfirmed, sendNext, sendEnd, sendHighest, outgoing,
                     peerWindow, congestionWindow, duplicateAcks, resendCount, carried,
                     goodbyes, air, news, peerOpen, peerNext, peerRead, peerEnded, promised>>
  BY DEF TakeEnd, cursors, control, sent, peer
<1>2. CASE state # "CLOSING"
  BY <1>1, <1>2, FailsKeeps
<1>3. CASE state = "CLOSING"
  <2>1. state' = "CLOSED" /\ leaving = "PARTING" /\ ~Established'
    BY <1>1, <1>3 DEF SendInv, ControlInv, Established
  <2>2. ControlInv'
    BY <1>1, <2>1 DEF SendInv, ControlInv, LimitMax, AtLeast
  <2>3. AirInv'
    BY <1>1, <2>1 DEF SendInv, AirInv
  <2>4. CursorInv'
    BY <1>1, <2>1 DEF SendInv, CursorInv
  <2>5. RingInv'
    BY <1>1, <2>1, KeptStays DEF SendInv
  <2>6. RoomInv'
    BY <1>1, <2>1, HelloRoomIs DEF SendInv, RoomInv, Room
  <2>7. QED
    BY <2>2, <2>3, <2>4, <2>5, <2>6 DEF SendInv
<1>4. QED
  BY <1>2, <1>3

\* The other end takes what was carried to it, as far as it has room.
LEMMA PeerKeeps ==
  ASSUME SendInv, NEW upTo \in peerNext .. carried, PeerReceives(upTo),
         air' \subseteq air, peerOpen' \in BOOLEAN, peerEnded' \in BOOLEAN,
         peerEnded => peerEnded', leaving # "PARTING" => ~peerEnded'
  PROVE  SendInv'
<1>1. /\ peerNext' = AtMost(upTo, peerRead + PEER_ROOM) /\ news' = TRUE
      /\ UNCHANGED <<state, leaving, sendUnconfirmed, sendNext, sendEnd, sendHighest, outgoing,
                     peerWindow, congestionWindow, duplicateAcks, resendCount, carried,
                     goodbyes, peerRead, promised>>
  BY DEF PeerReceives, cursors, control
<1>2. /\ carried \in 0 .. StreamLength /\ peerNext \in 0 .. carried /\ peerRead \in 0 .. peerNext
      /\ peerNext - peerRead <= PEER_ROOM
  BY DEF SendInv, AirInv
<1>3. /\ peerNext' \in 0 .. carried /\ peerNext <= peerNext' /\ peerRead \in 0 .. peerNext'
      /\ peerNext' - peerRead <= PEER_ROOM
  BY <1>1, <1>2, SendConstants DEF AtMost
<1>4. ControlInv'
  BY <1>1 DEF SendInv, ControlInv, LimitMax, AtLeast
<1>5. AirInv'
  BY <1>1, <1>3 DEF SendInv, AirInv
<1>6. CursorInv'
  <2>1. Ended <= Ended' /\ Ended \in {0, 1} /\ Ended' \in {0, 1}
    BY DEF Ended
  <2>2. /\ Established' = Established /\ pUnconfirmed' = pUnconfirmed /\ pNext' = pNext
        /\ pEnd' = pEnd /\ pHighest' = pHighest /\ Goodbye' = Goodbye
    BY <1>1 DEF Established, pUnconfirmed, pNext, pEnd, pHighest, Goodbye
  <2>3. Established => pUnconfirmed <= peerNext' + Ended'
    <3> DEFINE further == peerNext'
               ended == Ended'
    <3>1. further \in Nat /\ peerNext \in Nat /\ peerNext <= further
          /\ ended \in Int /\ Ended \in Int /\ Ended <= ended
      BY <1>2, <1>3, <2>1, SendConstants
    <3>2. Established => pUnconfirmed <= peerNext + Ended /\ pUnconfirmed \in Nat
      BY CursorsAreNear DEF SendInv, CursorInv
    <3> HIDE DEF further, ended
    <3>3. Established => pUnconfirmed <= further + ended
      BY <3>1, <3>2
    <3>4. QED
      BY <3>3 DEF further, ended
  <2>4. QED
    BY <1>1, <2>2, <2>3 DEF SendInv, CursorInv
<1>7. RingInv'
  <2>1. Established' => Established /\ Position(sendUnconfirmed) \in Nat
    BY <1>1, CursorsAreNear DEF Established, pUnconfirmed
  <2>2. QED
    BY <1>1, <2>1, KeptStays DEF SendInv
<1>8. RoomInv'
  BY <1>1, HelloRoomIs DEF SendInv, RoomInv, Room, Established, pUnconfirmed
<1>9. QED
  BY <1>4, <1>5, <1>6, <1>7, <1>8 DEF SendInv

LEMMA PeerReceivesStaleKeeps ==
  ASSUME SendInv, PeerReceivesStale
  PROVE  SendInv'
<1>1. PICK upTo \in peerNext .. carried : PeerReceives(upTo)
  BY DEF PeerReceivesStale
<1>2. /\ air' \subseteq air /\ peerOpen' \in BOOLEAN /\ peerEnded' \in BOOLEAN
      /\ ~peerEnded /\ ~peerEnded'
  BY DEF PeerReceivesStale, SendInv, ControlInv
<1>3. QED
  BY <1>1, <1>2, PeerKeeps

\* A run of what is in the air is no longer than what was carried and not had.
LEMMA RunIsCarried ==
  ASSUME AirInv, NEW run, run \subseteq air, \A p \in run : p >= peerNext
  PROVE  peerNext + Cardinality(run) \in peerNext .. carried
<1>1. /\ carried \in Nat /\ peerNext \in Nat /\ peerNext <= carried
      /\ air \subseteq HelloPosition .. carried - 1
  BY SendConstants DEF AirInv
<1>2. run \subseteq peerNext .. carried - 1
  BY <1>1, SendConstants DEF HelloPosition
<1>3. IsFiniteSet(peerNext .. carried - 1)
      /\ Cardinality(peerNext .. carried - 1) = carried - peerNext
  <2>1. peerNext \in Int /\ carried - 1 \in Int
    BY <1>1
  <2>2. /\ IsFiniteSet(peerNext .. carried - 1)
        /\ Cardinality(peerNext .. carried - 1) =
              IF peerNext > carried - 1 THEN 0 ELSE (carried - 1) - peerNext + 1
    BY <2>1, FS_Interval
  <2>3. QED
    BY <1>1, <2>2
<1>4. Cardinality(run) \in Nat /\ Cardinality(run) <= carried - peerNext
  BY <1>2, <1>3, FS_Subset, FS_CardinalityType
<1>5. QED
  BY <1>1, <1>4

LEMMA PeerReceivesLatestKeeps ==
  ASSUME SendInv, PeerReceivesLatest
  PROVE  SendInv'
<1> DEFINE run == {p \in air : p >= peerNext /\ peerNext .. p \subseteq air}
           upTo == IF peerEnded THEN peerNext ELSE peerNext + Cardinality(run)
<1>1. PeerReceives(upTo) /\ air' = {} /\ peerOpen' = TRUE /\ peerEnded' = peerEnded
  BY DEF PeerReceivesLatest
<1>2. upTo \in peerNext .. carried
  <2>1. peerNext + Cardinality(run) \in peerNext .. carried
    <3>1. run \subseteq air /\ \A p \in run : p >= peerNext
      OBVIOUS
    <3> HIDE DEF run
    <3>2. QED
      BY <3>1, RunIsCarried DEF SendInv
  <2>2. peerNext \in peerNext .. carried
    BY SendConstants DEF SendInv, AirInv
  <2> HIDE DEF run
  <2>3. QED
    BY <2>1, <2>2
<1> HIDE DEF upTo
<1>3. /\ air' \subseteq air /\ peerOpen' \in BOOLEAN /\ peerEnded' \in BOOLEAN
      /\ peerEnded => peerEnded' /\ (leaving # "PARTING" => ~peerEnded')
  BY <1>1 DEF SendInv, ControlInv, AirInv
<1>4. QED
  BY <1>1, <1>2, <1>3, PeerKeeps

LEMMA PeerReceivesGoodbyeKeeps ==
  ASSUME SendInv, PeerReceivesGoodbye
  PROVE  SendInv'
<1>1. PeerReceives(peerNext) /\ peerNext \in goodbyes
  BY DEF PeerReceivesGoodbye
<1>2. peerNext \in peerNext .. carried
  BY SendConstants DEF SendInv, AirInv
<1>3. leaving = "PARTING"
  BY <1>1 DEF SendInv, AirInv
<1>4. /\ air' \subseteq air /\ peerOpen' \in BOOLEAN /\ peerEnded' \in BOOLEAN
      /\ peerEnded => peerEnded'
  BY DEF PeerReceivesGoodbye, SendInv, ControlInv
<1>5. QED
  BY <1>1, <1>2, <1>3, <1>4, PeerKeeps

LEMMA PeerReadsKeeps ==
  ASSUME SendInv, PeerReads
  PROVE  SendInv'
<1>1. /\ peerRead' = peerNext /\ news' = TRUE
      /\ UNCHANGED <<state, leaving, sendUnconfirmed, sendNext, sendEnd, sendHighest, outgoing,
                     peerWindow, congestionWindow, duplicateAcks, resendCount, carried,
                     goodbyes, air, peerOpen, peerNext, peerEnded, promised>>
  BY DEF PeerReads, cursors, control, sent
<1>2. ControlInv'
  BY <1>1 DEF SendInv, ControlInv, LimitMax, AtLeast
<1>3. AirInv'
  <2>1. peerNext \in 0 .. peerNext /\ peerNext - peerNext <= PEER_ROOM
    BY SendConstants DEF SendInv, AirInv
  <2>2. QED
    BY <1>1, <2>1 DEF SendInv, AirInv
<1>4. CursorInv'
  BY <1>1 DEF SendInv, CursorInv, Established, pUnconfirmed, pNext, pEnd, pHighest,
             Goodbye, Ended
<1>5. RingInv'
  BY <1>1 DEF SendInv, RingInv, UnconfirmedIsKept, Established
<1>6. RoomInv'
  BY <1>1, HelloRoomIs DEF SendInv, RoomInv, Room, Established, pUnconfirmed
<1>7. QED
  BY <1>2, <1>3, <1>4, <1>5, <1>6 DEF SendInv

LEMMA LoseKeeps ==
  ASSUME SendInv, Lose
  PROVE  SendInv'
<1>1. /\ air' \subseteq air /\ news' \in BOOLEAN
      /\ UNCHANGED <<state, leaving, sendUnconfirmed, sendNext, sendEnd, sendHighest, outgoing,
                     peerWindow, congestionWindow, duplicateAcks, resendCount, carried,
                     goodbyes, peerOpen, peerNext, peerRead, peerEnded, promised>>
  BY DEF Lose, cursors, control, peer, SendInv, ControlInv
<1>2. ControlInv'
  BY <1>1 DEF SendInv, ControlInv, LimitMax, AtLeast
<1>3. AirInv'
  BY <1>1 DEF SendInv, AirInv
<1>4. CursorInv'
  BY <1>1 DEF SendInv, CursorInv, Established, pUnconfirmed, pNext, pEnd, pHighest,
             Goodbye, Ended
<1>5. RingInv'
  BY <1>1 DEF SendInv, RingInv, UnconfirmedIsKept, Established
<1>6. RoomInv'
  BY <1>1, HelloRoomIs DEF SendInv, RoomInv, Room, Established, pUnconfirmed
<1>7. QED
  BY <1>2, <1>3, <1>4, <1>5, <1>6 DEF SendInv

LEMMA NextKeeps ==
  ASSUME SendInv, [Next]_vars
  PROVE  SendInv'
<1>1. CASE StartClose
  BY <1>1, StartCloseKeeps
<1>2. CASE SayGoodbye
  BY <1>2, SayGoodbyeKeeps
<1>3. CASE GiveBack
  BY <1>3, GiveBackKeeps
<1>4. CASE Timer
  BY <1>4, ResendHelloKeeps, ResendGoodbyeKeeps, ResendFromOldestKeeps, ProbeKeeps DEF Timer
<1>5. CASE TakeLatest
  BY <1>5, TakeLatestKeeps
<1>6. CASE TakeStale
  BY <1>6, TakeStaleKeeps
<1>7. CASE TakeEnd
  BY <1>7, TakeEndKeeps
<1>8. CASE PeerReceivesStale
  BY <1>8, PeerReceivesStaleKeeps
<1>9. CASE PeerReceivesLatest
  BY <1>9, PeerReceivesLatestKeeps
<1>10. CASE PeerReceivesGoodbye
  BY <1>10, PeerReceivesGoodbyeKeeps
<1>11. CASE PeerReads
  BY <1>11, PeerReadsKeeps
<1>12. CASE Lose
  BY <1>12, LoseKeeps
<1>13. ASSUME NEW n \in 1 .. StreamLength, Write(n)
       PROVE  SendInv'
  BY <1>13, WriteKeeps
<1>14. CASE UNCHANGED vars
  <2>1. UNCHANGED <<state, leaving, sendUnconfirmed, sendNext, sendEnd, sendHighest, outgoing,
                    peerWindow, congestionWindow, duplicateAcks, resendCount, carried,
                    goodbyes, air, news, peerOpen, peerNext, peerRead, peerEnded, promised>>
    BY <1>14 DEF vars, cursors, control, sent, peer
  <2>2. ControlInv'
    BY <2>1 DEF SendInv, ControlInv, LimitMax, AtLeast
  <2>3. AirInv'
    BY <2>1 DEF SendInv, AirInv
  <2>4. CursorInv'
    BY <2>1 DEF SendInv, CursorInv, Established, pUnconfirmed, pNext, pEnd, pHighest,
               Goodbye, Ended
  <2>5. RingInv'
    BY <2>1 DEF SendInv, RingInv, UnconfirmedIsKept, Established
  <2>6. RoomInv'
    BY <2>1, HelloRoomIs DEF SendInv, RoomInv, Room, Established, pUnconfirmed
  <2>7. QED
    BY <2>2, <2>3, <2>4, <2>5, <2>6 DEF SendInv
<1>15. QED
  BY <1>1, <1>2, <1>3, <1>4, <1>5, <1>6, <1>7, <1>8, <1>9, <1>10, <1>11, <1>12, <1>13, <1>14
     DEF Next
-----------------------------------------------------------------------------
(***************************************************************************)
(* The invariant holds of every state of every run.                        *)
(***************************************************************************)
THEOREM SendAlwaysHolds == Spec => []SendInv
<1>1. Init => SendInv
  BY InitSend
<1>2. SendInv /\ [Next]_vars => SendInv'
  BY NextKeeps
<1>3. QED
  BY <1>1, <1>2, PTL DEF Spec

LEMMA InvImplied ==
  ASSUME SendInv
  PROVE  TypeOK /\ CursorsInOrder /\ UnconfirmedIsKept /\ ConfirmedIsHeld
         /\ StaysInsideRoom
<1>1. TypeOK
  <2>1. AtLeast(RESEND_LIMIT, HELLO_LIMIT) = LimitMax
    BY DEF LimitMax
  <2>2. air \subseteq HelloPosition .. StreamLength - 1
    BY SendConstants DEF SendInv, AirInv, HelloPosition
  <2>3. {news, peerOpen, peerEnded} \subseteq BOOLEAN
    BY DEF SendInv, ControlInv
  <2>4. QED
    BY <2>1, <2>2, <2>3 DEF TypeOK, SendInv, ControlInv, AirInv, CursorInv, Sequence
<1>2. CursorsInOrder
  <2>1. SUFFICES ASSUME Established
                 PROVE  /\ pUnconfirmed <= pNext /\ pNext <= pEnd + Goodbye
                        /\ pNext <= pHighest /\ pEnd <= pUnconfirmed + SEND_MAX
    BY DEF CursorsInOrder, pUnconfirmed, pNext, pEnd, pHighest, Goodbye
  <2>2. /\ pUnconfirmed \in Nat /\ pNext \in Nat /\ pEnd \in Nat /\ pHighest \in Nat
        /\ Goodbye \in {0, 1}
    BY <2>1, CursorsAreNear DEF Goodbye
  <2>3. /\ pUnconfirmed <= pNext /\ pNext <= pHighest /\ pHighest <= pEnd + Goodbye
        /\ pEnd <= pUnconfirmed + SEND_MAX
    BY <2>1 DEF SendInv, CursorInv
  <2>4. QED
    BY <2>2, <2>3
<1>3. UnconfirmedIsKept
  BY DEF SendInv, RingInv
<1>4. ConfirmedIsHeld
  BY DEF ConfirmedIsHeld, SendInv, CursorInv, pUnconfirmed, Ended
<1>5. StaysInsideRoom
  BY DEF StaysInsideRoom, SendInv, RoomInv, Room
<1>6. QED
  BY <1>1, <1>2, <1>3, <1>4, <1>5

(***************************************************************************)
(* Every cursor stays a sequence number, no more tries are counted than    *)
(* the limits allow, and nothing is in the air beyond the stream.          *)
(***************************************************************************)
THEOREM SendTypesHold == Spec => []TypeOK
<1>1. SendInv => TypeOK
  BY InvImplied
<1>2. QED
  BY <1>1, SendAlwaysHolds, PTL

(***************************************************************************)
(* Confirmed, sent, written: the cursors of wg-tcp.c keep their order, a   *)
(* ring apart at most, through every rewind, probe and late confirmation,  *)
(* and through the goodbye of a stream that closes, failed or not.         *)
(***************************************************************************)
THEOREM CursorsStayInOrder == Spec => []CursorsInOrder
<1>1. SendInv => CursorsInOrder
  BY InvImplied
<1>2. QED
  BY <1>1, SendAlwaysHolds, PTL

(***************************************************************************)
(* Whatever resendLostSegments may have to send again is still in its      *)
(* slot: no write overwrites a byte that is not confirmed.                 *)
(***************************************************************************)
THEOREM ResendsWhatWasWritten == Spec => []UnconfirmedIsKept
<1>1. SendInv => UnconfirmedIsKept
  BY InvImplied
<1>2. QED
  BY <1>1, SendAlwaysHolds, PTL

(***************************************************************************)
(* A byte is given up only when the other end has it: no acknowledgement,  *)
(* however late or repeated, confirms more than was taken.                 *)
(***************************************************************************)
THEOREM ConfirmsOnlyWhatIsHeld == Spec => []ConfirmedIsHeld
<1>1. SendInv => ConfirmedIsHeld
  BY InvImplied
<1>2. QED
  BY <1>1, SendAlwaysHolds, PTL

(***************************************************************************)
(* Whatever unit the other end counts its window in, it is never sent more *)
(* than one byte beyond the room it announced, or beyond what the code     *)
(* takes its answer to the hello for, a window it shifts (wg-tcp.c:594)    *)
(* though it is unscaled (:177): that is as far as the mistake reaches.    *)
(***************************************************************************)
THEOREM RoomIsRespected == Spec => []StaysInsideRoom
<1>1. SendInv => StaysInsideRoom
  BY InvImplied
<1>2. QED
  BY <1>1, SendAlwaysHolds, PTL
=============================================================================
