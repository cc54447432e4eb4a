----------------------------- MODULE WgTcpSend ------------------------------
(***************************************************************************)
(* The sending half of one stream of wg-tcp.c, as wg-net.c drives it: the  *)
(* hello, data kept in a ring until it is confirmed, resending on a timer  *)
(* or three repeated acknowledgements, the probe of a closed window, and   *)
(* the goodbye.  A segment the tunnel refuses is one the network loses.    *)
(*                                                                         *)
(* The timer may run out whenever it is looked at: the round trip it was   *)
(* measured from says nothing of the next one.  Congestion control decides *)
(* how much may be in flight; all that is kept of it is that a timeout     *)
(* leaves one segment and nothing ever leaves less.  The other end         *)
(* acknowledges what it has in order and reads it when it likes.           *)
(*                                                                         *)
(* The network loses, repeats and reorders: whatever either end ever sent  *)
(* may arrive at any time.  What is in the air since it was last sent is   *)
(* kept apart, for fairness: what is sent over and over gets through.      *)
(* Sequence numbers wrap, as uint32_t does.                                *)
(***************************************************************************)
EXTENDS SequenceNumbers, FiniteSets

CONSTANTS
    SEND_MAX, RESEND_LIMIT, HELLO_LIMIT, DUPLICATE_ACKS_LOST,
    SEGMENT_MAX,   \* peerSegmentMax
    PEER_UNIT,     \* 1 << peerWindowShift, what the other end's window counts in
    PEER_ROOM,     \* the other end's ring
    StreamLength   \* bytes the app writes: bound of a run

ASSUME SendAssumption ==
    /\ {SEND_MAX, RESEND_LIMIT, HELLO_LIMIT, DUPLICATE_ACKS_LOST, SEGMENT_MAX,
        PEER_UNIT, PEER_ROOM} \subseteq Nat \ {0}
    /\ StreamLength \in Nat
    /\ SEQUENCES % SEND_MAX = 0 /\ SEGMENT_MAX <= SEND_MAX
    /\ StreamLength + 2 < SEQUENCES \div 2

VARIABLES
    state,     \* of the connection, WG_TCP_*
    leaving,   \* how far closeWgTcp has got: NO, FLUSHING, PARTING
    sendUnconfirmed, sendNext, sendEnd, sendHighest,   \* sequence numbers
    outgoing,  \* the ring: slot -> stream position
    peerWindow, congestionWindow, duplicateAcks, resendCount,
    carried,   \* the network has been given the bytes before this position,
    goodbyes,  \* and a goodbye at each of these
    air, news, \* positions, and an acknowledgement, on their way since last sent
    peerOpen, peerNext, peerRead, peerEnded,   \* the far end
    promised   \* history: the furthest position its acknowledgements allowed

cursors == <<sendUnconfirmed, sendNext, sendEnd, sendHighest>>
control == <<peerWindow, congestionWindow, duplicateAcks, resendCount>>
sent == <<carried, goodbyes, air>>
peer == <<peerOpen, peerNext, peerRead, peerEnded>>
vars == <<state, leaving, cursors, outgoing, control, sent, news, peer, promised>>

Slot(s) == s % SEND_MAX
Later(a, b) == IF isAfter(a, b) THEN a ELSE b
AtLeast(a, b) == IF a < b THEN b ELSE a

HelloPosition == -1
\* a segment of the bytes from position p up to q, or a goodbye after them
Carry(p, q) ==
    /\ carried' = AtLeast(carried, q) /\ air' = air \cup p .. q - 1
    /\ UNCHANGED goodbyes
CarryGoodbye(p) ==
    /\ goodbyes' = goodbyes \cup {p} /\ UNCHANGED <<carried, air>>
\* whole segments, up to more than the ring holds
Congestion == {SEGMENT_MAX * k : k \in 1 .. (SEND_MAX + SEGMENT_MAX - 1) \div SEGMENT_MAX}
-----------------------------------------------------------------------------
(* flushStream: buildTcpData until it has nothing to build.                *)

\* How many bytes go, from the state a step is about to leave.  Full segments
\* go while they fit, up to the first the tunnel refuses, which counts as sent;
\* a part-full one goes only when nothing is unconfirmed.
FlushLengths(next, unconfirmed, end, window, congestion) ==
    LET inFlight == Apart(next, unconfirmed)
        limit == AtMost(AtMost(window, congestion) - inFlight, Apart(end, next))
    IN  IF limit >= SEGMENT_MAX THEN {k * SEGMENT_MAX : k \in 1 .. limit \div SEGMENT_MAX}
        ELSE IF limit <= 0 \/ inFlight > 0 THEN {0} ELSE {limit}

Flush(next, unconfirmed, end, window, congestion) ==
    \E length \in FlushLengths(next, unconfirmed, end, window, congestion) :
        LET reached == (next + length) % SEQUENCES
        IN  /\ sendNext' = reached
            /\ sendHighest' = Later(reached, sendHighest)
            /\ Carry(Position(next), Position(next) + length)
-----------------------------------------------------------------------------
(* What the app calls.                                                     *)

RoomIgnoringUnconfirmed == SEND_MAX - Apart(sendEnd, sendNext)   \* (mutant)
SendRoom == SEND_MAX - Apart(sendEnd, sendUnconfirmed)

\* sendWgTcp: what fits of n bytes goes into the ring, and on its way
Write(n) ==
    /\ state = "OPEN" /\ leaving = "NO"
    /\ Position(sendEnd) + n <= StreamLength
    /\ LET take == AtMost(n, SendRoom)
       IN  /\ take > 0
           /\ outgoing' = [slot \in DOMAIN outgoing |->
                 LET offset == (slot - sendEnd) % SEND_MAX
                 IN  IF offset < take THEN Position(sendEnd) + offset ELSE outgoing[slot]]
           /\ sendEnd' = (sendEnd + take) % SEQUENCES
    /\ Flush(sendNext, sendUnconfirmed, sendEnd', peerWindow, congestionWindow)
    /\ UNCHANGED <<state, leaving, sendUnconfirmed, control, news, peer, promised>>

\* closeWgTcp: an open stream gets a moment to send what is written, then comes
\* the goodbye, numbered after the last byte sent and whatever became of the
\* stream in that moment, and a moment for the answer.
StartClose ==
    /\ state = "OPEN" /\ leaving = "NO" /\ leaving' = "FLUSHING"
    /\ UNCHANGED <<state, cursors, outgoing, control, sent, news, peer, promised>>

SayGoodbye ==
    /\ leaving = "FLUSHING" /\ leaving' = "PARTING"
    /\ state' = "CLOSING"
    /\ sendNext' = (sendNext + 1) % SEQUENCES
    /\ sendHighest' = Later(sendNext', sendHighest)
    /\ CarryGoodbye(Position(sendNext))
    /\ UNCHANGED <<sendUnconfirmed, sendEnd, outgoing, control, news, peer, promised>>

\* The stream is given back, after its goodbye or never having been open to say
\* one, and openWgTcp takes it for the next connection, whose port and numbers
\* no late segment of this one fits.
GiveBack ==
    /\ leaving = "PARTING" \/ (leaving = "NO" /\ state # "OPEN")
    /\ state' = "CONNECTING" /\ leaving' = "NO"
    /\ sendUnconfirmed' = Numbered(-1) /\ sendNext' = Numbered(-1)
    /\ sendEnd' = Numbered(-1) /\ sendHighest' = Numbered(0)
    /\ outgoing' = [slot \in 0 .. SEND_MAX - 1 |-> 0]
    /\ peerWindow' = SEGMENT_MAX /\ congestionWindow' = SEGMENT_MAX
    /\ duplicateAcks' = 0 /\ resendCount' = 0
    /\ carried' = 0 /\ goodbyes' = {} /\ air' = {HelloPosition} /\ news' = FALSE
    /\ peerOpen' = FALSE /\ peerNext' = 0 /\ peerRead' = 0 /\ peerEnded' = FALSE
    /\ promised' = 0
-----------------------------------------------------------------------------
(* resendLostSegments: the timer of this stream has run out.               *)

Fail == /\ state' = "FAILED"
        /\ resendCount' = resendCount + 1
        /\ UNCHANGED <<sendNext, sendHighest, congestionWindow, sent>>

ResendHello ==
    /\ state = "CONNECTING"
    /\ IF resendCount >= HELLO_LIMIT
       THEN Fail
       ELSE /\ resendCount' = resendCount + 1
            /\ air' = air \cup {HelloPosition}
            /\ UNCHANGED <<state, sendNext, sendHighest, congestionWindow, carried, goodbyes>>

ResendGoodbye ==
    /\ state = "CLOSING"
    /\ CarryGoodbye(Position(sendNext) - 1)
    /\ sendHighest' = Later(sendNext, sendHighest)
    /\ UNCHANGED <<state, sendNext, resendCount, congestionWindow>>

ResendFromOldest ==
    /\ state = "OPEN" /\ sendNext # sendUnconfirmed
    /\ IF resendCount >= RESEND_LIMIT
       THEN Fail
       ELSE /\ resendCount' = resendCount + 1
            /\ congestionWindow' = SEGMENT_MAX
            /\ Flush(sendUnconfirmed, sendUnconfirmed, sendEnd, peerWindow, SEGMENT_MAX)
            /\ UNCHANGED state

ProbesWithNothing == 0           \* (mutant) a bare segment asks
ProbesWithSegment == SEGMENT_MAX   \* (mutant) a whole one does
ProbeLength == 1

\* One byte asks whether there is room.  It does not count as sent.
Probe ==
    /\ state = "OPEN" /\ sendNext = sendUnconfirmed /\ sendEnd # sendNext
    /\ Carry(Position(sendNext), Position(sendNext) + ProbeLength)
    /\ sendHighest' = Later((sendNext + ProbeLength) % SEQUENCES, sendHighest)
    /\ UNCHANGED <<state, sendNext, resendCount, congestionWindow>>

Timer ==
    /\ ResendHello \/ ResendGoodbye \/ ResendFromOldest \/ Probe
    /\ UNCHANGED <<leaving, sendUnconfirmed, sendEnd, outgoing, peerWindow,
                   duplicateAcks, news, peer, promised>>
-----------------------------------------------------------------------------
(* What arrives: processTcpSegment, then flushStream.                      *)

\* a window is read as shifted, the one in the answer to the hello as well
Offered(m) == m.window * PEER_UNIT
Meant(m) == IF m.hello THEN m.window ELSE m.window * PEER_UNIT
Allows(m) == AtLeast(promised, Position(m.acknowledgment) + Meant(m))

TakeHelloAnswer(m) ==
    /\ state = "CONNECTING" /\ m.hello
    /\ state' = "OPEN"
    /\ sendUnconfirmed' = Numbered(0) /\ sendEnd' = Numbered(0) /\ sendNext' = Numbered(0)
    /\ peerWindow' = Offered(m) /\ congestionWindow' \in Congestion
    /\ promised' = Allows(m)
    /\ UNCHANGED <<sendHighest, duplicateAcks, resendCount, sent>>

\* The same number again, with data in flight and no new window
IsDuplicate(m) ==
    /\ m.acknowledgment = sendUnconfirmed /\ sendNext # sendUnconfirmed
    /\ Offered(m) = peerWindow

EverythingSent(m) == sendNext   \* (mutant)
Confirmed(m) == m.acknowledgment
Confirms(m) ==
    /\ isAfter(m.acknowledgment, sendUnconfirmed)
    /\ ~isAfter(m.acknowledgment, sendHighest)

WindowOfTheLast(m) == Offered(m)   \* (mutant) whichever arrives last
WindowAfter(m) ==
    IF isAtOrAfter(m.acknowledgment, sendUnconfirmed') THEN Offered(m) ELSE peerWindow

LeftBehind(unconfirmed) == sendNext   \* (mutant)
\* a confirmation can arrive for data a rewind put ahead of the cursor
Onward(unconfirmed) == Later(unconfirmed, sendNext)

TakeAcknowledgement(m) ==
    /\ state \in {"OPEN", "CLOSING"}
    /\ promised' = Allows(m)
    /\ \/ /\ IsDuplicate(m)
          /\ duplicateAcks' = AtMost(duplicateAcks + 1, DUPLICATE_ACKS_LOST + 1)
          /\ UNCHANGED <<sendUnconfirmed, resendCount>>
          /\ IF duplicateAcks + 1 = DUPLICATE_ACKS_LOST
             THEN congestionWindow' \in Congestion
             ELSE UNCHANGED congestionWindow
       \/ /\ ~IsDuplicate(m) /\ Confirms(m)
          /\ sendUnconfirmed' = Confirmed(m)
          /\ duplicateAcks' = 0 /\ resendCount' = 0
          /\ congestionWindow' \in {c \in Congestion : c >= congestionWindow}
       \/ /\ ~IsDuplicate(m) /\ ~Confirms(m)
          /\ UNCHANGED <<sendUnconfirmed, duplicateAcks, resendCount, congestionWindow>>
    /\ peerWindow' = WindowAfter(m)
    /\ LET rewound == IsDuplicate(m) /\ duplicateAcks + 1 = DUPLICATE_ACKS_LOST
           next == IF rewound THEN sendUnconfirmed ELSE Onward(sendUnconfirmed')
       IN  IF state = "OPEN"
           THEN Flush(next, sendUnconfirmed', sendEnd, peerWindow', congestionWindow')
           ELSE sendNext' = next /\ UNCHANGED <<sendHighest, sent>>
    /\ UNCHANGED <<state, sendEnd>>

\* What the other end says when it has the bytes before `next' and has read
\* those before `read'.
AckOf(next, read, ended) ==
    [acknowledgment |-> Numbered(next + (IF ended THEN 1 ELSE 0)),
     window |-> (PEER_ROOM - (next - read)) \div PEER_UNIT, hello |-> FALSE]
HelloAnswer == [acknowledgment |-> Numbered(0), window |-> PEER_ROOM, hello |-> TRUE]
Latest == IF state = "CONNECTING" THEN HelloAnswer ELSE AckOf(peerNext, peerRead, peerEnded)

Takes(m) ==
    /\ peerOpen
    /\ TakeHelloAnswer(m) \/ TakeAcknowledgement(m)
    /\ UNCHANGED <<leaving, outgoing, peer>>

TakeLatest == news /\ news' = FALSE /\ Takes(Latest)

\* Late or repeated, from any state the other end may have been in.
TakeStale ==
    /\ UNCHANGED news
    /\ \/ Takes(HelloAnswer)
       \/ peerEnded /\ Takes(Latest)
       \/ \E n \in 0 .. peerNext : \E r \in 0 .. AtMost(n, peerRead) :
             n - r <= PEER_ROOM /\ Takes(AckOf(n, r, FALSE))

\* The other end's own goodbye, or a refusal, ends a stream that said its own; a
\* refusal, of the hello too, fails one that did not.
TakeEnd ==
    /\ state \in {"CONNECTING", "OPEN", "CLOSING"}
    /\ state' = IF state = "CLOSING" THEN "CLOSED" ELSE "FAILED"
    /\ UNCHANGED <<leaving, cursors, outgoing, control, sent, news, peer, promised>>
-----------------------------------------------------------------------------
(* The other end, and what it sends: not part of this code.                *)

\* It takes a run of the bytes it does not have as far as it has room, and
\* answers whatever arrives.
PeerReceives(upTo) ==
    /\ peerNext' = AtMost(upTo, peerRead + PEER_ROOM)
    /\ news' = TRUE
    /\ UNCHANGED <<state, leaving, cursors, outgoing, control, carried, goodbyes,
                   peerRead, promised>>

PeerReceivesStale ==
    /\ peerOpen /\ ~peerEnded
    /\ \E upTo \in peerNext .. carried : PeerReceives(upTo)
    /\ UNCHANGED <<air, peerOpen, peerEnded>>

PeerReceivesLatest ==
    /\ air # {} /\ air' = {}
    /\ peerOpen' = TRUE
    /\ LET run == {p \in air : p >= peerNext /\ peerNext .. p \subseteq air}
       IN  PeerReceives(IF peerEnded THEN peerNext ELSE peerNext + Cardinality(run))
    /\ UNCHANGED peerEnded

PeerReceivesGoodbye ==
    /\ peerOpen /\ ~peerEnded /\ peerNext \in goodbyes
    /\ peerEnded' = TRUE
    /\ PeerReceives(peerNext)
    /\ UNCHANGED <<air, peerOpen>>

\* Its app reads everything there is and the room is announced.
PeerReads ==
    /\ peerRead < peerNext
    /\ peerRead' = peerNext
    /\ news' = TRUE
    /\ UNCHANGED <<state, leaving, cursors, outgoing, control, sent, peerOpen,
                   peerNext, peerEnded, promised>>

Lose ==
    /\ \/ air # {} /\ air' = {} /\ UNCHANGED news
       \/ news /\ news' = FALSE /\ UNCHANGED air
    /\ UNCHANGED <<state, leaving, cursors, outgoing, control, carried, goodbyes,
                   peer, promised>>

\* openTcpConnection, and openWgTcp's first hello on its way
Init ==
    /\ state = "CONNECTING" /\ leaving = "NO"
    /\ sendUnconfirmed = Numbered(-1) /\ sendNext = Numbered(-1)
    /\ sendEnd = Numbered(-1) /\ sendHighest = Numbered(0)
    /\ outgoing = [slot \in 0 .. SEND_MAX - 1 |-> 0]
    /\ peerWindow = SEGMENT_MAX /\ congestionWindow = SEGMENT_MAX
    /\ duplicateAcks = 0 /\ resendCount = 0
    /\ carried = 0 /\ goodbyes = {} /\ air = {HelloPosition} /\ news = FALSE
    /\ peerOpen = FALSE /\ peerNext = 0 /\ peerRead = 0 /\ peerEnded = FALSE
    /\ promised = 0

Next ==
    \/ StartClose \/ SayGoodbye \/ GiveBack \/ Timer
    \/ TakeLatest \/ TakeStale \/ TakeEnd
    \/ PeerReceivesStale \/ PeerReceivesLatest \/ PeerReceivesGoodbye \/ PeerReads \/ Lose
    \/ \E n \in 1 .. StreamLength : Write(n)

\* The network lets through what is sent over and over, the other end's app
\* keeps reading and the caller keeps the network serviced.
Fairness ==
    /\ SF_vars(PeerReceivesLatest) /\ SF_vars(TakeLatest)
    /\ WF_vars(PeerReads) /\ WF_vars(Timer)

Spec == Init /\ [][Next]_vars /\ Fairness
-----------------------------------------------------------------------------
TypeOK ==
    /\ state \in {"CONNECTING", "OPEN", "CLOSING", "CLOSED", "FAILED"}
    /\ {sendUnconfirmed, sendNext, sendEnd, sendHighest} \subseteq 0 .. SEQUENCES - 1
    /\ leaving \in {"NO", "FLUSHING", "PARTING"} /\ {news, peerOpen, peerEnded} \subseteq BOOLEAN
    /\ resendCount \in 0 .. AtLeast(RESEND_LIMIT, HELLO_LIMIT) + 1
    /\ duplicateAcks \in 0 .. DUPLICATE_ACKS_LOST + 1
    /\ air \subseteq HelloPosition .. StreamLength - 1
    /\ goodbyes \subseteq HelloPosition .. StreamLength

\* The stream may still send: one that fails while it is being closed says its
\* goodbye all the same.
Established == state \in {"OPEN", "CLOSING"} \/ leaving = "FLUSHING"

(***************************************************************************)
(* The cursors keep their order through every rewind, late confirmation    *)
(* and probe, and through the goodbye, that of a stream which failed while *)
(* it was being closed as well: confirmed, sent, written, at most a ring   *)
(* apart, and nothing is counted as sent that never was.                   *)
(***************************************************************************)
CursorsInOrder ==
    Established =>
        LET goodbye == IF state = "CLOSING" THEN 1 ELSE 0
        IN  /\ Position(sendUnconfirmed) <= Position(sendNext)
            /\ Position(sendNext) <= Position(sendEnd) + goodbye
            /\ Position(sendNext) <= Position(sendHighest)
            /\ Position(sendEnd) <= Position(sendUnconfirmed) + SEND_MAX

(***************************************************************************)
(* Every byte that may still have to be sent again is in its slot of the   *)
(* ring, so a resend carries what the app wrote.                           *)
(***************************************************************************)
UnconfirmedIsKept ==
    Established =>
        \A p \in Position(sendUnconfirmed) .. Position(sendEnd) - 1 :
            outgoing[Slot(Numbered(p))] = p

(***************************************************************************)
(* A byte leaves the ring only once the other end has it, whatever late,   *)
(* repeated and probing traffic is confirmed.                              *)
(***************************************************************************)
ConfirmedIsHeld ==
    Established =>
        Position(sendUnconfirmed) <= peerNext + (IF peerEnded THEN 1 ELSE 0)

\* What the code takes the answer to the hello to say.
HelloRoom == Offered(HelloAnswer)

(***************************************************************************)
(* The stream stays inside the room the other end ever said it had, but    *)
(* for the one byte that asks whether there is more, and but for the room  *)
(* read into the answer to the hello: "the window in a hello is unscaled"  *)
(* (wg-tcp.c:177), and is shifted all the same (:594).  No acknowledgement *)
(* after it, however late, adds to that.                                   *)
(***************************************************************************)
StaysInsideRoom == carried <= AtLeast(promised, HelloRoom) + 1

(***************************************************************************)
(* Every byte the app writes is confirmed in the end, unless the stream    *)
(* fails or is closed: lost segments are sent again, and a window that     *)
(* opened again is found out even when the news of it is lost.             *)
(***************************************************************************)
WrittenGetsThrough ==
    \A n \in 1 .. StreamLength :
        (state = "OPEN" /\ Position(sendEnd) >= n)
            ~> (state # "OPEN" \/ leaving # "NO" \/ Position(sendUnconfirmed) >= n)
=============================================================================
