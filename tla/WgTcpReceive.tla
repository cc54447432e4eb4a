---------------------------- MODULE WgTcpReceive ----------------------------
(***************************************************************************)
(* The receiving half of one stream of wg-tcp.c, as wg-net.c drives it:    *)
(* from the answer to the hello until the stream is given back.  Bytes are *)
(* put into a ring wherever in the stream they belong, the runs that       *)
(* arrived ahead of a gap are remembered, and every segment that leaves    *)
(* carries an acknowledgement and the room there is.                       *)
(*                                                                         *)
(* The other end may send any piece of its stream the room it was ever     *)
(* offered allows, and the network may lose, repeat, delay and cut up what *)
(* it sends: any such piece may arrive at any time.  A byte is its         *)
(* position in the stream; sequence numbers wrap, as uint32_t does.        *)
(***************************************************************************)
EXTENDS SequenceNumbers, FiniteSets, Sequences

CONSTANTS
    RECEIVE_MAX, HOLE_MAX, ACKNOWLEDGE_EVERY,  \* WG_TCP_*, ACKNOWLEDGE_EVERY
    UNIT,          \* 1 << localWindowShift: what one step of the window field says
    FIELD_MAX,     \* the most the window field can hold, 0xFFFF
    SEGMENT_MAX,   \* peerSegmentMax
    StreamLength,  \* bytes the other end has to send: bound of a run
    MaxFail        \* sends that fail: bound of a run

ASSUME StreamAssumption ==
    /\ {RECEIVE_MAX, HOLE_MAX, ACKNOWLEDGE_EVERY, UNIT, FIELD_MAX, SEGMENT_MAX}
         \subseteq Nat \ {0}
    /\ {StreamLength, MaxFail} \subseteq Nat
    /\ SEQUENCES % RECEIVE_MAX = 0 /\ RECEIVE_MAX % UNIT = 0
    /\ StreamLength + RECEIVE_MAX < SEQUENCES \div 2

VARIABLES
    state,                      \* of the connection: OPEN, CLOSING, CLOSED, FAILED
    receiveStart, receiveNext,  \* sequence numbers: unread from, expected next
    holes,                      \* runs [start, end) that arrived ahead of a gap
    incoming,                   \* the ring: slot -> stream position, or Empty
    remoteHasFinished,
    segmentsSinceAcknowledgement, advertisedWindow,
    servicing,                  \* serviceWgNetwork is draining the tunnel
    leaving,                    \* closeWgTcp is waiting for what is written to go
    handedUp,                   \* history: the bytes the app has read
    acknowledged, offered,      \* history: the furthest of each that left
    fails

ring == <<receiveStart, receiveNext, holes, incoming, remoteHasFinished>>
said == <<segmentsSinceAcknowledgement, advertisedWindow, acknowledged, offered, fails>>
vars == <<state, ring, said, servicing, leaving, handedUp>>

Empty == -1
Slot(s) == s % RECEIVE_MAX

\* A goodbye is counted out of what can be read.
Readable == Apart(receiveNext, receiveStart) - (IF remoteHasFinished THEN 1 ELSE 0)

ReceiveWindow == RECEIVE_MAX - Readable
WindowField == AtMost(ReceiveWindow \div UNIT, FIELD_MAX)
-----------------------------------------------------------------------------
(* What leaves.                                                            *)

ForgottenOnFailure(owed) == 0     \* (mutant) a failed send counts as an answer
OwedAfterFailure(owed) == owed

\* One segment, built in the state the step leaves: it carries the
\* acknowledgement and the window, and the tunnel takes it or does not.
SendSegment(owed) ==
    /\ advertisedWindow' = WindowField'
    /\ \/ /\ segmentsSinceAcknowledgement' = 0
          /\ acknowledged' = Position(receiveNext')
          /\ LET edge == acknowledged' + advertisedWindow' * UNIT
             IN  offered' = IF edge > offered THEN edge ELSE offered
          /\ UNCHANGED fails
       \/ /\ fails < MaxFail /\ fails' = fails + 1
          /\ segmentsSinceAcknowledgement' = OwedAfterFailure(owed)
          /\ UNCHANGED <<acknowledged, offered>>

SendNothing(owed) ==
    /\ segmentsSinceAcknowledgement' = owed
    /\ UNCHANGED <<advertisedWindow, acknowledged, offered, fails>>

AnnounceWhenEmpty(room) ==   \* (mutant) only a ring with nothing in it is worth saying
    room = RECEIVE_MAX /\ advertisedWindow * UNIT < RECEIVE_MAX
WorthSaying == AtMost(RECEIVE_MAX \div 2, 2 * SEGMENT_MAX)
ShouldAnnounceWindow(room) == room >= advertisedWindow * UNIT + WorthSaying

\* recvWgTcp: the app reads up to n bytes, and room worth announcing is
\* announced.
Read(n) ==
    /\ state = "OPEN" /\ ~servicing /\ ~leaving
    /\ LET take == AtMost(n, Readable)
       IN  /\ handedUp' = handedUp \o
                 [i \in 1 .. take |-> incoming[Slot(receiveStart + i - 1)]]
           /\ receiveStart' = (receiveStart + take) % SEQUENCES
    /\ UNCHANGED <<state, receiveNext, holes, incoming, remoteHasFinished, servicing, leaving>>
    /\ IF ShouldAnnounceWindow(ReceiveWindow')
       THEN SendSegment(segmentsSinceAcknowledgement)
       ELSE SendNothing(segmentsSinceAcknowledgement)

\* Data of the app's own goes out and carries the same news: sendWgTcp, or
\* the timers of resendLostSegments at the start of a service call.
SendData ==
    /\ state = "OPEN"
    /\ UNCHANGED <<state, ring, servicing, leaving, handedUp>>
    /\ SendSegment(segmentsSinceAcknowledgement)

\* serviceWgNetwork's last act: what arrived is acknowledged once, and room
\* that has come back is announced even if nothing arrived.
EndService ==
    /\ servicing /\ servicing' = FALSE
    /\ UNCHANGED <<state, ring, leaving, handedUp>>
    /\ IF \/ segmentsSinceAcknowledgement > 0
          \/ state = "OPEN" /\ ShouldAnnounceWindow(ReceiveWindow)
       THEN SendSegment(segmentsSinceAcknowledgement)
       ELSE SendNothing(segmentsSinceAcknowledgement)

BeginService ==
    /\ ~servicing /\ servicing' = TRUE
    /\ UNCHANGED <<state, ring, said, leaving, handedUp>>

\* The tunnel fails, and the call returns without that last act.
BreakOff ==
    /\ servicing /\ servicing' = FALSE
    /\ UNCHANGED <<state, ring, said, leaving, handedUp>>

\* closeWgTcp services an open stream for a while and then says goodbye,
\* whatever became of the stream meanwhile; what the app has not read by the
\* call it never will.
StartClose ==
    /\ state = "OPEN" /\ ~servicing /\ ~leaving /\ leaving' = TRUE
    /\ UNCHANGED <<state, ring, said, servicing, handedUp>>

SayGoodbye ==
    /\ leaving /\ ~servicing /\ leaving' = FALSE
    /\ state' = "CLOSING"
    /\ UNCHANGED <<ring, servicing, handedUp>>
    /\ SendSegment(segmentsSinceAcknowledgement)
-----------------------------------------------------------------------------
(* What arrives: takeSegmentData, and processTcpSegment around it.         *)

WindowEndFromNext == (receiveNext + RECEIVE_MAX) % SEQUENCES   \* (mutant)
WindowEnd == (receiveStart + RECEIVE_MAX) % SEQUENCES

MergesOverlapsOnly(start, end) ==   \* (mutant) runs that only meet stay apart
    {r \in holes : isAfter(end, r.start) /\ isAfter(r.end, start)}
Touching(start, end) ==
    {r \in holes : ~isAfter(r.start, end) /\ ~isAfter(start, r.end)}

\* addReceivedRange: a run and those it touches are one
Merged(runs) ==
    [start |-> (CHOOSE r \in runs : \A q \in runs : isAtOrAfter(q.start, r.start)).start,
     end |-> (CHOOSE r \in runs : \A q \in runs : isAtOrAfter(r.end, q.end)).end]

Content(s, start) == Position(start)

WriteRing(s, start, end) ==
    [slot \in DOMAIN incoming |->
        LET offset == (slot - start) % RECEIVE_MAX
        IN  IF offset < (end - start) % SEQUENCES
            THEN Content(s, start) + offset ELSE incoming[slot]]

\* What folding [s, e) into the ring leaves.  Of the runs there are
\* afterwards, at most one starts where the next expected byte is.
takeSegmentData(s, e) ==
    LET end == IF isAfter(e, WindowEnd) THEN WindowEnd ELSE e
        start == IF isAfter(receiveNext, s) THEN receiveNext ELSE s
        touched == Touching(start, end)
        runs == (holes \ touched) \cup {Merged(touched \cup {[start |-> start, end |-> end]})}
        first == {r \in runs : r.start = receiveNext}
    IN  IF \/ s = e
           \/ isAtOrAfter(s, WindowEnd)
           \/ isAtOrAfter(receiveNext, end)
           \/ Cardinality(holes \ touched) >= HOLE_MAX
        THEN [next |-> receiveNext, holes |-> holes, ring |-> incoming]
        ELSE [next |-> IF first = {} THEN receiveNext ELSE (CHOOSE r \in first : TRUE).end,
              holes |-> runs \ first,
              ring |-> WriteRing(s, start, end)]

FinishesAhead(e, next) == isAtOrAfter(e, next)   \* (mutant) before the gap is filled
Finishes(e, next) == e = next

\* One segment [s, e), with or without a goodbye, and what goes back.
Arrive(s, e, fin) ==
    LET taken == takeSegmentData(s, e)
        finished == fin /\ Finishes(e, taken.next)
        owed == segmentsSinceAcknowledgement + (IF s = e THEN 0 ELSE 1)
    IN  /\ receiveNext' = IF finished THEN (taken.next + 1) % SEQUENCES ELSE taken.next
        /\ holes' = taken.holes
        /\ incoming' = taken.ring
        /\ remoteHasFinished' = (remoteHasFinished \/ finished)
        /\ state' = IF finished /\ state = "CLOSING" THEN "CLOSED" ELSE state
        /\ UNCHANGED <<receiveStart, servicing, leaving, handedUp>>
        /\ IF \/ finished
              \/ s # e /\ (s # receiveNext \/ owed >= ACKNOWLEDGE_EVERY)
           THEN SendSegment(owed)
           ELSE SendNothing(owed)

\* The other end starts no segment past what it was offered, and ends one where
\* it likes: past its offer, to ask whether there is room again, or past the
\* ring.  Its goodbye follows its last byte.
TakeSegment ==
    /\ servicing /\ state \in {"OPEN", "CLOSING"}
    /\ \E p \in 0 .. StreamLength, n \in 0 .. SEGMENT_MAX, fin \in BOOLEAN :
          /\ n > 0 \/ fin
          /\ p + n <= StreamLength /\ (fin => p + n = StreamLength)
          /\ p <= offered
          /\ Arrive(Numbered(p), Numbered(p + n), fin)

\* A refusal numbered inside the window ends the stream.
TakeReset ==
    /\ servicing /\ state \in {"OPEN", "CLOSING"}
    /\ \E p \in 0 .. StreamLength + 1 :
          isAtOrAfter(Numbered(p), receiveNext) /\ isAfter(WindowEnd, Numbered(p))
    /\ state' = IF state = "CLOSING" THEN "CLOSED" ELSE "FAILED"
    /\ UNCHANGED <<ring, said, servicing, leaving, handedUp>>

\* The answer to the hello has come and its acknowledgement has left; if the
\* tunnel refused it, the hello alone offered what the field can say unscaled.
Init ==
    /\ state = "OPEN" /\ servicing = TRUE /\ leaving = FALSE
    /\ receiveStart = Numbered(0) /\ receiveNext = Numbered(0)
    /\ holes = {} /\ incoming = [slot \in 0 .. RECEIVE_MAX - 1 |-> Empty]
    /\ remoteHasFinished = FALSE
    /\ segmentsSinceAcknowledgement = 0 /\ advertisedWindow = WindowField
    /\ handedUp = <<>> /\ acknowledged = 0
    /\ \/ offered = WindowField * UNIT /\ fails = 0
       \/ MaxFail > 0 /\ offered = AtMost(RECEIVE_MAX, FIELD_MAX) /\ fails = 1

Next ==
    \/ BeginService \/ TakeSegment \/ TakeReset \/ EndService \/ BreakOff
    \/ \E n \in 1 .. RECEIVE_MAX : Read(n)
    \/ SendData \/ StartClose \/ SayGoodbye

Spec == Init /\ [][Next]_vars
-----------------------------------------------------------------------------
TypeOK ==
    /\ state \in {"OPEN", "CLOSING", "CLOSED", "FAILED"} /\ {servicing, leaving} \subseteq BOOLEAN
    /\ receiveStart \in Sequence /\ receiveNext \in Sequence
    /\ holes \subseteq [start : Sequence, end : Sequence]
    /\ incoming \in [0 .. RECEIVE_MAX - 1 -> 0 .. StreamLength \cup {Empty}]
    /\ remoteHasFinished \in BOOLEAN
    /\ Readable \in 0 .. RECEIVE_MAX
    /\ segmentsSinceAcknowledgement \in Nat /\ advertisedWindow \in 0 .. FIELD_MAX
    /\ fails \in 0 .. MaxFail

isWgTcpFinished == remoteHasFinished /\ Readable = 0
Stream == INSTANCE ByteStream WITH
              Length <- StreamLength, handed <- handedUp, ended <- isWgTcpFinished

(***************************************************************************)
(* The receiver implements ByteStream: the app reads every byte once, in   *)
(* order, whatever order, pieces and repeats it arrived in, and is told    *)
(* that it has all only then: a goodbye that overtakes its data cuts off   *)
(* nothing (the ring's indexing by sequence number, the cut at the window, *)
(* the trim of what is already here, and the goodbye's own number).        *)
(***************************************************************************)
DeliversTheStream == Stream!Spec

(***************************************************************************)
(* Every byte the receiver counts as here, read up to or waiting beyond a  *)
(* gap, is in its slot of the ring: nothing that arrives later, not even a *)
(* byte sent into a full ring, is written over it.                         *)
(***************************************************************************)
NothingOverwritten ==
    LET upTo == IF remoteHasFinished THEN Position(receiveNext) - 1 ELSE Position(receiveNext)
        waiting == UNION {Position(r.start) .. Position(r.end) - 1 : r \in holes}
    IN  \A p \in (Position(receiveStart) .. upTo - 1) \cup waiting :
            incoming[Slot(Numbered(p))] = p

(***************************************************************************)
(* The remembered runs lie beyond a gap, inside the ring, and no two of    *)
(* them overlap or meet, which is what lets absorbReceivedRange take at    *)
(* most one and the list hold as many gaps as it can.                      *)
(***************************************************************************)
RunsLieApart ==
    /\ Cardinality(holes) <= HOLE_MAX
    /\ \A r \in holes :
          /\ Position(receiveNext) < Position(r.start)
          /\ Position(r.start) < Position(r.end)
          /\ Position(r.end) <= Position(receiveStart) + RECEIVE_MAX
    /\ \A r, q \in holes :
          r # q => Position(r.end) < Position(q.start) \/ Position(q.end) < Position(r.start)

(***************************************************************************)
(* wg-net.c:76: once a service call ends, every byte taken in order has    *)
(* been acknowledged in a segment that left, or is owed to the next call,  *)
(* even if the tunnel refused the segment that would have said so or       *)
(* failed before it was built.                                             *)
(***************************************************************************)
AcknowledgedOrOwed ==
    ~servicing /\ ~remoteHasFinished =>
        acknowledged = Position(receiveNext) \/ segmentsSinceAcknowledgement > 0

RoomUnannounced == Position(receiveStart) + RECEIVE_MAX - offered

\* Room once offered stays: nobody was ever told of room the ring does not have.
OfferedRoomExists == ~remoteHasFinished => RoomUnannounced >= 0
\* Room there is has been told, but for what is not worth saying and for the
\* bytes whose acknowledgement, which tells it again, is still to come.
RoomIsAnnounced ==
    ~remoteHasFinished =>
        RoomUnannounced < WorthSaying + (Position(receiveNext) - acknowledged)

(***************************************************************************)
(* The other end is told neither of room the ring does not have nor of     *)
(* much less than it has ("nothing but a new number starts them again, so  *)
(* room freed by reading has to be announced", wg-tcp.c:226), whatever was *)
(* read, truncated to the field's units, or left unsaid by a service call  *)
(* that broke off: what is untold is not worth saying, or bytes are still  *)
(* to be acknowledged, and no more than those.  The second only as long as *)
(* the tunnel refused no segment.                                          *)
(***************************************************************************)
RoomIsToldTruly == OfferedRoomExists /\ (fails = 0 => RoomIsAnnounced)
=============================================================================
