------------------------- MODULE TorrentTurnsProofs -------------------------
(***************************************************************************)
(* However torrents are added, paused, resumed and removed while one is    *)
(* being worked for, and whatever its trackers and peers do: no other has  *)
(* the turn, a port or a connection.                                       *)
(*                                                                         *)
(* The invariant is of an engine, a record, since a call of the engine     *)
(* goes through several before it leaves one.                              *)
(***************************************************************************)
EXTENDS TorrentTurns, SequenceTheorems, FiniteSetTheorems, WellFoundedInduction, TLAPS

LEMMA Constants ==
  /\ TooLarge \subseteq Torrents /\ Magnets \subseteq Torrents
  /\ Nothing \notin Torrents /\ Garbage \notin Torrents
  /\ PEER_ACTIVE_MAX \in Nat \ {0} /\ TORRENT_SLOT_MAX \in Nat \ {0}
  /\ TrackerCount \in Nat \ {0} /\ PieceCount \in Nat \ {0}
  /\ TRACKER_ROUNDS_MAX \in Nat /\ AsksMax \in Nat
BY TurnsAssumption

LEMMA MinIsIn ==
  ASSUME NEW S \in SUBSET Nat, S # {}
  PROVE  Min(S) \in S
<1> DEFINE R == {p \in Nat \X Nat : p[1] < p[2]}
<1>1. IsWellFoundedOn(R, Nat)
  BY NatLessThanWellFounded DEF OpToRel
<1>2. PICK x \in S : \A y \in S : ~(<<y, x>> \in R)
  <2> HIDE DEF R
  <2> QED BY <1>1, WFMin
<1>3. \A y \in S : x <= y
  <2>1. SUFFICES ASSUME NEW y \in S, y < x PROVE FALSE
    BY <1>2
  <2>2. <<y, x>> \in Nat \X Nat /\ <<y, x>>[1] = y /\ <<y, x>>[2] = x
    BY <1>2
  <2>3. QED
    BY <1>2, <2>1, <2>2
<1>4. QED
  BY <1>3 DEF Min

\* removeTorrent: what is behind the gap moves down by one.
LEMMA RemoveAtProperties ==
  ASSUME NEW S, NEW seq \in Seq(S), NEW i \in 1 .. Len(seq)
  PROVE  /\ RemoveAt(seq, i) \in Seq(S)
         /\ Len(RemoveAt(seq, i)) = Len(seq) - 1
         /\ \A j \in 1 .. Len(seq) - 1 : RemoveAt(seq, i)[j] = IF j < i THEN seq[j] ELSE seq[j + 1]
<1> DEFINE front == SubSeq(seq, 1, i - 1)
           back == SubSeq(seq, i + 1, Len(seq))
<1>1. /\ front \in Seq(S) /\ Len(front) = i - 1
      /\ \A j \in 1 .. i - 1 : front[j] = seq[j]
  BY LenProperties, ElementOfSeq, SubSeqProperties
<1>2. /\ back \in Seq(S) /\ Len(back) = Len(seq) - i
      /\ \A j \in 1 .. Len(seq) - i : back[j] = seq[i + j]
  <2>1. \A j \in i + 1 .. Len(seq) : seq[j] \in S
    BY LenProperties, ElementOfSeq
  <2>2. QED
    BY <2>1, LenProperties, SubSeqProperties
<1> HIDE DEF front, back
<1>3. RemoveAt(seq, i) = front \o back
  BY DEF RemoveAt, front, back
<1>4. /\ front \o back \in Seq(S) /\ Len(front \o back) = Len(seq) - 1
      /\ \A j \in 1 .. Len(seq) - 1 : (front \o back)[j] = IF j <= i - 1 THEN front[j] ELSE back[j - (i - 1)]
  <2>1. Len(front) + Len(back) = Len(seq) - 1
    BY <1>1, <1>2, LenProperties
  <2>2. /\ front \o back \in Seq(S) /\ Len(front \o back) = Len(front) + Len(back)
        /\ \A j \in 1 .. Len(front) + Len(back) : (front \o back)[j] =
              IF j <= Len(front) THEN front[j] ELSE back[j - Len(front)]
    BY <1>1, <1>2, ConcatProperties
  <2>3. QED
    BY <1>1, <2>1, <2>2
<1>5. ASSUME NEW j \in 1 .. Len(seq) - 1
      PROVE  (front \o back)[j] = IF j < i THEN seq[j] ELSE seq[j + 1]
  <2>1. CASE j < i
    BY <1>1, <1>4, <2>1, LenProperties
  <2>2. CASE ~(j < i)
    <3>1. j - (i - 1) \in 1 .. Len(seq) - i /\ i + (j - (i - 1)) = j + 1
      BY <2>2, LenProperties
    <3>2. QED
      BY <1>2, <1>4, <2>2, <3>1, LenProperties
  <2>3. QED
    BY <2>1, <2>2
<1>6. QED
  BY <1>3, <1>4, <1>5
-----------------------------------------------------------------------------
(* Engines.                                                                *)

Link == [state : {"DEAD", "OPENING", "READY"}, of : Torrents \union {Nothing},
         size : Torrents \union {Nothing}, left : BOOLEAN]
EngineType ==
    [slots : Seq(Slot), active : Nat, links : [Links -> Link], ports : Int]

\* A torrent is worked for only when it has the turn, has a port only while its
\* tracker is asked, and is given up on when its rounds are used up.
SlotOK(slot, turn) ==
    /\ slot.status \in Working => turn
    /\ slot.port <=> slot.status = "ASKING"
    /\ slot.status \in Working \union {"WAITING"} => slot.rounds <= TRACKER_ROUNDS_MAX

\* A connection that is not closed or left over is of the torrent that serves itself
\* of its peers.
LinkOK(link, slot) ==
    \/ link.state = "DEAD" \/ link.left
    \/ slot.status \in {"DESCRIBING", "DOWNLOADING"} /\ link.of \in {Nothing, slot.torrent}
Forgotten(link) == link.state = "DEAD" \/ link.left

HashesApart(list) ==
    \A one, other \in 1 .. Len(list) :
        one # other /\ list[one].hash = list[other].hash => list[one].hash = Nothing

EngineOK(engine) ==
    /\ engine \in EngineType
    /\ Len(engine.slots) <= TORRENT_SLOT_MAX /\ HashesApart(engine.slots)
    /\ engine.active \in 0 .. Len(engine.slots)
    /\ \A slot \in 1 .. Len(engine.slots) :
          SlotOK(engine.slots[slot], slot = engine.active)
    /\ engine.active = 0 =>
          engine.ports = 0 /\ \A link \in Links : Forgotten(engine.links[link])
    /\ engine.active # 0 =>
          /\ engine.ports = IF engine.slots[engine.active].status = "ASKING" THEN 1 ELSE 0
          /\ \A link \in Links : LinkOK(engine.links[link], engine.slots[engine.active])

\* What work for one torrent may make of the engine: the others keep what they have.
SameTorrent(slot, then) ==
    then \in Slot /\ then.torrent = slot.torrent /\ then.hash \in {slot.hash, Nothing}
WorkFor(engine, slot, then) ==
    /\ then \in EngineType /\ then.active = engine.active
    /\ Len(then.slots) = Len(engine.slots)
    /\ \A other \in 1 .. Len(engine.slots) \ {slot} : then.slots[other] = engine.slots[other]
    /\ SameTorrent(engine.slots[slot], then.slots[slot])

LEMMA SlotsOf ==
  ASSUME NEW engine \in EngineType
  PROVE  /\ engine.slots \in Seq(Slot) /\ Len(engine.slots) \in Nat
         /\ DOMAIN engine.slots = 1 .. Len(engine.slots)
         /\ engine.slots \in [1 .. Len(engine.slots) -> Slot]
         /\ \A slot \in 1 .. Len(engine.slots) : engine.slots[slot] \in Slot
         /\ engine.links \in [Links -> Link]
         /\ engine.active \in Nat /\ engine.ports \in Int
<1>1. engine.slots \in Seq(Slot) /\ engine.links \in [Links -> Link]
      /\ engine.active \in Nat /\ engine.ports \in Int
  BY DEF EngineType
<1>2. QED
  BY <1>1, LenProperties, ElementOfSeq

\* One torrent's slot is written, with what a port taken or given back makes of
\* the count, and nothing else.
Written(engine, slot, then, lent) ==
    [engine EXCEPT !.slots = [engine.slots EXCEPT ![slot] = then], !.ports = lent]

LEMMA SlotWritten ==
  ASSUME NEW engine \in EngineType, NEW slot \in 1 .. Len(engine.slots),
         NEW then \in Slot, SameTorrent(engine.slots[slot], then), NEW lent \in Int
  PROVE  /\ WorkFor(engine, slot, Written(engine, slot, then, lent))
         /\ Written(engine, slot, then, lent).slots[slot] = then
         /\ Written(engine, slot, then, lent).links = engine.links
         /\ Written(engine, slot, then, lent).ports = lent
<1> DEFINE list == [engine.slots EXCEPT ![slot] = then]
           after == Written(engine, slot, then, lent)
<1>1. /\ list \in Seq(Slot) /\ Len(list) = Len(engine.slots) /\ list[slot] = then
      /\ \A other \in 1 .. Len(engine.slots) \ {slot} : list[other] = engine.slots[other]
  BY SlotsOf, ExceptSeq
<1>2. after = [engine EXCEPT !.slots = list, !.ports = lent]
  BY DEF Written
<1> HIDE DEF list, after
<1>3. /\ after.slots = list /\ after.links = engine.links /\ after.ports = lent
      /\ after.active = engine.active /\ after \in EngineType
  BY <1>1, <1>2 DEF EngineType
<1>4. WorkFor(engine, slot, after)
  BY <1>1, <1>3 DEF WorkFor
<1>5. QED
  BY <1>1, <1>3, <1>4 DEF after

LEMMA PortsAsTheyWere ==
  ASSUME NEW engine \in EngineType, NEW slot, NEW then
  PROVE  [engine EXCEPT !.slots = [engine.slots EXCEPT ![slot] = then]]
           = Written(engine, slot, then, engine.ports)
<1> DEFINE list == [engine.slots EXCEPT ![slot] = then]
<1> HIDE DEF list
<1>1. [engine EXCEPT !.slots = list] = [engine EXCEPT !.slots = list, !.ports = engine.ports]
  BY DEF EngineType
<1>2. QED
  BY <1>1 DEF list, Written

\* Work for a torrent, and then more work for it.
LEMMA WorkedOn ==
  ASSUME NEW engine, NEW slot, NEW then, NEW after,
         WorkFor(engine, slot, then), WorkFor(then, slot, after)
  PROVE  WorkFor(engine, slot, after)
BY DEF WorkFor, SameTorrent

LEMMA NoWork ==
  ASSUME NEW engine \in EngineType, NEW slot \in 1 .. Len(engine.slots)
  PROVE  WorkFor(engine, slot, engine)
BY SlotsOf DEF WorkFor, SameTorrent

\* The connections change and nothing else.
Connected(engine, connections) == [engine EXCEPT !.links = connections]

LEMMA LinksWritten ==
  ASSUME NEW engine \in EngineType, NEW slot \in 1 .. Len(engine.slots),
         NEW connections \in [Links -> Link]
  PROVE  /\ WorkFor(engine, slot, Connected(engine, connections))
         /\ Connected(engine, connections).slots = engine.slots
         /\ Connected(engine, connections).links = connections
         /\ Connected(engine, connections).ports = engine.ports
<1> DEFINE after == Connected(engine, connections)
<1>1. /\ after.slots = engine.slots /\ after.ports = engine.ports
      /\ after.active = engine.active /\ after.links = connections /\ after \in EngineType
  BY DEF EngineType, Connected
<1> HIDE DEF after
<1>2. WorkFor(engine, slot, after)
  BY <1>1, SlotsOf DEF WorkFor, SameTorrent
<1>3. QED
  BY <1>1, <1>2 DEF after
-----------------------------------------------------------------------------
(* What each function of the engine leaves.                                *)

LEMMA FailedSlot ==
  ASSUME NEW engine \in EngineType, NEW slot \in 1 .. Len(engine.slots),
         NEW after, after = failTorrent(engine, slot)
  PROVE  /\ WorkFor(engine, slot, after)
         /\ after.slots[slot] = [engine.slots[slot] EXCEPT !.status = "FAILED"]
         /\ after.links = engine.links /\ after.ports = engine.ports
<1> DEFINE then == [engine.slots[slot] EXCEPT !.status = "FAILED"]
<1>1. engine.slots[slot] \in Slot
  BY SlotsOf
<1>2. then \in Slot /\ SameTorrent(engine.slots[slot], then)
  BY <1>1 DEF Slot, Settled, SameTorrent
<1>3. after = Written(engine, slot, then, engine.ports)
  BY PortsAsTheyWere DEF failTorrent
<1>4. engine.ports \in Int
  BY SlotsOf
<1> HIDE DEF then
<1>5. QED
  BY <1>2, <1>3, <1>4, SlotWritten DEF then

LEMMA StoppedAsking ==
  ASSUME NEW engine \in EngineType, NEW slot \in 1 .. Len(engine.slots),
         NEW after, after = stopTrackerAnnounce(engine, slot)
  PROVE  /\ WorkFor(engine, slot, after)
         /\ after.slots[slot] = [engine.slots[slot] EXCEPT !.port = FALSE]
         /\ after.links = engine.links
         /\ after.ports = engine.ports - (IF engine.slots[slot].port THEN 1 ELSE 0)
<1> DEFINE then == [engine.slots[slot] EXCEPT !.port = FALSE]
<1>1. engine.slots[slot] \in Slot /\ engine.ports \in Int
  BY SlotsOf
<1>2. then \in Slot /\ SameTorrent(engine.slots[slot], then)
  BY <1>1 DEF Slot, SameTorrent
<1>3. CASE engine.slots[slot].port
  <2>1. after = Written(engine, slot, then, engine.ports - 1)
    BY <1>3 DEF stopTrackerAnnounce, Written
  <2>2. engine.ports - 1 \in Int
    BY <1>1
  <2> HIDE DEF then
  <2>3. QED
    BY <1>2, <1>3, <2>1, <2>2, SlotWritten DEF then
<1>4. CASE ~engine.slots[slot].port
  <2>1. after = engine
    BY <1>4 DEF stopTrackerAnnounce
  <2>2. then = engine.slots[slot]
    BY <1>1, <1>4 DEF Slot
  <2>3. QED
    BY <1>1, <1>4, <2>1, <2>2, NoWork
<1>5. QED
  BY <1>3, <1>4

LEMMA AskedNext ==
  ASSUME NEW engine \in EngineType, NEW slot \in 1 .. Len(engine.slots),
         NEW after \in startNextTracker(engine, slot)
  PROVE  /\ WorkFor(engine, slot, after)
         /\ after.slots[slot].port = TRUE
         /\ after.slots[slot].status = engine.slots[slot].status
         /\ after.slots[slot].rounds = engine.slots[slot].rounds
         /\ after.links = engine.links /\ after.ports = engine.ports + 1
<1>1. engine.slots[slot] \in Slot /\ engine.ports \in Int
  BY SlotsOf
<1>2. PICK tracker \in engine.slots[slot].tracker + 1 .. engine.slots[slot].trackers :
         after = [engine EXCEPT !.slots[slot].tracker = tracker, !.slots[slot].port = TRUE, !.ports = @ + 1]
  BY DEF startNextTracker
<1> DEFINE then == [engine.slots[slot] EXCEPT !.tracker = tracker, !.port = TRUE]
<1>3. tracker \in 0 .. TrackerCount
  BY <1>1, Constants DEF Slot
<1>4. then \in Slot /\ SameTorrent(engine.slots[slot], then)
  BY <1>1, <1>3 DEF Slot, SameTorrent
<1>5. after = Written(engine, slot, then, engine.ports + 1)
  BY <1>2, SlotsOf DEF Written
<1>6. /\ then.port = TRUE /\ then.status = engine.slots[slot].status
      /\ then.rounds = engine.slots[slot].rounds /\ engine.ports + 1 \in Int
  BY <1>1 DEF Slot
<1> HIDE DEF then
<1>7. QED
  BY <1>4, <1>5, <1>6, SlotWritten

LEMMA NoneToAsk ==
  ASSUME NEW engine \in EngineType, NEW slot \in 1 .. Len(engine.slots),
         NEW after, after = NoTrackerLeft(engine, slot)
  PROVE  /\ WorkFor(engine, slot, after)
         /\ after.slots[slot].port = engine.slots[slot].port
         /\ after.slots[slot].status = engine.slots[slot].status
         /\ after.slots[slot].rounds = engine.slots[slot].rounds
         /\ after.links = engine.links /\ after.ports = engine.ports
<1> DEFINE then == [engine.slots[slot] EXCEPT !.tracker = engine.slots[slot].trackers]
<1>1. engine.slots[slot] \in Slot
  BY SlotsOf
<1>2. then \in Slot /\ SameTorrent(engine.slots[slot], then)
  <2>1. engine.slots[slot].trackers \in 0 .. TrackerCount
    BY <1>1, Constants DEF Slot
  <2>2. QED
    BY <1>1, <2>1 DEF Slot, SameTorrent
<1>3. after = Written(engine, slot, then, engine.ports)
  BY PortsAsTheyWere DEF NoTrackerLeft
<1>4. /\ then.port = engine.slots[slot].port /\ then.status = engine.slots[slot].status
      /\ then.rounds = engine.slots[slot].rounds
  BY <1>1 DEF Slot
<1>5. engine.ports \in Int
  BY SlotsOf
<1> HIDE DEF then
<1>6. QED
  BY <1>2, <1>3, <1>4, <1>5, SlotWritten

\* A round more is counted, and is the last one that is or the torrent waits.
LEMMA AskedAgain ==
  ASSUME NEW engine \in EngineType, NEW slot \in 1 .. Len(engine.slots),
         engine.slots[slot].rounds <= TRACKER_ROUNDS_MAX,
         NEW after, after = waitAndAskAgain(engine, slot)
  PROVE  /\ WorkFor(engine, slot, after)
         /\ after.slots[slot].port = engine.slots[slot].port
         /\ \/ after.slots[slot].status = "FAILED"
            \/ after.slots[slot].status = "WAITING" /\ after.slots[slot].rounds <= TRACKER_ROUNDS_MAX
         /\ after.links = engine.links /\ after.ports = engine.ports
<1>1. engine.slots[slot] \in Slot
  BY SlotsOf
<1> DEFINE then == [engine.slots[slot] EXCEPT !.rounds = @ + 1]
           counted == [engine EXCEPT !.slots = [engine.slots EXCEPT ![slot] = then]]
<1>2. engine.slots[slot].rounds + 1 \in 0 .. TRACKER_ROUNDS_MAX + 1
  BY <1>1, Constants DEF Slot
<1>3. then \in Slot /\ SameTorrent(engine.slots[slot], then)
  BY <1>1, <1>2 DEF Slot, SameTorrent
<1>4. then.port = engine.slots[slot].port
  BY <1>1 DEF Slot
<1>5. counted = Written(engine, slot, then, engine.ports) /\ engine.ports \in Int
  BY PortsAsTheyWere, SlotsOf
<1>5a. after = IF counted.slots[slot].rounds > TRACKER_ROUNDS_MAX THEN failTorrent(counted, slot)
              ELSE [counted EXCEPT !.slots[slot].tracker = 0, !.slots[slot].due = FALSE,
                                   !.slots[slot].status = "WAITING"]
  BY DEF waitAndAskAgain
<1> HIDE DEF then
<1>6. /\ WorkFor(engine, slot, counted) /\ counted.slots[slot] = then
      /\ counted.links = engine.links /\ counted.ports = engine.ports
  <2> HIDE DEF counted
  <2> QED BY <1>3, <1>5, SlotWritten
<1> HIDE DEF counted
<1>7. counted \in EngineType /\ slot \in 1 .. Len(counted.slots)
  BY <1>6 DEF WorkFor
<1>8. CASE then.rounds > TRACKER_ROUNDS_MAX
  <2>1. after = failTorrent(counted, slot)
    BY <1>5a, <1>6, <1>8
  <2>2. /\ WorkFor(counted, slot, after)
        /\ after.slots[slot] = [counted.slots[slot] EXCEPT !.status = "FAILED"]
        /\ after.links = counted.links /\ after.ports = counted.ports
    BY <1>7, <2>1, FailedSlot
  <2>3. after.slots[slot].status = "FAILED" /\ after.slots[slot].port = then.port
    BY <1>3, <1>6, <2>2 DEF Slot
  <2>4. WorkFor(engine, slot, after)
    BY <1>6, <2>2, WorkedOn
  <2>5. QED
    BY <1>4, <1>6, <2>2, <2>3, <2>4
<1>9. CASE ~(then.rounds > TRACKER_ROUNDS_MAX)
  <2> DEFINE waiting == [then EXCEPT !.tracker = 0, !.due = FALSE, !.status = "WAITING"]
  <2>1. after = Written(counted, slot, waiting, counted.ports) /\ counted.ports \in Int
    <3>1. counted.slots[slot] = then /\ counted.slots \in [1 .. Len(counted.slots) -> Slot]
      BY <1>6, <1>7, SlotsOf
    <3> DEFINE first == [counted.slots EXCEPT ![slot] = [then EXCEPT !.tracker = 0]]
               second == [first EXCEPT ![slot] = [then EXCEPT !.tracker = 0, !.due = FALSE]]
               third == [second EXCEPT ![slot] = waiting]
    <3>2. /\ first[slot] = [then EXCEPT !.tracker = 0]
          /\ second[slot] = [then EXCEPT !.tracker = 0, !.due = FALSE]
          /\ third = [counted.slots EXCEPT ![slot] = waiting]
      BY <1>7, <3>1
    <3>3. [counted EXCEPT !.slots[slot].tracker = 0, !.slots[slot].due = FALSE,
                          !.slots[slot].status = "WAITING"] = [counted EXCEPT !.slots = third]
      <4>1. [counted EXCEPT !.slots[slot].tracker = 0] = [counted EXCEPT !.slots = first]
        BY <3>1
      <4> DEFINE once == [counted EXCEPT !.slots = first]
                 twice == [counted EXCEPT !.slots = second]
      <4>2. once.slots = first
        BY <1>7 DEF EngineType
      <4>3. [once EXCEPT !.slots[slot].due = FALSE] = twice
        <5> HIDE DEF first
        <5>1. [once EXCEPT !.slots[slot].due = FALSE] = [once EXCEPT !.slots = second]
          BY <3>2, <4>2
        <5>2. QED
          BY <5>1
      <4>4. twice.slots = second
        BY <1>7 DEF EngineType
      <4>5. [twice EXCEPT !.slots[slot].status = "WAITING"] = [counted EXCEPT !.slots = third]
        <5> HIDE DEF first, second
        <5>1. [twice EXCEPT !.slots[slot].status = "WAITING"] = [twice EXCEPT !.slots = third]
          BY <3>2, <4>4
        <5>2. QED
          BY <5>1
      <4>6. QED
        BY <4>1, <4>3, <4>5
    <3>4. after = [counted EXCEPT !.slots = [counted.slots EXCEPT ![slot] = waiting]]
      BY <1>5a, <1>9, <3>1, <3>2, <3>3
    <3>5. QED
      BY <1>7, <3>4, PortsAsTheyWere, SlotsOf
  <2>2. 0 \in 0 .. TrackerCount
    BY Constants
  <2>3. /\ waiting \in Slot /\ SameTorrent(then, waiting)
        /\ waiting.port = then.port /\ waiting.status = "WAITING" /\ waiting.rounds = then.rounds
    BY <1>3, <2>2 DEF Slot, SameTorrent
  <2> HIDE DEF waiting
  <2>4. /\ WorkFor(counted, slot, after) /\ after.slots[slot] = waiting
        /\ after.links = counted.links /\ after.ports = counted.ports
    BY <1>6, <1>7, <2>1, <2>3, SlotWritten
  <2>5. WorkFor(engine, slot, after)
    BY <1>6, <2>4, WorkedOn
  <2>6. then.rounds <= TRACKER_ROUNDS_MAX
    <3>1. then.rounds \in Int /\ TRACKER_ROUNDS_MAX \in Int
      BY <1>3, Constants DEF Slot
    <3>2. QED
      BY <1>9, <3>1
  <2>7. QED
    BY <1>4, <1>6, <2>3, <2>4, <2>5, <2>6
<1>10. QED
  BY <1>8, <1>9
-----------------------------------------------------------------------------
(* What they make of the connections.                                      *)

LEMMA DeadLink ==
  ASSUME NEW link \in Link
  PROVE  Die(link) \in Link /\ Die(link).state = "DEAD"
BY DEF Die, Link

LEMMA PeersClosed ==
  ASSUME NEW engine \in EngineType, NEW slot \in 1 .. Len(engine.slots),
         NEW after, after = closeAllPeers(engine)
  PROVE  /\ WorkFor(engine, slot, after)
         /\ after.slots = engine.slots /\ after.ports = engine.ports
         /\ \A link \in Links : after.links[link].state = "DEAD"
<1> DEFINE closed == [link \in Links |-> Die(engine.links[link])]
<1>1. \A link \in Links : engine.links[link] \in Link
  BY SlotsOf
<1>2. closed \in [Links -> Link] /\ \A link \in Links : closed[link].state = "DEAD"
  BY <1>1, DeadLink
<1>3. after = Connected(engine, closed)
  BY DEF closeAllPeers, Connected
<1> HIDE DEF closed
<1>4. QED
  BY <1>2, <1>3, LinksWritten

\* Its torrent is worked for, so that its peers may be connected.
Served(engine, slot) ==
    /\ engine.slots[slot].status \in {"DESCRIBING", "DOWNLOADING"}
    /\ \A link \in Links : LinkOK(engine.links[link], engine.slots[slot])

LEMMA PeersFilled ==
  ASSUME NEW engine \in EngineType, NEW slot \in 1 .. Len(engine.slots), Served(engine, slot),
         NEW after \in fillPeerSlots(engine)
  PROVE  /\ WorkFor(engine, slot, after) /\ Served(after, slot)
         /\ after.slots = engine.slots /\ after.ports = engine.ports
<1> DEFINE dead == {link \in Links : engine.links[link].state = "DEAD"}
           Before(link) == {other \in dead : other < link}
           opened(count, refused) == [link \in Links |->
                IF link \notin dead \/ Cardinality(Before(link)) > count THEN engine.links[link]
                ELSE IF Cardinality(Before(link)) < count THEN [Closed EXCEPT !.state = "OPENING"]
                ELSE IF refused THEN Closed ELSE engine.links[link]]
<1>1. PICK count \in 0 .. Cardinality(dead), refused \in BOOLEAN :
         after = [engine EXCEPT !.links = opened(count, refused)]
  BY DEF fillPeerSlots
<1> DEFINE links1 == opened(count, refused)
<1>2. /\ Closed \in Link /\ Closed.state = "DEAD"
      /\ [Closed EXCEPT !.state = "OPENING"] \in Link
      /\ [Closed EXCEPT !.state = "OPENING"].of = Nothing
  BY DEF Closed, Link
<1>3. ASSUME NEW link \in Links
      PROVE  links1[link] \in {engine.links[link], Closed, [Closed EXCEPT !.state = "OPENING"]}
  BY DEF opened
<1>4. \A link \in Links : engine.links[link] \in Link
  BY SlotsOf
<1>5. links1 \in [Links -> Link]
  <2>1. \A link \in Links : links1[link] \in Link
    <3> HIDE DEF links1
    <3> QED BY <1>2, <1>3, <1>4
  <2>2. links1 = [link \in Links |-> links1[link]]
    BY DEF opened
  <2> HIDE DEF links1
  <2>3. QED
    BY <2>1, <2>2
<1>6. after = Connected(engine, links1)
  BY <1>1 DEF Connected
<1> HIDE DEF links1
<1>7. /\ WorkFor(engine, slot, after) /\ after.links = links1
      /\ after.slots = engine.slots /\ after.ports = engine.ports
  BY <1>5, <1>6, LinksWritten
<1>8. Served(after, slot)
  BY <1>2, <1>3, <1>7 DEF Served, LinkOK
<1>9. QED
  BY <1>7, <1>8

LEMMA PeersHeard ==
  ASSUME NEW engine \in EngineType, NEW slot \in 1 .. Len(engine.slots),
         engine.active = slot, NEW after \in HearPeers(engine)
  PROVE  /\ WorkFor(engine, slot, after)
         /\ Served(engine, slot) => Served(after, slot)
         /\ after.slots = engine.slots /\ after.ports = engine.ports
<1>1. CASE after = engine
  BY <1>1, NoWork
<1>2. CASE \E link \in Links : after \in servicePeer(engine, link)
  <2>1. PICK link \in Links : after \in servicePeer(engine, link)
    BY <1>2
  <2> DEFINE peer == engine.links[link]
             torrent == engine.slots[slot].torrent
             ready == [peer EXCEPT !.state = "READY", !.of = torrent, !.left = FALSE]
             sized == [peer EXCEPT !.size = peer.of]
  <2>2. peer \in Link /\ engine.slots[slot] \in Slot /\ torrent \in Torrents
    BY SlotsOf DEF Slot
  <2>3. PICK heard \in {Die(peer), ready, sized} :
           after = [engine EXCEPT !.links[link] = heard]
    BY <2>1 DEF servicePeer
  <2>4. Die(peer) \in Link /\ Die(peer).state = "DEAD"
    BY <2>2, DeadLink
  <2>5. ready \in Link /\ ready.of = torrent
    BY <2>2 DEF Link
  <2>6. sized \in Link /\ sized.state = peer.state /\ sized.of = peer.of /\ sized.left = peer.left
    BY <2>2 DEF Link
  <2>7. Served(engine, slot) => LinkOK(heard, engine.slots[slot])
    BY <2>3, <2>4, <2>5, <2>6 DEF Served, LinkOK
  <2> HIDE DEF ready, sized
  <2> DEFINE connections == [engine.links EXCEPT ![link] = heard]
  <2>8. connections \in [Links -> Link]
    BY <2>3, <2>4, <2>5, <2>6, SlotsOf
  <2>9. after = Connected(engine, connections)
    BY <2>3 DEF Connected
  <2>10. \A other \in Links : connections[other] = IF other = link THEN heard ELSE engine.links[other]
    BY SlotsOf
  <2> HIDE DEF connections
  <2>11. /\ WorkFor(engine, slot, after) /\ after.links = connections
         /\ after.slots = engine.slots /\ after.ports = engine.ports
    BY <2>8, <2>9, LinksWritten
  <2>12. Served(engine, slot) => Served(after, slot)
    BY <2>7, <2>10, <2>11 DEF Served
  <2>13. QED
    BY <2>11, <2>12
<1>3. QED
  BY <1>1, <1>2 DEF HearPeers

LEMMA PeersLeft ==
  ASSUME NEW engine \in EngineType, NEW slot \in 1 .. Len(engine.slots),
         NEW after, after = LeaveBehind(engine)
  PROVE  /\ WorkFor(engine, slot, after)
         /\ after.slots = engine.slots /\ after.ports = engine.ports
         /\ \A link \in Links : Forgotten(after.links[link])
<1> DEFINE marked == [link \in Links |->
                        [engine.links[link] EXCEPT !.left = engine.links[link].state # "DEAD"]]
<1>1. \A link \in Links : engine.links[link] \in Link
  BY SlotsOf
<1>2. \A link \in Links : marked[link] \in Link /\ Forgotten(marked[link])
  BY <1>1 DEF Link, Forgotten
<1>3. marked \in [Links -> Link]
  BY <1>2
<1>4. after = Connected(engine, marked)
  BY DEF LeaveBehind, Connected
<1> HIDE DEF marked
<1>5. QED
  BY <1>2, <1>3, <1>4, LinksWritten
-----------------------------------------------------------------------------
(* Describing, and the pieces.                                             *)

\* A torrent's record changes, but for whether it has a port and its rounds.
SameTries(slot, then) == then.port = slot.port /\ then.rounds = slot.rounds

LEMMA SizeNoted ==
  ASSUME NEW engine \in EngineType, NEW slot \in 1 .. Len(engine.slots),
         NEW after, after = noteDescriptionSize(engine, slot)
  PROVE  /\ WorkFor(engine, slot, after) /\ SameTries(engine.slots[slot], after.slots[slot])
         /\ after.slots[slot].status \in {engine.slots[slot].status, "FAILED"}
         /\ after.links = engine.links /\ after.ports = engine.ports
<1> DEFINE named == {link \in Links : engine.links[link].size # Nothing}
           fitting == {link \in named : engine.links[link].size \notin TooLarge}
           noted == IF fitting = {} THEN engine
                    ELSE [engine EXCEPT !.slots[slot].size = engine.links[Min(fitting)].size]
<1>1. after \in {engine, noted, failTorrent(noted, slot)}
  BY DEF noteDescriptionSize
<1>2. engine.slots[slot] \in Slot /\ engine.ports \in Int
  BY SlotsOf
<1>3. /\ WorkFor(engine, slot, noted) /\ SameTries(engine.slots[slot], noted.slots[slot])
      /\ noted.slots[slot].status = engine.slots[slot].status
      /\ noted.links = engine.links /\ noted.ports = engine.ports
  <2>1. CASE fitting = {}
    BY <1>2, <2>1, NoWork DEF SameTries
  <2>2. CASE fitting # {}
    <3>1. Min(fitting) \in Links
      <4>1. fitting \in SUBSET Nat
        BY Constants DEF Links
      <4>2. Min(fitting) \in fitting
        <5> HIDE DEF fitting
        <5> QED BY <2>2, <4>1, MinIsIn
      <4>3. QED
        BY <4>2
    <3> DEFINE size == engine.links[Min(fitting)].size
               then == [engine.slots[slot] EXCEPT !.size = size]
    <3>2. noted = [engine EXCEPT !.slots[slot].size = size]
      BY <2>2
    <3>3. size \in Torrents \union {Nothing}
      BY <3>1, SlotsOf DEF Link
    <3> HIDE DEF size, fitting, noted
    <3>4. /\ then \in Slot /\ SameTorrent(engine.slots[slot], then)
          /\ SameTries(engine.slots[slot], then) /\ then.status = engine.slots[slot].status
      BY <1>2, <3>3 DEF Slot, SameTorrent, SameTries
    <3>5. noted = Written(engine, slot, then, engine.ports)
      BY <3>2, PortsAsTheyWere
    <3> HIDE DEF then
    <3>6. QED
      BY <1>2, <3>4, <3>5, SlotWritten
  <2>3. QED
    BY <2>1, <2>2
<1> HIDE DEF noted
<1>4. CASE after = failTorrent(noted, slot)
  <2>1. noted \in EngineType /\ slot \in 1 .. Len(noted.slots)
    BY <1>3 DEF WorkFor
  <2>2. /\ WorkFor(noted, slot, after)
        /\ after.slots[slot] = [noted.slots[slot] EXCEPT !.status = "FAILED"]
        /\ after.links = noted.links /\ after.ports = noted.ports
    BY <1>4, <2>1, FailedSlot
  <2>3. noted.slots[slot] \in Slot
    BY <2>1, SlotsOf
  <2>4. after.slots[slot].status = "FAILED" /\ SameTries(noted.slots[slot], after.slots[slot])
    BY <2>2, <2>3 DEF Slot, SameTries
  <2>5. QED
    BY <1>3, <2>2, <2>4, WorkedOn DEF SameTries
<1>5. CASE after = engine
  BY <1>2, <1>5, NoWork DEF SameTries
<1>6. QED
  BY <1>1, <1>3, <1>4, <1>5

LEMMA DescriptionStored ==
  ASSUME NEW engine \in EngineType, NEW slot \in 1 .. Len(engine.slots),
         NEW after \in storeDescription(engine, slot)
  PROVE  /\ WorkFor(engine, slot, after) /\ SameTries(engine.slots[slot], after.slots[slot])
         /\ after.slots[slot].status = engine.slots[slot].status
         /\ after.links = engine.links /\ after.ports = engine.ports
<1>1. engine.slots[slot] \in Slot /\ engine.ports \in Int
  BY SlotsOf
<1>2. PICK document \in {Garbage, engine.slots[slot].torrent} :
         after = [engine EXCEPT !.slots[slot].document = document]
  BY DEF storeDescription
<1> DEFINE then == [engine.slots[slot] EXCEPT !.document = document]
<1>3. /\ then \in Slot /\ SameTorrent(engine.slots[slot], then)
      /\ SameTries(engine.slots[slot], then) /\ then.status = engine.slots[slot].status
  BY <1>1 DEF Slot, SameTorrent, SameTries
<1>4. after = Written(engine, slot, then, engine.ports)
  BY <1>2, PortsAsTheyWere
<1> HIDE DEF then
<1>5. QED
  BY <1>1, <1>3, <1>4, SlotWritten

LEMMA FailedAndClosed ==
  ASSUME NEW engine \in EngineType, NEW slot \in 1 .. Len(engine.slots),
         NEW after, after = closeAllPeers(failTorrent(engine, slot))
  PROVE  /\ WorkFor(engine, slot, after) /\ SameTries(engine.slots[slot], after.slots[slot])
         /\ after.slots[slot].status = "FAILED" /\ after.ports = engine.ports
         /\ \A link \in Links : after.links[link].state = "DEAD"
<1> DEFINE failed == failTorrent(engine, slot)
<1>1. /\ WorkFor(engine, slot, failed)
      /\ failed.slots[slot] = [engine.slots[slot] EXCEPT !.status = "FAILED"]
      /\ failed.ports = engine.ports
  BY FailedSlot
<1>2. failed.slots[slot].status = "FAILED" /\ SameTries(engine.slots[slot], failed.slots[slot])
  BY <1>1, SlotsOf DEF Slot, SameTries
<1>3. failed \in EngineType /\ slot \in 1 .. Len(failed.slots)
  BY <1>1 DEF WorkFor
<1>4. after = closeAllPeers(failed)
  OBVIOUS
<1> HIDE DEF failed
<1>5. /\ WorkFor(failed, slot, after) /\ after.slots = failed.slots /\ after.ports = failed.ports
      /\ \A link \in Links : after.links[link].state = "DEAD"
  BY <1>3, <1>4, PeersClosed
<1>6. QED
  BY <1>1, <1>2, <1>5, WorkedOn

\* What is read is believed and goes on, or ends the turn with every peer closed.
LEMMA DescriptionTaken ==
  ASSUME NEW engine \in EngineType, NEW slot \in 1 .. Len(engine.slots),
         NEW after \in takeDescription(engine, slot)
  PROVE  /\ WorkFor(engine, slot, after) /\ SameTries(engine.slots[slot], after.slots[slot])
         /\ after.ports = engine.ports
         /\ \/ after.slots[slot].status = "DOWNLOADING" /\ after.links = engine.links
            \/ /\ after.slots[slot].status = "FAILED"
               /\ \A link \in Links : after.links[link].state = "DEAD"
<1> DEFINE failed == closeAllPeers(failTorrent(engine, slot))
<1>1. /\ WorkFor(engine, slot, failed) /\ SameTries(engine.slots[slot], failed.slots[slot])
      /\ failed.slots[slot].status = "FAILED" /\ failed.ports = engine.ports
      /\ \A link \in Links : failed.links[link].state = "DEAD"
  BY FailedAndClosed
<1>2. \/ after = failed
      \/ \E counted \in BOOLEAN :
            after = [failed EXCEPT !.slots[slot].described = counted, !.slots[slot].trackers = 0,
                                   !.slots[slot].hash = Nothing]
      \/ after = [failed EXCEPT !.slots[slot].described = TRUE, !.slots[slot].trackers = 0]
      \/ after = [engine EXCEPT !.slots[slot].described = TRUE, !.slots[slot].status = "DOWNLOADING"]
  BY DEF takeDescription
<1> HIDE DEF failed
<1>3. /\ failed \in EngineType /\ slot \in 1 .. Len(failed.slots)
      /\ failed.slots[slot] \in Slot /\ failed.ports \in Int
      /\ failed.slots \in [1 .. Len(failed.slots) -> Slot]
  BY <1>1, SlotsOf DEF WorkFor
<1>4. /\ engine.slots[slot] \in Slot /\ engine.ports \in Int
      /\ engine.slots \in [1 .. Len(engine.slots) -> Slot]
  BY SlotsOf
<1>5. 0 \in {0, TrackerCount}
  OBVIOUS
<1>6. CASE after = failed
  BY <1>1, <1>6
<1>7. CASE \E counted \in BOOLEAN :
            after = [failed EXCEPT !.slots[slot].described = counted, !.slots[slot].trackers = 0,
                                   !.slots[slot].hash = Nothing]
  <2>1. PICK counted \in BOOLEAN :
            after = [failed EXCEPT !.slots[slot].described = counted, !.slots[slot].trackers = 0,
                                   !.slots[slot].hash = Nothing]
    BY <1>7
  <2> DEFINE then == [failed.slots[slot] EXCEPT !.described = counted, !.trackers = 0, !.hash = Nothing]
  <2>2. /\ then \in Slot /\ SameTorrent(failed.slots[slot], then)
        /\ SameTries(failed.slots[slot], then) /\ then.status = failed.slots[slot].status
    BY <1>3 DEF Slot, SameTorrent, SameTries
  <2>3. after = Written(failed, slot, then, failed.ports)
    <3>1. after.slots = [failed.slots EXCEPT ![slot] = then]
      <4> HIDE DEF then
      <4>1. after.slots = [[[failed.slots EXCEPT ![slot].described = counted]
                              EXCEPT ![slot].trackers = 0] EXCEPT ![slot].hash = Nothing]
        BY <1>3, <2>1 DEF EngineType
      <4>2. QED
        BY <1>3, <4>1 DEF then
    <3>2. after = [failed EXCEPT !.slots = after.slots]
      BY <1>3, <2>1 DEF EngineType
    <3>3. QED
      BY <1>3, <3>1, <3>2, PortsAsTheyWere
  <2> HIDE DEF then
  <2>4. /\ WorkFor(failed, slot, after) /\ after.slots[slot] = then
        /\ after.links = failed.links /\ after.ports = failed.ports
    BY <1>3, <2>2, <2>3, SlotWritten
  <2>5. QED
    BY <1>1, <2>2, <2>4, WorkedOn DEF SameTries
<1>8. CASE after = [failed EXCEPT !.slots[slot].described = TRUE, !.slots[slot].trackers = 0]
  <2> DEFINE then == [failed.slots[slot] EXCEPT !.described = TRUE, !.trackers = 0]
  <2>2. /\ then \in Slot /\ SameTorrent(failed.slots[slot], then)
        /\ SameTries(failed.slots[slot], then) /\ then.status = failed.slots[slot].status
    BY <1>3 DEF Slot, SameTorrent, SameTries
  <2>3. after = Written(failed, slot, then, failed.ports)
    BY <1>3, <1>8, PortsAsTheyWere
  <2> HIDE DEF then
  <2>4. /\ WorkFor(failed, slot, after) /\ after.slots[slot] = then
        /\ after.links = failed.links /\ after.ports = failed.ports
    BY <1>3, <2>2, <2>3, SlotWritten
  <2>5. QED
    BY <1>1, <2>2, <2>4, WorkedOn DEF SameTries
<1>9. CASE after = [engine EXCEPT !.slots[slot].described = TRUE, !.slots[slot].status = "DOWNLOADING"]
  <2> DEFINE then == [engine.slots[slot] EXCEPT !.described = TRUE, !.status = "DOWNLOADING"]
  <2>1. /\ then \in Slot /\ SameTorrent(engine.slots[slot], then)
        /\ SameTries(engine.slots[slot], then) /\ then.status = "DOWNLOADING"
    BY <1>4 DEF Slot, SameTorrent, SameTries, Working
  <2>2. after = Written(engine, slot, then, engine.ports)
    BY <1>4, <1>9, PortsAsTheyWere
  <2> HIDE DEF then
  <2>3. QED
    BY <1>4, <2>1, <2>2, SlotWritten
<1>10. QED
  BY <1>2, <1>6, <1>7, <1>8, <1>9
-----------------------------------------------------------------------------
(* A slice of work for the torrent whose turn it is.                       *)

LEMMA WorkDone ==
  ASSUME NEW engine, EngineOK(engine), NEW slot, slot = engine.active, slot # 0,
         NEW after, WorkFor(engine, slot, after), SlotOK(after.slots[slot], TRUE),
         after.ports = IF after.slots[slot].status = "ASKING" THEN 1 ELSE 0,
         \A link \in Links : LinkOK(after.links[link], after.slots[slot])
  PROVE  EngineOK(after)
<1>1. engine \in EngineType /\ Len(engine.slots) \in Nat /\ slot \in 1 .. Len(engine.slots)
  BY SlotsOf DEF EngineOK
<1>2. /\ after \in EngineType /\ after.active = slot /\ Len(after.slots) = Len(engine.slots)
      /\ \A other \in 1 .. Len(engine.slots) \ {slot} : after.slots[other] = engine.slots[other]
      /\ after.slots[slot].hash \in {engine.slots[slot].hash, Nothing}
  BY DEF WorkFor, SameTorrent
<1>3. HashesApart(after.slots)
  <2>1. HashesApart(engine.slots)
    BY DEF EngineOK
  <2>2. \A other \in 1 .. Len(engine.slots) :
           after.slots[other].hash \in {engine.slots[other].hash, Nothing}
    BY <1>1, <1>2
  <2>3. QED
    BY <1>2, <2>1, <2>2 DEF HashesApart
<1>4. \A other \in 1 .. Len(after.slots) : SlotOK(after.slots[other], other = after.active)
  <2>1. ASSUME NEW other \in 1 .. Len(engine.slots)
        PROVE  SlotOK(after.slots[other], other = slot)
    <3>1. SlotOK(engine.slots[other], other = slot)
      BY DEF EngineOK
    <3>2. CASE other = slot
      BY <3>2 DEF SlotOK
    <3>3. CASE other # slot
      BY <1>2, <3>1, <3>3 DEF SlotOK
    <3>4. QED
      BY <3>2, <3>3
  <2>2. QED
    BY <1>2, <2>1
<1>5. Len(after.slots) <= TORRENT_SLOT_MAX /\ after.active \in 0 .. Len(after.slots)
  BY <1>1, <1>2 DEF EngineOK
<1>6. QED
  BY <1>2, <1>3, <1>4, <1>5 DEF EngineOK

\* What is known of the torrent whose turn it is.
LEMMA OfTheTurn ==
  ASSUME NEW engine, EngineOK(engine), NEW slot, slot = engine.active, slot # 0
  PROVE  /\ engine \in EngineType /\ slot \in 1 .. Len(engine.slots)
         /\ engine.slots[slot] \in Slot
         /\ engine.slots[slot].port <=> engine.slots[slot].status = "ASKING"
         /\ engine.slots[slot].status \in Working => engine.slots[slot].rounds <= TRACKER_ROUNDS_MAX
         /\ engine.ports = IF engine.slots[slot].status = "ASKING" THEN 1 ELSE 0
         /\ \A link \in Links : LinkOK(engine.links[link], engine.slots[slot])
BY SlotsOf DEF EngineOK, SlotOK

LEMMA AskingStep ==
  ASSUME NEW engine, EngineOK(engine), NEW slot, slot = engine.active, slot # 0,
         engine.slots[slot].status = "ASKING",
         NEW quiet \in BOOLEAN, NEW after \in serviceAsking(engine, slot, quiet)
  PROVE  EngineOK(after)
<1> DEFINE ended == stopTrackerAnnounce(engine, slot)
           next == IF engine.slots[slot].described THEN "DOWNLOADING" ELSE "DESCRIBING"
<1>1. /\ engine \in EngineType /\ slot \in 1 .. Len(engine.slots) /\ engine.slots[slot] \in Slot
      /\ engine.slots[slot].port /\ engine.slots[slot].rounds <= TRACKER_ROUNDS_MAX
      /\ engine.ports = 1
      /\ \A link \in Links : Forgotten(engine.links[link])
  BY OfTheTurn DEF Working, LinkOK, Forgotten
<1>2. /\ WorkFor(engine, slot, ended)
      /\ ended.slots[slot] = [engine.slots[slot] EXCEPT !.port = FALSE]
      /\ ended.links = engine.links /\ ended.ports = 0
  BY <1>1, StoppedAsking
<1>3. /\ ended.slots[slot].port = FALSE /\ ended.slots[slot].status = "ASKING"
      /\ ended.slots[slot].rounds = engine.slots[slot].rounds
  BY <1>1, <1>2 DEF Slot
<1>4. \/ after \in startNextTracker(ended, slot)
      \/ after = waitAndAskAgain(NoTrackerLeft(ended, slot), slot)
      \/ after = engine
      \/ after = [ended EXCEPT !.slots[slot].status = next]
  BY DEF serviceAsking
<1> HIDE DEF ended
<1>5. /\ ended \in EngineType /\ slot \in 1 .. Len(ended.slots) /\ ended.slots[slot] \in Slot
  BY <1>1, <1>2, SlotsOf DEF WorkFor
<1>6. \A then, link : Forgotten(link) => LinkOK(link, then)
  BY DEF Forgotten, LinkOK
<1>7. CASE after \in startNextTracker(ended, slot)
  <2>1. /\ WorkFor(ended, slot, after) /\ after.slots[slot].port = TRUE
        /\ after.slots[slot].status = "ASKING"
        /\ after.slots[slot].rounds = ended.slots[slot].rounds
        /\ after.links = engine.links /\ after.ports = 1
    <3>1. /\ WorkFor(ended, slot, after) /\ after.slots[slot].port = TRUE
          /\ after.slots[slot].status = ended.slots[slot].status
          /\ after.slots[slot].rounds = ended.slots[slot].rounds
          /\ after.links = ended.links /\ after.ports = ended.ports + 1
      BY <1>5, <1>7, AskedNext
    <3>2. QED
      BY <1>2, <1>3, <3>1
  <2>2. WorkFor(engine, slot, after)
    BY <1>2, <2>1, WorkedOn
  <2>3. SlotOK(after.slots[slot], TRUE)
    BY <1>1, <1>3, <2>1 DEF SlotOK
  <2>4. \A link \in Links : LinkOK(after.links[link], after.slots[slot])
    BY <1>1, <1>6, <2>1
  <2>5. QED
    BY <2>1, <2>2, <2>3, <2>4, WorkDone
<1>8. CASE after = waitAndAskAgain(NoTrackerLeft(ended, slot), slot)
  <2> DEFINE none == NoTrackerLeft(ended, slot)
  <2>1. /\ WorkFor(ended, slot, none) /\ none.slots[slot].port = FALSE
        /\ none.slots[slot].rounds <= TRACKER_ROUNDS_MAX
        /\ none.links = engine.links /\ none.ports = 0
    <3>1. /\ WorkFor(ended, slot, none) /\ none.slots[slot].port = ended.slots[slot].port
          /\ none.slots[slot].rounds = ended.slots[slot].rounds
          /\ none.links = ended.links /\ none.ports = ended.ports
      BY <1>5, NoneToAsk
    <3> HIDE DEF none
    <3>2. QED
      BY <1>1, <1>2, <1>3, <3>1
  <2>2. none \in EngineType /\ slot \in 1 .. Len(none.slots)
    BY <1>5, <2>1 DEF WorkFor
  <2>3. after = waitAndAskAgain(none, slot)
    BY <1>8
  <2> HIDE DEF none
  <2>4. /\ WorkFor(none, slot, after) /\ after.slots[slot].port = FALSE
        /\ \/ after.slots[slot].status = "FAILED"
           \/ after.slots[slot].status = "WAITING" /\ after.slots[slot].rounds <= TRACKER_ROUNDS_MAX
        /\ after.links = engine.links /\ after.ports = 0
    BY <2>1, <2>2, <2>3, AskedAgain
  <2>5. WorkFor(engine, slot, after)
    BY <1>2, <2>1, <2>4, WorkedOn
  <2>6. SlotOK(after.slots[slot], TRUE)
    BY <2>4 DEF SlotOK, Working
  <2>7. \A link \in Links : LinkOK(after.links[link], after.slots[slot])
    BY <1>1, <1>6, <2>4
  <2>8. QED
    BY <2>4, <2>5, <2>6, <2>7, WorkDone
<1>9. CASE after = engine
  BY <1>9
<1>10. CASE after = [ended EXCEPT !.slots[slot].status = next]
  <2> DEFINE then == [ended.slots[slot] EXCEPT !.status = next]
  <2>1. /\ then \in Slot /\ SameTorrent(ended.slots[slot], then)
        /\ then.port = FALSE /\ then.status \in {"DESCRIBING", "DOWNLOADING"}
        /\ then.rounds = ended.slots[slot].rounds
    BY <1>3, <1>5 DEF Slot, SameTorrent, Working
  <2>2. after = Written(ended, slot, then, ended.ports) /\ ended.ports \in Int
    BY <1>5, <1>10, PortsAsTheyWere, SlotsOf
  <2> HIDE DEF then
  <2>3. /\ WorkFor(ended, slot, after) /\ after.slots[slot] = then
        /\ after.links = engine.links /\ after.ports = 0
    BY <1>2, <1>5, <2>1, <2>2, SlotWritten
  <2>4. WorkFor(engine, slot, after)
    BY <1>2, <2>3, WorkedOn
  <2>5. SlotOK(after.slots[slot], TRUE)
    BY <1>1, <1>3, <2>1, <2>3 DEF SlotOK
  <2>6. \A link \in Links : LinkOK(after.links[link], after.slots[slot])
    BY <1>1, <1>6, <2>3
  <2>7. QED
    BY <2>1, <2>3, <2>4, <2>5, <2>6, WorkDone
<1>11. QED
  BY <1>4, <1>7, <1>8, <1>9, <1>10

\* Work that leaves the turn in its place without a port, with peers it may have.
LEMMA SliceDone ==
  ASSUME NEW engine, EngineOK(engine), NEW slot, slot = engine.active, slot # 0,
         engine.slots[slot].status \in {"DESCRIBING", "DOWNLOADING"},
         NEW after, WorkFor(engine, slot, after), after.ports = engine.ports,
         after.slots[slot].port = engine.slots[slot].port,
         after.slots[slot].status # "ASKING",
         after.slots[slot].status \in {"FAILED", "FINISHED"}
            \/ after.slots[slot].rounds <= TRACKER_ROUNDS_MAX,
         \A link \in Links : LinkOK(after.links[link], after.slots[slot])
  PROVE  EngineOK(after)
<1>1. engine.ports = 0 /\ ~engine.slots[slot].port
  BY OfTheTurn
<1>2. after.slots[slot] \in Slot
  BY DEF WorkFor, SameTorrent
<1>3. SlotOK(after.slots[slot], TRUE)
  BY <1>1, <1>2 DEF SlotOK, Slot, Working
<1>4. QED
  BY <1>1, <1>3, WorkDone

LEMMA DescribingStep ==
  ASSUME NEW engine, EngineOK(engine), NEW slot, slot = engine.active, slot # 0,
         engine.slots[slot].status = "DESCRIBING",
         NEW quiet \in BOOLEAN, NEW after \in serviceDescribing(engine, slot, quiet)
  PROVE  EngineOK(after)
<1> DEFINE Heard(noted) == IF quiet THEN {noted}
                        ELSE HearPeers(noted) \union
                             IF noted.slots[slot].document = Nothing
                             THEN storeDescription(noted, slot) ELSE {}
           After(heard) ==
            IF heard.slots[slot].status # "DESCRIBING" THEN {LeaveBehind(heard)}
            ELSE IF heard.slots[slot].size # Nothing /\ heard.slots[slot].document # Nothing
                   THEN takeDescription(heard, slot)
            ELSE IF quiet THEN {closeAllPeers(failTorrent(heard, slot))} ELSE {heard}
<1>1. /\ engine \in EngineType /\ slot \in 1 .. Len(engine.slots) /\ engine.slots[slot] \in Slot
      /\ engine.slots[slot].rounds <= TRACKER_ROUNDS_MAX /\ Served(engine, slot)
  BY OfTheTurn DEF Working, Served
<1>2. PICK filled \in IF quiet THEN {engine} ELSE fillPeerSlots(engine) :
         after \in UNION {After(heard) : heard \in Heard(noteDescriptionSize(filled, slot))}
  BY DEF serviceDescribing
<1>3. PICK heard \in Heard(noteDescriptionSize(filled, slot)) : after \in After(heard)
  BY <1>2
<1> DEFINE noted == noteDescriptionSize(filled, slot)
<1>4. /\ WorkFor(engine, slot, filled) /\ Served(filled, slot)
      /\ filled.slots = engine.slots /\ filled.ports = engine.ports
  BY <1>1, <1>2, NoWork, PeersFilled
<1>5. filled \in EngineType /\ slot \in 1 .. Len(filled.slots) /\ filled.active = slot
  BY <1>1, <1>4 DEF WorkFor
<1>6. /\ WorkFor(filled, slot, noted) /\ SameTries(filled.slots[slot], noted.slots[slot])
      /\ noted.slots[slot].status \in {"DESCRIBING", "FAILED"}
      /\ noted.links = filled.links /\ noted.ports = filled.ports
  BY <1>4, <1>5, SizeNoted
<1>7. heard \in Heard(noted)
  BY <1>3
<1> HIDE DEF noted
<1>8. /\ noted \in EngineType /\ slot \in 1 .. Len(noted.slots) /\ noted.active = slot
      /\ noted.slots[slot].torrent = engine.slots[slot].torrent
  BY <1>4, <1>5, <1>6 DEF WorkFor, SameTorrent
\* What is heard leaves the torrent where it was, one that was found too large too.
<1>9. /\ WorkFor(noted, slot, heard) /\ SameTries(noted.slots[slot], heard.slots[slot])
      /\ heard.slots[slot].status = noted.slots[slot].status /\ heard.ports = noted.ports
      /\ noted.slots[slot].status = "DESCRIBING" =>
            \A link \in Links : LinkOK(heard.links[link], heard.slots[slot])
  <2>1. noted.slots[slot].status = "DESCRIBING" => Served(noted, slot)
    BY <1>4, <1>6, <1>8 DEF Served, LinkOK
  <2>2. CASE heard = noted
    BY <1>8, <2>1, <2>2, NoWork DEF SameTries, Served
  <2>3. CASE heard \in HearPeers(noted)
    <3>1. /\ WorkFor(noted, slot, heard)
          /\ Served(noted, slot) => Served(heard, slot)
          /\ heard.slots = noted.slots /\ heard.ports = noted.ports
      BY <1>8, <2>3, PeersHeard
    <3>2. QED
      BY <2>1, <3>1 DEF SameTries, Served
  <2>4. CASE heard \in storeDescription(noted, slot)
    <3>1. /\ WorkFor(noted, slot, heard) /\ SameTries(noted.slots[slot], heard.slots[slot])
          /\ heard.slots[slot].status = noted.slots[slot].status
          /\ heard.links = noted.links /\ heard.ports = noted.ports
      BY <1>8, <2>4, DescriptionStored
    <3>2. heard.slots[slot].torrent = noted.slots[slot].torrent
      BY <3>1 DEF WorkFor, SameTorrent
    <3>3. QED
      BY <2>1, <3>1, <3>2 DEF Served, LinkOK
  <2>5. QED
    BY <1>7, <2>2, <2>3, <2>4
<1>10. /\ heard \in EngineType /\ slot \in 1 .. Len(heard.slots)
       /\ WorkFor(engine, slot, heard) /\ SameTries(engine.slots[slot], heard.slots[slot])
       /\ heard.ports = engine.ports
  <2>1. WorkFor(engine, slot, heard)
    BY <1>4, <1>6, <1>9, WorkedOn
  <2>2. heard \in EngineType /\ slot \in 1 .. Len(heard.slots)
    BY <1>1, <2>1 DEF WorkFor
  <2>3. QED
    BY <1>4, <1>6, <1>9, <2>1, <2>2 DEF SameTries
<1> HIDE DEF Heard
<1>11. CASE heard.slots[slot].status # "DESCRIBING"
  <2>1. heard.slots[slot].status = "FAILED"
    BY <1>6, <1>9, <1>11
  <2>2. after = LeaveBehind(heard)
    BY <1>3, <1>11
  <2>3. /\ WorkFor(heard, slot, after) /\ after.slots = heard.slots /\ after.ports = heard.ports
        /\ \A link \in Links : Forgotten(after.links[link])
    BY <1>10, <2>2, PeersLeft
  <2>4. WorkFor(engine, slot, after)
    BY <1>10, <2>3, WorkedOn
  <2>5. \A link \in Links : LinkOK(after.links[link], after.slots[slot])
    BY <2>3 DEF Forgotten, LinkOK
  <2>6. QED
    BY <1>10, <2>1, <2>3, <2>4, <2>5, SliceDone DEF SameTries
<1>12. CASE heard.slots[slot].status = "DESCRIBING"
  <2>1. \A link \in Links : LinkOK(heard.links[link], heard.slots[slot])
    BY <1>9, <1>12
  <2>2. CASE after \in takeDescription(heard, slot)
    <3>1. /\ WorkFor(heard, slot, after) /\ SameTries(heard.slots[slot], after.slots[slot])
          /\ after.ports = heard.ports
          /\ \/ after.slots[slot].status = "DOWNLOADING" /\ after.links = heard.links
             \/ /\ after.slots[slot].status = "FAILED"
                /\ \A link \in Links : after.links[link].state = "DEAD"
      BY <1>10, <2>2, DescriptionTaken
    <3>2. WorkFor(engine, slot, after)
      BY <1>10, <3>1, WorkedOn
    <3>3. after.slots[slot].torrent = heard.slots[slot].torrent
      BY <3>1 DEF WorkFor, SameTorrent
    <3>4. \A link \in Links : LinkOK(after.links[link], after.slots[slot])
      BY <2>1, <3>1, <3>3 DEF LinkOK
    <3>5. QED
      BY <1>1, <1>10, <3>1, <3>2, <3>4, SliceDone DEF SameTries
  <2>3. CASE after = closeAllPeers(failTorrent(heard, slot))
    <3>1. /\ WorkFor(heard, slot, after) /\ SameTries(heard.slots[slot], after.slots[slot])
          /\ after.slots[slot].status = "FAILED" /\ after.ports = heard.ports
          /\ \A link \in Links : after.links[link].state = "DEAD"
      BY <1>10, <2>3, FailedAndClosed
    <3>2. WorkFor(engine, slot, after)
      BY <1>10, <3>1, WorkedOn
    <3>3. \A link \in Links : LinkOK(after.links[link], after.slots[slot])
      BY <3>1 DEF LinkOK
    <3>4. QED
      BY <1>1, <1>10, <3>1, <3>2, <3>3, SliceDone DEF SameTries
  <2>4. CASE after = heard
    BY <1>1, <1>10, <1>12, <2>1, <2>4, SliceDone DEF SameTries
  <2>5. QED
    BY <1>3, <1>12, <2>2, <2>3, <2>4
<1>13. QED
  BY <1>11, <1>12

LEMMA DownloadingStep ==
  ASSUME NEW engine, EngineOK(engine), NEW slot, slot = engine.active, slot # 0,
         engine.slots[slot].status = "DOWNLOADING",
         NEW quiet \in BOOLEAN, NEW after \in serviceDownloading(engine, slot, quiet)
  PROVE  EngineOK(after)
<1>1. /\ engine \in EngineType /\ slot \in 1 .. Len(engine.slots) /\ engine.slots[slot] \in Slot
      /\ engine.slots[slot].rounds <= TRACKER_ROUNDS_MAX /\ Served(engine, slot)
  BY OfTheTurn DEF Working, Served
<1> DEFINE closed == closeAllPeers(engine)
<1>2. /\ WorkFor(engine, slot, closed) /\ closed.slots = engine.slots
      /\ closed.ports = engine.ports
      /\ \A link \in Links : closed.links[link].state = "DEAD"
  BY <1>1, PeersClosed
<1>3. \A link, then : link.state = "DEAD" => LinkOK(link, then)
  BY DEF LinkOK
<1>4. CASE after = finishTorrent(engine, slot)
  <2>1. after = [closed EXCEPT !.slots[slot].status = "FINISHED"]
    BY <1>4 DEF finishTorrent
  <2> HIDE DEF closed
  <2> DEFINE then == [closed.slots[slot] EXCEPT !.status = "FINISHED"]
  <2>2. /\ closed \in EngineType /\ slot \in 1 .. Len(closed.slots)
        /\ closed.slots[slot] \in Slot /\ closed.ports \in Int
    BY <1>1, <1>2, SlotsOf DEF WorkFor
  <2>3. /\ then \in Slot /\ SameTorrent(closed.slots[slot], then)
        /\ SameTries(closed.slots[slot], then) /\ then.status = "FINISHED"
    BY <2>2 DEF Slot, SameTorrent, SameTries, Settled
  <2>4. after = Written(closed, slot, then, closed.ports)
    BY <2>1, <2>2, PortsAsTheyWere
  <2> HIDE DEF then
  <2>5. /\ WorkFor(closed, slot, after) /\ after.slots[slot] = then
        /\ after.links = closed.links /\ after.ports = closed.ports
    BY <2>2, <2>3, <2>4, SlotWritten
  <2>6. WorkFor(engine, slot, after)
    BY <1>2, <2>5, WorkedOn
  <2>7. \A link \in Links : LinkOK(after.links[link], after.slots[slot])
    BY <1>2, <1>3, <2>5
  <2>8. QED
    BY <1>2, <2>3, <2>5, <2>6, <2>7, SliceDone DEF SameTries
<1>5. CASE after = GiveUpOnPeers(engine, slot)
  <2>1. after = waitAndAskAgain(closed, slot)
    BY <1>5 DEF GiveUpOnPeers
  <2> HIDE DEF closed
  <2>2. closed \in EngineType /\ slot \in 1 .. Len(closed.slots)
    BY <1>1, <1>2 DEF WorkFor
  <2>3. /\ WorkFor(closed, slot, after)
        /\ after.slots[slot].port = closed.slots[slot].port
        /\ \/ after.slots[slot].status = "FAILED"
           \/ after.slots[slot].status = "WAITING" /\ after.slots[slot].rounds <= TRACKER_ROUNDS_MAX
        /\ after.links = closed.links /\ after.ports = closed.ports
    BY <1>1, <1>2, <2>1, <2>2, AskedAgain
  <2>4. WorkFor(engine, slot, after)
    BY <1>2, <2>3, WorkedOn
  <2>5. \A link \in Links : LinkOK(after.links[link], after.slots[slot])
    BY <1>2, <1>3, <2>3
  <2>6. QED
    BY <1>2, <2>3, <2>4, <2>5, SliceDone
<1>6. CASE /\ engine.slots[slot].done # PieceCount
           /\ \E filled \in fillPeerSlots(engine) :
                 after \in HearPeers(filled) \union finishPiece(filled, slot)
  <2>1. PICK filled \in fillPeerSlots(engine) :
              after \in HearPeers(filled) \union finishPiece(filled, slot)
    BY <1>6
  <2>2. /\ WorkFor(engine, slot, filled) /\ Served(filled, slot)
        /\ filled.slots = engine.slots /\ filled.ports = engine.ports
    BY <1>1, <2>1, PeersFilled
  <2>3. /\ filled \in EngineType /\ slot \in 1 .. Len(filled.slots) /\ filled.active = slot
        /\ filled.slots[slot] \in Slot /\ filled.ports \in Int
    BY <1>1, <2>2, SlotsOf DEF WorkFor
  <2>4. CASE after \in HearPeers(filled)
    <3>1. /\ WorkFor(filled, slot, after) /\ Served(after, slot)
          /\ after.slots = filled.slots /\ after.ports = filled.ports
      BY <2>2, <2>3, <2>4, PeersHeard
    <3>2. WorkFor(engine, slot, after)
      BY <2>2, <3>1, WorkedOn
    <3>3. QED
      BY <1>1, <2>2, <3>1, <3>2, SliceDone DEF Served
  <2> DEFINE failed == closeAllPeers(failTorrent(filled, slot))
             then == [filled.slots[slot] EXCEPT !.done = @ + 1, !.rounds = 0]
  <2>5. /\ WorkFor(filled, slot, failed) /\ SameTries(filled.slots[slot], failed.slots[slot])
        /\ failed.slots[slot].status = "FAILED" /\ failed.ports = filled.ports
        /\ \A link \in Links : failed.links[link].state = "DEAD"
    BY <2>3, FailedAndClosed
  <2>6. \/ after \in HearPeers(filled)
        \/ after = [filled EXCEPT !.slots[slot].done = @ + 1, !.slots[slot].rounds = 0]
        \/ after = failed \/ after = waitAndAskAgain(failed, slot)
    BY <2>1 DEF finishPiece
  <2> HIDE DEF failed
  <2>7. WorkFor(engine, slot, failed)
    BY <2>2, <2>5, WorkedOn
  <2>8. CASE after = failed
    <3>1. \A link \in Links : LinkOK(after.links[link], after.slots[slot])
      BY <1>3, <2>5, <2>8
    <3>2. QED
      BY <2>2, <2>5, <2>7, <2>8, <3>1, SliceDone DEF SameTries
  <2>9. CASE after = waitAndAskAgain(failed, slot)
    <3>1. failed \in EngineType /\ slot \in 1 .. Len(failed.slots)
      BY <2>3, <2>5 DEF WorkFor
    <3>2. failed.slots[slot].rounds <= TRACKER_ROUNDS_MAX
      BY <1>1, <2>2, <2>5 DEF SameTries
    <3>3. /\ WorkFor(failed, slot, after)
          /\ after.slots[slot].port = failed.slots[slot].port
          /\ \/ after.slots[slot].status = "FAILED"
             \/ after.slots[slot].status = "WAITING" /\ after.slots[slot].rounds <= TRACKER_ROUNDS_MAX
          /\ after.links = failed.links /\ after.ports = failed.ports
      BY <2>9, <3>1, <3>2, AskedAgain
    <3>4. WorkFor(engine, slot, after)
      BY <2>7, <3>3, WorkedOn
    <3>5. \A link \in Links : LinkOK(after.links[link], after.slots[slot])
      BY <1>3, <2>5, <3>3
    <3>6. QED
      BY <2>2, <2>5, <3>3, <3>4, <3>5, SliceDone DEF SameTries
  <2>10. CASE after = [filled EXCEPT !.slots[slot].done = @ + 1, !.slots[slot].rounds = 0]
    <3>1. filled.slots[slot].done + 1 \in 0 .. PieceCount
      <4>1. filled.slots[slot].done \in 0 .. PieceCount /\ filled.slots[slot].done # PieceCount
        BY <1>6, <2>2, <2>3 DEF Slot
      <4>2. QED
        BY <4>1, Constants
    <3>2. /\ then \in Slot /\ SameTorrent(filled.slots[slot], then)
          /\ then.port = filled.slots[slot].port /\ then.status = filled.slots[slot].status
          /\ then.rounds = 0
      <4>1. 0 \in 0 .. TRACKER_ROUNDS_MAX + 1
        BY Constants
      <4> DEFINE more == filled.slots[slot].done + 1
      <4>2. then = [filled.slots[slot] EXCEPT !.done = more, !.rounds = 0]
        OBVIOUS
      <4>3. more \in 0 .. PieceCount
        BY <3>1
      <4> HIDE DEF more, then
      <4>4. QED
        BY <2>3, <4>1, <4>2, <4>3 DEF Slot, SameTorrent
    <3>3. after = Written(filled, slot, then, filled.ports)
      <4>1. filled.slots \in [1 .. Len(filled.slots) -> Slot]
        BY <2>3, SlotsOf
      <4> DEFINE record == filled.slots[slot]
                 more == [record EXCEPT !.done = @ + 1]
                 list == [filled.slots EXCEPT ![slot] = more]
      <4>2. after = [[filled EXCEPT !.slots = list] EXCEPT !.slots[slot].rounds = 0]
        BY <2>10
      <4>3. list[slot] = more /\ filled.slots \in [1 .. Len(filled.slots) -> Slot]
        BY <2>3, <4>1
      <4>4. then = [more EXCEPT !.rounds = 0]
        BY <2>3
      <4>5. [list EXCEPT ![slot].rounds = 0] = [filled.slots EXCEPT ![slot] = then]
        <5> HIDE DEF more, then
        <5>1. QED
          BY <2>3, <4>3, <4>4
      <4> HIDE DEF list, then
      <4>6. after = [filled EXCEPT !.slots = [filled.slots EXCEPT ![slot] = then]]
        BY <2>3, <4>2, <4>5 DEF EngineType
      <4>7. QED
        BY <2>3, <4>6, PortsAsTheyWere
    <3> HIDE DEF then
    <3>4. /\ WorkFor(filled, slot, after) /\ after.slots[slot] = then
          /\ after.links = filled.links /\ after.ports = filled.ports
      BY <2>3, <3>2, <3>3, SlotWritten
    <3>5. WorkFor(engine, slot, after)
      BY <2>2, <3>4, WorkedOn
    <3>6. then.torrent = filled.slots[slot].torrent
      BY <3>2 DEF SameTorrent
    <3>7. \A link \in Links : LinkOK(after.links[link], after.slots[slot])
      BY <2>2, <3>2, <3>4, <3>6 DEF Served, LinkOK
    <3>8. then.rounds <= TRACKER_ROUNDS_MAX /\ then.status = "DOWNLOADING"
      BY <2>2, <3>2, Constants
    <3>9. QED
      BY <2>2, <3>2, <3>4, <3>5, <3>7, <3>8, SliceDone
  <2>11. QED
    BY <2>4, <2>6, <2>8, <2>9, <2>10
<1>7. QED
  BY <1>4, <1>5, <1>6 DEF serviceDownloading

LEMMA SliceStep ==
  ASSUME NEW engine, EngineOK(engine), engine.active # 0,
         engine.slots[engine.active].status \in Working,
         NEW quiet \in BOOLEAN, NEW after \in Slice(engine, quiet)
  PROVE  EngineOK(after)
<1> DEFINE slot == engine.active
<1>1. CASE engine.slots[slot].status = "ASKING"
  <2>1. after \in serviceAsking(engine, slot, quiet)
    BY <1>1 DEF Slice
  <2>2. QED
    BY <1>1, <2>1, AskingStep
<1>2. CASE engine.slots[slot].status = "DESCRIBING"
  <2>1. after \in serviceDescribing(engine, slot, quiet)
    BY <1>2 DEF Slice
  <2>2. QED
    BY <1>2, <2>1, DescribingStep
<1>3. CASE engine.slots[slot].status = "DOWNLOADING"
  <2>1. after \in serviceDownloading(engine, slot, quiet)
    BY <1>3 DEF Slice
  <2>2. QED
    BY <1>3, <2>1, DownloadingStep
<1>4. QED
  BY <1>1, <1>2, <1>3 DEF Working
-----------------------------------------------------------------------------
(* Whose turn it is.                                                       *)

\* The same torrents, in another state: hashes stay apart.
LEMMA SameTorrentsOK ==
  ASSUME NEW engine, EngineOK(engine), NEW after \in EngineType,
         Len(after.slots) = Len(engine.slots), after.active \in 0 .. Len(after.slots),
         \A slot \in 1 .. Len(engine.slots) :
            /\ SameTorrent(engine.slots[slot], after.slots[slot])
            /\ SlotOK(after.slots[slot], slot = after.active),
         after.active = 0 =>
            after.ports = 0 /\ \A link \in Links : Forgotten(after.links[link]),
         after.active # 0 =>
            /\ after.ports = IF after.slots[after.active].status = "ASKING" THEN 1 ELSE 0
            /\ \A link \in Links : LinkOK(after.links[link], after.slots[after.active])
  PROVE  EngineOK(after)
<1>1. HashesApart(after.slots)
  <2>1. HashesApart(engine.slots)
    BY DEF EngineOK
  <2>2. \A slot \in 1 .. Len(engine.slots) :
           after.slots[slot].hash \in {engine.slots[slot].hash, Nothing}
    BY DEF SameTorrent
  <2>3. QED
    BY <2>1, <2>2 DEF HashesApart
<1>2. Len(after.slots) <= TORRENT_SLOT_MAX
  BY DEF EngineOK
<1>3. QED
  BY <1>1, <1>2 DEF EngineOK

LEMMA TurnEnded ==
  ASSUME NEW engine, EngineOK(engine), NEW after, after = EndTurn(engine)
  PROVE  /\ EngineOK(after)
         /\ after.active # 0 => after.slots[after.active].status \in Working
<1>1. CASE engine.active # 0 /\ engine.slots[engine.active].status \notin Working
  <2>1. after = [engine EXCEPT !.active = 0]
    BY <1>1 DEF EndTurn
  <2>2. engine \in EngineType
    BY DEF EngineOK
  <2>3. /\ after \in EngineType /\ after.slots = engine.slots /\ after.links = engine.links
        /\ after.active = 0 /\ after.ports = engine.ports
    BY <2>1, <2>2 DEF EngineType
  <2>4. ASSUME NEW slot \in 1 .. Len(engine.slots)
        PROVE  SameTorrent(engine.slots[slot], after.slots[slot]) /\ SlotOK(after.slots[slot], slot = 0)
    <3>1. SlotOK(engine.slots[slot], slot = engine.active) /\ engine.slots[slot] \in Slot
      BY <2>2, SlotsOf DEF EngineOK
    <3>2. engine.slots[slot].status \in Working => slot = engine.active
      BY <3>1 DEF SlotOK
    <3>3. engine.slots[slot].status \notin Working
      BY <1>1, <3>2
    <3>4. QED
      BY <2>3, <3>1, <3>3 DEF SlotOK, SameTorrent
  <2>5. /\ engine.ports = 0 /\ \A link \in Links : Forgotten(engine.links[link])
    BY <1>1, OfTheTurn DEF Working, LinkOK, Forgotten
  <2>6. 0 \in 0 .. Len(after.slots)
    BY <2>2, <2>3, SlotsOf
  <2>7. QED
    BY <2>3, <2>4, <2>5, <2>6, SameTorrentsOK
<1>2. CASE ~(engine.active # 0 /\ engine.slots[engine.active].status \notin Working)
  BY <1>2 DEF EndTurn
<1>3. QED
  BY <1>1, <1>2

\* What a torrent becomes that is offered the turn and cannot take it, where the
\* content of some has nowhere to go.
Passed(engine, slot, nowhere) == PassedOver(engine, slot, slot \in nowhere)

LEMMA PassedOverOK ==
  ASSUME NEW engine, EngineOK(engine), NEW slot \in 1 .. Len(engine.slots),
         engine.slots[slot].status = "WAITING", NEW nowhere, NEW turn
  PROVE  /\ SameTorrent(engine.slots[slot], Passed(engine, slot, nowhere))
         /\ SlotOK(Passed(engine, slot, nowhere), turn)
<1> DEFINE passed == Passed(engine, slot, nowhere)
           failed == failTorrent(engine, slot)
           none == NoTrackerLeft(engine, slot)
           again == waitAndAskAgain(none, slot)
<1>1. engine \in EngineType /\ SlotOK(engine.slots[slot], slot = engine.active)
  BY DEF EngineOK
<1>2. /\ engine.slots[slot] \in Slot /\ ~engine.slots[slot].port
      /\ engine.slots[slot].rounds <= TRACKER_ROUNDS_MAX
  BY <1>1, SlotsOf DEF SlotOK
<1>3. CASE slot \in nowhere
  <2>1. passed = failed.slots[slot]
    BY <1>3 DEF Passed, PassedOver
  <2>2. /\ WorkFor(engine, slot, failed)
        /\ failed.slots[slot] = [engine.slots[slot] EXCEPT !.status = "FAILED"]
    BY <1>1, FailedSlot
  <2> HIDE DEF failed, passed
  <2>3. passed.status = "FAILED" /\ passed.port = FALSE
    BY <1>2, <2>1, <2>2 DEF Slot
  <2>4. SameTorrent(engine.slots[slot], passed) /\ SlotOK(passed, turn)
    BY <2>1, <2>2, <2>3 DEF WorkFor, SlotOK, Working
  <2>5. QED
    BY <2>4 DEF passed
<1>4. CASE slot \notin nowhere
  <2>1. passed = again.slots[slot]
    BY <1>4 DEF Passed, PassedOver
  <2>2. /\ WorkFor(engine, slot, none)
        /\ none.slots[slot].port = engine.slots[slot].port
        /\ none.slots[slot].rounds = engine.slots[slot].rounds
    BY <1>1, NoneToAsk
  <2> HIDE DEF none, passed
  <2>3. none \in EngineType /\ slot \in 1 .. Len(none.slots)
    BY <1>1, <2>2 DEF WorkFor
  <2>4. /\ WorkFor(none, slot, again)
        /\ again.slots[slot].port = none.slots[slot].port
        /\ \/ again.slots[slot].status = "FAILED"
           \/ again.slots[slot].status = "WAITING" /\ again.slots[slot].rounds <= TRACKER_ROUNDS_MAX
    BY <1>2, <2>2, <2>3, AskedAgain
  <2> HIDE DEF again
  <2>5. WorkFor(engine, slot, again)
    BY <2>2, <2>4, WorkedOn
  <2>6. SlotOK(passed, turn)
    BY <1>2, <2>1, <2>2, <2>4 DEF SlotOK, Working
  <2>7. SameTorrent(engine.slots[slot], passed)
    BY <2>1, <2>5 DEF WorkFor
  <2>8. QED
    BY <2>6, <2>7 DEF passed
<1>5. QED
  BY <1>3, <1>4

\* Slots are written all over, each with the torrent it had.
Listed(engine, list) == [engine EXCEPT !.slots = list]

LEMMA ListWritten ==
  ASSUME NEW engine \in EngineType, NEW n \in Nat, NEW list \in [1 .. n -> Slot]
  PROVE  /\ Listed(engine, list) \in EngineType
         /\ Len(Listed(engine, list).slots) = n /\ Listed(engine, list).slots = list
         /\ Listed(engine, list).active = engine.active
         /\ Listed(engine, list).links = engine.links
         /\ Listed(engine, list).ports = engine.ports
<1>1. list \in Seq(Slot) /\ Len(list) = n
  BY SeqDef, LenProperties
<1>2. QED
  BY <1>1 DEF EngineType, Listed

\* A list in which some were passed over, and the rest is as another engine has it.
PassedList(engine, left, passed, nowhere) ==
    [slot \in 1 .. Len(engine.slots) |->
        IF slot \in passed THEN Passed(engine, slot, nowhere) ELSE left.slots[slot]]
Offered(engine) ==
    {slot \in 1 .. Len(engine.slots) :
        engine.slots[slot].status = "WAITING" /\ engine.slots[slot].due}
Begun(started, slot) == [started EXCEPT !.slots[slot].status = "ASKING", !.active = slot]

LEMMA TurnsThatMayBeChosen ==
  ASSUME NEW engine \in EngineType, NEW after \in ChooseTurn(engine)
  PROVE  \E nowhere :
           \/ after = Listed(engine, PassedList(engine, engine, Offered(engine), nowhere))
           \/ \E slot \in Offered(engine) : \E started \in startNextTracker(engine, slot) :
                 \E passed \in SUBSET (Offered(engine) \ {slot}) :
                    after = Listed(Begun(started, slot),
                                   PassedList(engine, Begun(started, slot), passed, nowhere))
<1> DEFINE offered == {slot \in DOMAIN engine.slots :
                         engine.slots[slot].status = "WAITING" /\ engine.slots[slot].due}
           list(left, passed, nowhere) == [slot \in DOMAIN engine.slots |->
                IF slot \in passed THEN Passed(engine, slot, nowhere) ELSE left.slots[slot]]
           Passing(left, passed, nowhere) == [left EXCEPT !.slots = list(left, passed, nowhere)]
           Taken(slot) == {[started EXCEPT !.slots[slot].status = "ASKING", !.active = slot] :
                             started \in startNextTracker(engine, slot)}
<1>1. DOMAIN engine.slots = 1 .. Len(engine.slots)
  BY SlotsOf
<1>2. offered = Offered(engine)
  BY <1>1 DEF Offered
<1>3. \A left, passed, nowhere :
         Passing(left, passed, nowhere) = Listed(left, PassedList(engine, left, passed, nowhere))
  BY <1>1 DEF PassedList, Listed
<1>4. \A slot : \A left \in Taken(slot) :
         \E started \in startNextTracker(engine, slot) : left = Begun(started, slot)
  BY DEF Begun
<1>5. PICK nowhere \in SUBSET {slot \in offered : engine.slots[slot].described} :
         after \in {Passing(engine, offered, nowhere)}
              \union UNION {{Passing(left, {other \in offered : other < slot}, nowhere) :
                                left \in Taken(slot)} : slot \in offered}
  BY DEF ChooseTurn, Passed
<1>6. \A slot : slot \notin {other \in offered : other < slot}
  BY <1>1
<1> HIDE DEF offered, Passing, Taken
<1>7. CASE after = Passing(engine, offered, nowhere)
  <2>1. after = Listed(engine, PassedList(engine, engine, Offered(engine), nowhere))
    BY <1>2, <1>3, <1>7
  <2>2. QED
    BY <2>1
<1>8. CASE \E slot \in offered : \E left \in Taken(slot) :
              after = Passing(left, {other \in offered : other < slot}, nowhere)
  <2>1. PICK slot \in offered : \E left \in Taken(slot) :
              after = Passing(left, {other \in offered : other < slot}, nowhere)
    BY <1>8
  <2>2. PICK left \in Taken(slot) : after = Passing(left, {other \in offered : other < slot}, nowhere)
    BY <2>1
  <2>3. PICK started \in startNextTracker(engine, slot) : left = Begun(started, slot)
    BY <1>4, <2>2
  <2> DEFINE passed == {other \in offered : other < slot}
  <2>4. passed \in SUBSET (offered \ {slot})
    BY <1>6
  <2>5. after = Passing(left, passed, nowhere)
    BY <2>2
  <2> HIDE DEF passed
  <2>6. after = Listed(left, PassedList(engine, left, passed, nowhere))
    BY <1>3, <2>5
  <2>7. QED
    BY <1>2, <2>1, <2>3, <2>4, <2>6
<1>9. QED
  BY <1>5, <1>7, <1>8

\* An engine that works for nobody.
LEMMA OfNoTurn ==
  ASSUME NEW engine, EngineOK(engine), engine.active = 0
  PROVE  /\ engine \in EngineType /\ Len(engine.slots) \in Nat
         /\ engine.ports = 0 /\ \A link \in Links : Forgotten(engine.links[link])
         /\ \A slot \in 1 .. Len(engine.slots) :
               engine.slots[slot] \in Slot /\ SlotOK(engine.slots[slot], FALSE)
<1>1. engine \in EngineType
  BY DEF EngineOK
<1>2. ASSUME NEW slot \in 1 .. Len(engine.slots) PROVE SlotOK(engine.slots[slot], FALSE)
  <2>1. SlotOK(engine.slots[slot], slot = engine.active) /\ slot # 0
    BY <1>1, SlotsOf DEF EngineOK
  <2>2. QED
    BY <2>1 DEF SlotOK
<1>3. QED
  BY <1>1, <1>2, SlotsOf DEF EngineOK

LEMMA NobodyTakesIt ==
  ASSUME NEW engine, EngineOK(engine), engine.active = 0, NEW nowhere, NEW after,
         after = Listed(engine, PassedList(engine, engine, Offered(engine), nowhere))
  PROVE  EngineOK(after)
<1> DEFINE n == Len(engine.slots)
           then == PassedList(engine, engine, Offered(engine), nowhere)
<1>1. /\ engine \in EngineType /\ n \in Nat
      /\ engine.ports = 0 /\ \A link \in Links : Forgotten(engine.links[link])
      /\ \A slot \in 1 .. n : engine.slots[slot] \in Slot /\ SlotOK(engine.slots[slot], FALSE)
  BY OfNoTurn
<1>2. ASSUME NEW slot \in 1 .. n
      PROVE  /\ SameTorrent(engine.slots[slot], then[slot])
             /\ SlotOK(then[slot], slot = engine.active)
  <2>1. CASE slot \in Offered(engine)
    <3>1. then[slot] = Passed(engine, slot, nowhere) /\ engine.slots[slot].status = "WAITING"
      BY <2>1 DEF PassedList, Offered
    <3>2. QED
      BY <3>1, PassedOverOK
  <2>2. CASE slot \notin Offered(engine)
    <3>1. then[slot] = engine.slots[slot]
      BY <2>2 DEF PassedList
    <3>2. QED
      BY <1>1, <3>1 DEF SameTorrent, SlotOK
  <2>3. QED
    BY <2>1, <2>2
<1>3. then \in [1 .. n -> Slot]
  BY <1>2 DEF PassedList, SameTorrent
<1>4. after = Listed(engine, then)
  OBVIOUS
<1> HIDE DEF then
<1>5. /\ after \in EngineType /\ Len(after.slots) = n /\ after.slots = then
      /\ after.active = engine.active /\ after.links = engine.links /\ after.ports = engine.ports
  BY <1>1, <1>3, <1>4, ListWritten
<1>6. \A slot \in 1 .. n : SameTorrent(engine.slots[slot], after.slots[slot])
                          /\ SlotOK(after.slots[slot], slot = after.active)
  BY <1>2, <1>5
<1>7. after.active = 0 /\ 0 \in 0 .. n
  BY <1>1, <1>5
<1>8. QED
  BY <1>1, <1>5, <1>6, <1>7, SameTorrentsOK

\* The one that takes it: it is asked for, and everything else is as it was.
TurnOf(engine, slot, begun) ==
    /\ begun \in EngineType /\ begun.active = slot /\ begun.ports = 1
    /\ begun.links = engine.links /\ Len(begun.slots) = Len(engine.slots)
    /\ SameTorrent(engine.slots[slot], begun.slots[slot])
    /\ SlotOK(begun.slots[slot], TRUE) /\ begun.slots[slot].status = "ASKING"
    /\ \A other \in 1 .. Len(engine.slots) \ {slot} : begun.slots[other] = engine.slots[other]

LEMMA TurnBegun ==
  ASSUME NEW engine, EngineOK(engine), engine.active = 0,
         NEW slot \in 1 .. Len(engine.slots), engine.slots[slot].status = "WAITING",
         NEW started \in startNextTracker(engine, slot)
  PROVE  TurnOf(engine, slot, Begun(started, slot))
<1>1. /\ engine \in EngineType /\ engine.ports = 0 /\ Len(engine.slots) \in Nat
      /\ engine.slots[slot].rounds <= TRACKER_ROUNDS_MAX
  BY OfNoTurn DEF SlotOK
<1>2. /\ WorkFor(engine, slot, started) /\ started.slots[slot].port = TRUE
      /\ started.slots[slot].rounds = engine.slots[slot].rounds
      /\ started.links = engine.links /\ started.ports = engine.ports + 1
  BY <1>1, AskedNext
<1>3. /\ started \in EngineType /\ Len(started.slots) = Len(engine.slots)
      /\ started.slots[slot] \in Slot /\ started.ports \in Int
      /\ slot \in 1 .. Len(started.slots)
  BY <1>1, <1>2, SlotsOf DEF WorkFor
<1> DEFINE asking == [started.slots[slot] EXCEPT !.status = "ASKING"]
           written == Written(started, slot, asking, started.ports)
           begun == Begun(started, slot)
<1>4. /\ asking \in Slot /\ SameTorrent(started.slots[slot], asking)
      /\ asking.port = TRUE /\ asking.status = "ASKING"
      /\ asking.rounds = started.slots[slot].rounds
  BY <1>2, <1>3 DEF Slot, SameTorrent, Working
<1>5. begun = [written EXCEPT !.active = slot]
  BY <1>3, PortsAsTheyWere DEF Begun
<1> HIDE DEF asking
<1>6. /\ WorkFor(started, slot, written) /\ written.slots[slot] = asking
      /\ written.links = started.links /\ written.ports = started.ports
  BY <1>3, <1>4, SlotWritten
<1> HIDE DEF written, begun
<1>7. WorkFor(engine, slot, written)
  BY <1>2, <1>6, WorkedOn
<1>8. written \in EngineType /\ slot \in Nat
  BY <1>1, <1>7 DEF WorkFor
<1>9. /\ begun \in EngineType /\ begun.active = slot /\ begun.slots = written.slots
      /\ begun.links = written.links /\ begun.ports = written.ports
  BY <1>5, <1>8 DEF EngineType
<1>10. SlotOK(asking, TRUE)
  BY <1>1, <1>2, <1>4 DEF SlotOK
<1>11. written.ports = 1
  BY <1>1, <1>2, <1>6
<1>12. QED
  BY <1>2, <1>4, <1>6, <1>7, <1>9, <1>10, <1>11 DEF WorkFor, TurnOf, begun

LEMMA SomebodyTakesIt ==
  ASSUME NEW engine, EngineOK(engine), engine.active = 0, NEW nowhere,
         NEW slot \in Offered(engine), NEW started \in startNextTracker(engine, slot),
         NEW passed \in SUBSET (Offered(engine) \ {slot}), NEW after,
         after = Listed(Begun(started, slot),
                        PassedList(engine, Begun(started, slot), passed, nowhere))
  PROVE  EngineOK(after)
<1> DEFINE n == Len(engine.slots)
           begun == Begun(started, slot)
           then == PassedList(engine, begun, passed, nowhere)
<1>1. /\ engine \in EngineType /\ n \in Nat
      /\ engine.ports = 0 /\ \A link \in Links : Forgotten(engine.links[link])
      /\ \A other \in 1 .. n : engine.slots[other] \in Slot /\ SlotOK(engine.slots[other], FALSE)
  BY OfNoTurn
<1>2. /\ slot \in 1 .. Len(engine.slots) /\ engine.slots[slot].status = "WAITING"
      /\ slot \notin passed
  BY DEF Offered
<1>3. /\ begun \in EngineType /\ begun.active = slot /\ begun.ports = 1
      /\ begun.links = engine.links /\ Len(begun.slots) = Len(engine.slots)
      /\ SameTorrent(engine.slots[slot], begun.slots[slot])
      /\ SlotOK(begun.slots[slot], TRUE) /\ begun.slots[slot].status = "ASKING"
      /\ \A other \in 1 .. Len(engine.slots) \ {slot} : begun.slots[other] = engine.slots[other]
  <2>1. TurnOf(engine, slot, begun)
    BY <1>2, TurnBegun
  <2> HIDE DEF begun
  <2>2. QED
    BY <2>1 DEF TurnOf
<1>4. /\ \A other \in 1 .. n : then[other] = IF other \in passed THEN Passed(engine, other, nowhere)
                                            ELSE begun.slots[other]
      /\ then = [other \in 1 .. n |-> then[other]]
  BY DEF PassedList
<1>5. after = Listed(begun, then)
  OBVIOUS
<1> HIDE DEF begun, then
<1>6. ASSUME NEW other \in 1 .. n
      PROVE  SameTorrent(engine.slots[other], then[other]) /\ SlotOK(then[other], other = slot)
  <2>1. CASE other \in passed
    <3>1. then[other] = Passed(engine, other, nowhere) /\ engine.slots[other].status = "WAITING"
      BY <1>4, <2>1 DEF Offered
    <3>2. QED
      BY <3>1, PassedOverOK
  <2>2. CASE other = slot
    <3>1. then[other] = begun.slots[slot]
      BY <1>2, <1>4, <2>2
    <3>2. QED
      BY <1>3, <2>2, <3>1 DEF SlotOK
  <2>3. CASE other \notin passed /\ other # slot
    <3>1. then[other] = engine.slots[other]
      BY <1>3, <1>4, <2>3
    <3>2. QED
      BY <1>1, <2>3, <3>1 DEF SameTorrent, SlotOK
  <2>4. QED
    BY <2>1, <2>2, <2>3
<1>7. then \in [1 .. n -> Slot]
  <2>1. \A other \in 1 .. n : then[other] \in Slot
    BY <1>6 DEF SameTorrent
  <2>2. QED
    BY <1>4, <2>1
<1>8. /\ after \in EngineType /\ Len(after.slots) = n /\ after.slots = then
      /\ after.active = slot /\ after.links = engine.links /\ after.ports = 1
  BY <1>1, <1>3, <1>5, <1>7, ListWritten
<1>9. \A link \in Links : LinkOK(after.links[link], after.slots[slot])
  BY <1>1, <1>8 DEF Forgotten, LinkOK
<1>10. after.slots[slot].status = "ASKING" /\ slot \in 0 .. n /\ slot # 0
  <2>1. then[slot] = begun.slots[slot]
    BY <1>2, <1>4
  <2>2. QED
    BY <1>1, <1>2, <1>3, <1>8, <2>1
<1>11. \A other \in 1 .. n : SameTorrent(engine.slots[other], after.slots[other])
                           /\ SlotOK(after.slots[other], other = after.active)
  BY <1>6, <1>8
<1>12. QED
  BY <1>8, <1>9, <1>10, <1>11, SameTorrentsOK

LEMMA TurnChosen ==
  ASSUME NEW engine, EngineOK(engine), engine.active = 0, NEW after \in ChooseTurn(engine)
  PROVE  EngineOK(after)
<1>1. engine \in EngineType
  BY DEF EngineOK
<1>2. QED
  BY <1>1, TurnsThatMayBeChosen, NobodyTakesIt, SomebodyTakesIt

LEMMA ServiceStep ==
  ASSUME NEW engine, EngineOK(engine), NEW quiet \in BOOLEAN,
         NEW after \in IF EndTurn(engine).active # 0 THEN Slice(EndTurn(engine), quiet)
                       ELSE ChooseTurn(EndTurn(engine))
  PROVE  EngineOK(after)
BY TurnEnded, SliceStep, TurnChosen
-----------------------------------------------------------------------------
(* The calls of the app.                                                   *)

\* A torrent whose turn ended with a pause or a removal: its port and the
\* connections went with the turn.
Freed(engine, slot, after) ==
    /\ after \in EngineType /\ Len(after.slots) = Len(engine.slots)
    /\ SameTorrent(engine.slots[slot], after.slots[slot])
    /\ after.slots[slot].port = FALSE
    /\ \A other \in 1 .. Len(engine.slots) \ {slot} :
          /\ after.slots[other] = engine.slots[other]
          /\ SlotOK(engine.slots[other], other = after.active)
    /\ after.active \in 0 .. Len(engine.slots) /\ after.active # slot
    /\ after.active = 0 =>
          after.ports = 0 /\ \A link \in Links : Forgotten(after.links[link])
    /\ after.active # 0 =>
          /\ after.ports = IF after.slots[after.active].status = "ASKING" THEN 1 ELSE 0
          /\ \A link \in Links : LinkOK(after.links[link], after.slots[after.active])

LEMMA ItsTurnEnded ==
  ASSUME NEW engine, EngineOK(engine), NEW slot \in 1 .. Len(engine.slots)
  PROVE  Freed(engine, slot, EndItsTurn(engine, slot))
<1> DEFINE ended == EndItsTurn(engine, slot)
<1>1. /\ engine \in EngineType /\ Len(engine.slots) \in Nat /\ slot # 0
      /\ engine.active \in 0 .. Len(engine.slots)
      /\ \A other \in 1 .. Len(engine.slots) :
            engine.slots[other] \in Slot /\ SlotOK(engine.slots[other], other = engine.active)
  BY SlotsOf DEF EngineOK
<1>2. CASE engine.active # slot
  <2>1. ended = engine
    BY <1>2 DEF EndItsTurn
  <2>2. engine.slots[slot].port = FALSE
    BY <1>1, <1>2 DEF SlotOK, Slot, Working
  <2>3. SameTorrent(engine.slots[slot], engine.slots[slot])
    BY <1>1 DEF SameTorrent
  <2> HIDE DEF ended
  <2>4. Freed(engine, slot, ended)
    BY <1>1, <1>2, <2>1, <2>2, <2>3 DEF Freed, EngineOK
  <2>5. QED
    BY <2>4 DEF ended
<1>3. CASE engine.active = slot
  <2> DEFINE closed == closeAllPeers(engine)
             stopped == stopTrackerAnnounce(closed, slot)
  <2>1. ended = [stopped EXCEPT !.active = 0]
    BY <1>3 DEF EndItsTurn
  <2>2. /\ WorkFor(engine, slot, closed) /\ closed \in EngineType
        /\ closed.slots = engine.slots /\ closed.ports = engine.ports
        /\ \A link \in Links : closed.links[link].state = "DEAD"
    BY <1>1, PeersClosed DEF WorkFor
  <2> HIDE DEF closed
  <2>3. /\ WorkFor(closed, slot, stopped)
        /\ stopped.slots[slot] = [closed.slots[slot] EXCEPT !.port = FALSE]
        /\ stopped.links = closed.links
        /\ stopped.ports = closed.ports - (IF closed.slots[slot].port THEN 1 ELSE 0)
    BY <2>2, StoppedAsking
  <2> HIDE DEF stopped, ended
  <2>4. WorkFor(engine, slot, stopped)
    BY <2>2, <2>3, WorkedOn
  <2>5. stopped.ports = 0
    <3>1. /\ engine.slots[slot].port <=> engine.slots[slot].status = "ASKING"
          /\ engine.ports = IF engine.slots[slot].status = "ASKING" THEN 1 ELSE 0
      BY <1>1, <1>3, OfTheTurn
    <3>2. QED
      BY <2>2, <2>3, <3>1
  <2>6. stopped.slots[slot].port = FALSE
    BY <1>1, <2>2, <2>3 DEF Slot
  <2>7. stopped \in EngineType
    BY <2>4 DEF WorkFor
  <2>8. /\ ended \in EngineType /\ ended.slots = stopped.slots /\ ended.links = stopped.links
        /\ ended.active = 0 /\ ended.ports = stopped.ports
    BY <2>1, <2>7 DEF EngineType
  <2>9. ASSUME NEW other \in 1 .. Len(engine.slots) \ {slot}
        PROVE  /\ ended.slots[other] = engine.slots[other]
               /\ SlotOK(engine.slots[other], other = 0)
    BY <1>1, <1>3, <2>4, <2>8 DEF WorkFor, SlotOK
  <2>10. \A link \in Links : Forgotten(ended.links[link])
    BY <2>2, <2>3, <2>8 DEF Forgotten
  <2>11. 0 \in 0 .. Len(engine.slots)
    BY <1>1
  <2>12. Freed(engine, slot, ended)
    BY <1>1, <2>4, <2>5, <2>6, <2>8, <2>9, <2>10, <2>11 DEF Freed, WorkFor
  <2>13. QED
    BY <2>12 DEF ended
<1>4. QED
  BY <1>2, <1>3

\* pauseTorrent.
LEMMA PauseStep ==
  ASSUME NEW engine, EngineOK(engine), NEW slot \in 1 .. Len(engine.slots), NEW after,
         after = [EndItsTurn(engine, slot) EXCEPT !.slots[slot].status = "PAUSED"]
  PROVE  EngineOK(after)
<1> DEFINE ended == EndItsTurn(engine, slot)
           then == [ended.slots[slot] EXCEPT !.status = "PAUSED"]
           n == Len(engine.slots)
<1>1. Freed(engine, slot, ended)
  BY ItsTurnEnded
<1>2. after = [ended EXCEPT !.slots = [ended.slots EXCEPT ![slot] = then]]
  OBVIOUS
<1> HIDE DEF ended
<1>3. /\ ended \in EngineType /\ slot \in 1 .. Len(ended.slots) /\ ended.slots[slot] \in Slot
      /\ ended.slots[slot].port = FALSE /\ ended.ports \in Int /\ Len(ended.slots) = n
      /\ SameTorrent(engine.slots[slot], ended.slots[slot])
  BY <1>1, SlotsOf DEF Freed
<1>4. /\ then \in Slot /\ then.port = FALSE /\ then.status = "PAUSED"
      /\ SameTorrent(ended.slots[slot], then)
  BY <1>3 DEF Slot, Settled, SameTorrent
<1>5. SameTorrent(engine.slots[slot], then) /\ SlotOK(then, FALSE)
  BY <1>3, <1>4 DEF SameTorrent, SlotOK, Working
<1>6. after = Written(ended, slot, then, ended.ports)
  BY <1>2, <1>3, PortsAsTheyWere
<1> HIDE DEF then
<1>7. /\ WorkFor(ended, slot, after) /\ after.slots[slot] = then
      /\ after.links = ended.links /\ after.ports = ended.ports
  <2>1. /\ WorkFor(ended, slot, Written(ended, slot, then, ended.ports))
        /\ Written(ended, slot, then, ended.ports).slots[slot] = then
        /\ Written(ended, slot, then, ended.ports).links = ended.links
        /\ Written(ended, slot, then, ended.ports).ports = ended.ports
    BY <1>3, <1>4, SlotWritten
  <2>2. QED
    BY <1>6, <2>1
<1>8. /\ after \in EngineType /\ Len(after.slots) = n /\ after.active = ended.active
      /\ \A other \in 1 .. n \ {slot} : after.slots[other] = ended.slots[other]
  BY <1>3, <1>7 DEF WorkFor
<1>9. ASSUME NEW other \in 1 .. n
      PROVE  /\ SameTorrent(engine.slots[other], after.slots[other])
             /\ SlotOK(after.slots[other], other = after.active)
  <2>1. CASE other = slot
    BY <1>1, <1>5, <1>7, <1>8, <2>1 DEF Freed, SlotOK
  <2>2. CASE other # slot
    <3>1. /\ after.slots[other] = engine.slots[other]
          /\ SlotOK(engine.slots[other], other = after.active)
      BY <1>1, <1>8, <2>2 DEF Freed
    <3>2. engine.slots[other] \in Slot
      BY SlotsOf DEF EngineOK
    <3>3. QED
      BY <3>1, <3>2 DEF SameTorrent
  <2>3. QED
    BY <2>1, <2>2
<1>10. /\ after.active \in 0 .. Len(after.slots)
       /\ after.active = 0 =>
             after.ports = 0 /\ \A link \in Links : Forgotten(after.links[link])
       /\ after.active # 0 =>
             /\ after.ports = IF after.slots[after.active].status = "ASKING" THEN 1 ELSE 0
             /\ \A link \in Links : LinkOK(after.links[link], after.slots[after.active])
  <2>1. after.active # 0 => after.active \in 1 .. n \ {slot}
    BY <1>1, <1>8 DEF Freed
  <2>2. QED
    BY <1>1, <1>7, <1>8, <2>1 DEF Freed
<1>11. QED
  BY <1>8, <1>9, <1>10, SameTorrentsOK

\* resumeTorrent and the clock: a torrent that nobody works for is written.
LEMMA IdleSlotWritten ==
  ASSUME NEW engine, EngineOK(engine), NEW slot \in 1 .. Len(engine.slots),
         engine.slots[slot].status \notin Working,
         NEW then, SameTorrent(engine.slots[slot], then), SlotOK(then, FALSE)
  PROVE  EngineOK(Written(engine, slot, then, engine.ports))
<1> DEFINE after == Written(engine, slot, then, engine.ports)
           n == Len(engine.slots)
<1>1. /\ engine \in EngineType /\ n \in Nat /\ engine.active \in 0 .. n /\ engine.ports \in Int
      /\ \A other \in 1 .. n :
            engine.slots[other] \in Slot /\ SlotOK(engine.slots[other], other = engine.active)
  BY SlotsOf DEF EngineOK
<1>2. then \in Slot
  BY DEF SameTorrent
<1>3. /\ WorkFor(engine, slot, after) /\ after.slots[slot] = then
      /\ after.links = engine.links /\ after.ports = engine.ports
  BY <1>1, <1>2, SlotWritten
<1> HIDE DEF after
<1>4. /\ after \in EngineType /\ Len(after.slots) = n /\ after.active = engine.active
      /\ \A other \in 1 .. n \ {slot} : after.slots[other] = engine.slots[other]
  BY <1>3 DEF WorkFor
<1>5. ASSUME NEW other \in 1 .. n
      PROVE  /\ SameTorrent(engine.slots[other], after.slots[other])
             /\ SlotOK(after.slots[other], other = after.active)
  <2>1. CASE other = slot
    BY <1>3, <2>1 DEF SlotOK
  <2>2. CASE other # slot
    BY <1>1, <1>4, <2>2 DEF SameTorrent
  <2>3. QED
    BY <2>1, <2>2
<1>6. then.status \notin Working
  BY DEF SlotOK
<1>7. engine.active = 0 =>
         engine.ports = 0 /\ \A link \in Links : Forgotten(engine.links[link])
  BY DEF EngineOK
<1>8. ASSUME engine.active # 0
      PROVE  /\ after.ports = IF after.slots[engine.active].status = "ASKING" THEN 1 ELSE 0
             /\ \A link \in Links : LinkOK(after.links[link], after.slots[engine.active])
  <2>1. /\ engine.ports = IF engine.slots[engine.active].status = "ASKING" THEN 1 ELSE 0
        /\ \A link \in Links : LinkOK(engine.links[link], engine.slots[engine.active])
    BY <1>8 DEF EngineOK
  <2>2. CASE engine.active = slot
    BY <1>3, <1>6, <2>1, <2>2 DEF Working, LinkOK
  <2>3. CASE engine.active # slot
    <3>1. after.slots[engine.active] = engine.slots[engine.active]
      BY <1>1, <1>4, <1>8, <2>3
    <3>2. QED
      BY <1>3, <2>1, <3>1
  <2>4. QED
    BY <2>2, <2>3
<1>9. EngineOK(after)
  BY <1>1, <1>3, <1>4, <1>5, <1>7, <1>8, SameTorrentsOK
<1>10. QED
  BY <1>9 DEF after

\* removeTorrent: those behind it move down, and the turn with the one that has it.
Without(ended, slot) ==
    [ended EXCEPT !.slots = RemoveAt(@, slot), !.active = MoveDown(@, slot)]

LEMMA RemovalStep ==
  ASSUME NEW engine, EngineOK(engine), NEW slot \in 1 .. Len(engine.slots), NEW after,
         after = Without(EndItsTurn(engine, slot), slot)
  PROVE  EngineOK(after)
<1> DEFINE ended == EndItsTurn(engine, slot)
           n == Len(engine.slots)
           list == RemoveAt(ended.slots, slot)
           was(j) == IF j < slot THEN j ELSE j + 1
<1>1. Freed(engine, slot, ended)
  BY ItsTurnEnded
<1>2. after = [ended EXCEPT !.slots = list, !.active = MoveDown(ended.active, slot)]
  BY DEF Without
<1>3. engine \in EngineType /\ n \in Nat /\ slot \in 1 .. n
  BY SlotsOf DEF EngineOK
<1> HIDE DEF ended, list
<1>4. /\ ended \in EngineType /\ ended.slots \in Seq(Slot) /\ Len(ended.slots) = n
      /\ ended.active \in 0 .. n /\ ended.active # slot
  BY <1>1, SlotsOf DEF Freed
<1>5. /\ list \in Seq(Slot) /\ Len(list) = n - 1
      /\ \A j \in 1 .. n - 1 : list[j] = ended.slots[was(j)]
  <2>1. /\ list \in Seq(Slot) /\ Len(list) = n - 1
        /\ \A j \in 1 .. n - 1 :
              list[j] = IF j < slot THEN ended.slots[j] ELSE ended.slots[j + 1]
    <3>1. slot \in 1 .. Len(ended.slots)
      BY <1>3, <1>4
    <3>2. /\ RemoveAt(ended.slots, slot) \in Seq(Slot)
          /\ Len(RemoveAt(ended.slots, slot)) = Len(ended.slots) - 1
          /\ \A j \in 1 .. Len(ended.slots) - 1 : RemoveAt(ended.slots, slot)[j]
                = IF j < slot THEN ended.slots[j] ELSE ended.slots[j + 1]
      BY <1>4, <3>1, RemoveAtProperties
    <3>3. QED
      BY <1>4, <3>2 DEF list
  <2>2. QED
    BY <2>1
<1>6. /\ \A j \in 1 .. n - 1 : was(j) \in 1 .. n \ {slot}
      /\ \A j, k \in 1 .. n - 1 : j # k => was(j) # was(k)
  BY <1>3
<1>7. /\ MoveDown(ended.active, slot) \in 0 .. n - 1
      /\ ended.active = 0 <=> MoveDown(ended.active, slot) = 0
      /\ \A j \in 1 .. n - 1 : was(j) = ended.active <=> j = MoveDown(ended.active, slot)
  BY <1>3, <1>4 DEF MoveDown
<1> DEFINE active == MoveDown(ended.active, slot)
<1> HIDE DEF active
<1>8. /\ after \in EngineType /\ after.slots = list /\ after.active = active
      /\ after.links = ended.links /\ after.ports = ended.ports
  <2>1. after = [ended EXCEPT !.slots = list, !.active = active]
    BY <1>2 DEF active
  <2>2. active \in Nat
    BY <1>3, <1>7 DEF active
  <2>3. QED
    BY <1>4, <1>5, <2>1, <2>2 DEF EngineType
<1> HIDE DEF was
<1>9. \A j \in 1 .. n - 1 : list[j] = engine.slots[was(j)]
  BY <1>1, <1>5, <1>6 DEF Freed
<1>10. HashesApart(list) /\ n <= TORRENT_SLOT_MAX
  <2>1. /\ n <= TORRENT_SLOT_MAX
        /\ \A one, other \in 1 .. n : one # other /\ engine.slots[one].hash = engine.slots[other].hash
                                        => engine.slots[one].hash = Nothing
    BY DEF EngineOK, HashesApart
  <2>2. ASSUME NEW one \in 1 .. n - 1, NEW other \in 1 .. n - 1, one # other,
               list[one].hash = list[other].hash
        PROVE  list[one].hash = Nothing
    <3>1. was(one) \in 1 .. n /\ was(other) \in 1 .. n /\ was(one) # was(other)
      BY <1>6, <2>2
    <3>2. engine.slots[was(one)].hash = engine.slots[was(other)].hash
      BY <1>9, <2>2
    <3>3. QED
      BY <1>9, <2>1, <3>1, <3>2
  <2>3. QED
    BY <1>5, <2>1, <2>2 DEF HashesApart
<1>11. ASSUME NEW j \in 1 .. n - 1
       PROVE  SlotOK(list[j], j = active)
  <2>1. SlotOK(engine.slots[was(j)], was(j) = ended.active)
    BY <1>1, <1>6 DEF Freed
  <2>2. was(j) = ended.active <=> j = active
    BY <1>7 DEF active
  <2>3. QED
    BY <1>9, <2>1, <2>2 DEF SlotOK
<1>12. active = 0 =>
          after.ports = 0 /\ \A link \in Links : Forgotten(after.links[link])
  BY <1>1, <1>7, <1>8 DEF Freed, active
<1>13. ASSUME active # 0
       PROVE  /\ after.ports = IF after.slots[active].status = "ASKING" THEN 1 ELSE 0
              /\ \A link \in Links : LinkOK(after.links[link], after.slots[active])
  <2>1. active \in 1 .. n - 1 /\ was(active) = ended.active /\ ended.active # 0
    BY <1>3, <1>7, <1>13 DEF active
  <2>2. after.slots[active] = ended.slots[ended.active]
    BY <1>5, <1>8, <2>1
  <2>3. QED
    BY <1>1, <1>8, <2>1, <2>2 DEF Freed
<1>14. active \in 0 .. n - 1 /\ n - 1 <= TORRENT_SLOT_MAX
  BY <1>3, <1>7, <1>10, Constants DEF active
<1>15. QED
  BY <1>5, <1>8, <1>10, <1>11, <1>12, <1>13, <1>14 DEF EngineOK

\* addMagnet and addTorrent: what nobody holds yet waits behind the others.
Together(engine, torrent) == [engine EXCEPT !.slots = Append(engine.slots, NewSlot(torrent))]

LEMMA AdditionStep ==
  ASSUME NEW engine, EngineOK(engine), Len(engine.slots) < TORRENT_SLOT_MAX,
         NEW torrent \in Torrents,
         \A slot \in 1 .. Len(engine.slots) : engine.slots[slot].hash # torrent
  PROVE  EngineOK(Together(engine, torrent))
<1> DEFINE n == Len(engine.slots)
           list == Append(engine.slots, NewSlot(torrent))
           after == Together(engine, torrent)
<1>1. /\ engine \in EngineType /\ n \in Nat /\ engine.active \in 0 .. n
      /\ engine.slots \in Seq(Slot)
      /\ \A slot \in 1 .. n : SlotOK(engine.slots[slot], slot = engine.active)
  BY SlotsOf DEF EngineOK
<1>2. /\ NewSlot(torrent) \in Slot /\ NewSlot(torrent).hash = torrent
      /\ SlotOK(NewSlot(torrent), FALSE)
  BY Constants DEF NewSlot, Slot, Working, SlotOK
<1>3. /\ list \in Seq(Slot) /\ Len(list) = n + 1 /\ list[n + 1] = NewSlot(torrent)
      /\ \A slot \in 1 .. n : list[slot] = engine.slots[slot]
  BY <1>1, <1>2, AppendProperties
<1>4. after = Listed(engine, list)
  BY DEF Together, Listed
<1> HIDE DEF list, after
<1>5. /\ after \in EngineType /\ after.slots = list /\ after.active = engine.active
      /\ after.links = engine.links /\ after.ports = engine.ports
  BY <1>1, <1>3, <1>4 DEF EngineType, Listed
<1>6. HashesApart(list)
  <2>1. HashesApart(engine.slots)
    BY DEF EngineOK
  <2>2. \A slot \in 1 .. n + 1 : slot \in 1 .. n \/ slot = n + 1
    BY <1>1
  <2>3. QED
    BY <1>2, <1>3, <2>1, <2>2 DEF HashesApart
<1>7. ASSUME NEW slot \in 1 .. n + 1
      PROVE  SlotOK(list[slot], slot = engine.active)
  <2>1. CASE slot \in 1 .. n
    BY <1>1, <1>3, <2>1
  <2>2. CASE slot = n + 1
    BY <1>1, <1>2, <1>3, <2>2 DEF SlotOK
  <2>3. QED
    BY <1>1, <2>1, <2>2
<1>8. engine.active = 0 =>
         after.ports = 0 /\ \A link \in Links : Forgotten(after.links[link])
  BY <1>5 DEF EngineOK
<1>9. engine.active # 0 =>
         /\ after.ports = IF after.slots[engine.active].status = "ASKING" THEN 1 ELSE 0
         /\ \A link \in Links : LinkOK(after.links[link], after.slots[engine.active])
  <2>1. engine.active # 0 => after.slots[engine.active] = engine.slots[engine.active]
    BY <1>1, <1>3, <1>5
  <2>2. QED
    BY <1>5, <2>1 DEF EngineOK
<1>10. n + 1 <= TORRENT_SLOT_MAX /\ engine.active \in 0 .. n + 1
  BY <1>1, Constants
<1>11. EngineOK(after)
  BY <1>3, <1>5, <1>6, <1>7, <1>8, <1>9, <1>10 DEF EngineOK
<1>12. QED
  BY <1>11 DEF after
-----------------------------------------------------------------------------
(* Every state and every step.                                             *)

TurnsInv == EngineOK(Engine) /\ asks \in 0 .. AsksMax

LEMMA BecomesIt ==
  ASSUME NEW after \in EngineType, Becomes(after)
  PROVE  Engine' = after
BY DEF Becomes, Engine, EngineType

LEMMA InitTurns == Init => TurnsInv
<1> SUFFICES ASSUME Init PROVE TurnsInv
  OBVIOUS
<1>1. /\ Engine.slots = << >> /\ Engine.active = 0 /\ Engine.ports = 0
      /\ Engine.links = [link \in Links |-> Closed] /\ asks = 0
  BY DEF Init, Engine
<1>2. Closed \in Link /\ Forgotten(Closed)
  BY DEF Closed, Link, Forgotten
<1>3. << >> \in Seq(Slot) /\ Len(<< >>) = 0
  BY EmptySeq
<1>4. Engine \in EngineType
  <2>1. slots \in Seq(Slot) /\ activeSlot \in Nat /\ ports \in Int /\ links \in [Links -> Link]
    BY <1>2, <1>3 DEF Init
  <2>2. QED
    BY <2>1 DEF Engine, EngineType
<1>5. \A slot \in 1 .. 0 : FALSE
  OBVIOUS
<1>6. \A link \in Links : Forgotten(Engine.links[link])
  BY <1>1, <1>2
<1>7. EngineOK(Engine)
  BY <1>1, <1>3, <1>4, <1>5, <1>6, Constants DEF EngineOK, HashesApart
<1>8. QED
  BY <1>1, <1>7, Constants DEF TurnsInv

LEMMA NextTurns == TurnsInv /\ [Next]_vars => TurnsInv'
<1> SUFFICES ASSUME TurnsInv, [Next]_vars PROVE TurnsInv'
  OBVIOUS
<1>1. /\ EngineOK(Engine) /\ Engine \in EngineType
      /\ Engine.slots = slots /\ Engine.active = activeSlot
      /\ Engine.links = links /\ Engine.ports = ports
      /\ asks \in 0 .. AsksMax
  BY DEF TurnsInv, EngineOK, Engine
<1>2. DOMAIN slots = 1 .. Len(slots) /\ \A slot \in 1 .. Len(slots) : slots[slot] \in Slot
  BY <1>1, SlotsOf
<1>3. ASSUME NEW after, EngineOK(after), Becomes(after), asks' \in 0 .. AsksMax
      PROVE  TurnsInv'
  <2>1. Engine' = after
    BY <1>3, BecomesIt DEF EngineOK
  <2>2. EngineOK(Engine')
    BY <1>3, <2>1
  <2>3. QED
    BY <1>3, <2>2 DEF TurnsInv
<1>4. Ask => asks' \in 0 .. AsksMax
  BY <1>1, Constants DEF Ask
<1>5. ASSUME NEW torrent \in Torrents, AddTorrent(torrent) PROVE TurnsInv'
  <2> DEFINE after == Together(Engine, torrent)
  <2>1. \A slot \in 1 .. Len(slots) : slots[slot].hash # torrent
    BY <1>2, <1>5 DEF AddTorrent, MayBeAdded, Held
  <2>2. Len(slots) < TORRENT_SLOT_MAX
    BY <1>5 DEF AddTorrent, MayBeAdded
  <2>3. EngineOK(after)
    BY <1>1, <2>1, <2>2, AdditionStep
  <2>4. Becomes(after)
    BY <1>5 DEF AddTorrent, Becomes, Together, Engine
  <2> HIDE DEF after
  <2>5. QED
    BY <1>3, <1>4, <1>5, <2>3, <2>4 DEF AddTorrent
<1>6. ASSUME NEW slot \in DOMAIN slots, pauseTorrent(slot) PROVE TurnsInv'
  <2> DEFINE after == [EndItsTurn(Engine, slot) EXCEPT !.slots[slot].status = "PAUSED"]
  <2>1. slot \in 1 .. Len(Engine.slots)
    BY <1>1, <1>2
  <2>2. EngineOK(after)
    BY <1>1, <2>1, PauseStep
  <2>3. Becomes(after) /\ Ask
    BY <1>6 DEF pauseTorrent
  <2> HIDE DEF after
  <2>4. QED
    BY <1>3, <1>4, <2>2, <2>3
<1>7. ASSUME NEW slot \in DOMAIN slots, resumeTorrent(slot) PROVE TurnsInv'
  <2> DEFINE then == [slots[slot] EXCEPT !.tracker = 0, !.rounds = 0, !.due = TRUE,
                                         !.status = "WAITING"]
             after == Written(Engine, slot, then, ports)
  <2>1. slot \in 1 .. Len(slots) /\ slots[slot] \in Slot /\ slots[slot].status = "PAUSED"
    BY <1>2, <1>7 DEF resumeTorrent
  <2>2. SlotOK(slots[slot], slot = activeSlot)
    BY <1>1, <2>1 DEF EngineOK
  <2>3. /\ then \in Slot /\ SameTorrent(slots[slot], then)
        /\ then.port = slots[slot].port /\ then.status = "WAITING" /\ then.rounds = 0
    <3>1. 0 \in 0 .. TrackerCount /\ 0 \in 0 .. TRACKER_ROUNDS_MAX + 1
      BY Constants
    <3>2. then \in Slot
      BY <2>1, <3>1 DEF Slot
    <3>3. /\ then.torrent = slots[slot].torrent /\ then.hash = slots[slot].hash
          /\ then.port = slots[slot].port /\ then.status = "WAITING" /\ then.rounds = 0
      BY <2>1 DEF Slot
    <3>4. QED
      BY <3>2, <3>3 DEF SameTorrent
  <2>4. SlotOK(then, FALSE) /\ slots[slot].status \notin Working
    BY <2>1, <2>2, <2>3, Constants DEF SlotOK, Working
  <2>5. slots' = [slots EXCEPT ![slot] = then]
    BY <1>7, <2>1 DEF resumeTorrent
  <2> HIDE DEF then
  <2>6. EngineOK(Written(Engine, slot, then, Engine.ports))
    BY <1>1, <2>1, <2>3, <2>4, IdleSlotWritten
  <2>7. Becomes(after)
    BY <1>7, <2>5 DEF resumeTorrent, Becomes, Written, Engine
  <2>8. EngineOK(after)
    BY <1>1, <2>6
  <2> HIDE DEF after
  <2>9. QED
    BY <1>3, <1>4, <1>7, <2>7, <2>8 DEF resumeTorrent
<1>8. ASSUME NEW slot \in DOMAIN slots, removeTorrent(slot) PROVE TurnsInv'
  <2> DEFINE after == Without(EndItsTurn(Engine, slot), slot)
  <2>1. slot \in 1 .. Len(Engine.slots)
    BY <1>1, <1>2
  <2>2. EngineOK(after)
    BY <1>1, <2>1, RemovalStep
  <2>3. Becomes(after) /\ Ask
    BY <1>8 DEF removeTorrent, Without
  <2> HIDE DEF after
  <2>4. QED
    BY <1>3, <1>4, <2>2, <2>3
<1>9. ASSUME NEW slot \in DOMAIN slots, RetryComesDue(slot) PROVE TurnsInv'
  <2> DEFINE then == [slots[slot] EXCEPT !.due = TRUE]
             after == Written(Engine, slot, then, ports)
  <2>1. slot \in 1 .. Len(slots) /\ slots[slot] \in Slot /\ slots[slot].status = "WAITING"
    BY <1>2, <1>9 DEF RetryComesDue
  <2>2. SlotOK(slots[slot], slot = activeSlot)
    BY <1>1, <2>1 DEF EngineOK
  <2>3. /\ then \in Slot /\ SameTorrent(slots[slot], then)
        /\ then.port = slots[slot].port /\ then.status = "WAITING"
        /\ then.rounds = slots[slot].rounds
    BY <2>1 DEF Slot, SameTorrent
  <2>4. SlotOK(then, FALSE) /\ slots[slot].status \notin Working
    BY <2>1, <2>2, <2>3 DEF SlotOK, Working
  <2>5. slots' = [slots EXCEPT ![slot] = then]
    BY <1>9, <2>1 DEF RetryComesDue
  <2> HIDE DEF then
  <2>6. EngineOK(Written(Engine, slot, then, Engine.ports))
    BY <1>1, <2>1, <2>3, <2>4, IdleSlotWritten
  <2>7. Becomes(after)
    BY <1>9, <2>5 DEF RetryComesDue, Becomes, Written, Engine
  <2>8. EngineOK(after)
    BY <1>1, <2>6
  <2> HIDE DEF after
  <2>9. QED
    BY <1>1, <1>3, <1>9, <2>7, <2>8 DEF RetryComesDue
<1>10. ASSUME NEW quiet \in BOOLEAN, serviceTorrentEngine(quiet) PROVE TurnsInv'
  <2>1. PICK after \in IF EndTurn(Engine).active # 0 THEN Slice(EndTurn(Engine), quiet)
                       ELSE ChooseTurn(EndTurn(Engine)) : Becomes(after)
    BY <1>10 DEF serviceTorrentEngine
  <2>2. EngineOK(after)
    BY <1>1, <2>1, ServiceStep
  <2>3. QED
    BY <1>1, <1>3, <1>10, <2>1, <2>2 DEF serviceTorrentEngine
<1>11. ASSUME UNCHANGED vars PROVE TurnsInv'
  BY <1>11 DEF TurnsInv, Engine, vars
<1>12. QED
  BY <1>5, <1>6, <1>7, <1>8, <1>9, <1>10, <1>11 DEF Next

LEMMA AlwaysTurnsInv == Spec => []TurnsInv
BY InitTurns, NextTurns, PTL DEF Spec

LEMMA PortsCounted ==
  ASSUME NEW engine, EngineOK(engine)
  PROVE  engine.ports = Cardinality({slot \in 1 .. Len(engine.slots) : engine.slots[slot].port})
<1> DEFINE lent == {slot \in 1 .. Len(engine.slots) : engine.slots[slot].port}
<1>1. /\ engine \in EngineType /\ engine.active \in 0 .. Len(engine.slots)
      /\ \A slot \in 1 .. Len(engine.slots) : SlotOK(engine.slots[slot], slot = engine.active)
  BY DEF EngineOK
<1>2. \A slot \in 1 .. Len(engine.slots) :
         /\ engine.slots[slot].port => slot = engine.active
         /\ engine.slots[slot].port <=> engine.slots[slot].status = "ASKING"
  BY <1>1 DEF SlotOK, Working
<1>3. CASE engine.active # 0 /\ engine.slots[engine.active].status = "ASKING"
  <2>1. engine.active \in 1 .. Len(engine.slots)
    BY <1>1, <1>3, SlotsOf
  <2>2. lent = {engine.active} /\ engine.ports = 1
    BY <1>2, <1>3, <2>1 DEF EngineOK
  <2>3. QED
    BY <2>2, FS_Singleton
<1>4. CASE ~(engine.active # 0 /\ engine.slots[engine.active].status = "ASKING")
  <2>1. engine.ports = 0
    BY <1>4 DEF EngineOK
  <2>2. lent = {}
    <3>1. SUFFICES ASSUME NEW slot \in lent PROVE FALSE
      OBVIOUS
    <3>2. slot = engine.active /\ engine.slots[slot].status = "ASKING" /\ slot # 0
      BY <1>1, <1>2, SlotsOf
    <3>3. QED
      BY <1>4, <3>2
  <2>3. QED
    BY <2>1, <2>2, FS_EmptySet
<1>5. QED
  BY <1>3, <1>4

\* Whatever is added, paused, resumed and removed and however the calls of the engine
\* go: the turn is a slot that is there, and no hash is held twice, although slots move
\* and a description that cannot be read leaves its slot without one
\* (isAlreadyHeld in torrent-engine.c, called at 873 and 901).
THEOREM TypesAlwaysHold == Spec => []TypeOK
<1>1. TurnsInv => TypeOK
  <2> SUFFICES ASSUME TurnsInv PROVE TypeOK
    OBVIOUS
  <2>1. /\ EngineOK(Engine) /\ Engine \in EngineType
        /\ Engine.slots = slots /\ Engine.active = activeSlot
        /\ Engine.links = links /\ Engine.ports = ports
        /\ asks \in 0 .. AsksMax
    BY DEF TurnsInv, EngineOK, Engine
  <2>2. /\ DOMAIN slots = 1 .. Len(slots) /\ slots \in Seq(Slot)
        /\ links \in [Links -> Link] /\ ports \in Int
    BY <2>1, SlotsOf
  <2>3. /\ activeSlot \in 0 .. Len(slots) /\ Len(slots) <= TORRENT_SLOT_MAX
        /\ HashesApart(slots) /\ ports \in {0, 1}
    BY <2>1 DEF EngineOK
  <2>4. QED
    BY <2>1, <2>2, <2>3 DEF TypeOK, HashesApart, Link
<1>2. QED
  BY <1>1, AlwaysTurnsInv, PTL

\* Only the torrent whose turn it is is worked for, and as many ports are out as
\* torrents have one: one while the tracker of the active torrent is asked and none
\* otherwise, so none stays out for a torrent paused or removed meanwhile
\* (torrent-engine.c:986-1025).
THEOREM AlwaysOneAtATime == Spec => []OneAtATime
<1>1. TurnsInv => OneAtATime
  <2> SUFFICES ASSUME TurnsInv PROVE OneAtATime
    OBVIOUS
  <2>1. /\ EngineOK(Engine) /\ Engine \in EngineType
        /\ Engine.slots = slots /\ Engine.active = activeSlot /\ Engine.ports = ports
    BY DEF TurnsInv, EngineOK, Engine
  <2>2. DOMAIN slots = 1 .. Len(slots)
    BY <2>1, SlotsOf
  <2>3. \A slot \in 1 .. Len(slots) : SlotOK(slots[slot], slot = activeSlot)
    BY <2>1 DEF EngineOK
  <2>4. ports = Cardinality({slot \in 1 .. Len(slots) : slots[slot].port})
    BY <2>1, PortsCounted
  <2>5. QED
    BY <2>2, <2>3, <2>4 DEF OneAtATime, SlotOK
<1>2. QED
  BY <1>1, AlwaysTurnsInv, PTL

\* A connection that is open and was not left behind serves the torrent whose turn it
\* is: the torrent that gets the turn after one that was paused, removed, failed or
\* sent back to its trackers finds none of its connections, at whichever of the eight
\* places that end a turn it ended (torrent-engine.c:189).
THEOREM PeersAlwaysOfTheActive == Spec => []PeersAreOfTheActive
<1>1. TurnsInv => PeersAreOfTheActive
  <2> SUFFICES ASSUME TurnsInv PROVE PeersAreOfTheActive
    OBVIOUS
  <2>1. /\ EngineOK(Engine) /\ Engine.slots = slots /\ Engine.active = activeSlot
        /\ Engine.links = links
    BY DEF TurnsInv, Engine
  <2>2. QED
    BY <2>1 DEF EngineOK, PeersAreOfTheActive, LinkOK, Forgotten, Working
<1>2. QED
  BY <1>1, AlwaysTurnsInv, PTL
=============================================================================
