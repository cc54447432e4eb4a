---------------------------- MODULE TorrentTurns ----------------------------
(***************************************************************************)
(* torrent-engine.c of simple-lib-torrent: whose turn it is.  The engine   *)
(* holds several torrents and works for one at a time: it asks that one's  *)
(* trackers, asks its peers for its description when it came as a magnet,  *)
(* and downloads it, until it has ended, failed, or has to wait.           *)
(*                                                                         *)
(* A call of the engine is one step.  serviceTorrentEngine is the set of   *)
(* engines one call may leave, given what the network says during it; at   *)
(* most one thing is heard from one peer in a call.  Blocks and pieces are *)
(* TorrentPieces; here a piece is finished, damaged, or cannot be written. *)
(*                                                                         *)
(* A description's length is named by the torrent it is the length of.     *)
(* Peers name the length of what they serve and never any other.           *)
(***************************************************************************)
EXTENDS Integers, Sequences, FiniteSets, FiniteSetsExt, SequencesExt

CONSTANTS
    Torrents, Magnets,      \* what may be added; those that come as a link
    TooLarge,               \* magnets whose description no buffer holds
    PEER_ACTIVE_MAX, TORRENT_SLOT_MAX, TRACKER_ROUNDS_MAX,
    TrackerCount,           \* how many trackers a torrent names
    PieceCount,             \* how many pieces a torrent has
    AsksMax                 \* adds, pauses, resumes and removals: bound of a run

Nothing == "nothing"
Garbage == "garbage"
Links == 1 .. PEER_ACTIVE_MAX

ASSUME TurnsAssumption ==
    /\ TooLarge \subseteq Magnets /\ Magnets \subseteq Torrents
    /\ {Nothing, Garbage} \intersect Torrents = {}
    /\ {PEER_ACTIVE_MAX, TORRENT_SLOT_MAX, TrackerCount, PieceCount} \subseteq Nat \ {0}
    /\ {TRACKER_ROUNDS_MAX, AsksMax} \subseteq Nat

VARIABLES
    slots,       \* the torrents held, in order
    activeSlot,  \* whose turn it is, 0 for nobody's
    links,       \* the connections to peers, kept from one torrent to the next
    ports,       \* udp ports the network has lent for asking trackers
    asks         \* what has been used up of the bound

vars == <<slots, activeSlot, links, ports, asks>>

Engine == [slots |-> slots, active |-> activeSlot, links |-> links, ports |-> ports]
Becomes(engine) ==
    /\ slots' = engine.slots /\ activeSlot' = engine.active
    /\ links' = engine.links /\ ports' = engine.ports

Working == {"ASKING", "DESCRIBING", "DOWNLOADING"}
Settled == {"PAUSED", "FINISHED", "FAILED"}

\* A connection.  size: the description's length it has heard, kept when it dies;
\* left: it outlived the turn it was opened in.
Closed == [state |-> "DEAD", of |-> Nothing, size |-> Nothing, left |-> FALSE]
Held == {slots[slot].hash : slot \in DOMAIN slots}

Init ==
    /\ slots = << >> /\ activeSlot = 0
    /\ links = [link \in Links |-> Closed]
    /\ ports = 0 /\ asks = 0

---------------------------------------------------------------------------
(* Peers.                                                                  *)

Die(link) == [link EXCEPT !.state = "DEAD", !.of = Nothing, !.left = FALSE]
closeAllPeers(engine) ==
    [engine EXCEPT !.links = [link \in Links |-> Die(engine.links[link])]]

\* The first of the dead connections are opened again, as many as the network
\* and the attempts left allow; the one that is refused has been wiped.
fillPeerSlots(engine) ==
    LET dead == {link \in Links : engine.links[link].state = "DEAD"}
        Before(link) == {other \in dead : other < link}
        Opened(count, refused) ==
            [engine EXCEPT !.links = [link \in Links |->
                IF link \notin dead \/ Cardinality(Before(link)) > count THEN engine.links[link]
                ELSE IF Cardinality(Before(link)) < count THEN [Closed EXCEPT !.state = "OPENING"]
                ELSE IF refused THEN Closed ELSE engine.links[link]]]
    IN {Opened(count, refused) : count \in 0 .. Cardinality(dead), refused \in BOOLEAN}

\* What servicePeer may make of one connection, for the torrent whose turn it is.
servicePeer(engine, link) ==
    LET peer == engine.links[link]
        torrent == engine.slots[engine.active].torrent
        heard == IF peer.state = "OPENING"
                   THEN {Die(peer), [peer EXCEPT !.state = "READY", !.of = torrent, !.left = FALSE]}
                 ELSE IF peer.state = "READY" THEN {Die(peer), [peer EXCEPT !.size = peer.of]}
                 ELSE {}
    IN {[engine EXCEPT !.links[link] = after] : after \in heard}

HearPeers(engine) == {engine} \union UNION {servicePeer(engine, link) : link \in Links}
Serving(engine, torrents) ==
    \E link \in Links : engine.links[link].state = "READY" /\ engine.links[link].of \in torrents

---------------------------------------------------------------------------
(* Ends of a turn, and asking trackers.                                    *)

failTorrent(engine, slot) == [engine EXCEPT !.slots[slot].status = "FAILED"]

stopTrackerAnnounce(engine, slot) ==
    IF engine.slots[slot].port
    THEN [engine EXCEPT !.slots[slot].port = FALSE, !.ports = @ - 1] ELSE engine

UncountedRound(engine, slot) ==   \* (mutant) it is never given up on
    [engine EXCEPT !.slots[slot].tracker = 0, !.slots[slot].due = FALSE,
                   !.slots[slot].status = "WAITING"]
waitAndAskAgain(engine, slot) ==
    LET counted == [engine EXCEPT !.slots[slot].rounds = @ + 1]
    IN IF counted.slots[slot].rounds > TRACKER_ROUNDS_MAX THEN failTorrent(counted, slot)
       ELSE [counted EXCEPT !.slots[slot].tracker = 0, !.slots[slot].due = FALSE,
                            !.slots[slot].status = "WAITING"]

\* A tracker further down the list could be asked, or none could.
startNextTracker(engine, slot) ==
    {[engine EXCEPT !.slots[slot].tracker = tracker, !.slots[slot].port = TRUE, !.ports = @ + 1] :
        tracker \in engine.slots[slot].tracker + 1 .. engine.slots[slot].trackers}
NoTrackerLeft(engine, slot) == [engine EXCEPT !.slots[slot].tracker = engine.slots[slot].trackers]

serviceAsking(engine, slot, quiet) ==
    LET ended == stopTrackerAnnounce(engine, slot)
        next == IF engine.slots[slot].described THEN "DOWNLOADING" ELSE "DESCRIBING"
    IN startNextTracker(ended, slot)
       \union {waitAndAskAgain(NoTrackerLeft(ended, slot), slot)}
       \union IF quiet THEN {} ELSE {engine, [ended EXCEPT !.slots[slot].status = next]}

---------------------------------------------------------------------------
(* Describing.                                                             *)

\* Every connection's size is looked at in turn, until one has been noted; one too
\* large to be held fails the torrent, and the pass over the connections goes on.
noteDescriptionSize(engine, slot) ==
    LET named == {link \in Links : engine.links[link].size # Nothing}
        fitting == {link \in named : engine.links[link].size \notin TooLarge}
        noted == IF fitting = {} THEN engine
                 ELSE [engine EXCEPT !.slots[slot].size = engine.links[Min(fitting)].size]
    IN IF engine.slots[slot].size # Nothing \/ named = {} THEN engine
       ELSE IF engine.links[Min(named)].size \in TooLarge THEN failTorrent(noted, slot) ELSE noted

\* The last of the description arrives, of the torrent the peer was opened for.
storeDescription(engine, slot) ==
    IF engine.slots[slot].size = Nothing \/ ~Serving(engine, Torrents) THEN {}
    ELSE LET torrent == engine.slots[slot].torrent
             right == engine.slots[slot].size = torrent /\ Serving(engine, {torrent})
         IN {[engine EXCEPT !.slots[slot].document = document] :
                document \in {Garbage} \union IF right THEN {torrent} ELSE {}}

\* Read and believed only with the right hash.  Reading wipes the trackers, put back
\* only when it can be held and has a place on disk, and the hash too until the end
\* of it: what cannot be read is no longer known to be the torrent it is.
takeDescription(engine, slot) ==
    LET failed == closeAllPeers(failTorrent(engine, slot)) IN
    IF engine.slots[slot].document = Garbage THEN {failed}
    ELSE {[failed EXCEPT !.slots[slot].described = counted, !.slots[slot].trackers = 0,
                         !.slots[slot].hash = Nothing] : counted \in BOOLEAN}
         \union
         {[failed EXCEPT !.slots[slot].described = TRUE, !.slots[slot].trackers = 0],
          [engine EXCEPT !.slots[slot].described = TRUE, !.slots[slot].status = "DOWNLOADING"]}

LeaveBehind(engine) ==
    [engine EXCEPT !.links = [link \in Links |->
        [engine.links[link] EXCEPT !.left = engine.links[link].state # "DEAD"]]]

serviceDescribing(engine, slot, quiet) ==
    LET Heard(noted) == IF quiet THEN {noted}
                        ELSE HearPeers(noted) \union
                             IF noted.slots[slot].document = Nothing
                             THEN storeDescription(noted, slot) ELSE {}
        After(heard) ==
            IF heard.slots[slot].status # "DESCRIBING" THEN {LeaveBehind(heard)}
            ELSE IF heard.slots[slot].size # Nothing /\ heard.slots[slot].document # Nothing
                   THEN takeDescription(heard, slot)
            ELSE IF quiet THEN {closeAllPeers(failTorrent(heard, slot))} ELSE {heard}
    IN UNION {UNION {After(heard) : heard \in Heard(noteDescriptionSize(filled, slot))} :
                 filled \in IF quiet THEN {engine} ELSE fillPeerSlots(engine)}

---------------------------------------------------------------------------
(* Downloading.                                                            *)

finishTorrent(engine, slot) ==
    [closeAllPeers(engine) EXCEPT !.slots[slot].status = "FINISHED"]

\* A piece is right and written, or it cannot be written; after that the same call
\* finds nobody left to ask and may send the torrent back to its trackers.  A piece
\* that is damaged is asked for again and changes nothing here.
finishPiece(engine, slot) ==
    LET failed == closeAllPeers(failTorrent(engine, slot)) IN
    IF ~Serving(engine, {engine.slots[slot].torrent}) THEN {}
    ELSE {[engine EXCEPT !.slots[slot].done = @ + 1, !.slots[slot].rounds = 0],
          failed, waitAndAskAgain(failed, slot)}

PeersStay(engine, slot) == waitAndAskAgain(engine, slot)   \* (mutant) they are not closed
GiveUpOnPeers(engine, slot) == waitAndAskAgain(closeAllPeers(engine), slot)

serviceDownloading(engine, slot, quiet) ==
    IF engine.slots[slot].done = PieceCount THEN {finishTorrent(engine, slot)}
    ELSE IF quiet THEN {GiveUpOnPeers(engine, slot)}
    ELSE UNION {HearPeers(filled) \union finishPiece(filled, slot) :
                   filled \in fillPeerSlots(engine)}

---------------------------------------------------------------------------
(* The calls of the app.                                                   *)

NewSlot(torrent) ==
    [torrent |-> torrent, hash |-> torrent, status |-> "WAITING", tracker |-> 0, trackers |-> TrackerCount,
     rounds |-> 0, due |-> TRUE, port |-> FALSE, described |-> torrent \notin Magnets,
     size |-> Nothing, document |-> Nothing, done |-> 0]

Ask == asks < AsksMax /\ asks' = asks + 1

HeldOrNot(torrent) == Len(slots) < TORRENT_SLOT_MAX   \* (mutant) held twice
MayBeAdded(torrent) == Len(slots) < TORRENT_SLOT_MAX /\ torrent \notin Held

\* addMagnet and addTorrent: the same but for what is known of it.
AddTorrent(torrent) ==
    /\ Ask /\ MayBeAdded(torrent)
    /\ slots' = Append(slots, NewSlot(torrent))
    /\ UNCHANGED <<activeSlot, links, ports>>

\* What a pause and a removal do when it is that torrent's turn.
EndItsTurn(engine, slot) ==
    IF engine.active # slot THEN engine
    ELSE [stopTrackerAnnounce(closeAllPeers(engine), slot) EXCEPT !.active = 0]

pauseTorrent(slot) ==
    /\ Ask
    /\ Becomes([EndItsTurn(Engine, slot) EXCEPT !.slots[slot].status = "PAUSED"])

resumeTorrent(slot) ==
    /\ Ask /\ slots[slot].status = "PAUSED"
    /\ slots' = [slots EXCEPT ![slot].tracker = 0, ![slot].rounds = 0,
                              ![slot].due = TRUE, ![slot].status = "WAITING"]
    /\ UNCHANGED <<activeSlot, links, ports>>

StaysPut(active, slot) == active   \* (mutant) the turn stays with the number
MoveDown(active, slot) == IF active > slot THEN active - 1 ELSE active

removeTorrent(slot) ==
    /\ Ask
    /\ LET ended == EndItsTurn(Engine, slot)
       IN Becomes([ended EXCEPT !.slots = RemoveAt(@, slot), !.active = MoveDown(@, slot)])

---------------------------------------------------------------------------
(* serviceTorrentEngine: whose turn it is, and a slice of work for it.     *)

EndTurn(engine) ==
    IF engine.active # 0 /\ engine.slots[engine.active].status \notin Working
    THEN [engine EXCEPT !.active = 0] ELSE engine

\* What becomes of a torrent that is offered the turn and cannot take it: there is
\* nowhere on disk to put it, or none of its trackers could be asked.
PassedOver(engine, slot, nowhere) ==
    (IF nowhere THEN failTorrent(engine, slot)
     ELSE waitAndAskAgain(NoTrackerLeft(engine, slot), slot)).slots[slot]

\* Those that wait are offered the turn in order, until one takes it.
ChooseTurn(engine) ==
    LET offered == {slot \in DOMAIN engine.slots :
                       engine.slots[slot].status = "WAITING" /\ engine.slots[slot].due}
        Passing(left, passed, nowhere) ==
            [left EXCEPT !.slots = [slot \in DOMAIN engine.slots |->
                IF slot \in passed THEN PassedOver(engine, slot, slot \in nowhere)
                ELSE left.slots[slot]]]
        Taken(slot) == {[started EXCEPT !.slots[slot].status = "ASKING", !.active = slot] :
                           started \in startNextTracker(engine, slot)}
    IN UNION {{Passing(engine, offered, nowhere)}
              \union UNION {{Passing(left, {other \in offered : other < slot}, nowhere) :
                                left \in Taken(slot)} : slot \in offered} :
                 nowhere \in SUBSET {slot \in offered : engine.slots[slot].described}}

Slice(engine, quiet) ==
    LET slot == engine.active IN
         CASE engine.slots[slot].status = "ASKING" -> serviceAsking(engine, slot, quiet)
           [] engine.slots[slot].status = "DESCRIBING" -> serviceDescribing(engine, slot, quiet)
           [] engine.slots[slot].status = "DOWNLOADING" -> serviceDownloading(engine, slot, quiet)

\* quiet: nothing arrives in the call, what it waits for has waited long enough, and
\* earlier calls have used up the attempts to open connections.
\* A tracker that is first asked in a call has no time to answer in it.
serviceTorrentEngine(quiet) ==
    /\ LET engine == EndTurn(Engine)
       IN \E after \in IF engine.active # 0 THEN Slice(engine, quiet) ELSE ChooseTurn(engine) :
             Becomes(after)
    /\ UNCHANGED asks

\* The clock passes askAgainAtMs.
RetryComesDue(slot) ==
    /\ slots[slot].status = "WAITING" /\ ~slots[slot].due
    /\ slots' = [slots EXCEPT ![slot].due = TRUE]
    /\ UNCHANGED <<activeSlot, links, ports, asks>>

Next ==
    \/ \E torrent \in Torrents : AddTorrent(torrent)
    \/ \E slot \in DOMAIN slots : \/ pauseTorrent(slot) \/ resumeTorrent(slot)
                                  \/ removeTorrent(slot) \/ RetryComesDue(slot)
    \/ \E quiet \in BOOLEAN : serviceTorrentEngine(quiet)

\* The service thread calls the engine for ever and the clock goes on; a torrent
\* that is never quiet keeps its turn, so what arrives must run out.
Fairness ==
    /\ WF_vars(serviceTorrentEngine(TRUE))
    /\ \A slot \in 1 .. TORRENT_SLOT_MAX : WF_vars(slot \in DOMAIN slots /\ RetryComesDue(slot))
Spec == Init /\ [][Next]_vars /\ Fairness

---------------------------------------------------------------------------
Slot ==
    [torrent : Torrents, hash : Torrents \union {Nothing}, status : Working \union Settled \union {"WAITING"},
     tracker : 0 .. TrackerCount, trackers : {0, TrackerCount},
     rounds : 0 .. TRACKER_ROUNDS_MAX + 1, due : BOOLEAN, port : BOOLEAN, described : BOOLEAN,
     size : Torrents \union {Nothing}, document : Torrents \union {Nothing, Garbage},
     done : 0 .. PieceCount]

\* The values are of their types, and no hash is held twice.
TypeOK ==
    /\ slots \in Seq(Slot) /\ Len(slots) <= TORRENT_SLOT_MAX
    /\ \A one, other \in DOMAIN slots :
          one # other /\ slots[one].hash = slots[other].hash => slots[one].hash = Nothing
    /\ activeSlot \in 0 .. Len(slots)
    /\ links \in [Links -> [state : {"DEAD", "OPENING", "READY"}, left : BOOLEAN,
                            of : Torrents \union {Nothing}, size : Torrents \union {Nothing}]]
    /\ ports \in Nat /\ asks \in 0 .. AsksMax

\* Only the torrent whose turn it is is being worked for, and a tracker's port is
\* out exactly while it is asked: whatever is paused or removed and whenever, no
\* other torrent inherits the turn and no port stays out (torrent-engine.c:986-1025).
OneAtATime ==
    /\ \A slot \in DOMAIN slots : slots[slot].status \in Working => slot = activeSlot
    /\ \A slot \in DOMAIN slots : slots[slot].port <=> slots[slot].status = "ASKING"
    /\ ports = Cardinality({slot \in DOMAIN slots : slots[slot].port})

\* Open connections are of the torrent whose turn it is ("all of which belong to the
\* torrent being downloaded now", torrent-engine.c:114), those excepted that a
\* description too large left behind.
PeersAreOfTheActive == \A link \in Links :
    links[link].state = "DEAD" \/ links[link].left
    \/ /\ activeSlot # 0 /\ slots[activeSlot].status \in Working
       /\ links[link].of \in {Nothing, slots[activeSlot].torrent}

\* Once the user leaves them alone, every torrent ends: it is finished, has failed or
\* stays paused, and none waits for ever behind the others or for its trackers.
EveryTorrentEnds == <>[](\A slot \in DOMAIN slots : slots[slot].status \in Settled)

\* A description's size is asked of this torrent's own peers ("a peer only says how
\* long the description is once its extension handshake has arrived",
\* torrent-engine.c:379).
SizeIsOfThisTorrent == \A slot \in DOMAIN slots :
    slots[slot].size \in {Nothing, slots[slot].torrent}
=============================================================================
