--------------------------- MODULE TorrentPieces ----------------------------
(***************************************************************************)
(* One download of torrent-engine.c: its pieces, the blocks they come in,  *)
(* the peers asked for them, and what ends up on disk across pauses,       *)
(* stalls, failed writes and crashes.                                      *)
(*                                                                         *)
(* The engine is serviced a slice at a time by one thread, and the app's   *)
(* own calls come between slices.  A slice runs through the turns          *)
(* "fill" (take on pieces), "ask" and "hear" of every open peer, and       *)
(* "write" (what is whole goes to disk); "idle" is between slices.         *)
(*                                                                         *)
(* There are no clocks: a timeout may have run out whenever it is looked   *)
(* at.  Where chooseNextPiece scans from a cursor, any piece it could      *)
(* reach is chosen.  A peer that has not said what it holds is taken to    *)
(* hold everything, so it starts out holding all Pieces.                   *)
(***************************************************************************)
EXTENDS Integers, FiniteSets, FiniteSetsExt, Functions

CONSTANTS
    Pieces,
    PEER_ACTIVE_MAX, PIECE_WORK_MAX, IN_FLIGHT_MAX, SECOND_ASK_MAX,
    MISSES_BEFORE_TRUSTING, TRACKER_ROUNDS_MAX,
    BlockCount,      \* piece -> blocks in it: the last piece may be shorter
    Holdings,        \* what a peer may say it holds
    Faults,          \* what may go wrong, each of them once: bound of a run
    FaultsMax        \* and how many of them beside a crash

NoPiece == "free"   \* slot->piece is -1 when nothing is collected there

ASSUME PiecesAssumption ==
    /\ IsFiniteSet(Pieces) /\ Pieces # {} /\ NoPiece \notin Pieces
    /\ {PEER_ACTIVE_MAX, PIECE_WORK_MAX, IN_FLIGHT_MAX, SECOND_ASK_MAX,
        MISSES_BEFORE_TRUSTING} \subseteq Nat \ {0}
    /\ SECOND_ASK_MAX <= IN_FLIGHT_MAX
    /\ BlockCount \in [Pieces -> Nat \ {0}]
    /\ {TRACKER_ROUNDS_MAX, FaultsMax} \subseteq Nat
    /\ Holdings \subseteq SUBSET Pieces
    /\ Faults \subseteq {"send", "write", "read", "wrong", "stray", "choke", "crash"}

Links == 1 .. PEER_ACTIVE_MAX
Works == 1 .. PIECE_WORK_MAX
Blocks == 1 .. Max(Range(BlockCount))
BlocksOf(piece) == 1 .. BlockCount[piece]
Nobody == 0

VARIABLES
    status,      \* TORRENT_*
    active,      \* activeSlot is this torrent
    turn, at,    \* where in a slice the engine is, and at which link or work
    links,       \* link -> what the engine knows of the peer there
    work,        \* work -> the piece being collected in it
    taken,       \* pieces done or in hand
    piecesDone,
    resume,      \* askedAboutDisk, resuming, missesInARow
    trackerRounds,
    disk,        \* piece -> what its place on disk holds
    counted,     \* history: the pieces piecesDone has counted
    spent        \* the faults that have happened

engine == <<status, active, turn, at>>
hands == <<links, work, taken>>
vars == <<engine, hands, piecesDone, resume, trackerRounds, disk, counted, spent>>

CanFault(fault) ==
    /\ fault \in Faults \ spent
    /\ fault = "crash" \/ Cardinality(spent \ {"crash"}) < FaultsMax

---------------------------------------------------------------------------
DeadLink == [state |-> "DEAD", choked |-> TRUE, requests |-> 0, holds |-> Pieces]
FreeWork == [piece |-> NoPiece, done |-> {}, left |-> 0, wrong |-> {},
             owner |-> [block \in Blocks |-> Nobody]]
startWork(piece) == [FreeWork EXCEPT !.piece = piece, !.left = BlockCount[piece]]

InHand == {work[index].piece : index \in Works} \ {NoPiece}
isReady(link) == links[link].state = "READY"

Unreleased(works, gone) == works   \* (mutant) a dead peer keeps its blocks
\* Hand back what these peers were holding.
Released(works, gone) ==
    [index \in Works |-> [works[index] EXCEPT !.owner =
        [block \in Blocks |-> IF @[block] \in gone THEN Nobody ELSE @[block]]]]

Drop(gone) ==
    /\ links' = [link \in Links |-> IF link \in gone THEN DeadLink ELSE links[link]]
    /\ work' = Released(work, gone)

TakenForGood == taken   \* (mutant) thrown away, and never offered again
\* What was in hand goes back on offer.
StillTaken == taken \ InHand
FreeAllWork ==
    /\ work' = [index \in Works |-> FreeWork]
    /\ taken' = StillTaken

\* A slice goes on to the next open link, or to collecting when there is none.
GoTo(nextTurn, next) == turn' = nextTurn /\ at' = next
AskNext(from, open) ==
    LET later == {link \in Links : link >= from /\ open[link].state # "DEAD"} IN
        IF later = {} THEN GoTo("write", 1) ELSE GoTo("ask", Min(later))

---------------------------------------------------------------------------
Init ==
    /\ status = "WAITING" /\ active = FALSE
    /\ turn = "idle" /\ at = 1
    /\ links = [link \in Links |-> DeadLink]
    /\ work = [index \in Works |-> FreeWork]
    /\ taken = {} /\ piecesDone = 0
    /\ resume = [asked |-> FALSE, resuming |-> FALSE, misses |-> 0]
    /\ trackerRounds = 0
    /\ disk = [piece \in Pieces |-> "absent"]
    /\ counted = {} /\ spent = {}

\* Another round of the trackers later, unless there have been enough of them.
waitAndAskAgain ==
    /\ trackerRounds' = trackerRounds + 1
    /\ status' = IF trackerRounds + 1 > TRACKER_ROUNDS_MAX THEN "FAILED" ELSE "WAITING"

\* Its turn is over, so what it had in hand goes back on offer.
TurnOver ==
    /\ turn = "idle" /\ active /\ status \notin {"ASKING", "DOWNLOADING"}
    /\ active' = FALSE /\ FreeAllWork
    /\ UNCHANGED <<status, turn, at, links, piecesDone, resume, trackerRounds, disk, counted, spent>>

\* Its turn comes: a tracker is asked, or none will even be asked, or there
\* is nowhere on disk to put it.
StartAsking ==
    /\ turn = "idle" /\ ~active /\ status = "WAITING"
    /\ \/ /\ status' = "ASKING" /\ active' = TRUE
          /\ work' = [index \in Works |-> FreeWork]
          /\ UNCHANGED trackerRounds
       \/ waitAndAskAgain /\ UNCHANGED <<active, work>>
       \/ status' = "FAILED" /\ UNCHANGED <<active, work, trackerRounds>>
    /\ UNCHANGED <<turn, at, links, taken, piecesDone, resume, disk, counted, spent>>

\* A tracker names peers, or the last of the trackers does not answer.
serviceAsking ==
    /\ turn = "idle" /\ active /\ status = "ASKING"
    /\ \/ status' = "DOWNLOADING" /\ UNCHANGED trackerRounds
       \/ waitAndAskAgain
    /\ UNCHANGED <<active, turn, at, hands, piecesDone, resume, disk, counted, spent>>

---------------------------------------------------------------------------
isAnythingOnDisk == \E piece \in Pieces : disk[piece] # "absent"
StartSlice ==
    /\ turn = "idle" /\ active /\ status = "DOWNLOADING"
    /\ GoTo("fill", 1)
    /\ resume' = IF resume.asked THEN resume
                 ELSE [resume EXCEPT !.asked = TRUE, !.resuming = isAnythingOnDisk]
    /\ UNCHANGED <<status, active, hands, piecesDone, trackerRounds, disk, counted, spent>>

\* A piece a peer we are talking to can serve, or else any that is not taken.
Offered == Pieces \ taken
Served == {piece \in Offered : \E link \in Links : isReady(link) /\ piece \in links[link].holds}
Choosable == IF Served # {} THEN Served ELSE Offered
FreeFrom(first) == {index \in Works : index >= first /\ work[index].piece = NoPiece}

IsThere(piece) == disk[piece] # "absent"   \* (mutant) a file that exists is trusted
\* Reading a piece back and hashing it.
isPieceOnDisk(piece) == disk[piece] = "right"

\* One piece is taken on.  While resuming it is checked against the disk
\* first, one check a slice (SCAN_PER_CALL), until enough checks in a row
\* have found nothing.  One that is there costs the check and nothing else.
FoundOnDisk(piece) ==
    /\ resume.resuming /\ isPieceOnDisk(piece)
    /\ piecesDone' = piecesDone + 1 /\ counted' = counted \cup {piece}
    /\ resume' = [resume EXCEPT !.misses = 0]
    /\ GoTo("filled", 1)
    /\ UNCHANGED <<work, spent>>

NotOnDisk(piece) ==
    LET index == Min(FreeFrom(at))
        misses == resume.misses + (IF resume.resuming THEN 1 ELSE 0)
        resuming == resume.resuming /\ misses < MISSES_BEFORE_TRUSTING
    IN
    /\ IF resume.resuming /\ isPieceOnDisk(piece)
         THEN CanFault("read") /\ spent' = spent \cup {"read"}
         ELSE UNCHANGED spent
    /\ resume' = [resume EXCEPT !.misses = misses, !.resuming = resuming]
    /\ work' = [work EXCEPT ![index] = startWork(piece)]
    /\ IF resuming THEN GoTo("filled", 1) ELSE GoTo("fill", index)
    /\ UNCHANGED <<piecesDone, counted>>

TakeOn(piece) ==
    /\ turn = "fill" /\ FreeFrom(at) # {} /\ piece \in Choosable
    /\ taken' = taken \cup {piece}
    /\ FoundOnDisk(piece) \/ NotOnDisk(piece)
    /\ UNCHANGED <<status, active, links, trackerRounds, disk>>

Filled ==
    \/ turn = "filled"
    \/ turn = "fill" /\ (FreeFrom(at) = {} \/ Offered = {})
AllDone == InHand = {} /\ piecesDone >= Cardinality(Pieces)

finishTorrent ==
    /\ Filled /\ AllDone
    /\ status' = "FINISHED" /\ GoTo("idle", 1)
    /\ Drop(Links)
    /\ UNCHANGED <<active, taken, piecesDone, resume, trackerRounds, disk, counted, spent>>

\* The first so many of the empty connections are opened: the list of peers,
\* the tunnel and peerTarget decide how many.
Empty == {link \in Links : links[link].state = "DEAD"}
fillPeerSlots(opened) ==
    /\ Filled /\ ~AllDone
    /\ opened \subseteq Empty /\ \A link \in Empty \ opened, other \in opened : other < link
    /\ links' = [link \in Links |->
            IF link \in opened THEN [DeadLink EXCEPT !.state = "CONNECTING"] ELSE links[link]]
    /\ AskNext(1, links')
    /\ UNCHANGED <<status, active, work, taken, piecesDone, resume, trackerRounds, disk, counted, spent>>

---------------------------------------------------------------------------
(* Asking one peer for what it will hold. *)

Missing(link) ==
    {where \in Works \X Blocks :
        /\ work[where[1]].piece \in links[link].holds
        /\ where[2] \in BlocksOf(work[where[1]].piece) \ work[where[1]].done}
Owner(where) == work[where[1]].owner[where[2]]
Unasked(link) == {where \in Missing(link) : Owner(where) = Nobody}
AskedOfAnother(link) == {where \in Missing(link) : Owner(where) # link}

Before(a, b) == a[1] < b[1] \/ (a[1] = b[1] /\ a[2] < b[2])
FirstOf(S, n) == {b \in S : Cardinality({a \in S : Before(a, b)}) < n}

\* (mutant) a full batch each time, whatever is already asked for
WantedAfresh(link) ==
    IF isReady(link) /\ ~links[link].choked
      THEN FirstOf(Unasked(link), IN_FLIGHT_MAX) ELSE {}

\* What nobody was asked for; or, when there is nothing of the kind and the
\* peer would sit idle, a few blocks another already owes.
Wanted(link) ==
    LET l == links[link] IN
    IF l.state # "READY" \/ l.choked THEN {}
    ELSE IF Unasked(link) # {} THEN FirstOf(Unasked(link), IN_FLIGHT_MAX - l.requests)
    ELSE IF l.requests = 0 THEN FirstOf(AskedOfAnother(link), SECOND_ASK_MAX)
    ELSE {}

AskedFor(asked, link) ==
    [index \in Works |-> [work[index] EXCEPT !.owner =
        [block \in Blocks |->
            IF <<index, block>> \in asked /\ @[block] = Nobody THEN link ELSE @[block]]]]

\* A request the tunnel refuses kills the link on the spot, and nothing is
\* handed back: the link is dead by the time it is listened to.
askForBlocks(link) ==
    /\ turn = "ask" /\ at = link
    /\ \/ /\ work' = AskedFor(Wanted(link), link)
          /\ links' = [links EXCEPT ![link].requests = @ + Cardinality(Wanted(link))]
          /\ GoTo("hear", link)
          /\ UNCHANGED spent
       \/ /\ CanFault("send") /\ spent' = spent \cup {"send"}
          /\ \E sent \in 0 .. Cardinality(Wanted(link)) - 1 :
                work' = AskedFor(FirstOf(Wanted(link), sent), link)
          /\ links' = [links EXCEPT ![link] = DeadLink]
          /\ AskNext(link + 1, links')
    /\ UNCHANGED <<status, active, taken, piecesDone, resume, trackerRounds, disk, counted>>

---------------------------------------------------------------------------
(* Listening to one peer until it has nothing more for this slice. *)

Hearing(link) == turn = "hear" /\ at = link
Heard(link) ==
    /\ links' = link /\ AskNext(at + 1, links')
    /\ UNCHANGED <<status, active, work, taken, piecesDone, resume, trackerRounds, disk, counted>>

HearNothing(link) == Hearing(link) /\ Heard(links) /\ UNCHANGED spent

HearGreeting(link) ==
    /\ Hearing(link) /\ links[link].state = "CONNECTING"
    /\ Heard([links EXCEPT ![link].state = "READY"])
    /\ UNCHANGED spent

HearUnchoke(link) ==
    /\ Hearing(link) /\ isReady(link)
    /\ Heard([links EXCEPT ![link].choked = FALSE])
    /\ UNCHANGED spent

\* A choke in the middle of a download is one of the faults; it drops
\* whatever was asked for.
HearChoke(link) ==
    /\ Hearing(link) /\ isReady(link) /\ CanFault("choke")
    /\ Heard([links EXCEPT ![link].choked = TRUE, ![link].requests = 0])
    /\ spent' = spent \cup {"choke"}

HearHoldings(link, holds) ==
    /\ Hearing(link) /\ isReady(link)
    /\ Heard([links EXCEPT ![link].holds = holds])
    /\ UNCHANGED spent

\* The connection fails or stays quiet for too long.
HearDeath(link) ==
    /\ Hearing(link)
    /\ Drop({link}) /\ AskNext(link + 1, links')
    /\ UNCHANGED <<status, active, taken, piecesDone, resume, trackerRounds, disk, counted, spent>>

\* (mutant) the same block counted as often as it comes
takeBlockAgain(slot, block, spoilt) ==
    [slot EXCEPT !.done = @ \cup {block}, !.left = IF @ > 0 THEN @ - 1 ELSE 0,
                 !.wrong = (@ \ {block}) \cup spoilt,
                 !.owner = [@ EXCEPT ![block] = Nobody]]

\* What a block leaves of the piece it belongs to: one that is the wrong
\* length, or wrong bytes, spoils itself or the block it runs over into.
takeBlock(slot, block, spoilt) ==
    IF block \in slot.done THEN slot
    ELSE [slot EXCEPT !.done = @ \cup {block}, !.left = @ - 1,
                      !.wrong = (@ \ {block}) \cup spoilt,
                      !.owner = [@ EXCEPT ![block] = Nobody]]

\* An answer to something asked for: each request is answered once.
Owed(link) == {where \in Works \X Blocks : Owner(where) = link}
Answers(link, index, block) ==
    /\ links[link].requests > 0
    /\ \/ <<index, block>> \in Owed(link)
       \/ Cardinality(Owed(link)) < links[link].requests

HearBlock(link, index, block) ==
    /\ Hearing(link) /\ isReady(link)
    /\ work[index].piece # NoPiece /\ block \in BlocksOf(work[index].piece)
    /\ \/ /\ Answers(link, index, block) /\ UNCHANGED spent
          /\ work' = [work EXCEPT ![index] = takeBlock(@, block, {})]
       \/ /\ Answers(link, index, block) /\ CanFault("wrong") /\ spent' = spent \cup {"wrong"}
          /\ \E spoilt \in {{block}, {block + 1} \cap BlocksOf(work[index].piece)} :
                work' = [work EXCEPT ![index] = takeBlock(@, block, spoilt)]
       \/ /\ CanFault("stray") /\ spent' = spent \cup {"stray"}
          /\ work' = [work EXCEPT ![index] = takeBlock(@, block, {})]
    /\ links' = [links EXCEPT ![link].requests = IF @ > 0 THEN @ - 1 ELSE @]
    /\ UNCHANGED <<status, active, turn, at, taken, piecesDone, resume, trackerRounds, disk, counted>>

\* A block of a piece already finished with.
HearLateBlock(link) ==
    /\ Hearing(link) /\ isReady(link) /\ Cardinality(Owed(link)) < links[link].requests
    /\ links' = [links EXCEPT ![link].requests = @ - 1]
    /\ UNCHANGED <<engine, work, taken, piecesDone, resume, trackerRounds, disk, counted, spent>>

---------------------------------------------------------------------------
(* The end of a slice. *)

\* Peers that owe blocks and stay silent, and peers that keep us choked, may
\* be dropped before anything is collected.
DropPeer(link) ==
    /\ turn = "write" /\ at = 1
    /\ isReady(link) /\ (links[link].requests > 0 \/ links[link].choked)
    /\ Drop({link})
    /\ UNCHANGED <<engine, taken, piecesDone, resume, trackerRounds, disk, counted, spent>>

Whole == {index \in Works : index >= at /\ work[index].piece # NoPiece /\ work[index].left = 0}
AsDescribed(slot) == slot.done = BlocksOf(slot.piece) /\ slot.wrong = {}
Unchecked(slot) == TRUE   \* (mutant) what arrived is taken on trust
isPieceRight(slot) == AsDescribed(slot)
Contents(slot) == IF AsDescribed(slot) THEN "right" ELSE "wrong"

\* A piece that arrived damaged is asked for again, whole.
ThrowAway(index) ==
    /\ turn = "write" /\ Whole # {} /\ index = Min(Whole)
    /\ ~isPieceRight(work[index])
    /\ work' = [work EXCEPT ![index] = startWork(work[index].piece)]
    /\ GoTo("write", index + 1)
    /\ UNCHANGED <<status, active, links, taken, piecesDone, resume, trackerRounds, disk, counted, spent>>

WritePiece(index) ==
    /\ turn = "write" /\ Whole # {} /\ index = Min(Whole)
    /\ isPieceRight(work[index])
    /\ disk' = [disk EXCEPT ![work[index].piece] = Contents(work[index])]
    /\ piecesDone' = piecesDone + 1 /\ counted' = counted \cup {work[index].piece}
    /\ trackerRounds' = 0
    /\ work' = [work EXCEPT ![index] = FreeWork]
    /\ GoTo("write", index + 1)
    /\ UNCHANGED <<status, active, links, taken, resume, spent>>

\* The disk is full or gone, part of the way through.
WriteFails(index) ==
    /\ turn = "write" /\ Whole # {} /\ index = Min(Whole)
    /\ isPieceRight(work[index])
    /\ CanFault("write") /\ spent' = spent \cup {"write"}
    /\ \E left \in {disk[work[index].piece], "wrong"} :
            disk' = [disk EXCEPT ![work[index].piece] = left]
    /\ status' = "FAILED"
    /\ Drop(Links) /\ GoTo("write", index + 1)
    /\ UNCHANGED <<active, taken, piecesDone, resume, trackerRounds, counted>>

\* Something arrives, or there are still peers to try; otherwise the
\* trackers are asked for others.
StillGoing ==
    /\ turn = "write" /\ Whole = {}
    /\ GoTo("idle", 1)
    /\ UNCHANGED <<status, active, hands, piecesDone, resume, trackerRounds, disk, counted, spent>>

GoneQuiet ==
    /\ turn = "write" /\ Whole = {}
    /\ Drop(Links) /\ waitAndAskAgain /\ GoTo("idle", 1)
    /\ UNCHANGED <<active, taken, piecesDone, resume, disk, counted, spent>>

---------------------------------------------------------------------------
pauseTorrent ==
    /\ turn = "idle" /\ status # "PAUSED"
    /\ status' = "PAUSED" /\ active' = FALSE
    /\ IF active THEN FreeAllWork /\ links' = [link \in Links |-> DeadLink]
                 ELSE UNCHANGED hands
    /\ UNCHANGED <<turn, at, piecesDone, resume, trackerRounds, disk, counted, spent>>

resumeTorrent ==
    /\ turn = "idle" /\ status = "PAUSED"
    /\ status' = "WAITING" /\ trackerRounds' = 0
    /\ UNCHANGED <<active, turn, at, hands, piecesDone, resume, disk, counted, spent>>

\* The console loses power: memory goes, the disk stays, and a piece being
\* written is left half way.  The torrent is added again at the next launch.
Crash ==
    /\ CanFault("crash") /\ spent' = spent \cup {"crash"}
    /\ \/ UNCHANGED disk
       \/ /\ turn = "write" /\ Whole # {} /\ isPieceRight(work[Min(Whole)])
          /\ disk' = [disk EXCEPT ![work[Min(Whole)].piece] = "wrong"]
    /\ status' = "WAITING" /\ active' = FALSE /\ GoTo("idle", 1)
    /\ links' = [link \in Links |-> DeadLink]
    /\ work' = [index \in Works |-> FreeWork]
    /\ taken' = {} /\ piecesDone' = 0 /\ counted' = {} /\ trackerRounds' = 0
    /\ resume' = [asked |-> FALSE, resuming |-> FALSE, misses |-> 0]

Slice ==
    \/ StartSlice
    \/ \E piece \in Pieces : TakeOn(piece)
    \/ finishTorrent
    \/ \E opened \in SUBSET Links : fillPeerSlots(opened)
    \/ \E link \in Links :
        \/ askForBlocks(link)
        \/ HearNothing(link) \/ HearGreeting(link) \/ HearUnchoke(link)
        \/ HearChoke(link) \/ HearDeath(link) \/ HearLateBlock(link)
        \/ DropPeer(link)
        \/ \E holds \in Holdings : HearHoldings(link, holds)
        \/ \E index \in Works, block \in Blocks : HearBlock(link, index, block)
    \/ \E index \in Works : ThrowAway(index) \/ WritePiece(index) \/ WriteFails(index)
    \/ StillGoing \/ GoneQuiet

Next ==
    \/ TurnOver \/ StartAsking \/ serviceAsking
    \/ Slice
    \/ pauseTorrent \/ resumeTorrent \/ Crash

Spec == Init /\ [][Next]_vars

---------------------------------------------------------------------------
(* Every variable keeps its type: the piece buffer never holds a block     *)
(* that is no piece's, no peer is asked for more than it should hold, and  *)
(* the trackers are never asked round and round (torrent-engine.c:29,47).  *)
LinkType == [state : {"DEAD", "CONNECTING", "READY"}, choked : BOOLEAN,
             requests : 0 .. IN_FLIGHT_MAX, holds : SUBSET Pieces]
WorkType == [piece : Pieces \cup {NoPiece}, done : SUBSET Blocks, left : 0 .. Cardinality(Blocks),
             wrong : SUBSET Blocks, owner : [Blocks -> Links \cup {Nobody}]]
TypeOK ==
    /\ status \in {"WAITING", "ASKING", "DOWNLOADING", "PAUSED", "FINISHED", "FAILED"}
    /\ active \in BOOLEAN
    /\ turn \in {"idle", "fill", "filled", "ask", "hear", "write"}
    /\ at \in 1 .. PEER_ACTIVE_MAX + PIECE_WORK_MAX + 1
    /\ links \in [Links -> LinkType]
    /\ work \in [Works -> WorkType]
    /\ taken \subseteq Pieces
    /\ piecesDone \in 0 .. Cardinality(Pieces)
    /\ resume \in [asked : BOOLEAN, resuming : BOOLEAN, misses : Nat]
    /\ trackerRounds \in 0 .. TRACKER_ROUNDS_MAX + 1
    /\ disk \in [Pieces -> {"absent", "right", "wrong"}]
    /\ counted \subseteq Pieces
    /\ spent \subseteq Faults

(* A piece is out of reach of chooseNextPiece exactly while it is done or  *)
(* is being collected, and it is being collected only once: a piece marked *)
(* taken that nobody is collecting would never be asked for again          *)
(* (torrent-engine.c:144).                                                 *)
TakenIsDoneOrInHand ==
    /\ taken = counted \cup InHand
    /\ counted \cap InHand = {}
    /\ \A i, j \in Works : work[i].piece = work[j].piece /\ i # j => work[i].piece = NoPiece

(* What is counted is counted once and is whole on disk, whatever was      *)
(* paused, refused, damaged or cut off on the way; so a torrent moved out  *)
(* of the incomplete folder is never half a download.                      *)
DoneIsOnDisk ==
    /\ piecesDone = Cardinality(counted)
    /\ \A piece \in counted : disk[piece] = "right"
    /\ status = "FINISHED" => \A piece \in Pieces : disk[piece] = "right"

(* A piece counts as collected when each of its blocks has come, however   *)
(* many peers were asked for the same one.                                 *)
LeftIsMissing ==
    \A index \in Works : work[index].piece # NoPiece =>
        work[index].left = Cardinality(BlocksOf(work[index].piece) \ work[index].done)

(* A block somebody owes is a block somebody was asked for: its owner is   *)
(* serving us and has at least as many requests as blocks it owes, so its  *)
(* silence gets it dropped and the blocks go back on offer.                *)
OwedIsAsked ==
    \A link \in Links : Owed(link) # {} =>
        /\ isReady(link) /\ ~links[link].choked
        /\ Cardinality(Owed(link)) <= links[link].requests

(* Anything asked for is dropped when a peer chokes us, so the caller has  *)
(* to ask again (peer.c:317): once it serves us again and has been asked,  *)
(* it has been asked for all it owes.                                      *)
AskedAgainAfterAChoke ==
    \A link \in Links : Hearing(link) /\ isReady(link) /\ ~links[link].choked =>
        Cardinality(Owed(link)) <= links[link].requests

(* As OwedIsAsked, as far as the code keeps it: no request was refused, no *)
(* peer choked us and none sent what it was not asked for.                 *)
OwedIsAskedUnlessCutShort ==
    spent \cap {"send", "choke", "stray"} = {} => OwedIsAsked

(* A piece that is right on disk stays right unless a write of it fails or *)
(* is cut off: nothing unverified is ever written over it.                 *)
RightStaysRight ==
    [][\A piece \in Pieces : disk[piece] = "right" /\ disk'[piece] # "right"
            => spent' # spent]_vars

=============================================================================
