--------------------------- MODULE TorrentService ---------------------------
(***************************************************************************)
(* torrent-service.c of swarm: the thread that keeps the downloads, the    *)
(* screen that asks it for things, and what is on disk when the app is     *)
(* ended and started again.                                                *)
(*                                                                         *)
(* Two threads share what is behind serviceLock.  The screen's calls are   *)
(* one step for each time the lock is held; the service's pass is cut into *)
(* a step for each time it takes the lock and for each torrent it adds or  *)
(* removes in between, since a fetch or a delete may take many seconds.    *)
(* pc names what the service does next.                                    *)
(*                                                                         *)
(* The engine is what the service sees of it: slots in order, whose turn   *)
(* it is, and where content and descriptions are.  A link stands for the   *)
(* torrent it names, and a link's hash for its file in the resume folder.  *)
(***************************************************************************)
EXTENDS Integers, Sequences, FiniteSets, FiniteSetsExt, SequencesExt

CONSTANTS
    Magnets, Files,     \* links: a magnet, or the address of a torrent file
    Queries, Found,     \* query -> the links the sources find for it, in order
    TORRENT_SLOT_MAX, ADD_QUEUE_MAX,
    EventsMax           \* bound of a run: what the user does, the restarts and the
                        \* files that cannot be written or deleted, all together

Links == Magnets \union Files
Nothing == "nothing"

ASSUME ServiceAssumption ==
    /\ Magnets \intersect Files = {} /\ Nothing \notin Links
    /\ {TORRENT_SLOT_MAX, ADD_QUEUE_MAX} \subseteq Nat \ {0}
    /\ EventsMax \in Nat
    /\ Found \in [Queries -> Seq(Links)]

Slots == 1 .. TORRENT_SLOT_MAX
Buffers == 1 .. ADD_QUEUE_MAX
NoBuffer == 0

VARIABLES
    slots,          \* the engine's torrents, in order
    torrentLinks,   \* what each was added from, descriptionOfTorrent, and the resume
                    \* file that link leads to
    descriptions,   \* buffer -> the torrent whose description it holds
    resumeFiles,    \* link -> its file in the resume folder: "none", "whole" or "cut"
    content,        \* link -> where on disk its content is
    requests,       \* what the screen asked for and nobody has picked up
    published,      \* the screen's copy of the list
    search,         \* waitingQuery, searchWanted, searching, found, results
    pc, taken,      \* where the service is in its pass, and what it took
    toReload,       \* resume files not yet read at this start
    stopRequested,
    screen,         \* the call or the question the screen is in the middle of
    astray,         \* history: a fetch, a write or a delete failed for these, or
                    \* their hash is lost
    spent           \* how much of EventsMax has been used up

list == <<slots, torrentLinks, descriptions>>
disk == <<resumeFiles, content>>
shared == <<requests, published>>
bounds == <<astray, spent>>
vars == <<list, disk, shared, search, pc, taken, toReload, stopRequested, screen, bounds>>

Idle == [doing |-> "nothing", slot |-> 0, meant |-> Nothing]
NoRequests ==
    [pauses |-> [slot \in Slots |-> 0], removals |-> [slot \in Slots |-> 0],
     meant |-> [slot \in Slots |-> Nothing], magnets |-> << >>,
     adds |-> {}, chosen |-> {}]
NoSearch == [query |-> Nothing, wanted |-> FALSE, searching |-> FALSE,
             reading |-> Nothing, found |-> << >>, results |-> << >>]

Listed == {slots[slot].link : slot \in DOMAIN slots}
LinksOf(torrents) == [slot \in DOMAIN torrents |-> torrents[slot].link]

---------------------------------------------------------------------------
Init ==
    /\ slots = << >> /\ torrentLinks = << >>
    /\ descriptions = [buffer \in Buffers |-> Nothing]
    /\ requests = NoRequests /\ published = << >> /\ search = NoSearch
    /\ pc = "start" /\ taken = NoRequests /\ toReload = {}
    /\ stopRequested = FALSE /\ screen = Idle
    /\ resumeFiles = [link \in Links |-> "none"] /\ content = [link \in Links |-> "none"]
    /\ astray = {} /\ spent = 0

---------------------------------------------------------------------------
(* Adding and forgetting, all of it on the service thread.                 *)

\* A buffer no listed torrent is said to be holding.
FreeBuffers == Buffers \ {torrentLinks[slot].buffer : slot \in DOMAIN torrentLinks}

\* isAlreadyHeld compares hashes, and a description that could not be read has
\* lost its torrent's.
Wiped == {slots[slot].link : slot \in {other \in DOMAIN slots : slots[other].left = "nothing"}}
Held == {slots[slot].link : slot \in {other \in DOMAIN slots : slots[other].left # "nothing"}}
RoomForOneMore(link) == Len(slots) <= TORRENT_SLOT_MAX /\ link \notin Held   \* (mutant)
HasRoom(link) == Len(slots) < TORRENT_SLOT_MAX /\ link \notin Held

\* left: what the slot still has of the link, all of it, the hash, or nothing.
NewSlot(link, buffer) ==
    [link |-> link, status |-> "WAITING", buffer |-> buffer,
     described |-> link \in Files, path |-> "none", left |-> "all"]

NeverHeld(link, buffer, file, accepted) ==   \* (mutant) no torrent is said to hold a buffer
    torrentLinks' = IF accepted
                    THEN Append(torrentLinks, [link |-> link, buffer |-> NoBuffer, file |-> file])
                    ELSE torrentLinks
\* The link joins the list the way the engine's slots grew.
ListLink(link, buffer, file, accepted) ==
    torrentLinks' = IF accepted
                    THEN Append(torrentLinks, [link |-> link, buffer |-> buffer, file |-> file])
                    ELSE torrentLinks

\* A magnet keeps the free buffer for a description to come; a torrent file is
\* fetched into it, whole or not, and the buffer is not noted as held.  Of a link
\* that was cut short, which leads to no file of the folder, a magnet may still
\* name its torrent and a tracker; an address does not.
addLink(link, file, accepted) ==
    IF FreeBuffers = {} THEN ~accepted /\ UNCHANGED list
    ELSE LET buffer == Min(FreeBuffers) IN
        /\ accepted => HasRoom(link)
        /\ slots' = IF accepted THEN Append(slots, NewSlot(link, buffer)) ELSE slots
        /\ \/ /\ link \in Magnets
              /\ HasRoom(link) /\ file = link => accepted
              /\ ListLink(link, buffer, file, accepted)
              /\ UNCHANGED descriptions
           \/ /\ link \in Files
              /\ \E document \in {file, Nothing} :
                    /\ accepted <=> document = link /\ HasRoom(link)
                    /\ descriptions' = [descriptions EXCEPT ![buffer] = document]
              /\ ListLink(link, NoBuffer, file, accepted)

\* rememberTorrent's file, which may not get written, or not to its end.  A link
\* that is listed twice shares one file, and stays astray.
WriteResume(link) ==
    \/ /\ resumeFiles' = [resumeFiles EXCEPT ![link] = "whole"]
       /\ astray' = IF link \in Listed THEN astray ELSE astray \ {link}
       /\ UNCHANGED spent
    \/ /\ spent < EventsMax /\ spent' = spent + 1
       /\ resumeFiles' \in {resumeFiles, [resumeFiles EXCEPT ![link] = "cut"]}
       /\ astray' = astray \union {link}

AddAndRemember(link) == \E accepted \in BOOLEAN :
    /\ addLink(link, link, accepted)
    /\ IF accepted THEN WriteResume(link) ELSE UNCHANGED <<resumeFiles, bounds>>

\* forgetTorrent: the file the link leads to, which may not go or go only as far as
\* being written over, and the link.
LinkLeftBehind(slot) == torrentLinks' = Front(torrentLinks)   \* (mutant) nothing moves down
ForgetLink(slot) == torrentLinks' = RemoveAt(torrentLinks, slot)
FileLeft(link, file) ==   \* (mutant) its file stays
    /\ astray' = IF link \in Listed' \/ file = Nothing THEN astray ELSE astray \ {link}
    /\ UNCHANGED <<resumeFiles, spent>>
ForgetFile(link, file) ==
    \/ file = Nothing /\ UNCHANGED <<resumeFiles, bounds>>
    \/ /\ file # Nothing
       /\ resumeFiles' = [resumeFiles EXCEPT ![file] = "none"]
       /\ astray' = IF link \in Listed' THEN astray ELSE astray \ {link}
       /\ UNCHANGED spent
    \/ /\ file # Nothing /\ spent < EventsMax /\ spent' = spent + 1
       /\ resumeFiles' \in {resumeFiles, [resumeFiles EXCEPT ![file] = "cut"]}
       /\ astray' = astray \union {link}

---------------------------------------------------------------------------
(* The service thread: starting, and its pass.                             *)

\* The way out is chosen and the engine set up, or there is neither.
StartService ==
    /\ pc = "start"
    /\ \/ pc' = "reload" /\ toReload' = {link \in Links : resumeFiles[link] # "none"}
       \/ pc' = "ended" /\ UNCHANGED toReload
    /\ UNCHANGED <<list, disk, shared, search, taken, stopRequested, screen, bounds>>

\* The folder is read in whatever order it comes.  What is in a file that was cut
\* short is a link of another name.
FileRead(link) == IF resumeFiles[link] = "whole" THEN link ELSE Nothing
reloadTorrents ==
    /\ pc = "reload"
    /\ \/ \E link \in toReload, accepted \in BOOLEAN :
            /\ addLink(link, FileRead(link), accepted)
            /\ astray' = IF accepted /\ FileRead(link) = link THEN astray ELSE astray \union {link}
            /\ toReload' = toReload \ {link} /\ UNCHANGED pc
       \/ /\ toReload = {} /\ pc' = "take"
          /\ UNCHANGED <<list, toReload, astray>>
    /\ UNCHANGED <<disk, shared, search, taken, stopRequested, screen, spent>>

\* The top of takeRequests; the adds are taken later, on their own.
TakeRequests ==
    /\ pc = "take" /\ ~stopRequested
    /\ taken' = [requests EXCEPT !.adds = {}, !.chosen = {}]
    /\ requests' = [NoRequests EXCEPT !.adds = requests.adds, !.chosen = requests.chosen]
    /\ pc' = "magnets"
    /\ UNCHANGED <<list, disk, published, search, toReload, stopRequested, screen, bounds>>

AddMagnet ==
    /\ pc = "magnets" /\ taken.magnets # << >>
    /\ AddAndRemember(Head(taken.magnets))
    /\ taken' = [taken EXCEPT !.magnets = Tail(@)]
    /\ UNCHANGED <<content, shared, search, pc, toReload, stopRequested, screen>>

\* pauseTorrent, whatever the status was, and resumeTorrent.
Paused(torrent, request) ==
    [torrent EXCEPT !.status = CASE request = 1 -> "PAUSED"
                                 [] request = -1 /\ @ = "PAUSED" -> "WAITING"
                                 [] OTHER -> @]
ApplyPauses ==
    /\ pc = "magnets" /\ taken.magnets = << >>
    /\ slots' = [slot \in DOMAIN slots |-> Paused(slots[slot], taken.pauses[slot])]
    /\ pc' = "remove"
    /\ UNCHANGED <<torrentLinks, descriptions, disk, shared, search, taken, toReload,
                   stopRequested, screen, bounds>>

FromTheFront(asked) == Min(asked)   \* (mutant) the first goes first
NextRemoval(asked) == Max(asked)

\* What of the content goes: only what sits where the slot says it does.
Erased(torrent) ==
    IF torrent.path # "none" /\ content[torrent.link] = torrent.path
    THEN [content EXCEPT ![torrent.link] = "none"] ELSE content

\* The choices made before a slot goes are no longer of the torrents at and
\* behind it; those taken in this pass still are.
Moved(meant, slot) == [other \in Slots |-> IF other >= slot THEN Nothing ELSE meant[other]]

RemoveSlot ==
    /\ pc = "remove"
    /\ LET asked == {slot \in Slots : taken.removals[slot] # 0}
           slot == NextRemoval(asked) IN
        /\ asked # {}
        /\ taken' = [taken EXCEPT !.removals[slot] = 0]
        /\ IF slot \notin DOMAIN slots
           THEN UNCHANGED <<slots, torrentLinks, disk, requests, screen, bounds>>
           ELSE /\ content' = IF taken.removals[slot] = 2 THEN Erased(slots[slot]) ELSE content
                /\ slots' = RemoveAt(slots, slot)
                /\ ForgetLink(slot)
                /\ ForgetFile(torrentLinks[slot].link, torrentLinks[slot].file)
                /\ requests' = [requests EXCEPT !.meant = Moved(@, slot)]
                /\ screen' = IF screen.slot >= slot THEN [screen EXCEPT !.meant = Nothing] ELSE screen
    /\ UNCHANGED <<descriptions, published, search, pc, toReload, stopRequested>>

TakeAdds ==
    /\ pc = "remove" /\ \A slot \in Slots : taken.removals[slot] = 0
    /\ taken' = [NoRequests EXCEPT !.adds = requests.adds, !.chosen = requests.chosen]
    /\ requests' = [requests EXCEPT !.adds = {}, !.chosen = {}]
    /\ pc' = "adds"
    /\ UNCHANGED <<list, disk, published, search, toReload, stopRequested, screen, bounds>>

\* addFoundTorrent; what is asked for past the end of found is dropped.
AddsLeft == taken.adds \intersect DOMAIN search.found
addFoundTorrent ==
    /\ pc = "adds" /\ AddsLeft # {}
    /\ AddAndRemember(search.found[Min(AddsLeft)])
    /\ taken' = [taken EXCEPT !.adds = @ \ {Min(AddsLeft)}]
    /\ UNCHANGED <<content, shared, search, pc, toReload, stopRequested, screen>>

\* searchWanted goes down before searching goes up, without the lock: in between
\* both say that nothing is searched for.
StartSearch ==
    /\ pc = "adds" /\ AddsLeft = {}
    /\ taken' = NoRequests
    /\ IF search.wanted THEN pc' = "starting" /\ search' = [search EXCEPT !.wanted = FALSE]
       ELSE pc' = "engine" /\ UNCHANGED search
    /\ UNCHANGED <<list, disk, shared, toReload, stopRequested, screen, bounds>>

UnseenSearch ==   \* (mutant) the screen is never told that a search is under way
    /\ pc = "starting" /\ pc' = "search"
    /\ UNCHANGED <<list, disk, shared, search, taken, toReload, stopRequested, screen, bounds>>
RaiseSearching ==
    /\ pc = "starting" /\ pc' = "search"
    /\ search' = [search EXCEPT !.searching = TRUE]
    /\ UNCHANGED <<list, disk, shared, taken, toReload, stopRequested, screen, bounds>>

\* A search is asked for, about to start or under way, whatever the flags say.
SearchAhead == search.wanted \/ pc = "starting" \/ search.searching

\* runSearch: the query is read, the sources are asked, the screen's copy is
\* written, and only then is the search over.
ReadQuery ==
    /\ pc = "search" /\ search.reading = Nothing
    /\ search' = [search EXCEPT !.reading = search.query, !.found = << >>]
    /\ UNCHANGED <<list, disk, shared, pc, taken, toReload, stopRequested, screen, bounds>>

\* A source that does not answer has found nothing.
PublishResults ==
    /\ pc = "search" /\ search.reading # Nothing
    /\ \E found \in {Found[search.reading], << >>} :
          search' = [search EXCEPT !.found = found, !.results = found, !.reading = Nothing]
    /\ pc' = "searched"
    /\ UNCHANGED <<list, disk, shared, taken, toReload, stopRequested, screen, bounds>>

EndEverySearch ==   \* (mutant) the flag is lowered after the search it asked for
    /\ pc = "searched" /\ pc' = "engine"
    /\ search' = [search EXCEPT !.searching = FALSE, !.wanted = FALSE]
    /\ UNCHANGED <<list, disk, shared, taken, toReload, stopRequested, screen, bounds>>
EndSearch ==
    /\ pc = "searched" /\ pc' = "engine"
    /\ search' = [search EXCEPT !.searching = FALSE]
    /\ UNCHANGED <<list, disk, shared, taken, toReload, stopRequested, screen, bounds>>

---------------------------------------------------------------------------
(* serviceTorrentEngine, as far as the service and the disk can tell.      *)

IsRunning(slot) == slots[slot].status = "RUNNING"
SetSlot(slot, torrent) == slots' = [slots EXCEPT ![slot] = torrent]

\* prepareTorrentStorage works against what an earlier run finished; a turn whose
\* torrent can ask no tracker is put off, or ends it.
PathFor(link) == IF content[link] = "finished" THEN "finished" ELSE "incomplete"

TurnComes(slot) ==
    /\ slots[slot].status = "WAITING" /\ ~\E other \in DOMAIN slots : IsRunning(other)
    /\ \E status \in {"WAITING", "FAILED"} \union (IF slots[slot].left = "all" THEN {"RUNNING"} ELSE {}) :
          SetSlot(slot, [slots[slot] EXCEPT !.status = status,
                           !.path = IF slots[slot].described THEN PathFor(slots[slot].link) ELSE @])
    /\ UNCHANGED <<descriptions, content>>

\* takeDescription reads it into the slot, which is cleared for it: one that cannot
\* be read leaves neither hash nor trackers, one that cannot be held no trackers.
DescriptionArrives(slot) ==
    /\ IsRunning(slot) /\ ~slots[slot].described
    /\ descriptions' = [descriptions EXCEPT ![slots[slot].buffer] = slots[slot].link]
    /\ \/ SetSlot(slot, [slots[slot] EXCEPT !.described = TRUE, !.path = PathFor(slots[slot].link)])
       \/ SetSlot(slot, [slots[slot] EXCEPT !.status = "FAILED", !.left = "nothing"])
       \/ SetSlot(slot, [slots[slot] EXCEPT !.status = "FAILED", !.described = TRUE, !.left = "hash"])
    /\ UNCHANGED content

PieceWritten(slot) ==
    /\ IsRunning(slot) /\ slots[slot].described /\ content[slots[slot].link] = "none"
    /\ content' = [content EXCEPT ![slots[slot].link] = slots[slot].path]
    /\ UNCHANGED <<slots, descriptions>>

\* finishTorrent: what is whole moves out of incomplete/, or cannot be moved and
\* counts as finished all the same; contentPath stays.
Finishes(slot) ==
    /\ IsRunning(slot) /\ content[slots[slot].link] # "none"
    /\ slots[slot].described
    /\ \E place \in {content[slots[slot].link], "finished"} :
          content' = [content EXCEPT ![slots[slot].link] = place]
    /\ SetSlot(slot, [slots[slot] EXCEPT !.status = "FINISHED"])
    /\ UNCHANGED descriptions

LosesTurn(slot) ==
    /\ IsRunning(slot)
    /\ \E status \in {"WAITING", "FAILED"} : SetSlot(slot, [slots[slot] EXCEPT !.status = status])
    /\ UNCHANGED <<descriptions, content>>

ServiceEngine ==
    \/ \E slot \in DOMAIN slots :
         \/ TurnComes(slot) \/ DescriptionArrives(slot)
         \/ PieceWritten(slot) \/ Finishes(slot) \/ LosesTurn(slot)
    \/ UNCHANGED <<slots, descriptions, content>>

publishProgress ==
    published' = [slot \in DOMAIN slots' |-> [link |-> slots'[slot].link, status |-> slots'[slot].status]]

\* The screen sees nothing of the engine before the list is published.
EndPass ==
    /\ pc = "engine" /\ pc' = "take"
    /\ ServiceEngine /\ publishProgress
    /\ astray' = astray \union Wiped'
    /\ UNCHANGED <<torrentLinks, resumeFiles, requests, search, taken, toReload,
                   stopRequested, screen, spent>>

\* stopTorrentService waits for this.
EndService ==
    /\ pc = "take" /\ stopRequested /\ pc' = "ended"
    /\ UNCHANGED <<list, disk, shared, search, taken, toReload, stopRequested, screen, bounds>>

---------------------------------------------------------------------------
(* The screen.                                                             *)

Asks ==
    /\ spent < EventsMax /\ screen = Idle /\ ~stopRequested
    /\ spent' = spent + 1

service == <<list, disk, pc, taken, toReload, stopRequested>>

\* toggleSelected: by what is published of that row now.
toggleSelected(slot) ==
    /\ Asks /\ slot \in DOMAIN published /\ published[slot].status # "FINISHED"
    /\ requests' = [requests EXCEPT !.pauses[slot] = IF published[slot].status = "PAUSED" THEN -1 ELSE 1]
    /\ UNCHANGED <<service, published, search, screen, astray>>

\* The question names the torrent of that row; the choice is of that torrent as
\* long as the list the screen sees is the list there is.
askAboutDeleting(slot) ==
    /\ Asks /\ slot \in DOMAIN published
    /\ screen' = [doing |-> "deleting", slot |-> slot,
                  meant |-> IF IsPrefix(LinksOf(published), LinksOf(slots))
                            THEN published[slot].link ELSE Nothing]
    /\ UNCHANGED <<service, shared, search, astray>>

onDeleteAnswer(removal) ==
    /\ screen.doing = "deleting" /\ screen' = Idle
    /\ requests' = IF removal = 0 THEN requests
                    ELSE [requests EXCEPT !.removals[screen.slot] = removal,
                                          !.meant[screen.slot] = screen.meant]
    /\ UNCHANGED <<service, published, search, bounds>>

\* searchServiceSources sets the query under the lock and the flag after it.
\* With a new query typed, an add not yet taken is of no result on the screen.
TypeQuery(query) ==
    /\ Asks
    /\ search' = [search EXCEPT !.query = query, !.results = << >>]
    /\ requests' = [requests EXCEPT !.chosen = {}]
    /\ screen' = [Idle EXCEPT !.doing = "searching"]
    /\ UNCHANGED <<service, published, astray>>

WantSearch ==
    /\ screen.doing = "searching" /\ screen' = Idle
    /\ search' = [search EXCEPT !.wanted = TRUE]
    /\ UNCHANGED <<service, shared, bounds>>

addServiceResult(index) ==
    /\ Asks /\ index \in DOMAIN search.results
    /\ requests' = [requests EXCEPT !.adds = @ \union {index},
                       !.chosen = {choice \in @ : choice[1] # index} \union
                          (IF SearchAhead THEN {}
                           ELSE {<<index, search.results[index]>>})]
    /\ UNCHANGED <<service, published, search, screen, astray>>

addServiceMagnet(link) ==
    /\ Asks
    /\ requests' = IF Len(requests.magnets) < ADD_QUEUE_MAX
                    THEN [requests EXCEPT !.magnets = Append(@, link)] ELSE requests
    /\ UNCHANGED <<service, published, search, screen, astray>>

stopTorrentService ==
    /\ ~stopRequested /\ pc # "ended" /\ stopRequested' = TRUE
    /\ UNCHANGED <<list, disk, shared, search, pc, taken, toReload, screen, bounds>>

\* The app has ended, or is cut off at any point, and is started again.
Restart ==
    /\ spent < EventsMax
    /\ slots' = << >> /\ torrentLinks' = << >>
    /\ descriptions' = [buffer \in Buffers |-> Nothing]
    /\ requests' = NoRequests /\ published' = << >> /\ search' = NoSearch
    /\ pc' = "start" /\ taken' = NoRequests /\ toReload' = {}
    /\ stopRequested' = FALSE /\ screen' = Idle
    /\ spent' = spent + 1 /\ astray' = {}
    /\ UNCHANGED disk

---------------------------------------------------------------------------
Service ==
    \/ StartService \/ reloadTorrents \/ TakeRequests \/ AddMagnet \/ ApplyPauses
    \/ RemoveSlot \/ TakeAdds \/ addFoundTorrent \/ StartSearch \/ RaiseSearching \/ ReadQuery
    \/ PublishResults \/ EndSearch \/ EndPass \/ EndService

Screen ==
    \/ \E slot \in Slots : toggleSelected(slot) \/ askAboutDeleting(slot)
    \/ \E removal \in 0 .. 2 : onDeleteAnswer(removal)
    \/ \E query \in Queries : TypeQuery(query)
    \/ WantSearch
    \/ \E index \in DOMAIN search.results : addServiceResult(index)
    \/ \E link \in Magnets : addServiceMagnet(link)
    \/ stopTorrentService

Next == Service \/ Screen \/ Restart

Spec == Init /\ [][Next]_vars

---------------------------------------------------------------------------
(* Properties.                                                             *)

Statuses == {"WAITING", "RUNNING", "PAUSED", "FINISHED", "FAILED"}
Places == {"none", "incomplete", "finished"}
Torrent == [link : Links, status : Statuses, buffer : Buffers, described : BOOLEAN, path : Places,
            left : {"all", "hash", "nothing"}]
Meanings == Links \union {Nothing}
Requests ==
    [pauses : [Slots -> -1 .. 1], removals : [Slots -> 0 .. 2], meant : [Slots -> Meanings],
     magnets : Seq(Magnets), adds : SUBSET Nat, chosen : SUBSET (Nat \X Links)]
Search == [query : Queries \union {Nothing}, reading : Queries \union {Nothing},
           wanted : BOOLEAN, searching : BOOLEAN, found : Seq(Links), results : Seq(Links)]

\* The list: never longer than the engine's table, nor is the screen's copy.
ListTypeOK ==
    /\ slots \in Seq(Torrent) /\ Len(slots) <= TORRENT_SLOT_MAX
    /\ torrentLinks \in Seq([link : Links, buffer : Buffers \union {NoBuffer}, file : Meanings])
    /\ descriptions \in [Buffers -> Meanings]
RestTypeOK ==
    /\ resumeFiles \in [Links -> {"none", "whole", "cut"}] /\ content \in [Links -> Places]
    /\ requests \in Requests /\ taken \in Requests
    /\ published \in Seq([link : Links, status : Statuses]) /\ Len(published) <= TORRENT_SLOT_MAX
    /\ search \in Search
    /\ pc \in {"start", "reload", "take", "magnets", "remove", "adds", "starting", "search",
              "searched", "engine", "ended"}
    /\ toReload \subseteq Links /\ astray \subseteq Links /\ stopRequested \in BOOLEAN
    /\ screen \in [doing : {"nothing", "deleting", "searching"}, slot : 0 .. TORRENT_SLOT_MAX,
                   meant : Meanings]
    /\ spent \in 0 .. EventsMax

\* Every variable holds what its declaration says, and no list outgrows its array.
TypeOK == ListTypeOK /\ RestTypeOK

\* The list of links is in the order of the engine's slots, link for link,
\* through refused adds, removals and a reload (torrent-service.c:288-321, :375).
LinksFollowSlots == LinksOf(torrentLinks) = LinksOf(slots)

\* A description a peer gave stays in its buffer for as long as the magnet is
\* listed, whatever is added meanwhile (torrent-service.c:325).
MagnetDescriptionStays ==
    \A slot \in DOMAIN slots : slots[slot].link \in Magnets /\ slots[slot].described
        => descriptions[slots[slot].buffer] = slots[slot].link

\* So does the description of every torrent, since its piece hashes point into
\* it (torrent-engine.h:49-50).
DescriptionStays ==
    \A slot \in DOMAIN slots : slots[slot].described
        => descriptions[slots[slot].buffer] = slots[slot].link

\* What is listed has its file, whole, and what is not listed has none, so it is
\* taken up again and what was removed does not come back: but for a link whose
\* fetch, write or delete failed, and one whose hash an unreadable description
\* wiped, which can be listed again beside itself (:288-321, :357-381).
ListedIsTakenUpAgain ==
    pc \notin {"start", "reload", "ended"} =>
        \A link \in Links \ astray :
            resumeFiles[link] = IF link \in Listed THEN "whole" ELSE "none"

\* When no search is asked for, about to start or under way the results are of the
\* query typed last; the call that types it is one of the screen's own.  The two
\* flags alone do not say so: between :157 and :158 both are down (:156-161,
\* :235-257, :650-663).
ResultsAnswerTheQuery ==
    screen.doing # "searching" /\ ~SearchAhead
        => search.results \in {<< >>} \union {Found[query] : query \in Queries \intersect {search.query}}

\* A removal takes the torrent the question named, unless the list moved since
\* the question was asked of it (:121-142).
RemovalHitsItsTorrent ==
    [][RemoveSlot => LET slot == NextRemoval({s \in Slots : taken.removals[s] # 0}) IN
          taken.meant[slot] # Nothing
             => slot \in DOMAIN slots /\ taken.meant[slot] = slots[slot].link]_vars

\* An add takes the result the user stood on, unless a search was asked for, about
\* to start or under way, or another query was typed before it was taken (:144-158).
AddHitsItsResult ==
    [][addFoundTorrent => \A choice \in taken.chosen :
          choice[1] = Min(AddsLeft) => search.found[choice[1]] = choice[2]]_vars

\* A torrent taken off the disk too has nothing left there.
DeletedFromTheDisk ==
    [][RemoveSlot => \A slot \in DOMAIN slots :
          taken.removals[slot] = 2 /\ taken'.removals[slot] = 0
             => content'[slots[slot].link] = "none"]_vars
=============================================================================
