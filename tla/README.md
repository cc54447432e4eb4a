# Verification of the PS3 torrent client and its WireGuard stack

`ps3-dev` is a collection of C libraries and applications for a PlayStation 3. This project verifies
its most protocol-heavy program: **swarm**, a torrent client (`src/apps/swarm`), the torrent library
it is built on (`src/libs/simple-lib-torrent`) and the user-space WireGuard tunnel and TCP stack
through which it talks to the network (`src/libs/simple-lib-wireguard`). Those hold the state machines
of the repository: timers against late answers, lost and repeated datagrams, two ends that must not
both wait, and blocks of a file asked of many unreliable peers and put on a disk that may fail.

Contents: [the system](#the-system) · [modules](#modules-and-how-they-correspond-to-the-code) ·
[runs](#the-runs) · [bounds](#bounds) · [fairness](#fairness) · [proofs](#what-is-proved) ·
[findings](#what-the-code-does-differently-from-what-it-says) · [not modelled](#not-modelled) ·
[plan](#plan)

## The system

```
  screens ── requests, published copies (a lock) ──> swarm service thread   torrent-service.c
                                                         │ calls, once per step
                                                         v
            torrent engine  torrent-engine.c ──> peer connections  peer.c ──> storage  torrent-storage.c
                    │ getTorrentNetwork(): a table of functions
                    v
            network of the app  wg-net.c ──> tcp streams  wg-tcp.c
                    │ sendThroughWgTunnel / serviceWgTunnel
                    v
            tunnel  wg-tunnel.c ──> sessions  wg-session.c ──> replay window  wg-replay.c
                    │           └─> handshake  wg-handshake.c
                    v
            UDP socket  wg-transport.c
```

Everything below the service thread runs on that one thread. Concurrency is therefore of three kinds:
between the screen and the service thread, which share what is behind one lock; between the program and
the other ends (server, peers, network, disk), which act whenever they like; and between the code and
itself, where a call (`sendWgTcp`, `closeWgTcp`, `recvWgTcp`) runs a service turn from inside. Nothing is woken by an event: timers are looked at when somebody services them, and
the caller may be late by any amount.

| component | state | operations | what is hard | what makes it correct |
|---|---|---|---|---|
| replay window (`wg-replay.c`) | highest counter, bit mask | accept a counter, reset with a new session | jumps past the width, reordering | answers as the whole history would |
| tunnel (`wg-tunnel.c`, `wg-session.c`) | state, current and previous session, pending handshake, four clocks, attempts | service turn (timers, then one datagram), send | crossed handshakes, repeated and late answers, failed sends, late turns | no counter twice under one key, nothing delivered twice, rekeys in time, never silent too long, never waiting for what cannot come |
| handshake (`wg-handshake.c`) | indices, keys, timestamps | make and answer an initiation, take a response | replayed initiations and responses | an answer opens once, an initiation must be news |
| tcp stream (`wg-tcp.c`), receiving half | ring, two cursors, remembered runs, window said, count owed | segment arrives, app reads | reordering, overlap, wrap, full ring, full list of runs | the app reads the stream; the other end is told the truth, and is told |
| tcp stream, sending half | ring, four cursors, window heard, congestion window, counts | write, flush, acknowledgement, timer (hello, goodbye, rewind, probe), close | rewinds against late confirmations, a closed window, the goodbye | nothing unconfirmed is lost, nothing goes beyond the room, everything gets through |
| network of the app (`wg-net.c`) | table of streams and UDP sockets | service, open, write, read, close | service turns from inside calls, refused segments | an acknowledgement stays owed until it left |
| torrent engine (`torrent-engine.c`) | slots, one active torrent, pieces in hand with blocks, owners, bitmap of taken pieces | service, add, pause, resume, remove | owners that die, choke and come back, blocks that come twice, turns that end half way | a piece is done, in hand or on offer, never lost and never twice |
| peer connection (`peer.c`) | link state, choked, requests, bitfield, buffers | open, service, ask for a block | death inside a call, choking | what it owes is what it was asked for |
| torrent storage (`torrent-storage.c`) | files under `incomplete/` | write a piece, check a piece, move when finished | cut-off and failed writes | what is counted as done is right on disk |
| tracker (`tracker.c`) | one announce | start, service, stop | no answer | rounds are bounded |
| swarm service (`torrent-service.c`) | request flags, published copies, links and description buffers, resume files | add, remove, pause by index; step; publish | two threads, indices that go stale, restart | a request hits the torrent it was made for; what is listed survives a restart; nothing leaves outside the tunnel when the kill switch is on |

The other libraries and applications of the repository are listed in `PROJECT.json` and at
[not modelled](#not-modelled).

The **hazards** - what can go wrong in this code that a test would hardly reach - are listed in
`PROJECT.json` at the line where each bites, with the properties that watch it.

## Modules and how they correspond to the code

| module | stands for | its actions |
|---|---|---|
| `AntiReplay` | the abstract promise of a session's counters: let through what is new and not a window behind | abstract |
| `WgReplay` | `wg-replay.c`: the mask as a set of bit numbers, its shift and its limits | one action per outcome of `acceptWgCounter` |
| `WgReplayProofs` | theorems about `WgReplay` | |
| `WgTunnel` | `wg-tunnel.c` with `wg-session.c`, and what it sees of `wg-handshake.c` and `wg-transport.c` | timers, arrivals, sends |
| `WgTunnelProofs` | theorems about `WgTunnel` | |
| `SequenceNumbers` | the numbering of a TCP stream's bytes in `wg-tcp.c`, its wrap and its comparisons | operators |
| `SequenceNumbersProofs` | lemmas about it, for both halves of the stream | |
| `ByteStream` | the abstract promise of `recvWgTcp` and `isWgTcpFinished` to their reader | abstract |
| `WgTcpReceive` | the receiving half of `wg-tcp.c` and `wg-net.c` around it; implements `ByteStream` | segments, service calls, reads, close |
| `WgTcpReceiveProofs` | theorems about `WgTcpReceive`, the refinement of `ByteStream` among them | |
| `WgTcpSend` | the sending half of both | writes, acknowledgements, the timer, close |
| `WgTcpSendProofs` | theorems about `WgTcpSend` | |
| `TorrentPieces` | `torrent-engine.c` for one torrent, with `peer.c` and `torrent-storage.c` as it uses them | the steps of one `serviceDownloading` |
| `TorrentPiecesProofs` | theorems about `TorrentPieces` | |
| `TorrentTurns` | `torrent-engine.c` for all its torrents, with what it sees of `peer.c` and `tracker.c` | one call of the engine each |
| `TorrentTurnsProofs` | theorems about `TorrentTurns` | |
| `TorrentService` | `torrent-service.c` and what `home.c` asks of it, over what they see of the engine and the disk | screen calls, and the service's pass cut at every lock |
| `TorrentServiceProofs` | theorems about `TorrentService` | |
| `MC*` | the instances TLC checks | |

Every definition that stands for code names its lines in `PROJECT.json` under `map`. Definitions with
`(mutant)` in their comment are not used by the specifications: each is what a plausible slip in the
code would make of the definition after it, and shows that some property would notice.

**WgReplay.** State is that of `WgReplayWindow`; `accepted` is history. `Shifted` is the shift with its
cut-off at the width, which in C is a separate branch because shifting a word by its width is undefined.

**WgTunnel.** `phase` says where in `serviceWgTunnel` the client is: between calls, or past the timers
and waiting for a datagram. One `RunTimers` step is one call of `runTimers`: its five disjuncts are
its five ways out, in the code's order, each with the send that works and the send that fails. `Receive`
takes one datagram of any that were ever sent (so the network loses, repeats and reorders), or none.
A handshake is a number: newer ones are greater, as the TAI64N timestamps are, and the session it leads
to carries it, so that "the same key" is "the same number". `seals`/`sealed` and `deliveries`/`delivered`
count what was done and collect the pairs it was done with. Sessions use the set of counters let
through in place of the mask: that is what `WindowKeepsPromise` proves they are.

**WgTcpReceive.** A byte is its position in the stream; cursors are sequence numbers modulo
`SEQUENCES` and compared as `isAfter` does, so the wrap is in the model. `Arrive` is
`processTcpSegment` as far as the receiving half goes, with the acknowledgement `routeToStream`
then sends; `takeSegmentData` and `addReceivedRange` are operators from the state to what they leave.
`servicing` separates a service call from what the app does between calls. A call ends in `EndService`, which
acknowledges and announces, or in `BreakOff`, when the tunnel fails and `serviceWgNetwork` returns before it does. A segment that leaves carries
the acknowledgement and the window; the tunnel may refuse it. The other end starts a piece of its stream anywhere
within what it was ever offered and ends it where it likes, so pieces run past the window's end and past the ring.
`closeWgTcp` is `StartClose` and `SayGoodbye` with service calls between them; the goodbye is said even if the stream has failed by then.

**WgTcpSend.** `Flush` is `flushStream` until `buildTcpData` builds nothing or the tunnel refuses a segment (which
counts as sent, as in the code), from the state the step leaves. `Timer` is one stream's part of `resendLostSegments`. `closeWgTcp` is three steps, `StartClose`,
`SayGoodbye` and `GiveBack`, because it services the network in between; `SayGoodbye` does not look at what became of the stream
in the meantime, so a stream that failed there goes to CLOSING and takes a number for its goodbye. `GiveBack` without a goodbye
is the close of a stream that is not open, and `connectWgTcp` giving up. Of congestion control only
what bounds the flight is kept: a timeout leaves one segment, a confirmation never less than there was.
`air` and `news` hold what was sent since the network last gave or took it, for fairness; anything
older may still arrive through `PeerReceivesStale` and `TakeStale`.

**TorrentPieces.** `turn` and `at` walk through one `serviceDownloading`: `fillWorkSlots`, then for each
link `askForBlocks` and everything `servicePeer` reports, then `finishPiece` for what is whole, then the
quiet check. The app's own calls come between slices only, as they do in the code. A `Fault` is something
the environment does wrong - a refused send, a failed or cut-off write, an unreadable piece, wrong bytes,
a block nobody asked for, a choke, a power cut - and each happens at most once in a behaviour.
Clocks are left out: a timeout may have run out whenever the code looks at one.

**TorrentTurns.** The engine's functions are operators from an engine (slots, active slot, links, ports) to the engines
they may leave, named as in the code, and `serviceTorrentEngine` is one step: end a turn, choose the next, a slice of work.
Where `TorrentPieces` has blocks, here a piece is finished, damaged or cannot be written. `quiet` says that nothing arrives
in the call and that what the code waits for has waited long enough, so the call ends a turn that can be ended. A
description's length is the torrent it is the length of; a peer names the length of what it serves, never a false one,
so a wrong length can only come from the code. `left` marks the connections that a description too large leaves open.

**TorrentService.** `pc` is where the service thread is in `runService`; what it took under the lock is in `taken`, what
the screen has asked for since is in `requests`. Every time the lock is held is a step of its own, so is every add and
every removal between (each may take seconds), and the screen's calls fall between any two of them. `meant` and `chosen` are
history: which torrent, and which result, the user had before his eyes when he chose. `Restart` ends everything but the
resume folder and the content, at any point. Slots, descriptions and content are kept only as far as the service, the
screen and a delete can tell them apart. What can go wrong with a link is kept too:

* `left` is what the slot still has of its torrent. A description that cannot be read takes hash and trackers
  (`DescriptionArrives`), one that cannot be held the trackers. `isAlreadyHeld` compares hashes (`Held`), so the link of a wiped slot may be listed again.
* `resumeFiles` says of each link whether its file is there, whole or cut short. A write may leave nothing or a part (`WriteResume`),
  a delete may not happen or may only write the file over (`ForgetFile`). A link that was cut short is another link with another file name:
  a torrent taken up from it has `file = Nothing`, and removing it deletes nothing.
* `astray` collects the links for which any of this has happened, and `ListedIsTakenUpAgain` is about the others.
* A search starts in three steps: `searchWanted` goes down (`StartSearch`), `searching` goes up (`RaiseSearching`), the query is read. Between the first two
  both flags are down. `SearchAhead` includes that gap, which no reader of the flags can see (finding 17).

`RemoveSlot` is the one place where several calls are one step: `removeTorrent`, `forgetTorrent` and the delete of the content all run on the
service thread without the lock in between, so no other thread's step is hidden, but a power cut between the file and the content is. `toggleSelected`
takes the lock several times in the code and is one step here.

## The runs

| run | question | result |
|---|---|---|
| `replay` | does the mask answer as the full history would? | `MaskIsExact`, `NeverAcceptedTwice` hold, and the mask implements `AntiReplay` (`KeepsPromise`) |
| `tunnel` | do keys, counters and timers survive crossed handshakes, repeats, failed sends, late turns? | a counter never meets a key twice, no packet is handed up twice, silence is bounded by the keepalive plus one attempt, keys age out, a rekey is always under way in time, and the client never waits for an answer that cannot come |
| `tcp_receive` | does the app read the stream, and does the other end hear the truth? | the receiver implements `ByteStream` (`DeliversTheStream`), and what it says of its room and its progress is true, also after service calls that broke off, with the wrap of the sequence numbers, a ring shorter than the stream and a list of two runs |
| `tcp_send` | does anything unconfirmed get lost, or sent past the room? | the cursors keep their order through every goodbye, the ring keeps what is unconfirmed, what is confirmed is held, and the room is respected up to the probe byte and up to what the scaled hello was taken to say (finding 8) |
| `tcp_send_live` | does what is written get through? | `WrittenGetsThrough` holds under the fairness below, lost window updates included |
| `torrent_pieces` | is a piece ever lost, counted twice or counted wrong? | no, with any one fault and a power cut; and what a peer owes it was asked for, unless a send was refused, a peer choked us or sent what nobody asked for |
| `torrent_turns` | do many torrents get along? | one at a time is worked for, with its own peers, no tracker's port is lost, and every torrent ends once the user leaves it alone (`EveryTorrentEnds`, under the fairness below), a torrent whose disk is full included |
| `torrent_service` | do screen, service, engine and resume folder agree? | links follow slots; a magnet's description is not written over; what is listed is taken up again and what was removed is not, but for links that went astray; when no search is asked for, about to start or under way the results are of the query typed last; a removal hits the torrent it named unless the list moved, an add the result it named unless a search was asked for, about to start or under way |
| `service_descriptions`, `service_delete`, `turns_stale_size`, `engine_choke` | does the code do what its own comments say? | no: see the findings |

`CHECK_DEADLOCK` is on but for the instances of `TorrentService` and `TorrentTurns`: a service that was stopped, and an engine
with nothing to do and no more asks, have no step left.

## Bounds

Every bound is a CONSTANT of its module and named there as one.

* **replay**: seven counters and a window of three, so that it slides by less than, exactly and more than its width,
  with new sessions in between.
* **tunnel**: three handshakes (a session, its replacement and one that crosses it), one packet of each session
  from the server, one of the client's own, one failed send, six ticks. Times keep the order of the real ones:
  resend < keepalive <= previous session < rekey < reject, and a rekey that is never answered outlives the session.
  `seals` is bounded only for the caller's packets and pings; keepalives always go out.
* **tcp_receive**: a stream of nine bytes through a ring of eight, numbered across the wrap (60 of 64), segments of
  up to two bytes, two remembered runs, a window field that counts in twos and holds at most six, so that all three of its
  roundings occur, and one refused segment, which may be the acknowledgement of the hello's answer.
* **tcp_send**: six bytes through a ring of four, so that slots are used again, to an end with room for two that counts its window in
  twos, so that the hello is read to say four, numbered across the wrap (17 of 20), full and part-full segments of two, one resend before
  giving up. That a stream passes the room it was told of is reached in four steps. `tcp_send_live` is smaller because of the temporal property.
* **torrent_pieces**: two pieces of two and one blocks, two peers, two pieces in hand, two requests in flight,
  a second ask of one, and one fault of six kinds with a power cut before or after it. Two peers and a piece of two blocks are what sharing a block,
  asking twice and splitting a piece between peers need; the power cut puts the fault into the recovery from it, or the recovery after the fault.
* **torrent_turns**: two slots for three torrents, two of them magnets and one of those too large to be described; two
  connections, so that one may be dead and remember while the other serves; one tracker and one round of asking again, so that
  giving up is near; two pieces; four adds, pauses, resumes and removals. A third slot and a second tracker add states of
  the same kind: a turn passes between two torrents, and a tracker that does not answer is followed by another or by none.
* **torrent_service**: two magnets and a torrent file, two slots and two buffers, two queries that find two results and one,
  and four events (`EventsMax`) in all: what the user does, starts of the app and files that cannot be written or deleted. Two slots are what a removal needs to
  shift another torrent and what listing a link twice needs, two queries what a stale result needs. Four events are enough to add a link, lose its hash, add it again and remove one of
  the two, and to add a torrent whose file is cut short, start again and remove it. ADD_QUEUE_MAX bounds the buffers as it does in the code, where both are larger.

## Fairness

`WgTcpSend` and `TorrentTurns` state it; `tcp_send_live` and `EveryTorrentEnds` of `torrent_turns` depend on it.

Of `WgTcpSend`:

* `SF(PeerReceivesLatest)`, `SF(TakeLatest)`: of what is sent again and again, something gets through. Without it no
  protocol over a lossy network makes progress. It is strong because a loss disables the step until the next resend.
* `WF(PeerReads)`: the other end's app goes on reading. A reader that stops for good is what a closed window is for.
* `WF(Timer)`: `resendLostSegments` is looked at again and again. It is the first thing `serviceWgNetwork` does, and the
  service thread calls that every step while it runs.

Nothing is assumed of the app that writes, of the closing of the stream or of stale segments.

Of `TorrentTurns`:

* `WF(serviceTorrentEngine(TRUE))`: the service thread calls the engine every pass for as long as it runs
  (`torrent-service.c:524-529`), and a call in which nothing arrives and the time is up comes again and again. The second
  half is an assumption on peers and trackers and not on the code: a peer that keeps sending damaged blocks keeps its torrent's turn for
  ever, since every block puts off the quiet check (`lastBlockAtMs`).
* `WF(RetryComesDue)`: the clock goes on.

Nothing is assumed of peers that serve, trackers that answer, or the user, who stops asking because asks are bounded.
The safety runs use the same specifications; fairness adds nothing to them.

## What is proved

TLAPS checks the following for every value of the constants that the named assumptions of the modules allow. The bounds of
the runs (`MaxTime`, `MaxHandshake`, `StreamLength`, `FaultsMax`, ...) are constants of the modules, so the theorems hold
whatever they are.

### The tunnel

`WgReplayProofs`, for every `WINDOW \in Nat \ {0}` and every `Counter \subseteq Nat`:

* `TypesAlwaysHold` and `MaskAlwaysExact`: `Spec => []TypeOK`, `Spec => []MaskIsExact`. The two together are the inductive
  invariant `Inv`. `TypeOK` alone is not enough for what matters: that an answer is right needs to know what each bit means,
  which is `MaskIsExact` - within the window, a bit is set exactly for the counters let through, and the highest counter is one
  of them. The interesting step is `AcceptNewer`: a counter between the old and the new highest was never let through and its
  bit is clear after the shift; an older one still inside the window had a bit before, and the shift moved it to its new age.
* `AcceptedOnce`: `Spec => NeverAcceptedTwice`, from the same invariant.
* `WindowKeepsPromise`: `Spec => KeepsPromise`, the refinement of `AntiReplay`: by the invariant every accepted counter is
  fresh to the full history and every refused one is not (`AnswersAgree`), so each step is a step of the promise.

`WgTunnelProofs`, for every timing, window, and number of handshakes, packets and failed sends that `TimingAssumption`
allows. Every invariant that the run `tunnel` checks is a theorem:

* `TypesHold`: `Spec => []TypeOK`. `TypeOK` bounds `attempts`, and is not inductive: an initiation adds one to whatever was
  there, so outside `CONNECTING` there must be one attempt fewer (`AttemptsLeft`). The step that needs it is a session that
  expires in the middle of a rekey, which carries its attempts into the reconnect that follows.
* `NoncesUsedOnce`: `Spec => []NonceNeverReused`. That the counter of a key only grows is not the difficulty; that a key is
  never come by a second time is, because every datagram may be repeated. `NonceInv` adds three parts to the types:
  * `Apart`: a handshake was begun by one side, and the one waited for is ours;
  * `KeysSpent`: every key that has sealed, and the current one, is of a *spent* handshake - its answer is no longer waited
    for and its initiation is no longer news - and the current one has sealed below its counter only;
  * `Counting`: the seals so far are as many as the pairs used.

  A step either leaves the keys' counters alone (`Quiet`), seals once under the current ones (`Sealing`), or takes up a
  handshake that was not spent and is afterwards (`Adopting`); `StepsKey` shows there is no fourth. What is spent stays so
  (`HandshakesStay`), because new handshakes take new numbers and the last timestamp only grows. So a key that is adopted has
  sealed nothing, and starting its counter at zero is right. The proof relies on the two lines that look least like it:
  that answering mixes the pending handshake (`Opens`), and that an initiation no later than the last is dropped (`IsNews`).
* `DeliveredOnce`: `Spec => []NeverDeliveredTwice`. `DeliveryInv` has `DeliveriesHeld` for the windows where `NonceInv` has
  the counters: what was handed up under a session's keys is in that session's own window, which travels with the keys when
  they become the previous ones; the two sessions are never of one handshake; and keys that have handed up anything are spent,
  so a session that begins with an empty window has handed up nothing. A packet whose key is neither session's is dropped.
* `NeverSilentLong`, `KeysAlwaysAgeOut`, `RekeyAlwaysStarts`, `NeverWaitsInVain`: `SilenceBounded`, `KeysAgeOut`,
  `RekeyStartsInTime` and `WaitsForAnAnswer` have one invariant, `TimeInv`, because each leans on the others. A wait is
  shorter than a tick (`WaitIsShort`), so what the timers let pass still holds when the wait ends. `lastSent` runs ahead of what was really
  sent when an answer is adopted, by as much as that answer took to come, and an answer that is still taken took less than a
  resend (`WantedIsInFlight`): hence the bound of a keepalive *and one attempt*, and no better. Replaced keys are given up
  at a time reckoned from when they were replaced, which is before their own rejection age (`PreviousExpires`).

The far end and the network are as the module models them: that a packet which opens was sealed by the other end
is an assumption of the model and not proved.

### The stream

`SequenceNumbersProofs` has the lemmas both halves rest on. Positions in the stream grow without bound and sequence numbers
wrap; as long as all that is in use lies less than half the numbers apart, `isAfter` and `isAtOrAfter` compare positions, a number
advanced is the number of the position advanced, and bytes of one ring's length have slots of their own, since the ring's size
divides the count of numbers. The assumptions say what the code has: a ring that is a power of two, and (as the bound of the
model's stream) a stream shorter than half the numbers. The last is what a stream of the program may exceed: there the
comparison is between cursors a ring apart, and the history the model keeps in positions would need to be forgotten first.

`WgTcpReceiveProofs`, for every ring, list of runs, segment size, window field and place of the wrap: every property of the
run `tcp_receive`. `ReceiveInv` is the conjunction of

* `CountersInv`, the types;
* `ReadInv`: read <= taken <= read + ring, the goodbye is heard only with everything before it, and the app has read the
  positions before the start, in order;
* `HolesInv`: `RunsLieApart`, and no run reaches past the stream. That the runs lie apart and beyond the gap is what makes
  absorbing one when the gap closes enough: the run after it cannot have been reached too (`absorbReceivedRange` is not repeated);
* `KeptInv`: `NothingOverwritten`. A piece that falls on bytes already here writes the same bytes again, and a piece beyond
  the ring is cut; so what is between start and next, and what the runs remember, is what was sent;
* `SaidInv`: what left says no more than is there, what is not yet said is owed, and room that came back is announced unless it is not worth saying.
  None of it waits for the end of a service call, so a call that breaks off disturbs none of it.

From it follow `ReceiveTypesHold`, `RunsAlwaysApart`, `NeverOverwritten` and `NothingGoesUnacknowledged`, and
`ReaderGetsTheStream`: `Spec => DeliversTheStream`, the refinement of `ByteStream` - a read is a read of the promise because the
slots from start to next hold the stream (`KeptInv`), and the end is told when the cursors meet after the goodbye (`ReadInv`).
`RoomAlwaysToldTruly` (`RoomIsToldTruly`) has a hypothesis, `FieldIsEnough`: the window field can say the whole ring, in units no
coarser than what is worth announcing. The code satisfies it where the other end takes window scaling: 262144 bytes in units of 128
are 2048 in a field of 16 bits, and 128 is less than two segments. Where it does not, the field says at most 65535 of the ring's
bytes, `shouldAnnounceWindow` finds the rest worth announcing after every read, and it stays unannounced.

`WgTcpSendProofs`, for every ring, segment, limit and place of the wrap: every invariant of the run `tcp_send`. `SendInv` is

* `ControlInv`: the types, and that a stream which still tries has a try left;
* `AirInv`: the other end has no more than was carried to it, and there is a goodbye only once it was said;
* `CursorInv`: confirmed <= next <= highest <= written (and one for the goodbye), written at most a ring past confirmed, next
  no further than what was carried, and confirmed no further than what the other end has. The middle part is what a rewind
  needs: `sendNext` goes back while `sendHighest` stays, a late confirmation may then lie beyond `sendNext`, and it is taken only up to
  `sendHighest`, so it confirms nothing that was never sent;
* `RingInv`: `UnconfirmedIsKept`; a write fills slots past written, which are no unconfirmed byte's while a ring fits;
* `RoomInv`: what was carried is at most one past what was promised or the hello was read to say, and neither is confirmed plus the window
  last heard, however old that announcement is.

The theorems are `SendTypesHold`, `CursorsStayInOrder`, `ResendsWhatWasWritten`, `ConfirmsOnlyWhatIsHeld` and `RoomIsRespected`.
The last holds for every `PEER_UNIT`: where it is larger than one the window of the hello's answer is read too large (finding 8), `HelloRoom` is what it is read as,
and the theorem says that this is all that is ever added to the room the other end announced.

### The torrents

`TorrentPiecesProofs`, for any set of pieces cut into any number of blocks, any number of peers, of pieces in hand and of requests,
and any faults, each at most once, in any order (`PiecesAssumption`, which takes from the code that a second ask asks for no more than may be in
flight): every invariant of the run `torrent_pieces` and `RightStaysRight`. `IInv` is the conjunction of

* `ControlInv`: where the slice is; a slice belongs to the torrent whose turn it is, and one that goes on has a round of the trackers left;
* `LinksInv`: the connections' types, the bound on requests being the one that needs proof;
* `HandsInv`: `TakenIsDoneOrInHand`, each slot of work well formed (`SlotOK`: what is left is the number of blocks missing, and only
  a missing block of the piece in hand has an owner), and a torrent without the turn has nothing in hand, which is what lets a pause, a
  failure and a crash forget the slots without losing a piece from reach;
* `DiskInv`: `DoneIsOnDisk`, with the types it needs: a piece is counted in the step that wrote it or read it back right;
* `OwedInv`: while no fault cut a request short, `OwedIsAsked`. It relates sets of blocks spread over all slots to one counter per
  peer: a step that asks adds as many to one as to the other, and a block that arrives takes one from both at the peer that sent it. A
  peer that has to send a block it does not owe may do so only while more is asked of it than it owes.

The theorems are `TypeAlwaysOK`, `TakenAlwaysDoneOrInHand`, `DoneAlwaysOnDisk`, `LeftAlwaysMissing`, `OwedAlwaysAsked` and
`RightAlwaysStaysRight`.

`TorrentTurnsProofs`, for any torrents and magnets, however many of them are too large, any number of connections, slots, trackers, rounds and
pieces (`TurnsAssumption`): every invariant of the run `torrent_turns`. A call of the engine goes through several engines before it
leaves one, so the invariant is of an engine and not of a state: `EngineOK` holds of the record the functions of the code pass on. It is

* `SlotOK` of each slot: worked for only with the turn, a port exactly while asked, and with a round left until it has settled;
* `LinkOK` of each connection: closed, left behind, or of the torrent that has the turn, which is then being described or downloaded. While a tracker
  is asked no other is open; that is more than `PeersAreOfTheActive` says, and is needed because no connection is closed when the
  trackers give nothing and the torrent goes back to waiting from there;
* `HashesApart`, and as many ports out as the torrent with the turn is asked for: one or none.

`WorkFor` says what work for one torrent may make of an engine: the other slots stay as they are, and the one keeps its torrent, and its hash
unless that is wiped. Each function of the code has a lemma in those terms (`AskedAgain`, `PeersFilled`, `DescriptionTaken`, ...), chained by
`WorkedOn`, and each call a step lemma: `SliceStep`, `TurnChosen`, `PauseStep`, `RemovalStep`, `AdditionStep`. Between the two halves of a
pause or a removal `EngineOK` does not hold (the torrent still says that it is worked for and has no turn); `Freed` says what holds
there. The theorems are `TypesAlwaysHold`, `AlwaysOneAtATime` and `PeersAlwaysOfTheActive`.

### The service

`TorrentServiceProofs`, for every set of links and queries, every size of the two tables and every `EventsMax`
(`ServiceAssumption`): every property of the run `torrent_service`. None of them is inductive; `IInv` is the conjunction of

* `ListInv`: the types, `LinksFollowSlots`, `MagnetDescriptionStays`, and `BuffersNoted` - a listed
  magnet's buffer is noted beside its link and no other magnet has it. The last is what an add needs: the buffer it picks is
  then no magnet's, although it may be a torrent file's (finding 1).
* `Resumable`: `ListedIsTakenUpAgain`, what the folder holds while it is being read (what is listed and what is left to read), and `Marked`:
  a link whose hash is lost, that leads to no file of its own, or that is listed twice is astray. A removal needs the last, since the file it deletes is
  otherwise that of a row that stays; and it is kept because only a lost hash lets a link in a second time, so both rows' link has gone astray before.
* `MeantIsThere`: whatever a question, a request or a taken request is still meant for is at its slot. A removal moves only
  what is behind it, `RemoveSlot` goes from the back (`NextRemovalIsLast`), and choices at or behind the gap count as moved.
* `SearchInv` and `ChosenInv`: when no search is ahead (`SearchAhead`) the results are of the query and are what was found, and no add is
  taken between `StartSearch` and the end of the search, so that a row chosen then is the row that is added.

Each conjunct has a step lemma (`ListStep`, `RestStep`, `ResumableStep`, `MeantStep`, `SearchStep`) with a case for each action
that can disturb it, over lemmas that say what an add, a removal and a turn of the engine do to the list. The theorems are
`TypeCorrect`, `LinksAlwaysFollow`, `DescriptionsStay`, `ListIsTakenUpAgain`, `ResultsAreOfTheQuery`, `RemovalsHit` and `AddsHit`.

### What the proofs found

Three definitions of the models were wrong where no run had looked, and were put right: of a lost hello and later bytes the other end was taken to
hold one byte too many, because the hello was counted as one; a count of tries already past its limit was let go on (`++resendCount > LIMIT`,
`wg-tcp.c:289,308`, was written as an equality); and the first acknowledgement of a stream could fail to leave without the failure being counted.
Two assumptions were missing that the code makes good: a second ask asks for no more than may be in flight (`torrent-engine.c:29,31`), and the mark for no piece
is not a piece. That `RoomIsToldTruly` holds only under its hypothesis, and `StaysInsideRoom` only with the room of the hello as an exception, was found by their proofs.

### What is only model-checked

Every invariant that a passing run checks is a theorem, and so are the action properties and the two refinements; `RoomIsToldTruly` is a
theorem under the hypothesis named above, which the run satisfies.
Liveness under fairness and `ENABLED` are beyond the prover and stay so: `WrittenGetsThrough` and
`EveryTorrentEnds`.
No module declares a RECURSIVE operator, so each can be proved about.

## What the code does differently from what it says

Each has a run that shows it (named) or follows from the modelled step (unnamed); details and lines are in `PROJECT.json`.

1. `service_descriptions` - the description of a torrent added from a file lies in a buffer that counts as free at once;
   the next add reads over it while the piece hashes still point there.
2. `service_delete` - a torrent deleted from the disk too leaves its content there when it has finished in this run, or
   has not had its turn since the start.
3. `turns_stale_size` - a magnet takes the length of its description from a dead connection of another torrent.
4. `engine_choke` - a peer that choked us and serves us again is not asked again for what it owed.
5. Keys that were replaced just before `REJECT_AFTER_MS` are used for up to 15 s past it.
6. With the list of runs full, the next byte of the stream itself is dropped when it touches none of them.
7. A stream is closed with data unconfirmed and from then on only the goodbye is repeated.
8. The window of the answer to the hello is scaled, although a hello's window is not.
9. A peer that dies while it is being asked keeps the blocks it owed.
10. A window announcement the tunnel refuses is taken as said.
11. A torrent that failed because of its disk can be set waiting for the trackers again in the same call.
12. After some misses on resuming, pieces that are on disk are fetched again.
13. A finished torrent that could not be moved is shown as finished all the same.
14. A description too large leaves its peers connected for the next torrent.
15. A description that cannot be read costs the torrent its trackers, and may cost it the hash it is known by; its link can then be listed
   twice, with one resume file between the two rows.
16. Removals and pauses go by row: when the list has moved, another torrent is hit.
17. Adds go by row: while a search is under way, another result is added; and for a moment before it starts neither flag says so.
18. A resume file that was cut short is taken up under a link of another file name, and does not go with its torrent.

## Not modelled

* Within the modelled files: closing and reopening the tunnel, cookie replies (the client only logs them), the tables of
  streams and UDP sockets and several streams at once, SACK blocks and checksums, the measuring of round trips; in the engine
  the speed and the growth of the number of peers; the datagrams of a tracker's announce; in the service the choice of
  network, the filter of results and the names of resume files (two links with one file name are taken to be one link).
* Ciphers, parsers and packet building: pure functions over bytes. The models take a packet that opens to be one the
  other end sealed.
* `src/apps/cell-stream`, `file-manager`, `renpy-player`, `yo-player`, `thermal-bench`, the plugins, the libraries for
  drawing, video, HTTPS and files: other programs, or firmware and byte formats. `PROJECT.json` says why for each.

The repository is a collection: by lines it is mostly vendored decoders and TLS, file-system drivers and separate
applications, and the downloader with its tunnel is a few thousand lines of it. The map therefore covers a small part
of the whole and most of the state machines of the part it is about.

## Plan

Order of the modules: the most important behaviour first - what protects the traffic, what carries it, what is done with it.

1. `AntiReplay`, `WgReplay`, `WgReplayProofs` - done.
2. `WgTunnel`, `WgTunnelProofs` - done. Next: `closeWgTunnel` and the start again after it; then the two-ended tunnel, with the server as a
   second instance of the client's rules, to say which end still sends under which key.
3. `WgTcpReceive`, `WgTcpSend` - done as two halves, the first shown to implement `ByteStream`. Next: `WgTcpStream`, both
   halves of two ends over one lossy network, with the goodbyes of both sides, implementing the same `ByteStream`.
4. `TorrentPieces` for one torrent and `TorrentTurns` for all - done. Next: `TorrentStorage` (a piece over several files).
5. `TorrentService`, `TorrentServiceProofs` - done. Next: the choice of network and the kill switch.

Theorems worth proving next: the stream without the assumption that it is shorter than half the numbers, which needs histories that forget what
lies a ring behind; with `WgTcpStream`, that the two halves composed implement `ByteStream` (the arrivals of `WgTcpReceive` are then what
`WgTcpSend` sent, by `UnconfirmedIsKept`); and with the two-ended tunnel, that the two ends never seal the same pair, which the
invariant of one end should give, since the keys of the two directions differ.
