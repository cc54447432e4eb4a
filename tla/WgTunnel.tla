------------------------------ MODULE WgTunnel ------------------------------
(***************************************************************************)
(* The tunnel of wg-tunnel.c: one client that connects to a WireGuard      *)
(* server, keeps the session alive and replaces its keys, driven by turns  *)
(* of serviceWgTunnel.  A turn runs the timers, waits for one datagram and *)
(* handles it; between turns the caller sends packets or does other work   *)
(* for as long as it likes.  Datagrams may be lost, repeated and reordered *)
(* by the network, and a send can fail on the console.                     *)
(*                                                                         *)
(* A handshake is a number, newer ones greater, which stands for the       *)
(* indices, keys and TAI64N timestamp made for it; the session it leads to *)
(* carries the same number.  Time is counted in ticks of REKEY_TIMEOUT_MS  *)
(* or less.  A session's replay window is the AntiReplay promise that      *)
(* WgReplay is proved to keep: the set of counters let through.            *)
(***************************************************************************)
EXTENDS Integers, FiniteSets

CONSTANTS
    REKEY_AFTER, REJECT_AFTER, REKEY_TIMEOUT, REKEY_GIVE_UP,
    KEEPALIVE_TIMEOUT, PREVIOUS_SESSION,     \* the code's *_MS, in ticks
    CONFIGURED_KEEPALIVE,                    \* config.keepaliveSeconds, 0 for none
    WINDOW,                                  \* WG_REPLAY_WINDOW
    MaxTime, MaxHandshake, MaxSend, MaxServerData, MaxFail   \* bounds of a run

ASSUME TimingAssumption ==
    /\ {REKEY_AFTER, REJECT_AFTER, REKEY_TIMEOUT, REKEY_GIVE_UP,
        KEEPALIVE_TIMEOUT, PREVIOUS_SESSION, WINDOW} \subseteq Nat \ {0}
    /\ CONFIGURED_KEEPALIVE \in Nat
    /\ REKEY_AFTER < REJECT_AFTER
    /\ REKEY_TIMEOUT <= REKEY_AFTER
    /\ {MaxTime, MaxHandshake, MaxSend, MaxServerData, MaxFail} \subseteq Nat

VARIABLES
    now,              \* the system clock
    phase,            \* "idle": in the caller's hands; "waiting": timers done, at recv
    checkedAt,        \* when the timers last ran
    state,            \* tunnel->state
    session,          \* tunnel->session
    previous,         \* tunnel->previousSession, None when hasPreviousSession is 0
    previousExpires,
    pending,          \* tunnel->pending: whose answer would open
    isRekeying, attempts, initiationSent, lastSent, lastPeerTimestamp,
    handshakes,       \* how many handshakes either side has begun
    toServer, toClient,  \* every datagram ever sent: none leaves, so any may repeat
    serverPending, serverSeen, serverSessions, serverCounter,  \* the far end
    sealed, seals,    \* history: <<session, counter>> pairs used to seal, and uses
    delivered, deliveries,  \* history: the same for packets opened
    spokeAt,          \* history: when the client last put a datagram on the wire
    fails             \* how many sends have failed, bounded by MaxFail

timing == <<now, phase, checkedAt>>
keys == <<session, previous, previousExpires, state>>
handshake == <<pending, isRekeying, attempts, initiationSent>>
network == <<toServer, toClient>>
server == <<serverPending, serverSeen, serverSessions, serverCounter>>
history == <<sealed, seals, delivered, deliveries, spokeAt, fails>>
vars == <<timing, keys, handshake, lastSent, lastPeerTimestamp, handshakes,
          network, server, history>>

None == [id |-> 0]   \* handshakes count from 1
Handshake == 1 .. MaxHandshake

Session(h, time) == [id |-> h, counter |-> 0, received |-> {}, born |-> time]

Initiation(h) == [type |-> "initiation", id |-> h]
Response(h) == [type |-> "response", id |-> h]
Data(h, c) == [type |-> "data", id |-> h, counter |-> c]
-----------------------------------------------------------------------------
(* The client's timers: runTimers, at the start of a turn.                 *)

\* sendWgDatagram: a datagram reaches the wire, or the socket refuses it
Sent == spokeAt' = now /\ UNCHANGED fails
NotSent == fails < MaxFail /\ fails' = fails + 1 /\ UNCHANGED spokeAt

\* what sealing one packet with the current keys leaves behind
Seal ==
    /\ session' = [session EXCEPT !.counter = @ + 1]
    /\ sealed' = sealed \cup {<<session.id, session.counter>>}
    /\ seals' = seals + 1

\* An initiation replaces whatever handshake was in flight.  One that cannot
\* be sent can never be answered, and the turn ends there.
SendInitiation(from, tried) ==
    \/ /\ handshakes < MaxHandshake
       /\ handshakes' = handshakes + 1
       /\ pending' = [id |-> handshakes', fresh |-> TRUE]
       /\ toServer' = toServer \cup {Initiation(handshakes')}
       /\ initiationSent' = now
       /\ attempts' = tried + 1
       /\ state' = IF from = "DOWN" THEN "CONNECTING" ELSE from
       /\ Sent
       /\ phase' = "waiting"
    \/ /\ \/ NotSent
          \/ handshakes = MaxHandshake /\ UNCHANGED <<spokeAt, fails>>
       /\ pending' = None
       /\ state' = from
       /\ attempts' = tried
       /\ phase' = "idle"
       /\ UNCHANGED <<handshakes, toServer, initiationSent>>

Expired == state = "UP" /\ now - session.born >= REJECT_AFTER
StateNow == IF Expired THEN "DOWN" ELSE state
InFlight == StateNow = "CONNECTING" \/ isRekeying
ResendDue == InFlight /\ now - initiationSent >= REKEY_TIMEOUT
GivingUp == attempts * REKEY_TIMEOUT >= REKEY_GIVE_UP
\* (mutant) the rekey is timed from the last packet rather than the session
RekeyWhenQuiet == ~isRekeying /\ now - lastSent >= REKEY_AFTER
RekeyDue == ~isRekeying /\ now - session.born >= REKEY_AFTER

\* (mutant) the provider's interval is used as it comes
KeepaliveAsConfigured ==
    IF CONFIGURED_KEEPALIVE = 0 THEN KEEPALIVE_TIMEOUT ELSE CONFIGURED_KEEPALIVE

\* the configured interval may only make it shorter
KeepaliveInterval ==
    IF CONFIGURED_KEEPALIVE \in 1 .. KEEPALIVE_TIMEOUT
    THEN CONFIGURED_KEEPALIVE ELSE KEEPALIVE_TIMEOUT

ExpiredKeysKept == session   \* (mutant) the keys of an expired session stay
KeysNow == IF Expired THEN None ELSE session

Reconnect ==
    /\ StateNow = "DOWN"
    /\ SendInitiation("DOWN", attempts)
    /\ session' = KeysNow
    /\ UNCHANGED <<isRekeying, lastSent, sealed, seals>>

Resend ==
    /\ StateNow # "DOWN" /\ ResendDue
    /\ IF GivingUp
       THEN /\ SendInitiation("DOWN", 0)
            /\ session' = None
            /\ isRekeying' = FALSE
       ELSE /\ SendInitiation(state, attempts)
            /\ UNCHANGED <<session, isRekeying>>
    /\ UNCHANGED <<lastSent, sealed, seals>>

StartRekey ==
    /\ StateNow = "UP" /\ ~ResendDue /\ RekeyDue
    /\ isRekeying' = TRUE
    /\ SendInitiation("UP", 0)
    /\ UNCHANGED <<session, lastSent, sealed, seals>>

\* The counter moves on even when the datagram cannot be sent.
Keepalive ==
    /\ StateNow = "UP" /\ ~ResendDue /\ ~RekeyDue
    /\ now - lastSent >= KeepaliveInterval
    /\ Seal
    /\ \/ Sent /\ lastSent' = now /\ phase' = "waiting"
       \/ NotSent /\ phase' = "idle" /\ UNCHANGED lastSent
    /\ UNCHANGED <<state, pending, isRekeying, attempts, initiationSent,
                   handshakes, toServer>>

NothingDue ==
    /\ StateNow # "DOWN" /\ ~ResendDue
    /\ StateNow = "UP" => ~RekeyDue /\ now - lastSent < KeepaliveInterval
    /\ phase' = "waiting"
    /\ UNCHANGED <<state, session, handshake, lastSent, handshakes, toServer,
                   sealed, seals, spokeAt, fails>>

RunTimers ==
    /\ phase = "idle"
    /\ checkedAt' = now
    /\ previous' = IF now >= previousExpires THEN None ELSE previous
    /\ Reconnect \/ Resend \/ StartRekey \/ Keepalive \/ NothingDue
    /\ UNCHANGED <<now, previousExpires, lastPeerTimestamp, toClient, server,
                   delivered, deliveries>>
-----------------------------------------------------------------------------
(* What arrived: the second half of serviceWgTunnel.                       *)

ReplacedEmptied == [session EXCEPT !.received = {}]   \* (mutant) a new window
Replaced == session

GraceTooLong == REJECT_AFTER   \* (mutant)
Grace == PREVIOUS_SESSION

StillRekeying == isRekeying    \* (mutant) the mark outlives the answer
RekeyingOnceAdopted == FALSE

\* The session an answer leads to becomes the current one, and the one it
\* replaces still opens what is in flight under it for a while.
adoptHandshake(h) ==
    /\ IF state = "UP"
       THEN previous' = Replaced /\ previousExpires' = now + Grace
       ELSE UNCHANGED <<previous, previousExpires>>
    /\ session' = Session(h, now)
    /\ state' = "UP"
    /\ isRekeying' = RekeyingOnceAdopted
    /\ attempts' = 0
    /\ lastSent' = now

\* (mutant) an answer is taken for as long as the handshake is remembered
OpensAgain(h) == pending.id = h

\* processWgResponse mixes the answer into the handshake, so what it leaves
\* there opens no second answer.
Opens(h) == pending.id = h /\ pending.fresh

TakeResponse(h) ==
    /\ Response(h) \in toClient
    /\ IF Opens(h)
       THEN /\ pending' = [id |-> h, fresh |-> FALSE]
            /\ adoptHandshake(h)
       ELSE UNCHANGED <<keys, handshake, lastSent>>
    /\ UNCHANGED <<initiationSent, lastPeerTimestamp, toServer, sealed, seals,
                   delivered, deliveries, spokeAt, fails>>

\* processWgInitiation lets through a timestamp later than the last one only.
IsNews(h) == h > lastPeerTimestamp

\* The server starts one of its own: answered if its timestamp is news.  The
\* timestamp is noted even when the answer then cannot be sent.
TakeInitiation(h) ==
    /\ Initiation(h) \in toClient
    /\ \/ /\ IsNews(h)
          /\ lastPeerTimestamp' = h
          /\ \/ /\ toServer' = toServer \cup {Response(h)}
                /\ pending' = [id |-> h, fresh |-> FALSE]
                /\ adoptHandshake(h)
                /\ Sent
             \/ NotSent /\ UNCHANGED <<toServer, keys, handshake, lastSent>>
       \/ /\ ~IsNews(h)
          /\ UNCHANGED <<lastPeerTimestamp, toServer, keys, handshake, lastSent,
                         spokeAt, fails>>
    /\ UNCHANGED <<initiationSent, sealed, seals, delivered, deliveries>>

Fresh(s, c) == c \notin s.received /\ \A a \in s.received : a - c < WINDOW
Received(s, c) == [s EXCEPT !.received = @ \cup {c}]

\* Which keys a packet under h would be opened with.
OpensWithSession(h) == state = "UP" /\ h = session.id
OpensWithPrevious(h) == state = "UP" /\ h # session.id /\ previous # None /\ h = previous.id

Deliver(h, c) ==
    /\ delivered' = delivered \cup {<<h, c>>}
    /\ deliveries' = deliveries + 1

TakeData(h, c) ==
    /\ Data(h, c) \in toClient
    /\ \/ /\ OpensWithSession(h) /\ Fresh(session, c)
          /\ Deliver(h, c)
          /\ session' = Received(session, c)
          /\ UNCHANGED previous
       \/ /\ OpensWithPrevious(h) /\ Fresh(previous, c)
          /\ Deliver(h, c)
          /\ previous' = Received(previous, c)
          /\ UNCHANGED session
       \/ /\ OpensWithSession(h) => ~Fresh(session, c)
          /\ OpensWithPrevious(h) => ~Fresh(previous, c)
          /\ UNCHANGED <<session, previous, delivered, deliveries>>
    /\ UNCHANGED <<state, previousExpires, handshake, lastSent, lastPeerTimestamp,
                   toServer, sealed, seals, spokeAt, fails>>

\* A ping is answered from inside the turn with the current keys, whichever
\* keys it came under.
TakePing(h, c) ==
    /\ Data(h, c) \in toClient
    /\ seals < MaxSend
    /\ LET bySession == OpensWithSession(h) /\ Fresh(session, c)
           byPrevious == OpensWithPrevious(h) /\ Fresh(previous, c)
           counted == [session EXCEPT !.counter = @ + 1]
       IN  /\ bySession \/ byPrevious
           /\ session' = IF bySession THEN Received(counted, c) ELSE counted
           /\ previous' = IF byPrevious THEN Received(previous, c) ELSE previous
    /\ Deliver(h, c)
    /\ sealed' = sealed \cup {<<session.id, session.counter>>}
    /\ seals' = seals + 1
    /\ \/ Sent /\ lastSent' = now
       \/ NotSent /\ UNCHANGED lastSent
    /\ UNCHANGED <<state, previousExpires, handshake, lastPeerTimestamp, toServer>>

TakeNothing ==
    UNCHANGED <<keys, handshake, lastSent, lastPeerTimestamp, toServer, sealed,
                seals, delivered, deliveries, spokeAt, fails>>

Receive ==
    /\ phase = "waiting"
    /\ phase' = "idle"
    /\ \/ TakeNothing
       \/ \E h \in Handshake : TakeResponse(h) \/ TakeInitiation(h)
       \/ \E h \in Handshake, c \in 0 .. MaxServerData - 1 : TakeData(h, c) \/ TakePing(h, c)
    /\ UNCHANGED <<now, checkedAt, handshakes, toClient, server>>
-----------------------------------------------------------------------------
(* The caller, the clock and the far end.                                  *)

\* sendThroughWgTunnel, called by whatever has a packet to send
SendPacket ==
    /\ phase = "idle" /\ state = "UP" /\ seals < MaxSend
    /\ Seal
    /\ \/ Sent /\ lastSent' = now
       \/ NotSent /\ UNCHANGED lastSent
    /\ UNCHANGED <<timing, state, previous, previousExpires, handshake,
                   lastPeerTimestamp, handshakes, network, server, delivered, deliveries>>

\* The caller may be busy for any time; a wait for a datagram is shorter
\* than a tick, so at most one boundary falls within it.
Tick ==
    /\ now < MaxTime
    /\ phase = "waiting" => now = checkedAt
    /\ now' = now + 1
    /\ UNCHANGED <<phase, checkedAt, keys, handshake, lastSent, lastPeerTimestamp,
                   handshakes, network, server, history>>

\* The server is not part of this code: it may start a handshake whenever it
\* likes, answers each initiation newer than the last, holds the keys of every
\* handshake it saw completed and sends under any of them.
ServerInitiate ==
    /\ handshakes < MaxHandshake
    /\ handshakes' = handshakes + 1
    /\ serverPending' = handshakes'
    /\ toClient' = toClient \cup {Initiation(handshakes')}
    /\ UNCHANGED <<timing, keys, handshake, lastSent, lastPeerTimestamp, toServer,
                   serverSeen, serverSessions, serverCounter, history>>

ServerAnswer(h) ==
    /\ Initiation(h) \in toServer /\ h > serverSeen
    /\ serverSeen' = h
    /\ serverSessions' = serverSessions \cup {h}
    /\ toClient' = toClient \cup {Response(h)}
    /\ UNCHANGED <<timing, keys, handshake, lastSent, lastPeerTimestamp, handshakes,
                   toServer, serverPending, serverCounter, history>>

ServerConfirm(h) ==
    /\ Response(h) \in toServer /\ serverPending = h
    /\ serverPending' = 0
    /\ serverSessions' = serverSessions \cup {h}
    /\ UNCHANGED <<timing, keys, handshake, lastSent, lastPeerTimestamp, handshakes,
                   network, serverSeen, serverCounter, history>>

ServerSend(h) ==
    /\ h \in serverSessions /\ serverCounter[h] < MaxServerData
    /\ serverCounter' = [serverCounter EXCEPT ![h] = @ + 1]
    /\ toClient' = toClient \cup {Data(h, serverCounter[h])}
    /\ UNCHANGED <<timing, keys, handshake, lastSent, lastPeerTimestamp, handshakes,
                   toServer, serverPending, serverSeen, serverSessions, history>>

Server ==
    \/ ServerInitiate
    \/ \E h \in Handshake : ServerAnswer(h) \/ ServerConfirm(h) \/ ServerSend(h)

\* openWgTunnel: everything zeroed, the tunnel down
Init ==
    /\ now = 0 /\ phase = "idle" /\ checkedAt = 0
    /\ state = "DOWN" /\ session = None /\ previous = None /\ previousExpires = 0
    /\ pending = None /\ isRekeying = FALSE /\ attempts = 0 /\ initiationSent = 0
    /\ lastSent = 0 /\ lastPeerTimestamp = 0 /\ handshakes = 0
    /\ toServer = {} /\ toClient = {}
    /\ serverPending = 0 /\ serverSeen = 0 /\ serverSessions = {}
    /\ serverCounter = [h \in Handshake |-> 0]
    /\ sealed = {} /\ seals = 0 /\ delivered = {} /\ deliveries = 0 /\ spokeAt = 0
    /\ fails = 0

Next == RunTimers \/ Receive \/ SendPacket \/ Tick \/ Server

Spec == Init /\ [][Next]_vars
-----------------------------------------------------------------------------
SessionType ==
    {None} \cup [id : Handshake, counter : Nat, received : SUBSET Nat, born : Nat]
PendingType == {None} \cup [id : Handshake, fresh : BOOLEAN]

\* There are keys in memory exactly while the tunnel is up, and the attempts
\* stay bounded although an expiry in the middle of a rekey carries them on.
TypeOK ==
    /\ now \in 0 .. MaxTime /\ checkedAt \in 0 .. now
    /\ phase \in {"idle", "waiting"} /\ state \in {"DOWN", "CONNECTING", "UP"}
    /\ session \in SessionType /\ previous \in SessionType
    /\ pending \in PendingType
    /\ state = "UP" <=> session # None
    /\ attempts \in Nat /\ attempts * REKEY_TIMEOUT < REKEY_GIVE_UP + 2 * REKEY_TIMEOUT
    /\ previousExpires \in Nat /\ isRekeying \in BOOLEAN
    /\ {initiationSent, lastSent, spokeAt} \subseteq 0 .. now
    /\ {handshakes, lastPeerTimestamp, serverPending, serverSeen}
         \subseteq 0 .. MaxHandshake
    /\ serverSessions \subseteq Handshake

(***************************************************************************)
(* No key ever meets the same counter twice: whatever answers the network  *)
(* repeats and however often the keys are replaced, startWgSession never   *)
(* restarts the send counter under keys that have sealed before.           *)
(***************************************************************************)
NonceNeverReused == seals = Cardinality(sealed)

(***************************************************************************)
(* No packet from the server is handed up twice, even when the copies      *)
(* arrive on either side of a key change: the window travels with the keys *)
(* it belongs to when they become the previous session.                    *)
(***************************************************************************)
NeverDeliveredTwice == deliveries = Cardinality(delivered)

(***************************************************************************)
(* README, "Never be silent for more than ten seconds": once the timers    *)
(* have run on a live session, the client last put something on the wire   *)
(* at most a keepalive interval and one handshake attempt ago - adopting   *)
(* an answer restarts the interval without anything being sent - whatever  *)
(* the provider's configured interval and however late the turn.           *)
(***************************************************************************)
SilenceBounded ==
    phase = "waiting" /\ now = checkedAt /\ state = "UP"
      => now - spokeAt < KEEPALIVE_TIMEOUT + REKEY_TIMEOUT

(***************************************************************************)
(* Every key the client would still open a packet with, once the timers    *)
(* have run, is younger than the rejection age plus the grace its          *)
(* successor gave it.                                                      *)
(***************************************************************************)
KeysAgeOut ==
    phase = "waiting" /\ now = checkedAt /\ state = "UP" =>
        /\ now - session.born < REJECT_AFTER
        /\ previous # None =>
              now - previous.born < REJECT_AFTER + PREVIOUS_SESSION

(***************************************************************************)
(* Once the timers have run at or past the rekey age, a replacement is     *)
(* under way: a session is never left to run into its rejection age with   *)
(* nobody asking for the next one, whatever failed to send.                *)
(***************************************************************************)
RekeyStartsInTime ==
    state = "UP" /\ checkedAt - session.born >= REKEY_AFTER => isRekeying

(***************************************************************************)
(* The client never waits for an answer that cannot come: while it holds a *)
(* handshake to be in flight, the pending one is unanswered (or was never  *)
(* sent), whichever side's handshakes crossed in between.                  *)
(***************************************************************************)
WaitsForAnAnswer ==
    state = "CONNECTING" \/ isRekeying => pending = None \/ pending.fresh
=============================================================================
