--------------------------- MODULE WgTunnelProofs ---------------------------
(***************************************************************************)
(* For every timing and every number of handshakes, packets and failed     *)
(* sends: the tunnel's state is well formed and no counter ever meets a    *)
(* key twice; what the tunnel hands up, it hands up once; its keys age out *)
(* and are replaced in time; it never waits in vain and is never silent    *)
(* long.                                                                   *)
(***************************************************************************)
EXTENDS WgTunnel, FiniteSetTheorems, TLAPS

LEMMA Constants ==
  /\ REKEY_TIMEOUT \in Nat \ {0} /\ REKEY_GIVE_UP \in Nat \ {0}
  /\ REJECT_AFTER \in Nat /\ PREVIOUS_SESSION \in Nat
  /\ MaxTime \in Nat /\ MaxHandshake \in Nat
BY TimingAssumption

\* What the wait for an answer may cost, whatever becomes of the initiation.
Bounded(tries) == tries \in Nat /\ tries * REKEY_TIMEOUT < REKEY_GIVE_UP + REKEY_TIMEOUT

\* The attempts are one fewer wherever another may be added to them.
AttemptsLeft == state # "CONNECTING" => Bounded(attempts)

TypeInv == TypeOK /\ AttemptsLeft

LEMMA OneMore ==
  ASSUME NEW tries, Bounded(tries)
  PROVE  /\ tries + 1 \in Nat
         /\ (tries + 1) * REKEY_TIMEOUT < REKEY_GIVE_UP + 2 * REKEY_TIMEOUT
         /\ tries * REKEY_TIMEOUT < REKEY_GIVE_UP + 2 * REKEY_TIMEOUT
BY Constants DEF Bounded

LEMMA OneMoreInTime ==
  ASSUME NEW tries \in Nat, ~(tries * REKEY_TIMEOUT >= REKEY_GIVE_UP)
  PROVE  Bounded(tries) /\ Bounded(tries + 1)
BY Constants DEF Bounded

LEMMA NoneTried == Bounded(0) /\ Bounded(1)
<1>1. 0 * REKEY_TIMEOUT = 0 /\ 1 * REKEY_TIMEOUT = REKEY_TIMEOUT
  BY Constants
<1>2. QED
  BY <1>1, Constants DEF Bounded

LEMMA InitType == Init => TypeInv
<1> SUFFICES ASSUME Init PROVE TypeInv
  OBVIOUS
<1>1. TypeOK
  <2>1. /\ now \in 0 .. MaxTime /\ checkedAt \in 0 .. now
        /\ {initiationSent, lastSent, spokeAt} \subseteq 0 .. now
        /\ {handshakes, lastPeerTimestamp, serverPending, serverSeen}
             \subseteq 0 .. MaxHandshake
    BY Constants DEF Init
  <2>2. attempts \in Nat /\ attempts * REKEY_TIMEOUT < REKEY_GIVE_UP + 2 * REKEY_TIMEOUT
    BY NoneTried, OneMore DEF Init
  <2>3. session \in SessionType /\ previous \in SessionType /\ pending \in PendingType
    BY DEF Init, SessionType, PendingType
  <2>4. QED
    BY <2>1, <2>2, <2>3 DEF Init, TypeOK
<1>2. AttemptsLeft
  BY NoneTried DEF Init, AttemptsLeft
<1>3. QED
  BY <1>1, <1>2 DEF TypeInv

LEMMA SendInitiationType ==
  ASSUME TypeOK, NEW from \in {"DOWN", "CONNECTING", "UP"}, NEW tried,
         SendInitiation(from, tried)
  PROVE  /\ phase' \in {"idle", "waiting"}
         /\ pending' \in PendingType
         /\ handshakes' \in 0 .. MaxHandshake
         /\ initiationSent' \in {now, initiationSent}
         /\ spokeAt' \in {now, spokeAt}
         /\ \/ attempts' = tried /\ state' = from
            \/ /\ attempts' = tried + 1
               /\ state' = IF from = "DOWN" THEN "CONNECTING" ELSE from
<1> USE Constants DEF TypeOK
<1>1. CASE handshakes < MaxHandshake /\ handshakes' = handshakes + 1
           /\ pending' = [id |-> handshakes', fresh |-> TRUE]
           /\ attempts' = tried + 1 /\ Sent /\ phase' = "waiting" /\ initiationSent' = now
           /\ state' = IF from = "DOWN" THEN "CONNECTING" ELSE from
  <2>1. handshakes' \in Handshake
    BY <1>1 DEF Handshake
  <2>2. pending' \in PendingType
    BY <1>1, <2>1 DEF PendingType
  <2>3. QED
    BY <1>1, <2>1, <2>2 DEF Sent, Handshake
<1>2. CASE (NotSent \/ UNCHANGED spokeAt) /\ pending' = None /\ state' = from
           /\ attempts' = tried /\ phase' = "idle" /\ UNCHANGED <<handshakes, initiationSent>>
  BY <1>2 DEF NotSent, PendingType
<1>3. QED
  BY <1>1, <1>2 DEF SendInitiation

\* What a session that is there looks like, and what using it leaves it.
LEMMA Live ==
  ASSUME NEW s \in SessionType, s # None
  PROVE  s \in [id : Handshake, counter : Nat, received : SUBSET Nat, born : Nat]
BY DEF SessionType

LEMMA SessionsAreLive ==
  ASSUME NEW s \in [id : Handshake, counter : Nat, received : SUBSET Nat, born : Nat]
  PROVE  s \in SessionType /\ s # None /\ s.id \in Handshake
<1>1. s.id # None.id
  BY Constants DEF Handshake, None
<1>2. QED
  BY <1>1 DEF SessionType

LEMMA Counted ==
  ASSUME NEW s \in [id : Handshake, counter : Nat, received : SUBSET Nat, born : Nat]
  PROVE  [s EXCEPT !.counter = @ + 1]
           \in [id : Handshake, counter : Nat, received : SUBSET Nat, born : Nat]
OBVIOUS

LEMMA ReceivedType ==
  ASSUME NEW s \in [id : Handshake, counter : Nat, received : SUBSET Nat, born : Nat],
         NEW c \in Nat
  PROVE  Received(s, c)
           \in [id : Handshake, counter : Nat, received : SUBSET Nat, born : Nat]
<1>1. s.received \cup {c} \in SUBSET Nat
  OBVIOUS
<1>2. QED
  BY <1>1 DEF Received

\* One call of runTimers keeps the types.
LEMMA TimersType == TypeInv /\ RunTimers => TypeInv'
<1> SUFFICES ASSUME TypeInv, RunTimers PROVE TypeInv'
  OBVIOUS
<1> USE Constants
<1>0. /\ TypeOK /\ AttemptsLeft
      /\ now' = now /\ checkedAt' = now /\ previous' \in SessionType
      /\ UNCHANGED <<previousExpires, lastPeerTimestamp, server>>
  <2>1. previous' \in SessionType
    BY DEF TypeInv, TypeOK, RunTimers, SessionType
  <2>2. QED
    BY <2>1 DEF TypeInv, RunTimers
<1> DEFINE Rest == /\ phase' \in {"idle", "waiting"}
                   /\ pending' \in PendingType
                   /\ handshakes' \in 0 .. MaxHandshake
                   /\ initiationSent' \in {now, initiationSent}
                   /\ spokeAt' \in {now, spokeAt}
           Keys == /\ state' \in {"DOWN", "CONNECTING", "UP"}
                   /\ session' \in SessionType /\ (state' = "UP" <=> session' # None)
           Tries == /\ attempts' \in Nat
                    /\ attempts' * REKEY_TIMEOUT < REKEY_GIVE_UP + 2 * REKEY_TIMEOUT
                    /\ state' # "CONNECTING" => Bounded(attempts')
           Sending == lastSent' \in {now, lastSent} /\ isRekeying' \in BOOLEAN
<1>1. Rest /\ Keys /\ Tries /\ Sending => TypeInv'
  <2> SUFFICES ASSUME Rest, Keys, Tries, Sending PROVE TypeInv'
    OBVIOUS
  <2>1. /\ {initiationSent', lastSent', spokeAt'} \subseteq 0 .. now'
        /\ {handshakes', lastPeerTimestamp', serverPending', serverSeen'}
             \subseteq 0 .. MaxHandshake
        /\ now' \in 0 .. MaxTime /\ checkedAt' \in 0 .. now'
    BY <1>0 DEF TypeOK, server
  <2> HIDE DEF Rest, Keys, Tries, Sending
  <2>4. TypeOK'
    BY <1>0, <2>1 DEF TypeOK, server, Rest, Keys, Tries, Sending
  <2>2. AttemptsLeft'
    BY DEF AttemptsLeft, Bounded, Tries
  <2>3. QED
    BY <2>2, <2>4 DEF TypeInv
<1>9. Bounded(attempts') => Tries
  <2> SUFFICES ASSUME Bounded(attempts') PROVE Tries
    OBVIOUS
  <2>1. attempts' \in Nat
    BY DEF Bounded
  <2>2. attempts' * REKEY_TIMEOUT < REKEY_GIVE_UP + 2 * REKEY_TIMEOUT
    BY OneMore
  <2>3. QED
    BY <2>1, <2>2
<1>2. CASE Reconnect
  <2>1. SendInitiation("DOWN", attempts) /\ state # "CONNECTING" /\ Sending
    BY <1>0, <1>2 DEF Reconnect, StateNow, Expired, TypeOK
  <2>2. Bounded(attempts)
    BY <1>0, <2>1 DEF AttemptsLeft
  <2>3. Rest /\ \/ attempts' = attempts /\ state' = "DOWN"
                \/ attempts' = attempts + 1 /\ state' = "CONNECTING"
    BY <1>0, <2>1, SendInitiationType
  <2>4. Tries
    BY <2>2, <2>3, OneMore DEF Bounded
  <2>5. session' = None
    BY <1>0, <1>2 DEF Reconnect, KeysNow, StateNow, TypeOK
  <2>6. Keys
    BY <2>3, <2>5 DEF SessionType
  <2>7. QED
    BY <1>1, <2>1, <2>3, <2>4, <2>6
<1>3. CASE Resend /\ GivingUp
  <2>1. SendInitiation("DOWN", 0) /\ session' = None /\ Sending
    BY <1>0, <1>3 DEF Resend
  <2>2. Rest /\ \/ attempts' = 0 /\ state' = "DOWN"
                \/ attempts' = 0 + 1 /\ state' = "CONNECTING"
    BY <1>0, <2>1, SendInitiationType
  <2>3. Tries
    BY <2>2, NoneTried, OneMore
  <2>4. Keys
    BY <2>1, <2>2 DEF SessionType
  <2>5. QED
    BY <1>1, <2>1, <2>2, <2>3, <2>4
<1>4. CASE Resend /\ ~GivingUp
  <2>1. SendInitiation(state, attempts) /\ session' = session /\ Sending /\ state # "DOWN"
    BY <1>0, <1>4 DEF Resend, StateNow, TypeOK
  <2>2. state \in {"DOWN", "CONNECTING", "UP"} /\ attempts \in Nat
    BY <1>0 DEF TypeOK
  <2>3. Rest /\ state' = state /\ attempts' \in {attempts, attempts + 1}
    BY <1>0, <2>1, <2>2, SendInitiationType
  <2>4. Bounded(attempts) /\ Bounded(attempts + 1)
    BY <1>4, <2>2, OneMoreInTime DEF GivingUp
  <2>5. Tries
    BY <1>9, <2>3, <2>4
  <2>6. Keys
    BY <1>0, <2>1, <2>3 DEF TypeOK
  <2>7. QED
    BY <1>1, <2>1, <2>3, <2>5, <2>6
<1>5. CASE StartRekey
  <2>1. SendInitiation("UP", 0) /\ session' = session /\ Sending /\ state = "UP"
    BY <1>0, <1>5 DEF StartRekey, StateNow, TypeOK
  <2>2. Rest /\ state' = "UP" /\ attempts' \in {0, 0 + 1}
    BY <1>0, <2>1, SendInitiationType
  <2>6. attempts' \in {0, 1}
    BY <2>2
  <2>3. Tries
    BY <1>9, <2>6, NoneTried
  <2>4. Keys
    BY <1>0, <2>1, <2>2 DEF TypeOK
  <2>5. QED
    BY <1>1, <2>1, <2>2, <2>3, <2>4
<1>6. CASE Keepalive
  <2>1. state = "UP" /\ state' = "UP" /\ session # None /\ Sending /\ Rest
    BY <1>0, <1>6 DEF Keepalive, StateNow, TypeOK, Sent, NotSent
  <2>2. session' \in SessionType /\ session' # None
    BY <1>0, <1>6, <2>1, Live, Counted, SessionsAreLive DEF Keepalive, Seal, TypeOK
  <2>3. Tries
    BY <1>0, <1>6 DEF Keepalive, TypeOK, AttemptsLeft
  <2>4. QED
    BY <1>1, <2>1, <2>2, <2>3
<1>7. CASE NothingDue
  <2>1. Rest /\ Keys /\ Sending
    BY <1>0, <1>7 DEF NothingDue, TypeOK, handshake
  <2>2. Tries
    BY <1>0, <1>7 DEF NothingDue, TypeOK, AttemptsLeft, handshake
  <2>3. QED
    BY <1>1, <2>1, <2>2
<1>8. QED
  BY <1>2, <1>3, <1>4, <1>5, <1>6, <1>7 DEF RunTimers

\* An adopted handshake leaves a live session and a well-formed previous one.
LEMMA AdoptType ==
  ASSUME TypeInv, NEW h \in Handshake, adoptHandshake(h), now' = now
  PROVE  /\ session' \in SessionType /\ session' # None /\ state' = "UP"
         /\ previous' \in SessionType /\ previousExpires' \in Nat
         /\ isRekeying' \in BOOLEAN /\ attempts' = 0 /\ lastSent' \in 0 .. now'
<1> USE Constants DEF TypeInv, TypeOK
<1>1. Session(h, now) \in [id : Handshake, counter : Nat, received : SUBSET Nat, born : Nat]
  BY DEF Session
<1>2. session' \in SessionType /\ session' # None /\ state' = "UP"
  BY <1>1, SessionsAreLive DEF adoptHandshake
<1>3. previous' \in SessionType /\ previousExpires' \in Nat
  BY DEF adoptHandshake, Replaced, Grace
<1>4. isRekeying' \in BOOLEAN /\ attempts' = 0 /\ lastSent' \in 0 .. now'
  <2>1. isRekeying' \in BOOLEAN
    BY Zenon DEF adoptHandshake, RekeyingOnceAdopted
  <2>2. attempts' = 0 /\ lastSent' = now
    BY DEF adoptHandshake
  <2>3. now \in 0 .. now'
    OBVIOUS
  <2>4. QED
    BY <2>1, <2>2, <2>3
<1>5. QED
  BY <1>2, <1>3, <1>4

\* Handling one datagram keeps the types.
LEMMA ReceiveTypes == TypeInv /\ Receive => TypeInv'
<1> SUFFICES ASSUME TypeInv, Receive PROVE TypeInv'
  OBVIOUS
<1> USE Constants
<1>0. /\ TypeOK /\ AttemptsLeft /\ phase' = "idle"
      /\ UNCHANGED <<now, checkedAt, handshakes, toClient, server>>
  BY DEF TypeInv, Receive
<1> DEFINE Keys == /\ session' \in SessionType /\ previous' \in SessionType
                   /\ state' \in {"DOWN", "CONNECTING", "UP"}
                   /\ (state' = "UP" <=> session' # None)
                   /\ previousExpires' \in Nat
           Tries == \/ attempts' = 0
                    \/ attempts' = attempts /\ state' = state
           Rest == /\ pending' \in PendingType /\ isRekeying' \in BOOLEAN
                   /\ {initiationSent', lastSent', spokeAt'} \subseteq 0 .. now
                   /\ lastPeerTimestamp' \in 0 .. MaxHandshake
<1>1. Keys /\ Tries /\ Rest => TypeInv'
  <2> SUFFICES ASSUME Keys, Tries, Rest PROVE TypeInv'
    OBVIOUS
  <2>1. /\ attempts' \in Nat
        /\ attempts' * REKEY_TIMEOUT < REKEY_GIVE_UP + 2 * REKEY_TIMEOUT
        /\ AttemptsLeft'
    <3>1. CASE attempts' = 0
      BY <3>1, NoneTried, OneMore DEF AttemptsLeft
    <3>2. CASE attempts' = attempts /\ state' = state
      BY <1>0, <3>2 DEF TypeOK, AttemptsLeft
    <3>3. QED
      BY <3>1, <3>2
  <2>2. /\ {initiationSent', lastSent', spokeAt'} \subseteq 0 .. now'
        /\ {handshakes', lastPeerTimestamp', serverPending', serverSeen'}
             \subseteq 0 .. MaxHandshake
        /\ now' \in 0 .. MaxTime /\ checkedAt' \in 0 .. now'
        /\ serverSessions' \subseteq Handshake
    BY <1>0 DEF TypeOK, server
  <2>3. pending' \in PendingType /\ isRekeying' \in BOOLEAN
    OBVIOUS
  <2> HIDE DEF Rest, Tries
  <2>4. TypeOK'
    BY <1>0, <2>1, <2>2, <2>3 DEF TypeOK
  <2>5. QED
    BY <2>1, <2>4 DEF TypeInv
<1>2. CASE TakeNothing
  BY <1>0, <1>1, <1>2 DEF TakeNothing, TypeOK, keys, handshake
<1>3. ASSUME NEW h \in Handshake, TakeResponse(h) PROVE TypeInv'
  <2>1. CASE Opens(h)
    <3>5. pending' = [id |-> h, fresh |-> FALSE] /\ adoptHandshake(h)
      BY <1>3, <2>1, Zenon DEF TakeResponse
    <3>1. pending' \in PendingType /\ adoptHandshake(h)
      BY <3>5 DEF PendingType
    <3>2. Keys /\ Tries
      BY <1>0, <3>1, AdoptType
    <3>3. Rest
      BY <1>0, <1>3, <3>1, AdoptType DEF TakeResponse, TypeOK
    <3>4. QED
      BY <1>1, <3>2, <3>3
  <2>2. CASE ~Opens(h)
    BY <1>0, <1>1, <1>3, <2>2 DEF TakeResponse, TypeOK, keys, handshake
  <2>3. QED
    BY <2>1, <2>2
<1>4. ASSUME NEW h \in Handshake, TakeInitiation(h) PROVE TypeInv'
  <2>1. /\ lastPeerTimestamp' \in 0 .. MaxHandshake /\ initiationSent' = initiationSent
        /\ spokeAt' \in {now, spokeAt}
    BY <1>0, <1>4 DEF TakeInitiation, TypeOK, Handshake, Sent, NotSent
  <2>2. CASE pending' = [id |-> h, fresh |-> FALSE] /\ adoptHandshake(h)
    <3>1. Keys /\ Tries
      BY <1>0, <2>2, AdoptType
    <3>2. Rest
      BY <1>0, <2>1, <2>2, AdoptType DEF TypeOK, PendingType
    <3>3. QED
      BY <1>1, <3>1, <3>2
  <2>3. CASE UNCHANGED <<keys, handshake, lastSent>>
    BY <1>0, <1>1, <2>1, <2>3 DEF TypeOK, keys, handshake
  <2>4. QED
    BY <1>4, <2>2, <2>3 DEF TakeInitiation
<1>5. ASSUME NEW h \in Handshake, NEW c \in 0 .. MaxServerData - 1, TakeData(h, c)
      PROVE  TypeInv'
  <2>1. c \in Nat
    OBVIOUS
  <2>2. session' \in SessionType /\ previous' \in SessionType /\ (session' # None <=> session # None)
    <3>1. CASE OpensWithSession(h) /\ session' = Received(session, c) /\ UNCHANGED previous
      BY <1>0, <2>1, <3>1, Live, ReceivedType, SessionsAreLive DEF OpensWithSession, TypeOK
    <3>2. CASE OpensWithPrevious(h) /\ previous' = Received(previous, c) /\ UNCHANGED session
      BY <1>0, <2>1, <3>2, Live, ReceivedType, SessionsAreLive DEF OpensWithPrevious, TypeOK
    <3>3. CASE UNCHANGED <<session, previous>>
      BY <1>0, <3>3 DEF TypeOK
    <3>4. QED
      BY <1>5, <3>1, <3>2, <3>3 DEF TakeData
  <2>3. QED
    BY <1>0, <1>1, <1>5, <2>2 DEF TakeData, TypeOK, handshake
<1>6. ASSUME NEW h \in Handshake, NEW c \in 0 .. MaxServerData - 1, TakePing(h, c)
      PROVE  TypeInv'
  <2>1. c \in Nat
    OBVIOUS
  <2> DEFINE counted == [session EXCEPT !.counter = @ + 1]
  <2>2. OpensWithSession(h) \/ OpensWithPrevious(h)
    BY <1>6 DEF TakePing
  <2>3. state = "UP" /\ session # None
    BY <1>0, <2>2 DEF OpensWithSession, OpensWithPrevious, TypeOK
  <2>4. counted \in [id : Handshake, counter : Nat, received : SUBSET Nat, born : Nat]
    BY <1>0, <2>3, Live, Counted DEF TypeOK
  <2>5. session' \in {counted, Received(counted, c)}
    BY <1>6 DEF TakePing
  <2>6. session' \in SessionType /\ session' # None
    BY <2>1, <2>4, <2>5, ReceivedType, SessionsAreLive
  <2>7. previous' \in SessionType
    <3>1. CASE OpensWithPrevious(h) /\ previous' = Received(previous, c)
      BY <1>0, <2>1, <3>1, Live, ReceivedType, SessionsAreLive DEF OpensWithPrevious, TypeOK
    <3>2. CASE previous' = previous
      BY <1>0, <3>2 DEF TypeOK
    <3>3. QED
      BY <1>6, <3>1, <3>2 DEF TakePing
  <2>8. {initiationSent', lastSent', spokeAt'} \subseteq 0 .. now
    BY <1>0, <1>6 DEF TakePing, TypeOK, Sent, NotSent, handshake
  <2>9. QED
    BY <1>0, <1>1, <1>6, <2>3, <2>6, <2>7, <2>8 DEF TakePing, TypeOK, handshake
<1>7. QED
  BY <1>2, <1>3, <1>4, <1>5, <1>6 DEF Receive

LEMMA SendPacketTypes == TypeInv /\ SendPacket => TypeInv'
<1> SUFFICES ASSUME TypeInv, SendPacket PROVE TypeInv'
  OBVIOUS
<1> USE Constants
<1>0. TypeOK /\ AttemptsLeft
  BY DEF TypeInv
<1>1. session # None /\ state = "UP"
  BY <1>0 DEF SendPacket, TypeOK
<1>2. session' \in SessionType /\ session' # None
  BY <1>0, <1>1, Live, Counted, SessionsAreLive DEF SendPacket, Seal, TypeOK
<1>3. {initiationSent', lastSent', spokeAt'} \subseteq 0 .. now
  BY <1>0 DEF SendPacket, TypeOK, Sent, NotSent, handshake
<1>4. TypeOK'
  BY <1>0, <1>1, <1>2, <1>3 DEF SendPacket, TypeOK, timing, handshake, server
<1>5. AttemptsLeft'
  BY <1>0 DEF SendPacket, AttemptsLeft, handshake
<1>6. QED
  BY <1>4, <1>5 DEF TypeInv

LEMMA TickTypes == TypeInv /\ Tick => TypeInv'
<1> SUFFICES ASSUME TypeInv, Tick PROVE TypeInv'
  OBVIOUS
<1> USE Constants DEF TypeInv, Tick, keys, handshake, server, history
<1>1. now' \in 0 .. MaxTime /\ checkedAt' \in 0 .. now'
      /\ {initiationSent', lastSent', spokeAt'} \subseteq 0 .. now'
  BY DEF TypeOK
<1>2. TypeOK'
  BY <1>1 DEF TypeOK
<1>3. AttemptsLeft'
  BY DEF AttemptsLeft
<1>4. QED
  BY <1>2, <1>3

LEMMA ServerTypes == TypeInv /\ Server => TypeInv'
<1> SUFFICES ASSUME TypeInv, Server PROVE TypeInv'
  OBVIOUS
<1> USE Constants DEF TypeInv
<1> DEFINE Client == <<timing, keys, handshake, lastSent, lastPeerTimestamp, history>>
           Far == /\ {handshakes', serverPending', serverSeen'} \subseteq 0 .. MaxHandshake
                  /\ serverSessions' \subseteq Handshake
<1>1. UNCHANGED Client /\ Far => TypeInv'
  <2> SUFFICES ASSUME UNCHANGED Client, Far PROVE TypeInv'
    OBVIOUS
  <2>1. TypeOK'
    BY DEF TypeOK, timing, keys, handshake, history
  <2>2. AttemptsLeft'
    BY DEF AttemptsLeft, keys, handshake
  <2>3. QED
    BY <2>1, <2>2
<1>2. CASE ServerInitiate
  BY <1>1, <1>2 DEF ServerInitiate, TypeOK
<1>3. ASSUME NEW h \in Handshake, ServerAnswer(h) \/ ServerConfirm(h) \/ ServerSend(h)
      PROVE  TypeInv'
  <2>1. UNCHANGED Client
    BY <1>3 DEF ServerAnswer, ServerConfirm, ServerSend
  <2>2. Far
    <3>0. /\ {handshakes, serverPending, serverSeen} \subseteq 0 .. MaxHandshake
          /\ serverSessions \subseteq Handshake /\ {0, h} \subseteq 0 .. MaxHandshake
      BY DEF TypeOK, Handshake
    <3> HIDE DEF TypeInv
    <3>1. CASE ServerAnswer(h)
      <4>1. /\ serverSeen' = h /\ serverSessions' = serverSessions \cup {h}
            /\ UNCHANGED <<handshakes, serverPending>>
        BY <3>1 DEF ServerAnswer
      <4>2. QED
        BY <3>0, <4>1
    <3>2. CASE ServerConfirm(h)
      <4>1. /\ serverPending' = 0 /\ serverSessions' = serverSessions \cup {h}
            /\ UNCHANGED <<handshakes, serverSeen>>
        BY <3>2 DEF ServerConfirm
      <4>2. QED
        BY <3>0, <4>1
    <3>3. CASE ServerSend(h)
      BY <3>0, <3>3 DEF ServerSend
    <3>4. QED
      BY <1>3, <3>1, <3>2, <3>3
  <2>3. QED
    BY <1>1, <2>1, <2>2
<1>4. QED
  BY <1>2, <1>3 DEF Server

LEMMA NextType == TypeInv /\ [Next]_vars => TypeInv'
<1> SUFFICES ASSUME TypeInv, [Next]_vars PROVE TypeInv'
  OBVIOUS
<1>1. CASE UNCHANGED vars
  <2>1. TypeOK'
    BY <1>1 DEF TypeInv, TypeOK, vars, timing, keys, handshake, server, history
  <2>2. AttemptsLeft'
    BY <1>1 DEF TypeInv, AttemptsLeft, vars, keys, handshake
  <2>3. QED
    BY <2>1, <2>2 DEF TypeInv
<1>2. QED
  BY <1>1, TimersType, ReceiveTypes, SendPacketTypes, TickTypes, ServerTypes DEF Next

\* The tunnel's state stays well formed: the attempts stay bounded through
\* every expiry and give-up, and keys are held exactly while it is up.
THEOREM TypesHold == Spec => []TypeOK
<1>1. TypeInv => TypeOK
  BY DEF TypeInv
<1>2. QED
  BY InitType, NextType, <1>1, PTL DEF Spec
-----------------------------------------------------------------------------
(* No counter meets a key twice.                                           *)

Ours(h) == Initiation(h) \in toServer
Theirs(h) == Initiation(h) \in toClient
Awaited(h) == [id |-> h, fresh |-> TRUE]

\* Each handshake has one side that began it, and only ours is waited for.
Apart ==
    /\ \A h \in Handshake : Ours(h) \/ Theirs(h) => h <= handshakes
    /\ \A h \in Handshake : ~(Ours(h) /\ Theirs(h))
    /\ \A h \in Handshake : pending = Awaited(h) => Ours(h)

\* A handshake that can lead to no further session: its answer is not waited
\* for, and its initiation is no news.
Spent(h) ==
    /\ Ours(h) \/ Theirs(h)
    /\ Theirs(h) => h <= lastPeerTimestamp
    /\ pending # Awaited(h)

\* Every key that has sealed, and the current one, is of a spent handshake,
\* and the current one has sealed with the counters below its own only.
KeysSpent ==
    /\ sealed \subseteq Handshake \X Nat
    /\ \A h \in Handshake, c \in Nat : <<h, c>> \in sealed => Spent(h)
    /\ session # None =>
          /\ Spent(session.id)
          /\ \A c \in Nat : <<session.id, c>> \in sealed => c < session.counter

Counting == IsFiniteSet(sealed) /\ seals = Cardinality(sealed)

NonceInv == TypeInv /\ Apart /\ KeysSpent /\ Counting

\* What a step may do to the handshakes.
BegunHere ==
    /\ handshakes < MaxHandshake /\ handshakes' = handshakes + 1
    /\ toServer' = toServer \cup {Initiation(handshakes')}
    /\ pending' = Awaited(handshakes')
    /\ UNCHANGED <<toClient, lastPeerTimestamp>>
BegunThere ==
    /\ handshakes < MaxHandshake /\ handshakes' = handshakes + 1
    /\ toClient' = toClient \cup {Initiation(handshakes')}
    /\ UNCHANGED <<toServer, pending, lastPeerTimestamp>>
NoneBegun ==
    /\ handshakes' = handshakes
    /\ \A h \in Handshake : (Ours(h)' <=> Ours(h)) /\ (Theirs(h)' <=> Theirs(h))
    /\ \A h \in Handshake : pending' = Awaited(h) => pending = Awaited(h)
    /\ lastPeerTimestamp' >= lastPeerTimestamp

\* What a step may do to the keys.
Quiet ==
    /\ UNCHANGED <<sealed, seals>>
    /\ session' # None =>
          session # None /\ session'.id = session.id /\ session'.counter = session.counter
Sealing ==
    /\ session # None /\ session' # None
    /\ session'.id = session.id /\ session'.counter = session.counter + 1
    /\ sealed' = sealed \cup {<<session.id, session.counter>>} /\ seals' = seals + 1
Adopting(h) ==
    /\ session' = Session(h, now) /\ ~Spent(h) /\ Spent(h)'
    /\ UNCHANGED <<sealed, seals>>

\* However a step goes, what is spent stays so.
LEMMA HandshakesStay ==
  ASSUME TypeInv, TypeInv', Apart, BegunHere \/ BegunThere \/ NoneBegun
  PROVE  Apart' /\ \A h \in Handshake : Spent(h) => Spent(h)'
<1> USE Constants DEF Ours, Theirs, Initiation
<1>0. handshakes \in Nat /\ lastPeerTimestamp \in Nat /\ lastPeerTimestamp' \in Nat
  BY DEF TypeInv, TypeOK
<1>1. CASE BegunHere
  <2>1. handshakes' \in Handshake
    BY <1>0, <1>1 DEF BegunHere, Handshake
  <2>2. \A h \in Handshake : (Ours(h)' <=> Ours(h) \/ h = handshakes') /\ (Theirs(h)' <=> Theirs(h))
    BY <1>1 DEF BegunHere
  <2>3. \A h \in Handshake : pending' = Awaited(h) <=> h = handshakes'
    BY <1>1 DEF BegunHere, Awaited
  <2>4. \A h \in Handshake : Ours(h) \/ Theirs(h) => h <= handshakes /\ h # handshakes'
    BY <1>0, <1>1 DEF Apart, BegunHere, Handshake
  <2>5. \A h \in Handshake : h <= handshakes => h <= handshakes'
    BY <1>0, <1>1 DEF BegunHere, Handshake
  <2> HIDE DEF Ours, Theirs
  <2>6. Apart'
    BY <1>0, <2>1, <2>2, <2>3, <2>4, <2>5 DEF Apart, Handshake
  <2>7. \A h \in Handshake : Spent(h) => Spent(h)'
    BY <1>1, <2>2, <2>3, <2>4 DEF Spent, BegunHere
  <2>8. QED
    BY <2>6, <2>7
<1>2. CASE BegunThere
  <2>1. handshakes' \in Handshake
    BY <1>0, <1>2 DEF BegunThere, Handshake
  <2>2. \A h \in Handshake : (Theirs(h)' <=> Theirs(h) \/ h = handshakes') /\ (Ours(h)' <=> Ours(h))
    BY <1>2 DEF BegunThere
  <2>4. \A h \in Handshake : Ours(h) \/ Theirs(h) => h <= handshakes /\ h # handshakes'
    BY <1>0, <1>2 DEF Apart, BegunThere, Handshake
  <2>5. \A h \in Handshake : h <= handshakes => h <= handshakes'
    BY <1>0, <1>2 DEF BegunThere, Handshake
  <2> HIDE DEF Ours, Theirs
  <2>6. Apart'
    BY <1>0, <1>2, <2>1, <2>2, <2>4, <2>5 DEF Apart, BegunThere, Handshake, Awaited
  <2>7. \A h \in Handshake : Spent(h) => Spent(h)'
    BY <1>2, <2>2, <2>4 DEF Spent, BegunThere, Awaited
  <2>8. QED
    BY <2>6, <2>7
<1>3. CASE NoneBegun
  <2> HIDE DEF Ours, Theirs
  <2>1. Apart'
    BY <1>3 DEF NoneBegun, Apart, Awaited
  <2>2. lastPeerTimestamp' >= lastPeerTimestamp
    BY <1>3 DEF NoneBegun
  <2>3. ASSUME NEW h \in Handshake, Spent(h) PROVE Spent(h)'
    <3>1. (Ours(h)' <=> Ours(h)) /\ (Theirs(h)' <=> Theirs(h))
      BY <1>3 DEF NoneBegun
    <3>2. h <= lastPeerTimestamp => h <= lastPeerTimestamp'
      BY <1>0, <2>2 DEF Handshake
    <3>3. pending' # Awaited(h)
      BY <1>3, <2>3 DEF NoneBegun, Spent
    <3>4. QED
      BY <2>3, <3>1, <3>2, <3>3 DEF Spent, Awaited
  <2>4. QED
    BY <2>1, <2>3
<1>4. QED
  BY <1>1, <1>2, <1>3

\* None is nobody's awaited handshake, and an answered one is not awaited.
LEMMA NotAwaited ==
  ASSUME NEW h \in Handshake
  PROVE  /\ None # Awaited(h)
         /\ \A k \in Handshake : [id |-> k, fresh |-> FALSE] # Awaited(h)
<1>1. None.id = 0 /\ Awaited(h).id = h /\ h # 0
  BY DEF None, Awaited, Handshake
<1>2. \A k \in Handshake : [id |-> k, fresh |-> FALSE].fresh # Awaited(h).fresh
  BY DEF Awaited
<1>3. QED
  BY <1>1, <1>2

LEMMA SendInitiationBegins ==
  ASSUME TypeInv, NEW from, NEW tried, SendInitiation(from, tried),
         UNCHANGED <<toClient, lastPeerTimestamp>>
  PROVE  BegunHere \/ NoneBegun
<1>1. lastPeerTimestamp' >= lastPeerTimestamp
  BY DEF TypeInv, TypeOK
<1>2. CASE handshakes < MaxHandshake /\ handshakes' = handshakes + 1
           /\ pending' = [id |-> handshakes', fresh |-> TRUE]
           /\ toServer' = toServer \cup {Initiation(handshakes')}
  BY <1>2 DEF BegunHere, Awaited
<1>3. CASE pending' = None /\ UNCHANGED <<handshakes, toServer>>
  BY <1>1, <1>3, NotAwaited DEF NoneBegun, Ours, Theirs
<1>4. QED
  BY <1>2, <1>3 DEF SendInitiation

LEMMA TimersBegin == TypeInv /\ RunTimers => BegunHere \/ NoneBegun
<1> SUFFICES ASSUME TypeInv, RunTimers PROVE BegunHere \/ NoneBegun
  OBVIOUS
<1>1. UNCHANGED <<toClient, lastPeerTimestamp>> /\ lastPeerTimestamp' >= lastPeerTimestamp
  BY DEF RunTimers, TypeInv, TypeOK
<1>2. CASE Reconnect
  BY <1>1, <1>2, SendInitiationBegins DEF Reconnect
<1>3. CASE Resend
  BY <1>1, <1>3, SendInitiationBegins DEF Resend
<1>4. CASE StartRekey
  BY <1>1, <1>4, SendInitiationBegins DEF StartRekey
<1>5. CASE UNCHANGED <<pending, handshakes, toServer>>
  BY <1>1, <1>5 DEF NoneBegun, Ours, Theirs
<1>6. QED
  BY <1>2, <1>3, <1>4, <1>5 DEF RunTimers, Keepalive, NothingDue, handshake

LEMMA ReceiveBegins == TypeInv /\ Receive => NoneBegun
<1> SUFFICES ASSUME TypeInv, Receive PROVE NoneBegun
  OBVIOUS
<1>1. UNCHANGED <<handshakes, toClient>>
  BY DEF Receive
<1>2. lastPeerTimestamp \in Nat
  BY Constants DEF TypeInv, TypeOK
<1>3. CASE UNCHANGED <<pending, lastPeerTimestamp, toServer>>
  BY <1>1, <1>2, <1>3 DEF NoneBegun, Ours, Theirs
<1>4. ASSUME NEW h \in Handshake, TakeResponse(h) PROVE NoneBegun
  <2>1. UNCHANGED <<lastPeerTimestamp, toServer>>
    BY <1>4 DEF TakeResponse
  <2>2. pending' = pending \/ pending' = [id |-> h, fresh |-> FALSE]
    BY <1>4 DEF TakeResponse, handshake
  <2>3. QED
    BY <1>1, <1>2, <2>1, <2>2, NotAwaited DEF NoneBegun, Ours, Theirs
<1>5. ASSUME NEW h \in Handshake, TakeInitiation(h) PROVE NoneBegun
  <2>1. lastPeerTimestamp' >= lastPeerTimestamp
    BY <1>2, <1>5 DEF TakeInitiation, IsNews, Handshake
  <2>2. pending' = pending \/ pending' = [id |-> h, fresh |-> FALSE]
    BY <1>5 DEF TakeInitiation, handshake
  <2>3. toServer' = toServer \/ toServer' = toServer \cup {Response(h)}
    BY <1>5 DEF TakeInitiation
  <2>4. \A k \in Handshake : Response(h) # Initiation(k)
    <3>1. \A k \in Handshake : Response(h).type # Initiation(k).type
      BY DEF Response, Initiation
    <3>2. QED
      BY <3>1
  <2>5. \A k \in Handshake : (Ours(k)' <=> Ours(k)) /\ (Theirs(k)' <=> Theirs(k))
    BY <1>1, <2>3, <2>4 DEF Ours, Theirs
  <2>6. QED
    BY <1>1, <2>1, <2>2, <2>5, NotAwaited DEF NoneBegun
<1>6. ASSUME NEW h \in Handshake, NEW c \in 0 .. MaxServerData - 1,
             TakeData(h, c) \/ TakePing(h, c)
      PROVE  NoneBegun
  BY <1>3, <1>6 DEF TakeData, TakePing, handshake
<1>7. CASE TakeNothing
  BY <1>3, <1>7 DEF TakeNothing, handshake
<1>8. QED
  BY <1>4, <1>5, <1>6, <1>7 DEF Receive

LEMMA ServerBegins == TypeInv /\ Server => BegunThere \/ NoneBegun
<1> SUFFICES ASSUME TypeInv, Server PROVE BegunThere \/ NoneBegun
  OBVIOUS
<1>1. UNCHANGED <<toServer, pending, lastPeerTimestamp>> /\ lastPeerTimestamp' >= lastPeerTimestamp
  BY DEF Server, ServerInitiate, ServerAnswer, ServerConfirm, ServerSend, handshake,
         network, TypeInv, TypeOK
<1>2. CASE ServerInitiate
  BY <1>1, <1>2 DEF ServerInitiate, BegunThere
<1>3. ASSUME UNCHANGED handshakes, NEW m, \A k \in Handshake : m # Initiation(k),
             toClient' = toClient \/ toClient' = toClient \cup {m}
      PROVE  NoneBegun
  BY <1>1, <1>3 DEF NoneBegun, Ours, Theirs
<1>4. ASSUME NEW h \in Handshake, ServerAnswer(h) PROVE NoneBegun
  <2>1. \A k \in Handshake : Response(h).type # Initiation(k).type
    BY DEF Response, Initiation
  <2>2. UNCHANGED handshakes /\ toClient' = toClient \cup {Response(h)}
    BY <1>4 DEF ServerAnswer
  <2>3. QED
    BY <1>3, <2>1, <2>2
<1>5. ASSUME NEW h \in Handshake, ServerConfirm(h) PROVE NoneBegun
  BY <1>1, <1>5 DEF ServerConfirm, network, NoneBegun, Ours, Theirs
<1>6. ASSUME NEW h \in Handshake, ServerSend(h) PROVE NoneBegun
  <2>1. \A k \in Handshake : Data(h, serverCounter[h]).type # Initiation(k).type
    BY DEF Data, Initiation
  <2>2. UNCHANGED handshakes /\ toClient' = toClient \cup {Data(h, serverCounter[h])}
    BY <1>6 DEF ServerSend
  <2>3. QED
    BY <1>3, <2>1, <2>2
<1>7. QED
  BY <1>2, <1>4, <1>5, <1>6 DEF Server

LEMMA StepsBegin ==
  TypeInv /\ [Next]_vars => BegunHere \/ BegunThere \/ NoneBegun
<1> SUFFICES ASSUME TypeInv, [Next]_vars PROVE BegunHere \/ BegunThere \/ NoneBegun
  OBVIOUS
<1>1. CASE SendPacket \/ Tick \/ UNCHANGED vars
  <2>1. UNCHANGED <<pending, lastPeerTimestamp, handshakes, toServer, toClient>>
    BY <1>1 DEF SendPacket, Tick, vars, handshake, network
  <2>2. lastPeerTimestamp' >= lastPeerTimestamp
    BY <2>1 DEF TypeInv, TypeOK
  <2>3. QED
    BY <2>1, <2>2 DEF NoneBegun, Ours, Theirs
<1>2. QED
  BY <1>1, TimersBegin, ReceiveBegins, ServerBegins DEF Next

\* The keys of a tunnel that is up can be used: sealing takes one counter.
LEMMA UpHasKeys ==
  ASSUME TypeInv, state = "UP"
  PROVE  /\ session # None
         /\ session \in [id : Handshake, counter : Nat, received : SUBSET Nat, born : Nat]
<1>1. session # None /\ session \in SessionType
  BY DEF TypeInv, TypeOK
<1>2. QED
  BY <1>1, Live

LEMMA SealSeals ==
  ASSUME TypeInv, state = "UP", Seal
  PROVE  Sealing
<1> DEFINE LiveSession == [id : Handshake, counter : Nat, received : SUBSET Nat, born : Nat]
<1>1. session # None /\ session \in LiveSession
  BY UpHasKeys
<1>2. session' = [session EXCEPT !.counter = @ + 1]
  BY DEF Seal
<1>3. session'.id = session.id /\ session'.counter = session.counter + 1
  BY <1>1, <1>2
<1>4. session' # None
  BY <1>1, <1>2, Counted, SessionsAreLive
<1>5. QED
  BY <1>1, <1>3, <1>4 DEF Seal, Sealing

LEMMA TimersSeal == TypeInv /\ RunTimers => Quiet \/ Sealing
<1> SUFFICES ASSUME TypeInv, RunTimers PROVE Quiet \/ Sealing
  OBVIOUS
<1>1. CASE UNCHANGED <<sealed, seals>> /\ session' \in {session, None}
  BY <1>1 DEF Quiet
<1>2. CASE Keepalive
  <2>1. state = "UP" /\ Seal
    BY <1>2 DEF Keepalive, StateNow
  <2>2. QED
    BY <2>1, SealSeals
<1>3. CASE Reconnect
  BY <1>1, <1>3 DEF Reconnect, KeysNow
<1>4. CASE Resend
  BY <1>1, <1>4 DEF Resend
<1>5. CASE StartRekey \/ NothingDue
  BY <1>1, <1>5 DEF StartRekey, NothingDue
<1>6. QED
  BY <1>2, <1>3, <1>4, <1>5 DEF RunTimers

\* An answer is taken once, and only when it is awaited.
LEMMA AwaitedOnce ==
  ASSUME TypeInv, Apart, NEW h \in Handshake, TakeResponse(h), Opens(h), UNCHANGED toClient
  PROVE  ~Spent(h) /\ Spent(h)'
<1>1. UNCHANGED toServer /\ pending' = [id |-> h, fresh |-> FALSE]
  BY DEF TakeResponse
<1>2. pending = Awaited(h)
  <2>1. pending \in PendingType /\ pending.id = h /\ pending.fresh
    BY DEF Opens, TypeInv, TypeOK
  <2>2. pending # None
    BY <2>1 DEF None, Handshake
  <2>3. pending \in [id : Handshake, fresh : BOOLEAN]
    BY <2>1, <2>2 DEF PendingType
  <2>4. QED
    BY <2>1, <2>3 DEF Awaited
<1>3. Ours(h)' /\ ~Theirs(h)'
  BY <1>1, <1>2 DEF Apart, Ours, Theirs
<1>4. pending' # Awaited(h)'
  BY <1>1, NotAwaited DEF Awaited
<1>5. QED
  BY <1>2, <1>3, <1>4 DEF Spent

LEMMA ResponseAdopts ==
  ASSUME TypeInv, Apart, NEW h \in Handshake, TakeResponse(h), UNCHANGED toClient
  PROVE  Quiet \/ Adopting(h)
<1>1. UNCHANGED <<sealed, seals>>
  BY DEF TakeResponse
<1>2. CASE Opens(h)
  <2>1. session' = Session(h, now)
    BY <1>2 DEF TakeResponse, adoptHandshake
  <2>2. QED
    BY <1>1, <1>2, <2>1, AwaitedOnce DEF Adopting
<1>3. CASE ~Opens(h)
  BY <1>1, <1>3 DEF TakeResponse, keys, Quiet
<1>4. QED
  BY <1>2, <1>3

\* The server's handshake is taken once, and only while it is news.
LEMMA NewsOnce ==
  ASSUME TypeInv, NEW h \in Handshake, TakeInitiation(h), UNCHANGED toClient,
         IsNews(h), lastPeerTimestamp' = h, pending' = [id |-> h, fresh |-> FALSE]
  PROVE  ~Spent(h) /\ Spent(h)'
<1>1. lastPeerTimestamp \in Nat /\ ~(h <= lastPeerTimestamp) /\ h <= lastPeerTimestamp'
  BY Constants DEF TypeInv, TypeOK, IsNews, Handshake
<1>2. Theirs(h) /\ Theirs(h)'
  BY DEF TakeInitiation, Theirs
<1>3. pending' # Awaited(h)'
  BY NotAwaited DEF Awaited
<1>4. QED
  BY <1>1, <1>2, <1>3 DEF Spent

LEMMA InitiationAdopts ==
  ASSUME TypeInv, NEW h \in Handshake, TakeInitiation(h), UNCHANGED toClient
  PROVE  Quiet \/ Adopting(h)
<1>1. UNCHANGED <<sealed, seals>>
  BY DEF TakeInitiation
<1>2. CASE session' = session
  BY <1>1, <1>2 DEF Quiet
<1>3. CASE /\ IsNews(h) /\ lastPeerTimestamp' = h
           /\ pending' = [id |-> h, fresh |-> FALSE] /\ adoptHandshake(h)
  <2>1. session' = Session(h, now)
    BY <1>3 DEF adoptHandshake
  <2>2. QED
    BY <1>1, <1>3, <2>1, NewsOnce DEF Adopting
<1>4. QED
  BY <1>2, <1>3 DEF TakeInitiation, keys

\* What is received leaves the counter; a ping is answered under it.
LEMMA DataSeals ==
  ASSUME TypeInv, NEW h \in Handshake, NEW c \in 0 .. MaxServerData - 1,
         TakeData(h, c) \/ TakePing(h, c)
  PROVE  Quiet \/ Sealing
<1> DEFINE LiveSession == [id : Handshake, counter : Nat, received : SUBSET Nat, born : Nat]
           counted == [session EXCEPT !.counter = @ + 1]
<1>1. CASE TakeData(h, c)
  <2>1. UNCHANGED <<sealed, seals>>
    BY <1>1 DEF TakeData
  <2>2. CASE session' = session
    BY <2>1, <2>2 DEF Quiet
  <2>3. CASE OpensWithSession(h) /\ session' = Received(session, c)
    <3>1. session # None /\ session \in LiveSession
      BY <2>3, UpHasKeys DEF OpensWithSession
    <3>2. session'.id = session.id /\ session'.counter = session.counter
      BY <2>3, <3>1 DEF Received
    <3>3. QED
      BY <2>1, <3>1, <3>2 DEF Quiet
  <2>4. QED
    BY <1>1, <2>2, <2>3 DEF TakeData
<1>2. CASE TakePing(h, c)
  <2>1. state = "UP"
    BY <1>2 DEF TakePing, OpensWithSession, OpensWithPrevious
  <2>2. session # None /\ session \in LiveSession
    BY <2>1, UpHasKeys
  <2>3. session' = counted \/ session' = Received(counted, c)
    BY <1>2 DEF TakePing
  <2>4. counted \in LiveSession /\ counted.id = session.id
        /\ counted.counter = session.counter + 1
    BY <2>2, Counted
  <2>5. session'.id = session.id /\ session'.counter = session.counter + 1
    BY <2>3, <2>4 DEF Received
  <2>6. session' # None
    <3>1. session'.id # None.id
      BY <2>2, <2>5 DEF None, Handshake
    <3>2. QED
      BY <3>1
  <2>7. QED
    BY <1>2, <2>2, <2>5, <2>6 DEF TakePing, Sealing
<1>3. QED
  BY <1>1, <1>2

LEMMA StepsKey ==
  TypeInv /\ Apart /\ [Next]_vars
    => Quiet \/ Sealing \/ \E h \in Handshake : Adopting(h)
<1> SUFFICES ASSUME TypeInv, Apart, [Next]_vars
             PROVE  Quiet \/ Sealing \/ \E h \in Handshake : Adopting(h)
  OBVIOUS
<1>1. CASE Receive
  <2>1. UNCHANGED toClient
    BY <1>1 DEF Receive
  <2>2. CASE TakeNothing
    BY <2>2 DEF TakeNothing, keys, Quiet
  <2>3. QED
    BY <1>1, <2>1, <2>2, ResponseAdopts, InitiationAdopts, DataSeals DEF Receive
<1>2. CASE SendPacket
  BY <1>2, SealSeals DEF SendPacket
<1>3. CASE Tick \/ Server \/ UNCHANGED vars
  <2>1. UNCHANGED <<session, sealed, seals>>
    BY <1>3 DEF Tick, Server, ServerInitiate, ServerAnswer, ServerConfirm, ServerSend,
                vars, keys, history
  <2>2. QED
    BY <2>1 DEF Quiet
<1>4. QED
  BY <1>1, <1>2, <1>3, TimersSeal DEF Next

\* A key that can still be come by has sealed nothing.
LEMMA KeysStaySpent ==
  ASSUME TypeInv, KeysSpent, \A h \in Handshake : Spent(h) => Spent(h)',
         Quiet \/ Sealing \/ \E h \in Handshake : Adopting(h)
  PROVE  KeysSpent'
<1> DEFINE LiveSession == [id : Handshake, counter : Nat, received : SUBSET Nat, born : Nat]
<1>1. session # None => session \in LiveSession
  BY Live DEF TypeInv, TypeOK
<1>2. CASE Quiet
  <2>1. sealed' = sealed
    BY <1>2 DEF Quiet
  <2>2. \A h \in Handshake, c \in Nat : <<h, c>> \in sealed' => Spent(h)'
    BY <2>1 DEF KeysSpent
  <2>3. ASSUME session' # None
        PROVE  /\ Spent(session.id)' 
               /\ \A c \in Nat : <<session'.id, c>> \in sealed' => c < session'.counter
    <3>1. session # None /\ session'.id = session.id /\ session'.counter = session.counter
      BY <1>2, <2>3 DEF Quiet
    <3>2. Spent(session.id) /\ session.id \in Handshake
      BY <1>1, <3>1 DEF KeysSpent
    <3>3. QED
      BY <2>1, <3>1, <3>2 DEF KeysSpent
  <2>4. QED
    BY <2>1, <2>2, <2>3 DEF KeysSpent
<1>3. CASE Sealing
  <2>1. /\ session # None /\ session' # None
        /\ session'.id = session.id /\ session'.counter = session.counter + 1
        /\ sealed' = sealed \cup {<<session.id, session.counter>>}
    BY <1>3 DEF Sealing
  <2>2. session.id \in Handshake /\ session.counter \in Nat /\ Spent(session.id)
    BY <1>1, <2>1 DEF KeysSpent
  <2>3. sealed' \subseteq Handshake \X Nat
    BY <2>1, <2>2 DEF KeysSpent
  <2>4. \A h \in Handshake, c \in Nat : <<h, c>> \in sealed' => Spent(h)'
    BY <2>1, <2>2 DEF KeysSpent
  <2>5. \A c \in Nat : <<session'.id, c>> \in sealed' => c < session'.counter
    <3> SUFFICES ASSUME NEW c \in Nat, <<session.id, c>> \in sealed'
                 PROVE  c < session.counter + 1
      BY <2>1
    <3>1. c < session.counter \/ c = session.counter
      BY <2>1, <2>2 DEF KeysSpent
    <3>2. QED
      BY <2>2, <3>1
  <2>6. Spent(session.id)'
    BY <2>1, <2>2
  <2>7. QED
    BY <2>3, <2>4, <2>5, <2>6 DEF KeysSpent
<1>4. ASSUME NEW h \in Handshake, Adopting(h) PROVE KeysSpent'
  <2>1. sealed' = sealed /\ session'.id = h /\ ~Spent(h) /\ Spent(h)'
    BY <1>4 DEF Adopting, Session
  <2>2. \A k \in Handshake, c \in Nat : <<k, c>> \in sealed' => Spent(k)'
    BY <2>1 DEF KeysSpent
  <2>3. \A c \in Nat : <<session'.id, c>> \notin sealed'
    BY <2>1 DEF KeysSpent
  <2>4. Spent(session.id)'
    BY <2>1
  <2>5. QED
    BY <2>1, <2>2, <2>3, <2>4 DEF KeysSpent
<1>5. QED
  BY <1>2, <1>3, <1>4

LEMMA CountingStays ==
  ASSUME TypeInv, KeysSpent, Counting, Quiet \/ Sealing \/ \E h \in Handshake : Adopting(h)
  PROVE  Counting'
<1>1. CASE UNCHANGED <<sealed, seals>>
  BY <1>1 DEF Counting
<1>2. CASE Sealing
  <2>1. /\ session # None /\ sealed' = sealed \cup {<<session.id, session.counter>>}
        /\ seals' = seals + 1
    BY <1>2 DEF Sealing
  <2>2. session.counter \in Nat
    BY <2>1, Live DEF TypeInv, TypeOK
  <2>3. <<session.id, session.counter>> \notin sealed
    BY <2>1, <2>2 DEF KeysSpent
  <2>4. QED
    BY <2>1, <2>3, FS_AddElement DEF Counting
<1>3. QED
  BY <1>1, <1>2 DEF Quiet, Adopting

LEMMA InitNonce == Init => NonceInv
<1> SUFFICES ASSUME Init PROVE NonceInv
  OBVIOUS
<1>1. Apart
  BY NotAwaited DEF Init, Apart, Ours, Theirs
<1>2. KeysSpent
  BY DEF Init, KeysSpent
<1>3. Counting
  BY FS_EmptySet DEF Init, Counting
<1>4. QED
  BY <1>1, <1>2, <1>3, InitType DEF NonceInv

LEMMA NextNonce == NonceInv /\ [Next]_vars => NonceInv'
<1> SUFFICES ASSUME NonceInv, [Next]_vars PROVE NonceInv'
  OBVIOUS
<1>1. TypeInv /\ Apart /\ KeysSpent /\ Counting /\ TypeInv'
  BY NextType DEF NonceInv
<1>2. Apart' /\ \A h \in Handshake : Spent(h) => Spent(h)'
  BY <1>1, StepsBegin, HandshakesStay
<1>3. Quiet \/ Sealing \/ \E h \in Handshake : Adopting(h)
  BY <1>1, StepsKey
<1>4. KeysSpent' /\ Counting'
  BY <1>1, <1>2, <1>3, KeysStaySpent, CountingStays
<1>5. QED
  BY <1>1, <1>2, <1>4 DEF NonceInv

(***************************************************************************)
(* However the datagrams are lost, repeated and reordered, whichever side  *)
(* begins the handshakes and however the client's sends fail, no packet is *)
(* sealed under a key and counter that have sealed one before.             *)
(***************************************************************************)
THEOREM NoncesUsedOnce == Spec => []NonceNeverReused
<1>1. NonceInv => NonceNeverReused
  BY DEF NonceInv, Counting, NonceNeverReused
<1>2. QED
  BY InitNonce, NextNonce, <1>1, PTL DEF Spec
-----------------------------------------------------------------------------
(* Sessions: what is handed up, and when keys age and are replaced.        *)

LiveSession == [id : Handshake, counter : Nat, received : SUBSET Nat, born : Nat]

LEMMA SessionsLive ==
  ASSUME TypeInv
  PROVE  /\ session # None => session \in LiveSession
         /\ previous # None => previous \in LiveSession
         /\ state = "UP" <=> session # None
BY Live DEF TypeInv, TypeOK, LiveSession

LEMMA LiveIsNotNone ==
  ASSUME NEW s \in LiveSession
  PROVE  s # None
BY SessionsAreLive DEF LiveSession
-----------------------------------------------------------------------------
(* No packet is handed up twice.                                           *)

\* What was handed up under a session's keys is in its own window, and those
\* keys cannot be come by again.
Holds(s) ==
    s # None =>
        /\ Spent(s.id)
        /\ \A c \in Nat : <<s.id, c>> \in delivered => c \in s.received

\* The keys that have handed up anything are of spent handshakes, so that a
\* session begins with nothing handed up; the two sessions are never of one.
DeliveriesHeld ==
    /\ delivered \subseteq Handshake \X Nat
    /\ \A h \in Handshake, c \in Nat : <<h, c>> \in delivered => Spent(h)
    /\ Holds(session) /\ Holds(previous)
    /\ session # None /\ previous # None => session.id # previous.id

DeliveriesCounted == IsFiniteSet(delivered) /\ deliveries = Cardinality(delivered)

DeliveryInv == TypeInv /\ Apart /\ DeliveriesHeld /\ DeliveriesCounted

\* What a step may do to the windows.
Alike(s, t) == t # None => s # None /\ t.id = s.id /\ t.received = s.received
Opened(s, t, h, c) ==
    /\ s # None /\ t # None /\ s.id = h /\ t.id = h
    /\ c \notin s.received /\ t.received = s.received \cup {c}

Silent ==
    /\ UNCHANGED <<delivered, deliveries>>
    /\ Alike(session, session') /\ Alike(previous, previous')
Delivering(h, c) ==
    /\ Deliver(h, c)
    /\ \/ Opened(session, session', h, c) /\ Alike(previous, previous')
       \/ Opened(previous, previous', h, c) /\ Alike(session, session')
          /\ session # None /\ session.id # h
Replacing(h) ==
    /\ UNCHANGED <<delivered, deliveries>>
    /\ session' = Session(h, now) /\ previous' \in {session, previous}
    /\ ~Spent(h) /\ Spent(h)'

\* Sealing leaves the window as it is, receiving adds the one counter.
LEMMA CountedAlike ==
  ASSUME NEW s \in LiveSession
  PROVE  /\ [s EXCEPT !.counter = @ + 1] \in LiveSession
         /\ Alike(s, [s EXCEPT !.counter = @ + 1])
<1> DEFINE t == [s EXCEPT !.counter = @ + 1]
<1>1. t \in LiveSession
  BY Counted DEF LiveSession
<1>2. t.id = s.id /\ t.received = s.received
  BY DEF LiveSession
<1>3. s # None
  BY LiveIsNotNone
<1>4. QED
  BY <1>1, <1>2, <1>3 DEF Alike

LEMMA ReceivedOpens ==
  ASSUME NEW s \in LiveSession, NEW c \in Nat, Fresh(s, c)
  PROVE  Opened(s, Received(s, c), s.id, c)
<1>1. Received(s, c) \in LiveSession
  BY ReceivedType DEF LiveSession
<1>2. Received(s, c).id = s.id /\ Received(s, c).received = s.received \cup {c}
  BY DEF Received, LiveSession
<1>3. QED
  BY <1>1, <1>2, LiveIsNotNone DEF Opened, Fresh

LEMMA SealIsSilent ==
  ASSUME TypeInv, state = "UP", Seal, UNCHANGED <<delivered, deliveries, previous>>
  PROVE  Silent
<1>1. session \in LiveSession
  BY SessionsLive
<1>2. Alike(session, session')
  BY <1>1, CountedAlike DEF Seal
<1>3. QED
  BY <1>2 DEF Silent, Alike

LEMMA TimersAreSilent == TypeInv /\ RunTimers => Silent
<1> SUFFICES ASSUME TypeInv, RunTimers PROVE Silent
  OBVIOUS
<1>1. UNCHANGED <<delivered, deliveries>> /\ previous' \in {None, previous}
  BY DEF RunTimers
<1>2. Alike(previous, previous')
  BY <1>1 DEF Alike
<1>3. CASE session' \in {session, None}
  BY <1>1, <1>2, <1>3 DEF Silent, Alike
<1>4. CASE Keepalive
  <2>1. state = "UP" /\ Seal
    BY <1>4 DEF Keepalive, StateNow
  <2>2. Alike(session, session')
    BY <2>1, SessionsLive, CountedAlike DEF Seal
  <2>3. QED
    BY <1>1, <1>2, <2>2 DEF Silent
<1>5. QED
  BY <1>3, <1>4 DEF RunTimers, Reconnect, Resend, StartRekey, NothingDue, KeysNow

LEMMA DataDelivers ==
  ASSUME TypeInv, NEW h \in Handshake, NEW c \in 0 .. MaxServerData - 1, TakeData(h, c)
  PROVE  Silent \/ Delivering(h, c)
<1>1. c \in Nat
  OBVIOUS
<1>2. CASE /\ OpensWithSession(h) /\ Fresh(session, c) /\ Deliver(h, c)
           /\ session' = Received(session, c) /\ UNCHANGED previous
  <2>1. session \in LiveSession /\ session.id = h
    BY <1>2, SessionsLive DEF OpensWithSession
  <2>2. Opened(session, session', h, c)
    BY <1>1, <1>2, <2>1, ReceivedOpens
  <2>3. QED
    BY <1>2, <2>2 DEF Delivering, Alike
<1>3. CASE /\ OpensWithPrevious(h) /\ Fresh(previous, c) /\ Deliver(h, c)
           /\ previous' = Received(previous, c) /\ UNCHANGED session
  <2>1. previous \in LiveSession /\ previous.id = h /\ session # None /\ session.id # h
    BY <1>3, SessionsLive DEF OpensWithPrevious
  <2>2. Opened(previous, previous', h, c)
    BY <1>1, <1>3, <2>1, ReceivedOpens
  <2>3. QED
    BY <1>3, <2>1, <2>2 DEF Delivering, Alike
<1>4. CASE UNCHANGED <<session, previous, delivered, deliveries>>
  BY <1>4 DEF Silent, Alike
<1>5. QED
  BY <1>2, <1>3, <1>4 DEF TakeData

LEMMA PingDelivers ==
  ASSUME TypeInv, NEW h \in Handshake, NEW c \in 0 .. MaxServerData - 1, TakePing(h, c)
  PROVE  Delivering(h, c)
<1> DEFINE counted == [session EXCEPT !.counter = @ + 1]
           bySession == OpensWithSession(h) /\ Fresh(session, c)
           byPrevious == OpensWithPrevious(h) /\ Fresh(previous, c)
<1>1. c \in Nat /\ Deliver(h, c)
  BY DEF TakePing
<1>2. /\ bySession \/ byPrevious
      /\ session' = IF bySession THEN Received(counted, c) ELSE counted
      /\ previous' = IF byPrevious THEN Received(previous, c) ELSE previous
  BY DEF TakePing
<1>3. ~(OpensWithSession(h) /\ OpensWithPrevious(h))
  BY DEF OpensWithSession, OpensWithPrevious
<1>4. session \in LiveSession
  BY <1>2, SessionsLive DEF OpensWithSession, OpensWithPrevious
<1>5. counted \in LiveSession /\ Alike(session, counted)
      /\ counted.id = session.id /\ counted.received = session.received
  BY <1>4, CountedAlike DEF LiveSession
<1>6. CASE bySession
  <2>1. session' = Received(counted, c) /\ previous' = previous
    BY <1>2, <1>3, <1>6
  <2>2. session.id = h /\ c \notin session.received /\ Fresh(counted, c)
    BY <1>5, <1>6 DEF OpensWithSession, Fresh
  <2>3. Opened(counted, session', h, c)
    BY <1>1, <1>5, <2>1, <2>2, ReceivedOpens
  <2>4. Opened(session, session', h, c)
    BY <1>4, <1>5, <2>2, <2>3, LiveIsNotNone DEF Opened
  <2>5. QED
    BY <1>1, <2>1, <2>4 DEF Delivering, Alike
<1>7. CASE ~bySession
  <2>1. session' = counted /\ byPrevious /\ previous' = Received(previous, c)
    BY <1>2, <1>7
  <2>2. previous \in LiveSession /\ previous.id = h /\ session.id # h
    BY <2>1, SessionsLive DEF OpensWithPrevious
  <2>3. Opened(previous, previous', h, c)
    BY <1>1, <2>1, <2>2, ReceivedOpens
  <2>4. QED
    BY <1>1, <1>4, <1>5, <2>1, <2>2, <2>3, LiveIsNotNone DEF Delivering
<1>8. QED
  BY <1>6, <1>7

LEMMA ReceivingDelivers ==
  TypeInv /\ Apart /\ Receive
    => \/ Silent
       \/ \E h \in Handshake, c \in Nat : Delivering(h, c)
       \/ \E h \in Handshake : Replacing(h)
<1> SUFFICES ASSUME TypeInv, Apart, Receive
             PROVE  \/ Silent
                    \/ \E h \in Handshake, c \in Nat : Delivering(h, c)
                    \/ \E h \in Handshake : Replacing(h)
  OBVIOUS
<1>1. UNCHANGED toClient
  BY DEF Receive
<1>2. UNCHANGED keys /\ UNCHANGED <<delivered, deliveries>> => Silent
  BY DEF keys, Silent, Alike
<1>3. ASSUME NEW h \in Handshake, TakeResponse(h) PROVE Silent \/ Replacing(h)
  <2>1. UNCHANGED <<delivered, deliveries>>
    BY <1>3 DEF TakeResponse
  <2>2. CASE Opens(h)
    <3>1. session' = Session(h, now) /\ previous' \in {session, previous}
      BY <1>3, <2>2 DEF TakeResponse, adoptHandshake, Replaced
    <3>2. QED
      BY <1>1, <1>3, <2>1, <2>2, <3>1, AwaitedOnce DEF Replacing
  <2>3. CASE ~Opens(h)
    BY <1>2, <1>3, <2>1, <2>3 DEF TakeResponse
  <2>4. QED
    BY <2>2, <2>3
<1>4. ASSUME NEW h \in Handshake, TakeInitiation(h) PROVE Silent \/ Replacing(h)
  <2>1. UNCHANGED <<delivered, deliveries>>
    BY <1>4 DEF TakeInitiation
  <2>2. CASE /\ IsNews(h) /\ lastPeerTimestamp' = h
             /\ pending' = [id |-> h, fresh |-> FALSE] /\ adoptHandshake(h)
    <3>1. session' = Session(h, now) /\ previous' \in {session, previous}
      BY <2>2 DEF adoptHandshake, Replaced
    <3>2. QED
      BY <1>1, <1>4, <2>1, <2>2, <3>1, NewsOnce DEF Replacing
  <2>3. CASE UNCHANGED keys
    BY <1>2, <2>1, <2>3
  <2>4. QED
    BY <1>4, <2>2, <2>3 DEF TakeInitiation
<1>5. ASSUME NEW h \in Handshake, NEW c \in 0 .. MaxServerData - 1,
             TakeData(h, c) \/ TakePing(h, c)
      PROVE  Silent \/ Delivering(h, c)
  BY <1>5, DataDelivers, PingDelivers
<1>6. CASE TakeNothing
  BY <1>2, <1>6 DEF TakeNothing
<1>7. \A c \in 0 .. MaxServerData - 1 : c \in Nat
  OBVIOUS
<1>8. QED
  BY <1>3, <1>4, <1>5, <1>6, <1>7 DEF Receive

LEMMA StepsDeliver ==
  TypeInv /\ Apart /\ [Next]_vars
    => \/ Silent
       \/ \E h \in Handshake, c \in Nat : Delivering(h, c)
       \/ \E h \in Handshake : Replacing(h)
<1> SUFFICES ASSUME TypeInv, Apart, [Next]_vars
             PROVE  \/ Silent
                    \/ \E h \in Handshake, c \in Nat : Delivering(h, c)
                    \/ \E h \in Handshake : Replacing(h)
  OBVIOUS
<1>1. CASE SendPacket
  BY <1>1, SealIsSilent DEF SendPacket
<1>2. CASE Tick \/ Server \/ UNCHANGED vars
  <2>1. UNCHANGED <<session, previous, delivered, deliveries>>
    BY <1>2 DEF Tick, Server, ServerInitiate, ServerAnswer, ServerConfirm, ServerSend,
                vars, keys, history
  <2>2. QED
    BY <2>1 DEF Silent, Alike
<1>3. QED
  BY <1>1, <1>2, TimersAreSilent, ReceivingDelivers DEF Next

\* What a session holds it goes on holding, unless its keys are replaced.
LEMMA HoldsOn ==
  ASSUME NEW s, NEW t, Alike(s, t), Holds(s),
         \A c \in Nat : <<t.id, c>> \in delivered' => <<t.id, c>> \in delivered
  PROVE  t # None => /\ s # None /\ t.id = s.id
                     /\ Spent(s.id)
                     /\ \A c \in Nat : <<t.id, c>> \in delivered' => c \in t.received
BY DEF Holds, Alike

LEMMA DeliveriesStayHeld ==
  ASSUME TypeInv, DeliveriesHeld, \A h \in Handshake : Spent(h) => Spent(h)',
         \/ Silent
         \/ \E h \in Handshake, c \in Nat : Delivering(h, c)
         \/ \E h \in Handshake : Replacing(h)
  PROVE  DeliveriesHeld'
<1> DEFINE Keeps(t, id) == /\ t # None /\ t.id = id /\ Spent(id)
                           /\ \A c \in Nat : <<t.id, c>> \in delivered' => c \in t.received
<1>0. /\ session # None => session.id \in Handshake
      /\ previous # None => previous.id \in Handshake
  BY SessionsLive DEF LiveSession
<1>1. /\ delivered \subseteq Handshake \X Nat
      /\ \A h \in Handshake, c \in Nat : <<h, c>> \in delivered => Spent(h)
      /\ Holds(session) /\ Holds(previous)
      /\ session # None /\ previous # None => session.id # previous.id
  BY DEF DeliveriesHeld
<1>2. ASSUME /\ delivered' \subseteq Handshake \X Nat
             /\ \A h \in Handshake, c \in Nat : <<h, c>> \in delivered' => Spent(h)'
             /\ session' # None => session # None /\ Keeps(session', session.id)
             /\ previous' # None => previous # None /\ Keeps(previous', previous.id)
      PROVE  DeliveriesHeld'
  <2>1. Holds(session)'
    <3>1. session' # None => session.id \in Handshake /\ session'.id = session.id /\ Spent(session.id)
      BY <1>0, <1>2
    <3>2. session' # None => Spent(session.id)'
      BY <3>1
    <3>3. QED
      BY <1>2, <3>2 DEF Holds, None
  <2>2. Holds(previous)'
    <3>1. previous' # None => previous.id \in Handshake /\ previous'.id = previous.id /\ Spent(previous.id)
      BY <1>0, <1>2
    <3>2. previous' # None => Spent(previous.id)'
      BY <3>1
    <3>3. QED
      BY <1>2, <3>2 DEF Holds, None
  <2>3. session' # None /\ previous' # None => session'.id # previous'.id
    BY <1>1, <1>2
  <2>4. QED
    BY <1>2, <2>1, <2>2, <2>3 DEF DeliveriesHeld, None
<1>3. CASE Silent
  <2>1. delivered' = delivered /\ Alike(session, session') /\ Alike(previous, previous')
    BY <1>3 DEF Silent
  <2>2. session' # None => session # None /\ Keeps(session', session.id)
    BY <1>0, <1>1, <2>1, HoldsOn
  <2>3. previous' # None => previous # None /\ Keeps(previous', previous.id)
    BY <1>0, <1>1, <2>1, HoldsOn
  <2>4. QED
    BY <1>1, <1>2, <2>1, <2>2, <2>3
<1>4. ASSUME NEW h \in Handshake, NEW c \in Nat, Delivering(h, c) PROVE DeliveriesHeld'
  <2>1. delivered' = delivered \cup {<<h, c>>}
    BY <1>4 DEF Delivering, Deliver
  <2>2. ASSUME NEW s, NEW t, Opened(s, t, h, c), Holds(s)
        PROVE  s # None /\ Keeps(t, s.id)
    <3>1. s # None /\ t # None /\ s.id = h /\ t.id = h /\ t.received = s.received \cup {c}
      BY <2>2 DEF Opened
    <3>2. Spent(h) /\ \A d \in Nat : <<h, d>> \in delivered => d \in s.received
      BY <2>2, <3>1 DEF Holds
    <3>3. \A d \in Nat : <<h, d>> \in delivered' => <<h, d>> \in delivered \/ d = c
      BY <2>1
    <3>4. QED
      BY <3>1, <3>2, <3>3
  <2>3. ASSUME NEW s, NEW t, s # None => s.id \in Handshake, Alike(s, t), Holds(s),
               s # None => s.id # h
        PROVE  t # None => s # None /\ Keeps(t, s.id)
    <3> SUFFICES ASSUME t # None PROVE s # None /\ Keeps(t, s.id)
      OBVIOUS
    <3>1. s # None /\ t.id = s.id /\ t.received = s.received
      BY <2>3 DEF Alike
    <3>2. \A d \in Nat : <<t.id, d>> \in delivered' => <<t.id, d>> \in delivered
      BY <2>1, <2>3, <3>1
    <3>3. QED
      BY <2>3, <3>1, <3>2 DEF Holds
  <2>4. Spent(h)
    BY <1>1, <1>4 DEF Delivering, Opened, Holds
  <2>5. /\ delivered' \subseteq Handshake \X Nat
        /\ \A k \in Handshake, d \in Nat : <<k, d>> \in delivered' => Spent(k)'
    BY <1>1, <2>1, <2>4
  <2>6. CASE Opened(session, session', h, c) /\ Alike(previous, previous')
    <3>1. session # None /\ session.id = h
      BY <2>6 DEF Opened
    <3>2. previous # None => previous.id # h
      BY <1>1, <3>1
    <3>3. session # None /\ Keeps(session', session.id)
      BY <1>1, <2>2, <2>6
    <3>4. previous' # None => previous # None /\ Keeps(previous', previous.id)
      BY <1>0, <1>1, <2>3, <2>6, <3>2
    <3>5. QED
      BY <1>2, <2>5, <3>3, <3>4
  <2>7. CASE /\ Opened(previous, previous', h, c) /\ Alike(session, session')
             /\ session # None /\ session.id # h
    <3>1. previous # None /\ Keeps(previous', previous.id)
      BY <1>1, <2>2, <2>7
    <3>2. session' # None => session # None /\ Keeps(session', session.id)
      BY <1>0, <1>1, <2>3, <2>7
    <3>3. QED
      BY <1>2, <2>5, <3>1, <3>2
  <2>8. QED
    BY <1>4, <2>6, <2>7 DEF Delivering
<1>5. ASSUME NEW h \in Handshake, Replacing(h) PROVE DeliveriesHeld'
  <2>1. /\ delivered' = delivered /\ ~Spent(h) /\ Spent(h)'
        /\ session' = Session(h, now) /\ previous' \in {session, previous}
    BY <1>5 DEF Replacing
  <2>2. session'.id = h
    BY <2>1 DEF Session
  <2>3. \A c \in Nat : <<h, c>> \notin delivered
    BY <1>1, <2>1
  <2>4. Holds(session)'
    BY <2>1, <2>2, <2>3 DEF Holds
  <2>5. \A s \in {session, previous} :
          s # None => /\ s.id # h /\ Spent(s.id)'
                      /\ \A c \in Nat : <<s.id, c>> \in delivered' => c \in s.received
    BY <1>0, <1>1, <2>1 DEF Holds
  <2>6. Holds(previous)'
    BY <2>1, <2>5 DEF Holds, None
  <2>7. previous' # None => session'.id # previous'.id
    BY <2>1, <2>2, <2>5
  <2>8. \A k \in Handshake, c \in Nat : <<k, c>> \in delivered' => Spent(k)'
    BY <1>1, <2>1
  <2>9. QED
    BY <1>1, <2>1, <2>4, <2>6, <2>7, <2>8 DEF DeliveriesHeld, None
<1>6. QED
  BY <1>3, <1>4, <1>5

LEMMA DeliveriesStayCounted ==
  ASSUME DeliveriesHeld, DeliveriesCounted,
         \/ Silent
         \/ \E h \in Handshake, c \in Nat : Delivering(h, c)
         \/ \E h \in Handshake : Replacing(h)
  PROVE  DeliveriesCounted'
<1>1. CASE UNCHANGED <<delivered, deliveries>>
  BY <1>1 DEF DeliveriesCounted
<1>2. ASSUME NEW h \in Handshake, NEW c \in Nat, Delivering(h, c) PROVE DeliveriesCounted'
  <2>1. delivered' = delivered \cup {<<h, c>>} /\ deliveries' = deliveries + 1
    BY <1>2 DEF Delivering, Deliver
  <2>2. <<h, c>> \notin delivered
    BY <1>2 DEF DeliveriesHeld, Delivering, Opened, Holds
  <2>3. QED
    BY <2>1, <2>2, FS_AddElement DEF DeliveriesCounted
<1>3. QED
  BY <1>1, <1>2 DEF Silent, Replacing

LEMMA InitDelivery == Init => DeliveryInv
<1> SUFFICES ASSUME Init PROVE DeliveryInv
  OBVIOUS
<1>1. Apart
  BY NotAwaited DEF Init, Apart, Ours, Theirs
<1>2. DeliveriesHeld
  BY DEF Init, DeliveriesHeld, Holds
<1>3. DeliveriesCounted
  BY FS_EmptySet DEF Init, DeliveriesCounted
<1>4. QED
  BY <1>1, <1>2, <1>3, InitType DEF DeliveryInv

LEMMA NextDelivery == DeliveryInv /\ [Next]_vars => DeliveryInv'
<1> SUFFICES ASSUME DeliveryInv, [Next]_vars PROVE DeliveryInv'
  OBVIOUS
<1>1. TypeInv /\ Apart /\ DeliveriesHeld /\ DeliveriesCounted /\ TypeInv'
  BY NextType DEF DeliveryInv
<1>2. Apart' /\ \A h \in Handshake : Spent(h) => Spent(h)'
  BY <1>1, StepsBegin, HandshakesStay
<1>3. \/ Silent
      \/ \E h \in Handshake, c \in Nat : Delivering(h, c)
      \/ \E h \in Handshake : Replacing(h)
  BY <1>1, StepsDeliver
<1>4. DeliveriesHeld' /\ DeliveriesCounted'
  BY <1>1, <1>2, <1>3, DeliveriesStayHeld, DeliveriesStayCounted
<1>5. QED
  BY <1>1, <1>2, <1>4 DEF DeliveryInv

(***************************************************************************)
(* However the network repeats and reorders the server's packets, and      *)
(* however often the keys are replaced between two copies of one, each is  *)
(* handed up at most once: its window moves with its keys, and keys once   *)
(* given up are never taken again with an empty one.                       *)
(***************************************************************************)
THEOREM DeliveredOnce == Spec => []NeverDeliveredTwice
<1>1. DeliveryInv => NeverDeliveredTwice
  BY DEF DeliveryInv, DeliveriesCounted, NeverDeliveredTwice
<1>2. QED
  BY InitDelivery, NextDelivery, <1>1, PTL DEF Spec
-----------------------------------------------------------------------------
(* Time: the silence, the age of the keys, the rekey and the wait for it.  *)

Wanted == pending # None /\ pending.fresh

\* A wait for a datagram is shorter than a tick.
WaitIsShort == phase = "waiting" => now \in {checkedAt, checkedAt + 1}

\* Keys are young when the timers have let them pass, and replaced ones are
\* given up at a time reckoned from the rejection age of their own.
NotExpired == phase = "waiting" /\ state = "UP" => checkedAt - session.born < REJECT_AFTER
PreviousExpires ==
    previous # None =>
        /\ previousExpires <= previous.born + REJECT_AFTER + PREVIOUS_SESSION
        /\ phase = "waiting" /\ now = checkedAt => now < previousExpires

\* An answer that would be taken was asked for, within the last timeout.
WantedIsInFlight ==
    Wanted =>
        /\ state = "CONNECTING" \/ isRekeying
        /\ initiationSent <= spokeAt
        /\ phase = "waiting" => checkedAt - initiationSent < REKEY_TIMEOUT

\* lastSent runs ahead of the wire by no more than an answer may take.
SpokeForIt == lastSent <= spokeAt + REKEY_TIMEOUT
JustChecked ==
    phase = "waiting" /\ state = "UP" =>
       checkedAt - lastSent < KEEPALIVE_TIMEOUT \/ checkedAt = spokeAt

TimeInv ==
    /\ TypeInv /\ WaitIsShort /\ NotExpired /\ PreviousExpires
    /\ WantedIsInFlight /\ SpokeForIt /\ JustChecked
    /\ RekeyStartsInTime /\ WaitsForAnAnswer

LEMMA Times ==
  /\ {REKEY_AFTER, REJECT_AFTER, REKEY_TIMEOUT, PREVIOUS_SESSION, KEEPALIVE_TIMEOUT}
       \subseteq Nat \ {0}
  /\ KeepaliveInterval \in Nat /\ KeepaliveInterval <= KEEPALIVE_TIMEOUT
BY TimingAssumption DEF KeepaliveInterval

LEMMA Clocks ==
  ASSUME TypeInv
  PROVE  /\ {now, checkedAt, lastSent, spokeAt, initiationSent, previousExpires} \subseteq Nat
         /\ checkedAt <= now /\ spokeAt <= now /\ lastSent <= now /\ initiationSent <= now
         /\ session # None => session.born \in Nat
         /\ previous # None => previous.born \in Nat
         /\ state = "UP" <=> session # None
<1>1. /\ now \in 0 .. MaxTime /\ checkedAt \in 0 .. now /\ previousExpires \in Nat
      /\ {initiationSent, lastSent, spokeAt} \subseteq 0 .. now
  BY DEF TypeInv, TypeOK
<1>2. {now, checkedAt, lastSent, spokeAt, initiationSent, previousExpires} \subseteq Nat
  BY <1>1, Constants
<1>3. checkedAt <= now /\ spokeAt <= now /\ lastSent <= now /\ initiationSent <= now
  BY <1>1, Constants
<1>4. QED
  BY <1>2, <1>3, SessionsLive DEF LiveSession

\* The four ways a call of runTimers can go.
Kept(s, t) == t # None => s # None /\ t.born = s.born

TimersRun ==
    /\ phase = "idle" /\ now' = now /\ checkedAt' = now /\ previousExpires' = previousExpires
    /\ previous' = IF now >= previousExpires THEN None ELSE previous
Asking ==
    /\ phase' = "waiting" /\ pending' # None /\ pending'.fresh
    /\ state' = "CONNECTING" \/ isRekeying'
    /\ initiationSent' = now /\ spokeAt' = now /\ lastSent' = lastSent
    /\ state' = "UP" => ~Expired /\ Kept(session, session') /\ isRekeying'
AskingFails ==
    /\ phase' = "idle" /\ pending' = None
    /\ UNCHANGED <<initiationSent, spokeAt, lastSent>>
    /\ state' = "UP" => Kept(session, session') /\ isRekeying'
NotAsking ==
    /\ UNCHANGED <<pending, initiationSent, isRekeying, state>>
    /\ ~Expired /\ ~ResendDue /\ Kept(session, session')
    /\ state = "UP" => ~RekeyDue
    /\ \/ phase' = "waiting" /\ spokeAt' = now /\ lastSent' = now
       \/ /\ phase' = "waiting" /\ UNCHANGED <<spokeAt, lastSent>>
          /\ state = "UP" => now - lastSent < KeepaliveInterval
       \/ phase' = "idle" /\ UNCHANGED <<spokeAt, lastSent>>

\* What sending an initiation comes to, whoever sends it.
LEMMA InitiationGoes ==
  ASSUME TypeInv, NEW from, NEW tried, SendInitiation(from, tried),
         UNCHANGED lastSent,
         from = "DOWN" \/ isRekeying' \/ from = "CONNECTING",
         from = "UP" => ~Expired /\ Kept(session, session') /\ isRekeying'
  PROVE  Asking \/ AskingFails
<1>1. CASE /\ handshakes < MaxHandshake /\ handshakes' = handshakes + 1
           /\ pending' = [id |-> handshakes', fresh |-> TRUE]
           /\ initiationSent' = now /\ Sent /\ phase' = "waiting"
           /\ state' = IF from = "DOWN" THEN "CONNECTING" ELSE from
  <2>1. handshakes' # 0
    BY <1>1, Constants DEF TypeInv, TypeOK
  <2>2. pending'.id # None.id /\ pending'.fresh
    BY <1>1, <2>1 DEF None
  <2>3. pending' # None
    BY <2>2
  <2>4. QED
    BY <1>1, <2>2, <2>3 DEF Asking, Sent
<1>2. CASE /\ NotSent \/ UNCHANGED spokeAt
           /\ pending' = None /\ state' = from /\ phase' = "idle" /\ UNCHANGED initiationSent
  BY <1>2 DEF AskingFails, NotSent
<1>3. QED
  BY <1>1, <1>2 DEF SendInitiation

LEMMA Surviving == StateNow # "DOWN" => ~Expired /\ StateNow = state
BY Zenon DEF StateNow

LEMMA TimersGo ==
  TypeInv /\ RunTimers => TimersRun /\ (Asking \/ AskingFails \/ NotAsking)
<1> SUFFICES ASSUME TypeInv, RunTimers
             PROVE  TimersRun /\ (Asking \/ AskingFails \/ NotAsking)
  OBVIOUS
<1>1. TimersRun
  BY DEF RunTimers, TimersRun
<1>2. CASE Reconnect
  <2>1. SendInitiation("DOWN", attempts) /\ UNCHANGED lastSent
    BY <1>2 DEF Reconnect
  <2>2. QED
    BY <1>1, <2>1, InitiationGoes, Zenon
<1>3. CASE Resend
  <2>1. StateNow # "DOWN" /\ ResendDue /\ ~Expired /\ StateNow = state
    BY <1>3, Surviving DEF Resend
  <2>2. CASE GivingUp
    <3>1. SendInitiation("DOWN", 0) /\ UNCHANGED lastSent
      BY <1>3, <2>2 DEF Resend
    <3>2. QED
      BY <1>1, <3>1, InitiationGoes, Zenon
  <2>3. CASE ~GivingUp
    <3>1. SendInitiation(state, attempts) /\ UNCHANGED <<session, isRekeying, lastSent>>
      BY <1>3, <2>3 DEF Resend
    <3>2. state = "CONNECTING" \/ isRekeying'
      BY <2>1, <3>1, Zenon DEF ResendDue, InFlight
    <3>3. Kept(session, session')
      BY <3>1 DEF Kept
    <3>4. QED
      BY <1>1, <2>1, <3>1, <3>2, <3>3, InitiationGoes
  <2>4. QED
    BY <2>2, <2>3
<1>4. CASE StartRekey
  <2>1. ~Expired
    BY <1>4, Surviving DEF StartRekey
  <2>2. SendInitiation("UP", 0) /\ isRekeying' /\ UNCHANGED <<session, lastSent>>
    BY <1>4 DEF StartRekey
  <2>3. Kept(session, session')
    BY <2>2 DEF Kept
  <2>4. QED
    BY <1>1, <2>1, <2>2, <2>3, InitiationGoes
<1>5. CASE Keepalive
  <2>1. ~Expired /\ state = "UP" /\ ~ResendDue /\ ~RekeyDue /\ Seal
    BY <1>5, Surviving DEF Keepalive
  <2>2. Kept(session, session')
    <3>1. session \in LiveSession
      BY <2>1, SessionsLive
    <3>2. session' = [session EXCEPT !.counter = @ + 1]
      BY <2>1 DEF Seal
    <3>3. session'.born = session.born
      BY <3>1, <3>2 DEF LiveSession
    <3>4. QED
      BY <3>1, <3>3, LiveIsNotNone DEF Kept
  <2>3. UNCHANGED <<pending, initiationSent, isRekeying, state>>
    BY <1>5 DEF Keepalive
  <2>4. \/ phase' = "waiting" /\ spokeAt' = now /\ lastSent' = now
        \/ phase' = "idle" /\ UNCHANGED <<spokeAt, lastSent>>
    BY <1>5 DEF Keepalive, Sent, NotSent
  <2>5. QED
    BY <1>1, <2>1, <2>2, <2>3, <2>4 DEF NotAsking
<1>6. CASE NothingDue
  <2>1. ~Expired /\ ~ResendDue /\ StateNow = state
    BY <1>6, Surviving DEF NothingDue
  <2>2. state = "UP" => ~RekeyDue /\ now - lastSent < KeepaliveInterval
    BY <1>6, <2>1 DEF NothingDue
  <2>3. UNCHANGED <<pending, initiationSent, isRekeying, state, session, spokeAt, lastSent>>
        /\ phase' = "waiting"
    BY <1>6 DEF NothingDue, handshake
  <2>4. Kept(session, session')
    BY <2>3 DEF Kept
  <2>5. QED
    BY <1>1, <2>1, <2>2, <2>3, <2>4 DEF NotAsking
<1>7. QED
  BY <1>1, <1>2, <1>3, <1>4, <1>5, <1>6 DEF RunTimers

LEMMA TimersKeepTime == TimeInv /\ RunTimers => TimeInv'
<1> SUFFICES ASSUME TimeInv, RunTimers PROVE TimeInv'
  OBVIOUS
<1>0. TypeInv /\ TypeInv'
  BY TimersType DEF TimeInv
<1>1. TimersRun /\ (Asking \/ AskingFails \/ NotAsking)
  BY <1>0, TimersGo
<1>2. now' = now /\ checkedAt' = now /\ now \in Nat
  BY <1>0, <1>1, Clocks DEF TimersRun
<1>3. ASSUME state' = "UP"
      PROVE  /\ state = "UP" /\ session'.born = session.born /\ session.born \in Nat
             /\ session # None
  <2>1. session' # None
    BY <1>0, <1>3, SessionsLive DEF TypeInv, TypeOK
  <2>2. Kept(session, session')
    BY <1>1, <1>3 DEF Asking, AskingFails, NotAsking
  <2>3. session # None /\ session'.born = session.born
    BY <2>1, <2>2 DEF Kept
  <2>4. state = "UP" /\ session.born \in Nat
    BY <1>0, <2>3, Clocks
  <2>5. QED
    BY <2>3, <2>4
<1>4. WaitIsShort'
  BY <1>2 DEF WaitIsShort
<1>5. NotExpired'
  <2> SUFFICES ASSUME phase' = "waiting", state' = "UP"
               PROVE  checkedAt' - session'.born < REJECT_AFTER
    BY DEF NotExpired
  <2>1. ~Expired
    BY <1>1 DEF Asking, AskingFails, NotAsking
  <2>2. QED
    BY <1>2, <1>3, <2>1, Times DEF Expired
<1>6. PreviousExpires'
  <2> SUFFICES ASSUME previous' # None
               PROVE  /\ previousExpires' <= previous'.born + REJECT_AFTER + PREVIOUS_SESSION
                      /\ now' < previousExpires'
    BY DEF PreviousExpires, None
  <2>1. previous' = previous /\ ~(now >= previousExpires) /\ previousExpires' = previousExpires
    BY <1>1 DEF TimersRun
  <2>2. previousExpires \in Nat
    BY <1>0, Clocks
  <2>3. QED
    BY <1>2, <2>1, <2>2 DEF TimeInv, PreviousExpires
<1>7. WantedIsInFlight'
  <2>1. CASE Asking
    <3>1. initiationSent' = now /\ spokeAt' = now /\ (state' = "CONNECTING" \/ isRekeying')
      BY <2>1 DEF Asking
    <3>2. now - now < REKEY_TIMEOUT /\ now <= now
      BY <1>2, Times
    <3>3. QED
      BY <1>2, <3>1, <3>2 DEF WantedIsInFlight
  <2>2. CASE AskingFails
    BY <2>2 DEF AskingFails, WantedIsInFlight, Wanted, None
  <2>3. CASE NotAsking
    <3> SUFFICES ASSUME Wanted'
                 PROVE  /\ state' = "CONNECTING" \/ isRekeying'
                        /\ initiationSent' <= spokeAt'
                        /\ checkedAt' - initiationSent' < REKEY_TIMEOUT
      BY DEF WantedIsInFlight
    <3>1. UNCHANGED <<pending, initiationSent, isRekeying, state>> /\ ~Expired /\ ~ResendDue
          /\ spokeAt' \in {now, spokeAt}
      BY <2>3 DEF NotAsking
    <3>2. Wanted
      BY <3>1 DEF Wanted, None
    <3>3. (state = "CONNECTING" \/ isRekeying) /\ initiationSent <= spokeAt
      BY <3>2 DEF TimeInv, WantedIsInFlight
    <3>4. InFlight
      BY <3>1, <3>3, Zenon DEF InFlight, StateNow
    <3>5. ~(now - initiationSent >= REKEY_TIMEOUT)
      BY <3>1, <3>4 DEF ResendDue
    <3>6. now - initiationSent < REKEY_TIMEOUT /\ initiationSent <= spokeAt'
      BY <1>0, <3>1, <3>3, <3>5, Clocks, Times
    <3>7. QED
      BY <1>2, <3>1, <3>3, <3>6
  <2>4. QED
    BY <1>1, <2>1, <2>2, <2>3
<1>8. SpokeForIt'
  <2>1. \/ spokeAt' = spokeAt /\ lastSent' = lastSent
        \/ spokeAt' = now /\ lastSent' \in {now, lastSent}
    BY <1>1 DEF Asking, AskingFails, NotAsking
  <2>2. lastSent <= spokeAt + REKEY_TIMEOUT
    BY DEF TimeInv, SpokeForIt
  <2>3. lastSent' <= spokeAt' + REKEY_TIMEOUT
    BY <1>0, <2>1, <2>2, Clocks, Times
  <2>4. QED
    BY <2>3 DEF SpokeForIt
<1>9. JustChecked'
  <2> SUFFICES ASSUME phase' = "waiting", state' = "UP"
               PROVE  now - lastSent' < KEEPALIVE_TIMEOUT \/ now = spokeAt'
    BY <1>2 DEF JustChecked
  <2>1. \/ spokeAt' = now
        \/ lastSent' = lastSent /\ now - lastSent < KeepaliveInterval
    BY <1>1 DEF Asking, AskingFails, NotAsking
  <2>2. QED
    BY <1>0, <2>1, Clocks, Times
<1>10. RekeyStartsInTime'
  <2> SUFFICES ASSUME state' = "UP", now - session'.born >= REKEY_AFTER
               PROVE  isRekeying'
    BY <1>2 DEF RekeyStartsInTime
  <2>1. CASE Asking \/ AskingFails
    BY <2>1 DEF Asking, AskingFails
  <2>2. CASE NotAsking
    <3>1. ~RekeyDue /\ isRekeying' = isRekeying /\ now - session.born >= REKEY_AFTER
      BY <1>3, <2>2 DEF NotAsking
    <3>2. QED
      BY <3>1, Zenon DEF RekeyDue
  <2>3. QED
    BY <1>1, <2>1, <2>2
<1>11. WaitsForAnAnswer'
  BY <1>1 DEF TimeInv, WaitsForAnAnswer, Asking, AskingFails, NotAsking, None
<1>12. QED
  BY <1>0, <1>4, <1>5, <1>6, <1>7, <1>8, <1>9, <1>10, <1>11 DEF TimeInv

\* The two ways the rest of a turn, or a call of the caller, can go: keys are
\* used, or new ones are taken up.
Idling == phase' = "idle" /\ UNCHANGED <<now, checkedAt>>
Using ==
    /\ UNCHANGED <<state, isRekeying, pending, previousExpires, initiationSent>>
    /\ Kept(session, session') /\ Kept(previous, previous')
    /\ spokeAt' \in {spokeAt, now}
    /\ lastSent' = lastSent \/ (lastSent' = now /\ spokeAt' = now)
TakingUp(h) ==
    /\ state' = "UP" /\ session' = Session(h, now) /\ isRekeying' = FALSE
    /\ \/ state = "UP" /\ previous' = session /\ previousExpires' = now + PREVIOUS_SESSION
       \/ UNCHANGED <<previous, previousExpires>>
    /\ pending' = [id |-> h, fresh |-> FALSE] /\ UNCHANGED initiationSent
    /\ lastSent' = now
    /\ spokeAt' = now \/ (spokeAt' = spokeAt /\ Wanted)

LEMMA AdoptingTakesUp ==
  ASSUME NEW h \in Handshake, adoptHandshake(h), UNCHANGED initiationSent,
         pending' = [id |-> h, fresh |-> FALSE],
         spokeAt' = now \/ (spokeAt' = spokeAt /\ Wanted)
  PROVE  TakingUp(h)
BY DEF adoptHandshake, TakingUp, RekeyingOnceAdopted, Replaced, Grace

LEMMA ReceivedKept ==
  ASSUME NEW s \in LiveSession, NEW c \in Nat
  PROVE  /\ Kept(s, Received(s, c))
         /\ Kept(s, [s EXCEPT !.counter = @ + 1])
         /\ Kept(s, Received([s EXCEPT !.counter = @ + 1], c))
<1> DEFINE counted == [s EXCEPT !.counter = @ + 1]
<1>1. s # None /\ counted \in LiveSession /\ counted.born = s.born
  BY LiveIsNotNone, Counted DEF LiveSession
<1>2. ASSUME NEW t \in LiveSession PROVE Received(t, c).born = t.born
  BY DEF Received, LiveSession
<1>3. Received(s, c).born = s.born /\ Received(counted, c).born = s.born
  BY <1>1, <1>2
<1>4. QED
  BY <1>1, <1>3 DEF Kept

LEMMA DataUses ==
  ASSUME TypeInv, NEW h \in Handshake, NEW c \in 0 .. MaxServerData - 1,
         TakeData(h, c) \/ TakePing(h, c)
  PROVE  Using
<1>1. c \in Nat
  OBVIOUS
<1>2. UNCHANGED <<state, isRekeying, pending, previousExpires, initiationSent>>
  BY DEF TakeData, TakePing, handshake
<1>3. spokeAt' \in {spokeAt, now} /\ (lastSent' = lastSent \/ (lastSent' = now /\ spokeAt' = now))
  BY DEF TakeData, TakePing, Sent, NotSent
<1>4. Kept(previous, previous')
  <2>1. \/ previous' = previous
        \/ previous # None /\ previous' = Received(previous, c)
    BY DEF TakeData, TakePing, OpensWithPrevious
  <2>2. previous # None => Kept(previous, Received(previous, c))
    BY <1>1, SessionsLive, ReceivedKept
  <2>3. Kept(previous, previous)
    BY DEF Kept
  <2>4. QED
    BY <2>1, <2>2, <2>3
<1>5. Kept(session, session')
  <2> DEFINE counted == [session EXCEPT !.counter = @ + 1]
  <2>1. \/ session' = session
        \/ state = "UP" /\ session' \in {counted, Received(session, c), Received(counted, c)}
    BY DEF TakeData, TakePing, OpensWithSession, OpensWithPrevious
  <2>2. state = "UP" => session \in LiveSession
    BY SessionsLive
  <2>3. CASE session' = session
    BY <2>3 DEF Kept
  <2>4. CASE state = "UP" /\ session' \in {counted, Received(session, c), Received(counted, c)}
    <3>1. /\ Kept(session, Received(session, c)) /\ Kept(session, counted)
          /\ Kept(session, Received(counted, c))
      BY <1>1, <2>2, <2>4, ReceivedKept
    <3>2. QED
      BY <2>4, <3>1
  <2>5. QED
    BY <2>1, <2>3, <2>4
<1>6. QED
  BY <1>2, <1>3, <1>4, <1>5 DEF Using

LEMMA ReceivingUses ==
  TypeInv /\ Receive
    => phase = "waiting" /\ Idling /\ (Using \/ \E h \in Handshake : TakingUp(h))
<1> SUFFICES ASSUME TypeInv, Receive
             PROVE  phase = "waiting" /\ Idling /\ (Using \/ \E h \in Handshake : TakingUp(h))
  OBVIOUS
<1>1. phase = "waiting" /\ Idling
  BY DEF Receive, Idling
<1>2. UNCHANGED keys /\ UNCHANGED handshake /\ UNCHANGED lastSent /\ spokeAt' = spokeAt => Using
  BY DEF keys, handshake, Using, Kept
<1>3. ASSUME NEW h \in Handshake, TakeResponse(h) PROVE Using \/ TakingUp(h)
  <2>1. UNCHANGED <<initiationSent, spokeAt>>
    BY <1>3 DEF TakeResponse
  <2>2. CASE Opens(h)
    <3>1. pending' = [id |-> h, fresh |-> FALSE] /\ adoptHandshake(h)
      BY <1>3, <2>2 DEF TakeResponse
    <3>2. pending.id # None.id /\ pending.fresh
      BY <2>2 DEF Opens, Handshake, None
    <3>3. Wanted
      BY <3>2 DEF Wanted
    <3>4. QED
      BY <2>1, <3>1, <3>3, AdoptingTakesUp
  <2>3. CASE ~Opens(h)
    BY <1>2, <1>3, <2>1, <2>3 DEF TakeResponse
  <2>4. QED
    BY <2>2, <2>3
<1>4. ASSUME NEW h \in Handshake, TakeInitiation(h) PROVE Using \/ TakingUp(h)
  <2>1. UNCHANGED initiationSent
    BY <1>4 DEF TakeInitiation
  <2>2. CASE adoptHandshake(h) /\ pending' = [id |-> h, fresh |-> FALSE] /\ Sent
    BY <2>1, <2>2, AdoptingTakesUp DEF Sent
  <2>3. CASE UNCHANGED <<keys, handshake, lastSent, spokeAt>>
    BY <1>2, <2>3
  <2>4. QED
    BY <1>4, <2>2, <2>3 DEF TakeInitiation, NotSent
<1>5. TakeNothing => Using
  BY <1>2 DEF TakeNothing
<1>6. ASSUME NEW h \in Handshake, NEW c \in 0 .. MaxServerData - 1,
             TakeData(h, c) \/ TakePing(h, c)
      PROVE  Using
  BY <1>6, DataUses
<1>7. \/ TakeNothing
      \/ \E h \in Handshake : TakeResponse(h) \/ TakeInitiation(h)
      \/ \E h \in Handshake, c \in 0 .. MaxServerData - 1 : TakeData(h, c) \/ TakePing(h, c)
  BY DEF Receive
<1>8. Using \/ \E h \in Handshake : TakingUp(h)
  BY <1>3, <1>4, <1>5, <1>6, <1>7
<1>9. QED
  BY <1>1, <1>8

LEMMA SendPacketUses == TypeInv /\ SendPacket => Idling /\ Using
<1> SUFFICES ASSUME TypeInv, SendPacket PROVE Idling /\ Using
  OBVIOUS
<1>1. Idling
  BY DEF SendPacket, Idling, timing
<1>2. session \in LiveSession /\ session' = [session EXCEPT !.counter = @ + 1]
  BY SessionsLive DEF SendPacket, Seal
<1>3. Kept(session, session')
  BY <1>2, ReceivedKept
<1>4. UNCHANGED <<state, previous, isRekeying, pending, previousExpires, initiationSent>>
  BY DEF SendPacket, handshake
<1>5. spokeAt' \in {spokeAt, now} /\ (lastSent' = lastSent \/ (lastSent' = now /\ spokeAt' = now))
  BY DEF SendPacket, Sent, NotSent
<1>6. QED
  BY <1>1, <1>3, <1>4, <1>5 DEF Using, Kept

LEMMA UsingKeepsTime == TimeInv /\ TypeInv' /\ Idling /\ Using => TimeInv'
<1> SUFFICES ASSUME TimeInv, TypeInv', Idling, Using PROVE TimeInv'
  OBVIOUS
<1>0. /\ TypeInv /\ now' = now /\ checkedAt' = checkedAt /\ phase' = "idle"
      /\ UNCHANGED <<state, isRekeying, pending, previousExpires, initiationSent>>
  BY DEF TimeInv, Idling, Using
<1>1. WaitIsShort' /\ NotExpired' /\ JustChecked'
  BY <1>0 DEF WaitIsShort, NotExpired, JustChecked
<1>2. PreviousExpires'
  <2>1. previous' # None => previous # None /\ previous'.born = previous.born
    BY DEF Using, Kept
  <2>2. QED
    BY <1>0, <2>1 DEF TimeInv, PreviousExpires, None
<1>3. spokeAt \in Nat /\ spokeAt' \in Nat /\ spokeAt <= spokeAt' /\ now \in Nat
      /\ initiationSent \in Nat /\ lastSent \in Nat
  BY <1>0, Clocks DEF Using
<1>4. WantedIsInFlight'
  <2>1. Wanted' => Wanted
    BY <1>0 DEF Wanted, None
  <2>2. Wanted => (state = "CONNECTING" \/ isRekeying) /\ initiationSent <= spokeAt'
    BY <1>3 DEF TimeInv, WantedIsInFlight
  <2>3. QED
    BY <1>0, <2>1, <2>2 DEF WantedIsInFlight
<1>5. SpokeForIt'
  <2>1. lastSent <= spokeAt + REKEY_TIMEOUT
    BY DEF TimeInv, SpokeForIt
  <2>2. lastSent' = lastSent \/ (lastSent' = now /\ spokeAt' = now)
    BY DEF Using
  <2>3. lastSent' <= spokeAt' + REKEY_TIMEOUT
    BY <1>3, <2>1, <2>2, Times
  <2>4. QED
    BY <2>3 DEF SpokeForIt
<1>6. RekeyStartsInTime'
  <2>1. state' = "UP" => session'.born = session.born
    <3>1. state' = "UP" => session' # None
      BY SessionsLive DEF TypeInv, TypeOK
    <3>2. QED
      BY <3>1 DEF Using, Kept
  <2>2. QED
    BY <1>0, <2>1 DEF TimeInv, RekeyStartsInTime
<1>7. WaitsForAnAnswer'
  BY <1>0 DEF TimeInv, WaitsForAnAnswer, None
<1>8. QED
  BY <1>1, <1>2, <1>4, <1>5, <1>6, <1>7 DEF TimeInv

LEMMA TakingUpKeepsTime ==
  ASSUME TimeInv, TypeInv', Idling, phase = "waiting", NEW h \in Handshake, TakingUp(h)
  PROVE  TimeInv'
<1>0. /\ TypeInv /\ now' = now /\ checkedAt' = checkedAt /\ phase' = "idle"
      /\ state' = "UP" /\ isRekeying' = FALSE /\ session'.born = now
      /\ pending' = [id |-> h, fresh |-> FALSE] /\ initiationSent' = initiationSent
      /\ lastSent' = now
  BY DEF TimeInv, Idling, TakingUp, Session
<1>1. now \in Nat /\ checkedAt \in Nat /\ now <= checkedAt + 1 /\ checkedAt <= now
  BY <1>0, Clocks DEF TimeInv, WaitIsShort
<1>2. WaitIsShort' /\ NotExpired' /\ JustChecked'
  BY <1>0 DEF WaitIsShort, NotExpired, JustChecked
<1>3. PreviousExpires'
  <2>1. CASE state = "UP" /\ previous' = session /\ previousExpires' = now + PREVIOUS_SESSION
    <3>1. checkedAt - session.born < REJECT_AFTER /\ session.born \in Nat
      BY <1>0, <2>1, Clocks DEF TimeInv, NotExpired
    <3>2. now + PREVIOUS_SESSION <= session.born + REJECT_AFTER + PREVIOUS_SESSION
      BY <1>1, <3>1, Times
    <3>3. QED
      BY <1>0, <2>1, <3>2 DEF PreviousExpires
  <2>2. CASE UNCHANGED <<previous, previousExpires>>
    BY <1>0, <2>2 DEF TimeInv, PreviousExpires, None
  <2>3. QED
    BY <2>1, <2>2 DEF TakingUp
<1>4. WantedIsInFlight'
  BY <1>0 DEF WantedIsInFlight, Wanted
<1>5. SpokeForIt'
  <2>1. CASE spokeAt' = now
    BY <1>0, <1>1, <2>1, Times DEF SpokeForIt
  <2>2. CASE spokeAt' = spokeAt /\ Wanted
    <3>1. initiationSent <= spokeAt /\ checkedAt - initiationSent < REKEY_TIMEOUT
      BY <2>2 DEF TimeInv, WantedIsInFlight
    <3>2. initiationSent \in Nat /\ spokeAt \in Nat
      BY <1>0, Clocks
    <3>3. now <= spokeAt + REKEY_TIMEOUT
      BY <1>1, <3>1, <3>2, Times
    <3>4. QED
      BY <1>0, <2>2, <3>3 DEF SpokeForIt
  <2>3. QED
    BY <2>1, <2>2 DEF TakingUp
<1>6. RekeyStartsInTime'
  BY <1>0, <1>1, Times DEF RekeyStartsInTime
<1>7. WaitsForAnAnswer'
  BY <1>0 DEF WaitsForAnAnswer
<1>8. QED
  BY <1>2, <1>3, <1>4, <1>5, <1>6, <1>7 DEF TimeInv

LEMMA TickKeepsTime == TimeInv /\ Tick => TimeInv'
<1> SUFFICES ASSUME TimeInv, Tick PROVE TimeInv'
  OBVIOUS
<1>0. /\ TypeInv /\ TypeInv' /\ now' = now + 1 /\ (phase = "waiting" => now = checkedAt)
      /\ UNCHANGED <<phase, checkedAt, state, session, previous, previousExpires, pending,
                     isRekeying, initiationSent, lastSent, spokeAt>>
  BY TickTypes DEF TimeInv, Tick, keys, handshake, history
<1>1. now \in Nat
  BY <1>0, Clocks
<1>2. WaitIsShort' /\ (phase' = "waiting" => now' # checkedAt')
  BY <1>0, <1>1 DEF WaitIsShort
<1>3. PreviousExpires'
  BY <1>0, <1>2 DEF TimeInv, PreviousExpires, None
<1>4. NotExpired' /\ JustChecked' /\ SpokeForIt' /\ RekeyStartsInTime'
  BY <1>0 DEF TimeInv, NotExpired, JustChecked, SpokeForIt, RekeyStartsInTime
<1>5. WantedIsInFlight' /\ WaitsForAnAnswer'
  BY <1>0 DEF TimeInv, WantedIsInFlight, Wanted, WaitsForAnAnswer, None
<1>6. QED
  BY <1>0, <1>2, <1>3, <1>4, <1>5 DEF TimeInv

\* What the server does, and a step in which nothing happens, touch no clock.
LEMMA ElsewhereKeepsTime == TimeInv /\ TypeInv' /\ (Server \/ UNCHANGED vars) => TimeInv'
<1> SUFFICES ASSUME TimeInv, TypeInv', Server \/ UNCHANGED vars PROVE TimeInv'
  OBVIOUS
<1>0. UNCHANGED <<now, phase, checkedAt, state, session, previous, previousExpires, pending,
                  isRekeying, initiationSent, lastSent, spokeAt>>
  BY DEF Server, ServerInitiate, ServerAnswer, ServerConfirm, ServerSend, vars, timing, keys,
         handshake, history
<1>1. WaitIsShort' /\ NotExpired' /\ JustChecked' /\ SpokeForIt' /\ RekeyStartsInTime'
  BY <1>0 DEF TimeInv, WaitIsShort, NotExpired, JustChecked, SpokeForIt, RekeyStartsInTime
<1>2. PreviousExpires' /\ WantedIsInFlight' /\ WaitsForAnAnswer'
  BY <1>0 DEF TimeInv, PreviousExpires, WantedIsInFlight, Wanted, WaitsForAnAnswer, None
<1>3. QED
  BY <1>1, <1>2 DEF TimeInv

LEMMA InitTime == Init => TimeInv
<1> SUFFICES ASSUME Init PROVE TimeInv
  OBVIOUS
<1>1. TypeInv
  BY InitType
<1>2. WaitIsShort /\ NotExpired /\ JustChecked /\ PreviousExpires /\ WantedIsInFlight
  BY DEF Init, WaitIsShort, NotExpired, JustChecked, PreviousExpires, WantedIsInFlight, Wanted
<1>3. SpokeForIt
  BY Times DEF Init, SpokeForIt
<1>4. RekeyStartsInTime /\ WaitsForAnAnswer
  BY DEF Init, RekeyStartsInTime, WaitsForAnAnswer
<1>5. QED
  BY <1>1, <1>2, <1>3, <1>4 DEF TimeInv

LEMMA NextTime == TimeInv /\ [Next]_vars => TimeInv'
<1> SUFFICES ASSUME TimeInv, [Next]_vars PROVE TimeInv'
  OBVIOUS
<1>1. TypeInv /\ TypeInv'
  BY NextType DEF TimeInv
<1>2. CASE RunTimers
  BY <1>2, TimersKeepTime
<1>3. CASE Receive
  BY <1>1, <1>3, ReceivingUses, UsingKeepsTime, TakingUpKeepsTime
<1>4. CASE SendPacket
  BY <1>1, <1>4, SendPacketUses, UsingKeepsTime
<1>5. CASE Tick
  BY <1>5, TickKeepsTime
<1>6. CASE Server \/ UNCHANGED vars
  BY <1>1, <1>6, ElsewhereKeepsTime
<1>7. QED
  BY <1>2, <1>3, <1>4, <1>5, <1>6 DEF Next

LEMMA TimeHolds == Spec => []TimeInv
BY InitTime, NextTime, PTL DEF Spec

(***************************************************************************)
(* On a live session the wire is never silent for longer than a keepalive  *)
(* interval and one wait for an answer, whatever interval is configured:   *)
(* lastSent may be set by an answer with nothing sent, but only to one     *)
(* that was asked for within the last timeout.                             *)
(***************************************************************************)
THEOREM NeverSilentLong == Spec => []SilenceBounded
<1>1. TimeInv => SilenceBounded
  <2> SUFFICES ASSUME TimeInv, phase = "waiting", now = checkedAt, state = "UP"
               PROVE  now - spokeAt < KEEPALIVE_TIMEOUT + REKEY_TIMEOUT
    BY DEF SilenceBounded
  <2>1. {now, lastSent, spokeAt} \subseteq Nat
    BY Clocks DEF TimeInv
  <2>2. now - lastSent < KEEPALIVE_TIMEOUT \/ now = spokeAt
    BY DEF TimeInv, JustChecked
  <2>3. lastSent <= spokeAt + REKEY_TIMEOUT
    BY DEF TimeInv, SpokeForIt
  <2>4. QED
    BY <2>1, <2>2, <2>3, Times
<1>2. QED
  BY <1>1, TimeHolds, PTL

(***************************************************************************)
(* Once the timers have run, no key that would still open a packet is      *)
(* older than the rejection age and the grace its successor gave it,       *)
(* however late the turn in which the successor came.                      *)
(***************************************************************************)
THEOREM KeysAlwaysAgeOut == Spec => []KeysAgeOut
<1>1. TimeInv => KeysAgeOut
  <2> SUFFICES ASSUME TimeInv, phase = "waiting", now = checkedAt, state = "UP"
               PROVE  /\ now - session.born < REJECT_AFTER
                      /\ previous # None =>
                            now - previous.born < REJECT_AFTER + PREVIOUS_SESSION
    BY DEF KeysAgeOut
  <2>1. now - session.born < REJECT_AFTER
    BY DEF TimeInv, NotExpired
  <2>2. ASSUME previous # None
        PROVE  now - previous.born < REJECT_AFTER + PREVIOUS_SESSION
    <3>1. /\ previousExpires <= previous.born + REJECT_AFTER + PREVIOUS_SESSION
          /\ now < previousExpires
      BY <2>2 DEF TimeInv, PreviousExpires
    <3>2. {now, previousExpires, previous.born} \subseteq Nat
      BY <2>2, Clocks DEF TimeInv
    <3>3. QED
      BY <3>1, <3>2, Times
  <2>3. QED
    BY <2>1, <2>2
<1>2. QED
  BY <1>1, TimeHolds, PTL

(***************************************************************************)
(* A session past its rekey age when the timers ran is always being        *)
(* replaced, whatever failed to send.                                      *)
(***************************************************************************)
THEOREM RekeyAlwaysStarts == Spec => []RekeyStartsInTime
<1>1. TimeInv => RekeyStartsInTime
  BY DEF TimeInv
<1>2. QED
  BY <1>1, TimeHolds, PTL

(***************************************************************************)
(* A handshake held to be in flight can always still be answered, or was   *)
(* never sent, whichever side's handshakes crossed in between.             *)
(***************************************************************************)
THEOREM NeverWaitsInVain == Spec => []WaitsForAnAnswer
<1>1. TimeInv => WaitsForAnAnswer
  BY DEF TimeInv
<1>2. QED
  BY <1>1, TimeHolds, PTL
=============================================================================
