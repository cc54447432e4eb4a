------------------------------ MODULE WgReplay ------------------------------
(***************************************************************************)
(* The replay window of wg-replay.c: the newest counter let through and,   *)
(* for the WINDOW counters up to it, which have arrived.  Bit a of the     *)
(* code's 64-bit seenBefore stands for the counter a below the newest, so  *)
(* the mask is the set of those ages and a left shift adds to each.        *)
(***************************************************************************)
EXTENDS Integers

CONSTANTS Counter,   \* the counters packets arrive with (uint64_t in the code)
          WINDOW     \* WG_REPLAY_WINDOW, also the width of the mask

ASSUME CounterAssumption == Counter \subseteq Nat
ASSUME WindowAssumption == WINDOW \in Nat \ {0}

VARIABLES hasReceived, highestCounter, seenBefore,  \* the WgReplayWindow
          accepted, verdict   \* history: what was let through, the last answer

window == <<hasReceived, highestCounter, seenBefore>>
vars == <<hasReceived, highestCounter, seenBefore, accepted, verdict>>

Age == 0 .. WINDOW - 1
NoVerdict == [counter |-> -1, fresh |-> FALSE]

Reset == hasReceived' = FALSE /\ highestCounter' = 0 /\ seenBefore' = {}

\* (mutant) the mask rotates, so bits that leave it come back at the bottom
Rotated(advance) == {(a + advance) % WINDOW : a \in seenBefore}

ShiftedWide(advance) == {a + advance : a \in seenBefore}   \* (mutant) nothing leaves
\* seenBefore << advance: the bits that leave the mask are forgotten.
Shifted(advance) == {a + advance : a \in seenBefore} \cap Age

\* The code's answer to a packet, and what each answer leaves in the window.
AcceptFirst(c) ==
    /\ ~hasReceived
    /\ hasReceived' = TRUE
    /\ highestCounter' = c
    /\ seenBefore' = {0}

AcceptNewer(c) ==
    /\ hasReceived /\ c > highestCounter
    /\ highestCounter' = c
    /\ seenBefore' = {0} \cup Shifted(c - highestCounter)
    /\ UNCHANGED hasReceived

\* (mutant) the packet gets through but its bit is never set
AcceptLateUnmarked(c) ==
    /\ hasReceived /\ c <= highestCounter
    /\ highestCounter - c \in Age \ seenBefore
    /\ UNCHANGED window

AcceptLate(c) ==
    /\ hasReceived /\ c <= highestCounter
    /\ highestCounter - c \in Age \ seenBefore
    /\ seenBefore' = seenBefore \cup {highestCounter - c}
    /\ UNCHANGED <<hasReceived, highestCounter>>

Accept(c) ==
    /\ AcceptFirst(c) \/ AcceptNewer(c) \/ AcceptLate(c)
    /\ accepted' = accepted \cup {c}
    /\ verdict' = [counter |-> c, fresh |-> TRUE]

\* (mutant) the oldest counter of the window counts as too old
RefuseOffByOne(c) ==
    /\ hasReceived /\ c <= highestCounter
    /\ \/ highestCounter - c >= WINDOW - 1
       \/ highestCounter - c \in seenBefore
    /\ verdict' = [counter |-> c, fresh |-> FALSE]
    /\ UNCHANGED <<window, accepted>>

\* Older than the window remembers, or already marked as arrived.
Refuse(c) ==
    /\ hasReceived /\ c <= highestCounter
    /\ \/ highestCounter - c >= WINDOW
       \/ highestCounter - c \in seenBefore
    /\ verdict' = [counter |-> c, fresh |-> FALSE]
    /\ UNCHANGED <<window, accepted>>

\* A new session takes an empty window with it (adoptHandshake).
NewSession == Reset /\ accepted' = {} /\ verdict' = NoVerdict

Init ==
    /\ hasReceived = FALSE /\ highestCounter = 0 /\ seenBefore = {}
    /\ accepted = {} /\ verdict = NoVerdict

Next == NewSession \/ \E c \in Counter : Accept(c) \/ Refuse(c)

Spec == Init /\ [][Next]_vars
-----------------------------------------------------------------------------
TypeOK ==
    /\ hasReceived \in BOOLEAN
    /\ highestCounter \in Nat
    /\ seenBefore \subseteq Age
    /\ accepted \subseteq Counter
    /\ verdict \in [counter : Counter \cup {-1}, fresh : BOOLEAN]

(***************************************************************************)
(* The mask tells the truth: within the window, a bit is set exactly for   *)
(* the counters this session has let through, however far and however      *)
(* often the window has slid since (acceptWgCounter's shift, its cut-off   *)
(* at the window's width and its reset for a new session all count).       *)
(***************************************************************************)
MaskIsExact ==
    /\ accepted # {} <=> hasReceived
    /\ hasReceived => highestCounter \in accepted
    /\ \A c \in accepted : c <= highestCounter
    /\ \A c \in Counter :
          hasReceived /\ c <= highestCounter /\ highestCounter - c < WINDOW
            => (c \in accepted <=> highestCounter - c \in seenBefore)

(***************************************************************************)
(* No counter gets through twice in a session: openWgPacket hands up a     *)
(* decrypted packet once, whatever the network duplicates or delays.       *)
(***************************************************************************)
NeverAcceptedTwice == [][\A c \in Counter : Accept(c) => c \notin accepted]_vars

Promise == INSTANCE AntiReplay

(***************************************************************************)
(* The window keeps the session's promise: every packet gets the answer    *)
(* the full history of what was let through would give it, so none is      *)
(* let through twice and none inside the window is lost for nothing.       *)
(***************************************************************************)
KeepsPromise == Promise!Spec
=============================================================================
