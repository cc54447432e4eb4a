----------------------------- MODULE AntiReplay -----------------------------
(***************************************************************************)
(* What a WireGuard session promises about the packets that carry its      *)
(* counters: a counter is let through at most once, one that lies less     *)
(* than WINDOW behind the newest one let through is never refused the      *)
(* first time, and an older one always is.  Nothing is said of how this    *)
(* is remembered; WgReplay implements it with one number and a bit mask.   *)
(***************************************************************************)
EXTENDS Integers

CONSTANTS Counter,   \* the counters a packet can carry
          WINDOW     \* how far behind the newest a packet may still come

VARIABLES accepted,  \* the counters let through since the session began
          verdict    \* the last packet judged, and whether it was let through

\* The verdict of a session that has judged nothing yet: -1 is no counter.
NoVerdict == [counter |-> -1, fresh |-> FALSE]

Fresh(c) == c \notin accepted /\ \A a \in accepted : a - c < WINDOW

Judge(c) ==
    /\ verdict' = [counter |-> c, fresh |-> Fresh(c)]
    /\ accepted' = IF Fresh(c) THEN accepted \cup {c} ELSE accepted

NewSession == accepted' = {} /\ verdict' = NoVerdict

Init == accepted = {} /\ verdict = NoVerdict
Next == NewSession \/ \E c \in Counter : Judge(c)
Spec == Init /\ [][Next]_<<accepted, verdict>>
=============================================================================
