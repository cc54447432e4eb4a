----------------------------- MODULE ByteStream -----------------------------
(***************************************************************************)
(* What wg-net.h promises a reader of a stream: recvWgTcp hands up the     *)
(* bytes the other end sent, each once and in order, and isWgTcpFinished   *)
(* says 1 "once the other end has finished sending and everything it sent  *)
(* has been read".  A byte is its position in the stream.                  *)
(***************************************************************************)
EXTENDS Integers, Sequences

CONSTANT Length   \* how many bytes the other end sends

VARIABLES handed, ended   \* what the reader has been given; whether it was told so

Init == handed = << >> /\ ended = FALSE

\* Some more of the stream; with its last byte the reader may learn that it is the last.
Hand ==
    /\ ~ended
    /\ \E count \in 1 .. Length - Len(handed) :
          handed' = handed \o [i \in 1 .. count |-> Len(handed) + i - 1]
    /\ ended' \in {FALSE, Len(handed') = Length}

End ==
    /\ ~ended /\ Len(handed) = Length
    /\ ended' = TRUE /\ UNCHANGED handed

Next == Hand \/ End
Spec == Init /\ [][Next]_<<handed, ended>>
=============================================================================
