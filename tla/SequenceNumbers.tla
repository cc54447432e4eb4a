-------------------------- MODULE SequenceNumbers --------------------------
(***************************************************************************)
(* TCP numbers the bytes of a stream from a number of its choosing, and    *)
(* the numbers wrap, as uint32_t does: which of two comes first is told by *)
(* the shorter way round (wg-tcp.c).  A position is how far into the       *)
(* stream a byte is.                                                       *)
(***************************************************************************)
EXTENDS Integers

CONSTANTS
    SEQUENCES,     \* how many sequence numbers there are, 2^32
    FIRST          \* the sequence number of the stream's first byte

ASSUME NumbersAssumption == SEQUENCES \in Nat \ {0} /\ FIRST \in Nat

Sequence == 0 .. SEQUENCES - 1

Numbered(p) == (FIRST + p) % SEQUENCES
Position(s) == (s - FIRST) % SEQUENCES

Apart(a, b) == (a - b) % SEQUENCES
isAfter(a, b) == Apart(a, b) \in 1 .. (SEQUENCES \div 2) - 1
isAtOrAfter(a, b) == Apart(a, b) < SEQUENCES \div 2

AtMost(a, b) == IF a < b THEN a ELSE b
=============================================================================
