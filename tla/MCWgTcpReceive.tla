--------------------------- MODULE MCWgTcpReceive ---------------------------
(* A stream longer than its ring, numbered across the wrap of sequence     *)
(* numbers, with room to remember fewer runs than fit the ring and a       *)
(* window field that counts in twos.                                       *)
EXTENDS WgTcpReceive
=============================================================================
