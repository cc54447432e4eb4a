---------------------------- MODULE MCWgTcpSend -----------------------------
(* A stream longer than its ring and than the other end's, numbered across *)
(* the wrap of sequence numbers.                                           *)
EXTENDS WgTcpSend
=============================================================================
