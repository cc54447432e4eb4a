----------------------------- MODULE MCWgReplay -----------------------------
(* A window of three over seven counters: it slides by less than, by       *)
(* exactly and by more than its width.                                     *)
EXTENDS WgReplay
MCCounter == 0 .. 6
=============================================================================
