-------------------------- MODULE MCTorrentPieces ---------------------------
(* Two pieces collected at once, in blocks two peers share.               *)
EXTENDS TorrentPieces, TLC

CONSTANTS p1, p2
MCPieces == {p1, p2}
MCHoldings == {{p1}}
MCBlockCount == p1 :> 2 @@ p2 :> 1
Choke == {"choke"}
AllFaults == {"send", "write", "read", "wrong", "stray", "choke", "crash"}
=============================================================================
