--------------------------- MODULE MCTorrentTurns ---------------------------
(* Instances of TorrentTurns for TLC: two magnets and a torrent file. *)
EXTENDS TorrentTurns
CONSTANTS m1, m2, f1
MCMagnets == {m1, m2}
MCTorrents == MCMagnets \union {f1}
MCTooLarge == {m2}
=============================================================================
