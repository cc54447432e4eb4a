-------------------------- MODULE MCTorrentService ---------------------------
(* Two magnets and a torrent file over two slots and two queries.          *)
EXTENDS TorrentService, TLC

CONSTANTS m1, m2, f1, q1, q2
MCMagnets == {m1, m2}
MCFiles == {f1}
MCQueries == {q1, q2}
MCFound == q1 :> <<m1, f1>> @@ q2 :> <<m2>>
=============================================================================
