----------------------------- MODULE MCWgTunnel -----------------------------
(* The times keep the order and the overlaps of the real ones, shortened:  *)
(* a rekey that is never answered outlives the session (3 + 2 > 4), there  *)
(* is a resend between the rekey and the rejection, and the replaced keys  *)
(* stay past the next service turn.                                        *)
EXTENDS WgTunnel
=============================================================================
