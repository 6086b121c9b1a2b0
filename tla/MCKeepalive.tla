---------------------------- MODULE MCKeepalive -----------------------------
(* Keepalive under every ratio of the two intervals up to 13 to 1 and 1 to 4. *)
EXTENDS Keepalive

mcSettings == [heartbeat : 1 .. 13, tick : 1 .. 4]
=============================================================================
