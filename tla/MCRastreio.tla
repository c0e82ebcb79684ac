---------------------------- MODULE MCRastreio ----------------------------
(* Small instances of Rastreio. *)
EXTENDS Rastreio, TLC

CONSTANTS r1, r2, p1, p2
=============================================================================
