---------------------------- MODULE MCEntregador ----------------------------
(* Small instances of Entregador: two drivers, two orders and two trackers *)
(* laid on the ring so that each order prefers a tracker of its own.       *)
EXTENDS Entregador, TLC

CONSTANTS r1, r2, p1, p2, d1, d2

MCIndices == {0}
MCHashNo == [n \in Rastreadores \X MCIndices |-> IF n[1] = r1 THEN 10 ELSE 20]
MCHashPedido == [p \in Pedidos |-> IF p = p1 THEN 5 ELSE 15]
=============================================================================
