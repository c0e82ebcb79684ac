----------------------------- MODULE MCADMLider -----------------------------
(***************************************************************************)
(* Small instances of ADMLider.  Three trackers with two virtual nodes     *)
(* each are laid on the ring so that every tracker is somebody's successor *)
(* and the last order wraps around.                                        *)
(***************************************************************************)
EXTENDS ADMLider, TLC

CONSTANTS r1, r2, r3, p1, p2, d1, d2

MCIndices == {0, 1}

\* ring: r1 at 10 and 60, r2 at 20 and 40, r3 at 30 and 50
MCHashNo == [n \in Rastreadores \X MCIndices |->
                CASE n[1] = r1 -> 10 + 50 * n[2]
                  [] n[1] = r2 -> 20 + 20 * n[2]
                  [] OTHER     -> 30 + 20 * n[2]]

\* p1 falls on r2 (then r3, r1); p2 is past every node and falls on r1
MCHashPedido == [p \in Pedidos |-> IF p = p1 THEN 15 ELSE 70]

\* both fall on r1
MCHashJuntos == [p \in Pedidos |-> 70]

\* Behaviours of SpecJusta in which the only publications that raise are those of
\* the loop of the monitor, and no order is prepared or delivered
PassoRedistribuicao ==
    \/ \E p \in Pedidos : CriarPedido(p) \/ \E d \in Entregadores : AceitarPedido(p, d)
    \/ \E r \in Rastreadores : \/ KeepAlive(r)
                               \/ EntradaRastreador(r)
                               \/ Silencio(r)
                               \/ Cair(r)
                               \/ Voltar(r)
    \/ PassoMonitor

SpecRedistribuicao == /\ Init /\ [][PassoRedistribuicao]_vars
                      /\ Justica /\ MaioriaEstavel /\ BrokerEstavel
=============================================================================
