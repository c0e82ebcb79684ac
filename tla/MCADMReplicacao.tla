--------------------------- MODULE MCADMReplicacao ---------------------------
(***************************************************************************)
(* Small instances of ADMReplicacao: one tracker, so that the ring plays   *)
(* no part, and drivers and orders that can be exchanged.                  *)
(***************************************************************************)
EXTENDS ADMReplicacao, TLC

CONSTANTS p1, p2, d1, d2, r1

MCHashNo == [n \in Rastreadores \X {0} |-> 1]

MCHashPedido == [p \in Pedidos |-> 0]

\* Once a call has failed, the properties of the run look only at the answered
\* creations: the other answers, and whether a replication is alone, are hidden.
Vista == <<estado, lider, vivos, tarefas, usados, encerrados, falhas, incompleta,
           IF falhas = 0 THEN <<respostas, firmes, isolada>>
                         ELSE {p \in Pedidos : Criacao(p) \in firmes}>>

\* Two drivers compete, and the order is prepared, where no call fails; where one
\* does, an order that one driver may have is enough.
SimplesSeFalha ==
    falhas > 0 => \A p \in Pedidos : \A a, b \in ADMs :
        /\ Existe(estado[a], p) => ~estado[a].pedidos[p].preparado
        /\ ComEntregador(estado[a], p) /\ ComEntregador(estado[b], p) =>
               estado[a].pedidos[p].entregador = estado[b].pedidos[p].entregador

Simetria == Permutations(Entregadores) \cup Permutations(Pedidos)
=============================================================================
