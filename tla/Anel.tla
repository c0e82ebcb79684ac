------------------------------- MODULE Anel -------------------------------
(***************************************************************************)
(* The consistent-hash ring that decides which tracker (rastreador) serves *)
(* an order: src/src/core/routing.py.  Every tracker owns one ring node    *)
(* per index of Indices (replicas_virtuais in the code); a node and an     *)
(* order are placed on the ring by SHA-256, here the constants HashNo and  *)
(* HashPedido.                                                             *)
(***************************************************************************)
EXTENDS Naturals, FiniteSets

CONSTANTS Rastreadores,  \* identifiers of the trackers
          Pedidos,       \* identifiers of the orders
          Indices,       \* indices of the virtual nodes of a tracker
          HashNo,        \* ring position of a virtual node <<tracker, index>>
          HashPedido     \* ring position of an order

\* Positions of distinct nodes differ: a SHA-256 collision is not modelled.
ASSUME AnelAssumption ==
    /\ Indices # {}
    /\ HashNo \in [Rastreadores \X Indices -> Nat]
    /\ \A n, m \in Rastreadores \X Indices : HashNo[n] = HashNo[m] => n = m
    /\ HashPedido \in [Pedidos -> Nat]

\* The ring of a set of trackers.
ConstruirAnel(servidores) == servidores \X Indices

\* The first of some ring nodes, in ring order.
PrimeiroNo(nos) == CHOOSE n \in nos : \A m \in nos : HashNo[n] <= HashNo[m]

\* Faults.  The ring answers with the node instead of its tracker.
Defeito_No(p, servidores) ==
    LET anel   == ConstruirAnel(servidores)
        frente == {n \in anel : HashNo[n] >= HashPedido[p]}
    IN  PrimeiroNo(IF frente # {} THEN frente ELSE anel)

\* The order's hash modulo the number of trackers chooses among them.
Defeito_Modulo(p, servidores) ==
    LET posicao(s) == HashNo[PrimeiroNo({s} \X Indices)]
    IN  CHOOSE s \in servidores :
            Cardinality({t \in servidores : posicao(t) < posicao(s)})
                = HashPedido[p] % Cardinality(servidores)

\* The tracker of order p when servidores are active: the owner of the first
\* node at or after the order's position, or else of the first node of all.
EscolherServidor(p, servidores) ==
    LET anel   == ConstruirAnel(servidores)
        frente == {n \in anel : HashNo[n] >= HashPedido[p]}
    IN  PrimeiroNo(IF frente # {} THEN frente ELSE anel)[1]
===========================================================================
