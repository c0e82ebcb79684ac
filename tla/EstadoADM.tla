----------------------------- MODULE EstadoADM -----------------------------
(***************************************************************************)
(* The order state of one ADM server and the changes its handlers make to  *)
(* it: src/src/servers/adm_server.py.  A state has the three dictionaries  *)
(* that the leader replicates as one snapshot:                             *)
(*   pedidos        pedidos, Ausente for an id that is not a key;          *)
(*   semEntregador  the keys of pedidos_sem_entregador (its values are the *)
(*                  entries of pedidos with the same keys);                *)
(*   mapa           mapa_pedido_servidor, Nenhum for an id not a key.      *)
(* An order keeps its driver, its tracker and restaurantePreparou; status  *)
(* is COM_SERVIDOR_RASTREADOR exactly when there is a driver.              *)
(***************************************************************************)
EXTENDS Anel

CONSTANTS Entregadores,  \* identifiers of the drivers
          Nenhum,        \* None, for a driver or a tracker
          Ausente        \* not a key of pedidos

Pedido == [entregador : Entregadores \cup {Nenhum},
           rastreador : Rastreadores \cup {Nenhum},
           preparado  : BOOLEAN]

Estado == [pedidos       : [Pedidos -> Pedido \cup {Ausente}],
           semEntregador : SUBSET Pedidos,
           mapa          : [Pedidos -> Rastreadores \cup {Nenhum}]]

ASSUME EstadoAssumption ==
    /\ Nenhum \notin Entregadores \cup Rastreadores
    /\ Ausente \notin Pedido

EstadoVazio == [pedidos       |-> [p \in Pedidos |-> Ausente],
                semEntregador |-> {},
                mapa          |-> [p \in Pedidos |-> Nenhum]]

Existe(e, p)     == e.pedidos[p] # Ausente
ComEntregador(e, p) == Existe(e, p) /\ e.pedidos[p].entregador # Nenhum
Mapeados(e)      == {p \in Pedidos : e.mapa[p] # Nenhum}

PedidoNovo == [entregador |-> Nenhum, rastreador |-> Nenhum, preparado |-> FALSE]

\* criar_pedido: the order replaces whatever is known under its id, and the
\* routing map is not touched.
Criar(e, p) == [e EXCEPT !.pedidos[p] = PedidoNovo,
                         !.semEntregador = @ \cup {p}]

\* Fault: an order that has a driver already is not prepared.
Defeito_SoNaFila(e, p) ==
    IF p \in e.semEntregador THEN [e EXCEPT !.pedidos[p].preparado = TRUE] ELSE e

\* preparar_pedido
Preparar(e, p) == [e EXCEPT !.pedidos[p].preparado = TRUE]

\* Fault: the driver is not written in the order.
Defeito_SemEntregador(e, p, d, ativos) ==
    LET servidor == EscolherServidor(p, ativos)
    IN  [e EXCEPT !.pedidos[p].rastreador = servidor,
                  !.semEntregador = @ \ {p},
                  !.mapa[p] = servidor]

\* Fault: the accepted order is written anew.
Defeito_PerdePreparo(e, p, d, servidor) ==
    [e EXCEPT !.pedidos[p] = [PedidoNovo EXCEPT !.entregador = d, !.rastreador = servidor]]

\* aceitar_pedido, once the order is known to be in the queue: what it writes in
\* the order, and then in the queue and in the map
Atribuir(e, p, d, servidor) ==
    [e EXCEPT !.pedidos[p] = [@ EXCEPT !.entregador = d, !.rastreador = servidor]]

Aceitar(e, p, d, ativos) ==
    LET servidor == EscolherServidor(p, ativos)
    IN  [Atribuir(e, p, d, servidor) EXCEPT !.semEntregador = @ \ {p},
                                            !.mapa[p] = servidor]

\* Fault: the delivered order stays in the queue.
Defeito_FicaNaFila(e, p) == [e EXCEPT !.pedidos[p] = Ausente, !.mapa[p] = Nenhum]

\* confirmar_entrega: the order is forgotten
Confirmar(e, p) == [e EXCEPT !.pedidos[p] = Ausente,
                             !.semEntregador = @ \ {p},
                             !.mapa[p] = Nenhum]

\* Fault: the tracker is changed in the map and not in the order.
Defeito_SoMapa(e, ps, ativos) ==
    [e EXCEPT !.mapa = [p \in Pedidos |->
                 IF p \in ps THEN EscolherServidor(p, ativos) ELSE e.mapa[p]]]

\* Fault: a moved order is offered to the drivers again.
Defeito_Reoferece(e, ps, ativos) ==
    [e EXCEPT !.pedidos = [p \in Pedidos |-> IF p \in ps /\ Existe(e, p) THEN PedidoNovo
                                                                       ELSE e.pedidos[p]],
              !.semEntregador = @ \cup {p \in ps : Existe(e, p)},
              !.mapa = [p \in Pedidos |-> IF p \in ps THEN Nenhum ELSE e.mapa[p]]]

\* One pass of the loops of detectar_falha_servidor_rastreador and
\* _rebalancear_entrada_rastreador over the orders ps.
Mover(e, ps, ativos) ==
    [e EXCEPT !.mapa = [p \in Pedidos |->
                 IF p \in ps THEN EscolherServidor(p, ativos) ELSE e.mapa[p]],
              !.pedidos = [p \in Pedidos |->
                 IF p \in ps /\ Existe(e, p)
                 THEN [e.pedidos[p] EXCEPT !.rastreador = EscolherServidor(p, ativos)]
                 ELSE e.pedidos[p]]]

\* Fault: the queue of the peer is not merged.
Defeito_SemFila(e, outro) ==
    [pedidos       |-> [p \in Pedidos |-> IF Existe(e, p) THEN e.pedidos[p]
                                                          ELSE outro.pedidos[p]],
     semEntregador |-> e.semEntregador,
     mapa          |-> [p \in Pedidos |-> IF e.mapa[p] # Nenhum THEN e.mapa[p]
                                                               ELSE outro.mapa[p]]]

\* _sincronizar_roteamento_com_peers: of a peer's state, the entries whose key is
\* not known yet.
Mesclar(e, outro) ==
    LET pedidos == [p \in Pedidos |-> IF Existe(e, p) THEN e.pedidos[p]
                                                     ELSE outro.pedidos[p]]
    IN  [pedidos       |-> pedidos,
         semEntregador |-> e.semEntregador
                           \cup {p \in outro.semEntregador : pedidos[p] # Ausente},
         mapa          |-> [p \in Pedidos |-> IF e.mapa[p] # Nenhum THEN e.mapa[p]
                                                                   ELSE outro.mapa[p]]]

\* A coherent state: the queue and the map hold known orders only, and an order out
\* of the queue has a driver and a tracker.  An order may be in the queue and have a
\* driver, in the map or not: a merge can put it back there.
Coerente(e) ==
    \A p \in Pedidos :
        /\ p \in e.semEntregador \cup Mapeados(e) => Existe(e, p)
        /\ Existe(e, p) /\ p \notin e.semEntregador =>
               ComEntregador(e, p) /\ p \in Mapeados(e)
=============================================================================
