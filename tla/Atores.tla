------------------------------- MODULE Atores -------------------------------
(***************************************************************************)
(* The whole life of an order as its four parties see it: the customer who *)
(* creates it (src/src/clients/customer_broker.py), the restaurant that    *)
(* prepares it (src/src/clients/restaurant_broker.py), the drivers and the *)
(* ADM leader, both of Entregador, behind the HTTP API (src/src/api.py).   *)
(*                                                                         *)
(* Neither the customer nor the restaurant asks the ADM for what it missed:*)
(* a restaurant that was down never hears of the orders announced then, a  *)
(* request that fails is not repeated (the event is rejected without being *)
(* queued again, the customer's process ends), and a customer that         *)
(* subscribes after the confirmation waits for ever.                       *)
(*                                                                         *)
(* A party need not be a process: orders are also created, confirmed and   *)
(* accepted from elsewhere, as in Entregador.  Which parties are processes *)
(* is a scenario; no party sees of the others more than the ADM's state.   *)
(***************************************************************************)
EXTENDS Entregador

CONSTANTS DoRestaurante,  \* orders of the restaurant: the others it filters out
          Cenarios        \* bound: parties that are processes together

ASSUME AtoresAssumption ==
    /\ DoRestaurante \subseteq Pedidos
    /\ Cenarios \subseteq [entregadores : SUBSET Processos, restaurante : BOOLEAN,
                           clientes : SUBSET Pedidos]

VARIABLES cenario,      \* the scenario, which never changes
          restaurante,  \* the process of the restaurant, see Restaurante
          cliente,      \* where the customer of each order stands
          perdidos,     \* history: orders the restaurant will not hear of again
          tardios       \* history: orders delivered before their customer subscribed

atores == <<cenario, restaurante, cliente, perdidos, tardios>>
tudo == <<vars, atores>>

Restaurante == [ligado     : BOOLEAN,
                fila       : SUBSET DoRestaurante,   \* PedidoDisponivel to consume
                preparados : SUBSET DoRestaurante]

Desligado == [ligado |-> FALSE, fila |-> {}, preparados |-> {}]

\* A customer is not running, has asked for the order and has not subscribed to
\* its events yet, waits for them, has the confirmation in its queue, has ended
\* with it, or has ended with CustomerBrokerError.
Lugares == {"fora", "criado", "esperando", "avisado", "fim", "erro"}

InitAtores == /\ Init
              /\ cenario \in Cenarios
              /\ restaurante = Desligado
              /\ cliente = [p \in Pedidos |-> "fora"]
              /\ perdidos = {}
              /\ tardios = {}

IrCliente(p, lugar) == cliente' = [cliente EXCEPT ![p] = lugar]

-----------------------------------------------------------------------------
(* The customer *)

\* Fault: the queue of the restaurant outlives its connection.
Defeito_FilaSempre(p) ==
    /\ restaurante' = [restaurante EXCEPT !.fila = @ \cup ({p} \cap DoRestaurante)]
    /\ UNCHANGED perdidos

\* PedidoDisponivel goes to the queue of the restaurant, if it runs.
Anunciar(p) ==
    IF restaurante.ligado
    THEN /\ restaurante' = [restaurante EXCEPT !.fila = @ \cup ({p} \cap DoRestaurante)]
         /\ UNCHANGED perdidos
    ELSE perdidos' = perdidos \cup {p} /\ UNCHANGED restaurante

\* POST /pedidos, sent by the process of the customer or by somebody else
Criado(p) ==
    /\ CriarPedido(p)
    /\ Anunciar(p)
    /\ IF p \in cenario.clientes THEN cliente[p] = "fora" /\ IrCliente(p, "criado")
                                 ELSE UNCHANGED cliente
    /\ UNCHANGED <<cenario, tardios>>

\* The request fails, before the ADM has created the order or after (503, or an
\* answer that does not come in time): the process ends with CustomerBrokerError.
CriarFalha(p) ==
    /\ p \in cenario.clientes /\ cliente[p] \in {"fora", "criado"}
    /\ falhas < MaxFalhas
    /\ IrCliente(p, "erro")
    /\ falhas' = falhas + 1
    /\ UNCHANGED <<adm, processo, memoria, tarefa, correio, iniciais,
                   cenario, restaurante, perdidos, tardios>>

\* executar_assinatura_rastreio: its queues receive what is published from now on.
Assinar(p) ==
    /\ cliente[p] = "criado"
    /\ IrCliente(p, "esperando")
    /\ tardios' = IF Existe(estado, p) THEN tardios ELSE tardios \cup {p}
    /\ UNCHANGED <<vars, cenario, restaurante, perdidos>>

\* After an error the customer may run again in the mode that only tracks.
Rastrear(p) ==
    /\ cliente[p] = "erro" /\ p \in usados
    /\ IrCliente(p, "criado")
    /\ UNCHANGED <<vars, cenario, restaurante, perdidos, tardios>>

\* Fault: the confirmation goes to the customer of an order with a driver only.
Defeito_SoComEntregador(p) ==
    IF cliente[p] = "esperando" /\ ComEntregador(estado, p)
    THEN IrCliente(p, "avisado") ELSE UNCHANGED cliente

\* EntregaConfirmada goes to the queue of the customer, if it has one.
AvisarCliente(p) ==
    IF cliente[p] = "esperando" THEN IrCliente(p, "avisado") ELSE UNCHANGED cliente

\* POST /pedidos/confirmar, sent from anywhere with the id of the customer
Confirmado(p) ==
    /\ ConfirmarEntrega(p)
    /\ AvisarCliente(p)
    /\ UNCHANGED <<cenario, restaurante, perdidos, tardios>>

\* criar_callback_entrega_confirmada: the process stops consuming and ends.
Encerrar(p) ==
    /\ cliente[p] = "avisado"
    /\ IrCliente(p, "fim")
    /\ UNCHANGED <<vars, cenario, restaurante, perdidos, tardios>>

-----------------------------------------------------------------------------
(* The restaurant *)

\* An event is consumed: whatever its callback raises, it is not queued again.
Consumir(p, lembrados) ==
    /\ p \in restaurante.fila
    /\ restaurante' = [restaurante EXCEPT !.fila = @ \ {p},
                                          !.preparados = @ \cup lembrados]

\* POST /pedidos/preparar: unless the order is gone (404) it is prepared, and the
\* restaurant remembers so.
PrepararPedido(p) ==
    /\ Consumir(p, IF Existe(estado, p) THEN {p} ELSE {})
    /\ estado' = IF Existe(estado, p) THEN Preparar(estado, p) ELSE estado
    /\ UNCHANGED <<ativos, usados, mudancas, processo, memoria, tarefa, correio, iniciais,
                   falhas, cenario, cliente, perdidos, tardios>>

\* The request fails, before the ADM has written the order or after; or the ADM
\* it goes to, always the same, is not the leader (409).
PrepararFalha(p) ==
    /\ falhas < MaxFalhas
    /\ Consumir(p, {})
    /\ \/ UNCHANGED estado
       \/ Existe(estado, p) /\ estado' = Preparar(estado, p)
    /\ perdidos' = perdidos \cup {p}
    /\ falhas' = falhas + 1
    /\ UNCHANGED <<ativos, usados, mudancas, processo, memoria, tarefa, correio, iniciais,
                   cenario, cliente, tardios>>

Abrir ==
    /\ cenario.restaurante /\ ~restaurante.ligado
    /\ restaurante' = [restaurante EXCEPT !.ligado = TRUE]
    /\ UNCHANGED <<vars, cenario, cliente, perdidos, tardios>>

\* Its exclusive queue and what it remembers go with the process.
Fechar ==
    /\ restaurante.ligado
    /\ quedas < MaxQuedas
    /\ restaurante' = Desligado
    /\ perdidos' = perdidos \cup restaurante.fila
    /\ quedas' = quedas + 1
    /\ UNCHANGED <<adm, ligados, memoria, tarefa, correio, iniciais, falhas,
                   cenario, cliente, tardios>>

-----------------------------------------------------------------------------
Cliente(p) == CriarFalha(p) \/ Assinar(p) \/ Rastrear(p) \/ Encerrar(p)

Cozinha(p) == PrepararPedido(p) \/ PrepararFalha(p)

\* What the drivers and the trackers do
Resto == \/ \E p \in Pedidos, d \in Outros : AceitarOutro(p, d)
         \/ \E novos \in SUBSET Rastreadores : MudarRastreadores(novos)
         \/ \E d \in Processos : \/ \E t \in Threads : Passo(d, t)
                                 \/ Callback(d)
                                 \/ d \in cenario.entregadores /\ Ligar(d)
                                 \/ Cair(d)

NextAtores == \/ \E p \in Pedidos : Criado(p) \/ Confirmado(p) \/ Cliente(p)
              \/ \E p \in DoRestaurante : Cozinha(p)
              \/ Abrir \/ Fechar
              \/ Resto /\ UNCHANGED atores

\* As in Entregador, and what reaches a restaurant or a customer that runs is
\* consumed; nothing is assumed of requests, confirmations, starts and crashes.
SpecAtores ==
    /\ InitAtores /\ [][NextAtores]_tudo
    /\ Fairness
    /\ \A p \in Pedidos : /\ WF_tudo(Cozinha(p))
                          /\ WF_tudo(Assinar(p)) /\ WF_tudo(Encerrar(p))

-----------------------------------------------------------------------------
(* Properties *)

\* The restaurant and the customers have their types; a restaurant that does not
\* run has no queue and remembers nothing.
TipoAtores == /\ cenario \in Cenarios
              /\ restaurante \in Restaurante
              /\ ~restaurante.ligado => restaurante = Desligado
              /\ cliente \in [Pedidos -> Lugares]
              /\ perdidos \cup tardios \subseteq Pedidos

\* What the restaurant believes prepared is prepared for the ADM as well, whatever
\* accepts, moves to other trackers and failed requests come before or after.
PreparoLembrado ==
    \A p \in restaurante.preparados :
        Existe(estado, p) => estado.pedidos[p].preparado

\* An order announced to a restaurant that goes on running gets prepared, whoever
\* accepts it meanwhile, unless it is delivered first or a request fails.
PreparoChega ==
    \A p \in DoRestaurante :
        []<>(p \notin usados \/ p \in perdidos
                \/ (Existe(estado, p) => estado.pedidos[p].preparado))

\* A customer whose order exists when it subscribes does not wait for ever once
\* the delivery is confirmed, however early that is.
ClienteEncerra ==
    \A p \in Pedidos :
        []<>(cliente[p] \in {"criado", "esperando", "avisado"} =>
                Existe(estado, p) \/ p \in tardios)
=============================================================================
