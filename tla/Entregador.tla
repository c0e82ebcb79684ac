----------------------------- MODULE Entregador -----------------------------
(***************************************************************************)
(* The driver processes (src/src/clients/driver_broker.py) and the orders  *)
(* of the ADM leader as they see them.                                     *)
(*                                                                         *)
(* A driver has two threads that accept orders: the consumer of its three  *)
(* RabbitMQ queues, and one started with the process that goes through the *)
(* orders already waiting.  They share parar_gps, rastreador_por_pedido    *)
(* and pedidos_aceitos without a lock, and each of them checks, asks the   *)
(* ADM over HTTP and only then writes: tarefa says where each one stands.  *)
(* A third kind of thread publishes the positions of one order until its   *)
(* Event is set.                                                           *)
(*                                                                         *)
(* The ADM leader is one process here (its replication and succession are  *)
(* in ADMReplicacao) with at least one tracker active (ADMLider has the    *)
(* failure of trackers step by step).  Some drivers are whole processes;   *)
(* of the others, Outros, only what they do to the queue of the ADM is.    *)
(***************************************************************************)
EXTENDS EstadoADM

CONSTANTS Outros,       \* drivers seen only through the orders they accept
          MaxMudancas,  \* changes of the set of active trackers
          MaxQuedas,    \* crashes of drivers
          MaxFalhas     \* HTTP requests of drivers that fail or reach a follower

ASSUME EntregadorAssumption == /\ Rastreadores # {}
                               /\ Outros \subseteq Entregadores
                               /\ {MaxMudancas, MaxQuedas, MaxFalhas} \subseteq Nat

Processos == Entregadores \ Outros

VARIABLES
    estado,    \* the orders of the ADM leader
    ativos,    \* its active trackers
    ligados,   \* drivers whose process runs
    memoria,   \* the dictionaries of each driver, see Memoria
    tarefa,    \* where each of its two threads stands
    correio,   \* its three queues
    usados,    \* history: orders created
    iniciais,  \* history: orders each driver's start-up thread has asked for
    mudancas, quedas, falhas   \* counters of the bounds

vars == <<estado, ativos, ligados, memoria, tarefa, correio,
          usados, iniciais, mudancas, quedas, falhas>>
adm == <<estado, ativos, usados, mudancas>>
processo == <<ligados, quedas>>

Threads == {"consumidor", "inicial"}

\* parar_gps: an order without an Event, with one to be set, with one set.
\* (When both threads accept one order, the second Event replaces the first, whose
\* GPS thread nobody stops any more; that thread is left out.)
Memoria == [gps           : [Pedidos -> {"nunca", "ativo", "parado"}],
            rastreador    : [Pedidos -> Rastreadores \cup {Nenhum}],
            aceitos       : SUBSET Pedidos]

MemoriaVazia == [gps        |-> [p \in Pedidos |-> "nunca"],
                 rastreador |-> [p \in Pedidos |-> Nenhum],
                 aceitos    |-> {}]

Livre == [fase |-> "livre"]
Consultando == [fase |-> "consultando"]                \* before GET /estado
Tentando(ps) == [fase |-> "tentando", restam |-> ps]   \* before the next order
Pedindo(p, ps) ==                                      \* before POST /pedidos/aceitar
    [fase |-> "pedindo", pedido |-> p, restam |-> ps]
Aceito(p, r) ==                                        \* accepted, not yet written
    [fase |-> "aceito", pedido |-> p, rastreador |-> r]

Tarefa == {Livre, Consultando}
          \cup [fase : {"tentando"}, restam : SUBSET Pedidos]
          \cup [fase : {"pedindo"}, pedido : Pedidos, restam : SUBSET Pedidos]
          \cup [fase : {"aceito"}, pedido : Pedidos, rastreador : Rastreadores]

\* The queues, in no order: an order is announced and confirmed once, and of
\* the updates about it the newest stands for all.
Correio == [disponivel : SUBSET Pedidos,
            confirmada : SUBSET Pedidos,
            atualizado : [Pedidos -> Rastreadores \cup {Nenhum}]]

CorreioVazio == [disponivel |-> {}, confirmada |-> {},
                 atualizado |-> [p \in Pedidos |-> Nenhum]]

Init == /\ estado = EstadoVazio
        /\ ativos = Rastreadores
        /\ ligados = {}
        /\ memoria = [d \in Processos |-> MemoriaVazia]
        /\ tarefa = [d \in Processos |-> [t \in Threads |-> Livre]]
        /\ correio = [d \in Processos |-> CorreioVazio]
        /\ usados = {}
        /\ iniciais = [d \in Processos |-> {}]
        /\ mudancas = 0 /\ quedas = 0 /\ falhas = 0

-----------------------------------------------------------------------------
(* The ADM leader *)

\* Fault: the queues outlive the connection of their driver.
Defeito_FilaDuravel(fila, p) ==
    correio' = [d \in Processos |-> [correio[d] EXCEPT ![fila] = @ \cup {p}]]

\* An event goes to the exclusive queue of every driver that runs.
Publicar(fila, p) ==
    correio' = [d \in Processos |->
                   IF d \in ligados THEN [correio[d] EXCEPT ![fila] = @ \cup {p}]
                                    ELSE correio[d]]

\* RastreadorAtualizado for each order of ps, which e says where to find.
Avisar(ps, e) ==
    correio' = [d \in Processos |->
                   IF d \in ligados
                   THEN [correio[d] EXCEPT !.atualizado =
                            [p \in Pedidos |-> IF p \in ps THEN e.mapa[p] ELSE @[p]]]
                   ELSE correio[d]]

CriarPedido(p) ==
    /\ p \notin usados
    /\ estado' = Criar(estado, p)
    /\ usados' = usados \cup {p}
    /\ Publicar("disponivel", p)
    /\ UNCHANGED <<ativos, processo, memoria, tarefa, iniciais, mudancas, falhas>>

ConfirmarEntrega(p) ==
    /\ Existe(estado, p)
    /\ estado' = Confirmar(estado, p)
    /\ Publicar("confirmada", p)
    /\ UNCHANGED <<ativos, processo, memoria, tarefa, usados, iniciais, mudancas, falhas>>

\* A driver of Outros accepts an order, whatever else it has.
AceitarOutro(p, d) ==
    /\ d \in Outros /\ p \in estado.semEntregador
    /\ estado' = Aceitar(estado, p, d, ativos)
    /\ UNCHANGED <<ativos, processo, memoria, tarefa, correio, usados, iniciais,
                   mudancas, falhas>>

\* A tracker enters or leaves the ring: the orders whose choice changes move,
\* and the drivers of those that have one are told.
MudarRastreadores(novos) ==
    LET afetados == {p \in Mapeados(estado) : EscolherServidor(p, novos) # estado.mapa[p]}
    IN  /\ mudancas < MaxMudancas
        /\ novos # {} /\ novos # ativos
        /\ ativos' = novos
        /\ estado' = Mover(estado, afetados, novos)
        /\ Avisar({p \in afetados : ComEntregador(estado, p)}, estado')
        /\ mudancas' = mudancas + 1
        /\ UNCHANGED <<processo, memoria, tarefa, usados, iniciais, falhas>>

-----------------------------------------------------------------------------
(* The two threads of a driver *)

\* entregador_tem_entrega_ativa
Ocupado(m) == \E p \in Pedidos : m.gps[p] = "ativo"

Ir(d, t, onde) == tarefa' = [tarefa EXCEPT ![d][t] = onde]
Esta(d, t, fase) == d \in ligados /\ tarefa[d][t].fase = fase

\* The loop over the orders that are left, if any.
Seguir(ps) == IF ps = {} THEN Livre ELSE Tentando(ps)

\* listar_pedidos_sem_entregador_via_adm, answered by the leader.
Consultar(d, t) ==
    /\ Esta(d, t, "consultando")
    /\ Ir(d, t, Seguir(estado.semEntregador))
    /\ UNCHANGED <<adm, processo, memoria, correio, iniciais, falhas>>

\* The first ADM that answers 200 is believed, the leader or not: a follower
\* that missed a replication has some queue of the past.  When none answers the
\* thread gives up, as with an empty queue.
ConsultarSemLider(d, t) ==
    /\ falhas < MaxFalhas
    /\ Esta(d, t, "consultando")
    /\ \E ps \in SUBSET usados : Ir(d, t, Seguir(ps))
    /\ falhas' = falhas + 1
    /\ UNCHANGED <<adm, processo, memoria, correio, iniciais>>

\* _aceitar_e_iniciar_entrega up to the request: an order accepted before, or
\* any order while a delivery goes on, is passed over.
Tentar(d, t) ==
    /\ Esta(d, t, "tentando")
    /\ \E p \in tarefa[d][t].restam :
           LET resto == tarefa[d][t].restam \ {p}
               passa == p \in memoria[d].aceitos \/ Ocupado(memoria[d])
           IN  Ir(d, t, IF passa THEN Seguir(resto) ELSE Pedindo(p, resto))
    /\ UNCHANGED <<adm, processo, memoria, correio, iniciais, falhas>>

Perguntou(d, t, p) ==
    iniciais' = IF t = "inicial" THEN [iniciais EXCEPT ![d] = @ \cup {p}] ELSE iniciais

\* Fault: the driver of an order is not looked at.
Defeito_JaTem(d, p) == Existe(estado, p) /\ p \notin estado.semEntregador

\* The driver already has the order: the ADM answers as if it accepted it now.
JaTem(d, p) ==
    /\ Existe(estado, p) /\ p \notin estado.semEntregador
    /\ estado.pedidos[p].entregador = d

\* aceitar_pedido in the ADM, and its answer: accepted, or refused because the
\* order is gone (404) or another driver has it (409).
Pedir(d, t) ==
    /\ Esta(d, t, "pedindo")
    /\ LET p == tarefa[d][t].pedido
       IN  /\ IF p \in estado.semEntregador
              THEN estado' = Aceitar(estado, p, d, ativos)
              ELSE UNCHANGED estado
           /\ Ir(d, t, IF p \in estado.semEntregador \/ JaTem(d, p)
                       THEN Aceito(p, estado'.mapa[p]) ELSE Seguir(tarefa[d][t].restam))
           /\ Perguntou(d, t, p)
    /\ UNCHANGED <<ativos, usados, mudancas, processo, memoria, correio, falhas>>

\* The request fails, before the ADM has changed anything or after (the answer
\* is late, or is 503 because the replication had no majority); the other ADMs
\* the driver tries are not leaders.
PedirComFalha(d, t) ==
    /\ falhas < MaxFalhas
    /\ Esta(d, t, "pedindo")
    /\ LET p == tarefa[d][t].pedido
       IN  /\ \/ UNCHANGED estado
              \/ /\ p \in estado.semEntregador
                 /\ estado' = Aceitar(estado, p, d, ativos)
           /\ Perguntou(d, t, p)
    /\ Ir(d, t, Seguir(tarefa[d][t].restam))
    /\ falhas' = falhas + 1
    /\ UNCHANGED <<ativos, usados, mudancas, processo, memoria, correio>>

\* The order object is written in the answer when the ADM's handler ends, and
\* may have moved to another tracker by then.
RastreadorNaResposta(p, r) == {r} \cup ({estado.mapa[p]} \ {Nenhum})

\* Fault: a driver found busy when the answer comes drops the order.
Defeito_DesisteOcupado(m, p, r) ==
    IF Ocupado(m) THEN m
    ELSE [m EXCEPT !.gps[p] = "ativo", !.rastreador[p] = r, !.aceitos = @ \cup {p}]

\* The answer has come: remember the order and start its GPS thread.  The
\* thread's loop over the pending orders ends with the first accepted.
IniciarGPS(m, p, r) ==
    [gps        |-> [m.gps EXCEPT ![p] = "ativo"],
     rastreador |-> [m.rastreador EXCEPT ![p] = r],
     aceitos    |-> m.aceitos \cup {p}]

IniciarEntrega(d, t) ==
    /\ Esta(d, t, "aceito")
    /\ LET p == tarefa[d][t].pedido
       IN  \E r \in RastreadorNaResposta(p, tarefa[d][t].rastreador) :
               memoria' = [memoria EXCEPT ![d] = IniciarGPS(@, p, r)]
    /\ Ir(d, t, Livre)
    /\ UNCHANGED <<adm, processo, correio, iniciais, falhas>>

-----------------------------------------------------------------------------
(* The callbacks of the consumer *)

Receber(d, fila, p) ==
    /\ Esta(d, "consumidor", "livre")
    /\ p \in correio[d][fila]
    /\ correio' = [correio EXCEPT ![d][fila] = @ \ {p}]

PedidoDisponivel(d, p) ==
    /\ Receber(d, "disponivel", p)
    /\ Ir(d, "consumidor", Tentando({p}))
    /\ UNCHANGED <<adm, processo, memoria, iniciais, falhas>>

\* The Event of the order is set and, unless another delivery goes on, the queue
\* of the ADM is consulted.
Parar(m, p) == [m EXCEPT !.gps[p] = "parado", !.rastreador[p] = Nenhum]

\* Fault: a driver that is free again does not look at the queue.
Defeito_NaoConsulta(m) == Livre

AposEntrega(m) == IF Ocupado(m) THEN Livre ELSE Consultando

\* Without an Event the confirmation is dropped.
EntregaConfirmada(d, p) ==
    /\ Receber(d, "confirmada", p)
    /\ IF memoria[d].gps[p] = "nunca"
       THEN UNCHANGED <<memoria, tarefa>>
       ELSE /\ memoria' = [memoria EXCEPT ![d] = Parar(@, p)]
            /\ Ir(d, "consumidor", AposEntrega(memoria'[d]))
    /\ UNCHANGED <<adm, processo, iniciais, falhas>>

\* Fault: the new tracker is not written.
Defeito_IgnoraAviso(m, p, r) == m

\* Without an Event, or with one already set, the update is dropped.
Atualizar(m, p, r) == IF m.gps[p] = "ativo" THEN [m EXCEPT !.rastreador[p] = r] ELSE m

RastreadorAtualizado(d, p) ==
    /\ Esta(d, "consumidor", "livre")
    /\ correio[d].atualizado[p] # Nenhum
    /\ correio' = [correio EXCEPT ![d].atualizado[p] = Nenhum]
    /\ memoria' = [memoria EXCEPT ![d] = Atualizar(@, p, correio[d].atualizado[p])]
    /\ UNCHANGED <<adm, processo, tarefa, iniciais, falhas>>

-----------------------------------------------------------------------------
(* Start and crash of a driver *)

\* The queues are declared, then the start-up thread begins.
Ligar(d) ==
    /\ d \notin ligados
    /\ ligados' = ligados \cup {d}
    /\ Ir(d, "inicial", Consultando)
    /\ UNCHANGED <<adm, memoria, correio, iniciais, quedas, falhas>>

\* Nothing is kept, and the exclusive queues go with the connection.
Cair(d) ==
    /\ quedas < MaxQuedas
    /\ d \in ligados
    /\ ligados' = ligados \ {d}
    /\ memoria' = [memoria EXCEPT ![d] = MemoriaVazia]
    /\ tarefa' = [tarefa EXCEPT ![d] = [t \in Threads |-> Livre]]
    /\ correio' = [correio EXCEPT ![d] = CorreioVazio]
    /\ iniciais' = [iniciais EXCEPT ![d] = {}]
    /\ quedas' = quedas + 1
    /\ UNCHANGED <<adm, falhas>>

-----------------------------------------------------------------------------
Passo(d, t) == \/ Consultar(d, t) \/ ConsultarSemLider(d, t) \/ Tentar(d, t)
               \/ Pedir(d, t) \/ PedirComFalha(d, t) \/ IniciarEntrega(d, t)

Callback(d) == \E p \in Pedidos : \/ PedidoDisponivel(d, p)
                                  \/ EntregaConfirmada(d, p)
                                  \/ RastreadorAtualizado(d, p)

Next == \/ \E p \in Pedidos : \/ CriarPedido(p) \/ ConfirmarEntrega(p)
                              \/ \E d \in Outros : AceitarOutro(p, d)
        \/ \E novos \in SUBSET Rastreadores : MudarRastreadores(novos)
        \/ \E d \in Processos : \/ \E t \in Threads : Passo(d, t)
                                \/ Callback(d)
                                \/ Ligar(d)
                                \/ Cair(d)

\* Threads that can go on do, requests end, and every queue is consumed.
\* Nothing is assumed of customers, trackers, starts and crashes.
Fairness == \A d \in Processos :
                /\ \A t \in Threads : WF_vars(Passo(d, t))
                /\ WF_vars(Callback(d))

Spec == Init /\ [][Next]_vars /\ Fairness

-----------------------------------------------------------------------------
(* Properties *)

\* Every variable has a value of its kind; the consumer and the start-up thread
\* stand still in a driver that does not run, and it has no queue.
TypeOK == /\ estado \in Estado
          /\ ativos \subseteq Rastreadores /\ ativos # {}
          /\ ligados \subseteq Processos
          /\ memoria \in [Processos -> Memoria]
          /\ tarefa \in [Processos -> [Threads -> Tarefa]]
          /\ correio \in [Processos -> Correio]
          /\ \A d \in Processos \ ligados :
                 tarefa[d] = [t \in Threads |-> Livre] /\ correio[d] = CorreioVazio
          /\ usados \subseteq Pedidos
          /\ iniciais \in [Processos -> SUBSET Pedidos]
          /\ mudancas \in 0..MaxMudancas /\ quedas \in 0..MaxQuedas
          /\ falhas \in 0..MaxFalhas

Carrega(d, p) == \/ memoria[d].gps[p] = "ativo"
                 \/ \E t \in Threads : /\ tarefa[d][t].fase = "aceito"
                                      /\ tarefa[d][t].pedido = p

\* Two drivers never carry the same order: while the ADM knows it, a driver
\* that publishes its position, or is about to, is the one the ADM assigned.
EntregaDoDono ==
    \A d \in Processos, p \in Pedidos :
        Existe(estado, p) /\ Carrega(d, p) => estado.pedidos[p].entregador = d

\* No order is orphaned: without a failed request or a crash, a driver to whom
\* the ADM has assigned an order carries it or is about to, whatever his two
\* threads did at once (nobody offers him the order again).
EntregaAssumida ==
    falhas = 0 /\ quedas = 0 =>
        \A d \in Processos, p \in Pedidos :
            Existe(estado, p) /\ estado.pedidos[p].entregador = d => Carrega(d, p)

\* No event about the order waits for the driver.
SemAvisos(d, p) == p \notin correio[d].confirmada /\ correio[d].atualizado[p] = Nenhum

\* A delivery the consumer started follows the ADM: once every event about it
\* is consumed, the position goes to the tracker of the routing map, and no
\* delivery outlives its confirmation.  (One the start-up thread asked for may:
\* an event that comes before its Event exists is dropped.)
RotaSeguida ==
    \A d \in ligados : \A p \in Pedidos \ iniciais[d] :
        memoria[d].gps[p] = "ativo" /\ SemAvisos(d, p) =>
            Existe(estado, p) /\ memoria[d].rastreador[p] = estado.mapa[p]

\* While no request fails and every query reaches the leader, no order stays in
\* the queue of the ADM with a driver idle: the driver takes it when offered or
\* after its delivery (README.md, "Consulta a fila no ADM e assume o proximo
\* pedido pendente").
NenhumOcioso ==
    [](falhas = 0) =>
        \A p \in Pedidos :
            []<>(p \notin estado.semEntregador \/ \A d \in ligados : Ocupado(memoria[d]))

\* One delivery at a time (README.md, "hoje: um por vez"): a driver never has
\* two orders whose position it publishes.
UmaEntregaPorVez ==
    \A d \in ligados : Cardinality({p \in Pedidos : memoria[d].gps[p] = "ativo"}) <= 1
=============================================================================
