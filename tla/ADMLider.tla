------------------------------ MODULE ADMLider ------------------------------
(***************************************************************************)
(* One ADM server while it is the leader: the order operations its HTTP    *)
(* handlers run, the keep-alives of the trackers and the monitoring loop   *)
(* that declares a silent tracker failed and moves its orders              *)
(* (src/src/servers/adm_server.py).                                        *)
(*                                                                         *)
(* The server is one asyncio event loop: a handler runs without            *)
(* interruption up to an await.  The handlers of orders change the state   *)
(* and publish before their only await (the replication), so each is one   *)
(* action.  The monitor awaits twice for every failed tracker, the SUP     *)
(* backup and the replication, and anything may run in between; monitor    *)
(* says where it is.  Replication itself is in ADMReplicacao; here it only *)
(* ends, well or with ReplicacaoSemMaioriaError.                           *)
(***************************************************************************)
EXTENDS EstadoADM

CONSTANTS Reenviaveis,  \* orders whose CriarPedido may arrive more than once
          PodemCair     \* trackers that may crash and restart

ASSUME LiderAssumption == Reenviaveis \subseteq Pedidos /\ PodemCair \subseteq Rastreadores

VARIABLES
    estado,       \* pedidos, pedidos_sem_entregador, mapa_pedido_servidor
    ativos,       \* servidores_rastreadores_ativos
    expirados,    \* the active ones whose ultimo_keepalive is too old
    monitor,      \* where executar_ciclo_monitoramento is
    vivos,        \* trackers whose process runs (environment)
    aviso,        \* tracker of the last AtualizacaoRoteamento about each order
    conhecidos,   \* history: the orders each tracker was told of
    usados,       \* history: order ids already created once
    reenviados,   \* history: order ids created more than once
    falhas        \* history: handlers a broker failure has cut, "aceite" or "laco"

vars == <<estado, ativos, expirados, monitor, vivos, aviso, conhecidos,
          usados, reenviados, falhas>>
infra == <<ativos, expirados, monitor, vivos>>
avisos == <<aviso, conhecidos>>
historia == <<usados, reenviados>>

Ocioso == [fase |-> "ocioso"]
Buscando(r, resto) == [fase |-> "backup", alvo |-> r, fila |-> resto]
Replicando(resto) == [fase |-> "replicando", fila |-> resto]

Monitor == {Ocioso}
           \cup [fase : {"backup"}, alvo : Rastreadores, fila : SUBSET Rastreadores]
           \cup [fase : {"replicando"}, fila : SUBSET Rastreadores]

Init == /\ estado = EstadoVazio
        /\ ativos = {}
        /\ expirados = {}
        /\ monitor = Ocioso
        /\ vivos = Rastreadores
        /\ aviso = [p \in Pedidos |-> Nenhum]
        /\ conhecidos = [r \in Rastreadores |-> {}]
        /\ usados = {}
        /\ reenviados = {}
        /\ falhas = {}

-----------------------------------------------------------------------------
(* Order handlers *)

\* The routing update of each order of ps goes to the queue of its new tracker.
Avisar(ps, at) ==
    /\ aviso' = [p \in Pedidos |-> IF p \in ps THEN EscolherServidor(p, at) ELSE aviso[p]]
    /\ conhecidos' = [r \in Rastreadores |->
                         conhecidos[r] \cup {p \in ps : EscolherServidor(p, at) = r}]

\* There is no check that the id is new.
CriarPedido(p) ==
    /\ p \in usados => p \in Reenviaveis
    /\ estado' = Criar(estado, p)
    /\ usados' = usados \cup {p}
    /\ reenviados' = IF p \in usados THEN reenviados \cup {p} ELSE reenviados
    /\ UNCHANGED <<infra, avisos, falhas>>

PrepararPedido(p) ==
    /\ Existe(estado, p)
    /\ estado' = Preparar(estado, p)
    /\ UNCHANGED <<infra, avisos, historia, falhas>>

\* An order is accepted while it is in the queue and some tracker is active;
\* otherwise the request is refused (404, 409, 503) and changes nothing.
PodeAceitar(p) == Existe(estado, p) /\ p \in estado.semEntregador /\ ativos # {}

AceitarPedido(p, d) ==
    /\ PodeAceitar(p)
    /\ estado' = Aceitar(estado, p, d, ativos)
    /\ Avisar({p}, ativos)
    /\ UNCHANGED <<infra, historia, falhas>>

\* The publication fails twice and raises: the order is assigned all the same.
AceiteNaoPublicado(p, d) ==
    /\ PodeAceitar(p)
    /\ estado' = Aceitar(estado, p, d, ativos)
    /\ falhas' = falhas \cup {"aceite"}
    /\ UNCHANGED <<infra, avisos, historia>>

\* The order need not have a driver.  EntregaConfirmada is published first, so
\* a failed publication changes nothing.
ConfirmarEntrega(p) ==
    /\ Existe(estado, p)
    /\ estado' = Confirmar(estado, p)
    /\ UNCHANGED <<infra, avisos, historia, falhas>>

-----------------------------------------------------------------------------
(* Moving orders to another tracker *)

\* Fault: the new trackers are not told.
Defeito_NaoAvisa(ps, at) ==
    /\ estado' = Mover(estado, ps, at)
    /\ UNCHANGED <<avisos, falhas>>

\* The loop over the orders ps, with at the active trackers, runs to its end.
LacoCompleto(ps, at) ==
    /\ estado' = Mover(estado, ps, at)
    /\ Avisar(ps, at)
    /\ UNCHANGED falhas

\* A publication of the loop raises: the orders before it (movidos) are done,
\* the one at hand (p) is moved, its tracker perhaps told, the rest are left.  The
\* loop goes over those of primeiros, a part of ps, and then over the others.
LacoInterrompido(ps, primeiros, at) ==
    \E p \in ps : \E movidos \in SUBSET (ps \ {p}), avisados \in SUBSET {p} :
        /\ primeiros \subseteq movidos \/ movidos \cup {p} \subseteq primeiros
        /\ estado' = Mover(estado, movidos \cup {p}, at)
        /\ Avisar(movidos \cup avisados, at)
        /\ falhas' = falhas \cup {"laco"}

\* Fault: a tracker that enters takes only orders whose tracker has left.
Defeito_SoDosMortos(at) == {p \in Mapeados(estado) : estado.mapa[p] \notin at}

\* _rebalancear_entrada_rastreador: the mapped orders whose choice changes
AfetadosPelaEntrada(at) ==
    {p \in Mapeados(estado) : EscolherServidor(p, at) # estado.mapa[p]}

\* Fault: only the orders of the backup are moved.
Defeito_SoBackup(r, backup, at) ==
    IF at = {} THEN {} ELSE {p \in backup : Existe(estado, p)}

\* detectar_falha_servidor_rastreador: the orders mapped to r and those of the
\* backup, as far as the ADM knows them; none when no tracker is left
AfetadosPelaFalha(r, backup, at) ==
    IF at = {} THEN {}
    ELSE {p \in Pedidos : Existe(estado, p) /\ (estado.mapa[p] = r \/ p \in backup)}

-----------------------------------------------------------------------------
(* Trackers: keep-alives, silence, crashes *)

\* A keep-alive of a tracker already in the ring
KeepAlive(r) ==
    /\ r \in vivos /\ r \in ativos
    /\ expirados' = expirados \ {r}
    /\ UNCHANGED <<estado, ativos, monitor, vivos, avisos, historia, falhas>>

\* The first keep-alive of a tracker outside the ring: it enters, and the
\* orders it attracts are moved, unless the broker fails on the way.
EntradaRastreador(r) ==
    /\ r \in vivos /\ r \notin ativos
    /\ expirados' = expirados \ {r}
    /\ ativos' = ativos \cup {r}
    /\ LacoCompleto(AfetadosPelaEntrada(ativos'), ativos')
    /\ UNCHANGED <<monitor, vivos, historia>>

EntradaInterrompida(r) ==
    /\ r \in vivos /\ r \notin ativos
    /\ expirados' = expirados \ {r}
    /\ ativos' = ativos \cup {r}
    /\ LacoInterrompido(AfetadosPelaEntrada(ativos'), {}, ativos')
    /\ UNCHANGED <<monitor, vivos, historia>>

\* Time passes: the last keep-alive of r is now too old, r running or not.
Silencio(r) ==
    /\ r \in ativos \ expirados
    /\ expirados' = expirados \cup {r}
    /\ UNCHANGED <<estado, ativos, monitor, vivos, avisos, historia, falhas>>

Cair(r) ==
    /\ r \in vivos \cap PodemCair
    /\ vivos' = vivos \ {r}
    /\ UNCHANGED <<estado, ativos, expirados, monitor, avisos, historia, falhas>>

Voltar(r) ==
    /\ r \notin vivos
    /\ vivos' = vivos \cup {r}
    /\ UNCHANGED <<estado, ativos, expirados, monitor, avisos, historia, falhas>>

-----------------------------------------------------------------------------
(* The monitoring loop *)

\* The loop goes over the expired trackers it read once, at the start (sorted
\* by name: any order), and asks the SUP of each for its backup.
ProximoAlvo(resto) ==
    \E r \in resto \cap ativos : monitor' = Buscando(r, resto \ {r})

IniciarCiclo ==
    /\ monitor.fase = "ocioso"
    /\ ProximoAlvo(expirados)
    /\ UNCHANGED <<estado, ativos, expirados, vivos, avisos, historia, falhas>>

\* The orders that were ever routed
Avisados == {p \in Pedidos : aviso[p] # Nenhum}

\* What the SUP of r may answer: a tracker never forgets an order it was told of,
\* so its backup may have any of these, delivered or moved since, or none.
Backups(r) == SUBSET conhecidos[r]

\* The backup arrives, or nothing does.  The tracker leaves the ring even if it
\* has been heard of in the meantime.
BackupRecebido ==
    /\ monitor.fase = "backup"
    /\ ativos' = ativos \ {monitor.alvo}
    /\ expirados' = expirados \ {monitor.alvo}
    /\ monitor' = Replicando(monitor.fila)
    /\ \E backup \in Backups(monitor.alvo) :
           LacoCompleto(AfetadosPelaFalha(monitor.alvo, backup, ativos'), ativos')
    /\ UNCHANGED <<vivos, historia>>

\* A broker failure ends the handler and, with it, the cycle.
RedistribuicaoInterrompida ==
    /\ monitor.fase = "backup"
    /\ ativos' = ativos \ {monitor.alvo}
    /\ expirados' = expirados \ {monitor.alvo}
    /\ monitor' = Ocioso
    /\ \E backup \in Backups(monitor.alvo) :
           LacoInterrompido(AfetadosPelaFalha(monitor.alvo, backup, ativos'),
                            AfetadosPelaFalha(monitor.alvo, {}, ativos'), ativos')
    /\ UNCHANGED <<vivos, historia>>

ReplicacaoConfirmada ==
    /\ monitor.fase = "replicando"
    /\ IF monitor.fila \cap ativos # {} THEN ProximoAlvo(monitor.fila)
                                        ELSE monitor' = Ocioso
    /\ UNCHANGED <<estado, ativos, expirados, vivos, avisos, historia, falhas>>

\* ReplicacaoSemMaioriaError leaves the rest of the list for a later cycle.
ReplicacaoSemMaioria ==
    /\ monitor.fase = "replicando"
    /\ monitor' = Ocioso
    /\ UNCHANGED <<estado, ativos, expirados, vivos, avisos, historia, falhas>>

-----------------------------------------------------------------------------
PassoMonitor == \/ IniciarCiclo
                \/ BackupRecebido
                \/ RedistribuicaoInterrompida
                \/ ReplicacaoConfirmada
                \/ ReplicacaoSemMaioria

Next ==
    \/ \E p \in Pedidos : \/ CriarPedido(p)
                          \/ PrepararPedido(p)
                          \/ ConfirmarEntrega(p)
                          \/ \E d \in Entregadores : \/ AceitarPedido(p, d)
                                                     \/ AceiteNaoPublicado(p, d)
    \/ \E r \in Rastreadores : \/ KeepAlive(r)
                               \/ EntradaRastreador(r)
                               \/ EntradaInterrompida(r)
                               \/ Silencio(r)
                               \/ Cair(r)
                               \/ Voltar(r)
    \/ PassoMonitor

Spec == Init /\ [][Next]_vars

\* The monitoring task runs for ever and its awaits have time-outs; a running
\* tracker keeps sending keep-alives; the last keep-alive of a dead one ages.
Justica ==
    /\ WF_vars(PassoMonitor)
    /\ \A r \in Rastreadores :
           WF_vars(KeepAlive(r) \/ EntradaRastreador(r) \/ EntradaInterrompida(r))
    /\ \A r \in PodemCair : WF_vars(r \notin vivos /\ Silencio(r))

\* The replication eventually stops failing: enough ADMs stay reachable.
MaioriaEstavel == <>[][~ReplicacaoSemMaioria]_vars

\* So does the broker: the loops are no longer cut.
BrokerEstavel ==
    <>[][~(RedistribuicaoInterrompida \/ \E r \in Rastreadores : EntradaInterrompida(r))]_vars

SpecJusta == Spec /\ Justica /\ MaioriaEstavel /\ BrokerEstavel

-----------------------------------------------------------------------------
(* Properties *)

\* Every variable has a value of its kind, and the monitor watches known trackers.
TypeOK == /\ estado \in Estado
          /\ ativos \subseteq Rastreadores
          /\ expirados \subseteq Rastreadores
          /\ monitor \in Monitor
          /\ vivos \subseteq Rastreadores
          /\ aviso \in [Pedidos -> Rastreadores \cup {Nenhum}]
          /\ conhecidos \in [Rastreadores -> SUBSET Avisados]
          /\ usados \subseteq Pedidos
          /\ reenviados \subseteq Pedidos
          /\ falhas \subseteq {"aceite", "laco"}

\* While some tracker is active, every routed order is at the tracker the ring
\* chooses among the active ones, whatever trackers came and went while the
\* monitor was waiting: only a loop cut by the broker can break it.
MapaSegueAnel ==
    "laco" \notin falhas /\ ativos # {} =>
        \A p \in Mapeados(estado) : estado.mapa[p] = EscolherServidor(p, ativos)

\* The queue and the orders agree: an order waits for a driver exactly when it
\* has none, so aceitar_pedido never finds an order out of the queue without a
\* driver (its RuntimeError), and the map has no order the ADM has forgotten.
FilaCoerente ==
    \A p \in Pedidos :
        /\ p \in estado.semEntregador <=> Existe(estado, p) /\ ~ComEntregador(estado, p)
        /\ p \in Mapeados(estado) => Existe(estado, p)

\* An order created once is routed exactly while it has a driver, and the
\* tracker written in the order is the one in the map.
RotaCoerente ==
    \A p \in Pedidos \ reenviados :
        /\ p \in Mapeados(estado) <=> ComEntregador(estado, p)
        /\ Existe(estado, p) => estado.pedidos[p].rastreador = estado.mapa[p]

\* While no publication has failed, the last routing update about an order went
\* to the tracker in the map.
RastreadorAvisado ==
    falhas = {} => \A p \in Mapeados(estado) : aviso[p] = estado.mapa[p]

\* An order in the queue was never routed to a tracker, so no SUP backup can have
\* it, unless its id was used twice; and only ids once created appear anywhere.
FilaNuncaRoteada ==
    /\ reenviados \cup Avisados \subseteq usados
    /\ \A p \in Pedidos : Existe(estado, p) => p \in usados
    /\ \A p \in Avisados \ reenviados : Existe(estado, p) => ComEntregador(estado, p)

\* Minimal remapping (docs/especificacao.md, section 9): an order changes
\* tracker only if the old one has just left the ring or the new one entered it.
RemapeamentoMinimo ==
    [][\A p \in Mapeados(estado) :
           "laco" \notin falhas /\ estado'.mapa[p] \notin {Nenhum, estado.mapa[p]} =>
               estado.mapa[p] \notin ativos' \/ estado'.mapa[p] \notin ativos]_vars

\* The life of an order as the leader shows it.  An id that is used again
\* leaves it: the promise covers an order up to then.
Fase == [p \in Pedidos |->
            IF p \notin usados THEN "novo"
            ELSE IF ~Existe(estado, p) \/ p \in reenviados THEN "entregue"
            ELSE IF ComEntregador(estado, p) THEN "aceito" ELSE "disponivel"]

Dono == [p \in Pedidos |-> IF Existe(estado, p) /\ p \notin reenviados
                           THEN estado.pedidos[p].entregador ELSE Nenhum]

Ciclo == INSTANCE CicloPedido WITH fase <- Fase, dono <- Dono

\* Every order goes through the life of CicloPedido: offered once, kept by the
\* first driver who accepts it, never back once delivered.
ImplementaCiclo == Ciclo!Spec

\* An order whose tracker r is dead while another tracker s is up
PresoEm(p, r, s) == estado.mapa[p] = r /\ r \notin vivos /\ s \in vivos

\* It moves off r while s stays up, also if the broker has failed at some time:
\* docs/especificacao.md says that the orders of a failed tracker are redistributed
\* and that partial failures are handled.  (Under one leader it does if the broker
\* cuts no loop, and ADMSucessao checks when it does so under a successor.)
RastreioSempreMigra ==
    \A p \in Pedidos, r, s \in Rastreadores : PresoEm(p, r, s) ~> ~PresoEm(p, r, s)
=============================================================================
