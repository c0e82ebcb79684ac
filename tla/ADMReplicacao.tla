--------------------------- MODULE ADMReplicacao ---------------------------
(***************************************************************************)
(* The cluster of ADM servers: the leader replicates a snapshot of its     *)
(* order state to every peer after each operation, and the ADM that takes  *)
(* over from a crashed leader announces itself, merges the states of its   *)
(* peers and replicates the result (src/src/servers/adm_server.py, with    *)
(* the HTTP transport of src/src/infra/adm_transport.py).                  *)
(*                                                                         *)
(* A handler that has changed the leader's state goes on as a task: it     *)
(* calls its peers one at a time, in the order of their ids, and other     *)
(* handlers run between two calls, also while the leader is taking over.   *)
(* MaxTarefas bounds how many are under way at once.  Up to MaxFalhas      *)
(* calls to running peers fail: the request is lost, or the answer is.  A  *)
(* request that is delivered after its time-out is not modelled.           *)
(*                                                                         *)
(* Leader election is abstracted to its outcome when failures are detected *)
(* correctly: the highest running ADM takes over once the leader is down.  *)
(* A crashed ADM does not come back, and crashes leave a majority.         *)
(* The trackers are those of Rastreadores, always active.                  *)
(***************************************************************************)
EXTENDS EstadoADM, FiniteSets

CONSTANTS N,           \* the ADM servers are 1..N, ordered as their ids
          MaxTarefas,  \* bound on the handlers under way at once
          PodemCair,   \* ADMs that may crash
          MaxFalhas    \* bound on the failed calls to running ADMs

ADMs    == 1..N
Maioria == (N \div 2) + 1
Vagas   == 1..MaxTarefas

ASSUME ReplicacaoAssumption ==
    /\ N \in Nat \ {0}
    /\ MaxTarefas \in Nat \ {0}
    /\ PodemCair \subseteq ADMs
    /\ MaxFalhas \in Nat
    /\ Rastreadores # {}

VARIABLES
    estado,       \* estado[a]: the order state of ADM a
    lider,        \* lider[a]: lider_atual of ADM a
    vivos,        \* the ADMs that run
    tarefas,      \* the handlers that wait for a peer
    usados,       \* history: order ids created
    encerrados,   \* history: orders whose delivery a leader has registered
    respostas,    \* history: operations answered with success
    firmes,       \* history: those of them that began with nothing else under way
    isolada,      \* history: so did the last replication
    falhas,       \* history: failed calls to running ADMs
    incompleta    \* history: a takeover was: the state of a running ADM was not got, a
                  \* running ADM did not follow the leader when this crashed, or the
                  \* leader executed an operation before its merge was done

clientes == <<usados, encerrados, respostas, firmes>>
vars == <<estado, lider, vivos, tarefas, clientes, isolada, falhas, incompleta>>

Criacao(p)    == [tipo |-> "criar", pedido |-> p]
Preparo(p)    == [tipo |-> "preparar", pedido |-> p]
Entrega(p)    == [tipo |-> "confirmar", pedido |-> p]
Aceite(p, d)  == [tipo |-> "aceitar", pedido |-> p, entregador |-> d]
Posse         == [tipo |-> "posse"]
Pedida        == [tipo : {"criar", "preparar", "confirmar"}, pedido : Pedidos]
                 \cup [tipo : {"aceitar"}, pedido : Pedidos, entregador : Entregadores]

Livre == [fase |-> "livre"]

\* _propagar_roteamento: the snapshot, the peers still to call, the ADMs counted; and
\* whether nothing else was under way
Replicando(a, e, op, so) == [fase |-> "replicando", adm |-> a, estado |-> e, op |-> op,
                             pendentes |-> ADMs \ {a}, confirmadas |-> 1, isolada |-> so]

\* _sincronizar_roteamento_com_peers: the merged state, which of its orders are the
\* very objects of the leader, the peers still to ask
Coletando(a, e) == [fase |-> "coletando", adm |-> a, estado |-> e,
                    proprios |-> {p \in Pedidos : Existe(e, p)}, pendentes |-> ADMs \ {a}]

\* _tornar_lider: the lower ADMs still to send NovoLider to
Anunciando(a) == [fase |-> "anunciando", adm |-> a, pendentes |-> 1..(a - 1)]

Tarefa == {Livre}
          \cup [fase : {"replicando"}, adm : ADMs, estado : Estado, op : Pedida \cup {Posse},
                pendentes : SUBSET ADMs, confirmadas : Nat, isolada : BOOLEAN]
          \cup [fase : {"coletando"}, adm : ADMs, estado : Estado,
                proprios : SUBSET Pedidos, pendentes : SUBSET ADMs]
          \cup [fase : {"anunciando"}, adm : ADMs, pendentes : SUBSET ADMs]

Init == /\ estado = [a \in ADMs |-> EstadoVazio]
        /\ lider = [a \in ADMs |-> N]
        /\ vivos = ADMs
        /\ tarefas = [t \in Vagas |-> Livre]
        /\ usados = {}
        /\ encerrados = {}
        /\ respostas = {}
        /\ firmes = {}
        /\ isolada = TRUE
        /\ falhas = 0
        /\ incompleta = FALSE

SouLider(a) == a \in vivos /\ lider[a] = a

\* The leader is in charge once its takeover has merged the states.
NoComando(a) ==
    /\ SouLider(a)
    /\ \A t \in Vagas : tarefas[t] # Livre /\ tarefas[t].adm = a
                            => tarefas[t].fase = "replicando"

\* Nothing but t is under way in the cluster.
Sozinha(t) == \A u \in Vagas \ {t} : tarefas[u] = Livre

-----------------------------------------------------------------------------
(* The operations of the leader.  Each changes the state of the leader and  *)
(* leaves a task that replicates it; refused requests change nothing.       *)

\* Fault: the snapshot that is replicated is the one from before the operation.
Defeito_SnapshotAntigo(a, t, e, op, ts) ==
    /\ SouLider(a)
    /\ tarefas[t] = Livre
    /\ estado' = [estado EXCEPT ![a] = e]
    /\ tarefas' = [ts EXCEPT ![t] = Replicando(a, estado[a], op, Sozinha(t))]
    /\ isolada' = Sozinha(t)
    /\ incompleta' = (incompleta \/ ~NoComando(a))
    /\ UNCHANGED <<lider, vivos, respostas, firmes, falhas>>

\* ts: the other tasks after the operation
Executar(a, t, e, op, ts) ==
    /\ SouLider(a)
    /\ tarefas[t] = Livre
    /\ estado' = [estado EXCEPT ![a] = e]
    /\ tarefas' = [ts EXCEPT ![t] = Replicando(a, e, op, Sozinha(t))]
    /\ isolada' = Sozinha(t)
    /\ incompleta' = (incompleta \/ ~NoComando(a))
    /\ UNCHANGED <<lider, vivos, respostas, firmes, falhas>>

\* A merge copies the dictionaries, not the orders: what a handler of the leader
\* writes in an order of its own is in the merge too, the queue and the map are not.
Compartilha(u, a, p) == /\ tarefas[u].fase = "coletando" /\ tarefas[u].adm = a
                        /\ p \in tarefas[u].proprios /\ Existe(tarefas[u].estado, p)

ComPreparo(a, p) ==
    [u \in Vagas |-> IF Compartilha(u, a, p)
                     THEN [tarefas[u] EXCEPT !.estado = Preparar(@, p)] ELSE tarefas[u]]

ComAtribuicao(a, p, d) ==
    [u \in Vagas |-> IF Compartilha(u, a, p)
                     THEN [tarefas[u] EXCEPT !.estado =
                              Atribuir(@, p, d, EscolherServidor(p, Rastreadores))]
                     ELSE tarefas[u]]

CriarPedido(a, t, p) ==
    /\ p \notin usados
    /\ Executar(a, t, Criar(estado[a], p), Criacao(p), tarefas)
    /\ usados' = usados \cup {p}
    /\ UNCHANGED encerrados

PrepararPedido(a, t, p) ==
    /\ Existe(estado[a], p)
    /\ Executar(a, t, Preparar(estado[a], p), Preparo(p), ComPreparo(a, p))
    /\ UNCHANGED <<usados, encerrados>>

\* Fault: an order out of the queue can be taken again.
Defeito_AceitaSempre(e, p) == Existe(e, p)

\* What lets driver d take order p: to be in the queue, whatever the order says
PodeAceitar(e, p) == Existe(e, p) /\ p \in e.semEntregador

AceitarPedido(a, t, p, d) ==
    /\ PodeAceitar(estado[a], p)
    /\ Executar(a, t, Aceitar(estado[a], p, d, Rastreadores), Aceite(p, d),
                ComAtribuicao(a, p, d))
    /\ UNCHANGED <<usados, encerrados>>

\* The driver who has the order is answered at once, also while his first accept is
\* being replicated: nothing is replicated for this one.
RepetirAceite(a, p, d) ==
    /\ SouLider(a)
    /\ Existe(estado[a], p) /\ p \notin estado[a].semEntregador
    /\ estado[a].pedidos[p].entregador = d
    /\ respostas' = respostas \cup {Aceite(p, d)}
    /\ UNCHANGED <<estado, lider, vivos, tarefas, usados, encerrados, firmes, isolada,
                   falhas, incompleta>>

ConfirmarEntrega(a, t, p) ==
    /\ Existe(estado[a], p)
    /\ Executar(a, t, Confirmar(estado[a], p), Entrega(p), tarefas)
    /\ encerrados' = encerrados \cup {p}
    /\ UNCHANGED usados

-----------------------------------------------------------------------------
(* Calls to the peers *)

\* The next peer of task t, in the order of the ids
Chama(t, etapa, b) ==
    /\ tarefas[t].fase = etapa
    /\ b \in tarefas[t].pendentes
    /\ \A c \in tarefas[t].pendentes : b <= c

Seguinte(t, b) == [tarefas[t] EXCEPT !.pendentes = @ \ {b}]

\* A call to b can fail: b is down, or the network loses it.
PodeFalhar(b) == b \notin vivos \/ falhas < MaxFalhas
RegistrarFalha(b) == falhas' = IF b \in vivos THEN falhas + 1 ELSE falhas

\* Fault: the map of the snapshot is not applied.
Defeito_MapaAntigo(b, a, e) ==
    estado' = IF lider[b] = a THEN [estado EXCEPT ![b] = [e EXCEPT !.mapa = estado[b].mapa]]
              ELSE estado

\* processar_replicacao_roteamento: a snapshot of another leader is ignored.
Aplicar(b, a, e) == estado' = IF lider[b] = a THEN [estado EXCEPT ![b] = e] ELSE estado

\* The peer answers 200 whether it has applied the snapshot or ignored it.
ReplicaConfirmada(t, b) ==
    /\ Chama(t, "replicando", b)
    /\ b \in vivos
    /\ Aplicar(b, tarefas[t].adm, tarefas[t].estado)
    /\ tarefas' = [tarefas EXCEPT ![t] = [Seguinte(t, b) EXCEPT !.confirmadas = @ + 1]]
    /\ UNCHANGED <<lider, vivos, clientes, isolada, falhas, incompleta>>

\* The peer is not reached, or it is and its answer is lost.
ReplicaFalha(t, b) ==
    /\ Chama(t, "replicando", b)
    /\ PodeFalhar(b)
    /\ \/ UNCHANGED estado
       \/ b \in vivos /\ Aplicar(b, tarefas[t].adm, tarefas[t].estado)
    /\ tarefas' = [tarefas EXCEPT ![t] = Seguinte(t, b)]
    /\ RegistrarFalha(b)
    /\ UNCHANGED <<lider, vivos, clientes, isolada, incompleta>>

\* The client of task t is told of success.
Responder(t, sucesso) ==
    LET op == tarefas[t].op
    IN  /\ respostas' = IF sucesso /\ op # Posse THEN respostas \cup {op} ELSE respostas
        /\ firmes' = IF sucesso /\ op # Posse /\ tarefas[t].isolada THEN firmes \cup {op}
                                                                    ELSE firmes

\* Fault: success whatever the number of confirmations.
Defeito_SemMaioria(t) ==
    /\ tarefas[t].fase = "replicando"
    /\ tarefas[t].pendentes = {}
    /\ Responder(t, TRUE)
    /\ tarefas' = [tarefas EXCEPT ![t] = Livre]
    /\ UNCHANGED <<estado, lider, vivos, usados, encerrados, isolada, falhas, incompleta>>

\* After the last call the client is told of success if a majority was counted,
\* and otherwise gets 503: the leader keeps the change either way.
Concluir(t) ==
    /\ tarefas[t].fase = "replicando"
    /\ tarefas[t].pendentes = {}
    /\ Responder(t, tarefas[t].confirmadas >= Maioria)
    /\ tarefas' = [tarefas EXCEPT ![t] = Livre]
    /\ UNCHANGED <<estado, lider, vivos, usados, encerrados, isolada, falhas, incompleta>>

-----------------------------------------------------------------------------
(* Crash of an ADM and takeover *)

Cair(a) ==
    /\ a \in vivos \cap PodemCair
    /\ Cardinality(vivos) > Maioria
    /\ vivos' = vivos \ {a}
    /\ tarefas' = [t \in Vagas |->
                      IF tarefas[t] # Livre /\ tarefas[t].adm = a THEN Livre ELSE tarefas[t]]
    /\ incompleta' = (incompleta \/ (NoComando(a) /\ \E b \in vivos : lider[b] # a))
    /\ UNCHANGED <<estado, lider, clientes, isolada, falhas>>

\* The highest running ADM, whose leader is down, becomes leader.
Suceder(a, t) ==
    /\ a \in vivos /\ lider[a] \notin vivos
    /\ \A b \in vivos : b <= a
    /\ tarefas[t] = Livre
    /\ lider' = [lider EXCEPT ![a] = a]
    /\ tarefas' = [tarefas EXCEPT ![t] = Anunciando(a)]
    /\ UNCHANGED <<estado, vivos, clientes, isolada, falhas, incompleta>>

AnuncioEntregue(t, b) ==
    /\ Chama(t, "anunciando", b)
    /\ b \in vivos
    /\ lider' = [lider EXCEPT ![b] = tarefas[t].adm]
    /\ tarefas' = [tarefas EXCEPT ![t] = Seguinte(t, b)]
    /\ UNCHANGED <<estado, vivos, clientes, isolada, falhas, incompleta>>

AnuncioPerdido(t, b) ==
    /\ Chama(t, "anunciando", b)
    /\ PodeFalhar(b)
    /\ tarefas' = [tarefas EXCEPT ![t] = Seguinte(t, b)]
    /\ RegistrarFalha(b)
    /\ UNCHANGED <<estado, lider, vivos, clientes, isolada, incompleta>>

\* The merge starts from the state of the new leader at this moment.
IniciarColeta(t) ==
    /\ tarefas[t].fase = "anunciando"
    /\ tarefas[t].pendentes = {}
    /\ tarefas' = [tarefas EXCEPT ![t] = Coletando(tarefas[t].adm, estado[tarefas[t].adm])]
    /\ UNCHANGED <<estado, lider, vivos, clientes, isolada, falhas, incompleta>>

ColetaRecebida(t, b) ==
    /\ Chama(t, "coletando", b)
    /\ b \in vivos
    /\ tarefas' = [tarefas EXCEPT ![t] =
                      [Seguinte(t, b) EXCEPT !.estado = Mesclar(@, estado[b])]]
    /\ UNCHANGED <<estado, lider, vivos, clientes, isolada, falhas, incompleta>>

ColetaFalha(t, b) ==
    /\ Chama(t, "coletando", b)
    /\ PodeFalhar(b)
    /\ tarefas' = [tarefas EXCEPT ![t] = Seguinte(t, b)]
    /\ RegistrarFalha(b)
    /\ incompleta' = (incompleta \/ b \in vivos)
    /\ UNCHANGED <<estado, lider, vivos, clientes, isolada>>

\* The merged state replaces that of the new leader, who then replicates it.
AssumirEstado(t) ==
    LET a == tarefas[t].adm
        e == tarefas[t].estado
    IN  /\ tarefas[t].fase = "coletando"
        /\ tarefas[t].pendentes = {}
        /\ estado' = [estado EXCEPT ![a] = e]
        /\ tarefas' = [tarefas EXCEPT ![t] = Replicando(a, e, Posse, Sozinha(t))]
        /\ isolada' = Sozinha(t)
        /\ UNCHANGED <<lider, vivos, clientes, falhas, incompleta>>

-----------------------------------------------------------------------------
Operacao(a) ==
    \/ \E t \in Vagas, p \in Pedidos :
           \/ CriarPedido(a, t, p)
           \/ PrepararPedido(a, t, p)
           \/ ConfirmarEntrega(a, t, p)
           \/ \E d \in Entregadores : AceitarPedido(a, t, p, d)
    \/ \E p \in Pedidos, d \in Entregadores : RepetirAceite(a, p, d)

Passo(t) == \/ \E b \in ADMs : \/ ReplicaConfirmada(t, b)
                               \/ ReplicaFalha(t, b)
                               \/ AnuncioEntregue(t, b)
                               \/ AnuncioPerdido(t, b)
                               \/ ColetaRecebida(t, b)
                               \/ ColetaFalha(t, b)
            \/ Concluir(t)
            \/ IniciarColeta(t)
            \/ AssumirEstado(t)

Next == \/ \E a \in ADMs : \/ Operacao(a)
                           \/ Cair(a)
                           \/ \E t \in Vagas : Suceder(a, t)
        \/ \E t \in Vagas : Passo(t)

Spec == Init /\ [][Next]_vars

-----------------------------------------------------------------------------
(* Properties *)

\* Every variable has a value of its kind.
TypeOK == /\ estado \in [ADMs -> Estado]
          /\ lider \in [ADMs -> ADMs]
          /\ vivos \subseteq ADMs
          /\ tarefas \in [Vagas -> Tarefa]
          /\ usados \subseteq Pedidos
          /\ encerrados \subseteq Pedidos
          /\ respostas \subseteq Pedida
          /\ firmes \subseteq Pedida
          /\ isolada \in BOOLEAN
          /\ falhas \in Nat
          /\ incompleta \in BOOLEAN

\* At every ADM and in every snapshot or merge under way, through failed calls,
\* crashes and concurrent operations: the queue and the map hold known orders only,
\* and an order out of the queue has a driver and a tracker (aceitar_pedido never
\* raises its RuntimeError).
EstadosCoerentes ==
    /\ \A a \in ADMs : Coerente(estado[a])
    /\ \A t \in Vagas : tarefas[t].fase \in {"replicando", "coletando"}
                            => Coerente(tarefas[t].estado)

\* What remains of an operation in the state e of a leader; a delivered order is
\* forgotten, so the earlier operations on it leave nothing.
Reflete(e, op) ==
    IF op.tipo = "confirmar" THEN ~Existe(e, op.pedido)
    ELSE \/ op.pedido \in encerrados
         \/ /\ Existe(e, op.pedido)
            /\ op.tipo = "preparar" => e.pedidos[op.pedido].preparado
            /\ op.tipo = "aceitar" => e.pedidos[op.pedido].entregador = op.entregador

\* As long as no call between running ADMs has failed, an operation that was answered
\* with success and began with nothing else under way shows at every running ADM from
\* then on, whatever handlers overlap later, also with takeovers, and wherever in them
\* the leaders crash.  One that began while another handler replicated can be undone
\* by the older snapshot, one that began in a takeover by its merge.
RespostasMantidas ==
    falhas = 0 => \A a \in vivos : \A op \in firmes : Reflete(estado[a], op)

\* Under the same conditions, once a driver has been told that he has the order no
\* other one is told so: README.md, "apenas o primeiro aceite vale".
PrimeiroAceiteVale ==
    [][falhas' = 0 =>
           \A p \in Pedidos : \A d1, d2 \in Entregadores :
               Aceite(p, d1) \in firmes /\ Aceite(p, d2) \in respostas' \ respostas
                   => d1 = d2]_vars

\* Once nothing is under way and if no call has failed, the running ADMs have the
\* state of their leader, provided the last replication overlapped no other when it
\* began, whatever overlapped before.
ConvergeIsolada ==
    falhas = 0 /\ isolada /\ (\A t \in Vagas : tarefas[t] = Livre) =>
        \A a, b \in vivos : SouLider(a) => estado[b] = estado[a]

\* Whatever calls fail, an order whose creation was answered with success and began with
\* nothing else under way is known to the leader in charge until it is delivered, if the
\* takeovers were complete.
CriacaoSobrevive ==
    ~incompleta => \A a \in ADMs : NoComando(a) =>
        \A p \in Pedidos : Criacao(p) \in firmes => p \in encerrados \/ Existe(estado[a], p)

\* Two drivers are never both told that they have the order, each after a majority has
\* confirmed his accept: README.md, "apenas o primeiro aceite vale".
UmSoEntregador ==
    \A p \in Pedidos : \A d1, d2 \in Entregadores :
        Aceite(p, d1) \in firmes /\ Aceite(p, d2) \in firmes => d1 = d2

\* Once nothing is under way and if no call has failed, the running ADMs have the
\* same state as their leader: docs/especificacao.md, eventual consistency.
ReplicasConvergem ==
    falhas = 0 /\ (\A t \in Vagas : tarefas[t] = Livre) =>
        \A a, b \in vivos : SouLider(a) => estado[b] = estado[a]

\* If no call between running ADMs fails, the crash of an ADM costs no order whose
\* creation was answered: README.md, replication "para tolerar falhas de processos
\* individuais".
CriadosSobrevivem ==
    falhas = 0 => \A a \in ADMs : NoComando(a) =>
        \A p \in Pedidos : Criacao(p) \in respostas => p \in encerrados \/ Existe(estado[a], p)
=============================================================================
