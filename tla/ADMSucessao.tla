----------------------------- MODULE ADMSucessao -----------------------------
(***************************************************************************)
(* The leadership of ADMLider passing to another ADM                       *)
(* (src/src/servers/adm_server.py).  The successor has the orders and the  *)
(* map of the last snapshot it applied and the trackers it has itself      *)
(* heard of: every ADM gets every keep-alive, the set of active trackers   *)
(* is not replicated, and a follower adds a tracker without moving any     *)
(* order and expires none.  It leads from its announcement on, and merges  *)
(* the states of its peers while its handlers and its monitor run.         *)
(*                                                                         *)
(* The ADMs are 1..N, in the order of their ids, and lead from the highest *)
(* down: how a successor is chosen is in Eleicao.  What a replication      *)
(* leaves behind is abstracted: each follower has the state of the leader  *)
(* at some moment of the past, whether later snapshots failed, are late,   *)
(* were overtaken by older ones or were never sent, the leader having      *)
(* crashed after its publications or having raised.  What is answered to   *)
(* clients, and what they lose, is in ADMReplicacao.                       *)
(***************************************************************************)
EXTENDS ADMLider

CONSTANTS N,             \* number of ADMs
          MaxSucessoes,  \* bound on the changes of leader
          Ouvidos        \* the sets of trackers a successor may have heard of

ASSUME SucessaoAssumption == /\ N \in Nat \ {0}
                             /\ MaxSucessoes \in 0..(N - 1)
                             /\ Ouvidos \subseteq SUBSET Rastreadores
                             /\ Reenviaveis = {}

VARIABLES
    lider,        \* the ADM that leads
    copia,        \* the order state of each ADM below it
    posse,        \* where _tornar_lider is
    desalinhados  \* history: orders the last takeover left elsewhere than the ring
                  \* says, and that are there still

varsSucessao == <<vars, lider, copia, posse, desalinhados>>

Assumida == [fase |-> "assumida"]
Anunciando == [fase |-> "anunciando"]

\* _sincronizar_roteamento_com_peers: the merge, which of its orders are the very
\* objects of the leader, the peers still to ask
Coletando(e) == [fase |-> "coletando", estado |-> e,
                 proprios |-> {p \in Pedidos : Existe(e, p)}, pendentes |-> 1..(lider - 1)]

Posse == {Assumida, Anunciando}
         \cup [fase : {"coletando"}, estado : Estado,
               proprios : SUBSET Pedidos, pendentes : SUBSET (1..N)]

InitSucessao == /\ Init
                /\ lider = N
                /\ copia = [b \in 1..(N - 1) |-> EstadoVazio]
                /\ posse = Assumida
                /\ desalinhados = {}

\* The routed orders that are not where the ring of at says
Desviados(e, at) ==
    {p \in Mapeados(e) : at = {} \/ e.mapa[p] # EscolherServidor(p, at)}

Realinhar == desalinhados' = desalinhados \cap Desviados(estado', ativos')

\* The merge copies the dictionaries, not the orders: what is written in an order of
\* the leader is in the merge too, what happens to the queue and the map is not.
Compartilhar ==
    posse' = IF posse.fase # "coletando" THEN posse
             ELSE [posse EXCEPT !.estado.pedidos = [p \in Pedidos |->
                      IF p \in posse.proprios /\ Existe(estado, p) /\ Existe(estado', p)
                      THEN estado'.pedidos[p] ELSE @[p]]]

-----------------------------------------------------------------------------
(* The steps of ADMLider, whoever leads *)

Liderar(passo) == /\ passo
                  /\ Compartilhar
                  /\ Realinhar
                  /\ UNCHANGED <<lider, copia>>

\* A snapshot of the leader, which some handler has taken since its last change of
\* the state, reaches b and is applied.
Replicar(b) ==
    /\ copia' = [copia EXCEPT ![b] = estado]
    /\ UNCHANGED <<vars, lider, posse, desalinhados>>

-----------------------------------------------------------------------------
(* _tornar_lider *)

\* The leader is gone, and the next ADM takes itself for the leader.
Suceder ==
    /\ lider > N - MaxSucessoes
    /\ lider' = lider - 1
    /\ estado' = copia[lider - 1]
    /\ copia' = [b \in 1..(lider - 2) |-> copia[b]]
    /\ ativos' \in Ouvidos
    /\ expirados' = {}
    /\ monitor' = Ocioso
    /\ posse' = Anunciando
    /\ desalinhados' = {}
    /\ UNCHANGED <<vivos, avisos, historia, falhas>>

\* The announcements have been sent; the merge starts from the state of this moment.
IniciarColeta ==
    /\ posse.fase = "anunciando"
    /\ posse' = Coletando(estado)
    /\ UNCHANGED <<vars, lider, copia, desalinhados>>

\* The peers are asked in the order of their ids.
Consulta(b) == /\ posse.fase = "coletando"
               /\ b \in posse.pendentes
               /\ \A c \in posse.pendentes : b <= c

ColetaRecebida(b) ==
    /\ Consulta(b)
    /\ posse' = [posse EXCEPT !.estado = Mesclar(@, copia[b]), !.pendentes = @ \ {b}]
    /\ UNCHANGED <<vars, lider, copia, desalinhados>>

\* The peer does not answer, or is not active for the leader and is not asked.
ColetaFalha(b) ==
    /\ Consulta(b)
    /\ posse' = [posse EXCEPT !.pendentes = @ \ {b}]
    /\ UNCHANGED <<vars, lider, copia, desalinhados>>

\* The merge replaces the orders, the queue and the map, whatever became of them
\* in the meantime.
AssumirEstado ==
    /\ posse.fase = "coletando"
    /\ posse.pendentes = {}
    /\ estado' = posse.estado
    /\ posse' = Assumida
    /\ desalinhados' = Desviados(estado', ativos)
    /\ UNCHANGED <<infra, avisos, historia, falhas, lider, copia>>

PassoPosse == \/ IniciarColeta
              \/ \E b \in 1..(lider - 1) : ColetaRecebida(b) \/ ColetaFalha(b)
              \/ AssumirEstado

-----------------------------------------------------------------------------
\* The steps of Next but two kinds: the mark that PrepararPedido leaves in an order
\* plays no part here, and what a cut loop leaves behind is shown under one leader.
PassoMonitorInteiro == \/ IniciarCiclo
                       \/ BackupRecebido
                       \/ ReplicacaoConfirmada
                       \/ ReplicacaoSemMaioria

Ouvir(r) == KeepAlive(r) \/ EntradaRastreador(r)

PassoLider ==
    \/ \E p \in Pedidos : \/ CriarPedido(p)
                          \/ ConfirmarEntrega(p)
                          \/ \E d \in Entregadores : \/ AceitarPedido(p, d)
                                                     \/ AceiteNaoPublicado(p, d)
    \/ \E r \in Rastreadores : Ouvir(r) \/ Silencio(r) \/ Cair(r) \/ Voltar(r)
    \/ PassoMonitorInteiro

NextSucessao ==
    \/ Liderar(PassoLider)
    \/ \E b \in 1..(lider - 1) : Replicar(b)
    \/ Suceder
    \/ PassoPosse

\* The fairness of ADMLider, of whoever leads; the calls of a takeover have time-outs.
JusticaSucessao ==
    /\ WF_varsSucessao(Liderar(PassoMonitorInteiro))
    /\ WF_varsSucessao(PassoPosse)
    /\ \A r \in Rastreadores : WF_varsSucessao(Liderar(Ouvir(r)))
    /\ \A r \in PodemCair : WF_varsSucessao(Liderar(r \notin vivos /\ Silencio(r)))

SpecSucessao == /\ InitSucessao /\ [][NextSucessao]_varsSucessao
                /\ JusticaSucessao /\ MaioriaEstavel

-----------------------------------------------------------------------------
(* Properties *)

\* Every variable has a value of its kind: what a successor inherits is a state.
TipoSucessao == /\ TypeOK
                /\ lider \in 1..N
                /\ copia \in [1..(lider - 1) -> Estado]
                /\ posse \in Posse
                /\ desalinhados \subseteq Pedidos

\* Through changes of leader, merges and the moves made during one: the queue and
\* the map hold known orders only and an order out of the queue has a driver and a
\* tracker, at the leader, at the other ADMs and in the merge.
CoerenciaSucessao ==
    /\ Coerente(estado)
    /\ \A b \in 1..(lider - 1) : Coerente(copia[b])
    /\ posse.fase = "coletando" => Coerente(posse.estado)

\* What a takeover leaves elsewhere than the ring says is all that ever is:
\* a successor that knows other trackers, or whose merge brings an old
\* map back, misplaces orders, and whatever comes and goes afterwards puts them
\* right or leaves them, and misplaces no other.
MapaRealinhado ==
    posse = Assumida /\ ativos # {} =>
        Desviados(estado, ativos) \subseteq desalinhados

\* An order of the leader that is on a tracker out of its ring since the takeover:
\* nobody is left to expire that tracker, and only an entry would move the order.
Abandonado(p) == p \in desalinhados /\ estado.mapa[p] \notin ativos

\* An order on a dead tracker moves off it while another tracker stays up, whoever
\* leads, unless the broker has cut a loop or a takeover has abandoned it.
MigraAposSucessao ==
    \A p \in Pedidos, r \in PodemCair : \A s \in Rastreadores \ {r} :
        PresoEm(p, r, s) ~> ~PresoEm(p, r, s) \/ Abandonado(p)
=============================================================================
