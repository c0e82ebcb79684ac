------------------------------ MODULE Eleicao ------------------------------
(***************************************************************************)
(* The election of the leader among the ADM servers, the bully algorithm   *)
(* of src/src/servers/adm_server.py over HTTP                              *)
(* (src/src/infra/adm_transport.py).                                       *)
(*                                                                         *)
(* An ADM runs several coroutines on one event loop: the monitor (number   *)
(* 0) and the HTTP handlers that take part in elections (the others).  A   *)
(* coroutine runs without interruption from one await to the next, so an   *)
(* action is one such stretch, and tarefa[a][t] says at which await        *)
(* coroutine t of ADM a stands.  Coroutines of the same ADM share its      *)
(* record adm[a]: what one of them read before an await another may have   *)
(* changed after it.                                                       *)
(*                                                                         *)
(* Time is abstracted to the order of events.  With the defaults (10 s for *)
(* heartbeat_timeout, a keep-alive every 5 s, 2 s for eleicao_timeout) a   *)
(* running ADM is normally not silent for heartbeat_timeout (Silenciar,    *)
(* Sossego) and answers a request for an election within eleicao_timeout   *)
(* (Vencer).  What breaks this is a fault of the network or of a slow      *)
(* process: at most MaxEventos of them, of the kinds of Eventos, each      *)
(* recorded in eventos with the ADM that it is about.                      *)
(***************************************************************************)
EXTENDS Integers, FiniteSets, FiniteSetsExt

CONSTANTS N,            \* ADMs 1..N, in the order of their ids
          Atendimentos, \* most handlers of one ADM at once
          PodemVoltar,  \* ADMs that restart after a crash
          Eventos,      \* kinds of events that happen, see Tipos
          MaxEventos,   \* events
          MaxAbalos     \* crashes and events together

ADMs == 1..N

Tipos == {"manual",     \* an election asked for by hand (POST /infra/eleicao)
          "suspeita",   \* a running ADM is silent for heartbeat_timeout
          "chamada",    \* IniciarEleicao to a running ADM fails
          "tardia",     \* a RespostaEleicao comes after eleicao_timeout
          "anuncio"}    \* NovoLider to a running ADM fails

ASSUME EleicaoAssumption == /\ N \in Nat \ {0}
                            /\ Atendimentos \in Nat \ {0}
                            /\ PodemVoltar \subseteq ADMs
                            /\ Eventos \subseteq Tipos
                            /\ MaxEventos \in Nat
                            /\ MaxAbalos \in Nat

Monitor == 0
Handlers == 1..Atendimentos
Tarefas == {Monitor} \cup Handlers

VARIABLES
    vivos,      \* ADMs whose process runs
    adm,        \* the election state of each ADM, see Estado
    silencio,   \* silencio[a]: ADMs whose last keep-alive at a is too old
    tarefa,     \* where each coroutine of each ADM waits
    quedas,     \* crashes so far
    eventos     \* the events so far: their kind and the ADM they are about

vars == <<vivos, adm, silencio, tarefa, quedas, eventos>>
contadores == <<quedas, eventos>>

Abalos == quedas + Cardinality(eventos)

\* aguardando_eleicao is always the negation of lider_disponivel.
Estado == [lider : ADMs,           \* lider_atual
           disponivel : BOOLEAN,   \* lider_disponivel
           ativos : SUBSET ADMs,   \* servidores_adm_ativos
           emEleicao : BOOLEAN,    \* eleicao_em_andamento
           resposta : BOOLEAN]     \* recebeu_resposta_de_maior

Livre == [fase |-> "livre"]                              \* no such coroutine
Batendo(s) == [fase |-> "batendo", faltam |-> s]         \* sending keep-alives
Respondendo(b) == [fase |-> "respondendo", origem |-> b] \* sending the answer
Chamando(s) == [fase |-> "chamando", faltam |-> s]       \* calling higher ADMs
Aguardando == [fase |-> "aguardando"]                    \* waiting for answers
Anunciando(s) == [fase |-> "anunciando", faltam |-> s]   \* sending NovoLider

Tarefa == {Livre, Aguardando}
          \cup [fase : {"batendo", "chamando", "anunciando"}, faltam : SUBSET ADMs]
          \cup [fase : {"respondendo"}, origem : ADMs]

\* The monitor is about to begin a cycle, or asleep until the next one.
Repouso(a, t) == IF t = Monitor THEN Batendo(ADMs \ {a}) ELSE Livre
Parado(a) == [t \in Tarefas |-> Repouso(a, t)]

\* The state of an ADM that has just started: the highest id is taken for
\* the leader, and every ADM for active, whoever runs.
EstadoInicial == [lider |-> N, disponivel |-> TRUE, ativos |-> ADMs,
                  emEleicao |-> FALSE, resposta |-> FALSE]

Init == /\ vivos = ADMs
        /\ adm = [a \in ADMs |-> EstadoInicial]
        /\ silencio = [a \in ADMs |-> {}]
        /\ tarefa = [a \in ADMs |-> Parado(a)]
        /\ quedas = 0
        /\ eventos = {}

-----------------------------------------------------------------------------
(* What a coroutine of a does between two awaits: the record it leaves and *)
(* where it waits next.                                                    *)

\* Fault: the comparison of ids is the wrong way round.
Defeito_Trocado(a, e) == {b \in e.ativos : b < a}

Maiores(a, e) == {b \in e.ativos : b > a}

\* Fault: the ADM does not leave itself out.
Defeito_IncluiASi(a, e) == {b \in e.ativos : b <= a}

Menores(a, e) == {b \in e.ativos : b < a}

\* Fault: the announcement goes to the ADMs with a higher id.
Defeito_AnunciaAcima(a, e) ==
    [adm |-> [e EXCEPT !.lider = a, !.disponivel = TRUE, !.emEleicao = FALSE],
     tarefa |-> Anunciando(Maiores(a, e))]

\* Fault: the announcement goes to every active ADM.
Defeito_AnunciaATodos(a, e) ==
    [adm |-> [e EXCEPT !.lider = a, !.disponivel = TRUE, !.emEleicao = FALSE],
     tarefa |-> Anunciando(e.ativos \ {a})]

\* _tornar_lider up to its first await.  The synchronisation and replication
\* that follow the announcements are in ADMReplicacao.
TornarLider(a, e) ==
    [adm |-> [e EXCEPT !.lider = a, !.disponivel = TRUE, !.emEleicao = FALSE],
     tarefa |-> Anunciando(Menores(a, e))]

\* iniciar_eleicao up to its first await: nothing while an election is under
\* way, else calls to the higher active ADMs, or leadership without any.
IniciarEleicao(a, e) ==
    LET aberta == [e EXCEPT !.emEleicao = TRUE, !.resposta = FALSE]
    IN  CASE e.emEleicao -> [adm |-> e, tarefa |-> Livre]
          [] ~e.emEleicao /\ Maiores(a, e) = {} -> TornarLider(a, aberta)
          [] OTHER -> [adm |-> aberta, tarefa |-> Chamando(Maiores(a, e))]

\* Coroutine t goes on to an await; without peers left to call it ends, or
\* waits for the answers.
Onde(a, t, r) == CASE r.fase = "chamando" /\ r.faltam = {} -> Aguardando
                   [] r = Livre \/ (r.fase = "anunciando" /\ r.faltam = {}) -> Repouso(a, t)
                   [] OTHER -> r

Ir(a, t, r) == tarefa' = [tarefa EXCEPT ![a][t] = Onde(a, t, r)]

Mudar(a, t, r) == adm' = [adm EXCEPT ![a] = r.adm] /\ Ir(a, t, r.tarefa)

\* Coroutine t of a runs and stands at the given await.
Esta(a, t, fase) == a \in vivos /\ tarefa[a][t].fase = fase

\* The next of the peers a coroutine calls one after the other, in id order.
Proximo(a, t) == Min(tarefa[a][t].faltam)
Restam(a, t) == tarefa[a][t].faltam \ {Proximo(a, t)}

-----------------------------------------------------------------------------
(* The monitor *)

\* A keep-alive is processed by its receiver, or lost with it.
BaterKeepAlive(a) ==
    /\ Esta(a, Monitor, "batendo") /\ tarefa[a][Monitor].faltam # {}
    /\ LET b == Proximo(a, Monitor)
       IN  IF b \in vivos
           THEN /\ adm' = [adm EXCEPT ![b].ativos = @ \cup {a}]
                /\ silencio' = [silencio EXCEPT ![b] = @ \ {a}]
           ELSE UNCHANGED <<adm, silencio>>
    /\ Ir(a, Monitor, Batendo(Restam(a, Monitor)))
    /\ UNCHANGED <<vivos, contadores>>

\* detectar_falha_lider acts only on the first detection: lider_disponivel
\* stays false, and the leader is not suspected again, until a new one.
LiderCaiu(a, e) ==
    /\ e.lider # a
    /\ e.disponivel
    /\ e.lider \in silencio[a] \/ e.lider \notin e.ativos

\* After the keep-alives: expire the silent ADMs, then detect the failure of
\* the leader and start the election (on_lider_caiu).
Monitorar(a) ==
    /\ Esta(a, Monitor, "batendo") /\ tarefa[a][Monitor].faltam = {}
    /\ LET e == [adm[a] EXCEPT !.ativos = @ \ (silencio[a] \ {a})]
           semLider == [e EXCEPT !.disponivel = FALSE, !.ativos = @ \ {e.lider}]
       IN  Mudar(a, Monitor, IF LiderCaiu(a, e) THEN IniciarEleicao(a, semLider)
                                                ELSE [adm |-> e, tarefa |-> Livre])
    /\ UNCHANGED <<vivos, silencio, contadores>>

-----------------------------------------------------------------------------
(* The election messages *)

HandlersLivres(b) == {t \in Handlers : tarefa[b][t] = Livre}

\* IniciarEleicao reaches b, whose handler first sends the answer; a call to
\* an ADM that is down fails and is ignored.
ChamarMaior(a, t) ==
    /\ Esta(a, t, "chamando")
    /\ LET b == Proximo(a, t)
           chamou == [tarefa EXCEPT ![a][t] = Onde(a, t, Chamando(Restam(a, t)))]
       IN  \/ b \notin vivos /\ tarefa' = chamou
           \/ /\ b \in vivos /\ HandlersLivres(b) # {}
              /\ tarefa' = [chamou EXCEPT ![b][Min(HandlersLivres(b))] = Respondendo(a)]
    /\ UNCHANGED <<vivos, adm, silencio, contadores>>

\* RespostaEleicao reaches the caller; then the handler of b takes part in
\* the election itself.
Responder(b, t) ==
    /\ Esta(b, t, "respondendo")
    /\ LET a == tarefa[b][t].origem
           r == IniciarEleicao(b, adm[b])
           respondido == [adm EXCEPT ![a].resposta = IF a \in vivos /\ b > a THEN TRUE ELSE @]
       IN  /\ adm' = [respondido EXCEPT ![b] = r.adm]
           /\ Ir(b, t, r.tarefa)
    /\ UNCHANGED <<vivos, silencio, contadores>>

\* A higher ADM has answered: it will announce the new leader.
Desistir(a, t) ==
    /\ Esta(a, t, "aguardando") /\ adm[a].resposta
    /\ Mudar(a, t, [adm |-> [adm[a] EXCEPT !.emEleicao = FALSE], tarefa |-> Livre])
    /\ UNCHANGED <<vivos, silencio, contadores>>

\* An answer to a is on its way, or will be: a handler of a running ADM is
\* sending it, or another coroutine of a still has a running ADM to call.
RespostaACaminho(a) ==
    \/ \E b \in vivos, t \in Handlers : tarefa[b][t] = Respondendo(a)
    \/ \E t \in Tarefas : /\ tarefa[a][t].fase = "chamando"
                          /\ tarefa[a][t].faltam \cap vivos # {}

\* Fault: the wait is over without a look at the answers.
Defeito_IgnoraResposta(a) == TRUE

SemResposta(a) == ~adm[a].resposta

\* eleicao_timeout passes without an answer.
Vencer(a, t) ==
    /\ Esta(a, t, "aguardando") /\ SemResposta(a)
    /\ ~RespostaACaminho(a)
    /\ Mudar(a, t, TornarLider(a, adm[a]))
    /\ UNCHANGED <<vivos, silencio, contadores>>

\* processar_novo_lider: whatever the receiver knew of the leader before.
Aceitar(e, a) == [e EXCEPT !.lider = a, !.disponivel = TRUE, !.emEleicao = FALSE]

Anunciar(a, t) ==
    /\ Esta(a, t, "anunciando")
    /\ LET b == Proximo(a, t)
       IN  adm' = IF b \in vivos THEN [adm EXCEPT ![b] = Aceitar(@, a)] ELSE adm
    /\ Ir(a, t, Anunciando(Restam(a, t)))
    /\ UNCHANGED <<vivos, silencio, contadores>>

\* No election is under way and every ADM that restarted has sent its first
\* keep-alives.
Sossego == \A c \in vivos : /\ \A t \in Tarefas : tarefa[c][t].fase \in {"livre", "batendo"}
                            /\ silencio[c] \cap vivos = {}

\* heartbeat_timeout passes without a keep-alive of b, which does not run.
\* The elections under way when b crashed are over by then; those that begin
\* later may overlap the detection, as the monitor may act on silencio late.
Silenciar(a, b) ==
    /\ a \in vivos /\ b \notin vivos /\ b \notin silencio[a]
    /\ Sossego
    /\ silencio' = [silencio EXCEPT ![a] = @ \cup {b}]
    /\ UNCHANGED <<vivos, adm, tarefa, contadores>>

-----------------------------------------------------------------------------
(* The faults *)

Evento(tipo, b) == [tipo |-> tipo, adm |-> b]

Acontecer(tipo, b) == /\ tipo \in Eventos
                      /\ Cardinality(eventos) < MaxEventos /\ Abalos < MaxAbalos
                      /\ Evento(tipo, b) \notin eventos
                      /\ eventos' = eventos \cup {Evento(tipo, b)}
                      /\ UNCHANGED <<vivos, quedas>>

\* The keep-alives of b, which runs, do not reach a for heartbeat_timeout.
Suspeitar(a, b) ==
    /\ {a, b} \subseteq vivos /\ a # b /\ b \notin silencio[a]
    /\ silencio' = [silencio EXCEPT ![a] = @ \cup {b}]
    /\ Acontecer("suspeita", b)
    /\ UNCHANGED <<adm, tarefa>>

\* The call to a running ADM fails, which is ignored.
PerderChamada(a, t) ==
    /\ Esta(a, t, "chamando") /\ Proximo(a, t) \in vivos
    /\ Ir(a, t, Chamando(Restam(a, t)))
    /\ Acontecer("chamada", Proximo(a, t))
    /\ UNCHANGED <<adm, silencio>>

\* eleicao_timeout passes before the answer that is on its way arrives.
VencerTarde(a, t) ==
    /\ Esta(a, t, "aguardando") /\ SemResposta(a)
    /\ RespostaACaminho(a)
    /\ Mudar(a, t, TornarLider(a, adm[a]))
    /\ Acontecer("tardia", a)
    /\ UNCHANGED silencio

\* NovoLider to a running ADM fails: it is not sent again.
PerderAnuncio(a, t) ==
    /\ Esta(a, t, "anunciando") /\ Proximo(a, t) \in vivos
    /\ Ir(a, t, Anunciando(Restam(a, t)))
    /\ Acontecer("anuncio", Proximo(a, t))
    /\ UNCHANGED <<adm, silencio>>

-----------------------------------------------------------------------------
(* The environment *)

\* POST /infra/eleicao.
PedirEleicao(a) ==
    /\ a \in vivos /\ HandlersLivres(a) # {}
    /\ Mudar(a, Min(HandlersLivres(a)), IniciarEleicao(a, adm[a]))
    /\ Acontecer("manual", a)
    /\ UNCHANGED silencio

\* An ADM crashes while a majority of them still runs without it.
Cair(a) ==
    /\ Abalos < MaxAbalos
    /\ a \in vivos /\ 2 * Cardinality(vivos \ {a}) > N
    /\ vivos' = vivos \ {a}
    /\ tarefa' = [tarefa EXCEPT ![a] = Parado(a)]
    /\ quedas' = quedas + 1
    /\ UNCHANGED <<adm, silencio, eventos>>

\* It restarts with the state its constructor gives it; nothing is kept.
Voltar(a) ==
    /\ a \in PodemVoltar \ vivos
    /\ vivos' = vivos \cup {a}
    /\ adm' = [adm EXCEPT ![a] = EstadoInicial]
    /\ silencio' = [silencio EXCEPT ![a] = {}]
    /\ UNCHANGED <<tarefa, contadores>>

-----------------------------------------------------------------------------
Passo(a, t) == \/ ChamarMaior(a, t) \/ Responder(a, t)
               \/ Desistir(a, t) \/ Vencer(a, t)
               \/ Anunciar(a, t)

Ciclo(a) == BaterKeepAlive(a) \/ Monitorar(a)

Falha(a) == \/ \E t \in Tarefas : \/ PerderChamada(a, t) \/ VencerTarde(a, t)
                                  \/ PerderAnuncio(a, t)
            \/ \E b \in ADMs : Suspeitar(a, b)

Next == \E a \in ADMs : \/ Ciclo(a)
                        \/ \E t \in Tarefas : Passo(a, t)
                        \/ \E b \in ADMs : Silenciar(a, b)
                        \/ Falha(a)
                        \/ PedirEleicao(a)
                        \/ Cair(a)
                        \/ Voltar(a)

\* The event loop runs every coroutine that can go on, and time passes.
\* Nothing is assumed of events, crashes and restarts.
Fairness == \A a \in ADMs : /\ WF_vars(Ciclo(a))
                            /\ \A t \in Tarefas : WF_vars(Passo(a, t))
                            /\ \A b \in ADMs : WF_vars(Silenciar(a, b))

Spec == Init /\ [][Next]_vars /\ Fairness

-----------------------------------------------------------------------------
(* Properties *)

\* The state of every ADM has its type; a coroutine stands only where its kind
\* can (the monitor never answers, a handler never sends keep-alives), calls
\* only ADMs above its own and announces itself only to those below.
TypeOK == /\ vivos \subseteq ADMs
          /\ adm \in [ADMs -> Estado]
          /\ silencio \in [ADMs -> SUBSET ADMs]
          /\ tarefa \in [ADMs -> [Tarefas -> Tarefa]]
          /\ \A a \in ADMs, t \in Tarefas :
                 LET r == tarefa[a][t]
                 IN  /\ r.fase = "respondendo" => t # Monitor
                     /\ r.fase = "batendo" => t = Monitor
                     /\ r.fase = "chamando" => \A b \in r.faltam : b > a
                     /\ r.fase = "anunciando" => \A b \in r.faltam : b < a
          /\ quedas \in 0..MaxAbalos
          /\ eventos \subseteq [tipo : Eventos, adm : ADMs]
          /\ Cardinality(eventos) <= MaxEventos

SouLider(a) == a \in vivos /\ adm[a].lider = a

\* Besides elections by hand, the events so far are all of the given kinds.
Apenas(tipos) == \A f \in eventos : f.tipo \in tipos \cup {"manual"}

\* No two running ADMs both take themselves for the leader, at any moment of
\* any election (garantir_lider lets both of them change orders), even when
\* announcements are lost: only a wrong suspicion and a call or an answer that
\* misses the time-out can make a second leader.
UmLider ==
    Apenas({"anuncio"}) => \A a, b \in ADMs : SouLider(a) /\ SouLider(b) => a = b

\* An ADM takes over only when it is the highest that runs and the leader it
\* followed is down (_tornar_lider has no such check of its own).
SucessaoCorreta ==
    [][\A a \in ADMs : /\ adm[a].lider # a /\ adm'[a].lider = a
                       /\ a \in vivos /\ a \in vivos'
                       /\ Apenas({"anuncio"})'
            => adm[a].lider \notin vivos /\ \A b \in vivos : b <= a]_vars

\* Once crashes and faults stop, the highest ADM that runs takes itself for the
\* leader for good, whatever was lost, late or wrongly suspected before.
MaiorLidera == <>[]SouLider(Max(vivos))

\* Every running ADM ends up following the highest one that runs, and knows it;
\* a lost announcement leaves out the ADM it was sent to, and no other.
EleicaoTermina ==
    <>[](Apenas({"anuncio"}) =>
            \A a \in vivos : \/ adm[a].lider = Max(vivos) /\ adm[a].disponivel
                            \/ Evento("anuncio", a) \in eventos)

\* Two running ADMs do not lead side by side for ever: only the leader changes
\* the routing, and the highest active id takes over (docs/especificacao.md).
UmLiderDeNovo == []<>(\A a, b \in ADMs : SouLider(a) /\ SouLider(b) => a = b)
=============================================================================
