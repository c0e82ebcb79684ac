------------------------------ MODULE Rastreio ------------------------------
(***************************************************************************)
(* The way of a position from the driver to the customer: the GPS thread   *)
(* of the driver (src/src/clients/driver_broker.py), the tracker process   *)
(* with its consumers of routing updates and of positions                  *)
(* (src/src/servers/tracker_server.py, src/src/clients/tracker_broker.py), *)
(* its support server, SUP (src/src/servers/support_server.py), and the    *)
(* customer's subscription.                                                *)
(*                                                                         *)
(* A position is its timestamp, whole seconds in the code; 0 stands for    *)
(* none.  The routing updates and the positions of a tracker come by two   *)
(* connections with a thread each, so one kind may overtake the other.     *)
(* The queues are exclusive: they go with the process that declared them.  *)
(* The ADM is what it tells trackers and drivers; ADMLider has the rest.   *)
(* An order keeps its driver.                                              *)
(***************************************************************************)
EXTENDS Integers, Sequences

CONSTANTS Pedidos, Rastreadores, Nenhum,
          ComSuporte,      \* trackers with a SUP (SUP_URL)
          MaxTempo,        \* the last second of the clock
          MaxFila,         \* positions waiting for one tracker
          MaxQuedas,       \* crashes of trackers
          MaxRebalanceios, \* moves of an order away from a tracker that runs
          MaxFalhas        \* publications of positions that raise

ASSUME RastreioAssumption ==
    /\ Nenhum \notin Rastreadores /\ ComSuporte \subseteq Rastreadores
    /\ MaxTempo \in Nat \ {0} /\ MaxFila \in Nat \ {0}
    /\ {MaxQuedas, MaxRebalanceios, MaxFalhas} \subseteq Nat

Tempo == 0..MaxTempo
Ausente == -1  \* an order the tracker, or its SUP, does not have

VARIABLES
    agora,        \* the clock
    fase,         \* "novo", "aceito" or "entregue" for the ADM and the driver
    rota,         \* the tracker of each order in the map of the ADM
    destino,      \* rastreador_por_pedido of its driver
    aviso,        \* RastreadorAtualizado on its way to the driver
    mudos,        \* orders whose GPS thread ended although nobody stopped it
    vivos,        \* trackers that run
    registros,    \* AtualizacaoRoteamento on their way to each tracker
    posicoes,     \* positions on their way to each tracker, in order
    conhece,      \* entregadores_por_pedido and ultimas_localizacoes: Ausente for an
                  \* order not registered, else the time of its newest position
    emVoo,        \* POST /sync on its way to the SUP: a snapshot, or none
    backup,       \* the snapshot each SUP has
    vista,        \* the last position the customer of each order was shown
    movidos,      \* history: orders moved away from a tracker that ran
    ocultos,      \* history: orders whose position of the last second was not shown
    reiniciados,  \* history: trackers that crashed and came back
    quedas, rebalanceios, falhas  \* counters of the bounds

adm == <<fase, rota>>
entregador == <<destino, aviso, mudos>>
rastreador == <<vivos, registros, posicoes, conhece>>
sup == <<emVoo, backup>>
historia == <<movidos, ocultos, reiniciados, quedas, rebalanceios, falhas>>
vars == <<agora, adm, entregador, rastreador, sup, vista, historia>>

Retrato == [Pedidos -> Tempo \cup {Ausente}]
Vazio == [p \in Pedidos |-> Ausente]
SemPedido == <<>>

Init == /\ agora = 1
        /\ fase = [p \in Pedidos |-> "novo"]
        /\ rota = [p \in Pedidos |-> Nenhum]
        /\ destino = [p \in Pedidos |-> Nenhum]
        /\ aviso = [p \in Pedidos |-> Nenhum]
        /\ vivos = Rastreadores
        /\ registros = [r \in Rastreadores |-> {}]
        /\ posicoes = [r \in Rastreadores |-> <<>>]
        /\ conhece = [r \in Rastreadores |-> Vazio]
        /\ emVoo = [r \in Rastreadores |-> SemPedido]
        /\ backup = [r \in Rastreadores |-> Vazio]
        /\ vista = [p \in Pedidos |-> 0]
        /\ mudos = {}
        /\ movidos = {} /\ ocultos = {} /\ reiniciados = {}
        /\ quedas = 0 /\ rebalanceios = 0 /\ falhas = 0

Passar == /\ agora < MaxTempo
          /\ agora' = agora + 1
          /\ UNCHANGED <<adm, entregador, rastreador, sup, vista, historia>>

-----------------------------------------------------------------------------
(* What the ADM does to an order *)

\* Fault: the queue of the routing updates outlives the tracker.
Defeito_FilaDuravel(p, r) == registros' = [registros EXCEPT ![r] = @ \cup {p}]

\* A message to a tracker that does not run is lost.
Registrar(p, r) == registros' = IF r \in vivos THEN [registros EXCEPT ![r] = @ \cup {p}]
                                               ELSE registros

\* The driver learns the tracker from the answer; the ADM may choose one that
\* has just crashed.
Aceitar(p, r) ==
    /\ fase[p] = "novo"
    /\ fase' = [fase EXCEPT ![p] = "aceito"]
    /\ rota' = [rota EXCEPT ![p] = r]
    /\ destino' = [destino EXCEPT ![p] = r]
    /\ Registrar(p, r)
    /\ UNCHANGED <<agora, aviso, mudos, vivos, posicoes, conhece, sup, vista, historia>>

\* Fault: the driver is not told.
Defeito_SemAviso(p, r) ==
    /\ rota' = [rota EXCEPT ![p] = r]
    /\ Registrar(p, r)
    /\ UNCHANGED <<agora, fase, entregador, vivos, posicoes, conhece, sup, vista,
                   ocultos, reiniciados, quedas, falhas>>

Mover(p, r) ==
    /\ rota' = [rota EXCEPT ![p] = r]
    /\ aviso' = [aviso EXCEPT ![p] = r]
    /\ Registrar(p, r)
    /\ UNCHANGED <<agora, fase, destino, mudos, vivos, posicoes, conhece, sup, vista,
                   ocultos, reiniciados, quedas, falhas>>

\* The failure of the tracker is detected.
Redistribuir(p, r) ==
    /\ fase[p] = "aceito" /\ rota[p] \notin vivos /\ r \in vivos
    /\ Mover(p, r)
    /\ UNCHANGED <<movidos, rebalanceios>>

\* Another tracker enters the ring, or one that runs is taken for failed.
Rebalancear(p, r) ==
    /\ rebalanceios < MaxRebalanceios
    /\ fase[p] = "aceito" /\ rota[p] \in vivos /\ r \in vivos \ {rota[p]}
    /\ Mover(p, r)
    /\ movidos' = movidos \cup {p}
    /\ rebalanceios' = rebalanceios + 1

\* EntregaConfirmada stops the GPS thread.  No tracker forgets the order.
Confirmar(p) ==
    /\ fase[p] = "aceito"
    /\ fase' = [fase EXCEPT ![p] = "entregue"]
    /\ destino' = [destino EXCEPT ![p] = Nenhum]
    /\ UNCHANGED <<agora, rota, aviso, mudos, rastreador, sup, vista, historia>>

-----------------------------------------------------------------------------
(* The driver *)

\* An update about a delivered order is dropped.
RastreadorAtualizado(p) ==
    /\ aviso[p] # Nenhum
    /\ destino' = IF fase[p] = "aceito" THEN [destino EXCEPT ![p] = aviso[p]] ELSE destino
    /\ aviso' = [aviso EXCEPT ![p] = Nenhum]
    /\ UNCHANGED <<agora, adm, mudos, rastreador, sup, vista, historia>>

\* One turn of _publicar_localizacoes_periodicas.
EnviarPosicao(p) ==
    LET r == destino[p]
    IN  /\ p \notin mudos
        /\ r \in vivos /\ Len(posicoes[r]) < MaxFila
        /\ posicoes' = [posicoes EXCEPT ![r] = Append(@, [pedido |-> p, tempo |-> agora])]
        /\ UNCHANGED <<agora, adm, entregador, vivos, registros, conhece, sup, vista,
                       historia>>

\* The publication raises a second time: the thread of the order ends for good,
\* whether the position went out or not, and the order stays with the driver.
EnvioFalha(p) ==
    /\ falhas < MaxFalhas
    /\ destino[p] # Nenhum /\ p \notin mudos
    /\ mudos' = mudos \cup {p}
    /\ falhas' = falhas + 1
    /\ UNCHANGED <<agora, adm, destino, aviso, rastreador, sup, vista, movidos, ocultos,
                   reiniciados, quedas, rebalanceios>>

-----------------------------------------------------------------------------
(* The tracker *)

\* registrar_entregador keeps the position the tracker may already have.
ProcessarRegistro(r, p) ==
    /\ p \in registros[r]
    /\ registros' = [registros EXCEPT ![r] = @ \ {p}]
    /\ conhece' = [conhece EXCEPT ![r][p] = IF @ = Ausente THEN 0 ELSE @]
    /\ UNCHANGED <<agora, adm, entregador, vivos, posicoes, sup, vista, historia>>

\* Fault: the position of an order not registered is stored too.
Defeito_AceitaNaoRegistrado(r, m) == conhece[r][m.pedido] < m.tempo

\* receber_localizacao: the order is registered and the position newer.
Nova(r, m) == conhece[r][m.pedido] \in Tempo /\ conhece[r][m.pedido] < m.tempo

\* A position that is not new is dropped, the one of an order not yet
\* registered (ValueError, no requeue) like the others.
ReceberPosicao(r) ==
    /\ posicoes[r] # <<>>
    /\ posicoes' = [posicoes EXCEPT ![r] = Tail(@)]
    /\ LET m == Head(posicoes[r])
       IN  IF Nova(r, m)
           THEN /\ conhece' = [conhece EXCEPT ![r][m.pedido] = m.tempo]
                /\ vista' = [vista EXCEPT ![m.pedido] = m.tempo]
           ELSE UNCHANGED <<conhece, vista>>
    /\ UNCHANGED <<agora, adm, entregador, vivos, registros, sup, historia>>

\* The publication raises when the position is already stored: it is not shown,
\* now or later.
PublicacaoFalha(r) ==
    /\ falhas < MaxFalhas
    /\ posicoes[r] # <<>>
    /\ LET m == Head(posicoes[r])
       IN  /\ Nova(r, m)
           /\ conhece' = [conhece EXCEPT ![r][m.pedido] = m.tempo]
           /\ ocultos' = IF m.tempo = MaxTempo THEN ocultos \cup {m.pedido} ELSE ocultos
    /\ posicoes' = [posicoes EXCEPT ![r] = Tail(@)]
    /\ falhas' = falhas + 1
    /\ UNCHANGED <<agora, adm, entregador, vivos, registros, sup, vista, movidos,
                   reiniciados, quedas, rebalanceios>>

-----------------------------------------------------------------------------
(* The SUP *)

\* Fault: only orders with a position of this second are in the snapshot.
Defeito_SoRecentes(r) ==
    [p \in Pedidos |-> IF conhece[r][p] = agora THEN conhece[r][p] ELSE Ausente]

\* snapshot_rastreios
RetratoDe(r) == conhece[r]

\* One turn of _sincronizar_sup_periodico up to the POST, which may still be
\* under way when the tracker crashes.
EnviarSync(r) ==
    /\ r \in vivos \cap ComSuporte /\ emVoo[r] = SemPedido
    /\ RetratoDe(r) # backup[r]
    /\ emVoo' = [emVoo EXCEPT ![r] = RetratoDe(r)]
    /\ UNCHANGED <<agora, adm, entregador, rastreador, backup, vista, historia>>

\* sincronizar_rastreios replaces the backup.
Sincronizar(r) ==
    /\ emVoo[r] # SemPedido
    /\ backup' = [backup EXCEPT ![r] = emVoo[r]]
    /\ emVoo' = [emVoo EXCEPT ![r] = SemPedido]
    /\ UNCHANGED <<agora, adm, entregador, rastreador, vista, historia>>

\* The SUP does not answer: the snapshot is given up.
SyncPerdido(r) ==
    /\ emVoo[r] # SemPedido
    /\ emVoo' = [emVoo EXCEPT ![r] = SemPedido]
    /\ UNCHANGED <<agora, adm, entregador, rastreador, backup, vista, historia>>

-----------------------------------------------------------------------------
(* Crashes *)

Cair(r) ==
    /\ quedas < MaxQuedas
    /\ r \in vivos /\ vivos # {r}
    /\ vivos' = vivos \ {r}
    /\ registros' = [registros EXCEPT ![r] = {}]
    /\ posicoes' = [posicoes EXCEPT ![r] = <<>>]
    /\ conhece' = [conhece EXCEPT ![r] = Vazio]
    /\ quedas' = quedas + 1
    /\ UNCHANGED <<agora, adm, entregador, sup, vista, movidos, ocultos, reiniciados,
                   rebalanceios, falhas>>

\* It comes back knowing no order.
Voltar(r) ==
    /\ r \notin vivos
    /\ vivos' = vivos \cup {r}
    /\ reiniciados' = reiniciados \cup {r}
    /\ UNCHANGED <<agora, adm, entregador, registros, posicoes, conhece, sup, vista,
                   movidos, ocultos, quedas, rebalanceios, falhas>>

-----------------------------------------------------------------------------
Next ==
    \/ Passar
    \/ \E p \in Pedidos : \/ \E r \in Rastreadores : \/ Aceitar(p, r)
                                                     \/ Redistribuir(p, r)
                                                     \/ Rebalancear(p, r)
                          \/ Confirmar(p)
                          \/ RastreadorAtualizado(p)
                          \/ EnviarPosicao(p)
                          \/ EnvioFalha(p)
    \/ \E r \in Rastreadores : \/ \E p \in Pedidos : ProcessarRegistro(r, p)
                               \/ ReceberPosicao(r)
                               \/ PublicacaoFalha(r)
                               \/ EnviarSync(r)
                               \/ Sincronizar(r)
                               \/ SyncPerdido(r)
                               \/ Cair(r)
                               \/ Voltar(r)

\* The clock goes on; the ADM redistributes the orders of a tracker that stays
\* down (MigraAposSucessao, in ADMSucessao); queues are consumed; a
\* GPS thread that has not ended sends again and again, to whatever tracker it has
\* then: strong fairness, because the bound of the queue and a crash stop it for a
\* while (the code sends all the same, and such a position is lost).
Fairness ==
    /\ WF_vars(Passar)
    /\ \A p \in Pedidos :
           /\ WF_vars(\E r \in Rastreadores : Redistribuir(p, r))
           /\ WF_vars(RastreadorAtualizado(p))
           /\ \A r \in Rastreadores :
                  /\ WF_vars(ProcessarRegistro(r, p))
                  /\ SF_vars(EnviarPosicao(p) /\ destino[p] = r)
    /\ \A r \in Rastreadores : WF_vars(ReceberPosicao(r))

Spec == Init /\ [][Next]_vars /\ Fairness

-----------------------------------------------------------------------------
(* Properties *)

\* Every variable has a value of its kind; a tracker that does not run has
\* neither memory nor queues, and no one knows a position of the future.
TypeOK ==
    /\ agora \in 1..MaxTempo
    /\ fase \in [Pedidos -> {"novo", "aceito", "entregue"}]
    /\ rota \in [Pedidos -> Rastreadores \cup {Nenhum}]
    /\ destino \in [Pedidos -> Rastreadores \cup {Nenhum}]
    /\ aviso \in [Pedidos -> Rastreadores \cup {Nenhum}]
    /\ vivos \subseteq Rastreadores
    /\ registros \in [Rastreadores -> SUBSET Pedidos]
    /\ \A r \in Rastreadores :
           /\ posicoes[r] \in Seq([pedido : Pedidos, tempo : 1..agora])
           /\ Len(posicoes[r]) <= MaxFila
           /\ r \notin vivos => registros[r] = {} /\ posicoes[r] = <<>> /\ conhece[r] = Vazio
           /\ \A p \in Pedidos : conhece[r][p] <= agora
    /\ conhece \in [Rastreadores -> Retrato]
    /\ emVoo \in [Rastreadores -> Retrato \cup {SemPedido}]
    /\ backup \in [Rastreadores -> Retrato]
    /\ vista \in [Pedidos -> 0..agora]
    /\ mudos \cup movidos \cup ocultos \subseteq Pedidos
    /\ reiniciados \subseteq Rastreadores
    /\ quedas \in 0..MaxQuedas /\ rebalanceios \in 0..MaxRebalanceios
    /\ falhas \in 0..MaxFalhas

\* The customer is never shown a position older than the one before
\* (docs/especificacao.md: "vale a mensagem com maior timestamp"), through
\* crashes, restarts and redistributions.  Two kinds of orders escape it, for a
\* tracker compares with what it stored itself: one taken away from a tracker
\* that runs, which goes on publishing beside the next one, and one that comes
\* to a tracker started again, where old positions may wait for the registration.
VistaMonotona ==
    [][\A p \in Pedidos \ movidos' : rota[p] \notin reiniciados => vista'[p] >= vista[p]]_vars

\* As long as its tracker has not restarted, a backup never loses an order nor
\* goes back to an older position, the snapshots being sent one at a time.
BackupNaoRegride ==
    [][\A r \in Rastreadores \ reiniciados, p \in Pedidos :
           backup'[r][p] >= backup[r][p]]_vars

\* If no tracker restarts, an order accepted is delivered or its last position is
\* shown to the customer, also after its tracker failed or another took its place.
\* Two kinds of orders escape it, whatever happens to the others: one whose GPS
\* thread a publication ended, and one whose last position (there is one because
\* the clock is bounded) the tracker stored and failed to publish.
RastreioRetoma ==
    [](reiniciados = {}) =>
        \A p \in Pedidos :
            <>(fase[p] = "aceito") =>
                <>(fase[p] = "entregue" \/ vista[p] = MaxTempo \/ p \in mudos \cup ocultos)
=============================================================================
