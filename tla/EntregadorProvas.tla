-------------------------- MODULE EntregadorProvas --------------------------
(***************************************************************************)
(* For any numbers of orders, drivers, trackers, changes, crashes and      *)
(* failed requests: the types, that a driver carries only the orders the   *)
(* ADM assigned to it, and, without crashes and failed requests, all of    *)
(* them; and that what its consumer delivers goes to the tracker of the    *)
(* routing map once the driver has heard all there is to hear.             *)
(***************************************************************************)
EXTENDS Entregador, EstadoProvas

\* An order in the queue of the ADM has no driver.
FilaSemDono == \A p \in estado.semEntregador : estado.pedidos[p].entregador = Nenhum

\* Only orders once created are known to the ADM or carried: an id is not used
\* twice, so an order delivered does not come back with a driver of before.
SoCriados == \A p \in Pedidos \ usados :
                 ~Existe(estado, p) /\ \A d \in Processos : ~Carrega(d, p)

\* What the type does not say
Donos == Coerente(estado) /\ FilaSemDono /\ SoCriados /\ EntregaDoDono

IInv == TypeOK /\ Donos

-----------------------------------------------------------------------------
(* Types *)

\* The queues of a driver that does not run are empty.
CorreioOk(c) == /\ c \in [Processos -> Correio]
                /\ \A q \in Processos \ ligados : c[q] = CorreioVazio

\* Taking an order out of a queue
LEMMA ReceberTipo ==
    ASSUME TypeOK, NEW d \in Processos, NEW p \in Pedidos,
           NEW fila \in {"disponivel", "confirmada"}, Receber(d, fila, p)
    PROVE  CorreioOk(correio')
BY DEF Receber, Esta, TypeOK, Correio, CorreioOk

\* An event for every driver that runs
LEMMA PublicarTipo ==
    ASSUME TypeOK, NEW p \in Pedidos, NEW fila \in {"disponivel", "confirmada"},
           Publicar(fila, p)
    PROVE  CorreioOk(correio')
BY DEF Publicar, TypeOK, Correio, CorreioOk

\* Updates for every driver that runs
LEMMA AvisarTipo ==
    ASSUME TypeOK, NEW ps \in SUBSET Pedidos, NEW e \in Estado, Avisar(ps, e)
    PROVE  CorreioOk(correio')
<1>1. ASSUME NEW d \in Processos PROVE correio'[d] \in Correio
  <2> DEFINE novos == [p \in Pedidos |-> IF p \in ps THEN e.mapa[p]
                                                    ELSE correio[d].atualizado[p]]
  <2>1. novos \in [Pedidos -> Rastreadores \cup {Nenhum}]
    BY DEF Estado, TypeOK, Correio
  <2>2. correio'[d] = IF d \in ligados THEN [correio[d] EXCEPT !.atualizado = novos]
                                       ELSE correio[d]
    BY DEF Avisar
  <2> HIDE DEF novos
  <2> QED BY <2>1, <2>2 DEF TypeOK, Correio
<1>2. correio' = [d \in Processos |-> correio'[d]]
  BY DEF Avisar
<1>3. correio' \in [Processos -> Correio]
  BY <1>1, <1>2
<1>4. \A q \in Processos \ ligados : correio'[q] = CorreioVazio
  BY DEF Avisar, TypeOK
<1> QED BY <1>3, <1>4 DEF CorreioOk

\* The fields of a thread, by the await at which it stands
LEMMA TarefaCampos ==
    ASSUME NEW x \in Tarefa
    PROVE  /\ x.fase = "tentando" => x.restam \in SUBSET Pedidos
           /\ x.fase = "pedindo" => x.pedido \in Pedidos /\ x.restam \in SUBSET Pedidos
           /\ x.fase = "aceito" => x.pedido \in Pedidos /\ x.rastreador \in Rastreadores
BY DEF Tarefa, Livre, Consultando

\* The places a thread may go to without having accepted an order
LEMMA LugaresTipo ==
    ASSUME NEW ps \in SUBSET Pedidos
    PROVE  /\ Livre \in Tarefa /\ Livre.fase # "aceito"
           /\ Consultando \in Tarefa /\ Consultando.fase # "aceito"
           /\ Tentando(ps) \in Tarefa /\ Tentando(ps).fase # "aceito"
           /\ Seguir(ps) \in Tarefa /\ Seguir(ps).fase # "aceito"
           /\ \A p \in Pedidos :
                  Pedindo(p, ps) \in Tarefa /\ Pedindo(p, ps).fase # "aceito"
BY DEF Tarefa, Livre, Consultando, Tentando, Seguir, Pedindo

\* The threads have their type, and stand still in a driver that does not run.
TarefaOk(ts) == /\ ts \in [Processos -> [Threads -> Tarefa]]
                /\ \A q \in Processos \ ligados : ts[q] = [t \in Threads |-> Livre]

\* A thread that goes on keeps its type.
LEMMA IrTipo ==
    ASSUME TypeOK, NEW d \in Processos \cap ligados, NEW t \in Threads, NEW onde \in Tarefa,
           Ir(d, t, onde)
    PROVE  TarefaOk(tarefa')
BY DEF Ir, TypeOK, TarefaOk

\* A thread that goes on without having accepted an order: the driver carries no
\* more than before, if it publishes no more positions.
LEMMA IrCarrega ==
    ASSUME TypeOK, NEW d \in Processos, NEW t \in Threads, NEW onde \in Tarefa,
           Ir(d, t, onde), onde.fase # "aceito", NEW q \in Processos, NEW p \in Pedidos,
           memoria'[q].gps[p] = "ativo" => memoria[q].gps[p] = "ativo", Carrega(q, p)'
    PROVE  Carrega(q, p)
<1>1. ASSUME NEW u \in Threads
      PROVE  tarefa'[q][u] = IF q = d /\ u = t THEN onde ELSE tarefa[q][u]
  BY DEF Ir, TypeOK
<1> QED BY <1>1 DEF Carrega

\* The type from its parts, when the ADM and the sets of processes stay
LEMMA TipoDasPartes ==
    ASSUME TypeOK, estado' \in Estado, TarefaOk(tarefa'), CorreioOk(correio'),
           memoria' \in [Processos -> Memoria], iniciais' \in [Processos -> SUBSET Pedidos],
           UNCHANGED <<ativos, usados, mudancas, processo>>, falhas' \in 0..MaxFalhas
    PROVE  TypeOK'
BY DEF TypeOK, TarefaOk, CorreioOk, processo

-----------------------------------------------------------------------------
(* Who carries what *)

\* The ADM does not change and nobody carries more: nothing to do.
LEMMA DonosFicam ==
    ASSUME Donos, UNCHANGED <<estado, usados>>,
           \A q \in Processos, p \in Pedidos : Carrega(q, p)' => Carrega(q, p)
    PROVE  Donos'
<1>1. ASSUME NEW q \in Processos, NEW p \in Pedidos, Existe(estado, p)', Carrega(q, p)'
      PROVE  estado'.pedidos[p].entregador = q
  <2>1. Existe(estado, p) /\ Carrega(q, p)
    BY <1>1
  <2> QED BY <2>1 DEF Donos, EntregaDoDono, Carrega
<1>3. EntregaDoDono'
  BY <1>1 DEF EntregaDoDono, Carrega
<1>4. Coerente(estado)' /\ FilaSemDono' /\ SoCriados'
  BY DEF Donos, FilaSemDono, SoCriados
<1> QED BY <1>3, <1>4 DEF Donos

\* An order in the queue is carried by nobody.
LEMMA NaFilaNinguemCarrega ==
    ASSUME IInv, NEW p \in estado.semEntregador, NEW q \in Processos
    PROVE  p \in Pedidos /\ Existe(estado, p) /\ ~Carrega(q, p)
<1>1. p \in Pedidos
  BY DEF IInv, TypeOK, Estado
<1>2. Existe(estado, p)
  BY <1>1 DEF IInv, Donos, Coerente
<1>3. Carrega(q, p) => estado.pedidos[p].entregador = q
  BY <1>1, <1>2 DEF IInv, Donos, EntregaDoDono, Carrega
<1>4. estado.pedidos[p].entregador = Nenhum
  BY DEF IInv, Donos, FilaSemDono
<1> QED BY <1>1, <1>2, <1>3, <1>4, EstadoAssumption DEF Processos

\* The ADM gives a waiting order to driver d, who is the only one that may carry
\* it from now on.
LEMMA AceitarDonos ==
    ASSUME IInv, NEW p \in estado.semEntregador, NEW d \in Entregadores,
           estado' = Aceitar(estado, p, d, ativos), usados' = usados,
           \A q \in Processos, r \in Pedidos :
               Carrega(q, r)' => Carrega(q, r) \/ (q = d /\ r = p)
    PROVE  estado' \in Estado /\ Donos'
<1>1. /\ p \in Pedidos /\ Existe(estado, p)
      /\ \A q \in Processos : ~Carrega(q, p)
  <2>1. p \in Pedidos
    BY DEF IInv, TypeOK, Estado
  <2>2. Existe(estado, p)
    BY <2>1 DEF IInv, Donos, Coerente
  <2> QED BY <2>1, <2>2, NaFilaNinguemCarrega
<1>2. estado \in Estado /\ ativos \in SUBSET Rastreadores /\ ativos # {}
  BY DEF IInv, TypeOK
<1>3. estado' \in Estado
  BY <1>1, <1>2, AceitarTipo
<1>4. Coerente(estado)'
  BY <1>1, <1>2, AceitarCoerente DEF IInv, Donos
<1>5. ASSUME NEW r \in Pedidos
      PROVE  /\ r \in estado'.semEntregador <=> r # p /\ r \in estado.semEntregador
             /\ r = p => estado'.pedidos[r].entregador = d
             /\ r # p => estado'.pedidos[r] = estado.pedidos[r]
             /\ Existe(estado', r) <=> Existe(estado, r)
  BY <1>1, <1>2, AceitarEfeito
<1>6. FilaSemDono'
  <2>1. estado'.semEntregador \subseteq Pedidos
    BY <1>3 DEF Estado
  <2> QED BY <1>5, <2>1 DEF IInv, Donos, FilaSemDono
<1>7. SoCriados'
  <2>1. p \in usados
    BY <1>1 DEF IInv, Donos, SoCriados
  <2>2. \A r \in Pedidos : Existe(estado, r)' <=> Existe(estado, r)
    BY <1>5 DEF Existe
  <2> QED BY <2>1, <2>2 DEF IInv, Donos, SoCriados
<1>8. ASSUME NEW q \in Processos, NEW r \in Pedidos, Existe(estado, r)', Carrega(q, r)'
      PROVE  estado'.pedidos[r].entregador = q
  <2>1. CASE r = p
    BY <1>1, <1>5, <1>8, <2>1
  <2>2. CASE r # p
    <3>1. Existe(estado, r) /\ Carrega(q, r)
      BY <1>5, <1>8, <2>2 DEF Existe
    <3> QED BY <1>5, <2>2, <3>1 DEF IInv, Donos, EntregaDoDono, Carrega
  <2> QED BY <2>1, <2>2
<1>9. EntregaDoDono'
  BY <1>8 DEF EntregaDoDono, Carrega
<1> QED BY <1>3, <1>4, <1>6, <1>7, <1>9 DEF Donos

-----------------------------------------------------------------------------
(* The steps of the ADM *)

\* A new order is in the queue and, its id being new, carried by nobody.
LEMMA CriarOk == ASSUME IInv, NEW p \in Pedidos, CriarPedido(p) PROVE IInv'
<1>1. /\ p \notin usados /\ estado' = Criar(estado, p) /\ usados' = usados \cup {p}
      /\ UNCHANGED <<ativos, ligados, quedas, memoria, tarefa, iniciais, mudancas, falhas>>
  BY DEF CriarPedido, processo
<1>2. estado \in Estado
  BY DEF IInv, TypeOK
<1>3. estado' \in Estado
  BY <1>1, <1>2, CriarTipo
<1>4. TypeOK'
  <2>1. CorreioOk(correio')
    BY PublicarTipo DEF IInv, CriarPedido
  <2> QED BY <1>1, <1>3, <2>1 DEF IInv, TypeOK, CorreioOk
<1>5. Coerente(estado)'
  BY <1>1, <1>2, CriarCoerente DEF IInv, Donos
<1>6. ASSUME NEW r \in Pedidos
      PROVE  /\ r \in estado'.semEntregador <=> r = p \/ r \in estado.semEntregador
             /\ r = p => estado'.pedidos[r].entregador = Nenhum
             /\ r # p => estado'.pedidos[r] = estado.pedidos[r]
             /\ Existe(estado, r)' <=> r = p \/ Existe(estado, r)
  BY <1>1, <1>2, CriarEfeito, PedidoNovoOk DEF Existe
<1>7. FilaSemDono'
  <2>1. estado'.semEntregador \subseteq Pedidos
    BY <1>3 DEF Estado
  <2> QED BY <1>6, <2>1 DEF IInv, Donos, FilaSemDono
<1>8. \A q \in Processos, r \in Pedidos : Carrega(q, r)' <=> Carrega(q, r)
  BY <1>1 DEF Carrega
<1>9. SoCriados'
  BY <1>1, <1>6, <1>8 DEF IInv, Donos, SoCriados
<1>10. ASSUME NEW q \in Processos, NEW r \in Pedidos, Existe(estado, r)', Carrega(q, r)'
       PROVE  estado'.pedidos[r].entregador = q
  <2>1. r # p /\ Existe(estado, r) /\ Carrega(q, r)
    BY <1>1, <1>6, <1>8, <1>10 DEF IInv, Donos, SoCriados
  <2> QED BY <1>6, <2>1 DEF IInv, Donos, EntregaDoDono, Carrega
<1>11. EntregaDoDono'
  BY <1>10 DEF EntregaDoDono, Carrega
<1> QED BY <1>4, <1>5, <1>7, <1>9, <1>11 DEF IInv, Donos

\* A delivered order is no longer known; its driver may carry it for a while.
LEMMA ConfirmarOk == ASSUME IInv, NEW p \in Pedidos, ConfirmarEntrega(p) PROVE IInv'
<1>1. /\ estado' = Confirmar(estado, p)
      /\ UNCHANGED <<ativos, ligados, quedas, memoria, tarefa, usados, iniciais, mudancas,
                     falhas>>
  BY DEF ConfirmarEntrega, processo
<1>2. estado \in Estado
  BY DEF IInv, TypeOK
<1>3. estado' \in Estado
  BY <1>1, <1>2, ConfirmarTipo
<1>4. TypeOK'
  <2>1. CorreioOk(correio')
    BY PublicarTipo DEF IInv, ConfirmarEntrega
  <2> QED BY <1>1, <1>3, <2>1 DEF IInv, TypeOK, CorreioOk
<1>5. Coerente(estado)'
  BY <1>1, <1>2, ConfirmarCoerente DEF IInv, Donos
<1>6. ASSUME NEW r \in Pedidos
      PROVE  /\ r \in estado'.semEntregador <=> r # p /\ r \in estado.semEntregador
             /\ r # p => estado'.pedidos[r] = estado.pedidos[r]
             /\ Existe(estado, r)' <=> r # p /\ Existe(estado, r)
  BY <1>1, <1>2, ConfirmarEfeito DEF Existe
<1>7. FilaSemDono'
  <2>1. estado'.semEntregador \subseteq Pedidos
    BY <1>3 DEF Estado
  <2> QED BY <1>6, <2>1 DEF IInv, Donos, FilaSemDono
<1>8. \A q \in Processos, r \in Pedidos : Carrega(q, r)' <=> Carrega(q, r)
  BY <1>1 DEF Carrega
<1>9. SoCriados'
  BY <1>1, <1>6, <1>8 DEF IInv, Donos, SoCriados
<1>10. ASSUME NEW q \in Processos, NEW r \in Pedidos, Existe(estado, r)', Carrega(q, r)'
       PROVE  estado'.pedidos[r].entregador = q
  <2>1. r # p /\ Existe(estado, r) /\ Carrega(q, r)
    BY <1>6, <1>8, <1>10
  <2> QED BY <1>6, <2>1 DEF IInv, Donos, EntregaDoDono, Carrega
<1>11. EntregaDoDono'
  BY <1>10 DEF EntregaDoDono, Carrega
<1> QED BY <1>4, <1>5, <1>7, <1>9, <1>11 DEF IInv, Donos

\* Another driver takes a waiting order, which nobody carries.
LEMMA AceitarOutroOk ==
    ASSUME IInv, NEW p \in Pedidos, NEW d \in Outros, AceitarOutro(p, d) PROVE IInv'
<1>1. /\ p \in estado.semEntregador /\ estado' = Aceitar(estado, p, d, ativos)
      /\ UNCHANGED <<ativos, ligados, quedas, memoria, tarefa, correio, usados, iniciais,
                     mudancas, falhas>>
  BY DEF AceitarOutro, processo
<1>2. d \in Entregadores
  BY EntregadorAssumption
<1>3. \A q \in Processos, r \in Pedidos : Carrega(q, r)' => Carrega(q, r)
  BY <1>1 DEF Carrega
<1>4. estado' \in Estado /\ Donos'
  BY <1>1, <1>2, <1>3, AceitarDonos
<1>5. TypeOK'
  BY <1>1, <1>4 DEF IInv, TypeOK
<1> QED BY <1>4, <1>5 DEF IInv

\* A change of trackers moves orders and keeps their drivers.
LEMMA MudarOk ==
    ASSUME IInv, NEW novos \in SUBSET Rastreadores, MudarRastreadores(novos) PROVE IInv'
<1> DEFINE ps == {p \in Mapeados(estado) : EscolherServidor(p, novos) # estado.mapa[p]}
<1>1. /\ novos # {} /\ ativos' = novos /\ estado' = Mover(estado, ps, novos)
      /\ Avisar({p \in ps : ComEntregador(estado, p)}, estado')
      /\ mudancas < MaxMudancas /\ mudancas' = mudancas + 1
      /\ UNCHANGED <<ligados, quedas, memoria, tarefa, usados, iniciais, falhas>>
  BY DEF MudarRastreadores, processo
<1>2. ps \in SUBSET Pedidos /\ ps \subseteq Mapeados(estado)
  BY DEF Mapeados
<1> HIDE DEF ps
<1>3. estado \in Estado
  BY DEF IInv, TypeOK
<1>4. estado' \in Estado
  BY <1>1, <1>2, <1>3, MoverTipo
<1>5. TypeOK'
  <2>1. CorreioOk(correio')
    <3>1. {p \in ps : ComEntregador(estado, p)} \in SUBSET Pedidos
      BY <1>2
    <3> QED BY <1>1, <1>4, <3>1, AvisarTipo DEF IInv
  <2>2. mudancas' \in 0..MaxMudancas
    BY <1>1, EntregadorAssumption DEF IInv, TypeOK
  <2> QED BY <1>1, <1>4, <2>1, <2>2 DEF IInv, TypeOK, CorreioOk
<1>6. ASSUME NEW r \in Pedidos
      PROVE  /\ estado'.semEntregador = estado.semEntregador
             /\ estado'.mapa[r] = IF r \in ps THEN EscolherServidor(r, novos) ELSE estado.mapa[r]
             /\ Existe(estado, r)' <=> Existe(estado, r)
             /\ ComEntregador(estado, r)' <=> ComEntregador(estado, r)
  <2> DEFINE f == Mover(estado, ps, novos)
  <2>1. /\ f.semEntregador = estado.semEntregador
        /\ f.mapa[r] = IF r \in ps THEN EscolherServidor(r, novos) ELSE estado.mapa[r]
        /\ Existe(f, r) <=> Existe(estado, r)
        /\ ComEntregador(f, r) <=> ComEntregador(estado, r)
    BY <1>1, <1>2, <1>3, MoverEfeito
  <2> HIDE DEF f
  <2>2. estado' = f
    BY <1>1 DEF f
  <2>3. (Existe(estado, r)' <=> Existe(f, r)) /\ (ComEntregador(estado, r)' <=> ComEntregador(f, r))
    BY <2>2 DEF Existe, ComEntregador
  <2> QED BY <2>1, <2>2, <2>3
<1>7. ASSUME NEW r \in Pedidos, Existe(estado, r)
      PROVE  estado'.pedidos[r].entregador = estado.pedidos[r].entregador
  BY <1>1, <1>2, <1>3, <1>7, MoverEntregador
<1>8. Coerente(estado)'
  <2>1. ASSUME NEW r \in Pedidos PROVE r \in Mapeados(estado)' <=> r \in Mapeados(estado)
    <3>1. r \in ps => EscolherServidor(r, novos) # Nenhum
      BY <1>1, EscolheAtivo, EstadoAssumption
    <3> QED BY <1>2, <1>6, <3>1 DEF Mapeados
  <2> QED BY <1>6, <2>1 DEF IInv, Donos, Coerente
<1>9. FilaSemDono'
  <2>1. ASSUME NEW r \in estado'.semEntregador PROVE estado'.pedidos[r].entregador = Nenhum
    <3>1. r \in Pedidos
      BY <1>4 DEF Estado
    <3>2. r \in estado.semEntregador
      BY <1>6, <3>1
    <3>3. Existe(estado, r)
      BY <3>1, <3>2 DEF IInv, Donos, Coerente
    <3> QED BY <1>7, <3>1, <3>2, <3>3 DEF IInv, Donos, FilaSemDono
  <2> QED BY <2>1 DEF FilaSemDono
<1>10. \A q \in Processos, r \in Pedidos : Carrega(q, r)' <=> Carrega(q, r)
  BY <1>1 DEF Carrega
<1>11. SoCriados'
  BY <1>1, <1>6, <1>10 DEF IInv, Donos, SoCriados
<1>12. ASSUME NEW q \in Processos, NEW r \in Pedidos, Existe(estado, r)', Carrega(q, r)'
       PROVE  estado'.pedidos[r].entregador = q
  <2>1. Existe(estado, r) /\ Carrega(q, r)
    BY <1>6, <1>10, <1>12
  <2> QED BY <1>7, <2>1 DEF IInv, Donos, EntregaDoDono, Carrega
<1>13. EntregaDoDono'
  BY <1>12 DEF EntregaDoDono, Carrega
<1> QED BY <1>5, <1>8, <1>9, <1>11, <1>13 DEF IInv, Donos

-----------------------------------------------------------------------------
(* The steps of the threads of a driver *)

\* A thread goes on without touching anything else and without having accepted.
LEMMA AndarOk ==
    ASSUME IInv, NEW d \in Processos \cap ligados, NEW t \in Threads, NEW onde \in Tarefa,
           onde.fase # "aceito", Ir(d, t, onde), CorreioOk(correio'), UNCHANGED memoria,
           UNCHANGED <<adm, processo, iniciais, falhas>>
    PROVE  IInv'
<1>1. TarefaOk(tarefa')
  BY IrTipo DEF IInv
<1>2. TypeOK'
  BY <1>1, TipoDasPartes DEF IInv, TypeOK, adm
<1>3. \A q \in Processos, p \in Pedidos : Carrega(q, p)' => Carrega(q, p)
  BY IrCarrega DEF IInv
<1>4. Donos'
  BY <1>3, DonosFicam DEF IInv, adm
<1> QED BY <1>2, <1>4 DEF IInv

\* The queues, when nothing touches them
LEMMA CorreioFica == ASSUME TypeOK, UNCHANGED correio PROVE CorreioOk(correio')
BY DEF TypeOK, CorreioOk

\* The queue of the ADM is read.
LEMMA ConsultarOk ==
    ASSUME IInv, NEW d \in Processos, NEW t \in Threads, Consultar(d, t) PROVE IInv'
<1>1. estado.semEntregador \in SUBSET Pedidos
  BY DEF IInv, TypeOK, Estado
<1>2. Seguir(estado.semEntregador) \in Tarefa /\ Seguir(estado.semEntregador).fase # "aceito"
  BY <1>1, LugaresTipo
<1> QED BY <1>2, CorreioFica, AndarOk DEF Consultar, Esta, IInv

\* An order is passed over, or will be asked for.
LEMMA TentarOk ==
    ASSUME IInv, NEW d \in Processos, NEW t \in Threads, Tentar(d, t) PROVE IInv'
<1>1. d \in ligados /\ tarefa[d][t].fase = "tentando"
  BY DEF Tentar, Esta
<1>2. tarefa[d][t].restam \in SUBSET Pedidos
  BY <1>1, TarefaCampos DEF IInv, TypeOK
<1>3. PICK p \in tarefa[d][t].restam :
          \/ Ir(d, t, Seguir(tarefa[d][t].restam \ {p}))
          \/ Ir(d, t, Pedindo(p, tarefa[d][t].restam \ {p}))
  BY DEF Tentar
<1>4. p \in Pedidos /\ tarefa[d][t].restam \ {p} \in SUBSET Pedidos
  BY <1>2
<1>5. UNCHANGED <<adm, processo, memoria, correio, iniciais, falhas>>
  BY DEF Tentar
<1>6. CorreioOk(correio')
  BY <1>5, CorreioFica DEF IInv
<1>7. CASE Ir(d, t, Seguir(tarefa[d][t].restam \ {p}))
  BY <1>1, <1>4, <1>5, <1>6, <1>7, LugaresTipo, AndarOk
<1>8. CASE Ir(d, t, Pedindo(p, tarefa[d][t].restam \ {p}))
  BY <1>1, <1>4, <1>5, <1>6, <1>8, LugaresTipo, AndarOk
<1> QED BY <1>3, <1>7, <1>8

\* A new order is announced.
LEMMA PedidoDisponivelOk ==
    ASSUME IInv, NEW d \in Processos, NEW p \in Pedidos, PedidoDisponivel(d, p) PROVE IInv'
<1>1. Receber(d, "disponivel", p) /\ Ir(d, "consumidor", Tentando({p}))
  BY DEF PedidoDisponivel
<1>2. CorreioOk(correio')
  BY <1>1, ReceberTipo DEF IInv
<1>3. d \in ligados /\ "consumidor" \in Threads
  BY <1>1 DEF Receber, Esta, Threads
<1>4. Tentando({p}) \in Tarefa /\ Tentando({p}).fase # "aceito"
  <2>1. {p} \in SUBSET Pedidos
    OBVIOUS
  <2> QED BY <2>1, LugaresTipo
<1> QED BY <1>1, <1>2, <1>3, <1>4, AndarOk DEF PedidoDisponivel

\* An event about an order that the memory of the driver answers with: a step of
\* the consumer that writes it and goes on, carrying no more than before.
LEMMA EscreverOk ==
    ASSUME IInv, NEW d \in Processos \cap ligados, NEW t \in Threads, NEW onde \in Tarefa,
           onde.fase # "aceito", Ir(d, t, onde), CorreioOk(correio'), NEW m \in Memoria,
           memoria' = [memoria EXCEPT ![d] = m],
           \A p \in Pedidos : m.gps[p] = "ativo" => Carrega(d, p),
           UNCHANGED <<adm, processo, iniciais, falhas>>
    PROVE  IInv'
<1>1. TarefaOk(tarefa')
  BY IrTipo DEF IInv
<1>2. memoria' \in [Processos -> Memoria]
  BY DEF IInv, TypeOK
<1>3. TypeOK'
  BY <1>1, <1>2, TipoDasPartes DEF IInv, TypeOK, adm
<1>4. ASSUME NEW q \in Processos, NEW p \in Pedidos, Carrega(q, p)' PROVE Carrega(q, p)
  <2>1. memoria'[q] = IF q = d THEN m ELSE memoria[q]
    BY DEF IInv, TypeOK
  <2>2. CASE memoria'[q].gps[p] = "ativo"
    BY <2>1, <2>2 DEF Carrega
  <2>3. CASE ~(memoria'[q].gps[p] = "ativo")
    BY <1>4, <2>3, IrCarrega DEF IInv
  <2> QED BY <2>2, <2>3
<1>5. Donos'
  BY <1>4, DonosFicam DEF IInv, adm
<1> QED BY <1>3, <1>5 DEF IInv

\* The memory of a driver after a confirmation
LEMMA PararTipo ==
    ASSUME NEW m \in Memoria, NEW p \in Pedidos
    PROVE  /\ Parar(m, p) \in Memoria
           /\ \A q \in Pedidos : Parar(m, p).gps[q] = "ativo" => m.gps[q] = "ativo"
<1> DEFINE gps == [m.gps EXCEPT ![p] = "parado"]
           rastreador == [m.rastreador EXCEPT ![p] = Nenhum]
<1>1. Parar(m, p) = [m EXCEPT !.gps = gps, !.rastreador = rastreador]
  BY DEF Parar
<1>2. /\ gps \in [Pedidos -> {"nunca", "ativo", "parado"}]
      /\ rastreador \in [Pedidos -> Rastreadores \cup {Nenhum}]
      /\ \A q \in Pedidos : gps[q] = "ativo" => m.gps[q] = "ativo"
  BY DEF Memoria
<1> HIDE DEF gps, rastreador
<1>3. Parar(m, p).gps = gps
  BY <1>1 DEF Memoria
<1>4. Parar(m, p) \in Memoria
  BY <1>1, <1>2 DEF Memoria
<1>5. \A q \in Pedidos : Parar(m, p).gps[q] = "ativo" => m.gps[q] = "ativo"
  BY <1>2, <1>3
<1> QED BY <1>4, <1>5

\* A new tracker for an order
LEMMA AtualizarTipo ==
    ASSUME NEW m \in Memoria, NEW p \in Pedidos, NEW r \in Rastreadores
    PROVE  Atualizar(m, p, r) \in Memoria /\ Atualizar(m, p, r).gps = m.gps
<1>1. Atualizar(m, p, r) = IF m.gps[p] = "ativo"
                           THEN [m EXCEPT !.rastreador = [m.rastreador EXCEPT ![p] = r]]
                           ELSE m
  BY DEF Atualizar
<1> QED BY <1>1 DEF Memoria

\* A delivery that starts
LEMMA IniciarTipo ==
    ASSUME NEW m \in Memoria, NEW p \in Pedidos, NEW r \in Rastreadores
    PROVE  /\ IniciarGPS(m, p, r) \in Memoria
           /\ \A q \in Pedidos : IniciarGPS(m, p, r).gps[q] = "ativo" =>
                                     q = p \/ m.gps[q] = "ativo"
BY DEF IniciarGPS, Memoria

\* A confirmation stops a delivery.
LEMMA EntregaConfirmadaOk ==
    ASSUME IInv, NEW d \in Processos, NEW p \in Pedidos, EntregaConfirmada(d, p) PROVE IInv'
<1>1. Receber(d, "confirmada", p)
  BY DEF EntregaConfirmada
<1>2. CorreioOk(correio')
  BY <1>1, ReceberTipo DEF IInv
<1>3. d \in ligados /\ "consumidor" \in Threads
  BY <1>1 DEF Receber, Esta, Threads
<1>4. UNCHANGED <<adm, processo, iniciais, falhas>>
  BY DEF EntregaConfirmada
<1>5. CASE memoria[d].gps[p] = "nunca"
  <2>1. UNCHANGED <<memoria, tarefa>>
    BY <1>5 DEF EntregaConfirmada
  <2>2. TarefaOk(tarefa') /\ memoria' \in [Processos -> Memoria]
    BY <2>1 DEF IInv, TypeOK, TarefaOk
  <2>3. TypeOK'
    BY <1>2, <1>4, <2>2, TipoDasPartes DEF IInv, TypeOK, adm
  <2>4. Donos'
    <3>1. \A q \in Processos, r \in Pedidos : Carrega(q, r)' => Carrega(q, r)
      BY <2>1 DEF Carrega
    <3> QED BY <1>4, <3>1, DonosFicam DEF IInv, adm
  <2> QED BY <2>3, <2>4 DEF IInv
<1>6. CASE memoria[d].gps[p] # "nunca"
  <2> DEFINE m == Parar(memoria[d], p)
  <2>1. memoria' = [memoria EXCEPT ![d] = m] /\ Ir(d, "consumidor", AposEntrega(memoria'[d]))
    BY <1>6 DEF EntregaConfirmada
  <2>2. memoria[d] \in Memoria
    BY DEF IInv, TypeOK
  <2>3. m \in Memoria /\ \A q \in Pedidos : m.gps[q] = "ativo" => Carrega(d, q)
    BY <2>2, PararTipo DEF Carrega
  <2>4. AposEntrega(memoria'[d]) \in Tarefa /\ AposEntrega(memoria'[d]).fase # "aceito"
    BY LugaresTipo DEF AposEntrega
  <2> HIDE DEF m
  <2> QED BY <1>2, <1>3, <1>4, <2>1, <2>3, <2>4, EscreverOk
<1> QED BY <1>5, <1>6

\* An update changes the tracker of a delivery only.
LEMMA RastreadorAtualizadoOk ==
    ASSUME IInv, NEW d \in Processos, NEW p \in Pedidos, RastreadorAtualizado(d, p)
    PROVE  IInv'
<1> DEFINE m == Atualizar(memoria[d], p, correio[d].atualizado[p])
<1>1. /\ memoria' = [memoria EXCEPT ![d] = m] /\ UNCHANGED tarefa
      /\ correio[d].atualizado[p] # Nenhum
      /\ correio' = [correio EXCEPT ![d].atualizado[p] = Nenhum]
      /\ d \in ligados
      /\ UNCHANGED <<adm, processo, iniciais, falhas>>
  BY DEF RastreadorAtualizado, Esta
<1>2. memoria[d] \in Memoria /\ correio[d].atualizado[p] \in Rastreadores
  BY <1>1 DEF IInv, TypeOK, Correio
<1>3. m \in Memoria /\ m.gps = memoria[d].gps
  BY <1>2, AtualizarTipo
<1> HIDE DEF m
<1>4. CorreioOk(correio')
  BY <1>1 DEF IInv, TypeOK, Correio, CorreioOk
<1>5. TypeOK'
  BY <1>1, <1>3, <1>4, TipoDasPartes DEF IInv, TypeOK, TarefaOk, adm
<1>6. ASSUME NEW q \in Processos, NEW r \in Pedidos, Carrega(q, r)' PROVE Carrega(q, r)
  <2>1. memoria'[q].gps = memoria[q].gps
    BY <1>1, <1>3 DEF IInv, TypeOK
  <2> QED BY <1>1, <1>6, <2>1 DEF Carrega
<1>7. Donos'
  BY <1>1, <1>6, DonosFicam DEF IInv, adm
<1> QED BY <1>5, <1>7 DEF IInv

\* A delivery starts of an order the driver was about to carry.
LEMMA IniciarEntregaOk ==
    ASSUME IInv, NEW d \in Processos, NEW t \in Threads, IniciarEntrega(d, t) PROVE IInv'
<1> DEFINE p == tarefa[d][t].pedido
<1>1. d \in ligados /\ tarefa[d][t].fase = "aceito" /\ Ir(d, t, Livre)
  BY DEF IniciarEntrega, Esta
<1>2. p \in Pedidos /\ tarefa[d][t].rastreador \in Rastreadores
  BY <1>1, TarefaCampos DEF IInv, TypeOK
<1>3. PICK r \in RastreadorNaResposta(p, tarefa[d][t].rastreador) :
          memoria' = [memoria EXCEPT ![d] = IniciarGPS(memoria[d], p, r)]
  BY DEF IniciarEntrega
<1>4. r \in Rastreadores
  BY <1>2, <1>3 DEF RastreadorNaResposta, IInv, TypeOK, Estado
<1>5. UNCHANGED <<adm, processo, correio, iniciais, falhas>>
  BY DEF IniciarEntrega
<1>6. CorreioOk(correio')
  BY <1>5, CorreioFica DEF IInv
<1>7. Carrega(d, p)
  BY <1>1 DEF Carrega
<1> HIDE DEF p
<1> DEFINE m == IniciarGPS(memoria[d], p, r)
<1>8. m \in Memoria /\ \A q \in Pedidos : m.gps[q] = "ativo" => Carrega(d, q)
  <2>1. memoria[d] \in Memoria
    BY DEF IInv, TypeOK
  <2> QED BY <1>2, <1>4, <1>7, <2>1, IniciarTipo DEF Carrega
<1> HIDE DEF m
<1>9. Livre \in Tarefa /\ Livre.fase # "aceito"
  BY LugaresTipo
<1>10. memoria' = [memoria EXCEPT ![d] = m]
  BY <1>3 DEF m
<1> QED BY <1>1, <1>5, <1>6, <1>8, <1>9, <1>10, EscreverOk

\* A request after which the ADM is as before: refused, failed, or about an order
\* the driver has already
LEMMA RecusaOk ==
    ASSUME IInv, NEW d \in Processos \cap ligados, NEW t \in Threads,
           NEW onde \in Tarefa, onde.fase # "aceito" \/ Carrega(d, onde.pedido)
               \/ (Existe(estado, onde.pedido) /\ estado.pedidos[onde.pedido].entregador = d),
           onde.fase = "aceito" => onde.pedido \in Pedidos /\ Existe(estado, onde.pedido),
           Ir(d, t, onde), iniciais' \in [Processos -> SUBSET Pedidos],
           falhas' \in 0..MaxFalhas, UNCHANGED <<adm, processo, memoria, correio>>
    PROVE  IInv'
<1>1. TarefaOk(tarefa') /\ CorreioOk(correio')
  BY IrTipo, CorreioFica DEF IInv
<1>2. TypeOK'
  BY <1>1, TipoDasPartes DEF IInv, TypeOK, adm
<1>3. ASSUME NEW u \in Threads, NEW q \in Processos
      PROVE  tarefa'[q][u] = IF q = d /\ u = t THEN onde ELSE tarefa[q][u]
  BY DEF Ir, IInv, TypeOK
<1>4. ASSUME NEW q \in Processos, NEW p \in Pedidos, Carrega(q, p)'
      PROVE  Carrega(q, p) \/ (q = d /\ onde.fase = "aceito" /\ p = onde.pedido)
  BY <1>3, <1>4 DEF Carrega
<1>5. \A q \in Processos, p \in Pedidos :
          Existe(estado, p) /\ Carrega(q, p) => estado.pedidos[p].entregador = q
  BY DEF IInv, Donos, EntregaDoDono, Carrega
<1>6. ASSUME NEW q \in Processos, NEW p \in Pedidos, Existe(estado, p)', Carrega(q, p)'
      PROVE  estado'.pedidos[p].entregador = q
  BY <1>4, <1>5, <1>6 DEF adm, Existe
<1>7. EntregaDoDono'
  BY <1>6 DEF EntregaDoDono, Carrega
<1>8. SoCriados'
  BY <1>4 DEF IInv, Donos, SoCriados, adm, Existe
<1>9. Coerente(estado)' /\ FilaSemDono'
  BY DEF IInv, Donos, FilaSemDono, adm
<1> QED BY <1>2, <1>7, <1>8, <1>9 DEF IInv, Donos

\* A request in which the ADM assigns the order
LEMMA AtribuidoOk ==
    ASSUME IInv, NEW d \in Processos \cap ligados, NEW t \in Threads,
           NEW p \in estado.semEntregador, estado' = Aceitar(estado, p, d, ativos),
           NEW onde \in Tarefa, onde.fase = "aceito" => onde.pedido = p, Ir(d, t, onde),
           iniciais' \in [Processos -> SUBSET Pedidos], falhas' \in 0..MaxFalhas,
           UNCHANGED <<ativos, usados, mudancas, processo, memoria, correio>>
    PROVE  IInv'
<1>1. TarefaOk(tarefa') /\ CorreioOk(correio')
  BY IrTipo, CorreioFica DEF IInv
<1>2. ASSUME NEW u \in Threads, NEW q \in Processos
      PROVE  tarefa'[q][u] = IF q = d /\ u = t THEN onde ELSE tarefa[q][u]
  BY DEF Ir, IInv, TypeOK
<1>3. ASSUME NEW q \in Processos, NEW r \in Pedidos, Carrega(q, r)'
      PROVE  Carrega(q, r) \/ (q = d /\ r = p)
  BY <1>2, <1>3 DEF Carrega
<1>4. d \in Entregadores
  BY DEF Processos
<1>5. estado' \in Estado /\ Donos'
  BY <1>3, <1>4, AceitarDonos
<1>6. TypeOK'
  BY <1>1, <1>5, TipoDasPartes DEF IInv, TypeOK
<1> QED BY <1>5, <1>6 DEF IInv

\* The order asked for, and what the request leaves in the history
LEMMA PedindoTipo ==
    ASSUME TypeOK, NEW d \in Processos, NEW t \in Threads, Esta(d, t, "pedindo"),
           Perguntou(d, t, tarefa[d][t].pedido)
    PROVE  /\ tarefa[d][t].pedido \in Pedidos /\ tarefa[d][t].restam \in SUBSET Pedidos
           /\ iniciais' \in [Processos -> SUBSET Pedidos]
           /\ d \in ligados
<1>1. tarefa[d][t].pedido \in Pedidos /\ tarefa[d][t].restam \in SUBSET Pedidos
  BY TarefaCampos DEF TypeOK, Esta
<1> QED BY <1>1 DEF Perguntou, TypeOK, Esta

\* The ADM assigns the order, says that the driver has it already, or refuses.
LEMMA PedirOk ==
    ASSUME IInv, NEW d \in Processos, NEW t \in Threads, Pedir(d, t) PROVE IInv'
<1> DEFINE p == tarefa[d][t].pedido
           resto == tarefa[d][t].restam
<1>1. /\ Esta(d, t, "pedindo") /\ Perguntou(d, t, p)
      /\ IF p \in estado.semEntregador THEN estado' = Aceitar(estado, p, d, ativos)
                                       ELSE UNCHANGED estado
      /\ Ir(d, t, IF p \in estado.semEntregador \/ JaTem(d, p)
                  THEN Aceito(p, estado'.mapa[p]) ELSE Seguir(resto))
      /\ UNCHANGED <<ativos, usados, mudancas, processo, memoria, correio, falhas>>
  BY DEF Pedir
<1>2. /\ p \in Pedidos /\ resto \in SUBSET Pedidos /\ d \in ligados
      /\ iniciais' \in [Processos -> SUBSET Pedidos] /\ falhas' \in 0..MaxFalhas
  BY <1>1, PedindoTipo DEF IInv, TypeOK
<1> HIDE DEF p, resto
<1>3. Seguir(resto) \in Tarefa /\ Seguir(resto).fase # "aceito"
  BY <1>2, LugaresTipo
<1>4. CASE p \in estado.semEntregador
  <2>1. estado' = Aceitar(estado, p, d, ativos) /\ Ir(d, t, Aceito(p, estado'.mapa[p]))
    BY <1>1, <1>4
  <2>2. Existe(estado, p)
    BY <1>4, NaFilaNinguemCarrega DEF IInv, Donos, Coerente
  <2>3. /\ estado \in Estado /\ ativos \in SUBSET Rastreadores /\ ativos # {}
        /\ d \in Entregadores
    BY DEF IInv, TypeOK, Processos
  <2>4. Aceitar(estado, p, d, ativos).mapa[p] = EscolherServidor(p, ativos)
    BY <1>2, <2>2, <2>3, AceitarEfeito
  <2>5. estado'.mapa[p] \in Rastreadores
    BY <1>2, <2>1, <2>3, <2>4, EscolheAtivo
  <2>6. Aceito(p, estado'.mapa[p]) \in Tarefa /\ Aceito(p, estado'.mapa[p]).pedido = p
    BY <1>2, <2>5 DEF Aceito, Tarefa
  <2> QED BY <1>1, <1>2, <1>4, <2>1, <2>6, AtribuidoOk
<1>5. CASE p \notin estado.semEntregador /\ JaTem(d, p)
  <2>1. UNCHANGED estado /\ Ir(d, t, Aceito(p, estado.mapa[p]))
    BY <1>1, <1>5
  <2>2. Existe(estado, p) /\ estado.pedidos[p].entregador = d
    BY <1>5 DEF JaTem
  <2>3. estado.mapa[p] \in Rastreadores
    <3>1. p \in Mapeados(estado)
      BY <1>2, <1>5, <2>2 DEF IInv, Donos, Coerente
    <3> QED BY <1>2, <3>1 DEF IInv, TypeOK, Estado, Mapeados
  <2>4. Aceito(p, estado.mapa[p]) \in Tarefa /\ Aceito(p, estado.mapa[p]).pedido = p
    BY <1>2, <2>3 DEF Aceito, Tarefa
  <2>5. UNCHANGED adm
    BY <1>1, <2>1 DEF adm
  <2> QED BY <1>1, <1>2, <2>1, <2>2, <2>4, <2>5, RecusaOk
<1>6. CASE p \notin estado.semEntregador /\ ~JaTem(d, p)
  <2>1. UNCHANGED estado /\ Ir(d, t, Seguir(resto))
    BY <1>1, <1>6
  <2>2. UNCHANGED adm
    BY <1>1, <2>1 DEF adm
  <2> QED BY <1>1, <1>2, <1>3, <2>1, <2>2, RecusaOk
<1> QED BY <1>4, <1>5, <1>6

\* A queue of the past is read, or none.
LEMMA ConsultarSemLiderOk ==
    ASSUME IInv, NEW d \in Processos, NEW t \in Threads, ConsultarSemLider(d, t) PROVE IInv'
<1>1. PICK ps \in SUBSET usados : Ir(d, t, Seguir(ps))
  BY DEF ConsultarSemLider
<1>2. TypeOK /\ ps \in SUBSET Pedidos /\ d \in ligados
  BY <1>1 DEF ConsultarSemLider, Esta, IInv, TypeOK
<1>3. Seguir(ps) \in Tarefa /\ Seguir(ps).fase # "aceito"
  BY <1>2, LugaresTipo
<1>4. /\ falhas' \in 0..MaxFalhas
      /\ UNCHANGED <<adm, processo, memoria, correio, iniciais>>
  BY <1>2, EntregadorAssumption DEF ConsultarSemLider, TypeOK
<1>5. iniciais' \in [Processos -> SUBSET Pedidos]
  BY <1>2, <1>4 DEF TypeOK
<1> QED BY <1>1, <1>2, <1>3, <1>4, <1>5, RecusaOk

\* The ADM may have assigned the order, but the driver does not carry it.
LEMMA PedirComFalhaOk ==
    ASSUME IInv, NEW d \in Processos, NEW t \in Threads, PedirComFalha(d, t) PROVE IInv'
<1> DEFINE p == tarefa[d][t].pedido
           resto == tarefa[d][t].restam
<1>1. /\ Esta(d, t, "pedindo") /\ Perguntou(d, t, p) /\ Ir(d, t, Seguir(resto))
      /\ \/ UNCHANGED estado
         \/ p \in estado.semEntregador /\ estado' = Aceitar(estado, p, d, ativos)
      /\ falhas < MaxFalhas /\ falhas' = falhas + 1
      /\ UNCHANGED <<ativos, usados, mudancas, processo, memoria, correio>>
  BY DEF PedirComFalha
<1>2. /\ p \in Pedidos /\ resto \in SUBSET Pedidos /\ d \in ligados
      /\ iniciais' \in [Processos -> SUBSET Pedidos]
  BY <1>1, PedindoTipo DEF IInv
<1>3. falhas' \in 0..MaxFalhas
  BY <1>1, EntregadorAssumption DEF IInv, TypeOK
<1> HIDE DEF p, resto
<1>4. Seguir(resto) \in Tarefa /\ Seguir(resto).fase # "aceito"
  BY <1>2, LugaresTipo
<1>5. CASE UNCHANGED estado
  <2>1. UNCHANGED adm
    BY <1>1, <1>5 DEF adm
  <2> QED BY <1>1, <1>2, <1>3, <1>4, <2>1, RecusaOk
<1>6. CASE p \in estado.semEntregador /\ estado' = Aceitar(estado, p, d, ativos)
  BY <1>1, <1>2, <1>3, <1>4, <1>6, AtribuidoOk
<1> QED BY <1>1, <1>5, <1>6

-----------------------------------------------------------------------------
(* Start and crash *)

\* A driver starts carrying nothing.
LEMMA LigarOk == ASSUME IInv, NEW d \in Processos, Ligar(d) PROVE IInv'
<1>1. /\ ligados' = ligados \cup {d} /\ Ir(d, "inicial", Consultando)
      /\ UNCHANGED <<adm, memoria, correio, iniciais, quedas, falhas>>
  BY DEF Ligar
<1>2. Consultando \in Tarefa /\ Consultando.fase # "aceito" /\ "inicial" \in Threads
  BY LugaresTipo DEF Threads
<1>3. TypeOK'
  <2>1. /\ tarefa' \in [Processos -> [Threads -> Tarefa]]
        /\ \A q \in Processos \ ligados' : tarefa'[q] = [t \in Threads |-> Livre]
    BY <1>1, <1>2 DEF Ir, IInv, TypeOK
  <2> QED BY <1>1, <2>1 DEF IInv, TypeOK, adm
<1>4. \A q \in Processos, p \in Pedidos : Carrega(q, p)' => Carrega(q, p)
  BY <1>1, <1>2, IrCarrega DEF IInv
<1>5. Donos'
  BY <1>1, <1>4, DonosFicam DEF IInv, adm
<1> QED BY <1>3, <1>5 DEF IInv

\* A driver that crashes carries nothing.
LEMMA CairOk == ASSUME IInv, NEW d \in Processos, Cair(d) PROVE IInv'
<1>1. /\ quedas < MaxQuedas /\ quedas' = quedas + 1 /\ ligados' = ligados \ {d}
      /\ memoria' = [memoria EXCEPT ![d] = MemoriaVazia]
      /\ tarefa' = [tarefa EXCEPT ![d] = [t \in Threads |-> Livre]]
      /\ correio' = [correio EXCEPT ![d] = CorreioVazio]
      /\ iniciais' = [iniciais EXCEPT ![d] = {}]
      /\ UNCHANGED <<adm, falhas>>
  BY DEF Cair
<1>2. MemoriaVazia \in Memoria /\ CorreioVazio \in Correio /\ Livre \in Tarefa
  BY DEF MemoriaVazia, Memoria, CorreioVazio, Correio, Tarefa
<1>3. TypeOK'
  <2>1. quedas' \in 0..MaxQuedas
    BY <1>1, EntregadorAssumption DEF IInv, TypeOK
  <2>2. /\ memoria' \in [Processos -> Memoria]
        /\ tarefa' \in [Processos -> [Threads -> Tarefa]]
        /\ correio' \in [Processos -> Correio]
        /\ iniciais' \in [Processos -> SUBSET Pedidos]
    BY <1>1, <1>2 DEF IInv, TypeOK
  <2>3. \A q \in Processos \ ligados' :
            tarefa'[q] = [t \in Threads |-> Livre] /\ correio'[q] = CorreioVazio
    BY <1>1 DEF IInv, TypeOK
  <2> QED BY <1>1, <2>1, <2>2, <2>3 DEF IInv, TypeOK, adm
<1>4. ASSUME NEW q \in Processos, NEW p \in Pedidos, Carrega(q, p)' PROVE Carrega(q, p)
  <2>1. CASE q = d
    <3>1. memoria'[q].gps[p] = "nunca"
      BY <1>1, <2>1 DEF IInv, TypeOK, MemoriaVazia
    <3>2. \A t \in Threads : tarefa'[q][t].fase = "livre"
      BY <1>1, <2>1 DEF IInv, TypeOK, Livre
    <3> QED BY <1>4, <3>1, <3>2 DEF Carrega
  <2>2. CASE q # d
    <3>1. memoria'[q] = memoria[q] /\ tarefa'[q] = tarefa[q]
      BY <1>1, <2>2 DEF IInv, TypeOK
    <3> QED BY <1>4, <3>1 DEF Carrega
  <2> QED BY <2>1, <2>2
<1>5. Donos'
  BY <1>1, <1>4, DonosFicam DEF IInv, adm
<1> QED BY <1>3, <1>5 DEF IInv

-----------------------------------------------------------------------------
(* The invariant *)

\* At first no order is known and nobody carries one.
LEMMA InicioOk == Init => IInv
<1> SUFFICES ASSUME Init PROVE IInv
  OBVIOUS
<1>1. MemoriaVazia \in Memoria /\ CorreioVazio \in Correio /\ Livre \in Tarefa
  BY DEF MemoriaVazia, Memoria, CorreioVazio, Correio, Tarefa
<1>2. Rastreadores # {}
  BY EntregadorAssumption
<1>3. TypeOK
  BY <1>1, <1>2, VazioOk, EntregadorAssumption DEF Init, TypeOK
<1>4. \A d \in Processos, p \in Pedidos : ~Carrega(d, p)
  BY DEF Init, Carrega, MemoriaVazia, Livre
<1>5. \A p \in Pedidos : ~Existe(estado, p)
  BY DEF Init, EstadoVazio, Existe
<1>6. Donos
  BY <1>4, <1>5, VazioOk
     DEF Donos, Init, FilaSemDono, SoCriados, EntregaDoDono, Carrega, EstadoVazio
<1> QED BY <1>3, <1>6 DEF IInv

\* Every step keeps the invariant.
LEMMA PassoIndutivo == IInv /\ [Next]_vars => IInv'
<1> SUFFICES ASSUME IInv, [Next]_vars PROVE IInv'
  OBVIOUS
<1>1. ASSUME NEW p \in Pedidos,
             \/ CriarPedido(p) \/ ConfirmarEntrega(p) \/ \E d \in Outros : AceitarOutro(p, d)
      PROVE  IInv'
  BY <1>1, CriarOk, ConfirmarOk, AceitarOutroOk
<1>2. ASSUME NEW novos \in SUBSET Rastreadores, MudarRastreadores(novos) PROVE IInv'
  BY <1>2, MudarOk
<1>3. ASSUME NEW d \in Processos, NEW t \in Threads, Passo(d, t) PROVE IInv'
  BY <1>3, ConsultarOk, ConsultarSemLiderOk, TentarOk, PedirOk, PedirComFalhaOk, IniciarEntregaOk DEF Passo
<1>4. ASSUME NEW d \in Processos, Callback(d) PROVE IInv'
  BY <1>4, PedidoDisponivelOk, EntregaConfirmadaOk, RastreadorAtualizadoOk DEF Callback
<1>5. ASSUME NEW d \in Processos, Ligar(d) PROVE IInv'
  BY <1>5, LigarOk
<1>6. ASSUME NEW d \in Processos, Cair(d) PROVE IInv'
  BY <1>6, CairOk
<1>7. CASE UNCHANGED vars
  <2>1. TypeOK'
    BY <1>7 DEF vars, IInv, TypeOK
  <2>2. Donos'
    <3>1. \A q \in Processos, p \in Pedidos : Carrega(q, p)' => Carrega(q, p)
      BY <1>7 DEF vars, Carrega
    <3> QED BY <1>7, <3>1, DonosFicam DEF vars, IInv
  <2> QED BY <2>1, <2>2 DEF IInv
<1> QED BY <1>1, <1>2, <1>3, <1>4, <1>5, <1>6, <1>7 DEF Next

-----------------------------------------------------------------------------
(* No order orphaned *)

\* A confirmation waits only for an order that is gone for good: the delivery it
\* stops is of nobody any more.
SemVolta == \A d \in Processos : \A p \in correio[d].confirmada :
                p \in usados /\ ~Existe(estado, p)

\* The ADM has assigned the order to the driver.
Dono(d, p) == Existe(estado, p) /\ estado.pedidos[p].entregador = d

JInv == IInv /\ SemVolta /\ EntregaAssumida

\* Who is assigned an order after the step carries it then, or was assigned it
\* before and does not let go of it.
LEMMA AssumidaFica ==
    ASSUME EntregaAssumida, falhas' = 0 => falhas = 0, quedas' = 0 => quedas = 0,
           \A q \in Processos, p \in Pedidos :
               Dono(q, p)' /\ falhas' = 0 /\ quedas' = 0 =>
                   Carrega(q, p)' \/ (Dono(q, p) /\ (Carrega(q, p) => Carrega(q, p)'))
    PROVE  EntregaAssumida'
<1> SUFFICES ASSUME falhas' = 0, quedas' = 0, NEW q \in Processos, NEW p \in Pedidos,
                    Dono(q, p)'
             PROVE  Carrega(q, p)'
  BY DEF EntregaAssumida, Dono, Existe, Carrega
<1>1. CASE Dono(q, p) /\ (Carrega(q, p) => Carrega(q, p)')
  <2>1. Carrega(q, p)
    BY <1>1 DEF EntregaAssumida, Dono, Carrega
  <2> QED BY <1>1, <2>1
<1> QED BY <1>1

\* No order comes back and no confirmation comes.
LEMMA SemVoltaFica ==
    ASSUME TypeOK, SemVolta, usados' = usados,
           \A p \in Pedidos : Existe(estado, p)' => Existe(estado, p),
           \A q \in Processos : correio'[q].confirmada \subseteq correio[q].confirmada
    PROVE  SemVolta'
<1>1. ASSUME NEW q \in Processos, NEW p \in correio'[q].confirmada
      PROVE  p \in usados' /\ ~Existe(estado, p)'
  <2>1. p \in correio[q].confirmada /\ p \in Pedidos
    BY DEF TypeOK, Correio
  <2> QED BY <2>1 DEF SemVolta
<1> QED BY <1>1 DEF SemVolta

\* The confirmations that wait after an event is published or taken
LEMMA ConfirmadasDe ==
    ASSUME TypeOK, NEW p \in Pedidos, NEW q \in Processos
    PROVE  /\ Publicar("disponivel", p) => correio'[q].confirmada = correio[q].confirmada
           /\ Publicar("confirmada", p) =>
                  correio'[q].confirmada \subseteq correio[q].confirmada \cup {p}
           /\ \A d \in Processos, fila \in {"disponivel", "confirmada"} :
                  Receber(d, fila, p) =>
                      correio'[q].confirmada \subseteq correio[q].confirmada
<1>1. correio[q] \in Correio
  BY DEF TypeOK
<1>2. Publicar("disponivel", p) => correio'[q].confirmada = correio[q].confirmada
  BY <1>1 DEF Publicar, Correio
<1>3. Publicar("confirmada", p) =>
          correio'[q].confirmada \subseteq correio[q].confirmada \cup {p}
  BY <1>1 DEF Publicar, Correio
<1>4. ASSUME NEW d \in Processos, NEW fila \in {"disponivel", "confirmada"},
             Receber(d, fila, p)
      PROVE  correio'[q].confirmada \subseteq correio[q].confirmada
  BY <1>4 DEF Receber, TypeOK, Correio
<1> QED BY <1>2, <1>3, <1>4

\* A thread that goes on from any place but an order accepted: the driver carries
\* all it did, if it publishes all it did.
LEMMA IrMantem ==
    ASSUME TypeOK, NEW d \in Processos, NEW t \in Threads, NEW onde \in Tarefa,
           Ir(d, t, onde), tarefa[d][t].fase # "aceito", NEW q \in Processos,
           NEW p \in Pedidos, Carrega(q, p),
           memoria[q].gps[p] = "ativo" => memoria'[q].gps[p] = "ativo"
    PROVE  Carrega(q, p)'
<1>1. ASSUME NEW u \in Threads
      PROVE  tarefa'[q][u] = IF q = d /\ u = t THEN onde ELSE tarefa[q][u]
  BY DEF Ir, TypeOK
<1> QED BY <1>1 DEF Carrega

\* A step that lets every driver carry on, the orders of the ADM as they are
LEMMA NadaMuda ==
    ASSUME JInv, UNCHANGED <<estado, usados, quedas>>, falhas' = 0 => falhas = 0,
           \A q \in Processos, p \in Pedidos : Dono(q, p) /\ Carrega(q, p) => Carrega(q, p)',
           \A q \in Processos : correio'[q].confirmada \subseteq correio[q].confirmada
    PROVE  SemVolta' /\ EntregaAssumida'
<1>1. \A p \in Pedidos : Existe(estado, p)' => Existe(estado, p)
  BY DEF Existe
<1>2. SemVolta'
  BY <1>1, SemVoltaFica DEF JInv, IInv
<1>3. \A q \in Processos, p \in Pedidos : Dono(q, p)' => Dono(q, p)
  BY DEF Dono, Existe
<1>4. EntregaAssumida'
  BY <1>3, AssumidaFica DEF JInv
<1> QED BY <1>2, <1>4

\* A thread reads the queue, passes an order over, or takes an offer.
LEMMA AndarAssumida ==
    ASSUME JInv, NEW d \in Processos, NEW t \in Threads, NEW onde \in Tarefa, Ir(d, t, onde),
           tarefa[d][t].fase # "aceito", UNCHANGED <<adm, processo, memoria, falhas>>,
           \A q \in Processos : correio'[q].confirmada \subseteq correio[q].confirmada
    PROVE  SemVolta' /\ EntregaAssumida'
<1>1. \A q \in Processos, p \in Pedidos : Carrega(q, p) => Carrega(q, p)'
  BY IrMantem DEF JInv, IInv
<1> QED BY <1>1, NadaMuda DEF adm, processo

\* A new order is of no driver.
LEMMA CriarAssumida ==
    ASSUME JInv, NEW p \in Pedidos, CriarPedido(p) PROVE SemVolta' /\ EntregaAssumida'
<1>1. /\ p \notin usados /\ estado' = Criar(estado, p) /\ usados' = usados \cup {p}
      /\ Publicar("disponivel", p)
      /\ UNCHANGED <<memoria, tarefa, falhas, quedas>>
  BY DEF CriarPedido, processo
<1>2. estado \in Estado /\ TypeOK
  BY DEF JInv, IInv, TypeOK
<1>3. ASSUME NEW r \in Pedidos
      PROVE  /\ r = p => estado'.pedidos[r].entregador = Nenhum
             /\ r # p => estado'.pedidos[r] = estado.pedidos[r]
  BY <1>1, <1>2, CriarEfeito, PedidoNovoOk
<1>4. ASSUME NEW q \in Processos, NEW r \in Pedidos, Dono(q, r)'
      PROVE  Dono(q, r) /\ (Carrega(q, r) => Carrega(q, r)')
  <2>1. q # Nenhum
    BY EstadoAssumption DEF Processos
  <2> QED BY <1>1, <1>3, <1>4, <2>1 DEF Dono, Existe, Carrega
<1>5. EntregaAssumida'
  BY <1>1, <1>4, AssumidaFica DEF JInv
<1>6. ASSUME NEW q \in Processos, NEW r \in correio'[q].confirmada
      PROVE  r \in usados' /\ ~Existe(estado, r)'
  <2>1. r \in correio[q].confirmada /\ r \in Pedidos
    BY <1>1, <1>2, ConfirmadasDe DEF TypeOK, Correio
  <2>2. r \in usados /\ ~Existe(estado, r)
    BY <2>1 DEF JInv, SemVolta
  <2> QED BY <1>1, <1>3, <2>1, <2>2 DEF Existe
<1> QED BY <1>5, <1>6 DEF SemVolta

\* The order a confirmation is about is gone, and its id is used.
LEMMA ConfirmarAssumida ==
    ASSUME JInv, NEW p \in Pedidos, ConfirmarEntrega(p) PROVE SemVolta' /\ EntregaAssumida'
<1>1. /\ estado' = Confirmar(estado, p) /\ Existe(estado, p) /\ Publicar("confirmada", p)
      /\ UNCHANGED <<memoria, tarefa, usados, falhas, quedas>>
  BY DEF ConfirmarEntrega, processo
<1>2. estado \in Estado /\ TypeOK
  BY DEF JInv, IInv, TypeOK
<1>3. ASSUME NEW r \in Pedidos
      PROVE  /\ Existe(estado, r)' <=> r # p /\ Existe(estado, r)
             /\ r # p => estado'.pedidos[r] = estado.pedidos[r]
  BY <1>1, <1>2, ConfirmarEfeito DEF Existe
<1>4. ASSUME NEW q \in Processos, NEW r \in Pedidos, Dono(q, r)'
      PROVE  Dono(q, r) /\ (Carrega(q, r) => Carrega(q, r)')
  BY <1>1, <1>3, <1>4 DEF Dono, Carrega
<1>5. EntregaAssumida'
  BY <1>1, <1>4, AssumidaFica DEF JInv
<1>6. ASSUME NEW q \in Processos, NEW r \in correio'[q].confirmada
      PROVE  r \in usados' /\ ~Existe(estado, r)'
  <2>1. r \in correio[q].confirmada \cup {p} /\ r \in Pedidos
    BY <1>1, <1>2, ConfirmadasDe DEF TypeOK, Correio
  <2>2. p \in usados
    BY <1>1 DEF JInv, IInv, Donos, SoCriados
  <2> QED BY <1>1, <1>3, <2>1, <2>2 DEF JInv, SemVolta
<1> QED BY <1>5, <1>6 DEF SemVolta

\* An order given to driver d, who carries it at once unless a request has failed:
\* the drivers of the others stay.
LEMMA AceitarAssumida ==
    ASSUME JInv, NEW p \in estado.semEntregador, NEW d \in Entregadores,
           estado' = Aceitar(estado, p, d, ativos), UNCHANGED <<usados, quedas, correio>>,
           falhas' = 0 => falhas = 0,
           d \in Processos => falhas' # 0 \/ Carrega(d, p)',
           \A q \in Processos, r \in Pedidos : Carrega(q, r) => Carrega(q, r)'
    PROVE  SemVolta' /\ EntregaAssumida'
<1>1. estado \in Estado /\ ativos \in SUBSET Rastreadores /\ ativos # {} /\ TypeOK
  BY DEF JInv, IInv, TypeOK
<1>2. p \in Pedidos /\ Existe(estado, p)
  BY <1>1 DEF Estado, JInv, IInv, Donos, Coerente
<1>3. ASSUME NEW r \in Pedidos
      PROVE  /\ Existe(estado, r)' <=> Existe(estado, r)
             /\ r = p => estado'.pedidos[r].entregador = d
             /\ r # p => estado'.pedidos[r] = estado.pedidos[r]
  <2>1. /\ Existe(estado', r) <=> Existe(estado, r)
        /\ r = p => estado'.pedidos[r].entregador = d
        /\ r # p => estado'.pedidos[r] = estado.pedidos[r]
    BY <1>1, <1>2, AceitarEfeito
  <2> QED BY <2>1 DEF Existe
<1>4. ASSUME NEW q \in Processos, NEW r \in Pedidos, Dono(q, r)', falhas' = 0
      PROVE  Carrega(q, r)' \/ (Dono(q, r) /\ (Carrega(q, r) => Carrega(q, r)'))
  <2>1. CASE r = p
    BY <1>3, <1>4, <2>1 DEF Dono
  <2>2. CASE r # p
    BY <1>3, <1>4, <2>2 DEF Dono
  <2> QED BY <2>1, <2>2
<1>5. EntregaAssumida'
  BY <1>4, AssumidaFica DEF JInv
<1>6. SemVolta'
  BY <1>1, <1>3, SemVoltaFica DEF JInv
<1> QED BY <1>5, <1>6

\* A driver of Outros is no process.
LEMMA AceitarOutroAssumida ==
    ASSUME JInv, NEW p \in Pedidos, NEW d \in Outros, AceitarOutro(p, d)
    PROVE  SemVolta' /\ EntregaAssumida'
<1>1. /\ p \in estado.semEntregador /\ estado' = Aceitar(estado, p, d, ativos)
      /\ UNCHANGED <<quedas, memoria, tarefa, correio, usados, falhas>>
  BY DEF AceitarOutro, processo
<1>2. d \in Entregadores /\ d \notin Processos
  BY EntregadorAssumption DEF Processos
<1>3. \A q \in Processos, r \in Pedidos : Carrega(q, r) => Carrega(q, r)'
  BY <1>1 DEF Carrega
<1> QED BY <1>1, <1>2, <1>3, AceitarAssumida

\* A change of trackers keeps the drivers of the orders.
LEMMA MudarAssumida ==
    ASSUME JInv, NEW novos \in SUBSET Rastreadores, MudarRastreadores(novos)
    PROVE  SemVolta' /\ EntregaAssumida'
<1> DEFINE ps == {p \in Mapeados(estado) : EscolherServidor(p, novos) # estado.mapa[p]}
<1>1. /\ novos # {} /\ estado' = Mover(estado, ps, novos)
      /\ Avisar({p \in ps : ComEntregador(estado, p)}, estado')
      /\ UNCHANGED <<quedas, memoria, tarefa, usados, falhas>>
  BY DEF MudarRastreadores, processo
<1>2. ps \in SUBSET Pedidos
  BY DEF Mapeados
<1> HIDE DEF ps
<1>3. estado \in Estado /\ TypeOK
  BY DEF JInv, IInv, TypeOK
<1>4. ASSUME NEW r \in Pedidos
      PROVE  /\ Existe(estado, r)' <=> Existe(estado, r)
             /\ Existe(estado, r) =>
                    estado'.pedidos[r].entregador = estado.pedidos[r].entregador
  <2>1. Existe(estado', r) <=> Existe(estado, r)
    BY <1>1, <1>2, <1>3, MoverEfeito
  <2>2. Existe(estado, r) => estado'.pedidos[r].entregador = estado.pedidos[r].entregador
    BY <1>1, <1>2, <1>3, MoverEntregador
  <2> QED BY <2>1, <2>2 DEF Existe
<1>5. EntregaAssumida'
  <2>1. ASSUME NEW q \in Processos, NEW r \in Pedidos, Dono(q, r)'
        PROVE  Dono(q, r) /\ (Carrega(q, r) => Carrega(q, r)')
    BY <1>1, <1>4, <2>1 DEF Dono, Carrega
  <2> QED BY <1>1, <2>1, AssumidaFica DEF JInv
<1>6. SemVolta'
  <2>1. ASSUME NEW q \in Processos PROVE correio'[q].confirmada = correio[q].confirmada
    BY <1>1, <1>3 DEF Avisar, TypeOK, Correio
  <2> QED BY <1>1, <1>3, <1>4, <2>1, SemVoltaFica DEF JInv
<1> QED BY <1>5, <1>6

\* A thread that reads the queue or chooses an order has accepted none.
LEMMA EscolherAssumida ==
    ASSUME JInv, NEW d \in Processos, NEW t \in Threads, Consultar(d, t) \/ Tentar(d, t)
    PROVE  SemVolta' /\ EntregaAssumida'
<1>1. /\ d \in ligados /\ tarefa[d][t].fase \in {"consultando", "tentando"}
      /\ UNCHANGED <<adm, processo, memoria, correio, iniciais, falhas>>
  BY DEF Consultar, Tentar, Esta
<1>2. PICK onde \in Tarefa : Ir(d, t, onde)
  <2>1. CASE Consultar(d, t)
    <3>1. estado.semEntregador \in SUBSET Pedidos
      BY DEF JInv, IInv, TypeOK, Estado
    <3> QED BY <2>1, <3>1, LugaresTipo DEF Consultar
  <2>2. CASE Tentar(d, t)
    <3>1. tarefa[d][t].fase = "tentando"
      BY <2>2 DEF Tentar, Esta
    <3>2. tarefa[d][t].restam \in SUBSET Pedidos
      BY <3>1, TarefaCampos DEF JInv, IInv, TypeOK
    <3>3. PICK p \in tarefa[d][t].restam :
              \/ Ir(d, t, Seguir(tarefa[d][t].restam \ {p}))
              \/ Ir(d, t, Pedindo(p, tarefa[d][t].restam \ {p}))
      BY <2>2 DEF Tentar
    <3>4. p \in Pedidos /\ tarefa[d][t].restam \ {p} \in SUBSET Pedidos
      BY <3>2
    <3> QED BY <3>3, <3>4, LugaresTipo
  <2> QED BY <2>1, <2>2
<1> QED BY <1>1, <1>2, AndarAssumida

\* A query without the leader's answer counts as a failure.
LEMMA SemLiderAssumida ==
    ASSUME JInv, NEW d \in Processos, NEW t \in Threads, ConsultarSemLider(d, t)
    PROVE  SemVolta' /\ EntregaAssumida'
<1>1. PICK ps \in SUBSET usados : Ir(d, t, Seguir(ps))
  BY DEF ConsultarSemLider
<1>2. /\ TypeOK /\ tarefa[d][t].fase = "consultando" /\ falhas' = falhas + 1
      /\ UNCHANGED <<estado, usados, quedas, memoria, correio>>
  BY DEF ConsultarSemLider, Esta, JInv, IInv, adm, processo
<1>3. falhas' # 0
  BY <1>2, EntregadorAssumption DEF TypeOK
<1>4. Seguir(ps) \in Tarefa
  BY <1>1, <1>2, LugaresTipo DEF TypeOK
<1>5. \A q \in Processos, p \in Pedidos : Carrega(q, p) => Carrega(q, p)'
  BY <1>1, <1>2, <1>4, IrMantem
<1> QED BY <1>2, <1>3, <1>5, NadaMuda

\* An offer finds the consumer free.
LEMMA PedidoDisponivelAssumida ==
    ASSUME JInv, NEW d \in Processos, NEW p \in Pedidos, PedidoDisponivel(d, p)
    PROVE  SemVolta' /\ EntregaAssumida'
<1>1. /\ Receber(d, "disponivel", p) /\ Ir(d, "consumidor", Tentando({p}))
      /\ UNCHANGED <<adm, processo, memoria, iniciais, falhas>>
  BY DEF PedidoDisponivel
<1>2. \A q \in Processos : correio'[q].confirmada \subseteq correio[q].confirmada
  BY <1>1, ConfirmadasDe DEF JInv, IInv
<1>3. tarefa[d]["consumidor"].fase # "aceito" /\ "consumidor" \in Threads
  BY <1>1 DEF Receber, Esta, Threads
<1>4. Tentando({p}) \in Tarefa
  <2>1. {p} \in SUBSET Pedidos
    OBVIOUS
  <2> QED BY <2>1, LugaresTipo
<1> QED BY <1>1, <1>2, <1>3, <1>4, AndarAssumida

\* A request the ADM grants leaves its thread about to carry the order.
LEMMA PedirAssumida ==
    ASSUME JInv, NEW d \in Processos, NEW t \in Threads, Pedir(d, t)
    PROVE  SemVolta' /\ EntregaAssumida'
<1>1. TypeOK /\ tarefa[d][t].fase = "pedindo"
  BY DEF Pedir, Esta, JInv, IInv
<1>2. PICK p \in Pedidos : p = tarefa[d][t].pedido
  BY <1>1, TarefaCampos DEF TypeOK
<1> DEFINE onde == IF p \in estado.semEntregador \/ JaTem(d, p)
                   THEN Aceito(p, estado'.mapa[p]) ELSE Seguir(tarefa[d][t].restam)
<1>3. /\ Ir(d, t, onde)
      /\ IF p \in estado.semEntregador THEN estado' = Aceitar(estado, p, d, ativos)
                                       ELSE UNCHANGED estado
      /\ UNCHANGED <<usados, quedas, memoria, correio, falhas>>
  BY <1>2 DEF Pedir, processo
<1>4. p \in estado.semEntregador => onde.fase = "aceito" /\ onde.pedido = p
  BY DEF Aceito
<1> HIDE DEF onde
<1>5. ASSUME NEW u \in Threads, NEW q \in Processos
      PROVE  tarefa'[q][u] = IF q = d /\ u = t THEN onde ELSE tarefa[q][u]
  BY <1>1, <1>3 DEF Ir, TypeOK
<1>6. \A q \in Processos, r \in Pedidos : Carrega(q, r) => Carrega(q, r)'
  BY <1>1, <1>3, <1>5 DEF Carrega
<1>7. CASE p \in estado.semEntregador
  <2>1. Carrega(d, p)'
    BY <1>4, <1>5, <1>7 DEF Carrega
  <2>2. d \in Entregadores
    BY DEF Processos
  <2> QED BY <1>3, <1>6, <1>7, <2>1, <2>2, AceitarAssumida
<1>8. CASE p \notin estado.semEntregador
  BY <1>3, <1>6, <1>8, NadaMuda
<1> QED BY <1>7, <1>8

\* A request has failed: nothing is promised any more.
LEMMA PedirComFalhaAssumida ==
    ASSUME JInv, NEW d \in Processos, NEW t \in Threads, PedirComFalha(d, t)
    PROVE  SemVolta' /\ EntregaAssumida'
<1>1. TypeOK /\ tarefa[d][t].fase = "pedindo"
  BY DEF PedirComFalha, Esta, JInv, IInv
<1>2. PICK p \in Pedidos : p = tarefa[d][t].pedido
  BY <1>1, TarefaCampos DEF TypeOK
<1> DEFINE onde == Seguir(tarefa[d][t].restam)
<1>3. /\ Ir(d, t, onde)
      /\ \/ UNCHANGED estado
         \/ p \in estado.semEntregador /\ estado' = Aceitar(estado, p, d, ativos)
      /\ falhas' = falhas + 1
      /\ UNCHANGED <<usados, quedas, memoria, correio>>
  BY <1>2 DEF PedirComFalha, processo
<1>4. falhas' # 0
  BY <1>1, <1>3, EntregadorAssumption DEF TypeOK
<1> HIDE DEF onde
<1>5. ASSUME NEW u \in Threads, NEW q \in Processos
      PROVE  tarefa'[q][u] = IF q = d /\ u = t THEN onde ELSE tarefa[q][u]
  BY <1>1, <1>3 DEF Ir, TypeOK
<1>6. \A q \in Processos, r \in Pedidos : Carrega(q, r) => Carrega(q, r)'
  BY <1>1, <1>3, <1>5 DEF Carrega
<1>7. d \in Entregadores
  BY DEF Processos
<1>8. CASE UNCHANGED estado
  BY <1>3, <1>4, <1>6, <1>8, NadaMuda
<1>9. CASE p \in estado.semEntregador /\ estado' = Aceitar(estado, p, d, ativos)
  BY <1>3, <1>4, <1>6, <1>7, <1>9, AceitarAssumida
<1> QED BY <1>3, <1>8, <1>9

\* The order accepted is carried, and so are those already carried.
LEMMA IniciarEntregaAssumida ==
    ASSUME JInv, NEW d \in Processos, NEW t \in Threads, IniciarEntrega(d, t)
    PROVE  SemVolta' /\ EntregaAssumida'
<1> DEFINE p == tarefa[d][t].pedido
<1>1. /\ tarefa[d][t].fase = "aceito" /\ tarefa' = [tarefa EXCEPT ![d][t] = Livre]
      /\ UNCHANGED <<adm, processo, correio, falhas>>
  BY DEF IniciarEntrega, Esta, Ir
<1>2. PICK r \in RastreadorNaResposta(p, tarefa[d][t].rastreador) :
          memoria' = [memoria EXCEPT ![d] = IniciarGPS(memoria[d], p, r)]
  BY DEF IniciarEntrega
<1>3. TypeOK
  BY DEF JInv, IInv
<1>4. p \in Pedidos
  BY <1>1, <1>3, TarefaCampos DEF TypeOK
<1> HIDE DEF p
<1>5. ASSUME NEW q \in Processos, NEW s \in Pedidos
      PROVE  memoria'[q].gps[s] = IF q = d /\ s = p THEN "ativo" ELSE memoria[q].gps[s]
  <2>1. memoria[q] \in Memoria
    BY <1>3 DEF TypeOK
  <2>2. memoria'[q] = IF q = d THEN IniciarGPS(memoria[q], p, r) ELSE memoria[q]
    BY <1>2, <1>3 DEF TypeOK
  <2>3. IniciarGPS(memoria[q], p, r).gps = [memoria[q].gps EXCEPT ![p] = "ativo"]
    BY DEF IniciarGPS
  <2>4. [memoria[q].gps EXCEPT ![p] = "ativo"][s] = IF s = p THEN "ativo" ELSE memoria[q].gps[s]
    BY <2>1 DEF Memoria
  <2> QED BY <2>2, <2>3, <2>4
<1>6. ASSUME NEW q \in Processos, NEW s \in Pedidos, Carrega(q, s) PROVE Carrega(q, s)'
  <2>1. CASE memoria[q].gps[s] = "ativo"
    BY <1>5, <2>1 DEF Carrega
  <2>2. CASE \E u \in Threads : tarefa[q][u].fase = "aceito" /\ tarefa[q][u].pedido = s
    <3>1. PICK u \in Threads : tarefa[q][u].fase = "aceito" /\ tarefa[q][u].pedido = s
      BY <2>2
    <3>2. CASE q = d /\ u = t
      BY <1>5, <3>1, <3>2 DEF Carrega, p
    <3>3. CASE ~(q = d /\ u = t)
      <4>1. tarefa'[q][u] = tarefa[q][u]
        BY <1>1, <1>3, <3>3 DEF TypeOK
      <4> QED BY <3>1, <4>1 DEF Carrega
    <3> QED BY <3>2, <3>3
  <2> QED BY <1>6, <2>1, <2>2 DEF Carrega
<1> QED BY <1>1, <1>6, NadaMuda DEF adm, processo

\* A confirmation stops a delivery of an order that is of nobody any more.
LEMMA EntregaConfirmadaAssumida ==
    ASSUME JInv, NEW d \in Processos, NEW p \in Pedidos, EntregaConfirmada(d, p)
    PROVE  SemVolta' /\ EntregaAssumida'
<1>1. /\ Receber(d, "confirmada", p) /\ p \in correio[d].confirmada
      /\ UNCHANGED <<adm, processo, falhas>>
  BY DEF EntregaConfirmada, Receber
<1>2. TypeOK
  BY DEF JInv, IInv
<1>3. \A q \in Processos : correio'[q].confirmada \subseteq correio[q].confirmada
  BY <1>1, <1>2, ConfirmadasDe
<1>4. ~Existe(estado, p)
  BY <1>1 DEF JInv, SemVolta
<1>5. ASSUME NEW q \in Processos, NEW s \in Pedidos, Dono(q, s), Carrega(q, s)
      PROVE  Carrega(q, s)'
  <2>1. s # p
    BY <1>4, <1>5 DEF Dono
  <2>2. CASE memoria[d].gps[p] = "nunca"
    BY <1>5, <2>2 DEF EntregaConfirmada, Carrega
  <2>3. CASE memoria[d].gps[p] # "nunca"
    <3>1. /\ memoria' = [memoria EXCEPT ![d] = Parar(memoria[d], p)]
          /\ Ir(d, "consumidor", AposEntrega(memoria'[d]))
      BY <2>3 DEF EntregaConfirmada
    <3>2. memoria'[q].gps[s] = memoria[q].gps[s]
      <4>1. memoria[q] \in Memoria
        BY <1>2 DEF TypeOK
      <4>2. memoria'[q] = IF q = d THEN Parar(memoria[q], p) ELSE memoria[q]
        BY <1>2, <3>1 DEF TypeOK
      <4>3. Parar(memoria[q], p).gps[s] = memoria[q].gps[s]
        BY <2>1, <4>1 DEF Parar, Memoria
      <4> QED BY <4>2, <4>3
    <3>3. tarefa[d]["consumidor"].fase # "aceito" /\ "consumidor" \in Threads
      BY <1>1 DEF Receber, Esta, Threads
    <3>4. AposEntrega(memoria'[d]) \in Tarefa
      BY LugaresTipo DEF AposEntrega
    <3> QED BY <1>2, <1>5, <3>1, <3>2, <3>3, <3>4, IrMantem
  <2> QED BY <2>2, <2>3
<1> QED BY <1>1, <1>3, <1>5, NadaMuda DEF adm, processo

\* An update stops nothing.
LEMMA RastreadorAtualizadoAssumida ==
    ASSUME JInv, NEW d \in Processos, NEW p \in Pedidos, RastreadorAtualizado(d, p)
    PROVE  SemVolta' /\ EntregaAssumida'
<1> DEFINE m == Atualizar(memoria[d], p, correio[d].atualizado[p])
<1>1. /\ memoria' = [memoria EXCEPT ![d] = m] /\ UNCHANGED tarefa
      /\ correio[d].atualizado[p] # Nenhum
      /\ correio' = [correio EXCEPT ![d].atualizado[p] = Nenhum]
      /\ UNCHANGED <<adm, processo, falhas>>
  BY DEF RastreadorAtualizado
<1>2. TypeOK
  BY DEF JInv, IInv
<1>3. memoria[d] \in Memoria /\ correio[d].atualizado[p] \in Rastreadores
  BY <1>1, <1>2 DEF TypeOK, Correio
<1>4. m.gps = memoria[d].gps
  BY <1>3, AtualizarTipo
<1> HIDE DEF m
<1>5. \A q \in Processos : correio'[q].confirmada \subseteq correio[q].confirmada
  BY <1>1, <1>2 DEF TypeOK, Correio
<1>6. ASSUME NEW q \in Processos, NEW s \in Pedidos, Carrega(q, s) PROVE Carrega(q, s)'
  <2>1. memoria'[q].gps = memoria[q].gps
    BY <1>1, <1>2, <1>4 DEF TypeOK
  <2> QED BY <1>1, <1>6, <2>1 DEF Carrega
<1> QED BY <1>1, <1>5, <1>6, NadaMuda DEF adm, processo

\* The start-up thread of a driver that starts has nothing in hand.
LEMMA LigarAssumida ==
    ASSUME JInv, NEW d \in Processos, Ligar(d) PROVE SemVolta' /\ EntregaAssumida'
<1>1. /\ d \notin ligados /\ Ir(d, "inicial", Consultando)
      /\ UNCHANGED <<adm, memoria, correio, quedas, falhas>>
  BY DEF Ligar
<1>2. "inicial" \in Threads /\ Consultando \in Tarefa
  BY LugaresTipo DEF Threads
<1>3. tarefa[d]["inicial"].fase # "aceito"
  BY <1>1, <1>2 DEF JInv, IInv, TypeOK, Livre
<1>4. \A q \in Processos, p \in Pedidos : Carrega(q, p) => Carrega(q, p)'
  BY <1>1, <1>2, <1>3, IrMantem DEF JInv, IInv
<1> QED BY <1>1, <1>4, NadaMuda DEF adm

\* A driver has crashed: nothing is promised any more.
LEMMA CairAssumida ==
    ASSUME JInv, NEW d \in Processos, Cair(d) PROVE SemVolta' /\ EntregaAssumida'
<1>1. /\ quedas' = quedas + 1 /\ correio' = [correio EXCEPT ![d] = CorreioVazio]
      /\ UNCHANGED <<adm, falhas>>
  BY DEF Cair
<1>2. TypeOK
  BY DEF JInv, IInv
<1>3. quedas' # 0
  BY <1>1, <1>2, EntregadorAssumption DEF TypeOK
<1>4. EntregaAssumida'
  BY <1>3 DEF EntregaAssumida
<1>5. SemVolta'
  <2>1. \A q \in Processos : correio'[q].confirmada \subseteq correio[q].confirmada
    BY <1>1, <1>2 DEF TypeOK, Correio, CorreioVazio
  <2>2. \A p \in Pedidos : Existe(estado, p)' => Existe(estado, p)
    BY <1>1 DEF adm, Existe
  <2> QED BY <1>1, <1>2, <2>1, <2>2, SemVoltaFica DEF JInv, adm
<1> QED BY <1>4, <1>5

\* Every step keeps the two.
LEMMA PassoAssumido == JInv /\ [Next]_vars => JInv'
<1> SUFFICES ASSUME JInv, [Next]_vars PROVE JInv'
  OBVIOUS
<1>1. IInv'
  BY PassoIndutivo DEF JInv
<1>2. ASSUME NEW p \in Pedidos,
             \/ CriarPedido(p) \/ ConfirmarEntrega(p) \/ \E d \in Outros : AceitarOutro(p, d)
      PROVE  SemVolta' /\ EntregaAssumida'
  BY <1>2, CriarAssumida, ConfirmarAssumida, AceitarOutroAssumida
<1>3. ASSUME NEW novos \in SUBSET Rastreadores, MudarRastreadores(novos)
      PROVE  SemVolta' /\ EntregaAssumida'
  BY <1>3, MudarAssumida
<1>4. ASSUME NEW d \in Processos, NEW t \in Threads, Passo(d, t)
      PROVE  SemVolta' /\ EntregaAssumida'
  BY <1>4, EscolherAssumida, SemLiderAssumida, PedirAssumida, PedirComFalhaAssumida, IniciarEntregaAssumida
     DEF Passo
<1>5. ASSUME NEW d \in Processos, Callback(d) PROVE SemVolta' /\ EntregaAssumida'
  BY <1>5, PedidoDisponivelAssumida, EntregaConfirmadaAssumida, RastreadorAtualizadoAssumida
     DEF Callback
<1>6. ASSUME NEW d \in Processos, Ligar(d) \/ Cair(d) PROVE SemVolta' /\ EntregaAssumida'
  BY <1>6, LigarAssumida, CairAssumida
<1>7. ASSUME UNCHANGED vars PROVE SemVolta' /\ EntregaAssumida'
  <2>1. UNCHANGED <<estado, memoria, tarefa, correio, usados, quedas, falhas>>
    BY <1>7 DEF vars
  <2>2. \A q \in Processos, p \in Pedidos : Dono(q, p) /\ Carrega(q, p) => Carrega(q, p)'
    BY <2>1 DEF Carrega
  <2> QED BY <2>1, <2>2, NadaMuda
<1>8. SemVolta' /\ EntregaAssumida'
  BY <1>2, <1>3, <1>4, <1>5, <1>6, <1>7 DEF Next
<1> QED BY <1>1, <1>8 DEF JInv

\* At first no order is known.
LEMMA InicioAssumido == Init => JInv
<1> SUFFICES ASSUME Init PROVE JInv
  OBVIOUS
<1>1. \A p \in Pedidos : ~Existe(estado, p)
  BY DEF Init, EstadoVazio, Existe
<1> QED BY <1>1, InicioOk
        DEF JInv, SemVolta, EntregaAssumida, Init, CorreioVazio

-----------------------------------------------------------------------------
(* Deliveries follow the routing map *)

\* An update on its way to a driver is about an order that has one, and is the newest.
AvisoOk(d, p) ==
    correio[d].atualizado[p] # Nenhum =>
        /\ p \in usados
        /\ Existe(estado, p) => /\ ComEntregador(estado, p)
                                /\ correio[d].atualizado[p] = estado.mapa[p]

\* Sending the positions of the order to tracker r is right, or an event says otherwise.
Segue(d, p, r) ==
    /\ Existe(estado, p) \/ p \in correio[d].confirmada
    /\ Existe(estado, p) /\ correio[d].atualizado[p] = Nenhum => r = estado.mapa[p]

\* The consumer has the answer about the order in hand.
NoConsumidor(d, p) == /\ tarefa[d]["consumidor"].fase = "aceito"
                      /\ tarefa[d]["consumidor"].pedido = p

\* What the consumer started, or is about to start, is right.
RotaOk(d, p) ==
    p \notin iniciais[d] =>
        /\ memoria[d].gps[p] = "ativo" => Segue(d, p, memoria[d].rastreador[p])
        /\ NoConsumidor(d, p) => Segue(d, p, tarefa[d]["consumidor"].rastreador)

\* A driver that does not run carries nothing, and the start-up thread has only
\* answers about orders it has asked for.
Parados == \A d \in Processos \ ligados, p \in Pedidos : memoria[d].gps[p] = "nunca"
Iniciada == \A d \in Processos : tarefa[d]["inicial"].fase = "aceito" =>
                                     tarefa[d]["inicial"].pedido \in iniciais[d]

KInv == /\ IInv /\ Parados /\ Iniciada
        /\ \A d \in Processos, p \in Pedidos : AvisoOk(d, p) /\ RotaOk(d, p)

\* Where the threads stand after one of them has gone on
LEMMA IrEfeito ==
    ASSUME TypeOK, NEW d \in Processos, NEW t \in Threads, NEW onde, Ir(d, t, onde)
    PROVE  \A q \in Processos, u \in Threads :
               tarefa'[q][u] = IF q = d /\ u = t THEN onde ELSE tarefa[q][u]
BY DEF Ir, TypeOK

\* The events on their way after one is published or taken
LEMMA CorreioDe ==
    ASSUME TypeOK, NEW p \in Pedidos, NEW q \in Processos
    PROVE  /\ Publicar("disponivel", p) =>
                  /\ correio'[q].atualizado = correio[q].atualizado
                  /\ correio'[q].confirmada = correio[q].confirmada
           /\ Publicar("confirmada", p) =>
                  /\ correio'[q].atualizado = correio[q].atualizado
                  /\ correio[q].confirmada \subseteq correio'[q].confirmada
                  /\ q \in ligados => p \in correio'[q].confirmada
           /\ \A d \in Processos : Receber(d, "disponivel", p) =>
                  /\ correio'[q].atualizado = correio[q].atualizado
                  /\ correio'[q].confirmada = correio[q].confirmada
           /\ \A d \in Processos : Receber(d, "confirmada", p) =>
                  /\ correio'[q].atualizado = correio[q].atualizado
                  /\ correio[q].confirmada \ {p} \subseteq correio'[q].confirmada
                  /\ q # d => correio'[q] = correio[q]
<1>1. correio[q] \in Correio /\ correio \in [Processos -> Correio]
  BY DEF TypeOK
<1>2. Publicar("disponivel", p) => /\ correio'[q].atualizado = correio[q].atualizado
                                   /\ correio'[q].confirmada = correio[q].confirmada
  BY <1>1 DEF Publicar, Correio
<1>3. Publicar("confirmada", p) =>
          /\ correio'[q].atualizado = correio[q].atualizado
          /\ correio[q].confirmada \subseteq correio'[q].confirmada
          /\ q \in ligados => p \in correio'[q].confirmada
  BY <1>1 DEF Publicar, Correio
<1>4. ASSUME NEW d \in Processos, Receber(d, "disponivel", p)
      PROVE  /\ correio'[q].atualizado = correio[q].atualizado
             /\ correio'[q].confirmada = correio[q].confirmada
  BY <1>1, <1>4 DEF Receber, Correio
<1>5. ASSUME NEW d \in Processos, Receber(d, "confirmada", p)
      PROVE  /\ correio'[q].atualizado = correio[q].atualizado
             /\ correio[q].confirmada \ {p} \subseteq correio'[q].confirmada
             /\ q # d => correio'[q] = correio[q]
  BY <1>1, <1>5 DEF Receber, Correio
<1> QED BY <1>2, <1>3, <1>4, <1>5

\* An order nobody touches: its updates are as before.
LEMMA AvisoMantido ==
    ASSUME NEW q \in Processos, NEW s \in Pedidos, AvisoOk(q, s), usados \subseteq usados',
           correio'[q].atualizado[s] \in {correio[q].atualizado[s], Nenhum},
           Existe(estado, s)' => /\ Existe(estado, s) /\ estado'.mapa[s] = estado.mapa[s]
                                 /\ ComEntregador(estado, s) => ComEntregador(estado, s)'
    PROVE  AvisoOk(q, s)'
BY DEF AvisoOk

\* An order no thread of the driver takes on: where it goes is as right as before.
LEMMA RotaMantida ==
    ASSUME NEW q \in Processos, NEW s \in Pedidos, RotaOk(q, s),
           s \in iniciais[q] => s \in iniciais'[q],
           memoria'[q].gps[s] = "ativo" =>
               /\ memoria[q].gps[s] = "ativo"
               /\ memoria'[q].rastreador[s] = memoria[q].rastreador[s],
           NoConsumidor(q, s)' => tarefa'[q]["consumidor"] = tarefa[q]["consumidor"],
           Existe(estado, s) => Existe(estado, s)' /\ estado'.mapa[s] = estado.mapa[s],
           ~Existe(estado, s) => ~Existe(estado, s)',
           correio'[q].atualizado[s] = correio[q].atualizado[s],
           s \in correio[q].confirmada => s \in correio'[q].confirmada
    PROVE  RotaOk(q, s)'
<1>1. \A r : Segue(q, s, r) => Segue(q, s, r)'
  BY DEF Segue
<1>2. NoConsumidor(q, s)' => NoConsumidor(q, s)
  BY DEF NoConsumidor
<1> QED BY <1>1, <1>2 DEF RotaOk

\* An order the driver does not carry goes nowhere.
LEMMA RotaDeNinguem ==
    ASSUME NEW q \in Processos, NEW s \in Pedidos, ~Carrega(q, s)'
    PROVE  RotaOk(q, s)'
<1>1. "consumidor" \in Threads
  BY DEF Threads
<1> QED BY <1>1 DEF RotaOk, Carrega, NoConsumidor

\* The ADM gives a waiting order, which nobody carries and no update is about, a driver.
LEMMA AceitarRota ==
    ASSUME KInv, NEW p \in estado.semEntregador, NEW d \in Entregadores,
           estado' = Aceitar(estado, p, d, ativos), usados' = usados, correio' = correio,
           NEW q \in Processos, NEW s \in Pedidos
    PROVE  /\ AvisoOk(q, s)'
           /\ s = p => Existe(estado, s)' /\ ~Carrega(q, s)
           /\ s # p => /\ Existe(estado, s)' <=> Existe(estado, s)
                       /\ estado'.mapa[s] = estado.mapa[s]
<1>1. /\ estado \in Estado /\ ativos \in SUBSET Rastreadores /\ ativos # {}
      /\ p \in Pedidos /\ Existe(estado, p) /\ estado.pedidos[p].entregador = Nenhum
      /\ ~Carrega(q, p) /\ AvisoOk(q, s)
  BY NaFilaNinguemCarrega DEF KInv, IInv, TypeOK, Donos, FilaSemDono
<1>2. CASE s = p
  <2>1. Existe(Aceitar(estado, p, d, ativos), p)
    BY <1>1, AceitarEfeito
  <2>2. correio[q].atualizado[p] = Nenhum
    BY <1>1, <1>2 DEF AvisoOk, ComEntregador
  <2> QED BY <1>1, <1>2, <2>1, <2>2 DEF AvisoOk, Existe
<1>3. CASE s # p
  <2>1. estado'.pedidos[s] = estado.pedidos[s] /\ estado'.mapa[s] = estado.mapa[s]
    BY <1>1, <1>3, AceitarEfeito
  <2> QED BY <1>1, <1>3, <2>1 DEF AvisoOk, Existe, ComEntregador
<1> QED BY <1>2, <1>3

\* What the ADM does to its orders, seen by a driver that carries one of them
LEMMA ADMRota ==
    ASSUME KInv, NEW p \in Pedidos, NEW q \in Processos, NEW s \in Pedidos,
           \/ CriarPedido(p) \/ ConfirmarEntrega(p) \/ \E d \in Outros : AceitarOutro(p, d)
    PROVE  AvisoOk(q, s)' /\ RotaOk(q, s)'
<1>1. /\ TypeOK /\ estado \in Estado /\ AvisoOk(q, s) /\ RotaOk(q, s) /\ Donos
      /\ ativos \in SUBSET Rastreadores /\ ativos # {}
  BY DEF KInv, IInv, TypeOK
<1>2. /\ UNCHANGED <<memoria, tarefa, iniciais>>
      /\ usados \subseteq usados'
      /\ Carrega(q, s)' <=> Carrega(q, s)
  BY DEF CriarPedido, ConfirmarEntrega, AceitarOutro, Carrega
<1>3. CASE CriarPedido(p)
  <2>1. /\ p \notin usados /\ estado' = Criar(estado, p)
        /\ correio'[q].atualizado = correio[q].atualizado
        /\ correio'[q].confirmada = correio[q].confirmada
    BY <1>1, <1>3, CorreioDe DEF CriarPedido
  <2>2. CASE s = p
    <3>1. ~Carrega(q, p) /\ correio[q].atualizado[p] = Nenhum
      BY <1>1, <2>1, <2>2 DEF Donos, SoCriados, AvisoOk
    <3> QED BY <1>2, <2>1, <2>2, <3>1, RotaDeNinguem DEF AvisoOk
  <2>3. CASE s # p
    <3>1. /\ estado'.pedidos[s] = estado.pedidos[s] /\ estado'.mapa[s] = estado.mapa[s]
      BY <1>1, <2>1, <2>3, CriarEfeito
    <3> QED BY <1>1, <1>2, <2>1, <3>1, AvisoMantido, RotaMantida DEF Existe, ComEntregador
  <2> QED BY <2>2, <2>3
<1>4. CASE ConfirmarEntrega(p)
  <2>1. /\ estado' = Confirmar(estado, p)
        /\ correio'[q].atualizado = correio[q].atualizado
        /\ correio[q].confirmada \subseteq correio'[q].confirmada
        /\ q \in ligados => p \in correio'[q].confirmada
    BY <1>1, <1>4, CorreioDe DEF ConfirmarEntrega
  <2>2. CASE s = p
    <3>1. ~Existe(estado, p)'
      <4>1. ~Existe(Confirmar(estado, p), p)
        BY <1>1, ConfirmarEfeito
      <4> QED BY <2>1, <4>1 DEF Existe
    <3>2. q \notin ligados => ~Carrega(q, p)
      BY <1>1 DEF KInv, Parados, TypeOK, Carrega, Livre
    <3>3. q \in ligados => \A r : Segue(q, p, r)'
      BY <2>1, <3>1 DEF Segue
    <3>4. RotaOk(q, p)'
      BY <1>2, <2>2, <3>2, <3>3, RotaDeNinguem DEF RotaOk
    <3> QED BY <1>1, <1>2, <2>1, <2>2, <3>1, <3>4 DEF AvisoOk
  <2>3. CASE s # p
    <3>1. estado'.pedidos[s] = estado.pedidos[s] /\ estado'.mapa[s] = estado.mapa[s]
      BY <1>1, <2>1, <2>3, ConfirmarEfeito
    <3> QED BY <1>1, <1>2, <2>1, <3>1, AvisoMantido, RotaMantida DEF Existe, ComEntregador
  <2> QED BY <2>2, <2>3
<1>5. ASSUME NEW d \in Outros, AceitarOutro(p, d) PROVE AvisoOk(q, s)' /\ RotaOk(q, s)'
  <2>1. /\ p \in estado.semEntregador /\ estado' = Aceitar(estado, p, d, ativos)
        /\ correio' = correio
    BY <1>5 DEF AceitarOutro
  <2>2. /\ AvisoOk(q, s)'
        /\ s = p => ~Carrega(q, s)
        /\ s # p => /\ Existe(estado, s)' <=> Existe(estado, s)
                    /\ estado'.mapa[s] = estado.mapa[s]
    BY <1>5, <2>1, EntregadorAssumption, AceitarRota DEF AceitarOutro
  <2>3. CASE s = p
    BY <1>2, <2>2, <2>3, RotaDeNinguem
  <2>4. CASE s # p
    BY <1>1, <1>2, <2>1, <2>2, <2>4, RotaMantida
  <2> QED BY <2>2, <2>3, <2>4
<1> QED BY <1>3, <1>4, <1>5

\* An order moved is told to its driver, whoever else moves.
LEMMA MudarRota ==
    ASSUME KInv, NEW novos \in SUBSET Rastreadores, MudarRastreadores(novos),
           NEW q \in Processos, NEW s \in Pedidos
    PROVE  AvisoOk(q, s)' /\ RotaOk(q, s)'
<1> DEFINE ps == {p \in Mapeados(estado) : EscolherServidor(p, novos) # estado.mapa[p]}
<1>1. /\ novos # {} /\ estado' = Mover(estado, ps, novos)
      /\ Avisar({p \in ps : ComEntregador(estado, p)}, estado')
      /\ UNCHANGED <<ligados, memoria, tarefa, usados, iniciais>>
  BY DEF MudarRastreadores, processo
<1>2. ps \in SUBSET Pedidos
  BY DEF Mapeados
<1> HIDE DEF ps
<1>3. /\ TypeOK /\ estado \in Estado /\ correio[q] \in Correio
      /\ AvisoOk(q, s) /\ RotaOk(q, s) /\ Donos
  BY DEF KInv, IInv, TypeOK
<1>4. Movido(estado, estado', s, ps, novos)
  BY <1>1, <1>2, <1>3, MoverTodos
<1>5. /\ estado'.mapa[s] = IF s \in ps THEN EscolherServidor(s, novos) ELSE estado.mapa[s]
      /\ Existe(estado, s)' <=> Existe(estado, s)
      /\ ComEntregador(estado, s)' <=> ComEntregador(estado, s)
  BY <1>4 DEF Movido, Existe, ComEntregador
<1>6. s \in ps => estado'.mapa[s] # Nenhum
  BY <1>1, <1>5, EscolheAtivo, EstadoAssumption
<1>7. /\ correio'[q].confirmada = correio[q].confirmada
      /\ correio'[q].atualizado[s] =
             IF q \in ligados /\ s \in ps /\ ComEntregador(estado, s)
             THEN estado'.mapa[s] ELSE correio[q].atualizado[s]
  BY <1>1, <1>3 DEF Avisar, Correio
<1>8. Existe(estado, s) => s \in usados
  BY <1>3 DEF Donos, SoCriados
<1>9. q \notin ligados => correio[q].atualizado[s] = Nenhum
  BY <1>3 DEF TypeOK, CorreioVazio
<1>10. AvisoOk(q, s)'
  BY <1>1, <1>3, <1>5, <1>7, <1>8, <1>9 DEF AvisoOk, ComEntregador
<1>11. CASE ~Carrega(q, s)
  <2>1. ~Carrega(q, s)'
    BY <1>1, <1>11 DEF Carrega
  <2> QED BY <1>10, <2>1, RotaDeNinguem
<1>12. CASE Carrega(q, s)
  <2>1. q \in ligados
    BY <1>3, <1>12 DEF KInv, Parados, TypeOK, Carrega, Livre
  <2>2. Existe(estado, s) => ComEntregador(estado, s)
    BY <1>3, <1>12, EstadoAssumption
    DEF Donos, EntregaDoDono, Carrega, ComEntregador, Processos
  <2>3. /\ Existe(estado, s)' => Existe(estado, s)
        /\ Existe(estado, s) => Existe(estado, s)'
        /\ Existe(estado, s) /\ correio'[q].atualizado[s] = Nenhum =>
               correio[q].atualizado[s] = Nenhum /\ estado'.mapa[s] = estado.mapa[s]
    BY <1>5, <1>6, <1>7, <2>1, <2>2
  <2>4. \A r : Segue(q, s, r) => Segue(q, s, r)'
    BY <1>7, <2>3 DEF Segue
  <2>5. RotaOk(q, s)'
    BY <1>1, <1>3, <2>4 DEF RotaOk, NoConsumidor
  <2> QED BY <1>10, <2>5
<1> QED BY <1>11, <1>12

\* A thread goes on without an answer, or consumes an offer.
LEMMA AndarRota ==
    ASSUME KInv, NEW d \in Processos, NEW t \in Threads, NEW onde, onde.fase # "aceito",
           Ir(d, t, onde), UNCHANGED <<estado, usados, memoria>>,
           NEW q \in Processos, NEW s \in Pedidos, s \in iniciais[q] => s \in iniciais'[q],
           correio'[q].atualizado = correio[q].atualizado,
           correio'[q].confirmada = correio[q].confirmada
    PROVE  AvisoOk(q, s)' /\ RotaOk(q, s)'
<1>1. AvisoOk(q, s) /\ RotaOk(q, s) /\ TypeOK /\ "consumidor" \in Threads
  BY DEF KInv, IInv, Threads
<1>2. tarefa'[q]["consumidor"] = IF q = d /\ t = "consumidor" THEN onde
                                                             ELSE tarefa[q]["consumidor"]
  BY <1>1, IrEfeito
<1>3. NoConsumidor(q, s)' => tarefa'[q]["consumidor"] = tarefa[q]["consumidor"]
  BY <1>2 DEF NoConsumidor
<1> QED BY <1>1, <1>3, AvisoMantido, RotaMantida DEF Existe, ComEntregador

\* A thread looks at the queue of the ADM, or passes an order over or picks one.
LEMMA EscolherRota ==
    ASSUME KInv, NEW d \in Processos, NEW t \in Threads,
           Consultar(d, t) \/ ConsultarSemLider(d, t) \/ Tentar(d, t),
           NEW q \in Processos, NEW s \in Pedidos
    PROVE  AvisoOk(q, s)' /\ RotaOk(q, s)'
<1>1. UNCHANGED <<estado, usados, memoria, correio, iniciais>>
  BY DEF Consultar, ConsultarSemLider, Tentar, adm
<1>2. PICK onde : Ir(d, t, onde) /\ onde.fase # "aceito"
  <2>1. /\ \A ps : Seguir(ps).fase # "aceito" /\ \A p : Pedindo(p, ps).fase # "aceito"
    BY DEF Seguir, Livre, Tentando, Pedindo
  <2>2. CASE Consultar(d, t) \/ ConsultarSemLider(d, t)
    BY <2>1, <2>2 DEF Consultar, ConsultarSemLider
  <2>3. CASE Tentar(d, t)
    BY <2>1, <2>3 DEF Tentar
  <2> QED BY <2>2, <2>3
<1> QED BY <1>1, <1>2, AndarRota

\* An offer is consumed.
LEMMA OfertaRota ==
    ASSUME KInv, NEW d \in Processos, NEW p \in Pedidos, PedidoDisponivel(d, p),
           NEW q \in Processos, NEW s \in Pedidos
    PROVE  AvisoOk(q, s)' /\ RotaOk(q, s)'
<1>1. /\ Receber(d, "disponivel", p) /\ Ir(d, "consumidor", Tentando({p}))
      /\ UNCHANGED <<estado, usados, memoria, iniciais>>
      /\ "consumidor" \in Threads /\ TypeOK
  BY DEF PedidoDisponivel, adm, Threads, KInv, IInv
<1>2. Tentando({p}).fase # "aceito"
  BY DEF Tentando
<1>3. /\ correio'[q].atualizado = correio[q].atualizado
      /\ correio'[q].confirmada = correio[q].confirmada
  BY <1>1, CorreioDe
<1> QED BY <1>1, <1>2, <1>3, AndarRota

\* The ADM assigns an order, and the driver that asked for it learns so or not.
LEMMA AtribuidoRota ==
    ASSUME KInv, NEW d \in Processos, NEW t \in Threads, NEW p \in estado.semEntregador,
           estado' = Aceitar(estado, p, d, ativos), NEW onde, Ir(d, t, onde),
           onde.fase = "aceito" => onde.pedido = p /\ onde.rastreador = estado'.mapa[p],
           UNCHANGED <<usados, memoria, correio>>,
           NEW q \in Processos, NEW s \in Pedidos, s \in iniciais[q] => s \in iniciais'[q]
    PROVE  AvisoOk(q, s)' /\ RotaOk(q, s)'
<1>1. /\ AvisoOk(q, s) /\ RotaOk(q, s) /\ TypeOK /\ "consumidor" \in Threads
      /\ d \in Entregadores
  BY DEF KInv, IInv, Threads, Processos
<1>2. /\ AvisoOk(q, s)'
      /\ s = p => Existe(estado, s)' /\ ~Carrega(q, s)
      /\ s # p => /\ Existe(estado, s)' <=> Existe(estado, s)
                  /\ estado'.mapa[s] = estado.mapa[s]
  BY <1>1, AceitarRota
<1>3. tarefa'[q]["consumidor"] = IF q = d /\ t = "consumidor" THEN onde
                                                             ELSE tarefa[q]["consumidor"]
  BY <1>1, IrEfeito
<1>4. CASE s # p
  <2>1. NoConsumidor(q, s)' => tarefa'[q]["consumidor"] = tarefa[q]["consumidor"]
    BY <1>3, <1>4 DEF NoConsumidor
  <2> QED BY <1>1, <1>2, <1>4, <2>1, RotaMantida
<1>5. CASE s = p
  <2>1. memoria'[q].gps[s] # "ativo"
    BY <1>2, <1>5 DEF Carrega
  <2>2. NoConsumidor(q, s)' => tarefa'[q]["consumidor"].rastreador = estado'.mapa[p]
    BY <1>1, <1>2, <1>3, <1>5 DEF NoConsumidor, Carrega
  <2> QED BY <1>2, <1>5, <2>1, <2>2 DEF RotaOk, Segue
<1> QED BY <1>2, <1>4, <1>5

\* A request answered, refused or failed
LEMMA PedirRota ==
    ASSUME KInv, NEW d \in Processos, NEW t \in Threads, Pedir(d, t) \/ PedirComFalha(d, t),
           NEW q \in Processos, NEW s \in Pedidos
    PROVE  AvisoOk(q, s)' /\ RotaOk(q, s)'
<1> DEFINE p == tarefa[d][t].pedido
           resto == tarefa[d][t].restam
<1>1. /\ Esta(d, t, "pedindo") /\ Perguntou(d, t, p)
      /\ UNCHANGED <<ativos, usados, memoria, correio>>
  BY DEF Pedir, PedirComFalha
<1>2. /\ p \in Pedidos /\ resto \in SUBSET Pedidos
      /\ TypeOK /\ AvisoOk(q, s) /\ RotaOk(q, s) /\ "consumidor" \in Threads
  BY <1>1, PedindoTipo DEF KInv, IInv, Threads
<1>3. s \in iniciais[q] => s \in iniciais'[q]
  BY <1>1, <1>2 DEF Perguntou, TypeOK
<1>4. \/ /\ p \in estado.semEntregador /\ estado' = Aceitar(estado, p, d, ativos)
         /\ Ir(d, t, Aceito(p, estado'.mapa[p])) \/ Ir(d, t, Seguir(resto))
      \/ estado' = estado /\ Ir(d, t, Seguir(resto))
      \/ estado' = estado /\ JaTem(d, p) /\ Ir(d, t, Aceito(p, estado.mapa[p]))
  BY DEF Pedir, PedirComFalha
<1> HIDE DEF p, resto
<1>5. Seguir(resto).fase # "aceito"
  BY <1>2, LugaresTipo
<1>6. \A r : Aceito(p, r).fase = "aceito" /\ Aceito(p, r).pedido = p /\ Aceito(p, r).rastreador = r
  BY DEF Aceito
<1>7. CASE p \in estado.semEntregador /\ estado' = Aceitar(estado, p, d, ativos)
           /\ (Ir(d, t, Aceito(p, estado'.mapa[p])) \/ Ir(d, t, Seguir(resto)))
  BY <1>1, <1>3, <1>5, <1>6, <1>7, AtribuidoRota
<1>8. CASE estado' = estado /\ Ir(d, t, Seguir(resto))
  BY <1>1, <1>3, <1>5, <1>8, AndarRota
<1>9. CASE estado' = estado /\ JaTem(d, p) /\ Ir(d, t, Aceito(p, estado.mapa[p]))
  <2>1. AvisoOk(q, s)'
    BY <1>1, <1>2, <1>9, AvisoMantido DEF Existe, ComEntregador
  <2>2. tarefa'[q]["consumidor"] = IF q = d /\ t = "consumidor"
                                   THEN Aceito(p, estado.mapa[p]) ELSE tarefa[q]["consumidor"]
    BY <1>2, <1>9, IrEfeito
  <2>3. NoConsumidor(q, s)' => \/ NoConsumidor(q, s) /\ tarefa'[q]["consumidor"] = tarefa[q]["consumidor"]
                               \/ /\ s = p /\ Existe(estado, s)
                                  /\ tarefa'[q]["consumidor"].rastreador = estado.mapa[s]
    BY <1>6, <1>9, <2>2 DEF NoConsumidor, JaTem
  <2>4. \A r : Segue(q, s, r)' <=> Segue(q, s, r)
    BY <1>1, <1>9 DEF Segue, Existe
  <2>5. Existe(estado, s) => Segue(q, s, estado.mapa[s])
    BY DEF Segue
  <2> QED BY <1>1, <1>2, <1>3, <2>1, <2>3, <2>4, <2>5 DEF RotaOk
<1> QED BY <1>4, <1>7, <1>8, <1>9

\* A delivery starts with the tracker of the answer, or the one of the map.
LEMMA IniciarRota ==
    ASSUME KInv, NEW d \in Processos, NEW t \in Threads, IniciarEntrega(d, t),
           NEW q \in Processos, NEW s \in Pedidos
    PROVE  AvisoOk(q, s)' /\ RotaOk(q, s)'
<1> DEFINE p == tarefa[d][t].pedido
<1>1. /\ TypeOK /\ AvisoOk(q, s) /\ RotaOk(q, s) /\ "consumidor" \in Threads
      /\ tarefa[d][t].fase = "aceito" /\ Ir(d, t, Livre)
      /\ UNCHANGED <<estado, usados, correio, iniciais>>
  BY DEF KInv, IInv, Threads, IniciarEntrega, Esta, adm
<1>2. PICK r \in RastreadorNaResposta(p, tarefa[d][t].rastreador) :
          memoria' = [memoria EXCEPT ![d] = IniciarGPS(memoria[d], p, r)]
  BY DEF IniciarEntrega
<1>3. AvisoOk(q, s)'
  BY <1>1, AvisoMantido DEF Existe, ComEntregador
<1>4. p \in Pedidos /\ memoria[q] \in Memoria
  BY <1>1, TarefaCampos DEF TypeOK
<1>5. NoConsumidor(q, s)' => tarefa'[q]["consumidor"] = tarefa[q]["consumidor"]
  <2>1. tarefa'[q]["consumidor"] = IF q = d /\ t = "consumidor" THEN Livre
                                                                ELSE tarefa[q]["consumidor"]
    BY <1>1, IrEfeito
  <2> QED BY <2>1 DEF NoConsumidor, Livre
<1>6. ASSUME NEW x, p = x
      PROVE  /\ memoria'[q].gps[s] = IF q = d /\ s = x THEN "ativo" ELSE memoria[q].gps[s]
             /\ memoria'[q].rastreador[s] = IF q = d /\ s = x THEN r ELSE memoria[q].rastreador[s]
  <2>1. memoria'[q] = IF q = d THEN IniciarGPS(memoria[q], x, r) ELSE memoria[q]
    BY <1>1, <1>2, <1>6 DEF TypeOK
  <2>2. /\ IniciarGPS(memoria[q], x, r).gps[s] = IF s = x THEN "ativo" ELSE memoria[q].gps[s]
        /\ IniciarGPS(memoria[q], x, r).rastreador[s] =
               IF s = x THEN r ELSE memoria[q].rastreador[s]
    BY <1>4 DEF IniciarGPS, Memoria
  <2> QED BY <2>1, <2>2
<1>7. CASE ~(q = d /\ s = p)
  <2>1. memoria'[q].gps[s] = memoria[q].gps[s] /\ memoria'[q].rastreador[s] = memoria[q].rastreador[s]
    BY <1>6, <1>7
  <2> QED BY <1>1, <1>3, <1>5, <2>1, RotaMantida
<1>8. CASE q = d /\ s = p /\ s \notin iniciais[d]
  <2>1. t = "consumidor"
    BY <1>1, <1>8 DEF KInv, Iniciada, Threads
  <2>2. Segue(q, s, tarefa[d][t].rastreador)
    BY <1>1, <1>8, <2>1 DEF RotaOk, NoConsumidor
  <2>3. Segue(q, s, r)
    BY <1>2, <1>8, <2>2 DEF Segue, RastreadorNaResposta
  <2>4. \A x : Segue(q, s, x) => Segue(q, s, x)'
    BY <1>1 DEF Segue, Existe
  <2>5. memoria'[q].rastreador[s] = r
    BY <1>6, <1>8
  <2>6. NoConsumidor(q, s)' => NoConsumidor(q, s)
    BY <1>5 DEF NoConsumidor
  <2> QED BY <1>1, <1>3, <1>5, <2>3, <2>4, <2>5, <2>6 DEF RotaOk
<1>9. CASE s \in iniciais[q]
  BY <1>1, <1>3, <1>9 DEF RotaOk
<1> QED BY <1>7, <1>8, <1>9

\* The confirmation that is consumed stops its delivery.
LEMMA ConfirmadaRota ==
    ASSUME KInv, NEW d \in Processos, NEW p \in Pedidos, EntregaConfirmada(d, p),
           NEW q \in Processos, NEW s \in Pedidos
    PROVE  AvisoOk(q, s)' /\ RotaOk(q, s)'
<1>1. /\ TypeOK /\ AvisoOk(q, s) /\ RotaOk(q, s) /\ "consumidor" \in Threads
      /\ tarefa[d]["consumidor"].fase = "livre" /\ Receber(d, "confirmada", p)
      /\ memoria[q] \in Memoria
      /\ UNCHANGED <<estado, usados, iniciais>>
  BY DEF KInv, IInv, Threads, EntregaConfirmada, Receber, Esta, TypeOK, adm
<1>2. /\ correio'[q].atualizado = correio[q].atualizado
      /\ s \in correio[q].confirmada => s \in correio'[q].confirmada \/ (q = d /\ s = p)
  BY <1>1, CorreioDe
<1>3. AvisoOk(q, s)'
  BY <1>1, <1>2, AvisoMantido DEF Existe, ComEntregador
<1>4. \/ memoria[d].gps[p] = "nunca" /\ UNCHANGED <<memoria, tarefa>>
      \/ /\ memoria' = [memoria EXCEPT ![d] = Parar(memoria[d], p)]
         /\ Ir(d, "consumidor", AposEntrega(memoria'[d]))
  BY DEF EntregaConfirmada
<1>5. NoConsumidor(q, s)' =>
          tarefa'[q]["consumidor"] = tarefa[q]["consumidor"] /\ ~(q = d /\ s = p)
  <2>1. AposEntrega(memoria'[d]).fase # "aceito"
    BY LugaresTipo DEF AposEntrega
  <2>2. Ir(d, "consumidor", AposEntrega(memoria'[d])) =>
            tarefa'[q]["consumidor"] = IF q = d THEN AposEntrega(memoria'[d])
                                                ELSE tarefa[q]["consumidor"]
    BY <1>1, IrEfeito
  <2> QED BY <1>1, <1>4, <2>1, <2>2 DEF NoConsumidor
<1>6. IF q = d /\ s = p
      THEN memoria'[q].gps[s] # "ativo"
      ELSE /\ memoria'[q].gps[s] = memoria[q].gps[s]
           /\ memoria'[q].rastreador[s] = memoria[q].rastreador[s]
  <2>1. CASE memoria[d].gps[p] = "nunca" /\ UNCHANGED <<memoria, tarefa>>
    BY <2>1
  <2>2. CASE memoria' = [memoria EXCEPT ![d] = Parar(memoria[d], p)]
    <3>1. memoria'[q] = IF q = d THEN Parar(memoria[q], p) ELSE memoria[q]
      BY <1>1, <2>2 DEF TypeOK
    <3>2. /\ Parar(memoria[q], p).gps = [memoria[q].gps EXCEPT ![p] = "parado"]
          /\ Parar(memoria[q], p).rastreador = [memoria[q].rastreador EXCEPT ![p] = Nenhum]
      BY <1>1 DEF Parar, Memoria
    <3>3. /\ Parar(memoria[q], p).gps[s] = IF s = p THEN "parado" ELSE memoria[q].gps[s]
          /\ s # p => Parar(memoria[q], p).rastreador[s] = memoria[q].rastreador[s]
      BY <1>1, <3>2 DEF Memoria
    <3> QED BY <3>1, <3>3
  <2> QED BY <1>4, <2>1, <2>2
<1>7. CASE q = d /\ s = p
  BY <1>3, <1>5, <1>6, <1>7 DEF RotaOk
<1>8. CASE ~(q = d /\ s = p)
  <2>1. RotaOk(q, s)'
    BY <1>1, <1>2, <1>5, <1>6, <1>8, RotaMantida DEF Existe
  <2> QED BY <1>3, <2>1
<1> QED BY <1>7, <1>8

\* The update that is consumed is the newest.
LEMMA AtualizadoRota ==
    ASSUME KInv, NEW d \in Processos, NEW p \in Pedidos, RastreadorAtualizado(d, p),
           NEW q \in Processos, NEW s \in Pedidos
    PROVE  AvisoOk(q, s)' /\ RotaOk(q, s)'
<1> DEFINE r == correio[d].atualizado[p]
<1>1. /\ TypeOK /\ AvisoOk(q, s) /\ RotaOk(q, s) /\ memoria[q] \in Memoria
      /\ tarefa[d]["consumidor"].fase = "livre" /\ r # Nenhum
      /\ correio' = [correio EXCEPT ![d].atualizado[p] = Nenhum]
      /\ memoria' = [memoria EXCEPT ![d] = Atualizar(memoria[d], p, r)]
      /\ UNCHANGED <<estado, usados, iniciais, tarefa>>
  BY DEF KInv, IInv, RastreadorAtualizado, Esta, TypeOK, adm
<1>2. /\ correio'[q].confirmada = correio[q].confirmada
      /\ correio'[q].atualizado[s] = IF q = d /\ s = p THEN Nenhum ELSE correio[q].atualizado[s]
  BY <1>1 DEF TypeOK, Correio
<1>3. AvisoOk(q, s)'
  BY <1>1, <1>2, AvisoMantido DEF Existe, ComEntregador
<1>4. /\ memoria'[q].gps[s] = memoria[q].gps[s]
      /\ ~(q = d /\ s = p) => memoria'[q].rastreador[s] = memoria[q].rastreador[s]
      /\ q = d /\ s = p /\ memoria[q].gps[s] = "ativo" => memoria'[q].rastreador[s] = r
  <2>1. memoria'[q] = IF q = d THEN Atualizar(memoria[q], p, r) ELSE memoria[q]
    BY <1>1 DEF TypeOK
  <2> HIDE DEF r
  <2>2. /\ Atualizar(memoria[q], p, r).gps = memoria[q].gps
        /\ s # p => Atualizar(memoria[q], p, r).rastreador[s] = memoria[q].rastreador[s]
        /\ memoria[q].gps[p] = "ativo" => Atualizar(memoria[q], p, r).rastreador[p] = r
    <3>1. Atualizar(memoria[q], p, r) =
              IF memoria[q].gps[p] = "ativo"
              THEN [memoria[q] EXCEPT !.rastreador = [memoria[q].rastreador EXCEPT ![p] = r]]
              ELSE memoria[q]
      BY DEF Atualizar
    <3> QED BY <1>1, <3>1 DEF Memoria
  <2> QED BY <2>1, <2>2
<1>5. CASE ~(q = d /\ s = p)
  <2>1. RotaOk(q, s)'
    BY <1>1, <1>2, <1>4, <1>5, RotaMantida DEF Existe
  <2> QED BY <1>3, <2>1
<1>6. CASE q = d /\ s = p
  <2>1. ~NoConsumidor(q, s)'
    BY <1>1, <1>6 DEF NoConsumidor
  <2>2. PICK x : x = r
    OBVIOUS
  <2>3. ASSUME s \notin iniciais[q], memoria[q].gps[s] = "ativo"
        PROVE  memoria'[q].rastreador[s] = x /\ Segue(q, s, x)'
    <3>1. Existe(estado, s) \/ s \in correio[q].confirmada
      BY <1>1, <2>3 DEF RotaOk, Segue
    <3>2. Existe(estado, s) => x = estado.mapa[s]
      BY <1>1, <1>6, <2>2 DEF AvisoOk
    <3>3. Segue(q, s, x)'
      BY <1>1, <1>2, <3>1, <3>2 DEF Segue, Existe
    <3> QED BY <1>4, <1>6, <2>2, <2>3, <3>3
  <2>4. RotaOk(q, s)'
    BY <1>1, <1>4, <2>1, <2>3 DEF RotaOk
  <2> QED BY <1>3, <2>4
<1> QED BY <1>5, <1>6

\* A driver that starts, or crashes, carries nothing; the others go on.
LEMMA LigarCairRota ==
    ASSUME KInv, NEW d \in Processos, Ligar(d) \/ Cair(d), NEW q \in Processos, NEW s \in Pedidos
    PROVE  AvisoOk(q, s)' /\ RotaOk(q, s)'
<1>1. TypeOK /\ AvisoOk(q, s) /\ RotaOk(q, s) /\ "inicial" \in Threads /\ "consumidor" \in Threads
  BY DEF KInv, IInv, Threads
<1>2. CASE Ligar(d)
  <2>1. /\ Ir(d, "inicial", Consultando)
        /\ UNCHANGED <<estado, usados, memoria, correio, iniciais>>
    BY <1>2 DEF Ligar, adm
  <2>2. Consultando.fase # "aceito"
    BY LugaresTipo
  <2> QED BY <1>1, <2>1, <2>2, AndarRota
<1>3. CASE Cair(d)
  <2>1. /\ memoria' = [memoria EXCEPT ![d] = MemoriaVazia]
        /\ tarefa' = [tarefa EXCEPT ![d] = [t \in Threads |-> Livre]]
        /\ correio' = [correio EXCEPT ![d] = CorreioVazio]
        /\ iniciais' = [iniciais EXCEPT ![d] = {}]
        /\ UNCHANGED <<estado, usados>>
    BY <1>3 DEF Cair, adm
  <2>2. CASE q = d
    <3>1. memoria'[q].gps[s] = "nunca" /\ ~NoConsumidor(q, s)' /\ correio'[q].atualizado[s] = Nenhum
      BY <1>1, <2>1, <2>2 DEF TypeOK, MemoriaVazia, NoConsumidor, Livre, CorreioVazio
    <3> QED BY <3>1 DEF AvisoOk, RotaOk
  <2>3. CASE q # d
    <3>1. /\ memoria'[q] = memoria[q] /\ tarefa'[q] = tarefa[q] /\ correio'[q] = correio[q]
          /\ iniciais'[q] = iniciais[q]
      BY <1>1, <2>1, <2>3 DEF TypeOK
    <3> QED BY <1>1, <2>1, <3>1, AvisoMantido, RotaMantida DEF Existe, ComEntregador
  <2> QED BY <2>2, <2>3
<1> QED BY <1>2, <1>3

\* Only a driver that runs carries orders.
LEMMA PassoParados == KInv /\ [Next]_vars => Parados'
<1> SUFFICES ASSUME KInv, [Next]_vars, NEW q \in Processos, q \notin ligados', NEW s \in Pedidos
             PROVE  memoria'[q].gps[s] = "nunca"
  BY DEF Parados
<1>1. memoria \in [Processos -> Memoria] /\ Parados
  BY DEF KInv, IInv, TypeOK
<1>2. CASE memoria' = memoria /\ ligados \subseteq ligados'
  BY <1>1, <1>2 DEF Parados
<1>3. ASSUME NEW d \in ligados, NEW x, memoria' = [memoria EXCEPT ![d] = x], ligados' = ligados
      PROVE  memoria'[q].gps[s] = "nunca"
  BY <1>1, <1>3 DEF Parados
<1>4. ASSUME NEW d \in Processos, NEW t \in Threads, Passo(d, t)
      PROVE  memoria'[q].gps[s] = "nunca"
  <2>1. CASE \/ Consultar(d, t) \/ ConsultarSemLider(d, t) \/ Tentar(d, t)
             \/ Pedir(d, t) \/ PedirComFalha(d, t)
    BY <1>2, <2>1 DEF Consultar, ConsultarSemLider, Tentar, Pedir, PedirComFalha, processo
  <2>2. CASE IniciarEntrega(d, t)
    BY <1>3, <2>2 DEF IniciarEntrega, Esta, processo
  <2> QED BY <1>4, <2>1, <2>2 DEF Passo
<1>5. ASSUME NEW d \in Processos, NEW p \in Pedidos,
             \/ PedidoDisponivel(d, p) \/ EntregaConfirmada(d, p) \/ RastreadorAtualizado(d, p)
      PROVE  memoria'[q].gps[s] = "nunca"
  <2>1. CASE PedidoDisponivel(d, p)
    BY <1>2, <2>1 DEF PedidoDisponivel, processo
  <2>2. CASE EntregaConfirmada(d, p)
    BY <1>2, <1>3, <2>2 DEF EntregaConfirmada, Receber, Esta, processo
  <2>3. CASE RastreadorAtualizado(d, p)
    BY <1>3, <2>3 DEF RastreadorAtualizado, Esta, processo
  <2> QED BY <1>5, <2>1, <2>2, <2>3
<1>6. ASSUME NEW d \in Processos, Ligar(d) PROVE memoria'[q].gps[s] = "nunca"
  BY <1>2, <1>6 DEF Ligar
<1>7. ASSUME NEW d \in Processos, Cair(d) PROVE memoria'[q].gps[s] = "nunca"
  BY <1>1, <1>7 DEF Cair, Parados, MemoriaVazia
<1>8. CASE \/ UNCHANGED vars
           \/ \E p \in Pedidos : \/ CriarPedido(p) \/ ConfirmarEntrega(p)
                                 \/ \E d \in Outros : AceitarOutro(p, d)
           \/ \E novos \in SUBSET Rastreadores : MudarRastreadores(novos)
  BY <1>2, <1>8 DEF vars, processo, CriarPedido, ConfirmarEntrega, AceitarOutro, MudarRastreadores
<1> QED BY <1>4, <1>5, <1>6, <1>7, <1>8 DEF Next, Callback

\* The start-up thread remembers what it asks for.
LEMMA PassoIniciada == KInv /\ [Next]_vars => Iniciada'
<1> SUFFICES ASSUME KInv, [Next]_vars, NEW q \in Processos,
                    tarefa'[q]["inicial"].fase = "aceito"
             PROVE  tarefa'[q]["inicial"].pedido \in iniciais'[q]
  BY DEF Iniciada
<1>1. TypeOK /\ Iniciada /\ "inicial" \in Threads
  BY DEF KInv, IInv, Threads
<1>2. CASE UNCHANGED <<tarefa, iniciais>>
  BY <1>1, <1>2 DEF Iniciada
<1>3. ASSUME NEW d \in Processos, NEW t \in Threads, NEW onde, Ir(d, t, onde),
             onde.fase # "aceito", iniciais[q] \subseteq iniciais'[q]
      PROVE  tarefa'[q]["inicial"].pedido \in iniciais'[q]
  <2>1. tarefa'[q]["inicial"] = IF q = d /\ t = "inicial" THEN onde ELSE tarefa[q]["inicial"]
    BY <1>1, <1>3, IrEfeito
  <2> QED BY <1>1, <1>3, <2>1 DEF Iniciada
<1>4. ASSUME NEW d \in Processos, NEW t \in Threads,
             \/ Consultar(d, t) \/ ConsultarSemLider(d, t) \/ Tentar(d, t)
             \/ IniciarEntrega(d, t)
      PROVE  tarefa'[q]["inicial"].pedido \in iniciais'[q]
  <2>1. PICK onde : Ir(d, t, onde) /\ onde.fase # "aceito"
    <3>1. /\ \A ps : Seguir(ps).fase # "aceito" /\ \A p : Pedindo(p, ps).fase # "aceito"
          /\ Livre.fase # "aceito"
      BY DEF Seguir, Livre, Tentando, Pedindo
    <3>2. CASE Consultar(d, t) \/ ConsultarSemLider(d, t)
      BY <3>1, <3>2 DEF Consultar, ConsultarSemLider
    <3>3. CASE Tentar(d, t)
      BY <3>1, <3>3 DEF Tentar
    <3>4. CASE IniciarEntrega(d, t)
      BY <3>1, <3>4 DEF IniciarEntrega
    <3> QED BY <1>4, <3>2, <3>3, <3>4
  <2>2. iniciais' = iniciais
    BY <1>4 DEF Consultar, ConsultarSemLider, Tentar, IniciarEntrega
  <2> QED BY <1>3, <2>1, <2>2
<1>5. ASSUME NEW d \in Processos, NEW t \in Threads, Pedir(d, t) \/ PedirComFalha(d, t)
      PROVE  tarefa'[q]["inicial"].pedido \in iniciais'[q]
  <2>1. /\ Esta(d, t, "pedindo") /\ Perguntou(d, t, tarefa[d][t].pedido)
        /\ \E onde : Ir(d, t, onde) /\ (onde.fase = "aceito" => onde.pedido = tarefa[d][t].pedido)
    BY <1>5 DEF Pedir, PedirComFalha, Aceito, Seguir, Livre, Tentando
  <2>2. PICK onde : Ir(d, t, onde) /\ (onde.fase = "aceito" => onde.pedido = tarefa[d][t].pedido)
    BY <2>1
  <2>3. tarefa'[q]["inicial"] = IF q = d /\ t = "inicial" THEN onde ELSE tarefa[q]["inicial"]
    BY <1>1, <2>2, IrEfeito
  <2>4. iniciais[q] \subseteq iniciais'[q] /\ (t = "inicial" => tarefa[d][t].pedido \in iniciais'[d])
    BY <1>1, <2>1 DEF Perguntou, TypeOK
  <2> QED BY <1>1, <2>2, <2>3, <2>4 DEF Iniciada
<1>6. ASSUME NEW d \in Processos, Callback(d)
      PROVE  tarefa'[q]["inicial"].pedido \in iniciais'[q]
  <2>1. UNCHANGED iniciais /\ (tarefa' = tarefa \/ \E onde : Ir(d, "consumidor", onde))
    BY <1>6 DEF Callback, PedidoDisponivel, EntregaConfirmada, RastreadorAtualizado
  <2>2. tarefa'[q]["inicial"] = tarefa[q]["inicial"]
    BY <1>1, <2>1, IrEfeito DEF Threads
  <2> QED BY <1>1, <2>1, <2>2 DEF Iniciada
<1>7. ASSUME NEW d \in Processos, Ligar(d)
      PROVE  tarefa'[q]["inicial"].pedido \in iniciais'[q]
  <2>1. Ir(d, "inicial", Consultando) /\ iniciais' = iniciais
    BY <1>7 DEF Ligar
  <2> QED BY <1>1, <1>3, <2>1, LugaresTipo
<1>8. ASSUME NEW d \in Processos, Cair(d)
      PROVE  tarefa'[q]["inicial"].pedido \in iniciais'[q]
  <2>1. q # d /\ tarefa'[q] = tarefa[q] /\ iniciais'[q] = iniciais[q]
    BY <1>1, <1>8 DEF Cair, TypeOK, Livre
  <2> QED BY <1>1, <2>1 DEF Iniciada
<1> QED BY <1>2, <1>4, <1>5, <1>6, <1>7, <1>8
    DEF Next, vars, CriarPedido, ConfirmarEntrega, AceitarOutro, MudarRastreadores, Passo

\* Every step keeps the invariant.
LEMMA PassoRota == KInv /\ [Next]_vars => KInv'
<1> SUFFICES ASSUME KInv, [Next]_vars PROVE KInv'
  OBVIOUS
<1>1. IInv' /\ Parados' /\ Iniciada'
  BY PassoIndutivo, PassoParados, PassoIniciada DEF KInv
<1> SUFFICES ASSUME NEW q \in Processos, NEW s \in Pedidos PROVE AvisoOk(q, s)' /\ RotaOk(q, s)'
  BY <1>1 DEF KInv
<1>2. ASSUME NEW p \in Pedidos,
             \/ CriarPedido(p) \/ ConfirmarEntrega(p) \/ \E d \in Outros : AceitarOutro(p, d)
      PROVE  AvisoOk(q, s)' /\ RotaOk(q, s)'
  BY <1>2, ADMRota
<1>3. ASSUME NEW novos \in SUBSET Rastreadores, MudarRastreadores(novos)
      PROVE  AvisoOk(q, s)' /\ RotaOk(q, s)'
  BY <1>3, MudarRota
<1>4. ASSUME NEW d \in Processos, NEW t \in Threads, Passo(d, t)
      PROVE  AvisoOk(q, s)' /\ RotaOk(q, s)'
  BY <1>4, EscolherRota, PedirRota, IniciarRota DEF Passo
<1>5. ASSUME NEW d \in Processos, Callback(d) PROVE AvisoOk(q, s)' /\ RotaOk(q, s)'
  BY <1>5, OfertaRota, ConfirmadaRota, AtualizadoRota DEF Callback
<1>6. ASSUME NEW d \in Processos, Ligar(d) \/ Cair(d) PROVE AvisoOk(q, s)' /\ RotaOk(q, s)'
  BY <1>6, LigarCairRota
<1>7. CASE UNCHANGED vars
  <2>1. AvisoOk(q, s) /\ RotaOk(q, s)
    BY DEF KInv
  <2> QED BY <1>7, <2>1, AvisoMantido, RotaMantida DEF vars, Existe, ComEntregador
<1> QED BY <1>2, <1>3, <1>4, <1>5, <1>6, <1>7 DEF Next

\* At first no event is on its way and nobody carries an order.
LEMMA InicioRota == Init => KInv
<1> SUFFICES ASSUME Init PROVE KInv
  OBVIOUS
<1>1. /\ \A d \in Processos : /\ memoria[d] = MemoriaVazia /\ correio[d] = CorreioVazio
                              /\ tarefa[d] = [t \in Threads |-> Livre]
      /\ {"inicial", "consumidor"} \subseteq Threads
  BY DEF Init, Threads
<1>2. Parados /\ Iniciada
  BY <1>1 DEF Parados, Iniciada, MemoriaVazia, Livre
<1>3. \A d \in Processos, p \in Pedidos : AvisoOk(d, p) /\ RotaOk(d, p)
  BY <1>1 DEF AvisoOk, RotaOk, NoConsumidor, MemoriaVazia, CorreioVazio, Livre
<1> QED BY <1>2, <1>3, InicioOk DEF KInv

\* Once its events are consumed, the delivery of a driver that runs follows the map.
LEMMA RotaSegue == KInv => RotaSeguida
<1> SUFFICES ASSUME KInv, NEW d \in ligados, NEW p \in Pedidos \ iniciais[d],
                    memoria[d].gps[p] = "ativo", SemAvisos(d, p)
             PROVE  Existe(estado, p) /\ memoria[d].rastreador[p] = estado.mapa[p]
  BY DEF RotaSeguida
<1>1. d \in Processos
  BY DEF KInv, IInv, TypeOK
<1> QED BY <1>1 DEF KInv, RotaOk, Segue, SemAvisos

-----------------------------------------------------------------------------
(* The theorems *)

\* Every variable keeps its type; a driver that does not run has no queue and its
\* threads stand still.
THEOREM TipoCorreto == Spec => []TypeOK
<1>1. IInv => TypeOK
  BY DEF IInv
<1> QED BY <1>1, InicioOk, PassoIndutivo, PTL DEF Spec

\* Whatever requests fail, drivers crash, trackers change and threads overlap, a
\* driver that publishes the position of an order the ADM knows, or is about to,
\* is the one the ADM assigned: two drivers never carry the same order.
THEOREM EntregaSempreDoDono == Spec => []EntregaDoDono
<1>1. IInv => EntregaDoDono
  BY DEF IInv, Donos
<1> QED BY <1>1, InicioOk, PassoIndutivo, PTL DEF Spec

\* Whatever the two threads of each driver do at once, and whatever trackers
\* change and orders are delivered: as long as no request fails and no driver
\* crashes, an order the ADM has assigned is carried by its driver or about to be.
THEOREM NenhumPedidoOrfao == Spec => []EntregaAssumida
<1>1. JInv => EntregaAssumida
  BY DEF JInv
<1> QED BY <1>1, InicioAssumido, PassoAssumido, PTL DEF Spec

\* Whatever crashes, fails, moves and overlaps: once a driver has consumed every
\* event about a delivery its consumer started, the order is one the ADM knows and
\* its position goes to the tracker of the routing map.
THEOREM RotaSempreSeguida == Spec => []RotaSeguida
BY RotaSegue, InicioRota, PassoRota, PTL DEF Spec
=============================================================================
