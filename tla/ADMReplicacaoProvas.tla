------------------------ MODULE ADMReplicacaoProvas ------------------------
(***************************************************************************)
(* For every number of ADMs, orders, drivers, concurrent handlers, failed  *)
(* calls and crashes: the states the ADMs hold, and those in flight        *)
(* between them, have their type and are coherent (invariant IInv).        *)
(*                                                                         *)
(* While no call between running ADMs has failed (invariant SInv): what    *)
(* was answered and began with nothing else under way (firmes) is kept by  *)
(* every running ADM, whatever handlers, crashes and takeovers follow; no  *)
(* second driver is told that he has the order; and the replicas have the  *)
(* state of the leader after a replication that began alone.               *)
(*                                                                         *)
(* Whatever calls fail (invariant CInv): a creation that was answered and  *)
(* began alone survives the takeovers that are complete.                   *)
(*                                                                         *)
(* Without "began with nothing else under way" they are false: runs        *)
(* replica_concorrente and replica_posse.                                  *)
(***************************************************************************)
EXTENDS ADMReplicacao, EstadoProvas, FiniteSetTheorems

IInv == TypeOK /\ EstadosCoerentes

-----------------------------------------------------------------------------
(* Tasks *)

\* A task in one of the phases that carry a state
LEMMA TarefaCampos ==
    ASSUME NEW x \in Tarefa
    PROVE  /\ x.fase = "replicando" => /\ x.adm \in ADMs /\ x.estado \in Estado
                                       /\ x.op \in Pedida \cup {Posse}
                                       /\ x.pendentes \in SUBSET ADMs
                                       /\ x.confirmadas \in Nat
                                       /\ x.isolada \in BOOLEAN
           /\ x.fase = "coletando" => /\ x.adm \in ADMs /\ x.estado \in Estado
                                      /\ x.proprios \in SUBSET Pedidos
                                      /\ x.pendentes \in SUBSET ADMs
           /\ x.fase = "anunciando" => x.adm \in ADMs /\ x.pendentes \in SUBSET ADMs
BY DEF Tarefa, Livre

\* A new replication task
LEMMA ReplicandoTipo ==
    ASSUME NEW a \in ADMs, NEW e \in Estado, NEW op \in Pedida \cup {Posse},
           NEW so \in BOOLEAN
    PROVE  /\ Replicando(a, e, op, so) \in Tarefa
           /\ Replicando(a, e, op, so).fase = "replicando"
           /\ Replicando(a, e, op, so).estado = e
BY DEF Replicando, Tarefa, ADMs

\* A new merge task
LEMMA ColetandoTipo ==
    ASSUME NEW a \in ADMs, NEW e \in Estado
    PROVE  /\ Coletando(a, e) \in Tarefa
           /\ Coletando(a, e).fase = "coletando"
           /\ Coletando(a, e).estado = e
BY DEF Coletando, Tarefa, ADMs

\* A new announcement task
LEMMA AnunciandoTipo ==
    ASSUME NEW a \in ADMs
    PROVE  Anunciando(a) \in Tarefa /\ Anunciando(a).fase = "anunciando"
<1>1. N \in Nat /\ a \in Nat /\ a <= N
  BY ReplicacaoAssumption DEF ADMs
<1>2. 1..(a - 1) \subseteq ADMs
  BY <1>1 DEF ADMs
<1> QED BY <1>2 DEF Anunciando, Tarefa

\* A call done leaves the task as it was, but for the peers to call.
LEMMA SeguinteTipo ==
    ASSUME NEW t \in Vagas, tarefas[t] \in Tarefa, NEW b,
           tarefas[t].fase \in {"replicando", "coletando", "anunciando"}
    PROVE  /\ Seguinte(t, b) \in Tarefa
           /\ Seguinte(t, b).fase = tarefas[t].fase
           /\ tarefas[t].fase \in {"replicando", "coletando"} =>
                  Seguinte(t, b).estado = tarefas[t].estado
           /\ tarefas[t].fase = "replicando" =>
                  Seguinte(t, b).confirmadas = tarefas[t].confirmadas
<1> DEFINE x == tarefas[t]
<1>1. Seguinte(t, b) = [x EXCEPT !.pendentes = x.pendentes \ {b}]
  BY DEF Seguinte
<1>2. CASE x.fase = "replicando"
  BY <1>1, <1>2 DEF Tarefa, Livre
<1>3. CASE x.fase = "coletando"
  BY <1>1, <1>3 DEF Tarefa, Livre
<1>4. CASE x.fase = "anunciando"
  BY <1>1, <1>4 DEF Tarefa, Livre
<1> QED BY <1>2, <1>3, <1>4

-----------------------------------------------------------------------------
(* The steps *)

\* Initially every state is empty and nothing is under way.
LEMMA InicioOk == Init => IInv
<1> SUFFICES ASSUME Init PROVE IInv
  OBVIOUS
<1>1. TypeOK
  <2>1. N \in ADMs
    BY ReplicacaoAssumption DEF ADMs
  <2>2. Livre \in Tarefa
    BY DEF Tarefa
  <2> QED BY <2>1, <2>2, VazioOk DEF Init, TypeOK
<1>2. EstadosCoerentes
  BY VazioOk DEF Init, EstadosCoerentes, Livre
<1> QED BY <1>1, <1>2 DEF IInv

\* The tasks have their type, and those that carry a state a coherent one.
TarefasOk(ts) ==
    /\ ts \in [Vagas -> Tarefa]
    /\ \A u \in Vagas : ts[u].fase \in {"replicando", "coletando"} => Coerente(ts[u].estado)

\* The rest of the step of an operation, given that the new state of the leader
\* has its type and is coherent.
LEMMA ExecutarOk ==
    ASSUME IInv, NEW a \in ADMs, NEW t \in Vagas, NEW e \in Estado, Coerente(e),
           NEW op \in Pedida, NEW ts, TarefasOk(ts), Executar(a, t, e, op, ts),
           usados' \subseteq Pedidos, encerrados' \subseteq Pedidos
    PROVE  IInv'
<1>1. /\ estado' = [estado EXCEPT ![a] = e]
      /\ tarefas' = [ts EXCEPT ![t] = Replicando(a, e, op, Sozinha(t))]
      /\ isolada' = Sozinha(t) /\ incompleta' = (incompleta \/ ~NoComando(a))
      /\ UNCHANGED <<lider, vivos, respostas, firmes, falhas>>
  BY DEF Executar
<1>0. Sozinha(t) \in BOOLEAN /\ NoComando(a) \in BOOLEAN
  BY DEF Sozinha, NoComando
<1>2. /\ Replicando(a, e, op, Sozinha(t)) \in Tarefa
      /\ Replicando(a, e, op, Sozinha(t)).estado = e
  BY <1>0, ReplicandoTipo
<1>3. TypeOK'
  BY <1>0, <1>1, <1>2 DEF IInv, TypeOK, TarefasOk
<1>4. EstadosCoerentes'
  <2>1. ASSUME NEW b \in ADMs PROVE Coerente(estado'[b])
    <3>1. estado'[b] = IF b = a THEN e ELSE estado[b]
      BY <1>1 DEF IInv, TypeOK
    <3> QED BY <3>1 DEF IInv, EstadosCoerentes
  <2>2. ASSUME NEW u \in Vagas, tarefas'[u].fase \in {"replicando", "coletando"}
        PROVE  Coerente(tarefas'[u].estado)
    <3>1. tarefas'[u] = IF u = t THEN Replicando(a, e, op, Sozinha(t)) ELSE ts[u]
      BY <1>1 DEF TarefasOk
    <3>2. CASE u = t
      <4>1. tarefas'[u].estado = e
        BY <1>2, <3>1, <3>2
      <4> QED BY <4>1
    <3>3. CASE u # t
      <4>1. tarefas'[u] = ts[u]
        BY <3>1, <3>3
      <4> QED BY <2>2, <4>1 DEF TarefasOk
    <3> QED BY <3>2, <3>3
  <2> QED BY <2>1, <2>2 DEF EstadosCoerentes
<1> QED BY <1>3, <1>4 DEF IInv

\* Tasks of the invariant
LEMMA TarefasSaoOk == IInv => TarefasOk(tarefas)
BY DEF IInv, TypeOK, EstadosCoerentes, TarefasOk

\* A merge whose state is changed into a coherent one stays a task of its type.
LEMMA ColetaAlterada ==
    ASSUME NEW x \in Tarefa, x.fase = "coletando", NEW e \in Estado
    PROVE  /\ [x EXCEPT !.estado = e] \in Tarefa
           /\ [x EXCEPT !.estado = e].estado = e
BY DEF Tarefa, Livre

\* Preparing an order that a merge shares keeps the tasks well typed and coherent.
LEMMA ComPreparoOk ==
    ASSUME IInv, NEW a, NEW p \in Pedidos
    PROVE  TarefasOk(ComPreparo(a, p))
<1> DEFINE ts == ComPreparo(a, p)
<1> SUFFICES ASSUME NEW u \in Vagas
             PROVE  /\ ts[u] \in Tarefa
                    /\ ts[u].fase \in {"replicando", "coletando"} => Coerente(ts[u].estado)
  BY DEF ComPreparo, TarefasOk
<1>1. /\ tarefas[u] \in Tarefa
      /\ tarefas[u].fase \in {"replicando", "coletando"} => Coerente(tarefas[u].estado)
  BY DEF IInv, TypeOK, EstadosCoerentes
<1>2. CASE Compartilha(u, a, p)
  <2> DEFINE e == Preparar(tarefas[u].estado, p)
  <2>1. tarefas[u].fase = "coletando" /\ Existe(tarefas[u].estado, p)
    BY <1>2 DEF Compartilha
  <2>2. e \in Estado /\ Coerente(e)
    BY <1>1, <2>1, TarefaCampos, PrepararTipo, PrepararCoerente
  <2>3. ts[u] = [tarefas[u] EXCEPT !.estado = e]
    BY <1>2 DEF ComPreparo
  <2> HIDE DEF e, ts
  <2> QED BY <1>1, <2>1, <2>2, <2>3, ColetaAlterada
<1>3. CASE ~Compartilha(u, a, p)
  BY <1>1, <1>3 DEF ComPreparo
<1> QED BY <1>2, <1>3

\* So does writing a driver in it.
LEMMA ComAtribuicaoOk ==
    ASSUME IInv, NEW a, NEW p \in Pedidos, NEW d \in Entregadores
    PROVE  TarefasOk(ComAtribuicao(a, p, d))
<1> DEFINE ts == ComAtribuicao(a, p, d)
           r == EscolherServidor(p, Rastreadores)
<1>0. r \in Rastreadores
  BY EscolheAtivo, ReplicacaoAssumption
<1> SUFFICES ASSUME NEW u \in Vagas
             PROVE  /\ ts[u] \in Tarefa
                    /\ ts[u].fase \in {"replicando", "coletando"} => Coerente(ts[u].estado)
  BY DEF ComAtribuicao, TarefasOk
<1>1. /\ tarefas[u] \in Tarefa
      /\ tarefas[u].fase \in {"replicando", "coletando"} => Coerente(tarefas[u].estado)
  BY DEF IInv, TypeOK, EstadosCoerentes
<1>2. CASE Compartilha(u, a, p)
  <2> DEFINE e == Atribuir(tarefas[u].estado, p, d, r)
  <2>1. tarefas[u].fase = "coletando" /\ Existe(tarefas[u].estado, p)
    BY <1>2 DEF Compartilha
  <2>2. tarefas[u].estado \in Estado /\ Coerente(tarefas[u].estado)
    BY <1>1, <2>1, TarefaCampos
  <2>3. ts[u] = [tarefas[u] EXCEPT !.estado = e]
    BY <1>2 DEF ComAtribuicao
  <2> HIDE DEF r, ts
  <2>4. e \in Estado /\ Coerente(e)
    BY <1>0, <2>1, <2>2, AtribuirTipo, AtribuirCoerente
  <2> HIDE DEF e
  <2> QED BY <1>1, <2>1, <2>3, <2>4, ColetaAlterada
<1>3. CASE ~Compartilha(u, a, p)
  BY <1>1, <1>3 DEF ComAtribuicao
<1> QED BY <1>2, <1>3

\* The step of a task that leaves the states alone and gives the task itself a
\* value with the right type and, if it carries a state, a coherent one.
LEMMA PassoDeTarefaOk ==
    ASSUME IInv, NEW t \in Vagas, NEW x \in Tarefa,
           x.fase \in {"replicando", "coletando"} => Coerente(x.estado),
           tarefas' = [tarefas EXCEPT ![t] = x],
           estado' \in [ADMs -> Estado], \A b \in ADMs : Coerente(estado'[b]),
           lider' \in [ADMs -> ADMs], UNCHANGED <<vivos, usados, encerrados>>,
           respostas' \subseteq Pedida, firmes' \subseteq Pedida, isolada' \in BOOLEAN,
           falhas' \in Nat, incompleta' \in BOOLEAN
    PROVE  IInv'
<1>1. TypeOK'
  BY DEF IInv, TypeOK
<1>2. ASSUME NEW u \in Vagas, tarefas'[u].fase \in {"replicando", "coletando"}
      PROVE  Coerente(tarefas'[u].estado)
  <2>1. tarefas'[u] = IF u = t THEN x ELSE tarefas[u]
    BY DEF IInv, TypeOK
  <2>2. CASE u = t
    <3>1. tarefas'[u] = x
      BY <2>1, <2>2
    <3> QED BY <1>2, <3>1
  <2>3. CASE u # t
    <3>1. tarefas'[u] = tarefas[u]
      BY <2>1, <2>3
    <3> QED BY <1>2, <3>1 DEF IInv, EstadosCoerentes
  <2> QED BY <2>2, <2>3
<1>3. EstadosCoerentes'
  BY <1>2 DEF EstadosCoerentes
<1> QED BY <1>1, <1>3 DEF IInv

\* A follower that applies or ignores a snapshot has a coherent state.
LEMMA AplicarOk ==
    ASSUME IInv, NEW a, NEW b \in ADMs, NEW e \in Estado, Coerente(e), Aplicar(b, a, e)
    PROVE  estado' \in [ADMs -> Estado] /\ \A c \in ADMs : Coerente(estado'[c])
<1>1. estado' = estado \/ estado' = [estado EXCEPT ![b] = e]
  BY DEF Aplicar
<1>2. estado' \in [ADMs -> Estado]
  BY <1>1 DEF IInv, TypeOK
<1>3. ASSUME NEW c \in ADMs PROVE Coerente(estado'[c])
  <2>1. estado'[c] = estado[c] \/ estado'[c] = e
    BY <1>1 DEF IInv, TypeOK
  <2> QED BY <2>1 DEF IInv, EstadosCoerentes
<1> QED BY <1>2, <1>3

\* Every operation of a leader keeps the invariant.
LEMMA OperacaoOk ==
    ASSUME IInv, NEW a \in ADMs, Operacao(a)
    PROVE  IInv'
<1>1. /\ estado[a] \in Estado /\ Coerente(estado[a])
      /\ usados \subseteq Pedidos /\ encerrados \subseteq Pedidos
  BY DEF IInv, TypeOK, EstadosCoerentes
<1>2. ASSUME NEW t \in Vagas, NEW p \in Pedidos, CriarPedido(a, t, p)
      PROVE  IInv'
  <2>1. /\ Criar(estado[a], p) \in Estado
        /\ Coerente(Criar(estado[a], p))
    BY <1>1, CriarTipo, CriarCoerente
  <2>2. Criacao(p) \in Pedida
    BY DEF Criacao, Pedida
  <2>3. /\ Executar(a, t, Criar(estado[a], p), Criacao(p), tarefas)
        /\ usados' \subseteq Pedidos /\ encerrados' \subseteq Pedidos
    BY <1>1, <1>2 DEF CriarPedido
  <2> QED BY <2>1, <2>2, <2>3, TarefasSaoOk, ExecutarOk
<1>3. ASSUME NEW t \in Vagas, NEW p \in Pedidos, PrepararPedido(a, t, p)
      PROVE  IInv'
  <2>1. /\ Existe(estado[a], p)
        /\ Executar(a, t, Preparar(estado[a], p), Preparo(p), ComPreparo(a, p))
        /\ usados' \subseteq Pedidos /\ encerrados' \subseteq Pedidos
    BY <1>1, <1>3 DEF PrepararPedido
  <2>2. /\ Preparar(estado[a], p) \in Estado
        /\ Coerente(Preparar(estado[a], p))
    BY <1>1, <2>1, PrepararTipo, PrepararCoerente
  <2>3. Preparo(p) \in Pedida
    BY DEF Preparo, Pedida
  <2> QED BY <2>1, <2>2, <2>3, ComPreparoOk, ExecutarOk
<1>4. ASSUME NEW t \in Vagas, NEW p \in Pedidos, ConfirmarEntrega(a, t, p)
      PROVE  IInv'
  <2>1. /\ Executar(a, t, Confirmar(estado[a], p), Entrega(p), tarefas)
        /\ usados' \subseteq Pedidos /\ encerrados' \subseteq Pedidos
    BY <1>1, <1>4 DEF ConfirmarEntrega
  <2>2. /\ Confirmar(estado[a], p) \in Estado
        /\ Coerente(Confirmar(estado[a], p))
    BY <1>1, ConfirmarTipo, ConfirmarCoerente
  <2>3. Entrega(p) \in Pedida
    BY DEF Entrega, Pedida
  <2> QED BY <2>1, <2>2, <2>3, TarefasSaoOk, ExecutarOk
<1>5. ASSUME NEW t \in Vagas, NEW p \in Pedidos, NEW d \in Entregadores,
             AceitarPedido(a, t, p, d)
      PROVE  IInv'
  <2>1. /\ Existe(estado[a], p)
        /\ Executar(a, t, Aceitar(estado[a], p, d, Rastreadores), Aceite(p, d),
                    ComAtribuicao(a, p, d))
        /\ usados' \subseteq Pedidos /\ encerrados' \subseteq Pedidos
    BY <1>1, <1>5 DEF AceitarPedido, PodeAceitar
  <2>2. /\ Aceitar(estado[a], p, d, Rastreadores) \in Estado
        /\ Coerente(Aceitar(estado[a], p, d, Rastreadores))
    BY <1>1, <2>1, AceitarTipo, AceitarCoerente, ReplicacaoAssumption
  <2>3. Aceite(p, d) \in Pedida
    BY DEF Aceite, Pedida
  <2> QED BY <2>1, <2>2, <2>3, ComAtribuicaoOk, ExecutarOk
<1>6. ASSUME NEW p \in Pedidos, NEW d \in Entregadores, RepetirAceite(a, p, d)
      PROVE  IInv'
  <2>1. Aceite(p, d) \in Pedida
    BY DEF Aceite, Pedida
  <2>2. TypeOK'
    BY <1>6, <2>1 DEF RepetirAceite, IInv, TypeOK
  <2>3. EstadosCoerentes'
    BY <1>6 DEF RepetirAceite, IInv, EstadosCoerentes
  <2> QED BY <2>2, <2>3 DEF IInv
<1> QED BY <1>2, <1>3, <1>4, <1>5, <1>6 DEF Operacao

\* Every step of a handler under way keeps the invariant.
LEMMA PassoOk ==
    ASSUME IInv, NEW t \in Vagas, Passo(t)
    PROVE  IInv'
<1> DEFINE x == tarefas[t]
<1>1. /\ x \in Tarefa
      /\ x.fase \in {"replicando", "coletando"} => Coerente(x.estado)
      /\ estado \in [ADMs -> Estado] /\ \A b \in ADMs : Coerente(estado[b])
      /\ lider \in [ADMs -> ADMs]
      /\ respostas \subseteq Pedida /\ firmes \subseteq Pedida
      /\ isolada \in BOOLEAN /\ falhas \in Nat /\ incompleta \in BOOLEAN
  BY DEF IInv, TypeOK, EstadosCoerentes
<1>2. ASSUME NEW b \in ADMs, RegistrarFalha(b) PROVE falhas' \in Nat
  BY <1>1, <1>2 DEF RegistrarFalha
<1>3. ASSUME NEW b \in ADMs, ReplicaConfirmada(t, b) PROVE IInv'
  <2>1. /\ x.fase = "replicando" /\ Aplicar(b, x.adm, x.estado)
        /\ tarefas' = [tarefas EXCEPT ![t] = [Seguinte(t, b) EXCEPT !.confirmadas = @ + 1]]
        /\ UNCHANGED <<lider, vivos, clientes, isolada, falhas, incompleta>>
    BY <1>3 DEF ReplicaConfirmada, Chama
  <2>2. x.adm \in ADMs /\ x.estado \in Estado /\ Coerente(x.estado)
    BY <1>1, <2>1, TarefaCampos
  <2> DEFINE s == Seguinte(t, b)
             y == [s EXCEPT !.confirmadas = s.confirmadas + 1]
  <2>3. /\ s \in Tarefa /\ s.fase = "replicando" /\ s.estado = x.estado
    BY <1>1, <2>1, SeguinteTipo
  <2>4. y \in Tarefa /\ y.fase = "replicando" /\ y.estado = x.estado
    <3> HIDE DEF s
    <3> QED BY <2>3 DEF Tarefa, Livre
  <2>5. tarefas' = [tarefas EXCEPT ![t] = y]
    BY <2>1
  <2>6. estado' \in [ADMs -> Estado] /\ \A c \in ADMs : Coerente(estado'[c])
    <3> HIDE DEF x
    <3> QED BY <2>1, <2>2, AplicarOk
  <2> HIDE DEF y, s, x
  <2> QED BY <1>1, <2>1, <2>2, <2>4, <2>5, <2>6, PassoDeTarefaOk DEF clientes
<1>4. ASSUME NEW b \in ADMs, ReplicaFalha(t, b) PROVE IInv'
  <2>1. /\ x.fase = "replicando"
        /\ UNCHANGED estado \/ Aplicar(b, x.adm, x.estado)
        /\ tarefas' = [tarefas EXCEPT ![t] = Seguinte(t, b)]
        /\ RegistrarFalha(b)
        /\ UNCHANGED <<lider, vivos, clientes, isolada, incompleta>>
    BY <1>4 DEF ReplicaFalha, Chama
  <2>2. x.adm \in ADMs /\ x.estado \in Estado /\ Coerente(x.estado)
    BY <1>1, <2>1, TarefaCampos
  <2>3. /\ Seguinte(t, b) \in Tarefa
        /\ Seguinte(t, b).fase = "replicando"
        /\ Seguinte(t, b).estado = x.estado
    BY <1>1, <2>1, SeguinteTipo
  <2>4. estado' \in [ADMs -> Estado] /\ \A c \in ADMs : Coerente(estado'[c])
    <3>1. CASE UNCHANGED estado
      BY <1>1, <3>1
    <3>2. CASE Aplicar(b, x.adm, x.estado)
      <4> HIDE DEF x
      <4> QED BY <2>2, <3>2, AplicarOk
    <3> QED BY <2>1, <3>1, <3>2
  <2>5. falhas' \in Nat
    BY <1>2, <2>1
  <2> HIDE DEF x
  <2> QED BY <1>1, <2>1, <2>2, <2>3, <2>4, <2>5, PassoDeTarefaOk DEF clientes
<1>5. ASSUME NEW b \in ADMs, AnuncioEntregue(t, b) PROVE IInv'
  <2>1. /\ x.fase = "anunciando"
        /\ lider' = [lider EXCEPT ![b] = x.adm]
        /\ tarefas' = [tarefas EXCEPT ![t] = Seguinte(t, b)]
        /\ UNCHANGED <<estado, vivos, clientes, isolada, falhas, incompleta>>
    BY <1>5 DEF AnuncioEntregue, Chama
  <2>2. Seguinte(t, b) \in Tarefa /\ Seguinte(t, b).fase = "anunciando"
    BY <1>1, <2>1, SeguinteTipo
  <2>3. x.adm \in ADMs
    BY <1>1, <2>1, TarefaCampos
  <2>4. lider' \in [ADMs -> ADMs]
    BY <1>1, <2>1, <2>3
  <2> HIDE DEF x
  <2> QED BY <1>1, <2>1, <2>2, <2>4, PassoDeTarefaOk DEF clientes
<1>6. ASSUME NEW b \in ADMs, AnuncioPerdido(t, b) PROVE IInv'
  <2>1. /\ x.fase = "anunciando"
        /\ tarefas' = [tarefas EXCEPT ![t] = Seguinte(t, b)]
        /\ RegistrarFalha(b)
        /\ UNCHANGED <<estado, lider, vivos, clientes, isolada, incompleta>>
    BY <1>6 DEF AnuncioPerdido, Chama
  <2>2. Seguinte(t, b) \in Tarefa /\ Seguinte(t, b).fase = "anunciando"
    BY <1>1, <2>1, SeguinteTipo
  <2>3. falhas' \in Nat
    BY <1>2, <2>1
  <2> HIDE DEF x
  <2> QED BY <1>1, <2>1, <2>2, <2>3, PassoDeTarefaOk DEF clientes
<1>7. ASSUME NEW b \in ADMs, ColetaRecebida(t, b) PROVE IInv'
  <2> DEFINE s == Seguinte(t, b)
             m == Mesclar(s.estado, estado[b])
             y == [s EXCEPT !.estado = m]
  <2>1. /\ x.fase = "coletando"
        /\ tarefas' = [tarefas EXCEPT ![t] = y]
        /\ UNCHANGED <<estado, lider, vivos, clientes, isolada, falhas, incompleta>>
    BY <1>7 DEF ColetaRecebida, Chama
  <2>2. x.estado \in Estado /\ Coerente(x.estado)
    BY <1>1, <2>1, TarefaCampos
  <2>3. s \in Tarefa /\ s.fase = "coletando" /\ s.estado = x.estado
    BY <1>1, <2>1, SeguinteTipo
  <2>4. Mesclar(x.estado, estado[b]) \in Estado /\ Coerente(Mesclar(x.estado, estado[b]))
    BY <1>1, <2>2, MesclarTipo, MesclarCoerente
  <2>5. m \in Estado /\ Coerente(m)
    BY <2>3, <2>4
  <2>6. y \in Tarefa /\ y.fase = "coletando" /\ y.estado = m
    <3> HIDE DEF s, m
    <3> QED BY <2>3, <2>5 DEF Tarefa, Livre
  <2> HIDE DEF y, s, x, m
  <2> QED BY <1>1, <2>1, <2>5, <2>6, PassoDeTarefaOk DEF clientes
<1>8. ASSUME NEW b \in ADMs, ColetaFalha(t, b) PROVE IInv'
  <2>1. /\ x.fase = "coletando"
        /\ tarefas' = [tarefas EXCEPT ![t] = Seguinte(t, b)]
        /\ RegistrarFalha(b)
        /\ incompleta' = (incompleta \/ b \in vivos)
        /\ UNCHANGED <<estado, lider, vivos, clientes, isolada>>
    BY <1>8 DEF ColetaFalha, Chama
  <2>2. /\ Seguinte(t, b) \in Tarefa
        /\ Seguinte(t, b).fase = "coletando"
        /\ Seguinte(t, b).estado = x.estado
    BY <1>1, <2>1, SeguinteTipo
  <2>3. falhas' \in Nat /\ incompleta' \in BOOLEAN
    BY <1>2, <2>1
  <2>4. Coerente(x.estado)
    BY <1>1, <2>1
  <2> HIDE DEF x
  <2> QED BY <1>1, <2>1, <2>2, <2>3, <2>4, PassoDeTarefaOk DEF clientes
<1>9. CASE Concluir(t)
  <2>1. /\ x.fase = "replicando"
        /\ Responder(t, x.confirmadas >= Maioria)
        /\ tarefas' = [tarefas EXCEPT ![t] = Livre]
        /\ UNCHANGED <<estado, lider, vivos, usados, encerrados, isolada, falhas, incompleta>>
    BY <1>9 DEF Concluir
  <2>2. x.op \in Pedida \cup {Posse}
    BY <1>1, <2>1, TarefaCampos
  <2>3. respostas' \subseteq Pedida /\ firmes' \subseteq Pedida
    BY <1>1, <2>1, <2>2 DEF Responder
  <2>4. Livre \in Tarefa /\ Livre.fase = "livre"
    BY DEF Livre, Tarefa
  <2> HIDE DEF x
  <2> QED BY <1>1, <2>1, <2>3, <2>4, PassoDeTarefaOk DEF clientes
<1>10. CASE IniciarColeta(t)
  <2> DEFINE y == Coletando(x.adm, estado[x.adm])
  <2>1. /\ x.fase = "anunciando"
        /\ tarefas' = [tarefas EXCEPT ![t] = y]
        /\ UNCHANGED <<estado, lider, vivos, clientes, isolada, falhas, incompleta>>
    BY <1>10 DEF IniciarColeta
  <2>2. x.adm \in ADMs
    BY <1>1, <2>1, TarefaCampos
  <2>3. estado[x.adm] \in Estado /\ Coerente(estado[x.adm])
    BY <1>1, <2>2
  <2>4. y \in Tarefa /\ y.fase = "coletando" /\ y.estado = estado[x.adm]
    BY <2>2, <2>3, ColetandoTipo
  <2> HIDE DEF y, x
  <2> QED BY <1>1, <2>1, <2>3, <2>4, PassoDeTarefaOk DEF clientes
<1>11. CASE AssumirEstado(t)
  <2> DEFINE y == Replicando(x.adm, x.estado, Posse, Sozinha(t))
  <2>1. /\ x.fase = "coletando"
        /\ estado' = [estado EXCEPT ![x.adm] = x.estado]
        /\ tarefas' = [tarefas EXCEPT ![t] = y]
        /\ isolada' = Sozinha(t)
        /\ UNCHANGED <<lider, vivos, clientes, falhas, incompleta>>
    BY <1>11 DEF AssumirEstado
  <2>2. x.adm \in ADMs /\ x.estado \in Estado /\ Coerente(x.estado)
    BY <1>1, <2>1, TarefaCampos
  <2>3. estado' \in [ADMs -> Estado] /\ \A c \in ADMs : Coerente(estado'[c])
    BY <1>1, <2>1, <2>2
  <2>5. Sozinha(t) \in BOOLEAN
    BY DEF Sozinha
  <2>4. y \in Tarefa /\ y.fase = "replicando" /\ y.estado = x.estado
    BY <2>2, <2>5, ReplicandoTipo
  <2> HIDE DEF y, x
  <2> QED BY <1>1, <2>1, <2>2, <2>3, <2>4, <2>5, PassoDeTarefaOk DEF clientes
<1> QED BY <1>3, <1>4, <1>5, <1>6, <1>7, <1>8, <1>9, <1>10, <1>11 DEF Passo

\* A crash frees the tasks of the ADM that crashes.
LEMMA CairOk ==
    ASSUME IInv, NEW a \in ADMs, Cair(a)
    PROVE  IInv'
<1>1. /\ vivos' \subseteq vivos
      /\ tarefas' = [t \in Vagas |-> IF tarefas[t] # Livre /\ tarefas[t].adm = a
                                     THEN Livre ELSE tarefas[t]]
      /\ UNCHANGED <<estado, lider, clientes, isolada, falhas>>
      /\ incompleta \in BOOLEAN => incompleta' \in BOOLEAN
  BY DEF Cair
<1>2. Livre \in Tarefa /\ Livre.fase = "livre"
  BY DEF Livre, Tarefa
<1>3. TypeOK'
  BY <1>1, <1>2 DEF IInv, TypeOK, clientes
<1>4. \A t \in Vagas : tarefas'[t] = Livre \/ tarefas'[t] = tarefas[t]
  BY <1>1
<1>5. EstadosCoerentes'
  BY <1>1, <1>2, <1>4 DEF IInv, EstadosCoerentes
<1> QED BY <1>3, <1>5 DEF IInv

\* A takeover starts with no change of state.
LEMMA SucederOk ==
    ASSUME IInv, NEW a \in ADMs, NEW t \in Vagas, Suceder(a, t)
    PROVE  IInv'
<1>1. /\ lider' = [lider EXCEPT ![a] = a]
      /\ tarefas' = [tarefas EXCEPT ![t] = Anunciando(a)]
      /\ UNCHANGED <<estado, vivos, clientes, isolada, falhas, incompleta>>
  BY DEF Suceder
<1>2. Anunciando(a) \in Tarefa /\ Anunciando(a).fase = "anunciando"
  BY AnunciandoTipo
<1>3. /\ estado' \in [ADMs -> Estado] /\ \A b \in ADMs : Coerente(estado'[b])
      /\ lider' \in [ADMs -> ADMs]
      /\ respostas' \subseteq Pedida /\ firmes' \subseteq Pedida
      /\ isolada' \in BOOLEAN /\ falhas' \in Nat /\ incompleta' \in BOOLEAN
  BY <1>1 DEF clientes, IInv, TypeOK, EstadosCoerentes
<1> QED BY <1>1, <1>2, <1>3, PassoDeTarefaOk DEF clientes

\* The invariant is inductive.
LEMMA PassoIndutivo == IInv /\ [Next]_vars => IInv'
<1> SUFFICES ASSUME IInv, [Next]_vars PROVE IInv'
  OBVIOUS
<1>1. ASSUME NEW a \in ADMs, Operacao(a) PROVE IInv'
  BY <1>1, OperacaoOk
<1>2. ASSUME NEW a \in ADMs, Cair(a) PROVE IInv'
  BY <1>2, CairOk
<1>3. ASSUME NEW a \in ADMs, NEW t \in Vagas, Suceder(a, t) PROVE IInv'
  BY <1>3, SucederOk
<1>4. ASSUME NEW t \in Vagas, Passo(t) PROVE IInv'
  BY <1>4, PassoOk
<1>5. CASE UNCHANGED vars
  <2>1. TypeOK'
    BY <1>5 DEF vars, clientes, IInv, TypeOK
  <2>2. EstadosCoerentes'
    BY <1>5 DEF vars, clientes, IInv, EstadosCoerentes
  <2> QED BY <2>1, <2>2 DEF IInv
<1> QED BY <1>1, <1>2, <1>3, <1>4, <1>5 DEF Next
-----------------------------------------------------------------------------
(* What is kept through the steps *)

\* Only the highest running ADM leads, only a leader has handlers under way, and
\* they call only the others; it announces itself only to lower ones.
Lideranca ==
    /\ \A a \in ADMs : SouLider(a) => \A b \in vivos : b <= a
    /\ \A t \in Vagas : tarefas[t].fase # "livre" =>
           /\ SouLider(tarefas[t].adm)
           /\ tarefas[t].adm \notin tarefas[t].pendentes
           /\ tarefas[t].fase = "anunciando" =>
                  tarefas[t].pendentes \subseteq 1..(tarefas[t].adm - 1)

\* A task that carries a state
Carrega(t) == tarefas[t].fase \in {"replicando", "coletando"}

\* Orders known anywhere, or operated on, were created.
Historia ==
    /\ \A a \in ADMs, p \in Pedidos : Existe(estado[a], p) => p \in usados
    /\ \A t \in Vagas, p \in Pedidos :
           Carrega(t) /\ Existe(tarefas[t].estado, p) => p \in usados
    /\ \A t \in Vagas : tarefas[t].fase = "replicando" /\ tarefas[t].op # Posse =>
           tarefas[t].op.pedido \in usados
    /\ \A o \in firmes : o.pedido \in usados

Base == IInv /\ Lideranca /\ Historia

\* An operation is in the state e, and nobody else can accept its order.
Guarda(e, op) ==
    /\ Reflete(e, op)
    /\ op.tipo = "aceitar" /\ Existe(e, op.pedido) =>
           /\ op.pedido \notin e.semEntregador
           /\ e.pedidos[op.pedido].entregador = op.entregador

-----------------------------------------------------------------------------
(* What each step does *)

\* A task is in one of four phases, and free in the first.
LEMMA FasesDe ==
    ASSUME NEW x \in Tarefa
    PROVE  /\ x.fase \in {"livre", "replicando", "coletando", "anunciando"}
           /\ x = Livre <=> x.fase = "livre"
BY DEF Tarefa, Livre

\* The fields of new tasks
LEMMA NovaTarefa ==
    ASSUME NEW a \in ADMs, NEW e, NEW op, NEW so
    PROVE  /\ Replicando(a, e, op, so).fase = "replicando" /\ Replicando(a, e, op, so).adm = a
           /\ Replicando(a, e, op, so).estado = e /\ Replicando(a, e, op, so).op = op
           /\ Replicando(a, e, op, so).pendentes = ADMs \ {a}
           /\ Replicando(a, e, op, so).confirmadas = 1
           /\ Replicando(a, e, op, so).isolada = so
           /\ Coletando(a, e).fase = "coletando" /\ Coletando(a, e).adm = a
           /\ Coletando(a, e).estado = e /\ Coletando(a, e).pendentes = ADMs \ {a}
           /\ Anunciando(a).fase = "anunciando" /\ Anunciando(a).adm = a
           /\ Anunciando(a).pendentes = 1..(a - 1)
           /\ Livre.fase = "livre"
BY DEF Replicando, Coletando, Anunciando, Livre

\* The fields of a task that has called b
LEMMA SeguinteCampos ==
    ASSUME NEW t \in Vagas, tarefas[t] \in Tarefa, NEW b, tarefas[t] # Livre
    PROVE  /\ Seguinte(t, b) \in Tarefa
           /\ Seguinte(t, b).fase = tarefas[t].fase
           /\ Seguinte(t, b).adm = tarefas[t].adm
           /\ Seguinte(t, b).pendentes = tarefas[t].pendentes \ {b}
           /\ Carrega(t) => Seguinte(t, b).estado = tarefas[t].estado
           /\ tarefas[t].fase = "replicando" =>
                  /\ Seguinte(t, b).op = tarefas[t].op
                  /\ Seguinte(t, b).confirmadas = tarefas[t].confirmadas
                  /\ Seguinte(t, b).isolada = tarefas[t].isolada
<1> DEFINE x == tarefas[t]
<1>1. Seguinte(t, b) = [x EXCEPT !.pendentes = x.pendentes \ {b}]
  BY DEF Seguinte
<1>2. CASE x.fase = "replicando"
  BY <1>1, <1>2 DEF Tarefa, Livre, Carrega
<1>3. CASE x.fase = "coletando"
  BY <1>1, <1>3 DEF Tarefa, Livre, Carrega
<1>4. CASE x.fase = "anunciando"
  BY <1>1, <1>4 DEF Tarefa, Livre, Carrega
<1> QED BY <1>2, <1>3, <1>4, FasesDe

\* A count that goes up keeps the other fields.
LEMMA ContarCampos ==
    ASSUME NEW x \in Tarefa, x.fase = "replicando"
    PROVE  LET y == [x EXCEPT !.confirmadas = @ + 1]
           IN  /\ y.fase = x.fase /\ y.adm = x.adm /\ y.estado = x.estado /\ y.op = x.op
               /\ y.pendentes = x.pendentes /\ y.confirmadas = x.confirmadas + 1
               /\ y.isolada = x.isolada
BY DEF Tarefa, Livre

\* The tasks but t are left alone.
Outras(t) == \A u \in Vagas : u # t => tarefas'[u] = tarefas[u]

\* What a peer may hold after a snapshot e of a was sent to it
Recebido(b, a, e) ==
    /\ \A c \in ADMs : c # b => estado'[c] = estado[c]
    /\ lider[b] = a => estado'[b] = e
    /\ lider[b] # a => estado'[b] = estado[b]

\* One more failed call, or a call to an ADM that is down
LEMMA FalhaEfeito ==
    ASSUME IInv, NEW b \in ADMs, RegistrarFalha(b)
    PROVE  /\ falhas' = 0 => falhas = 0 /\ b \notin vivos
BY DEF IInv, TypeOK, RegistrarFalha

\* A snapshot sent to b
LEMMA ReplicaEfeito ==
    ASSUME IInv, NEW t \in Vagas, NEW b \in ADMs, ReplicaConfirmada(t, b) \/ ReplicaFalha(t, b)
    PROVE  /\ tarefas[t].fase = "replicando" /\ b \in tarefas[t].pendentes
           /\ tarefas'[t].fase = "replicando" /\ tarefas'[t].adm = tarefas[t].adm
           /\ tarefas'[t].estado = tarefas[t].estado /\ tarefas'[t].op = tarefas[t].op
           /\ tarefas'[t].pendentes = tarefas[t].pendentes \ {b}
           /\ tarefas'[t].isolada = tarefas[t].isolada
           /\ Outras(t)
           /\ UNCHANGED estado \/ Recebido(b, tarefas[t].adm, tarefas[t].estado)
           /\ UNCHANGED <<lider, vivos, clientes, isolada, incompleta>>
           /\ \/ /\ b \in vivos /\ falhas' = falhas
                 /\ Recebido(b, tarefas[t].adm, tarefas[t].estado)
                 /\ tarefas'[t].confirmadas = tarefas[t].confirmadas + 1
              \/ /\ tarefas'[t].confirmadas = tarefas[t].confirmadas
                 /\ falhas' = 0 => falhas = 0 /\ b \notin vivos /\ UNCHANGED estado
<1> DEFINE x == tarefas[t]
<1>1. /\ x \in Tarefa /\ tarefas \in [Vagas -> Tarefa] /\ estado \in [ADMs -> Estado]
  BY DEF IInv, TypeOK
<1>2. /\ x.fase = "replicando" /\ b \in x.pendentes
      /\ UNCHANGED <<lider, vivos, clientes, isolada, incompleta>>
  BY DEF ReplicaConfirmada, ReplicaFalha, Chama
<1>3. /\ x # Livre
      /\ Aplicar(b, x.adm, x.estado) => Recebido(b, x.adm, x.estado)
  BY <1>1, <1>2 DEF Aplicar, Recebido, Livre
<1>4. CASE ReplicaConfirmada(t, b)
  <2> DEFINE s == Seguinte(t, b)
             y == [s EXCEPT !.confirmadas = @ + 1]
  <2>1. /\ tarefas' = [tarefas EXCEPT ![t] = y] /\ b \in vivos /\ falhas' = falhas
        /\ Aplicar(b, x.adm, x.estado)
    BY <1>4 DEF ReplicaConfirmada
  <2>2. /\ s \in Tarefa /\ s.fase = "replicando" /\ s.adm = x.adm /\ s.estado = x.estado
        /\ s.op = x.op /\ s.confirmadas = x.confirmadas /\ s.pendentes = x.pendentes \ {b}
        /\ s.isolada = x.isolada
    BY <1>1, <1>2, <1>3, SeguinteCampos DEF Carrega
  <2> HIDE DEF y
  <2>3. tarefas'[t] = y /\ Outras(t)
    BY <1>1, <2>1 DEF Outras
  <2> USE DEF y
  <2> HIDE DEF s
  <2>4. /\ y.fase = s.fase /\ y.adm = s.adm /\ y.estado = s.estado /\ y.op = s.op
        /\ y.pendentes = s.pendentes /\ y.confirmadas = s.confirmadas + 1
        /\ y.isolada = s.isolada
    BY <2>2, ContarCampos
  <2> HIDE DEF y, x
  <2> QED BY <1>2, <1>3, <2>1, <2>2, <2>3, <2>4 DEF x
<1>5. CASE ReplicaFalha(t, b)
  <2> DEFINE s == Seguinte(t, b)
  <2>1. /\ tarefas' = [tarefas EXCEPT ![t] = s] /\ RegistrarFalha(b)
        /\ UNCHANGED estado \/ (b \in vivos /\ Aplicar(b, x.adm, x.estado))
    BY <1>5 DEF ReplicaFalha
  <2>2. /\ s.fase = "replicando" /\ s.adm = x.adm /\ s.estado = x.estado
        /\ s.op = x.op /\ s.confirmadas = x.confirmadas /\ s.pendentes = x.pendentes \ {b}
        /\ s.isolada = x.isolada
    BY <1>1, <1>2, <1>3, SeguinteCampos DEF Carrega
  <2> HIDE DEF s
  <2>3. tarefas'[t] = s /\ Outras(t)
    BY <1>1, <2>1 DEF Outras
  <2>4. falhas' = 0 => falhas = 0 /\ b \notin vivos
    BY <2>1, FalhaEfeito
  <2> HIDE DEF x
  <2> QED BY <1>2, <1>3, <2>1, <2>2, <2>3, <2>4 DEF x
<1> QED BY <1>4, <1>5

\* An announcement to b
LEMMA AnuncioEfeito ==
    ASSUME IInv, NEW t \in Vagas, NEW b \in ADMs, AnuncioEntregue(t, b) \/ AnuncioPerdido(t, b)
    PROVE  /\ tarefas[t].fase = "anunciando" /\ b \in tarefas[t].pendentes
           /\ tarefas'[t].fase = "anunciando" /\ tarefas'[t].adm = tarefas[t].adm
           /\ tarefas'[t].pendentes = tarefas[t].pendentes \ {b}
           /\ Outras(t)
           /\ UNCHANGED <<estado, vivos, clientes, isolada, incompleta>>
           /\ \A c \in ADMs : c # b => lider'[c] = lider[c]
           /\ \/ lider'[b] = tarefas[t].adm /\ falhas' = falhas
              \/ /\ UNCHANGED lider
                 /\ falhas' = 0 => falhas = 0 /\ b \notin vivos
<1> DEFINE x == tarefas[t]
           s == Seguinte(t, b)
<1>1. /\ x \in Tarefa /\ tarefas \in [Vagas -> Tarefa] /\ lider \in [ADMs -> ADMs]
  BY DEF IInv, TypeOK
<1>2. /\ x.fase = "anunciando" /\ b \in x.pendentes
      /\ tarefas' = [tarefas EXCEPT ![t] = s]
      /\ UNCHANGED <<estado, vivos, clientes, isolada, incompleta>>
  BY DEF AnuncioEntregue, AnuncioPerdido, Chama
<1>3. x # Livre
  BY <1>2 DEF Livre
<1>4. s.fase = "anunciando" /\ s.adm = x.adm /\ s.pendentes = x.pendentes \ {b}
  BY <1>1, <1>2, <1>3, SeguinteCampos
<1>6. /\ \A c \in ADMs : c # b => lider'[c] = lider[c]
      /\ \/ lider'[b] = x.adm /\ falhas' = falhas
         \/ /\ UNCHANGED lider
            /\ falhas' = 0 => falhas = 0 /\ b \notin vivos
  <2>1. CASE AnuncioEntregue(t, b)
    BY <1>1, <2>1 DEF AnuncioEntregue
  <2>2. CASE AnuncioPerdido(t, b)
    BY <2>2, FalhaEfeito DEF AnuncioPerdido
  <2> QED BY <2>1, <2>2
<1> HIDE DEF s
<1>5. tarefas'[t] = s /\ Outras(t)
  BY <1>1, <1>2 DEF Outras
<1> HIDE DEF x
<1> QED BY <1>2, <1>4, <1>5, <1>6 DEF x

\* A state query to b
LEMMA ColetaEfeito ==
    ASSUME IInv, NEW t \in Vagas, NEW b \in ADMs, ColetaRecebida(t, b) \/ ColetaFalha(t, b)
    PROVE  /\ tarefas[t].fase = "coletando" /\ b \in tarefas[t].pendentes
           /\ tarefas'[t].fase = "coletando" /\ tarefas'[t].adm = tarefas[t].adm
           /\ tarefas'[t].pendentes = tarefas[t].pendentes \ {b}
           /\ Outras(t)
           /\ UNCHANGED <<estado, lider, vivos, clientes, isolada>>
           /\ \/ /\ b \in vivos /\ tarefas'[t].estado = Mesclar(tarefas[t].estado, estado[b])
                 /\ UNCHANGED <<falhas, incompleta>>
              \/ /\ tarefas'[t].estado = tarefas[t].estado
                 /\ falhas' = 0 => falhas = 0 /\ b \notin vivos
                 /\ ~incompleta' => ~incompleta /\ b \notin vivos
<1> DEFINE x == tarefas[t]
           s == Seguinte(t, b)
           m == Mesclar(s.estado, estado[b])
           y == [s EXCEPT !.estado = m]
<1>1. x \in Tarefa /\ tarefas \in [Vagas -> Tarefa]
  BY DEF IInv, TypeOK
<1>2. /\ x.fase = "coletando" /\ b \in x.pendentes
      /\ UNCHANGED <<estado, lider, vivos, clientes, isolada>>
  BY DEF ColetaRecebida, ColetaFalha, Chama
<1>3. x # Livre
  BY <1>2 DEF Livre
<1>4. /\ s \in Tarefa /\ s.fase = "coletando" /\ s.adm = x.adm /\ s.estado = x.estado
      /\ s.pendentes = x.pendentes \ {b}
  BY <1>1, <1>2, <1>3, SeguinteCampos DEF Carrega
<1>5. CASE ColetaRecebida(t, b)
  <2>1. tarefas' = [tarefas EXCEPT ![t] = y] /\ b \in vivos /\ UNCHANGED <<falhas, incompleta>>
    BY <1>5 DEF ColetaRecebida
  <2>3. y.fase = s.fase /\ y.adm = s.adm /\ y.pendentes = s.pendentes /\ y.estado = m
    <3> HIDE DEF s, m
    <3> QED BY <1>4 DEF Tarefa, Livre
  <2>4. m = Mesclar(x.estado, estado[b])
    BY <1>4
  <2> HIDE DEF y, m, s
  <2>2. tarefas'[t] = y /\ Outras(t)
    BY <1>1, <2>1 DEF Outras
  <2> HIDE DEF x
  <2> QED BY <1>2, <1>4, <2>1, <2>2, <2>3, <2>4 DEF x
<1>6. CASE ColetaFalha(t, b)
  <2>1. /\ tarefas' = [tarefas EXCEPT ![t] = s] /\ RegistrarFalha(b)
        /\ incompleta' = (incompleta \/ b \in vivos)
    BY <1>6 DEF ColetaFalha
  <2> HIDE DEF s
  <2>2. tarefas'[t] = s /\ Outras(t) /\ (falhas' = 0 => falhas = 0 /\ b \notin vivos)
    BY <1>1, <2>1, FalhaEfeito DEF Outras
  <2> HIDE DEF x
  <2> QED BY <1>2, <1>4, <2>1, <2>2 DEF x
<1> QED BY <1>5, <1>6

-----------------------------------------------------------------------------
(* What each operation does *)

\* A merge under way may get what an operation of leader a writes in an order of its
\* own: it knows the same orders and guards what it and the leader guarded.
OutrasSeguem(t, a) ==
    \A u \in Vagas : u # t =>
        /\ tarefas[u].fase # "coletando" => tarefas'[u] = tarefas[u]
        /\ tarefas[u].fase = "coletando" =>
               /\ tarefas'[u].fase = "coletando" /\ tarefas'[u].adm = tarefas[u].adm
               /\ tarefas'[u].pendentes = tarefas[u].pendentes
               /\ \A q \in Pedidos : Existe(tarefas'[u].estado, q) <=> Existe(tarefas[u].estado, q)
        /\ \A o \in Pedida :
               Carrega(u) /\ Guarda(tarefas[u].estado, o) /\ Guarda(estado[a], o)
                   => Guarda(tarefas[u].estado, o)'

\* Operation op of leader a: the new state has it, knows no order that was not
\* created, forgets none that was not delivered and guards what the old one guarded.
Executou(a, t, op) ==
    /\ SouLider(a) /\ tarefas[t].fase = "livre"
    /\ tarefas'[t].fase = "replicando" /\ tarefas'[t].adm = a
    /\ tarefas'[t].estado = estado'[a] /\ tarefas'[t].op = op
    /\ tarefas'[t].pendentes = ADMs \ {a} /\ tarefas'[t].confirmadas = 1
    /\ tarefas'[t].isolada = Sozinha(t) /\ isolada' = Sozinha(t)
    /\ OutrasSeguem(t, a)
    /\ \A c \in ADMs : c # a => estado'[c] = estado[c]
    /\ UNCHANGED <<lider, vivos, respostas, firmes, falhas>>
    /\ incompleta' = (incompleta \/ ~NoComando(a))
    /\ usados \subseteq usados' /\ encerrados \subseteq encerrados'
    /\ op.pedido \in usados' /\ op # Posse
    /\ Guarda(estado[a], op)'
    /\ op.tipo = "aceitar" => /\ Existe(estado[a], op.pedido)
                              /\ op.pedido \in estado[a].semEntregador
    /\ \A q \in Pedidos :
           /\ Existe(estado'[a], q) => Existe(estado[a], q) \/ q \in usados'
           /\ Existe(estado[a], q) => Existe(estado'[a], q) \/ q \in encerrados'
    /\ \A o \in Pedida : o.pedido \in usados /\ Guarda(estado[a], o) => Guarda(estado[a], o)'

\* The part that the operations share
LEMMA ExecutarEfeito ==
    ASSUME IInv, NEW a \in ADMs, NEW t \in Vagas, NEW e, NEW op, NEW ts, TarefasOk(ts),
           Executar(a, t, e, op, ts)
    PROVE  /\ SouLider(a) /\ tarefas[t].fase = "livre"
           /\ tarefas'[t].fase = "replicando" /\ tarefas'[t].adm = a
           /\ tarefas'[t].estado = estado'[a] /\ tarefas'[t].op = op
           /\ tarefas'[t].pendentes = ADMs \ {a} /\ tarefas'[t].confirmadas = 1
           /\ tarefas'[t].isolada = Sozinha(t) /\ isolada' = Sozinha(t)
           /\ \A u \in Vagas : u # t => tarefas'[u] = ts[u]
           /\ \A c \in ADMs : c # a => estado'[c] = estado[c]
           /\ UNCHANGED <<lider, vivos, respostas, firmes, falhas>>
           /\ incompleta' = (incompleta \/ ~NoComando(a))
           /\ estado'[a] = e
<1>1. /\ SouLider(a) /\ tarefas[t] = Livre /\ estado' = [estado EXCEPT ![a] = e]
      /\ tarefas' = [ts EXCEPT ![t] = Replicando(a, e, op, Sozinha(t))]
      /\ isolada' = Sozinha(t) /\ incompleta' = (incompleta \/ ~NoComando(a))
      /\ UNCHANGED <<lider, vivos, respostas, firmes, falhas>>
  BY DEF Executar
<1>2. estado'[a] = e /\ \A c \in ADMs : c # a => estado'[c] = estado[c]
  BY <1>1 DEF IInv, TypeOK
<1>3. /\ tarefas'[t] = Replicando(a, e, op, Sozinha(t))
      /\ \A u \in Vagas : u # t => tarefas'[u] = ts[u]
  BY <1>1 DEF TarefasOk
<1>4. /\ tarefas'[t].fase = "replicando" /\ tarefas'[t].adm = a
      /\ tarefas'[t].estado = e /\ tarefas'[t].op = op
      /\ tarefas'[t].pendentes = ADMs \ {a} /\ tarefas'[t].confirmadas = 1
      /\ tarefas'[t].isolada = Sozinha(t)
  BY <1>3, NovaTarefa
<1>5. tarefas[t].fase = "livre"
  BY <1>1, NovaTarefa
<1> QED BY <1>1, <1>2, <1>3, <1>4, <1>5

\* The other tasks are left alone.
LEMMA OutrasIguais ==
    ASSUME NEW t, NEW a, encerrados \subseteq encerrados',
           \A u \in Vagas : u # t => tarefas'[u] = tarefas[u]
    PROVE  OutrasSeguem(t, a)
BY DEF OutrasSeguem, Guarda, Reflete, Existe

\* What is guarded about an order that a step leaves alone stays guarded.
LEMMA GuardaOutro ==
    ASSUME NEW o \in Pedida, encerrados \subseteq encerrados', NEW a,
           estado'[a].pedidos[o.pedido] = estado[a].pedidos[o.pedido],
           o.pedido \in estado'[a].semEntregador => o.pedido \in estado[a].semEntregador,
           Guarda(estado[a], o)
    PROVE  Guarda(estado[a], o)'
BY DEF Guarda, Reflete, Existe

\* The fields of the operations
LEMMA OperacaoCampos ==
    /\ \A o \in Pedida : /\ o.pedido \in Pedidos /\ o # Posse
                        /\ o.tipo \in {"criar", "preparar", "confirmar", "aceitar"}
    /\ \A p \in Pedidos :
           /\ Criacao(p) \in Pedida /\ Criacao(p).tipo = "criar" /\ Criacao(p).pedido = p
           /\ Preparo(p) \in Pedida /\ Preparo(p).tipo = "preparar" /\ Preparo(p).pedido = p
           /\ Entrega(p) \in Pedida /\ Entrega(p).tipo = "confirmar" /\ Entrega(p).pedido = p
    /\ \A p \in Pedidos, d \in Entregadores :
           /\ Aceite(p, d) \in Pedida /\ Aceite(p, d).tipo = "aceitar"
           /\ Aceite(p, d).pedido = p /\ Aceite(p, d).entregador = d
BY DEF Pedida, Criacao, Preparo, Entrega, Aceite, Posse

\* What an accept writes in the order
LEMMA AtribuirCampos ==
    ASSUME NEW e \in Estado, NEW p \in Pedidos, Existe(e, p), NEW d, NEW r, NEW q \in Pedidos
    PROVE  /\ q = p => /\ Atribuir(e, p, d, r).pedidos[q].entregador = d
                       /\ Atribuir(e, p, d, r).pedidos[q].preparado = e.pedidos[q].preparado
           /\ q # p => Atribuir(e, p, d, r).pedidos[q] = e.pedidos[q]
<1>1. e.pedidos \in [Pedidos -> Pedido \cup {Ausente}] /\ e.pedidos[p] \in Pedido
  BY DEF Estado, Existe
<1> QED BY <1>1 DEF Atribuir, Estado, Pedido

\* The tasks when a prepares p
LEMMA OutrasPreparo ==
    ASSUME IInv, NEW a \in ADMs, NEW t, NEW p \in Pedidos, encerrados' = encerrados,
           \A u \in Vagas : u # t => tarefas'[u] = ComPreparo(a, p)[u]
    PROVE  OutrasSeguem(t, a)
<1> SUFFICES ASSUME NEW u \in Vagas, u # t
             PROVE  /\ tarefas[u].fase # "coletando" => tarefas'[u] = tarefas[u]
                    /\ tarefas[u].fase = "coletando" =>
                           /\ tarefas'[u].fase = "coletando" /\ tarefas'[u].adm = tarefas[u].adm
                           /\ tarefas'[u].pendentes = tarefas[u].pendentes
                           /\ \A q \in Pedidos :
                                  Existe(tarefas'[u].estado, q) <=> Existe(tarefas[u].estado, q)
                    /\ \A o \in Pedida :
                           Carrega(u) /\ Guarda(tarefas[u].estado, o) /\ Guarda(estado[a], o)
                               => Guarda(tarefas[u].estado, o)'
  BY DEF OutrasSeguem
<1>1. CASE ~Compartilha(u, a, p)
  <2>1. tarefas'[u] = tarefas[u]
    BY <1>1 DEF ComPreparo
  <2> QED BY <2>1 DEF Guarda, Reflete, Existe
<1>2. CASE Compartilha(u, a, p)
  <2> DEFINE e == tarefas[u].estado
             f == Preparar(e, p)
  <2>1. tarefas[u] \in Tarefa /\ tarefas[u].fase = "coletando" /\ Existe(e, p)
    BY <1>2 DEF Compartilha, IInv, TypeOK
  <2>2. e \in Estado
    BY <2>1, TarefaCampos
  <2>3. tarefas'[u] = [tarefas[u] EXCEPT !.estado = f]
    BY <1>2 DEF ComPreparo
  <2> HIDE DEF f
  <2>4. /\ tarefas'[u].estado = f /\ tarefas'[u].fase = "coletando"
        /\ tarefas'[u].adm = tarefas[u].adm /\ tarefas'[u].pendentes = tarefas[u].pendentes
    BY <2>1, <2>3 DEF Tarefa, Livre
  <2> USE DEF f
  <2>5. /\ f.pedidos[p].preparado /\ f.semEntregador = e.semEntregador
        /\ f.pedidos[p].entregador = e.pedidos[p].entregador
        /\ \A q \in Pedidos : /\ Existe(f, q) <=> Existe(e, q)
                              /\ q # p => f.pedidos[q] = e.pedidos[q]
    BY <2>1, <2>2, PrepararEfeito, PrepararPreparo
  <2> HIDE DEF f
  <2>6. ASSUME NEW o \in Pedida, Guarda(e, o) PROVE Guarda(f, o)
    <3>1. CASE o.pedido = p
      BY <2>1, <2>5, <2>6, <3>1 DEF Guarda, Reflete
    <3>2. CASE o.pedido # p
      BY <2>5, <2>6, <3>2, OperacaoCampos DEF Guarda, Reflete
    <3> QED BY <3>1, <3>2
  <2>7. ASSUME NEW o \in Pedida, Guarda(f, o) PROVE Guarda(tarefas[u].estado, o)'
    BY <2>4, <2>7 DEF Guarda, Reflete, Existe
  <2> QED BY <2>1, <2>4, <2>5, <2>6, <2>7
<1> QED BY <1>1, <1>2

\* The tasks when a gives p, which is in its queue, to d
LEMMA OutrasAtribuicao ==
    ASSUME IInv, NEW a \in ADMs, NEW t, NEW p \in Pedidos, NEW d \in Entregadores,
           encerrados' = encerrados, Existe(estado[a], p), p \in estado[a].semEntregador,
           \A u \in Vagas : u # t => tarefas'[u] = ComAtribuicao(a, p, d)[u]
    PROVE  OutrasSeguem(t, a)
<1> SUFFICES ASSUME NEW u \in Vagas, u # t
             PROVE  /\ tarefas[u].fase # "coletando" => tarefas'[u] = tarefas[u]
                    /\ tarefas[u].fase = "coletando" =>
                           /\ tarefas'[u].fase = "coletando" /\ tarefas'[u].adm = tarefas[u].adm
                           /\ tarefas'[u].pendentes = tarefas[u].pendentes
                           /\ \A q \in Pedidos :
                                  Existe(tarefas'[u].estado, q) <=> Existe(tarefas[u].estado, q)
                    /\ \A o \in Pedida :
                           Carrega(u) /\ Guarda(tarefas[u].estado, o) /\ Guarda(estado[a], o)
                               => Guarda(tarefas[u].estado, o)'
  BY DEF OutrasSeguem
<1>1. CASE ~Compartilha(u, a, p)
  <2>1. tarefas'[u] = tarefas[u]
    BY <1>1 DEF ComAtribuicao
  <2> QED BY <2>1 DEF Guarda, Reflete, Existe
<1>2. CASE Compartilha(u, a, p)
  <2> DEFINE e == tarefas[u].estado
             r == EscolherServidor(p, Rastreadores)
             f == Atribuir(e, p, d, r)
  <2>0. r \in Rastreadores
    BY EscolheAtivo, ReplicacaoAssumption
  <2>1. tarefas[u] \in Tarefa /\ tarefas[u].fase = "coletando" /\ Existe(e, p)
    BY <1>2 DEF Compartilha, IInv, TypeOK
  <2>2. e \in Estado
    BY <2>1, TarefaCampos
  <2>3. tarefas'[u] = [tarefas[u] EXCEPT !.estado = f]
    BY <1>2 DEF ComAtribuicao
  <2> HIDE DEF f
  <2>4. /\ tarefas'[u].estado = f /\ tarefas'[u].fase = "coletando"
        /\ tarefas'[u].adm = tarefas[u].adm /\ tarefas'[u].pendentes = tarefas[u].pendentes
    BY <2>1, <2>3 DEF Tarefa, Livre
  <2> HIDE DEF r
  <2> USE DEF f
  <2>5. /\ f.semEntregador = e.semEntregador
        /\ f.pedidos[p].preparado = e.pedidos[p].preparado
        /\ \A q \in Pedidos : /\ Existe(f, q) <=> Existe(e, q)
                              /\ q # p => f.pedidos[q] = e.pedidos[q]
    BY <2>0, <2>1, <2>2, AtribuirEfeito, AtribuirCampos
  <2> HIDE DEF f
  <2>6. ASSUME NEW o \in Pedida, Guarda(e, o), Guarda(estado[a], o) PROVE Guarda(f, o)
    <3>1. CASE o.pedido = p
      BY <2>1, <2>5, <2>6, <3>1 DEF Guarda, Reflete
    <3>2. CASE o.pedido # p
      BY <2>5, <2>6, <3>2, OperacaoCampos DEF Guarda, Reflete
    <3> QED BY <3>1, <3>2
  <2>7. ASSUME NEW o \in Pedida, Guarda(f, o) PROVE Guarda(tarefas[u].estado, o)'
    BY <2>4, <2>7 DEF Guarda, Reflete, Existe
  <2> QED BY <2>1, <2>4, <2>5, <2>6, <2>7
<1> QED BY <1>1, <1>2

\* A new order: no operation on it was answered yet.
LEMMA CriarExecutou ==
    ASSUME IInv, NEW a \in ADMs, NEW t \in Vagas, NEW p \in Pedidos, CriarPedido(a, t, p)
    PROVE  Executou(a, t, Criacao(p))
<1> DEFINE e == estado[a]
           op == Criacao(p)
<1>1. /\ e \in Estado /\ op.tipo = "criar" /\ op.pedido = p
  BY OperacaoCampos DEF IInv, TypeOK
<1>2. /\ Executar(a, t, Criar(e, p), op, tarefas)
      /\ p \notin usados /\ usados' = usados \cup {p} /\ encerrados' = encerrados
  BY DEF CriarPedido
<1>3. estado'[a] = Criar(e, p)
  BY <1>2, TarefasSaoOk, ExecutarEfeito
<1>4. \A q \in Pedidos : /\ Existe(estado'[a], q) <=> q = p \/ Existe(e, q)
                         /\ q # p => /\ estado'[a].pedidos[q] = e.pedidos[q]
                                     /\ q \in estado'[a].semEntregador <=> q \in e.semEntregador
  BY <1>1, <1>3, CriarEfeito
<1>5. Guarda(estado[a], op)' /\ op.pedido \in usados' /\ op # Posse
  BY <1>1, <1>2, <1>4, OperacaoCampos DEF Guarda, Reflete
<1>6. ASSUME NEW o \in Pedida, o.pedido \in usados, Guarda(estado[a], o)
      PROVE  Guarda(estado[a], o)'
  BY <1>2, <1>4, <1>6, OperacaoCampos, GuardaOutro
<1>8. OutrasSeguem(t, a)
  BY <1>2, TarefasSaoOk, ExecutarEfeito, OutrasIguais
<1> HIDE DEF op
<1> QED BY <1>1, <1>2, <1>4, <1>5, <1>6, <1>8, TarefasSaoOk, ExecutarEfeito DEF Executou, op

\* A prepared order keeps its driver and its place.
LEMMA PrepararExecutou ==
    ASSUME IInv, Historia, NEW a \in ADMs, NEW t \in Vagas, NEW p \in Pedidos,
           PrepararPedido(a, t, p)
    PROVE  Executou(a, t, Preparo(p))
<1> DEFINE e == estado[a]
           op == Preparo(p)
<1>1. /\ e \in Estado /\ op.tipo = "preparar" /\ op.pedido = p
  BY OperacaoCampos DEF IInv, TypeOK
<1>2. /\ Executar(a, t, Preparar(e, p), op, ComPreparo(a, p))
      /\ Existe(e, p) /\ usados' = usados /\ encerrados' = encerrados
  BY DEF PrepararPedido
<1>3. estado'[a] = Preparar(e, p)
  BY <1>2, ComPreparoOk, ExecutarEfeito
<1>4. /\ estado'[a].pedidos[p].preparado /\ estado'[a].semEntregador = e.semEntregador
      /\ estado'[a].pedidos[p].entregador = e.pedidos[p].entregador
  BY <1>1, <1>2, <1>3, PrepararEfeito, PrepararPreparo
<1>5. \A q \in Pedidos : /\ Existe(estado'[a], q) <=> Existe(e, q)
                         /\ q # p => estado'[a].pedidos[q] = e.pedidos[q]
  BY <1>1, <1>2, <1>3, PrepararEfeito, PrepararPreparo
<1>6. Guarda(estado[a], op)' /\ op.pedido \in usados' /\ op # Posse
  BY <1>1, <1>2, <1>4, <1>5, OperacaoCampos DEF Guarda, Reflete, Historia
<1>7. ASSUME NEW o \in Pedida, Guarda(estado[a], o)
      PROVE  Guarda(estado[a], o)'
  <2>1. CASE o.pedido # p
    BY <1>2, <1>4, <1>5, <1>7, <2>1, OperacaoCampos, GuardaOutro
  <2>2. CASE o.pedido = p
    BY <1>2, <1>4, <1>5, <1>7, <2>2, OperacaoCampos DEF Guarda, Reflete
  <2> QED BY <2>1, <2>2
<1>8. OutrasSeguem(t, a)
  BY <1>2, ComPreparoOk, ExecutarEfeito, OutrasPreparo
<1> HIDE DEF op
<1> QED BY <1>1, <1>2, <1>5, <1>6, <1>7, <1>8, ComPreparoOk, ExecutarEfeito DEF Executou, op

\* An order in the queue was accepted by nobody who was told so.
LEMMA AceitarExecutou ==
    ASSUME IInv, Historia, NEW a \in ADMs, NEW t \in Vagas, NEW p \in Pedidos,
           NEW d \in Entregadores, AceitarPedido(a, t, p, d)
    PROVE  Executou(a, t, Aceite(p, d))
<1> DEFINE e == estado[a]
           op == Aceite(p, d)
<1>0. Rastreadores # {} /\ Rastreadores \in SUBSET Rastreadores
  BY ReplicacaoAssumption
<1>1. /\ e \in Estado /\ op.tipo = "aceitar" /\ op.pedido = p /\ op.entregador = d
  BY OperacaoCampos DEF IInv, TypeOK
<1>2. /\ Executar(a, t, Aceitar(e, p, d, Rastreadores), op, ComAtribuicao(a, p, d))
      /\ Existe(e, p) /\ p \in e.semEntregador /\ usados' = usados /\ encerrados' = encerrados
  BY DEF AceitarPedido, PodeAceitar
<1>3. estado'[a] = Aceitar(e, p, d, Rastreadores)
  BY <1>2, ComAtribuicaoOk, ExecutarEfeito
<1>4. /\ estado'[a].pedidos[p].entregador = d /\ p \notin estado'[a].semEntregador
      /\ estado'[a].pedidos[p].preparado = e.pedidos[p].preparado
  BY <1>0, <1>1, <1>2, <1>3, AceitarEfeito, AceitarPreparo
<1>5. \A q \in Pedidos : /\ Existe(estado'[a], q) <=> Existe(e, q)
                         /\ q # p => /\ estado'[a].pedidos[q] = e.pedidos[q]
                                     /\ q \in estado'[a].semEntregador <=> q \in e.semEntregador
  BY <1>0, <1>1, <1>2, <1>3, AceitarEfeito
<1>6. Guarda(estado[a], op)' /\ op.pedido \in usados' /\ op # Posse
  BY <1>1, <1>2, <1>4, <1>5, OperacaoCampos DEF Guarda, Reflete, Historia
<1>7. ASSUME NEW o \in Pedida, Guarda(estado[a], o)
      PROVE  Guarda(estado[a], o)'
  <2>1. CASE o.pedido # p
    BY <1>2, <1>5, <1>7, <2>1, OperacaoCampos, GuardaOutro
  <2>2. CASE o.pedido = p
    BY <1>2, <1>4, <1>5, <1>7, <2>2, OperacaoCampos DEF Guarda, Reflete
  <2> QED BY <2>1, <2>2
<1>8. OutrasSeguem(t, a)
  BY <1>2, ComAtribuicaoOk, ExecutarEfeito, OutrasAtribuicao
<1> HIDE DEF op
<1> QED BY <1>1, <1>2, <1>5, <1>6, <1>7, <1>8, ComAtribuicaoOk, ExecutarEfeito DEF Executou, op

\* A delivered order leaves nothing to guard.
LEMMA ConfirmarExecutou ==
    ASSUME IInv, Historia, NEW a \in ADMs, NEW t \in Vagas, NEW p \in Pedidos,
           ConfirmarEntrega(a, t, p)
    PROVE  Executou(a, t, Entrega(p))
<1> DEFINE e == estado[a]
           op == Entrega(p)
<1>1. /\ e \in Estado /\ op.tipo = "confirmar" /\ op.pedido = p
  BY OperacaoCampos DEF IInv, TypeOK
<1>2. /\ Executar(a, t, Confirmar(e, p), op, tarefas)
      /\ Existe(e, p) /\ usados' = usados /\ encerrados' = encerrados \cup {p}
  BY DEF ConfirmarEntrega
<1>3. estado'[a] = Confirmar(e, p)
  BY <1>2, TarefasSaoOk, ExecutarEfeito
<1>4. \A q \in Pedidos : /\ Existe(estado'[a], q) <=> q # p /\ Existe(e, q)
                         /\ q # p => /\ estado'[a].pedidos[q] = e.pedidos[q]
                                     /\ q \in estado'[a].semEntregador <=> q \in e.semEntregador
  BY <1>1, <1>3, ConfirmarEfeito
<1>5. Guarda(estado[a], op)' /\ op.pedido \in usados' /\ op # Posse
  BY <1>1, <1>2, <1>4, OperacaoCampos DEF Guarda, Reflete, Historia
<1>6. ASSUME NEW o \in Pedida, Guarda(estado[a], o)
      PROVE  Guarda(estado[a], o)'
  <2>1. CASE o.pedido # p
    BY <1>2, <1>4, <1>6, <2>1, OperacaoCampos, GuardaOutro
  <2>2. CASE o.pedido = p
    BY <1>2, <1>4, <2>2, OperacaoCampos DEF Guarda, Reflete
  <2> QED BY <2>1, <2>2
<1>8. OutrasSeguem(t, a)
  BY <1>2, TarefasSaoOk, ExecutarEfeito, OutrasIguais
<1> HIDE DEF op
<1> QED BY <1>1, <1>2, <1>4, <1>5, <1>6, <1>8, TarefasSaoOk, ExecutarEfeito DEF Executou, op

\* An operation of leader a executes, or it repeats the answer to a driver.
LEMMA OperacaoEfeito ==
    ASSUME IInv, Historia, NEW a \in ADMs, Operacao(a)
    PROVE  \/ \E t \in Vagas, op \in Pedida : Executou(a, t, op)
           \/ \E p \in Pedidos, d \in Entregadores : RepetirAceite(a, p, d)
<1>1. ASSUME NEW t \in Vagas, NEW p \in Pedidos,
             \/ CriarPedido(a, t, p) \/ PrepararPedido(a, t, p) \/ ConfirmarEntrega(a, t, p)
             \/ \E d \in Entregadores : AceitarPedido(a, t, p, d)
      PROVE  \E op \in Pedida : Executou(a, t, op)
  <2>2. CASE CriarPedido(a, t, p)
    BY <2>2, CriarExecutou, OperacaoCampos
  <2>3. CASE PrepararPedido(a, t, p)
    BY <2>3, PrepararExecutou, OperacaoCampos
  <2>4. CASE ConfirmarEntrega(a, t, p)
    BY <2>4, ConfirmarExecutou, OperacaoCampos
  <2>5. ASSUME NEW d \in Entregadores, AceitarPedido(a, t, p, d)
        PROVE  \E op \in Pedida : Executou(a, t, op)
    BY <2>5, AceitarExecutou, OperacaoCampos
  <2> QED BY <1>1, <2>2, <2>3, <2>4, <2>5
<1> QED BY <1>1 DEF Operacao

-----------------------------------------------------------------------------
(* What the other steps do *)

\* The answer to the client
LEMMA ConcluirEfeito ==
    ASSUME IInv, NEW t \in Vagas, Concluir(t)
    PROVE  /\ tarefas[t].fase = "replicando" /\ tarefas[t].pendentes = {}
           /\ tarefas'[t].fase = "livre" /\ Outras(t)
           /\ UNCHANGED <<estado, lider, vivos, usados, encerrados, isolada, falhas, incompleta>>
           /\ respostas' \subseteq respostas \cup
                  {o \in {tarefas[t].op} : o # Posse}
           /\ \/ UNCHANGED firmes
              \/ /\ tarefas[t].op # Posse /\ tarefas[t].confirmadas >= Maioria
                 /\ tarefas[t].isolada
                 /\ firmes' = firmes \cup {tarefas[t].op}
<1>1. tarefas'[t] = Livre /\ Outras(t)
  BY DEF Concluir, IInv, TypeOK, Outras
<1>2. Livre.fase = "livre"
  BY DEF Livre
<1> QED BY <1>1, <1>2 DEF Concluir, Responder

\* The beginning of a merge
LEMMA IniciarEfeito ==
    ASSUME IInv, NEW t \in Vagas, IniciarColeta(t)
    PROVE  /\ tarefas[t].fase = "anunciando" /\ tarefas[t].pendentes = {}
           /\ tarefas'[t].fase = "coletando" /\ tarefas'[t].adm = tarefas[t].adm
           /\ tarefas'[t].estado = estado[tarefas[t].adm]
           /\ tarefas'[t].pendentes = ADMs \ {tarefas[t].adm}
           /\ Outras(t)
           /\ UNCHANGED <<estado, lider, vivos, clientes, isolada, falhas, incompleta>>
<1> DEFINE a == tarefas[t].adm
<1>1. tarefas'[t] = Coletando(a, estado[a]) /\ Outras(t)
  BY DEF IniciarColeta, IInv, TypeOK, Outras
<1>2. tarefas[t].fase = "anunciando" /\ tarefas[t] \in Tarefa
  BY DEF IniciarColeta, IInv, TypeOK
<1>4. /\ tarefas[t].pendentes = {}
      /\ UNCHANGED <<estado, lider, vivos, clientes, isolada, falhas, incompleta>>
  BY DEF IniciarColeta
<1>5. /\ tarefas'[t].fase = "coletando" /\ tarefas'[t].adm = a
      /\ tarefas'[t].estado = estado[a] /\ tarefas'[t].pendentes = ADMs \ {a}
  BY <1>1 DEF Coletando
<1> QED BY <1>1, <1>2, <1>4, <1>5

\* Its end
LEMMA AssumirEfeito ==
    ASSUME IInv, NEW t \in Vagas, AssumirEstado(t)
    PROVE  /\ tarefas[t].fase = "coletando" /\ tarefas[t].pendentes = {}
           /\ tarefas'[t].fase = "replicando" /\ tarefas'[t].adm = tarefas[t].adm
           /\ tarefas'[t].estado = tarefas[t].estado /\ tarefas'[t].op = Posse
           /\ tarefas'[t].pendentes = ADMs \ {tarefas[t].adm} /\ tarefas'[t].confirmadas = 1
           /\ Outras(t) /\ isolada' = Sozinha(t)
           /\ estado'[tarefas[t].adm] = tarefas[t].estado
           /\ \A c \in ADMs : c # tarefas[t].adm => estado'[c] = estado[c]
           /\ UNCHANGED <<lider, vivos, clientes, falhas, incompleta>>
<1> DEFINE x == tarefas[t]
<1>1. /\ x.fase = "coletando" /\ x.pendentes = {} /\ x \in Tarefa
      /\ estado' = [estado EXCEPT ![x.adm] = x.estado]
      /\ tarefas' = [tarefas EXCEPT ![t] = Replicando(x.adm, x.estado, Posse, Sozinha(t))]
      /\ isolada' = Sozinha(t)
      /\ UNCHANGED <<lider, vivos, clientes, falhas, incompleta>>
  BY DEF AssumirEstado, IInv, TypeOK
<1>2. x.adm \in ADMs
  BY <1>1, TarefaCampos
<1>3. tarefas'[t] = Replicando(x.adm, x.estado, Posse, Sozinha(t)) /\ Outras(t)
  BY <1>1 DEF IInv, TypeOK, Outras
<1>4. /\ estado'[x.adm] = x.estado
      /\ \A c \in ADMs : c # x.adm => estado'[c] = estado[c]
  BY <1>1, <1>2 DEF IInv, TypeOK
<1> HIDE DEF x
<1> QED BY <1>1, <1>2, <1>3, <1>4, NovaTarefa DEF x

\* A crash
LEMMA CairEfeito ==
    ASSUME IInv, NEW a \in ADMs, Cair(a)
    PROVE  /\ a \in vivos /\ vivos' = vivos \ {a} /\ Cardinality(vivos) > Maioria
           /\ \A t \in Vagas :
                  /\ \/ tarefas'[t].fase = "livre"
                     \/ tarefas'[t] = tarefas[t] /\ tarefas[t].adm # a
                  /\ tarefas[t].fase # "livre" /\ tarefas[t].adm # a => tarefas'[t] = tarefas[t]
           /\ UNCHANGED <<estado, lider, clientes, isolada, falhas>>
           /\ ~incompleta' => ~incompleta /\ (NoComando(a) => \A b \in vivos : lider[b] = a)
<1>1. ASSUME NEW t \in Vagas
      PROVE  /\ \/ tarefas'[t].fase = "livre"
                \/ tarefas'[t] = tarefas[t] /\ tarefas[t].adm # a
             /\ tarefas[t].fase # "livre" /\ tarefas[t].adm # a => tarefas'[t] = tarefas[t]
  <2>1. tarefas'[t] = IF tarefas[t] # Livre /\ tarefas[t].adm = a THEN Livre ELSE tarefas[t]
    BY DEF Cair
  <2> QED BY <2>1, NovaTarefa
<1> QED BY <1>1 DEF Cair

\* The beginning of a takeover
LEMMA SucederEfeito ==
    ASSUME IInv, NEW a \in ADMs, NEW t \in Vagas, Suceder(a, t)
    PROVE  /\ a \in vivos /\ lider[a] \notin vivos /\ \A b \in vivos : b <= a
           /\ tarefas[t].fase = "livre"
           /\ lider'[a] = a /\ \A c \in ADMs : c # a => lider'[c] = lider[c]
           /\ tarefas'[t].fase = "anunciando" /\ tarefas'[t].adm = a
           /\ tarefas'[t].pendentes = 1..(a - 1)
           /\ Outras(t)
           /\ UNCHANGED <<estado, vivos, clientes, isolada, falhas, incompleta>>
<1>1. /\ tarefas'[t] = Anunciando(a) /\ Outras(t)
      /\ lider'[a] = a /\ \A c \in ADMs : c # a => lider'[c] = lider[c]
  BY DEF Suceder, IInv, TypeOK, Outras
<1> QED BY <1>1, NovaTarefa DEF Suceder

-----------------------------------------------------------------------------
(* Leadership is kept *)

\* Two leaders are the same.
LEMMA LiderUnico ==
    ASSUME Lideranca, NEW a \in ADMs, NEW b \in ADMs, SouLider(a), SouLider(b)
    PROVE  a = b
BY ReplicacaoAssumption DEF Lideranca, SouLider, ADMs

\* The leader and the peers of a handler under way
LEMMA LiderDaVaga ==
    ASSUME IInv, Lideranca, NEW t \in Vagas, tarefas[t].fase # "livre"
    PROVE  /\ tarefas[t].adm \in ADMs /\ SouLider(tarefas[t].adm)
           /\ tarefas[t].adm \in vivos
           /\ tarefas[t].pendentes \in SUBSET ADMs /\ tarefas[t].adm \notin tarefas[t].pendentes
           /\ tarefas[t].fase = "anunciando" =>
                  tarefas[t].pendentes \subseteq 1..(tarefas[t].adm - 1)
           /\ \A a \in ADMs : SouLider(a) => a = tarefas[t].adm
<1>1. tarefas[t] \in Tarefa /\ tarefas[t] # Livre
  BY DEF IInv, TypeOK, Livre
<1>2. tarefas[t].fase \in {"replicando", "coletando", "anunciando"}
  BY <1>1, FasesDe
<1>3. tarefas[t].adm \in ADMs /\ tarefas[t].pendentes \in SUBSET ADMs
  BY <1>1, <1>2, TarefaCampos
<1> QED BY <1>1, <1>3, LiderUnico DEF Lideranca, SouLider

\* A takeover starts when nobody leads, so nothing is under way.
LEMMA SucederLivre ==
    ASSUME IInv, Lideranca, NEW a \in ADMs, NEW t \in Vagas, Suceder(a, t)
    PROVE  /\ \A b \in ADMs : ~SouLider(b)
           /\ \A u \in Vagas : tarefas[u].fase = "livre"
           /\ SouLider(a)' /\ \A b \in ADMs : SouLider(b)' => b = a
<1>1. /\ a \in vivos /\ lider[a] \notin vivos /\ \A b \in vivos : b <= a
      /\ lider'[a] = a /\ \A c \in ADMs : c # a => lider'[c] = lider[c]
      /\ vivos' = vivos
  BY SucederEfeito
<1>2. ASSUME NEW b \in ADMs, SouLider(b) PROVE FALSE
  <2>1. b \in vivos /\ lider[b] = b /\ a <= b /\ b <= a
    BY <1>1, <1>2 DEF Lideranca, SouLider
  <2>2. a = b
    BY <2>1, ReplicacaoAssumption DEF ADMs
  <2> QED BY <1>1, <2>1, <2>2
<1>3. ASSUME NEW u \in Vagas PROVE tarefas[u].fase = "livre"
  BY <1>2, LiderDaVaga
<1> QED BY <1>1, <1>2, <1>3 DEF SouLider

\* A step that changes neither the leaders nor the running ADMs
LEMMA LiderancaSegue ==
    ASSUME Lideranca, NEW t \in Vagas, UNCHANGED <<lider, vivos>>,
           \A u \in Vagas : u # t => /\ tarefas'[u].fase = tarefas[u].fase
                                     /\ tarefas[u].fase # "livre" =>
                                            /\ tarefas'[u].adm = tarefas[u].adm
                                            /\ tarefas'[u].pendentes = tarefas[u].pendentes,
           tarefas'[t].fase # "livre" =>
               /\ SouLider(tarefas'[t].adm)
               /\ tarefas'[t].adm \notin tarefas'[t].pendentes
               /\ tarefas'[t].fase # "anunciando"
    PROVE  Lideranca'
<1>1. ASSUME NEW u \in Vagas, tarefas'[u].fase # "livre"
      PROVE  /\ SouLider(tarefas[u].adm)'
             /\ tarefas'[u].adm \notin tarefas'[u].pendentes
             /\ tarefas'[u].fase = "anunciando" =>
                    tarefas'[u].pendentes \subseteq 1..(tarefas'[u].adm - 1)
  <2>1. CASE u = t
    BY <1>1, <2>1 DEF SouLider
  <2>2. CASE u # t
    <3>1. /\ tarefas'[u].fase = tarefas[u].fase /\ tarefas'[u].adm = tarefas[u].adm
          /\ tarefas'[u].pendentes = tarefas[u].pendentes /\ tarefas[u].fase # "livre"
      BY <1>1, <2>2
    <3>2. /\ SouLider(tarefas[u].adm)
          /\ tarefas[u].adm \notin tarefas[u].pendentes
          /\ tarefas[u].fase = "anunciando" =>
                 tarefas[u].pendentes \subseteq 1..(tarefas[u].adm - 1)
      BY <3>1 DEF Lideranca
    <3> QED BY <3>1, <3>2 DEF SouLider
  <2> QED BY <2>1, <2>2
<1>2. \A a \in ADMs : SouLider(a)' => \A b \in vivos' : b <= a
  BY DEF Lideranca, SouLider
<1> QED BY <1>1, <1>2 DEF Lideranca

\* Leadership is kept by every step.
LEMMA LiderancaPasso ==
    ASSUME Base, Next
    PROVE  Lideranca'
<1>0. IInv /\ Lideranca /\ Historia
  BY DEF Base
<1>1. ASSUME NEW a \in ADMs, Operacao(a) PROVE Lideranca'
  <2>1. ASSUME NEW t \in Vagas, NEW op \in Pedida, Executou(a, t, op) PROVE Lideranca'
    BY <1>0, <2>1, LiderancaSegue DEF Executou, OutrasSeguem
  <2>2. ASSUME NEW p \in Pedidos, NEW d \in Entregadores, RepetirAceite(a, p, d)
        PROVE  Lideranca'
    BY <1>0, <2>2 DEF RepetirAceite, Lideranca, SouLider
  <2> QED BY <1>0, <1>1, <2>1, <2>2, OperacaoEfeito
<1>2. ASSUME NEW a \in ADMs, Cair(a) PROVE Lideranca'
  <2>1. /\ vivos' = vivos \ {a} /\ lider' = lider
        /\ \A t \in Vagas : \/ tarefas'[t].fase = "livre"
                            \/ tarefas'[t] = tarefas[t] /\ tarefas[t].adm # a
    BY <1>0, <1>2, CairEfeito
  <2>2. \A b : SouLider(b)' <=> SouLider(b) /\ b # a
    BY <2>1 DEF SouLider
  <2>3. ASSUME NEW t \in Vagas, tarefas'[t].fase # "livre"
        PROVE  /\ SouLider(tarefas[t].adm)'
               /\ tarefas'[t].adm \notin tarefas'[t].pendentes
               /\ tarefas'[t].fase = "anunciando" =>
                      tarefas'[t].pendentes \subseteq 1..(tarefas'[t].adm - 1)
    <3>1. tarefas'[t] = tarefas[t] /\ tarefas[t].adm # a
      BY <2>1, <2>3
    <3>2. SouLider(tarefas[t].adm)
      BY <1>0, <2>3, <3>1 DEF Lideranca
    <3>3. SouLider(tarefas[t].adm)'
      BY <2>1, <3>1, <3>2 DEF SouLider
    <3> QED BY <1>0, <2>3, <3>1, <3>3 DEF Lideranca
  <2>4. ASSUME NEW b \in ADMs, SouLider(b)' PROVE \A c \in vivos' : c <= b
    BY <1>0, <2>1, <2>2, <2>4 DEF Lideranca
  <2> QED BY <2>3, <2>4 DEF Lideranca
<1>3. ASSUME NEW a \in ADMs, NEW t \in Vagas, Suceder(a, t) PROVE Lideranca'
  <2>1. /\ \A b \in vivos : b <= a
        /\ tarefas'[t].adm = a /\ tarefas'[t].pendentes = 1..(a - 1)
        /\ vivos' = vivos /\ Outras(t)
    BY <1>0, <1>3, SucederEfeito
  <2>2. a \in Nat /\ a \notin 1..(a - 1)
    BY ReplicacaoAssumption DEF ADMs
  <2>3. /\ \A u \in Vagas : tarefas[u].fase = "livre"
        /\ SouLider(a)' /\ \A b \in ADMs : SouLider(b)' => b = a
    BY <1>0, <1>3, SucederLivre
  <2>4. ASSUME NEW u \in Vagas, tarefas'[u].fase # "livre" PROVE u = t
    BY <2>1, <2>3, <2>4 DEF Outras
  <2>5. SouLider(tarefas[t].adm)'
    BY <2>1, <2>3
  <2> QED BY <2>1, <2>2, <2>3, <2>4, <2>5 DEF Lideranca
<1>4. ASSUME NEW t \in Vagas, NEW b \in ADMs, ReplicaConfirmada(t, b) \/ ReplicaFalha(t, b)
      PROVE  Lideranca'
  BY <1>0, <1>4, ReplicaEfeito, LiderDaVaga, LiderancaSegue DEF Outras
<1>5. ASSUME NEW t \in Vagas, NEW b \in ADMs, AnuncioEntregue(t, b) \/ AnuncioPerdido(t, b)
      PROVE  Lideranca'
  <2> DEFINE x == tarefas[t]
             y == tarefas'[t]
  <2>1. /\ x.fase = "anunciando" /\ b \in x.pendentes
        /\ y.fase = "anunciando" /\ y.adm = x.adm
        /\ y.pendentes = x.pendentes \ {b} /\ vivos' = vivos
        /\ \A c \in ADMs : c # b => lider'[c] = lider[c]
        /\ lider'[b] = x.adm \/ lider' = lider
        /\ Outras(t)
    BY <1>0, <1>5, AnuncioEfeito
  <2>2. /\ x.adm \in ADMs /\ SouLider(x.adm) /\ b # x.adm
        /\ x.pendentes \subseteq 1..(x.adm - 1) /\ x.adm \notin x.pendentes
        /\ \A a \in ADMs : SouLider(a) => a = x.adm
    BY <1>0, <2>1, LiderDaVaga
  <2>3. SouLider(x.adm)'
    BY <2>1, <2>2 DEF SouLider
  <2>4. ASSUME NEW a \in ADMs, SouLider(a)' PROVE a = x.adm
    BY <2>1, <2>2, <2>4 DEF SouLider
  <2>5. \A c \in vivos' : c <= x.adm
    BY <1>0, <2>1, <2>2 DEF Lideranca
  <2>6. ASSUME NEW u \in Vagas, tarefas'[u].fase # "livre"
        PROVE  /\ SouLider(tarefas[u].adm)'
               /\ tarefas'[u].adm \notin tarefas'[u].pendentes
               /\ tarefas'[u].fase = "anunciando" =>
                      tarefas'[u].pendentes \subseteq 1..(tarefas'[u].adm - 1)
    <3>1. CASE u = t
      BY <2>1, <2>2, <2>3, <3>1
    <3>2. CASE u # t
      <4>1. tarefas'[u] = tarefas[u]
        BY <2>1, <3>2 DEF Outras
      <4>2. tarefas[u].adm = x.adm
        BY <1>0, <2>2, <2>6, <4>1, LiderDaVaga
      <4>3. tarefas'[u].adm = tarefas'[t].adm
        BY <2>1, <4>1, <4>2
      <4>4. SouLider(tarefas[u].adm)'
        BY <2>3, <4>3 DEF SouLider
      <4> QED BY <1>0, <2>6, <4>1, <4>4 DEF Lideranca
    <3> QED BY <3>1, <3>2
  <2> QED BY <2>4, <2>5, <2>6 DEF Lideranca
<1>6. ASSUME NEW t \in Vagas, NEW b \in ADMs, ColetaRecebida(t, b) \/ ColetaFalha(t, b)
      PROVE  Lideranca'
  BY <1>0, <1>6, ColetaEfeito, LiderDaVaga, LiderancaSegue DEF Outras
<1>7. ASSUME NEW t \in Vagas, Concluir(t) PROVE Lideranca'
  BY <1>0, <1>7, ConcluirEfeito, LiderancaSegue DEF Outras
<1>8. ASSUME NEW t \in Vagas, IniciarColeta(t) PROVE Lideranca'
  BY <1>0, <1>8, IniciarEfeito, LiderDaVaga, LiderancaSegue DEF Outras
<1>9. ASSUME NEW t \in Vagas, AssumirEstado(t) PROVE Lideranca'
  BY <1>0, <1>9, AssumirEfeito, LiderDaVaga, LiderancaSegue DEF Outras
<1> QED BY <1>1, <1>2, <1>3, <1>4, <1>5, <1>6, <1>7, <1>8, <1>9 DEF Next, Passo

-----------------------------------------------------------------------------
(* What is known was created *)

\* Historia is kept by every step.
LEMMA HistoriaPasso ==
    ASSUME Base, Next
    PROVE  Historia'
<1>0. IInv /\ Lideranca /\ Historia
  BY DEF Base
<1>1. ASSUME NEW a \in ADMs, Operacao(a) PROVE Historia'
  <2>1. ASSUME NEW t \in Vagas, NEW op \in Pedida, Executou(a, t, op) PROVE Historia'
    <3>1. /\ tarefas'[t].fase = "replicando" /\ tarefas'[t].estado = estado'[a]
          /\ tarefas'[t].op = op /\ op.pedido \in usados' /\ usados \subseteq usados'
          /\ \A c \in ADMs : c # a => estado'[c] = estado[c]
          /\ \A q \in Pedidos : Existe(estado'[a], q) => Existe(estado[a], q) \/ q \in usados'
          /\ firmes' = firmes
      BY <2>1 DEF Executou
    <3>2. ASSUME NEW c \in ADMs, NEW p \in Pedidos, Existe(estado'[c], p) PROVE p \in usados'
      BY <1>0, <3>1, <3>2 DEF Historia
    <3>3. ASSUME NEW u \in Vagas, NEW p \in Pedidos, Carrega(u)', Existe(tarefas'[u].estado, p)
          PROVE  p \in usados'
      <4>1. CASE u = t
        BY <3>1, <3>2, <3>3, <4>1
      <4>2. CASE u # t
        <5>1. Carrega(u) /\ Existe(tarefas[u].estado, p)
          BY <2>1, <3>3, <4>2 DEF Executou, OutrasSeguem, Carrega
        <5> QED BY <1>0, <3>1, <5>1 DEF Historia
      <4> QED BY <4>1, <4>2
    <3>4. ASSUME NEW u \in Vagas, tarefas'[u].fase = "replicando", tarefas'[u].op # Posse
          PROVE  tarefas'[u].op.pedido \in usados'
      <4>1. CASE u = t
        BY <3>1, <4>1
      <4>2. CASE u # t
        <5>1. tarefas'[u] = tarefas[u]
          BY <2>1, <3>4, <4>2 DEF Executou, OutrasSeguem
        <5> QED BY <1>0, <3>1, <3>4, <5>1 DEF Historia
      <4> QED BY <4>1, <4>2
    <3> QED BY <1>0, <3>1, <3>2, <3>3, <3>4 DEF Historia, Existe
  <2>2. ASSUME NEW p \in Pedidos, NEW d \in Entregadores, RepetirAceite(a, p, d)
        PROVE  Historia'
    BY <1>0, <2>2 DEF RepetirAceite, Historia, Carrega, Existe
  <2> QED BY <1>0, <1>1, <2>1, <2>2, OperacaoEfeito
<1>2. ASSUME NEW a \in ADMs, Cair(a) PROVE Historia'
  <2>1. /\ \A t \in Vagas : tarefas'[t].fase = "livre" \/ tarefas'[t] = tarefas[t]
        /\ UNCHANGED <<estado, usados, firmes>>
    BY <1>0, <1>2, CairEfeito DEF clientes
  <2>2. \A t \in Vagas : tarefas'[t].fase \in {"replicando", "coletando"}
                             => tarefas'[t] = tarefas[t]
    BY <2>1
  <2> QED BY <1>0, <2>1, <2>2 DEF Historia, Carrega, Existe
<1>3. ASSUME NEW t \in Vagas, UNCHANGED <<usados>>, firmes' = firmes \/
                 (/\ firmes' = firmes \cup {tarefas[t].op} /\ tarefas[t].op # Posse
                  /\ tarefas[t].fase = "replicando"),
             \A a \in ADMs, p \in Pedidos : Existe(estado'[a], p) => p \in usados,
             \A p \in Pedidos : Carrega(t)' /\ Existe(tarefas'[t].estado, p) => p \in usados,
             tarefas'[t].fase = "replicando" =>
                 \/ tarefas'[t].op = Posse
                 \/ tarefas[t].fase = "replicando" /\ tarefas'[t].op = tarefas[t].op,
             Outras(t)
      PROVE  Historia'
  <2>1. \A u \in Vagas : u # t => tarefas'[u] = tarefas[u]
    BY <1>3 DEF Outras
  <2>2. ASSUME NEW u \in Vagas, NEW p \in Pedidos, Carrega(u)', Existe(tarefas'[u].estado, p)
        PROVE  p \in usados
    <3>1. CASE u = t
      BY <1>3, <2>2, <3>1
    <3>2. CASE u # t
      BY <1>0, <2>1, <2>2, <3>2 DEF Historia, Carrega
    <3> QED BY <3>1, <3>2
  <2>3. ASSUME NEW u \in Vagas, tarefas'[u].fase = "replicando", tarefas'[u].op # Posse
        PROVE  tarefas'[u].op.pedido \in usados
    <3>1. CASE u = t
      BY <1>0, <1>3, <2>3, <3>1 DEF Historia
    <3>2. CASE u # t
      BY <1>0, <2>1, <2>3, <3>2 DEF Historia
    <3> QED BY <3>1, <3>2
  <2>4. \A o \in firmes' : o.pedido \in usados
    BY <1>0, <1>3 DEF Historia
  <2> QED BY <1>3, <2>2, <2>3, <2>4 DEF Historia, Existe
<1>4. ASSUME NEW a \in ADMs, NEW t \in Vagas, Suceder(a, t) PROVE Historia'
  <2>1. /\ UNCHANGED <<estado, usados, firmes>> /\ tarefas'[t].fase = "anunciando" /\ Outras(t)
    BY <1>0, <1>4, SucederEfeito DEF clientes
  <2> QED BY <1>0, <1>3, <2>1 DEF Historia, Carrega
<1>5. ASSUME NEW t \in Vagas, NEW b \in ADMs, ReplicaConfirmada(t, b) \/ ReplicaFalha(t, b)
      PROVE  Historia'
  <2> DEFINE x == tarefas[t]
  <2>1. /\ x.fase = "replicando" /\ tarefas'[t].fase = "replicando"
        /\ tarefas'[t].estado = x.estado /\ tarefas'[t].op = x.op /\ Outras(t)
        /\ UNCHANGED estado \/ Recebido(b, x.adm, x.estado)
        /\ UNCHANGED <<usados, firmes>>
    BY <1>0, <1>5, ReplicaEfeito DEF clientes
  <2>2. \A p \in Pedidos : Existe(x.estado, p) => p \in usados
    BY <1>0, <2>1 DEF Historia, Carrega
  <2>3. \A a \in ADMs : estado'[a] = estado[a] \/ estado'[a] = x.estado
    BY <2>1 DEF Recebido
  <2>4. \A a \in ADMs, p \in Pedidos : Existe(estado'[a], p) => p \in usados
    BY <1>0, <2>2, <2>3 DEF Historia
  <2> QED BY <1>3, <2>1, <2>2, <2>4
<1>6. ASSUME NEW t \in Vagas, NEW b \in ADMs, AnuncioEntregue(t, b) \/ AnuncioPerdido(t, b)
      PROVE  Historia'
  <2>1. /\ UNCHANGED <<estado, usados, firmes>> /\ tarefas'[t].fase = "anunciando" /\ Outras(t)
    BY <1>0, <1>6, AnuncioEfeito DEF clientes
  <2> QED BY <1>0, <1>3, <2>1 DEF Historia, Carrega
<1>7. ASSUME NEW t \in Vagas, NEW b \in ADMs, ColetaRecebida(t, b) \/ ColetaFalha(t, b)
      PROVE  Historia'
  <2> DEFINE x == tarefas[t]
  <2>1. /\ UNCHANGED <<estado, usados, firmes>> /\ x.fase = "coletando"
        /\ tarefas'[t].fase = "coletando" /\ Outras(t)
        /\ tarefas'[t].estado = x.estado \/ tarefas'[t].estado = Mesclar(x.estado, estado[b])
    BY <1>0, <1>7, ColetaEfeito DEF clientes
  <2>2. x.estado \in Estado /\ estado[b] \in Estado
    BY <1>0, <2>1, TarefaCampos DEF IInv, TypeOK
  <2>3. \A p \in Pedidos : Existe(tarefas'[t].estado, p) => p \in usados
    BY <1>0, <2>1, <2>2, MesclarEfeito DEF Historia, Carrega
  <2> QED BY <1>0, <1>3, <2>1, <2>3 DEF Historia
<1>8. ASSUME NEW t \in Vagas, Concluir(t) PROVE Historia'
  <2>1. /\ UNCHANGED <<estado, usados>> /\ tarefas[t].fase = "replicando"
        /\ tarefas'[t].fase = "livre" /\ Outras(t)
        /\ firmes' = firmes \/ (tarefas[t].op # Posse /\ firmes' = firmes \cup {tarefas[t].op})
    BY <1>0, <1>8, ConcluirEfeito
  <2> QED BY <1>0, <1>3, <2>1 DEF Historia, Carrega
<1>9. ASSUME NEW t \in Vagas, IniciarColeta(t) PROVE Historia'
  <2>1. /\ UNCHANGED <<estado, usados, firmes>> /\ tarefas[t].fase = "anunciando"
        /\ tarefas'[t].fase = "coletando" /\ Outras(t)
        /\ tarefas'[t].estado = estado[tarefas[t].adm]
    BY <1>0, <1>9, IniciarEfeito DEF clientes
  <2>2. tarefas[t].adm \in ADMs
    BY <1>0, <2>1, LiderDaVaga
  <2> QED BY <1>0, <1>3, <2>1, <2>2 DEF Historia
<1>10. ASSUME NEW t \in Vagas, AssumirEstado(t) PROVE Historia'
  <2> DEFINE x == tarefas[t]
  <2>1. /\ x.fase = "coletando" /\ tarefas'[t].fase = "replicando" /\ tarefas'[t].op = Posse
        /\ tarefas'[t].estado = x.estado /\ Outras(t)
        /\ estado'[x.adm] = x.estado
        /\ \A c \in ADMs : c # x.adm => estado'[c] = estado[c]
        /\ UNCHANGED <<usados, firmes>>
    BY <1>0, <1>10, AssumirEfeito DEF clientes
  <2>2. \A p \in Pedidos : Existe(x.estado, p) => p \in usados
    BY <1>0, <2>1 DEF Historia, Carrega
  <2>3. \A a \in ADMs, p \in Pedidos : Existe(estado'[a], p) => p \in usados
    BY <1>0, <2>1, <2>2 DEF Historia
  <2> QED BY <1>3, <2>1, <2>2, <2>3
<1> QED BY <1>1, <1>2, <1>4, <1>5, <1>6, <1>7, <1>8, <1>9, <1>10 DEF Next, Passo

\* The base of the other invariants is inductive.
LEMMA BasePasso == Base /\ [Next]_vars => Base'
<1> SUFFICES ASSUME Base, [Next]_vars PROVE Base'
  OBVIOUS
<1>1. IInv'
  BY PassoIndutivo DEF Base
<1>2. CASE Next
  BY <1>1, <1>2, LiderancaPasso, HistoriaPasso DEF Base
<1>3. CASE UNCHANGED vars
  <2>1. Lideranca'
    BY <1>3 DEF vars, Base, Lideranca, SouLider
  <2>2. Historia'
    BY <1>3 DEF vars, clientes, Base, Historia, Carrega, Existe
  <2> QED BY <1>1, <2>1, <2>2 DEF Base
<1> QED BY <1>2, <1>3

\* It holds initially.
LEMMA InicioBase == Init => Base
<1> SUFFICES ASSUME Init PROVE Base
  OBVIOUS
<1>1. Livre.fase = "livre"
  BY DEF Livre
<1>2. \A t \in Vagas : tarefas[t].fase = "livre"
  BY <1>1 DEF Init
<1>3. Lideranca
  BY <1>2, ReplicacaoAssumption DEF Init, Lideranca, SouLider, ADMs
<1>4. Historia
  BY <1>2 DEF Init, Historia, Carrega, Existe, EstadoVazio
<1> QED BY <1>3, <1>4, InicioOk DEF Base

-----------------------------------------------------------------------------
(* While no call between running ADMs has failed *)

\* The running ADMs follow the leader, but those it has still to tell.
Seguem ==
    \A a \in ADMs, b \in vivos : SouLider(a) =>
        \/ lider[b] = a
        \/ \E t \in Vagas : tarefas[t].fase = "anunciando" /\ b \in tarefas[t].pendentes

\* Two accepts of an order are of the same driver.
MesmoDono(o1, o2) ==
    o1.tipo = "aceitar" /\ o2.tipo = "aceitar" /\ o1.pedido = o2.pedido
        => o1.entregador = o2.entregador

\* Operation o is wherever it could be taken from, but for the ADMs of P, and nobody
\* else is accepting its order.
Guardada(o, P) ==
    /\ \A b \in vivos : b \notin P => Guarda(estado[b], o)
    /\ \A t \in Vagas : Carrega(t) => Guarda(tarefas[t].estado, o)
    /\ \A t \in Vagas : tarefas[t].fase = "replicando" /\ tarefas[t].op # Posse
                            => MesmoDono(tarefas[t].op, o)

Firmes == \A o \in firmes : Guardada(o, {})

\* An operation that began alone: until it is answered there is no takeover, and the
\* running ADMs that do not have it are still to be called.
EmCurso(t) == tarefas[t].fase = "replicando" /\ tarefas[t].op # Posse /\ tarefas[t].isolada

Iniciadas ==
    \A t \in Vagas : EmCurso(t) =>
        /\ Guardada(tarefas[t].op, tarefas[t].pendentes)
        /\ \A u \in Vagas : tarefas[u].fase \in {"livre", "replicando"}

\* If the last replication began alone, its snapshot is the state of the leader and
\* the running ADMs that do not have it are still to be called.
Iguais ==
    isolada /\ (\A t \in Vagas : tarefas[t].fase \in {"livre", "replicando"}) =>
        /\ \A a \in ADMs, b \in vivos : SouLider(a) =>
               \/ estado[b] = estado[a]
               \/ \E t \in Vagas : tarefas[t].fase = "replicando" /\ b \in tarefas[t].pendentes
        /\ \A t \in Vagas : tarefas[t].fase = "replicando" =>
               tarefas[t].estado = estado[tarefas[t].adm]

Juntos == Seguem /\ Firmes /\ Iniciadas /\ Iguais

SInv == Base /\ (falhas = 0 => Juntos)

\* The count of failed calls does not go down.
LEMMA FalhasCrescem ==
    ASSUME Base, Next, falhas' = 0
    PROVE  falhas = 0
<1>0. IInv /\ Historia
  BY DEF Base
<1>1. ASSUME NEW a \in ADMs, Operacao(a) PROVE falhas = 0
  BY <1>0, <1>1, OperacaoEfeito DEF Executou, RepetirAceite
<1>2. ASSUME NEW t \in Vagas, NEW b \in ADMs,
             \/ ReplicaConfirmada(t, b) \/ ReplicaFalha(t, b) \/ AnuncioEntregue(t, b)
             \/ AnuncioPerdido(t, b) \/ ColetaRecebida(t, b) \/ ColetaFalha(t, b)
      PROVE  falhas = 0
  <2>1. CASE ReplicaConfirmada(t, b) \/ ReplicaFalha(t, b)
    BY <1>0, <2>1, ReplicaEfeito
  <2>2. CASE AnuncioEntregue(t, b) \/ AnuncioPerdido(t, b)
    BY <1>0, <2>2, AnuncioEfeito
  <2>3. CASE ColetaRecebida(t, b) \/ ColetaFalha(t, b)
    BY <1>0, <2>3, ColetaEfeito
  <2> QED BY <1>2, <2>1, <2>2, <2>3
<1> QED BY <1>1, <1>2 DEF Next, Passo, Cair, Suceder, Concluir, IniciarColeta, AssumirEstado

\* The running ADMs keep following the leader.
LEMMA SeguemPasso ==
    ASSUME Base, Seguem, Next, falhas' = 0
    PROVE  Seguem'
<1>0. /\ IInv /\ Lideranca /\ Historia /\ falhas = 0 /\ vivos \subseteq ADMs
  BY FalhasCrescem DEF Base, IInv, TypeOK
<1>1. ASSUME UNCHANGED <<lider, vivos>>,
             \A t \in Vagas : tarefas[t].fase = "anunciando" =>
                 \/ tarefas'[t] = tarefas[t]
                 \/ tarefas[t].pendentes = {}
      PROVE  Seguem'
  <2>1. ASSUME NEW t \in Vagas, NEW b, tarefas[t].fase = "anunciando",
               b \in tarefas[t].pendentes
        PROVE  tarefas'[t].fase = "anunciando" /\ b \in tarefas'[t].pendentes
    BY <1>1, <2>1
  <2> QED BY <1>1, <2>1 DEF Seguem, SouLider
<1>2. ASSUME NEW a \in ADMs, Operacao(a) PROVE Seguem'
  <2>1. ASSUME NEW t \in Vagas, NEW op \in Pedida, Executou(a, t, op) PROVE Seguem'
    BY <1>1, <2>1 DEF Executou, OutrasSeguem
  <2>2. ASSUME NEW p \in Pedidos, NEW d \in Entregadores, RepetirAceite(a, p, d) PROVE Seguem'
    BY <1>1, <2>2 DEF RepetirAceite
  <2> QED BY <1>0, <1>2, <2>1, <2>2, OperacaoEfeito
<1>3. ASSUME NEW a \in ADMs, Cair(a) PROVE Seguem'
  <2>1. /\ vivos' = vivos \ {a} /\ lider' = lider
        /\ \A t \in Vagas : tarefas[t].fase # "livre" /\ tarefas[t].adm # a
                                => tarefas'[t] = tarefas[t]
    BY <1>0, <1>3, CairEfeito
  <2>2. ASSUME NEW c \in ADMs, NEW b \in vivos', SouLider(c)', lider[b] # c
        PROVE  \E t \in Vagas : tarefas'[t].fase = "anunciando" /\ b \in tarefas'[t].pendentes
    <3>1. SouLider(c) /\ c # a /\ b \in vivos
      BY <2>1, <2>2 DEF SouLider
    <3>2. PICK t \in Vagas : tarefas[t].fase = "anunciando" /\ b \in tarefas[t].pendentes
      BY <2>2, <3>1 DEF Seguem
    <3>3. tarefas[t].adm = c
      BY <1>0, <3>1, <3>2, LiderDaVaga
    <3> QED BY <2>1, <3>1, <3>2, <3>3
  <2> QED BY <2>1, <2>2 DEF Seguem
<1>4. ASSUME NEW a \in ADMs, NEW t \in Vagas, Suceder(a, t) PROVE Seguem'
  <2>1. /\ \A b \in vivos : b <= a
        /\ lider'[a] = a /\ tarefas'[t].fase = "anunciando" /\ tarefas'[t].pendentes = 1..(a - 1)
        /\ vivos' = vivos
    BY <1>0, <1>4, SucederEfeito
  <2>2. \A b \in ADMs : SouLider(b)' => b = a
    BY <1>0, <1>4, SucederLivre
  <2>3. \A b \in vivos : b = a \/ b \in 1..(a - 1)
    BY <1>0, <2>1, ReplicacaoAssumption DEF ADMs
  <2> QED BY <2>1, <2>2, <2>3 DEF Seguem
<1>5. ASSUME NEW t \in Vagas, NEW b \in ADMs, AnuncioEntregue(t, b) \/ AnuncioPerdido(t, b)
      PROVE  Seguem'
  <2> DEFINE x == tarefas[t]
  <2>1. /\ x.fase = "anunciando" /\ b \in x.pendentes
        /\ tarefas'[t].fase = "anunciando" /\ tarefas'[t].pendentes = x.pendentes \ {b}
        /\ Outras(t) /\ vivos' = vivos
        /\ \A c \in ADMs : c # b => lider'[c] = lider[c]
        /\ \/ lider'[b] = x.adm
           \/ lider' = lider /\ b \notin vivos
    BY <1>0, <1>5, AnuncioEfeito
  <2>2. \A a \in ADMs : SouLider(a) => a = x.adm
    BY <1>0, <2>1, LiderDaVaga
  <2>3. /\ x.adm \in ADMs /\ SouLider(x.adm) /\ b # x.adm
    BY <1>0, <2>1, LiderDaVaga
  <2>4. ASSUME NEW a \in ADMs, SouLider(a)' PROVE SouLider(a) /\ a = x.adm
    BY <2>1, <2>2, <2>3, <2>4 DEF SouLider
  <2>5. ASSUME NEW a \in ADMs, SouLider(a)', NEW c \in vivos, lider'[c] # a
        PROVE  \E u \in Vagas : tarefas'[u].fase = "anunciando" /\ c \in tarefas'[u].pendentes
    <3>1. c # b
      BY <2>1, <2>4, <2>5
    <3>2. PICK u \in Vagas : tarefas[u].fase = "anunciando" /\ c \in tarefas[u].pendentes
      BY <1>0, <2>1, <2>4, <2>5, <3>1 DEF Seguem
    <3> QED BY <2>1, <3>1, <3>2 DEF Outras
  <2> QED BY <2>1, <2>5 DEF Seguem
<1>6. ASSUME NEW t \in Vagas, NEW b \in ADMs, ReplicaConfirmada(t, b) \/ ReplicaFalha(t, b)
      PROVE  Seguem'
  BY <1>0, <1>1, <1>6, ReplicaEfeito DEF Outras
<1>7. ASSUME NEW t \in Vagas, NEW b \in ADMs, ColetaRecebida(t, b) \/ ColetaFalha(t, b)
      PROVE  Seguem'
  BY <1>0, <1>1, <1>7, ColetaEfeito DEF Outras
<1>8. ASSUME NEW t \in Vagas, Concluir(t) PROVE Seguem'
  BY <1>0, <1>1, <1>8, ConcluirEfeito DEF Outras
<1>9. ASSUME NEW t \in Vagas, IniciarColeta(t) PROVE Seguem'
  BY <1>0, <1>1, <1>9, IniciarEfeito DEF Outras
<1>10. ASSUME NEW t \in Vagas, AssumirEstado(t) PROVE Seguem'
  BY <1>0, <1>1, <1>10, AssumirEfeito DEF Outras
<1> QED BY <1>2, <1>3, <1>4, <1>5, <1>6, <1>7, <1>8, <1>9, <1>10 DEF Next, Passo

-----------------------------------------------------------------------------
(* What was answered, and what began alone, is kept *)

\* A merge guards what both states guard.
LEMMA GuardaMescla ==
    ASSUME NEW o \in Pedida, NEW e \in Estado, NEW f \in Estado, Coerente(e), Coerente(f),
           Guarda(e, o), Guarda(f, o)
    PROVE  Guarda(Mesclar(e, f), o)
<1> DEFINE g == Mesclar(e, f)
           p == o.pedido
<1>1. p \in Pedidos /\ o.tipo \in {"criar", "preparar", "confirmar", "aceitar"}
  BY OperacaoCampos
<1>2. /\ Existe(g, p) <=> Existe(e, p) \/ Existe(f, p)
      /\ Existe(e, p) => g.pedidos[p] = e.pedidos[p]
      /\ ~Existe(e, p) => g.pedidos[p] = f.pedidos[p]
      /\ p \in g.semEntregador => p \in e.semEntregador \cup f.semEntregador
  BY <1>1, MesclarEfeito
<1>3. /\ p \in e.semEntregador => Existe(e, p)
      /\ p \in f.semEntregador => Existe(f, p)
  BY <1>1 DEF Coerente
<1> HIDE DEF g
<1>4. Reflete(g, o)
  BY <1>1, <1>2 DEF Guarda, Reflete
<1>5. o.tipo = "aceitar" /\ Existe(g, p) => p \notin g.semEntregador
  BY <1>2, <1>3 DEF Guarda
<1>6. o.tipo = "aceitar" /\ Existe(g, p) => g.pedidos[p].entregador = o.entregador
  BY <1>2 DEF Guarda
<1> QED BY <1>4, <1>5, <1>6 DEF Guarda, g

\* Operations that the invariants speak of
LEMMA OperacoesTipo ==
    ASSUME Base
    PROVE  /\ \A o \in firmes : o \in Pedida /\ o.pedido \in usados
           /\ \A t \in Vagas : tarefas[t].fase = "replicando" /\ tarefas[t].op # Posse =>
                  tarefas[t].op \in Pedida /\ tarefas[t].op.pedido \in usados
<1>1. \A t \in Vagas : tarefas[t] \in Tarefa
  BY DEF Base, IInv, TypeOK
<1>2. \A t \in Vagas : tarefas[t].fase = "replicando" => tarefas[t].op \in Pedida \cup {Posse}
  BY <1>1, TarefaCampos
<1> QED BY <1>2 DEF Base, IInv, TypeOK, Historia

\* What is guarded stays so when the step of a task takes states that guard it.
LEMMA GuardadaSegue ==
    ASSUME NEW o \in Pedida, NEW P, NEW Q, NEW t \in Vagas, Outras(t), encerrados' = encerrados,
           Guardada(o, P),
           \A b \in vivos' : b \notin Q => Guarda(estado'[b], o),
           Carrega(t)' => Guarda(tarefas'[t].estado, o),
           tarefas'[t].fase = "replicando" =>
               \/ tarefas'[t].op = Posse
               \/ tarefas[t].fase = "replicando" /\ tarefas'[t].op = tarefas[t].op
    PROVE  Guardada(o, Q)'
<1>1. ASSUME NEW b \in vivos', b \notin Q PROVE Guarda(estado[b], o)'
  BY <1>1 DEF Guarda, Reflete, Existe
<1>2. ASSUME NEW u \in Vagas, Carrega(u)' PROVE Guarda(tarefas[u].estado, o)'
  <2>1. Guarda(tarefas'[u].estado, o)
    <3>1. CASE u = t
      BY <1>2, <3>1
    <3>2. CASE u # t
      BY <1>2, <3>2 DEF Outras, Guardada, Carrega
    <3> QED BY <3>1, <3>2
  <2> QED BY <2>1 DEF Guarda, Reflete, Existe
<1>3. ASSUME NEW u \in Vagas, tarefas'[u].fase = "replicando", tarefas'[u].op # Posse
      PROVE  MesmoDono(tarefas'[u].op, o)
  <2>1. tarefas[u].fase = "replicando" /\ tarefas'[u].op = tarefas[u].op
    BY <1>3 DEF Outras
  <2> QED BY <1>3, <2>1 DEF Guardada
<1> QED BY <1>1, <1>2, <1>3 DEF Guardada, MesmoDono

\* An operation of the leader, which guards it, keeps what is guarded.
LEMMA GuardadaExecutou ==
    ASSUME IInv, NEW o \in Pedida, o.pedido \in usados, NEW P, NEW a \in ADMs, a \notin P,
           NEW t \in Vagas, NEW op \in Pedida, Executou(a, t, op), Guardada(o, P)
    PROVE  Guardada(o, P)'
<1>1. /\ SouLider(a) /\ tarefas'[t].fase = "replicando" /\ tarefas'[t].estado = estado'[a]
      /\ tarefas'[t].op = op /\ \A c \in ADMs : c # a => estado'[c] = estado[c]
      /\ UNCHANGED <<lider, vivos>> /\ encerrados \subseteq encerrados'
      /\ op.tipo = "aceitar" => /\ Existe(estado[a], op.pedido)
                                /\ op.pedido \in estado[a].semEntregador
      /\ \A x \in Pedida : x.pedido \in usados /\ Guarda(estado[a], x) => Guarda(estado[a], x)'
  BY DEF Executou
<1>2. a \in vivos /\ vivos \subseteq ADMs /\ Guarda(estado[a], o)
  BY <1>1 DEF SouLider, Guardada, IInv, TypeOK
<1>3. Guarda(estado[a], o)'
  BY <1>1, <1>2
<1>4. ASSUME NEW b \in vivos', b \notin P PROVE Guarda(estado[b], o)'
  <2>1. CASE b = a
    BY <1>3, <2>1
  <2>2. CASE b # a
    <3>1. estado'[b] = estado[b] /\ Guarda(estado[b], o)
      BY <1>1, <1>2, <1>4, <2>2 DEF Guardada
    <3> QED BY <1>1, <3>1 DEF Guarda, Reflete, Existe
  <2> QED BY <2>1, <2>2
<1>5. ASSUME NEW u \in Vagas, Carrega(u)' PROVE Guarda(tarefas[u].estado, o)'
  <2>1. CASE u = t
    BY <1>1, <1>3, <2>1 DEF Guarda, Reflete, Existe
  <2>2. CASE u # t
    <3>1. Carrega(u)
      BY <1>5, <2>2 DEF Executou, OutrasSeguem, Carrega
    <3>2. Guarda(tarefas[u].estado, o)
      BY <3>1 DEF Guardada
    <3> QED BY <1>2, <2>2, <3>1, <3>2 DEF Executou, OutrasSeguem
  <2> QED BY <2>1, <2>2
<1>6. ASSUME NEW u \in Vagas, tarefas'[u].fase = "replicando", tarefas'[u].op # Posse
      PROVE  MesmoDono(tarefas'[u].op, o)
  <2>1. CASE u = t
    <3>1. o.tipo = "aceitar" /\ o.pedido = op.pedido /\ op.tipo = "aceitar" => FALSE
      BY <1>1, <1>2 DEF Guarda
    <3> QED BY <1>1, <2>1, <3>1 DEF MesmoDono
  <2>2. CASE u # t
    BY <1>6, <2>2 DEF Executou, OutrasSeguem, Guardada
  <2> QED BY <2>1, <2>2
<1> QED BY <1>4, <1>5, <1>6 DEF Guardada, MesmoDono

\* A snapshot that is sent guards what is guarded, at the ADM that it is sent to too.
LEMMA GuardadaReplica ==
    ASSUME IInv, NEW o \in Pedida, NEW P, NEW Q, NEW t \in Vagas, NEW b \in ADMs,
           ReplicaConfirmada(t, b) \/ ReplicaFalha(t, b), falhas' = 0, Guardada(o, P),
           Q = P \/ (Q = P \ {b} /\ (b \in vivos => lider[b] = tarefas[t].adm))
    PROVE  Guardada(o, Q)'
<1> DEFINE x == tarefas[t]
<1>1. /\ x.fase = "replicando" /\ tarefas'[t].fase = "replicando"
      /\ tarefas'[t].estado = x.estado /\ tarefas'[t].op = x.op /\ Outras(t)
      /\ UNCHANGED <<lider, vivos, encerrados>>
      /\ \/ Recebido(b, x.adm, x.estado)
         \/ b \notin vivos /\ UNCHANGED estado
  BY ReplicaEfeito DEF clientes
<1>2. Guarda(x.estado, o)
  BY <1>1 DEF Guardada, Carrega
<1>3. vivos \subseteq ADMs
  BY DEF IInv, TypeOK
<1>4. ASSUME NEW c \in vivos', c \notin Q PROVE Guarda(estado'[c], o)
  <2>1. CASE c \notin P
    <3>1. Guarda(estado[c], o)
      BY <1>1, <1>4, <2>1 DEF Guardada
    <3>2. estado'[c] = estado[c] \/ estado'[c] = x.estado
      BY <1>1, <1>3, <1>4 DEF Recebido
    <3> QED BY <1>2, <3>1, <3>2
  <2>2. CASE c \in P
    <3>1. c = b /\ b \in vivos /\ lider[b] = x.adm
      BY <1>1, <1>4, <2>2
    <3>2. estado'[c] = x.estado
      BY <1>1, <3>1 DEF Recebido
    <3> QED BY <1>2, <3>2
  <2> QED BY <2>1, <2>2
<1> HIDE DEF x
<1> QED BY <1>1, <1>2, <1>4, GuardadaSegue DEF x

\* No operation that began alone is under way in a takeover.
LEMMA TomadaSemCurso ==
    ASSUME Iniciadas, NEW t \in Vagas, tarefas[t].fase \in {"anunciando", "coletando"},
           Outras(t), ~EmCurso(t)'
    PROVE  Iniciadas'
<1>1. ASSUME NEW u \in Vagas, EmCurso(u)' PROVE FALSE
  <2>1. u # t
    BY <1>1
  <2>2. EmCurso(u)
    BY <1>1, <2>1 DEF Outras, EmCurso
  <2> QED BY <2>2 DEF Iniciadas
<1> QED BY <1>1 DEF Iniciadas

\* Guarded, for a task that has this operation and these peers to call
LEMMA GuardadaCampos ==
    ASSUME NEW u \in Vagas, NEW o, NEW P, tarefas'[u].op = o, tarefas'[u].pendentes = P,
           Guardada(o, P)'
    PROVE  Guardada(tarefas[u].op, tarefas[u].pendentes)'
<1>1. \A b \in vivos' : b \notin tarefas'[u].pendentes => Guarda(estado[b], tarefas[u].op)'
  BY DEF Guardada, Guarda, Reflete, Existe
<1>2. \A v \in Vagas : Carrega(v)' => Guarda(tarefas[v].estado, tarefas[u].op)'
  BY DEF Guardada, Guarda, Reflete, Existe
<1>3. \A v \in Vagas : tarefas'[v].fase = "replicando" /\ tarefas'[v].op # Posse
                               => MesmoDono(tarefas[v].op, tarefas[u].op)'
  BY DEF Guardada, MesmoDono
<1> QED BY <1>1, <1>2, <1>3 DEF Guardada, MesmoDono

\* What was answered and what began alone stays guarded in every step.
LEMMA GuardadasPasso ==
    ASSUME Base, Seguem, Firmes, Iniciadas, Next, falhas' = 0
    PROVE  Firmes' /\ Iniciadas'
<1>0. IInv /\ Lideranca /\ Historia /\ vivos \subseteq ADMs
  BY DEF Base, IInv, TypeOK
<1>1. ASSUME NEW a \in ADMs, Operacao(a) PROVE Firmes' /\ Iniciadas'
  <2>1. ASSUME NEW t \in Vagas, NEW op \in Pedida, Executou(a, t, op)
        PROVE  Firmes' /\ Iniciadas'
    <3>1. /\ SouLider(a) /\ tarefas'[t].fase = "replicando" /\ tarefas'[t].estado = estado'[a]
          /\ tarefas'[t].op = op /\ tarefas'[t].pendentes = ADMs \ {a}
          /\ tarefas'[t].isolada = Sozinha(t)
          /\ firmes' = firmes /\ vivos' = vivos /\ Guarda(estado[a], op)'
      BY <2>1 DEF Executou
    <3>2. Firmes'
      <4>1. ASSUME NEW o \in firmes PROVE Guardada(o, {})'
        BY <1>0, <2>1, <4>1, OperacoesTipo, GuardadaExecutou DEF Firmes
      <4> QED BY <3>1, <4>1 DEF Firmes
    <3>3. ASSUME NEW u \in Vagas, EmCurso(u)'
          PROVE  /\ Guardada(tarefas[u].op, tarefas[u].pendentes)'
                 /\ \A v \in Vagas : tarefas'[v].fase \in {"livre", "replicando"}
      <4>1. CASE u = t
        <5>1. Sozinha(t)
          BY <3>1, <3>3, <4>1 DEF EmCurso
        <5>2. \A v \in Vagas : v # t => tarefas[v].fase = "livre"
          BY <5>1 DEF Sozinha, Livre
        <5>3. \A v \in Vagas : v # t => tarefas'[v].fase = "livre"
          BY <2>1, <5>2 DEF Executou, OutrasSeguem
        <5>4. \A b \in vivos' : b \notin ADMs \ {a} => b = a
          BY <1>0, <3>1
        <5>5. \A v \in Vagas : Carrega(v)' => v = t
          BY <5>3 DEF Carrega
        <5>6. Guarda(tarefas[t].estado, op)'
          BY <3>1 DEF Guarda, Reflete, Existe
        <5>7. Guardada(op, ADMs \ {a})'
          <6>1. \A b \in vivos' : b \notin ADMs \ {a} => Guarda(estado[b], op)'
            BY <3>1, <5>4
          <6>2. \A v \in Vagas : Carrega(v)' => Guarda(tarefas[v].estado, op)'
            BY <5>5, <5>6
          <6>3. \A v \in Vagas : tarefas'[v].fase = "replicando" => MesmoDono(tarefas'[v].op, op)
            BY <3>1, <5>3 DEF MesmoDono
          <6> QED BY <6>1, <6>2, <6>3 DEF Guardada, MesmoDono
        <5>8. Guardada(tarefas[t].op, tarefas[t].pendentes)'
          BY <3>1, <5>7, GuardadaCampos
        <5> QED BY <3>1, <4>1, <5>3, <5>8
      <4>2. CASE u # t
        <5>1. tarefas[u].fase # "coletando" => tarefas'[u] = tarefas[u]
          BY <2>1, <4>2 DEF Executou, OutrasSeguem
        <5>2. tarefas[u].fase # "coletando"
          BY <2>1, <3>3, <4>2 DEF Executou, OutrasSeguem, EmCurso
        <5>3. tarefas'[u] = tarefas[u] /\ EmCurso(u)
          BY <3>3, <5>1, <5>2 DEF EmCurso
        <5>op. PICK o, P : o = tarefas[u].op /\ P = tarefas[u].pendentes
          OBVIOUS
        <5>4. /\ Guardada(o, P)
              /\ \A v \in Vagas : tarefas[v].fase \in {"livre", "replicando"}
          BY <5>3, <5>op DEF Iniciadas
        <5>5. o \in Pedida /\ o.pedido \in usados
          BY <5>3, <5>op, OperacoesTipo DEF EmCurso
        <5>6. a \notin P
          BY <1>0, <3>1, <5>3, <5>op, LiderDaVaga DEF EmCurso
        <5>7. Guardada(o, P)'
          BY <1>0, <2>1, <5>4, <5>5, <5>6, GuardadaExecutou
        <5>8. \A v \in Vagas : tarefas'[v].fase \in {"livre", "replicando"}
          BY <2>1, <3>1, <5>4 DEF Executou, OutrasSeguem
        <5>9. tarefas'[u].op = o /\ tarefas'[u].pendentes = P
          BY <5>3, <5>op
        <5> QED BY <5>7, <5>8, <5>9, GuardadaCampos
      <4> QED BY <4>1, <4>2
    <3> QED BY <3>2, <3>3 DEF Iniciadas
  <2>2. ASSUME NEW p \in Pedidos, NEW d \in Entregadores, RepetirAceite(a, p, d)
        PROVE  Firmes' /\ Iniciadas'
    <3>1. UNCHANGED <<estado, vivos, tarefas, encerrados, firmes>>
      BY <2>2 DEF RepetirAceite
    <3>2. Firmes'
      BY <3>1 DEF Firmes, Guardada, Guarda, Reflete, Existe, Carrega, MesmoDono
    <3>3. ASSUME NEW u \in Vagas, EmCurso(u)'
          PROVE  /\ Guardada(tarefas[u].op, tarefas[u].pendentes)'
                 /\ \A v \in Vagas : tarefas'[v].fase \in {"livre", "replicando"}
      <4>1. EmCurso(u)
        BY <3>1, <3>3 DEF EmCurso
      <4>2. PICK o, P : o = tarefas[u].op /\ P = tarefas[u].pendentes
        OBVIOUS
      <4>3. Guardada(o, P) /\ \A v \in Vagas : tarefas[v].fase \in {"livre", "replicando"}
        BY <4>1, <4>2 DEF Iniciadas
      <4>4. Guardada(o, P)'
        BY <3>1, <4>3 DEF Guardada, Guarda, Reflete, Existe, Carrega, MesmoDono
      <4> QED BY <3>1, <4>2, <4>3, <4>4, GuardadaCampos
    <3> QED BY <3>2, <3>3 DEF Iniciadas
  <2> QED BY <1>0, <1>1, <2>1, <2>2, OperacaoEfeito
<1>2. ASSUME NEW a \in ADMs, Cair(a) PROVE Firmes' /\ Iniciadas'
  <2>1. /\ vivos' \subseteq vivos /\ UNCHANGED <<estado, encerrados, firmes>>
        /\ \A t \in Vagas : tarefas'[t].fase = "livre" \/ tarefas'[t] = tarefas[t]
    BY <1>0, <1>2, CairEfeito DEF clientes
  <2>2. ASSUME NEW o, NEW P, Guardada(o, P) PROVE Guardada(o, P)'
    <3>1. \A b \in vivos' : b \notin P => Guarda(estado[b], o)'
      BY <2>1, <2>2 DEF Guardada, Guarda, Reflete, Existe
    <3>2. ASSUME NEW t \in Vagas, Carrega(t)' PROVE tarefas'[t] = tarefas[t]
      BY <2>1, <3>2 DEF Carrega
    <3>3. \A t \in Vagas : Carrega(t)' => Guarda(tarefas[t].estado, o)'
      BY <2>1, <2>2, <3>2 DEF Guardada, Carrega, Guarda, Reflete, Existe
    <3>4. \A t \in Vagas : tarefas'[t].fase = "replicando" /\ tarefas'[t].op # Posse
                               => MesmoDono(tarefas'[t].op, o)
      BY <2>2, <3>2 DEF Guardada, Carrega
    <3> QED BY <3>1, <3>3, <3>4 DEF Guardada, MesmoDono
  <2>3. Firmes'
    BY <2>1, <2>2 DEF Firmes
  <2>4. ASSUME NEW u \in Vagas, EmCurso(u)'
        PROVE  /\ Guardada(tarefas[u].op, tarefas[u].pendentes)'
               /\ \A v \in Vagas : tarefas'[v].fase \in {"livre", "replicando"}
    <3>1. tarefas'[u] = tarefas[u] /\ EmCurso(u)
      BY <2>1, <2>4 DEF EmCurso
    <3>op. PICK o, P : o = tarefas[u].op /\ P = tarefas[u].pendentes
      OBVIOUS
    <3>2. Guardada(o, P) /\ \A v \in Vagas : tarefas[v].fase \in {"livre", "replicando"}
      BY <3>1, <3>op DEF Iniciadas
    <3>3. \A v \in Vagas : tarefas'[v].fase \in {"livre", "replicando"}
      BY <2>1, <3>2
    <3>4. tarefas'[u].op = o /\ tarefas'[u].pendentes = P
      BY <3>1, <3>op
    <3>5. Guardada(o, P)'
      BY <2>2, <3>2
    <3> QED BY <3>3, <3>4, <3>5, GuardadaCampos
  <2> QED BY <2>3, <2>4 DEF Iniciadas
\* A step of a task that guards what is guarded
<1>3. ASSUME NEW t \in Vagas, firmes' = firmes,
             \A o \in Pedida : Guardada(o, {}) => Guardada(o, {})'
      PROVE  Firmes'
  <2>1. \A o \in firmes : o \in Pedida
    BY OperacoesTipo
  <2> QED BY <1>3, <2>1 DEF Firmes
<1>4. ASSUME NEW a \in ADMs, NEW t \in Vagas, Suceder(a, t) PROVE Firmes' /\ Iniciadas'
  <2>1. /\ UNCHANGED <<estado, vivos, encerrados, firmes>> /\ Outras(t)
        /\ tarefas'[t].fase = "anunciando"
    BY <1>0, <1>4, SucederEfeito DEF clientes
  <2>2. \A u \in Vagas : tarefas[u].fase = "livre"
    BY <1>0, <1>4, SucederLivre
  <2>3. ASSUME NEW o \in Pedida, Guardada(o, {}) PROVE Guardada(o, {})'
    <3>1. \A b \in vivos' : Guarda(estado'[b], o)
      BY <2>1, <2>3 DEF Guardada
    <3> QED BY <2>1, <2>3, <3>1, GuardadaSegue DEF Carrega
  <2>4. Iniciadas'
    BY <2>1, <2>2 DEF Iniciadas, EmCurso, Outras
  <2> QED BY <1>3, <2>1, <2>3, <2>4
<1>5. ASSUME NEW t \in Vagas, NEW b \in ADMs, AnuncioEntregue(t, b) \/ AnuncioPerdido(t, b)
      PROVE  Firmes' /\ Iniciadas'
  <2>1. /\ UNCHANGED <<estado, vivos, encerrados, firmes>> /\ Outras(t)
        /\ tarefas[t].fase = "anunciando" /\ tarefas'[t].fase = "anunciando"
    BY <1>0, <1>5, AnuncioEfeito DEF clientes
  <2>2. ASSUME NEW o \in Pedida, Guardada(o, {}) PROVE Guardada(o, {})'
    <3>1. \A c \in vivos' : Guarda(estado'[c], o)
      BY <2>1, <2>2 DEF Guardada
    <3> QED BY <2>1, <2>2, <3>1, GuardadaSegue DEF Carrega
  <2> QED BY <1>3, <2>1, <2>2, TomadaSemCurso DEF EmCurso
<1>6. ASSUME NEW t \in Vagas, NEW b \in ADMs, ColetaRecebida(t, b) \/ ColetaFalha(t, b)
      PROVE  Firmes' /\ Iniciadas'
  <2> DEFINE x == tarefas[t]
  <2>1. /\ UNCHANGED <<estado, vivos, encerrados, firmes>> /\ Outras(t)
        /\ x.fase = "coletando" /\ tarefas'[t].fase = "coletando"
        /\ \/ b \in vivos /\ tarefas'[t].estado = Mesclar(x.estado, estado[b])
           \/ tarefas'[t].estado = x.estado
    BY <1>0, <1>6, ColetaEfeito DEF clientes
  <2>2. /\ x.estado \in Estado /\ Coerente(x.estado)
        /\ estado[b] \in Estado /\ Coerente(estado[b])
    BY <1>0, <2>1, TarefaCampos DEF IInv, TypeOK, EstadosCoerentes
  <2>3. ASSUME NEW o \in Pedida, Guardada(o, {}) PROVE Guardada(o, {})'
    <3>1. \A c \in vivos' : Guarda(estado'[c], o)
      BY <2>1, <2>3 DEF Guardada
    <3>2. Guarda(x.estado, o)
      BY <2>1, <2>3 DEF Guardada, Carrega
    <3>3. b \in vivos => Guarda(estado[b], o)
      BY <2>3 DEF Guardada
    <3> HIDE DEF x
    <3>4. Guarda(tarefas'[t].estado, o)
      BY <2>1, <2>2, <3>2, <3>3, GuardaMescla
    <3> QED BY <2>1, <2>3, <3>1, <3>4, GuardadaSegue
  <2> QED BY <1>3, <2>1, <2>3, TomadaSemCurso DEF EmCurso
<1>7. ASSUME NEW t \in Vagas, IniciarColeta(t) PROVE Firmes' /\ Iniciadas'
  <2> DEFINE a == tarefas[t].adm
  <2>1. /\ UNCHANGED <<estado, vivos, encerrados, firmes>> /\ Outras(t)
        /\ tarefas[t].fase = "anunciando" /\ tarefas'[t].fase = "coletando"
        /\ tarefas'[t].estado = estado[a]
    BY <1>0, <1>7, IniciarEfeito DEF clientes
  <2>2. a \in vivos
    BY <1>0, <2>1, LiderDaVaga
  <2>3. ASSUME NEW o \in Pedida, Guardada(o, {}) PROVE Guardada(o, {})'
    <3>1. \A c \in vivos' : Guarda(estado'[c], o)
      BY <2>1, <2>3 DEF Guardada
    <3>2. Guarda(tarefas'[t].estado, o)
      BY <2>1, <2>2, <2>3 DEF Guardada
    <3> QED BY <2>1, <2>3, <3>1, <3>2, GuardadaSegue
  <2> QED BY <1>3, <2>1, <2>3, TomadaSemCurso DEF EmCurso
<1>8. ASSUME NEW t \in Vagas, AssumirEstado(t) PROVE Firmes' /\ Iniciadas'
  <2> DEFINE x == tarefas[t]
  <2>1. /\ UNCHANGED <<vivos, encerrados, firmes>> /\ Outras(t)
        /\ x.fase = "coletando" /\ tarefas'[t].fase = "replicando" /\ tarefas'[t].op = Posse
        /\ tarefas'[t].estado = x.estado /\ estado'[x.adm] = x.estado
        /\ \A c \in ADMs : c # x.adm => estado'[c] = estado[c]
    BY <1>0, <1>8, AssumirEfeito DEF clientes
  <2>3. ASSUME NEW o \in Pedida, Guardada(o, {}) PROVE Guardada(o, {})'
    <3>1. Guarda(x.estado, o)
      BY <2>1, <2>3 DEF Guardada, Carrega
    <3>2. \A c \in vivos' : Guarda(estado'[c], o)
      BY <1>0, <2>1, <2>3, <3>1 DEF Guardada
    <3> HIDE DEF x
    <3>3. Guarda(tarefas'[t].estado, o)
      BY <2>1, <3>1
    <3> QED BY <2>1, <2>3, <3>2, <3>3, GuardadaSegue
  <2> QED BY <1>3, <2>1, <2>3, TomadaSemCurso DEF EmCurso
<1>9. ASSUME NEW t \in Vagas, Concluir(t) PROVE Firmes' /\ Iniciadas'
  <2>1. /\ UNCHANGED <<estado, vivos, encerrados>> /\ Outras(t)
        /\ tarefas[t].fase = "replicando" /\ tarefas[t].pendentes = {}
        /\ tarefas'[t].fase = "livre"
        /\ \/ firmes' = firmes
           \/ EmCurso(t) /\ firmes' = firmes \cup {tarefas[t].op}
    BY <1>0, <1>9, ConcluirEfeito DEF EmCurso
  <2>2. ASSUME NEW o \in Pedida, NEW P, Guardada(o, P) PROVE Guardada(o, P)'
    <3>1. \A c \in vivos' : c \notin P => Guarda(estado'[c], o)
      BY <2>1, <2>2 DEF Guardada
    <3> QED BY <2>1, <2>2, <3>1, GuardadaSegue DEF Carrega
  <2>3. EmCurso(t) => tarefas[t].op \in Pedida /\ Guardada(tarefas[t].op, {})
    BY <2>1, OperacoesTipo DEF Iniciadas, EmCurso
  <2>4. ASSUME NEW o \in firmes' PROVE o \in Pedida /\ Guardada(o, {})
    BY <2>1, <2>3, OperacoesTipo DEF Firmes
  <2>5. Firmes'
    BY <2>2, <2>4 DEF Firmes
  <2>6. ASSUME NEW u \in Vagas, EmCurso(u)'
        PROVE  /\ Guardada(tarefas[u].op, tarefas[u].pendentes)'
               /\ \A v \in Vagas : tarefas'[v].fase \in {"livre", "replicando"}
    <3>1. tarefas'[u] = tarefas[u] /\ EmCurso(u)
      BY <2>1, <2>6 DEF EmCurso, Outras
    <3>op. PICK o, P : o = tarefas[u].op /\ P = tarefas[u].pendentes
      OBVIOUS
    <3>2. /\ Guardada(o, P) /\ o \in Pedida
          /\ \A v \in Vagas : tarefas[v].fase \in {"livre", "replicando"}
      BY <3>1, <3>op, OperacoesTipo DEF Iniciadas, EmCurso
    <3>3. \A v \in Vagas : tarefas'[v].fase \in {"livre", "replicando"}
      BY <2>1, <3>2 DEF Outras
    <3>4. tarefas'[u].op = o /\ tarefas'[u].pendentes = P
      BY <3>1, <3>op
    <3>5. Guardada(o, P)'
      BY <2>2, <3>2
    <3> QED BY <3>3, <3>4, <3>5, GuardadaCampos
  <2> QED BY <2>5, <2>6 DEF Iniciadas
<1>10. ASSUME NEW t \in Vagas, NEW b \in ADMs, ReplicaConfirmada(t, b) \/ ReplicaFalha(t, b)
       PROVE  Firmes' /\ Iniciadas'
  <2>1. /\ tarefas[t].fase = "replicando" /\ tarefas'[t].fase = "replicando"
        /\ tarefas'[t].op = tarefas[t].op /\ tarefas'[t].isolada = tarefas[t].isolada
        /\ tarefas'[t].pendentes = tarefas[t].pendentes \ {b} /\ Outras(t)
        /\ firmes' = firmes
    BY <1>0, <1>10, ReplicaEfeito DEF clientes
  <2>2. ASSUME NEW o \in Pedida, NEW P, Guardada(o, P) PROVE Guardada(o, P)'
    BY <1>0, <1>10, <2>2, GuardadaReplica
  <2>3. ASSUME NEW u \in Vagas, EmCurso(u)'
        PROVE  /\ Guardada(tarefas[u].op, tarefas[u].pendentes)'
               /\ \A v \in Vagas : tarefas'[v].fase \in {"livre", "replicando"}
    <3>1. EmCurso(u)
      BY <2>1, <2>3 DEF EmCurso, Outras
    <3>op. PICK o, P, Q : o = tarefas[u].op /\ P = tarefas[u].pendentes
                         /\ Q = tarefas'[u].pendentes
      OBVIOUS
    <3>2. /\ Guardada(o, P) /\ o \in Pedida
          /\ \A v \in Vagas : tarefas[v].fase \in {"livre", "replicando"}
      BY <3>1, <3>op, OperacoesTipo DEF Iniciadas, EmCurso
    <3>3. \A v \in Vagas : tarefas'[v].fase \in {"livre", "replicando"}
      BY <2>1, <3>2 DEF Outras
    <3>4. tarefas'[u].op = o
      BY <2>1, <3>op DEF Outras
    <3>5. b \in vivos => lider[b] = tarefas[t].adm
      <4>1. tarefas[t].adm \in ADMs /\ SouLider(tarefas[t].adm)
        BY <1>0, <2>1, LiderDaVaga
      <4>2. \A v \in Vagas : tarefas[v].fase # "anunciando"
        BY <3>2
      <4> QED BY <4>1, <4>2 DEF Seguem
    <3>6. Q = P \/ Q = P \ {b}
      BY <2>1, <3>op DEF Outras
    <3>7. Guardada(o, Q)'
      BY <1>0, <1>10, <3>2, <3>5, <3>6, GuardadaReplica
    <3> QED BY <3>3, <3>4, <3>7, <3>op, GuardadaCampos
  <2> QED BY <1>3, <2>1, <2>2, <2>3 DEF Iniciadas
<1> QED BY <1>1, <1>2, <1>4, <1>5, <1>6, <1>7, <1>8, <1>9, <1>10 DEF Next, Passo


\* The replicas keep following the last snapshot, if nothing overlapped it.
LEMMA IguaisPasso ==
    ASSUME Base, Seguem, Iguais, Next, falhas' = 0
    PROVE  Iguais'
<1>0. IInv /\ Lideranca /\ Historia /\ vivos \subseteq ADMs
  BY DEF Base, IInv, TypeOK
<1> DEFINE Quieta == \A t \in Vagas : tarefas[t].fase \in {"livre", "replicando"}
\* A replication begins alone.
<1>1. ASSUME NEW t \in Vagas, NEW a \in ADMs, SouLider(a), UNCHANGED <<lider, vivos>>,
             \A u \in Vagas : u # t => tarefas'[u].fase = "livre",
             tarefas'[t].fase = "replicando", tarefas'[t].adm = a,
             tarefas'[t].estado = estado'[a], tarefas'[t].pendentes = ADMs \ {a}
      PROVE  Iguais'
  <2>1. ASSUME NEW c \in ADMs, NEW b \in vivos', SouLider(c)'
        PROVE  \/ estado'[b] = estado'[c]
               \/ \E u \in Vagas : tarefas'[u].fase = "replicando" /\ b \in tarefas'[u].pendentes
    <3>1. c = a
      BY <1>0, <1>1, <2>1, LiderUnico DEF SouLider
    <3> QED BY <1>0, <1>1, <2>1, <3>1
  <2>2. \A u \in Vagas : tarefas'[u].fase = "replicando" => u = t
    BY <1>1
  <2> QED BY <1>1, <2>1, <2>2 DEF Iguais
\* A takeover is under way.
<1>2. ASSUME NEW t \in Vagas, tarefas'[t].fase \in {"anunciando", "coletando"}
      PROVE  Iguais'
  BY <1>2 DEF Iguais
<1>3. ASSUME NEW a \in ADMs, Operacao(a) PROVE Iguais'
  <2>1. ASSUME NEW t \in Vagas, NEW op \in Pedida, Executou(a, t, op) PROVE Iguais'
    <3>1. /\ SouLider(a) /\ tarefas'[t].fase = "replicando" /\ tarefas'[t].adm = a
          /\ tarefas'[t].estado = estado'[a] /\ tarefas'[t].pendentes = ADMs \ {a}
          /\ UNCHANGED <<lider, vivos>> /\ isolada' = Sozinha(t)
      BY <2>1 DEF Executou
    <3>2. CASE Sozinha(t)
      <4>1. \A u \in Vagas : u # t => tarefas[u].fase = "livre"
        BY <3>2 DEF Sozinha, Livre
      <4>2. \A u \in Vagas : u # t => tarefas'[u].fase = "livre"
        BY <2>1, <4>1 DEF Executou, OutrasSeguem
      <4> QED BY <1>1, <3>1, <4>2
    <3>3. CASE ~Sozinha(t)
      BY <3>1, <3>3 DEF Iguais
    <3> QED BY <3>2, <3>3
  <2>2. ASSUME NEW p \in Pedidos, NEW d \in Entregadores, RepetirAceite(a, p, d) PROVE Iguais'
    BY <2>2 DEF RepetirAceite, Iguais, SouLider
  <2> QED BY <1>0, <1>3, <2>1, <2>2, OperacaoEfeito
<1>4. ASSUME NEW a \in ADMs, Cair(a) PROVE Iguais'
  <2>1. /\ vivos' = vivos \ {a} /\ UNCHANGED <<estado, lider, isolada>>
        /\ \A t \in Vagas :
               /\ \/ tarefas'[t].fase = "livre"
                  \/ tarefas'[t] = tarefas[t] /\ tarefas[t].adm # a
               /\ tarefas[t].fase # "livre" /\ tarefas[t].adm # a => tarefas'[t] = tarefas[t]
    BY <1>0, <1>4, CairEfeito
  <2>2. CASE SouLider(a)
    <3>1. \A t \in Vagas : tarefas'[t].fase = "livre"
      BY <1>0, <2>1, <2>2, LiderDaVaga
    <3>2. \A c \in ADMs : ~SouLider(c)'
      BY <1>0, <2>1, <2>2, LiderUnico DEF SouLider
    <3> QED BY <3>1, <3>2 DEF Iguais
  <2>3. CASE ~SouLider(a)
    <3>1. \A t \in Vagas : \/ tarefas'[t] = tarefas[t]
                           \/ tarefas'[t].fase = "livre" /\ tarefas[t].fase = "livre"
      BY <1>0, <2>1, <2>3, LiderDaVaga
    <3>2. \A c \in ADMs : SouLider(c)' => SouLider(c)
      BY <2>1 DEF SouLider
    <3>3. Iguais /\ isolada' /\ Quieta' => Quieta /\ isolada
      BY <2>1, <3>1
    <3> QED BY <2>1, <3>1, <3>2, <3>3 DEF Iguais
  <2> QED BY <2>2, <2>3
<1>5. ASSUME NEW a \in ADMs, NEW t \in Vagas, Suceder(a, t) PROVE Iguais'
  BY <1>0, <1>2, <1>5, SucederEfeito
<1>6. ASSUME NEW t \in Vagas, NEW b \in ADMs, AnuncioEntregue(t, b) \/ AnuncioPerdido(t, b)
      PROVE  Iguais'
  BY <1>0, <1>2, <1>6, AnuncioEfeito
<1>7. ASSUME NEW t \in Vagas, NEW b \in ADMs, ColetaRecebida(t, b) \/ ColetaFalha(t, b)
      PROVE  Iguais'
  BY <1>0, <1>2, <1>7, ColetaEfeito
<1>8. ASSUME NEW t \in Vagas, IniciarColeta(t) PROVE Iguais'
  BY <1>0, <1>2, <1>8, IniciarEfeito
<1>9. ASSUME NEW t \in Vagas, AssumirEstado(t) PROVE Iguais'
  <2> DEFINE a == tarefas[t].adm
  <2>1. /\ tarefas[t].fase = "coletando"
        /\ tarefas'[t].fase = "replicando" /\ tarefas'[t].adm = a
        /\ tarefas'[t].estado = estado'[a] /\ tarefas'[t].pendentes = ADMs \ {a}
        /\ UNCHANGED <<lider, vivos>> /\ Outras(t) /\ isolada' = Sozinha(t)
    BY <1>0, <1>9, AssumirEfeito
  <2>2. a \in ADMs /\ SouLider(a)
    BY <1>0, <2>1, LiderDaVaga
  <2>3. CASE Sozinha(t)
    <3>1. \A u \in Vagas : u # t => tarefas'[u].fase = "livre"
      BY <2>1, <2>3 DEF Sozinha, Livre, Outras
    <3> HIDE DEF a
    <3> QED BY <1>1, <2>1, <2>2, <3>1
  <2>4. CASE ~Sozinha(t)
    BY <2>1, <2>4 DEF Iguais
  <2> QED BY <2>3, <2>4
<1>10. ASSUME NEW t \in Vagas, Concluir(t) PROVE Iguais'
  <2>1. /\ tarefas[t].fase = "replicando" /\ tarefas[t].pendentes = {}
        /\ tarefas'[t].fase = "livre" /\ Outras(t)
        /\ UNCHANGED <<estado, lider, vivos, isolada>>
    BY <1>0, <1>10, ConcluirEfeito
  <2>2. SUFFICES ASSUME isolada, Quieta' PROVE Iguais'
    BY <2>1 DEF Iguais
  <2>3. Quieta
    BY <2>1, <2>2 DEF Outras
  <2>4. ASSUME NEW c \in ADMs, NEW b \in vivos, SouLider(c), estado[b] # estado[c]
        PROVE  \E u \in Vagas : tarefas'[u].fase = "replicando" /\ b \in tarefas'[u].pendentes
    <3>1. PICK u \in Vagas : tarefas[u].fase = "replicando" /\ b \in tarefas[u].pendentes
      BY <2>2, <2>3, <2>4 DEF Iguais
    <3> QED BY <2>1, <3>1 DEF Outras
  <2>5. \A u \in Vagas : tarefas'[u].fase = "replicando" => tarefas'[u].estado = estado[tarefas'[u].adm]
    BY <2>1, <2>2, <2>3 DEF Iguais, Outras
  <2> QED BY <2>1, <2>4, <2>5 DEF Iguais, SouLider
<1>11. ASSUME NEW t \in Vagas, NEW b \in ADMs, ReplicaConfirmada(t, b) \/ ReplicaFalha(t, b)
       PROVE  Iguais'
  <2> DEFINE a == tarefas[t].adm
             e == tarefas[t].estado
  <2>1. /\ tarefas[t].fase = "replicando" /\ tarefas'[t].fase = "replicando"
        /\ tarefas'[t].adm = a /\ tarefas'[t].estado = e
        /\ tarefas'[t].pendentes = tarefas[t].pendentes \ {b} /\ Outras(t)
        /\ UNCHANGED <<lider, vivos, isolada>> /\ b \in tarefas[t].pendentes
        /\ Recebido(b, a, e) \/ (b \notin vivos /\ UNCHANGED estado)
    BY <1>0, <1>11, ReplicaEfeito
  <2>2. a \in ADMs /\ SouLider(a) /\ b # a /\ \A c \in ADMs : SouLider(c) => c = a
    BY <1>0, <2>1, LiderDaVaga
  <2>3. SUFFICES ASSUME isolada, Quieta' PROVE Iguais'
    BY <2>1 DEF Iguais
  <2>4. Quieta
    BY <2>1, <2>3 DEF Outras
  <2>5. e = estado[a]
    BY <2>1, <2>3, <2>4 DEF Iguais
  <2>6. b \in vivos => lider[b] = a
    <3>1. \A u \in Vagas : tarefas[u].fase # "anunciando"
      BY <2>4
    <3> QED BY <2>2, <3>1 DEF Seguem
  <2>7. /\ \A c \in ADMs : c # b => estado'[c] = estado[c]
        /\ b \in vivos => estado'[b] = e
    BY <2>1, <2>6 DEF Recebido
  <2> HIDE DEF e, a
  <2>8. ASSUME NEW c \in ADMs, NEW f \in vivos, SouLider(c), estado'[f] # estado'[c]
        PROVE  \E u \in Vagas : tarefas'[u].fase = "replicando" /\ f \in tarefas'[u].pendentes
    <3>1. c = a /\ f # b /\ estado[f] # estado[a]
      BY <1>0, <2>2, <2>5, <2>7, <2>8
    <3>2. PICK u \in Vagas : tarefas[u].fase = "replicando" /\ f \in tarefas[u].pendentes
      BY <2>2, <2>3, <2>4, <3>1 DEF Iguais
    <3> QED BY <2>1, <3>1, <3>2 DEF Outras
  <2>9. ASSUME NEW u \in Vagas, tarefas'[u].fase = "replicando"
        PROVE  tarefas'[u].estado = estado'[tarefas'[u].adm]
    <3>1. tarefas[u].fase = "replicando" /\ tarefas'[u].estado = tarefas[u].estado
          /\ tarefas'[u].adm = tarefas[u].adm
      BY <2>1, <2>9 DEF Outras, a, e
    <3>2. tarefas[u].adm = a /\ tarefas[u].estado = estado[a]
      BY <1>0, <2>2, <2>3, <2>4, <3>1, LiderDaVaga DEF Iguais
    <3> QED BY <2>2, <2>7, <3>1, <3>2
  <2> QED BY <2>1, <2>8, <2>9 DEF Iguais, SouLider
<1> QED BY <1>3, <1>4, <1>5, <1>6, <1>7, <1>8, <1>9, <1>10, <1>11 DEF Next, Passo

\* While no call has failed everything that was answered is guarded.
LEMMA SPasso == SInv /\ [Next]_vars => SInv'
<1> SUFFICES ASSUME SInv, [Next]_vars PROVE SInv'
  OBVIOUS
<1>1. Base'
  BY BasePasso DEF SInv
<1>2. CASE Next
  <2>1. ASSUME falhas' = 0 PROVE Juntos'
    <3>1. Base /\ Juntos
      BY <1>2, <2>1, FalhasCrescem DEF SInv
    <3>2. Seguem' /\ Firmes' /\ Iniciadas' /\ Iguais'
      BY <1>2, <2>1, <3>1, SeguemPasso, GuardadasPasso, IguaisPasso DEF Juntos
    <3> QED BY <3>2 DEF Juntos
  <2> QED BY <1>1, <2>1 DEF SInv
<1>3. CASE UNCHANGED vars
  <2>1. UNCHANGED <<estado, lider, vivos, tarefas, encerrados, firmes, isolada, falhas>>
    BY <1>3 DEF vars, clientes
  <2>2. Seguem => Seguem'
    BY <2>1 DEF Seguem, SouLider
  <2>3. ASSUME NEW o, NEW P, Guardada(o, P) PROVE Guardada(o, P)'
    BY <2>1, <2>3 DEF Guardada, Guarda, Reflete, Existe, Carrega, MesmoDono
  <2>4. Firmes => Firmes'
    BY <2>1, <2>3 DEF Firmes
  <2>5. ASSUME Iniciadas, NEW u \in Vagas, EmCurso(u)'
        PROVE  /\ Guardada(tarefas[u].op, tarefas[u].pendentes)'
               /\ \A v \in Vagas : tarefas'[v].fase \in {"livre", "replicando"}
    <3>1. EmCurso(u)
      BY <2>1, <2>5 DEF EmCurso
    <3>2. PICK o, P : o = tarefas[u].op /\ P = tarefas[u].pendentes
      OBVIOUS
    <3>3. Guardada(o, P) /\ \A v \in Vagas : tarefas[v].fase \in {"livre", "replicando"}
      BY <2>5, <3>1, <3>2 DEF Iniciadas
    <3>4. Guardada(o, P)'
      BY <2>3, <3>3
    <3> QED BY <2>1, <3>2, <3>3, <3>4, GuardadaCampos
  <2>6. Iniciadas => Iniciadas'
    BY <2>5 DEF Iniciadas
  <2>7. Iguais => Iguais'
    BY <2>1 DEF Iguais, SouLider
  <2> QED BY <1>1, <2>1, <2>2, <2>4, <2>6, <2>7 DEF SInv, Juntos
<1> QED BY <1>2, <1>3

LEMMA InicioS == Init => SInv
<1> SUFFICES ASSUME Init PROVE SInv
  OBVIOUS
<1>1. \A t \in Vagas : tarefas[t].fase = "livre"
  BY DEF Init, Livre
<1>2. /\ lider = [a \in ADMs |-> N] /\ vivos = ADMs /\ firmes = {}
      /\ estado = [a \in ADMs |-> EstadoVazio] /\ N \in ADMs
  BY ReplicacaoAssumption DEF Init, ADMs
<1>3. Seguem
  BY <1>2 DEF Seguem, SouLider
<1>4. Firmes /\ Iniciadas
  BY <1>1, <1>2 DEF Firmes, Iniciadas, EmCurso
<1>5. Iguais
  BY <1>1, <1>2 DEF Iguais
<1> QED BY <1>3, <1>4, <1>5, InicioBase DEF SInv, Juntos

-----------------------------------------------------------------------------
(* While the takeovers are complete *)

LEMMA ADMsFinitos == N \in Nat /\ IsFiniteSet(ADMs) /\ Cardinality(ADMs) = N
BY ReplicacaoAssumption, FS_Interval DEF ADMs

\* Two majorities have an ADM in common.
LEMMA MaioriasSeCruzam ==
    ASSUME NEW C \in SUBSET ADMs, NEW V \in SUBSET ADMs,
           Cardinality(C) >= Maioria, Cardinality(V) >= Maioria
    PROVE  \E b \in ADMs : b \in C /\ b \in V
<1>1. N \in Nat /\ IsFiniteSet(ADMs) /\ Cardinality(ADMs) = N
  BY ADMsFinitos
<1>2. IsFiniteSet(C) /\ IsFiniteSet(V)
  BY <1>1, FS_Subset
<1>3. SUFFICES ASSUME C \cap V = {} PROVE FALSE
  OBVIOUS
<1>4. Cardinality(C \cup V) = Cardinality(C) + Cardinality(V) - Cardinality(C \cap V)
  BY <1>2, FS_Union
<1>5. Cardinality(C \cap V) = 0
  BY <1>3, FS_EmptySet
<1>6. Cardinality(C \cup V) <= N
  BY <1>1, FS_Subset
<1>7. Cardinality(C) \in Nat /\ Cardinality(V) \in Nat
  BY <1>2, FS_CardinalityType
<1>8. Maioria \in Nat /\ 2 * Maioria > N
  BY <1>1 DEF Maioria
<1> QED BY <1>1, <1>4, <1>5, <1>6, <1>7, <1>8

\* Crashes leave a majority.
LEMMA VivosPasso ==
    ASSUME IInv, Cardinality(vivos) >= Maioria, [Next]_vars
    PROVE  Cardinality(vivos') >= Maioria
<1>1. IsFiniteSet(ADMs) /\ Maioria \in Nat
  BY ADMsFinitos DEF Maioria
<1>2. IsFiniteSet(vivos)
  BY <1>1, FS_Subset DEF IInv, TypeOK
<1>3. ASSUME NEW a \in ADMs, Cair(a) PROVE Cardinality(vivos') >= Maioria
  <2>1. a \in vivos /\ vivos' = vivos \ {a} /\ Cardinality(vivos) > Maioria
    BY <1>3 DEF Cair
  <2>2. Cardinality(vivos) \in Nat /\ Cardinality(vivos') = Cardinality(vivos) - 1
    BY <1>2, <2>1, FS_RemoveElement, FS_CardinalityType
  <2> QED BY <1>1, <2>1, <2>2
<1>4. ASSUME NEW a \in ADMs, Operacao(a) PROVE UNCHANGED vivos
  BY <1>4 DEF Operacao, CriarPedido, PrepararPedido, ConfirmarEntrega, AceitarPedido,
              Executar, RepetirAceite
<1>5. ASSUME NEW a \in ADMs, NEW t \in Vagas, Suceder(a, t) PROVE UNCHANGED vivos
  BY <1>5 DEF Suceder
<1>6. ASSUME NEW t \in Vagas, Passo(t) PROVE UNCHANGED vivos
  BY <1>6 DEF Passo, ReplicaConfirmada, ReplicaFalha, AnuncioEntregue, AnuncioPerdido,
              ColetaRecebida, ColetaFalha, Concluir, IniciarColeta, AssumirEstado
<1> QED BY <1>3, <1>4, <1>5, <1>6 DEF Next, vars

\* Nobody is taking over.
SemTomada == \A t \in Vagas : tarefas[t].fase \in {"livre", "replicando"}

\* A takeover overlaps no other handler.
TomadaSozinha ==
    \A t \in Vagas : tarefas[t].fase \in {"anunciando", "coletando"} =>
        \A u \in Vagas : u # t => tarefas[u].fase = "livre"

\* The leader in charge and its snapshots know order p.
Sabido(p) ==
    /\ SemTomada => \A a \in ADMs : SouLider(a) => Existe(estado[a], p)
    /\ \A t \in Vagas : tarefas[t].fase = "replicando" => Existe(tarefas[t].estado, p)

\* Of a majority of the ADMs, those that run know p, or do not follow the leader in
\* charge; a merge has p or has still to ask those that run.
NaMaioria(p) ==
    \E C \in SUBSET ADMs :
        /\ Cardinality(C) >= Maioria
        /\ \A b \in C \cap vivos :
               \/ Existe(estado[b], p)
               \/ SemTomada /\ \E a \in ADMs : SouLider(a) /\ lider[b] # a
        /\ \A t \in Vagas : tarefas[t].fase = "coletando" =>
               Existe(tarefas[t].estado, p) \/ C \cap vivos \subseteq tarefas[t].pendentes

\* Of the ADMs that task t has counted, those that run know p or do not follow its leader.
Contados(t, p) ==
    \E C \in SUBSET (ADMs \ tarefas[t].pendentes) :
        /\ Cardinality(C) = tarefas[t].confirmadas
        /\ \A b \in C \cap vivos : Existe(estado[b], p) \/ lider[b] # tarefas[t].adm

\* Task t replicates the creation of p, and began alone.
Criada(t, p) == EmCurso(t) /\ tarefas[t].op = Criacao(p)

Criados ==
    \A p \in Pedidos \ encerrados :
        /\ TomadaSozinha
        /\ Criacao(p) \in firmes => Sabido(p) /\ NaMaioria(p)
        /\ \A t \in Vagas : Criada(t, p) => Sabido(p) /\ Contados(t, p)

CInv == Base /\ Cardinality(vivos) >= Maioria /\ (~incompleta => Criados)

\* A step keeps order p where it was answered, and where its creation is under way.
Mantem(p) ==
    /\ Sabido(p) /\ NaMaioria(p) => (Sabido(p) /\ NaMaioria(p))'
    /\ \A t \in Vagas : Criada(t, p)' => (Sabido(p) /\ Contados(t, p))'

\* A leader is in charge when nobody is taking over.
LEMMA Comando ==
    ASSUME Base, NEW a \in ADMs
    PROVE  NoComando(a) <=> SouLider(a) /\ SemTomada
<1>1. ASSUME NEW t \in Vagas, SouLider(a), tarefas[t].fase # "livre" PROVE tarefas[t].adm = a
  BY <1>1, LiderDaVaga DEF Base
<1>2. \A t \in Vagas : tarefas[t] = Livre <=> tarefas[t].fase = "livre"
  BY FasesDe DEF Base, IInv, TypeOK
<1> QED BY <1>1, <1>2 DEF NoComando, SemTomada

\* Steps that change no task's phase, leader or running ADM keep what they do not forget.
LEMMA MantemSabido ==
    ASSUME NEW p, NEW t \in Vagas, UNCHANGED <<lider, vivos>>, SemTomada, SemTomada',
           vivos \subseteq ADMs,
           \A b \in ADMs : Existe(estado[b], p) => Existe(estado'[b], p),
           \A u \in Vagas : u # t => tarefas'[u] = tarefas[u],
           tarefas'[t].fase = "replicando" => Existe(tarefas'[t].estado, p)
    PROVE  /\ Sabido(p) => Sabido(p)'
           /\ NaMaioria(p) => NaMaioria(p)'
           /\ \A u \in Vagas : u # t /\ Contados(u, p) => Contados(u, p)'
<1>1. Sabido(p) => Sabido(p)'
  BY DEF Sabido, SouLider, Existe
<1>2. ASSUME NEW C \in SUBSET ADMs, Cardinality(C) >= Maioria,
             \A b \in C \cap vivos :
                 \/ Existe(estado[b], p)
                 \/ SemTomada /\ \E a \in ADMs : SouLider(a) /\ lider[b] # a
      PROVE  NaMaioria(p)'
  <2>1. \A a \in ADMs : SouLider(a) => SouLider(a)'
    BY DEF SouLider
  <2>2. \A u \in Vagas : tarefas'[u].fase # "coletando"
    BY DEF SemTomada
  <2>3. \A b \in C \cap vivos' :
            \/ Existe(estado'[b], p)
            \/ SemTomada' /\ \E a \in ADMs : SouLider(a)' /\ lider'[b] # a
    BY <1>2, <2>1
  <2> QED BY <1>2, <2>2, <2>3 DEF NaMaioria
<1>3. ASSUME NEW u \in Vagas, u # t, Contados(u, p) PROVE Contados(u, p)'
  <2>1. PICK C \in SUBSET (ADMs \ tarefas[u].pendentes) :
            /\ Cardinality(C) = tarefas[u].confirmadas
            /\ \A b \in C \cap vivos : Existe(estado[b], p) \/ lider[b] # tarefas[u].adm
    BY <1>3 DEF Contados
  <2>2. tarefas'[u] = tarefas[u]
    BY <1>3
  <2>3. \A b \in C \cap vivos' : Existe(estado'[b], p) \/ lider'[b] # tarefas'[u].adm
    BY <2>1, <2>2
  <2> QED BY <2>1, <2>2, <2>3 DEF Contados
<1>4. NaMaioria(p) => NaMaioria(p)'
  BY <1>2 DEF NaMaioria
<1> QED BY <1>1, <1>3, <1>4

\* What the leader in charge executes
LEMMA MantemOperacao ==
    ASSUME Base, Criados, NEW a \in ADMs, NEW t \in Vagas, NEW op \in Pedida,
           Executou(a, t, op), ~incompleta', NEW p \in Pedidos, p \notin encerrados'
    PROVE  TomadaSozinha' /\ Mantem(p)
<1>0. IInv /\ Lideranca /\ vivos \subseteq ADMs
  BY DEF Base, IInv, TypeOK
<1>1. /\ SouLider(a) /\ tarefas[t].fase = "livre" /\ tarefas'[t].fase = "replicando"
      /\ tarefas'[t].adm = a /\ tarefas'[t].estado = estado'[a] /\ tarefas'[t].op = op
      /\ tarefas'[t].pendentes = ADMs \ {a} /\ tarefas'[t].confirmadas = 1
      /\ tarefas'[t].isolada = Sozinha(t)
      /\ \A c \in ADMs : c # a => estado'[c] = estado[c]
      /\ UNCHANGED <<lider, vivos, firmes>> /\ NoComando(a) /\ encerrados \subseteq encerrados'
      /\ Existe(estado[a], p) => Existe(estado'[a], p)
      /\ Guarda(estado[a], op)'
  BY DEF Executou
<1>2. SemTomada /\ p \notin encerrados
  BY <1>1, Comando
<1>3. \A u \in Vagas : u # t => tarefas'[u] = tarefas[u]
  BY <1>2 DEF Executou, OutrasSeguem, SemTomada
<1>4. SemTomada' /\ TomadaSozinha'
  BY <1>1, <1>2, <1>3 DEF SemTomada, TomadaSozinha
<1>5. \A b \in ADMs : Existe(estado[b], p) => Existe(estado'[b], p)
  BY <1>1
<1>6. Sabido(p) => Existe(tarefas'[t].estado, p)
  BY <1>1, <1>2 DEF Sabido
<1>7. Sabido(p) /\ NaMaioria(p) => (Sabido(p) /\ NaMaioria(p))'
  BY <1>0, <1>1, <1>2, <1>3, <1>4, <1>5, <1>6, MantemSabido
<1>8. ASSUME NEW u \in Vagas, Criada(u, p)' PROVE (Sabido(p) /\ Contados(u, p))'
  <2>1. CASE u # t
    <3>1. Criada(u, p)
      BY <1>3, <1>8, <2>1 DEF Criada, EmCurso
    <3>2. Sabido(p) /\ Contados(u, p)
      BY <1>2, <3>1 DEF Criados
    <3> QED BY <1>0, <1>1, <1>2, <1>3, <1>4, <1>5, <1>6, <2>1, <3>2, MantemSabido
  <2>2. CASE u = t
    <3>1. op = Criacao(p) /\ Sozinha(t)
      BY <1>1, <1>8, <2>2 DEF Criada, EmCurso
    <3>2. Existe(estado'[a], p)
      BY <1>1, <3>1, OperacaoCampos DEF Guarda, Reflete, Existe
    <3>3. \A v \in Vagas : v # t => tarefas'[v].fase = "livre"
      BY <1>3, <3>1 DEF Sozinha, Livre
    <3>4. \A c \in ADMs : SouLider(c)' => c = a
      BY <1>0, <1>1, LiderUnico DEF SouLider
    <3>5. Sabido(p)'
      <4>1. \A c \in ADMs : SouLider(c)' => Existe(estado'[c], p)
        BY <3>2, <3>4
      <4>2. \A v \in Vagas : tarefas'[v].fase = "replicando" => Existe(tarefas'[v].estado, p)
        BY <1>1, <3>2, <3>3
      <4> QED BY <4>1, <4>2 DEF Sabido, Existe
    <3>6. /\ {a} \in SUBSET (ADMs \ tarefas'[t].pendentes)
          /\ Cardinality({a}) = tarefas'[t].confirmadas
          /\ \A b \in {a} \cap vivos' : Existe(estado'[b], p)
      BY <1>1, <3>2, FS_Singleton
    <3>7. Contados(t, p)'
      BY <3>6 DEF Contados, Existe
    <3> QED BY <2>2, <3>5, <3>7
  <2> QED BY <2>1, <2>2
<1> QED BY <1>4, <1>7, <1>8 DEF Mantem

\* A snapshot that is sent has the order, and one more ADM may be counted.
LEMMA MantemReplica ==
    ASSUME Base, Criados, NEW t \in Vagas, NEW b \in ADMs,
           ReplicaConfirmada(t, b) \/ ReplicaFalha(t, b), NEW p \in Pedidos, p \notin encerrados'
    PROVE  TomadaSozinha' /\ Mantem(p)
<1> DEFINE x == tarefas[t]
           y == tarefas'[t]
<1>0. IInv /\ Lideranca /\ vivos \subseteq ADMs
  BY DEF Base, IInv, TypeOK
<1>1. /\ x.fase = "replicando" /\ b \in x.pendentes
      /\ y.fase = "replicando" /\ y.adm = x.adm /\ y.estado = x.estado /\ y.op = x.op
      /\ y.pendentes = x.pendentes \ {b} /\ y.isolada = x.isolada /\ Outras(t)
      /\ UNCHANGED estado \/ Recebido(b, x.adm, x.estado)
      /\ UNCHANGED <<lider, vivos, encerrados, firmes>>
      /\ \/ /\ Recebido(b, x.adm, x.estado)
            /\ y.confirmadas = x.confirmadas + 1
         \/ y.confirmadas = x.confirmadas
  BY <1>0, ReplicaEfeito DEF clientes
<1>2. SemTomada
  BY <1>0, <1>1, FasesDe DEF Criados, TomadaSozinha, SemTomada, IInv, TypeOK
<1>3. SemTomada' /\ TomadaSozinha'
  BY <1>1, <1>2 DEF Outras, SemTomada, TomadaSozinha
<1>4. Sabido(p) => Existe(x.estado, p) /\ Existe(y.estado, p)
  BY <1>1 DEF Sabido
<1>5. ASSUME Sabido(p), NEW c \in ADMs, Existe(estado[c], p) PROVE Existe(estado'[c], p)
  BY <1>1, <1>4, <1>5 DEF Recebido
<1>6. Sabido(p) /\ NaMaioria(p) => (Sabido(p) /\ NaMaioria(p))'
  BY <1>0, <1>1, <1>2, <1>3, <1>4, <1>5, MantemSabido DEF Outras
<1>7. ASSUME NEW u \in Vagas, Criada(u, p)' PROVE (Sabido(p) /\ Contados(u, p))'
  <2>1. Criada(u, p)
    BY <1>1, <1>7 DEF Outras, Criada, EmCurso
  <2>2. Sabido(p) /\ Contados(u, p) /\ Sabido(p)'
    BY <1>0, <1>1, <1>2, <1>3, <1>4, <1>5, <2>1, MantemSabido DEF Criados, Outras
  <2>3. CASE u # t
    BY <1>0, <1>1, <1>2, <1>3, <1>4, <1>5, <2>2, <2>3, MantemSabido DEF Outras
  <2>4. CASE u = t
    <3>1. PICK C \in SUBSET (ADMs \ x.pendentes) :
              /\ Cardinality(C) = x.confirmadas
              /\ \A c \in C \cap vivos : Existe(estado[c], p) \/ lider[c] # x.adm
      BY <2>2, <2>4 DEF Contados
    <3>2. b \notin C /\ IsFiniteSet(C)
      <4>1. b \notin C /\ C \in SUBSET ADMs
        BY <1>1, <3>1
      <4> QED BY <4>1, ADMsFinitos, FS_Subset
    <3>3. \A c \in C \cap vivos' : Existe(estado'[c], p) \/ lider'[c] # y.adm
      BY <1>1, <1>5, <2>2, <3>1
    <3>4. CASE y.confirmadas = x.confirmadas
      <4>1. C \in SUBSET (ADMs \ y.pendentes) /\ Cardinality(C) = y.confirmadas
        BY <1>1, <3>1, <3>4
      <4> QED BY <2>2, <2>4, <3>3, <4>1 DEF Contados, Existe
    <3>5. CASE Recebido(b, x.adm, x.estado) /\ y.confirmadas = x.confirmadas + 1
      <4>1. Cardinality(C \cup {b}) = y.confirmadas
        BY <3>1, <3>2, <3>5, FS_AddElement
      <4>2. Existe(estado'[b], p) \/ lider'[b] # y.adm
        BY <1>1, <1>4, <2>2, <3>5 DEF Recebido
      <4>3. C \cup {b} \in SUBSET (ADMs \ y.pendentes)
        BY <1>1, <3>1
      <4>4. \A c \in (C \cup {b}) \cap vivos' : Existe(estado'[c], p) \/ lider'[c] # y.adm
        BY <3>3, <4>2
      <4> QED BY <2>2, <2>4, <4>1, <4>3, <4>4 DEF Contados, Existe
    <3> QED BY <1>1, <3>4, <3>5
  <2> QED BY <2>3, <2>4
<1> QED BY <1>3, <1>6, <1>7 DEF Mantem

\* A takeover goes on: no creation is under way, and a majority has what was answered.
LEMMA MantemTomada ==
    ASSUME Base, TomadaSozinha, NEW t \in Vagas, Outras(t),
           tarefas[t].fase \in {"livre", "anunciando", "coletando"},
           tarefas[t].fase = "livre" => \A u \in Vagas : tarefas[u].fase = "livre",
           tarefas'[t].fase \in {"anunciando", "coletando"}, UNCHANGED <<estado, vivos>>,
           NEW p \in Pedidos,
           Sabido(p) /\ NaMaioria(p) =>
               \E C \in SUBSET ADMs :
                   /\ Cardinality(C) >= Maioria
                   /\ \A b \in C \cap vivos : Existe(estado[b], p)
                   /\ tarefas'[t].fase = "coletando" =>
                          \/ Existe(tarefas'[t].estado, p)
                          \/ C \cap vivos \subseteq tarefas'[t].pendentes
    PROVE  TomadaSozinha' /\ Mantem(p)
<1>1. \A u \in Vagas : u # t => tarefas'[u].fase = "livre"
  BY DEF TomadaSozinha, Outras
<1>2. TomadaSozinha' /\ ~SemTomada'
  BY <1>1 DEF TomadaSozinha, SemTomada
<1>3. Sabido(p)'
  BY <1>1, <1>2 DEF Sabido
<1>4. ASSUME Sabido(p), NaMaioria(p) PROVE NaMaioria(p)'
  <2>1. PICK C \in SUBSET ADMs :
            /\ Cardinality(C) >= Maioria
            /\ \A b \in C \cap vivos : Existe(estado[b], p)
            /\ tarefas'[t].fase = "coletando" =>
                   \/ Existe(tarefas'[t].estado, p)
                   \/ C \cap vivos \subseteq tarefas'[t].pendentes
    BY <1>4
  <2>2. \A u \in Vagas : tarefas'[u].fase = "coletando" =>
            Existe(tarefas'[u].estado, p) \/ C \cap vivos' \subseteq tarefas'[u].pendentes
    BY <1>1, <2>1
  <2>3. \A b \in C \cap vivos' : Existe(estado'[b], p)
    BY <2>1
  <2> QED BY <2>1, <2>2, <2>3 DEF NaMaioria, Existe
<1>5. \A u \in Vagas : ~Criada(u, p)'
  BY <1>1 DEF Criada, EmCurso
<1> QED BY <1>2, <1>3, <1>4, <1>5 DEF Mantem

\* The majority during a takeover
LEMMA MaioriaNaTomada ==
    ASSUME NEW t \in Vagas, NEW p, NaMaioria(p),
           tarefas[t].fase \in {"anunciando", "coletando"}
    PROVE  \E C \in SUBSET ADMs :
               /\ Cardinality(C) >= Maioria
               /\ \A b \in C \cap vivos : Existe(estado[b], p)
               /\ tarefas[t].fase = "coletando" => \/ Existe(tarefas[t].estado, p)
                                                   \/ C \cap vivos \subseteq tarefas[t].pendentes
<1>1. ~SemTomada
  BY DEF SemTomada
<1> QED BY <1>1 DEF NaMaioria

\* A takeover begins: nobody led.
LEMMA MantemSucessao ==
    ASSUME Base, Criados, NEW a \in ADMs, NEW t \in Vagas, Suceder(a, t),
           NEW p \in Pedidos, p \notin encerrados
    PROVE  TomadaSozinha' /\ Mantem(p)
<1>0. IInv /\ Lideranca
  BY DEF Base
<1>1. /\ tarefas'[t].fase = "anunciando" /\ UNCHANGED <<estado, vivos>> /\ Outras(t)
      /\ tarefas[t].fase = "livre"
  BY <1>0, SucederEfeito
<1>2. /\ \A u \in Vagas : tarefas[u].fase = "livre"
      /\ \A c \in ADMs : ~SouLider(c)
  BY <1>0, SucederLivre
<1>3. NaMaioria(p) => \E C \in SUBSET ADMs : /\ Cardinality(C) >= Maioria
                                             /\ \A b \in C \cap vivos : Existe(estado[b], p)
  BY <1>2 DEF NaMaioria
<1> QED BY <1>1, <1>2, <1>3, MantemTomada DEF Criados

\* Announcements change no state.
LEMMA MantemAnuncio ==
    ASSUME Base, Criados, NEW t \in Vagas, NEW b \in ADMs,
           AnuncioEntregue(t, b) \/ AnuncioPerdido(t, b), NEW p \in Pedidos, p \notin encerrados
    PROVE  TomadaSozinha' /\ Mantem(p)
<1>1. /\ tarefas[t].fase = "anunciando" /\ tarefas'[t].fase = "anunciando"
      /\ UNCHANGED <<estado, vivos>> /\ Outras(t)
  BY AnuncioEfeito DEF Base
<1>2. NaMaioria(p) => \E C \in SUBSET ADMs : /\ Cardinality(C) >= Maioria
                                             /\ \A c \in C \cap vivos : Existe(estado[c], p)
  BY <1>1, MaioriaNaTomada
<1> QED BY <1>1, <1>2, MantemTomada DEF Criados

\* The merge starts with the order, or has still to ask the majority.
LEMMA MantemInicio ==
    ASSUME Base, Criados, NEW t \in Vagas, IniciarColeta(t),
           NEW p \in Pedidos, p \notin encerrados
    PROVE  TomadaSozinha' /\ Mantem(p)
<1> DEFINE a == tarefas[t].adm
<1>0. IInv /\ Lideranca /\ vivos \subseteq ADMs
  BY DEF Base, IInv, TypeOK
<1>1. /\ tarefas[t].fase = "anunciando" /\ tarefas'[t].fase = "coletando"
      /\ tarefas'[t].estado = estado[a] /\ tarefas'[t].pendentes = ADMs \ {a}
      /\ UNCHANGED <<estado, vivos>> /\ Outras(t)
  BY <1>0, IniciarEfeito
<1>2. ASSUME NaMaioria(p)
      PROVE  \E C \in SUBSET ADMs :
                 /\ Cardinality(C) >= Maioria
                 /\ \A c \in C \cap vivos : Existe(estado[c], p)
                 /\ \/ Existe(tarefas'[t].estado, p)
                    \/ C \cap vivos \subseteq tarefas'[t].pendentes
  <2>1. PICK C \in SUBSET ADMs : /\ Cardinality(C) >= Maioria
                                 /\ \A c \in C \cap vivos : Existe(estado[c], p)
    BY <1>1, <1>2, MaioriaNaTomada
  <2>2. a \in vivos
    BY <1>0, <1>1, LiderDaVaga
  <2>3. \/ Existe(tarefas'[t].estado, p)
        \/ C \cap vivos \subseteq tarefas'[t].pendentes
    BY <1>0, <1>1, <2>1, <2>2
  <2> QED BY <2>1, <2>3
<1> QED BY <1>1, <1>2, MantemTomada DEF Criados

\* It takes the order from the first of the majority that it asks.
LEMMA MantemColeta ==
    ASSUME Base, Criados, NEW t \in Vagas, NEW b \in ADMs,
           ColetaRecebida(t, b) \/ ColetaFalha(t, b), ~incompleta',
           NEW p \in Pedidos, p \notin encerrados
    PROVE  TomadaSozinha' /\ Mantem(p)
<1> DEFINE x == tarefas[t]
           y == tarefas'[t]
<1>0. IInv /\ Lideranca
  BY DEF Base
<1>1. /\ x.fase = "coletando" /\ y.fase = "coletando" /\ y.pendentes = x.pendentes \ {b}
      /\ UNCHANGED <<estado, vivos>> /\ Outras(t)
      /\ \/ b \in vivos /\ y.estado = Mesclar(x.estado, estado[b])
         \/ b \notin vivos /\ y.estado = x.estado
  BY <1>0, ColetaEfeito
<1>2. x.estado \in Estado /\ estado[b] \in Estado
  BY <1>0, <1>1, TarefaCampos DEF IInv, TypeOK
<1>3. ASSUME NaMaioria(p)
      PROVE  \E C \in SUBSET ADMs :
                 /\ Cardinality(C) >= Maioria
                 /\ \A c \in C \cap vivos : Existe(estado[c], p)
                 /\ Existe(y.estado, p) \/ C \cap vivos \subseteq y.pendentes
  <2>1. PICK C \in SUBSET ADMs :
            /\ Cardinality(C) >= Maioria
            /\ \A c \in C \cap vivos : Existe(estado[c], p)
            /\ Existe(x.estado, p) \/ C \cap vivos \subseteq x.pendentes
    BY <1>1, <1>3, MaioriaNaTomada
  <2>2. Existe(y.estado, p) \/ C \cap vivos \subseteq y.pendentes
    BY <1>1, <1>2, <2>1, MesclarEfeito
  <2> QED BY <2>1, <2>2
<1> HIDE DEF x, y
<1>4. TomadaSozinha /\ (NaMaioria(p) => \E C \in SUBSET ADMs :
          /\ Cardinality(C) >= Maioria
          /\ \A c \in C \cap vivos : Existe(estado[c], p)
          /\ Existe(tarefas'[t].estado, p) \/ C \cap vivos \subseteq tarefas'[t].pendentes)
  BY <1>3 DEF Criados, y
<1> QED BY <1>1, <1>4, MantemTomada DEF x, y

\* When it has asked everybody it has the order.
LEMMA MantemPosse ==
    ASSUME Base, Criados, Cardinality(vivos) >= Maioria, NEW t \in Vagas, AssumirEstado(t),
           NEW p \in Pedidos, p \notin encerrados
    PROVE  TomadaSozinha' /\ Mantem(p)
<1> DEFINE x == tarefas[t]
           y == tarefas'[t]
<1>0. IInv /\ Lideranca /\ vivos \subseteq ADMs
  BY DEF Base, IInv, TypeOK
<1>1. /\ x.fase = "coletando" /\ x.pendentes = {} /\ y.fase = "replicando"
      /\ y.estado = x.estado /\ y.op = Posse /\ estado'[x.adm] = x.estado
      /\ \A c \in ADMs : c # x.adm => estado'[c] = estado[c]
      /\ UNCHANGED <<lider, vivos>> /\ Outras(t)
  BY <1>0, AssumirEfeito
<1>2. \A u \in Vagas : u # t => tarefas'[u].fase = "livre"
  BY <1>1 DEF Criados, TomadaSozinha, Outras
<1>3. \A c \in ADMs : SouLider(c)' => c = x.adm
  BY <1>0, <1>1, LiderDaVaga DEF SouLider
<1>4. TomadaSozinha'
  BY <1>1, <1>2 DEF TomadaSozinha
<1>5. ASSUME NaMaioria(p) PROVE (Sabido(p) /\ NaMaioria(p))'
  <2>1. PICK C \in SUBSET ADMs :
            /\ Cardinality(C) >= Maioria
            /\ \A c \in C \cap vivos : Existe(estado[c], p)
            /\ Existe(x.estado, p) \/ C \cap vivos \subseteq x.pendentes
    BY <1>1, <1>5, MaioriaNaTomada
  <2>2. \E c \in ADMs : c \in C /\ c \in vivos
    BY <1>0, <2>1, MaioriasSeCruzam
  <2>3. Existe(x.estado, p)
    BY <1>1, <2>1, <2>2
  <2>4. \A c \in C \cap vivos' : Existe(estado'[c], p)
    BY <1>1, <2>1, <2>3
  <2>5. \A u \in Vagas : tarefas'[u].fase # "coletando"
    BY <1>1, <1>2
  <2>6. NaMaioria(p)'
    BY <2>1, <2>4, <2>5 DEF NaMaioria, Existe
  <2>7. \A c \in ADMs : SouLider(c)' => Existe(estado'[c], p)
    BY <1>1, <1>3, <2>3
  <2>8. \A u \in Vagas : tarefas'[u].fase = "replicando" => Existe(tarefas'[u].estado, p)
    BY <1>1, <1>2, <2>3
  <2> QED BY <2>6, <2>7, <2>8 DEF Sabido, Existe
<1>6. \A u \in Vagas : ~Criada(u, p)'
  BY <1>1, <1>2 DEF Criada, EmCurso
<1> QED BY <1>4, <1>5, <1>6 DEF Mantem

\* What was counted for a creation is a majority when this is answered with success.
LEMMA MantemConclusao ==
    ASSUME Base, Criados, NEW t \in Vagas, Concluir(t), NEW p \in Pedidos, p \notin encerrados
    PROVE  /\ TomadaSozinha' /\ Mantem(p)
           /\ Criacao(p) \in firmes' => Sabido(p) /\ NaMaioria(p)
<1> DEFINE x == tarefas[t]
<1>0. IInv /\ Lideranca /\ vivos \subseteq ADMs
  BY DEF Base, IInv, TypeOK
<1>1. /\ x.fase = "replicando" /\ tarefas'[t].fase = "livre" /\ Outras(t)
      /\ UNCHANGED <<estado, lider, vivos>>
      /\ \/ UNCHANGED firmes
         \/ /\ x.op # Posse /\ x.confirmadas >= Maioria /\ x.isolada
            /\ firmes' = firmes \cup {x.op}
  BY <1>0, ConcluirEfeito
<1>2. SemTomada
  BY <1>0, <1>1, FasesDe DEF Criados, TomadaSozinha, SemTomada, IInv, TypeOK
<1>3. SemTomada' /\ TomadaSozinha'
  BY <1>1, <1>2 DEF Outras, SemTomada, TomadaSozinha
<1>4. /\ Sabido(p) => Sabido(p)'
      /\ NaMaioria(p) => NaMaioria(p)'
      /\ \A u \in Vagas : u # t /\ Contados(u, p) => Contados(u, p)'
  BY <1>0, <1>1, <1>2, <1>3, MantemSabido DEF Outras
<1>5. ASSUME NEW u \in Vagas, Criada(u, p)' PROVE (Sabido(p) /\ Contados(u, p))'
  <2>1. u # t /\ Criada(u, p)
    BY <1>1, <1>5 DEF Outras, Criada, EmCurso
  <2> QED BY <1>4, <2>1 DEF Criados
<1>6. ASSUME Criacao(p) \in firmes' PROVE Sabido(p) /\ NaMaioria(p)
  <2>1. CASE Criacao(p) \in firmes
    BY <2>1 DEF Criados
  <2>2. CASE Criacao(p) \notin firmes
    <3>1. x.op = Criacao(p) /\ x.confirmadas >= Maioria /\ Criada(t, p)
      BY <1>1, <1>6, <2>2 DEF Criada, EmCurso
    <3>2. Sabido(p) /\ Contados(t, p)
      BY <3>1 DEF Criados
    <3>3. PICK C \in SUBSET (ADMs \ x.pendentes) :
              /\ Cardinality(C) = x.confirmadas
              /\ \A c \in C \cap vivos : Existe(estado[c], p) \/ lider[c] # x.adm
      BY <3>2 DEF Contados
    <3>4. x.adm \in ADMs /\ SouLider(x.adm)
      BY <1>0, <1>1, LiderDaVaga
    <3>5. \A u \in Vagas : tarefas[u].fase # "coletando"
      BY <1>2 DEF SemTomada
    <3>6. C \in SUBSET ADMs /\ Cardinality(C) >= Maioria
      BY <3>1, <3>3
    <3>7. NaMaioria(p)
      BY <1>2, <3>3, <3>4, <3>5, <3>6 DEF NaMaioria
    <3> QED BY <3>2, <3>7
  <2> QED BY <2>1, <2>2
<1> QED BY <1>3, <1>4, <1>5, <1>6 DEF Mantem

\* If the leader in charge crashes every running ADM followed it.
LEMMA MantemQueda ==
    ASSUME Base, Criados, NEW a \in ADMs, Cair(a), ~incompleta', NEW p \in Pedidos,
           p \notin encerrados
    PROVE  TomadaSozinha' /\ Mantem(p)
<1>0. IInv /\ Lideranca
  BY DEF Base
<1>1. /\ a \in vivos /\ vivos' = vivos \ {a} /\ UNCHANGED <<estado, lider>>
      /\ \A t \in Vagas :
             /\ \/ tarefas'[t].fase = "livre"
                \/ tarefas'[t] = tarefas[t] /\ tarefas[t].adm # a
             /\ tarefas[t].fase # "livre" /\ tarefas[t].adm # a => tarefas'[t] = tarefas[t]
      /\ NoComando(a) => \A b \in vivos : lider[b] = a
  BY <1>0, CairEfeito
<1>2. TomadaSozinha'
  BY <1>1 DEF Criados, TomadaSozinha
<1>3. CASE SouLider(a)
  <2>1. \A t \in Vagas : tarefas'[t].fase = "livre"
    BY <1>0, <1>1, <1>3, LiderDaVaga
  <2>2. \A c \in ADMs : ~SouLider(c)'
    BY <1>0, <1>1, <1>3, LiderUnico DEF SouLider
  <2>3. Sabido(p)' /\ \A t \in Vagas : ~Criada(t, p)'
    BY <2>1, <2>2 DEF Sabido, Criada, EmCurso
  <2>4. ASSUME NaMaioria(p) PROVE NaMaioria(p)'
    <3>1. PICK C \in SUBSET ADMs :
              /\ Cardinality(C) >= Maioria
              /\ \A b \in C \cap vivos :
                     \/ Existe(estado[b], p)
                     \/ SemTomada /\ \E c \in ADMs : SouLider(c) /\ lider[b] # c
      BY <2>4 DEF NaMaioria
    <3>2. \A c \in ADMs : SouLider(c) => c = a
      BY <1>0, <1>3, LiderUnico
    <3>3. SemTomada => \A b \in vivos : lider[b] = a
      BY <1>1, <1>3, Comando
    <3>4. \A b \in C \cap vivos' : Existe(estado'[b], p)
      BY <1>1, <3>1, <3>2, <3>3
    <3> QED BY <2>1, <3>1, <3>4 DEF NaMaioria, Existe
  <2> QED BY <1>2, <2>3, <2>4 DEF Mantem
<1>4. CASE ~SouLider(a)
  <2>1. \A t \in Vagas : \/ tarefas'[t] = tarefas[t]
                         \/ tarefas'[t].fase = "livre" /\ tarefas[t].fase = "livre"
    BY <1>0, <1>1, <1>4, LiderDaVaga
  <2>2. /\ \A c \in ADMs : SouLider(c)' <=> SouLider(c)
        /\ SemTomada' <=> SemTomada
    BY <1>1, <1>4, <2>1 DEF SouLider, SemTomada
  <2>3. Sabido(p) => Sabido(p)'
    BY <1>1, <2>1, <2>2 DEF Sabido, Existe
  <2>4. ASSUME NaMaioria(p) PROVE NaMaioria(p)'
    <3>1. PICK C \in SUBSET ADMs :
              /\ Cardinality(C) >= Maioria
              /\ \A b \in C \cap vivos :
                     \/ Existe(estado[b], p)
                     \/ SemTomada /\ \E c \in ADMs : SouLider(c) /\ lider[b] # c
              /\ \A t \in Vagas : tarefas[t].fase = "coletando" =>
                     Existe(tarefas[t].estado, p) \/ C \cap vivos \subseteq tarefas[t].pendentes
      BY <2>4 DEF NaMaioria
    <3>2. \A b \in C \cap vivos' :
              \/ Existe(estado'[b], p)
              \/ SemTomada' /\ \E c \in ADMs : SouLider(c)' /\ lider'[b] # c
      BY <1>1, <2>2, <3>1
    <3>3. ASSUME NEW t \in Vagas, tarefas'[t].fase = "coletando"
          PROVE  Existe(tarefas'[t].estado, p) \/ C \cap vivos' \subseteq tarefas'[t].pendentes
      BY <1>1, <2>1, <3>1, <3>3
    <3> QED BY <3>1, <3>2, <3>3 DEF NaMaioria, Existe
  <2>5. ASSUME NEW t \in Vagas, Criada(t, p)' PROVE (Sabido(p) /\ Contados(t, p))'
    <3>1. tarefas'[t] = tarefas[t] /\ Criada(t, p)
      BY <2>1, <2>5 DEF Criada, EmCurso
    <3>2. Sabido(p) /\ Contados(t, p)
      BY <3>1 DEF Criados
    <3>3. PICK C \in SUBSET (ADMs \ tarefas[t].pendentes) :
              /\ Cardinality(C) = tarefas[t].confirmadas
              /\ \A c \in C \cap vivos : Existe(estado[c], p) \/ lider[c] # tarefas[t].adm
      BY <3>2 DEF Contados
    <3>4. \A c \in C \cap vivos' : Existe(estado'[c], p) \/ lider'[c] # tarefas'[t].adm
      BY <1>1, <3>1, <3>3
    <3> QED BY <2>3, <3>1, <3>2, <3>3, <3>4 DEF Contados, Existe
  <2> QED BY <1>2, <2>3, <2>4, <2>5 DEF Mantem
<1> QED BY <1>3, <1>4

\* A repeated accept is only answered.
LEMMA MantemRepetido ==
    ASSUME Criados, UNCHANGED <<estado, lider, vivos, tarefas>>, NEW p \in Pedidos,
           p \notin encerrados
    PROVE  TomadaSozinha' /\ Mantem(p)
<1>1. /\ TomadaSozinha'
      /\ Sabido(p) => Sabido(p)'
      /\ NaMaioria(p) => NaMaioria(p)'
  BY DEF Criados, TomadaSozinha, Sabido, NaMaioria, SemTomada, SouLider, Existe
<1>2. ASSUME NEW t \in Vagas, Criada(t, p)' PROVE (Sabido(p) /\ Contados(t, p))'
  <2>1. Criada(t, p)
    BY <1>2 DEF Criada, EmCurso
  <2>2. Sabido(p) /\ Contados(t, p)
    BY <2>1 DEF Criados
  <2> QED BY <1>1, <2>2 DEF Contados, Existe
<1> QED BY <1>1, <1>2 DEF Mantem

\* Every step keeps the orders that were created.
LEMMA MantemPasso ==
    ASSUME CInv, Next, ~incompleta', NEW p \in Pedidos, p \notin encerrados'
    PROVE  /\ ~incompleta /\ p \notin encerrados
           /\ TomadaSozinha' /\ Mantem(p)
           /\ Criacao(p) \in firmes' => Sabido(p) /\ NaMaioria(p)
<1>0. /\ Base /\ IInv /\ Historia /\ Cardinality(vivos) >= Maioria
      /\ ~incompleta => Criados
  BY DEF CInv, Base
<1>1. ASSUME ~incompleta, p \notin encerrados, firmes' = firmes, TomadaSozinha', Mantem(p)
      PROVE  /\ ~incompleta /\ p \notin encerrados
             /\ TomadaSozinha' /\ Mantem(p)
             /\ Criacao(p) \in firmes' => Sabido(p) /\ NaMaioria(p)
  BY <1>0, <1>1 DEF Criados
<1>2. CASE \E a \in ADMs : Operacao(a)
  <2>1. PICK a \in ADMs : Operacao(a)
    BY <1>2
  <2>2. ASSUME NEW t \in Vagas, NEW op \in Pedida, Executou(a, t, op)
        PROVE  ~incompleta /\ p \notin encerrados /\ firmes' = firmes /\ TomadaSozinha' /\ Mantem(p)
    <3>1. ~incompleta /\ p \notin encerrados /\ firmes' = firmes
      BY <2>2 DEF Executou
    <3> QED BY <1>0, <2>2, <3>1, MantemOperacao
  <2>3. ASSUME NEW q \in Pedidos, NEW d \in Entregadores, RepetirAceite(a, q, d)
        PROVE  ~incompleta /\ p \notin encerrados /\ firmes' = firmes /\ TomadaSozinha' /\ Mantem(p)
    <3>1. /\ ~incompleta /\ p \notin encerrados /\ firmes' = firmes
          /\ UNCHANGED <<estado, lider, vivos, tarefas>>
      BY <2>3 DEF RepetirAceite
    <3> QED BY <1>0, <3>1, MantemRepetido
  <2> QED BY <1>0, <1>1, <2>1, <2>2, <2>3, OperacaoEfeito
<1>3. ASSUME NEW a \in ADMs, Cair(a)
      PROVE  ~incompleta /\ p \notin encerrados /\ firmes' = firmes /\ TomadaSozinha' /\ Mantem(p)
  <2>1. ~incompleta /\ p \notin encerrados /\ firmes' = firmes
    BY <1>0, <1>3, CairEfeito DEF clientes
  <2> QED BY <1>0, <1>3, <2>1, MantemQueda
<1>4. ASSUME NEW a \in ADMs, NEW t \in Vagas, Suceder(a, t)
      PROVE  ~incompleta /\ p \notin encerrados /\ firmes' = firmes /\ TomadaSozinha' /\ Mantem(p)
  <2>1. ~incompleta /\ p \notin encerrados /\ firmes' = firmes
    BY <1>0, <1>4, SucederEfeito DEF clientes
  <2> QED BY <1>0, <1>4, <2>1, MantemSucessao
<1>5. ASSUME NEW t \in Vagas, NEW b \in ADMs, ReplicaConfirmada(t, b) \/ ReplicaFalha(t, b)
      PROVE  ~incompleta /\ p \notin encerrados /\ firmes' = firmes /\ TomadaSozinha' /\ Mantem(p)
  <2>1. ~incompleta /\ p \notin encerrados /\ firmes' = firmes
    BY <1>0, <1>5, ReplicaEfeito DEF clientes
  <2> QED BY <1>0, <1>5, <2>1, MantemReplica
<1>6. ASSUME NEW t \in Vagas, NEW b \in ADMs, AnuncioEntregue(t, b) \/ AnuncioPerdido(t, b)
      PROVE  ~incompleta /\ p \notin encerrados /\ firmes' = firmes /\ TomadaSozinha' /\ Mantem(p)
  <2>1. ~incompleta /\ p \notin encerrados /\ firmes' = firmes
    BY <1>0, <1>6, AnuncioEfeito DEF clientes
  <2> QED BY <1>0, <1>6, <2>1, MantemAnuncio
<1>7. ASSUME NEW t \in Vagas, NEW b \in ADMs, ColetaRecebida(t, b) \/ ColetaFalha(t, b)
      PROVE  ~incompleta /\ p \notin encerrados /\ firmes' = firmes /\ TomadaSozinha' /\ Mantem(p)
  <2>1. ~incompleta /\ p \notin encerrados /\ firmes' = firmes
    BY <1>0, <1>7, ColetaEfeito DEF clientes
  <2> QED BY <1>0, <1>7, <2>1, MantemColeta
<1>8. ASSUME NEW t \in Vagas, IniciarColeta(t)
      PROVE  ~incompleta /\ p \notin encerrados /\ firmes' = firmes /\ TomadaSozinha' /\ Mantem(p)
  <2>1. ~incompleta /\ p \notin encerrados /\ firmes' = firmes
    BY <1>0, <1>8, IniciarEfeito DEF clientes
  <2> QED BY <1>0, <1>8, <2>1, MantemInicio
<1>9. ASSUME NEW t \in Vagas, AssumirEstado(t)
      PROVE  ~incompleta /\ p \notin encerrados /\ firmes' = firmes /\ TomadaSozinha' /\ Mantem(p)
  <2>1. ~incompleta /\ p \notin encerrados /\ firmes' = firmes
    BY <1>0, <1>9, AssumirEfeito DEF clientes
  <2> QED BY <1>0, <1>9, <2>1, MantemPosse
<1>10. ASSUME NEW t \in Vagas, Concluir(t)
       PROVE  /\ ~incompleta /\ p \notin encerrados
              /\ TomadaSozinha' /\ Mantem(p)
              /\ Criacao(p) \in firmes' => Sabido(p) /\ NaMaioria(p)
  <2>1. ~incompleta /\ p \notin encerrados
    BY <1>0, <1>10, ConcluirEfeito
  <2> QED BY <1>0, <1>10, <2>1, MantemConclusao
<1> QED BY <1>1, <1>2, <1>3, <1>4, <1>5, <1>6, <1>7, <1>8, <1>9, <1>10 DEF Next, Passo

\* CInv is inductive.
LEMMA CPasso == CInv /\ [Next]_vars => CInv'
<1> SUFFICES ASSUME CInv, [Next]_vars PROVE CInv'
  OBVIOUS
<1>1. Base /\ Base' /\ IInv
  BY BasePasso DEF CInv, Base
<1>2. Cardinality(vivos') >= Maioria
  BY <1>1, VivosPasso DEF CInv
<1>3. SUFFICES ASSUME ~incompleta', NEW p \in Pedidos, p \notin encerrados'
               PROVE  /\ TomadaSozinha'
                      /\ Criacao(p) \in firmes' => (Sabido(p) /\ NaMaioria(p))'
                      /\ \A t \in Vagas : Criada(t, p)' => (Sabido(p) /\ Contados(t, p))'
  BY <1>1, <1>2 DEF CInv, Criados
<1>4. CASE Next
  BY <1>3, <1>4, MantemPasso DEF Mantem
<1>5. CASE UNCHANGED vars
  <2>1. /\ Criados /\ p \notin encerrados
        /\ UNCHANGED <<estado, lider, vivos, tarefas, firmes>>
    BY <1>3, <1>5 DEF CInv, vars, clientes
  <2>2. TomadaSozinha' /\ Mantem(p)
    BY <2>1, MantemRepetido
  <2> QED BY <2>1, <2>2 DEF Criados, Mantem
<1> QED BY <1>4, <1>5

\* Initially nothing was created.
LEMMA InicioC == Init => CInv
<1> SUFFICES ASSUME Init PROVE CInv
  OBVIOUS
<1>1. Cardinality(vivos) >= Maioria
  BY ADMsFinitos, ReplicacaoAssumption DEF Init, Maioria
<1>2. firmes = {} /\ \A t \in Vagas : tarefas[t].fase = "livre"
  BY DEF Init, Livre
<1>3. Criados
  BY <1>2 DEF Criados, TomadaSozinha, Criada, EmCurso
<1> QED BY <1>1, <1>3, InicioBase DEF CInv

-----------------------------------------------------------------------------
(* The theorems *)

\* Every variable of the cluster keeps its type.
THEOREM TipoCorreto == Spec => []TypeOK
<1>1. Init => IInv
  BY InicioOk
<1>2. IInv /\ [Next]_vars => IInv'
  BY PassoIndutivo
<1>3. IInv => TypeOK
  BY DEF IInv
<1> QED BY <1>1, <1>2, <1>3, PTL DEF Spec

\* Whatever fails, crashes or overlaps, every ADM and every snapshot or merge
\* under way holds a coherent state: the queue and the map name known orders, and
\* an order out of the queue has a driver and a tracker, so that aceitar_pedido
\* never meets one without a driver.
THEOREM EstadosSempreCoerentes == Spec => []EstadosCoerentes
<1>1. Init => IInv
  BY InicioOk
<1>2. IInv /\ [Next]_vars => IInv'
  BY PassoIndutivo
<1>3. IInv => EstadosCoerentes
  BY DEF IInv
<1> QED BY <1>1, <1>2, <1>3, PTL DEF Spec

\* While no call between running ADMs has failed, what was answered with success and
\* began with nothing else under way is kept by every running ADM, whatever overlaps
\* it later and wherever the leaders crash.
THEOREM RespostasSempreMantidas == Spec => []RespostasMantidas
<1>1. Init => SInv
  BY InicioS
<1>2. SInv /\ [Next]_vars => SInv'
  BY SPasso
<1>3. SInv => RespostasMantidas
  BY DEF SInv, Juntos, RespostasMantidas, Firmes, Guardada, Guarda
<1> QED BY <1>1, <1>2, <1>3, PTL DEF Spec

\* Nor is a second driver then told that he has the order, by his own accept or by one
\* that is answered at once.
THEOREM PrimeiroAceiteSempreVale == Spec => PrimeiroAceiteVale
<1> DEFINE Certo == falhas' = 0 =>
               \A p \in Pedidos : \A d1, d2 \in Entregadores :
                   Aceite(p, d1) \in firmes /\ Aceite(p, d2) \in respostas' \ respostas
                       => d1 = d2
<1>1. Init => SInv
  BY InicioS
<1>2. SInv /\ [Next]_vars => SInv'
  BY SPasso
<1>3. SInv /\ [Next]_vars => [Certo]_vars
  <2>1. SUFFICES ASSUME SInv, Next, falhas' = 0, NEW p \in Pedidos,
                        NEW d1 \in Entregadores, NEW d2 \in Entregadores,
                        Aceite(p, d1) \in firmes, Aceite(p, d2) \in respostas' \ respostas
                 PROVE  d1 = d2
    OBVIOUS
  <2> DEFINE o == Aceite(p, d1)
  <2>2. IInv /\ Historia /\ Base /\ Guardada(o, {})
    BY <2>1, FalhasCrescem DEF SInv, Juntos, Firmes, Base
  <2>3. /\ o.tipo = "aceitar" /\ o.pedido = p /\ o.entregador = d1
        /\ Aceite(p, d2).tipo = "aceitar" /\ Aceite(p, d2).pedido = p
        /\ Aceite(p, d2).entregador = d2 /\ Aceite(p, d2) # Posse
    BY OperacaoCampos
  <2>4. ASSUME NEW a \in ADMs, Operacao(a) PROVE d1 = d2
    <3>1. ASSUME NEW t \in Vagas, NEW op \in Pedida, Executou(a, t, op) PROVE FALSE
      BY <2>1, <3>1 DEF Executou
    <3>2. ASSUME NEW q \in Pedidos, NEW d \in Entregadores, RepetirAceite(a, q, d)
          PROVE  d1 = d2
      <4>1. /\ SouLider(a) /\ Existe(estado[a], q) /\ estado[a].pedidos[q].entregador = d
            /\ respostas' = respostas \cup {Aceite(q, d)}
        BY <3>2 DEF RepetirAceite
      <4>2. Aceite(p, d2) = Aceite(q, d)
        BY <2>1, <4>1
      <4>3. p = q /\ d2 = d
        BY <2>3, <4>2, OperacaoCampos
      <4>4. Guarda(estado[a], o)
        BY <2>2, <4>1 DEF Guardada, SouLider
      <4> QED BY <2>3, <4>1, <4>3, <4>4 DEF Guarda
    <3> QED BY <2>2, <2>4, <3>1, <3>2, OperacaoEfeito
  <2>5. ASSUME NEW t \in Vagas, Concluir(t) PROVE d1 = d2
    <3>1. tarefas[t].fase = "replicando" /\ tarefas[t].op = Aceite(p, d2)
      BY <2>1, <2>2, <2>5, ConcluirEfeito
    <3>2. MesmoDono(Aceite(p, d2), o)
      BY <2>2, <2>3, <3>1 DEF Guardada
    <3> QED BY <2>3, <3>2 DEF MesmoDono
  <2>6. ASSUME NEW t \in Vagas, NEW b \in ADMs,
               \/ ReplicaConfirmada(t, b) \/ ReplicaFalha(t, b) \/ AnuncioEntregue(t, b)
               \/ AnuncioPerdido(t, b) \/ ColetaRecebida(t, b) \/ ColetaFalha(t, b)
        PROVE  FALSE
    <3>1. CASE ReplicaConfirmada(t, b) \/ ReplicaFalha(t, b)
      BY <2>1, <2>2, <3>1, ReplicaEfeito DEF clientes
    <3>2. CASE AnuncioEntregue(t, b) \/ AnuncioPerdido(t, b)
      BY <2>1, <2>2, <3>2, AnuncioEfeito DEF clientes
    <3>3. CASE ColetaRecebida(t, b) \/ ColetaFalha(t, b)
      BY <2>1, <2>2, <3>3, ColetaEfeito DEF clientes
    <3> QED BY <2>6, <3>1, <3>2, <3>3
  <2> QED BY <2>1, <2>4, <2>5, <2>6
          DEF Next, Passo, Cair, Suceder, IniciarColeta, AssumirEstado, clientes
<1> QED BY <1>1, <1>2, <1>3, PTL DEF Spec, PrimeiroAceiteVale

\* And when nothing is under way the running ADMs have the state of their leader, if
\* the last replication overlapped no other when it began.
THEOREM ConvergeSempre == Spec => []ConvergeIsolada
<1>1. Init => SInv
  BY InicioS
<1>2. SInv /\ [Next]_vars => SInv'
  BY SPasso
<1>3. SInv => ConvergeIsolada
  <2>1. SUFFICES ASSUME SInv, falhas = 0, isolada, \A t \in Vagas : tarefas[t] = Livre,
                        NEW a \in vivos, NEW b \in vivos, SouLider(a)
                 PROVE  estado[b] = estado[a]
    BY DEF ConvergeIsolada
  <2>2. \A t \in Vagas : tarefas[t].fase = "livre"
    BY <2>1 DEF Livre
  <2>3. a \in ADMs
    BY <2>1 DEF SInv, Base, IInv, TypeOK
  <2> QED BY <2>1, <2>2, <2>3 DEF SInv, Juntos, Iguais
<1> QED BY <1>1, <1>2, <1>3, PTL DEF Spec

\* Whatever calls fail, an order whose creation was answered with success and began
\* with nothing else under way is known to the leader in charge until it is delivered,
\* if the takeovers were complete: the majority that has it meets the majority that runs.
THEOREM CriacaoSempreSobrevive == Spec => []CriacaoSobrevive
<1>1. Init => CInv
  BY InicioC
<1>2. CInv /\ [Next]_vars => CInv'
  BY CPasso
<1>3. CInv => CriacaoSobrevive
  <2>1. SUFFICES ASSUME CInv, ~incompleta, NEW a \in ADMs, NoComando(a), NEW p \in Pedidos,
                        Criacao(p) \in firmes, p \notin encerrados
                 PROVE  Existe(estado[a], p)
    BY DEF CriacaoSobrevive
  <2>2. SouLider(a) /\ SemTomada
    BY <2>1, Comando DEF CInv
  <2>3. Sabido(p)
    BY <2>1 DEF CInv, Criados
  <2> QED BY <2>2, <2>3 DEF Sabido
<1> QED BY <1>1, <1>2, <1>3, PTL DEF Spec
=============================================================================
