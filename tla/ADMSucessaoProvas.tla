-------------------------- MODULE ADMSucessaoProvas --------------------------
(***************************************************************************)
(* For every set of trackers, orders and drivers, every ring and any       *)
(* number of ADMs, changes of leader, moves made during a merge, lost or   *)
(* late snapshots: every ADM and every merge has a coherent state, and     *)
(* only a takeover misplaces an order.                                     *)
(***************************************************************************)
EXTENDS ADMSucessao, ADMLiderProvas

-----------------------------------------------------------------------------
(* The inductive invariant *)

\* A state knows only orders that were created.
SoUsados(e) == \A q \in Pedidos : Existe(e, q) => q \in usados

\* The orders that the merge shares with the leader: out of the queue of the merge,
\* one had a driver when the merge began, and a leader takes no driver away.
MesclaLigada ==
    \A q \in posse.proprios :
        /\ Existe(posse.estado, q)
        /\ Existe(estado, q) /\ q \notin posse.estado.semEntregador => ComEntregador(estado, q)

MesclaOk == Coerente(posse.estado) /\ SoUsados(posse.estado) /\ MesclaLigada

IInvS == /\ TipoSucessao
         /\ MapaRealinhado
         /\ Coerente(estado) /\ SoUsados(estado)
         /\ \A b \in 1..(lider - 1) : Coerente(copia[b]) /\ SoUsados(copia[b])
         /\ posse.fase = "coletando" => MesclaOk

\* It holds of the empty states.
LEMMA InicioSucessaoOk == InitSucessao => IInvS
<1> SUFFICES ASSUME InitSucessao PROVE IInvS
  OBVIOUS
<1>1. /\ estado = EstadoVazio /\ lider = N /\ copia = [b \in 1..(N - 1) |-> EstadoVazio]
      /\ posse = Assumida /\ desalinhados = {} /\ ativos = {}
  BY DEF InitSucessao, Init
<1>2. TypeOK
  BY InicioOk DEF InitSucessao, IInv
<1>3. TipoSucessao
  BY <1>1, <1>2, SucessaoAssumption, VazioOk DEF TipoSucessao, Posse
<1>4. SoUsados(EstadoVazio)
  BY DEF SoUsados, EstadoVazio, Existe
<1> QED BY <1>1, <1>3, <1>4, VazioOk DEF IInvS, MapaRealinhado, Assumida

-----------------------------------------------------------------------------
(* One step of the leader *)

\* An order that the leader knows after a step was created by it, or was known and
\* keeps its driver.
Mantido(q) ==
    /\ Existe(estado', q) => q \in usados'
    /\ Existe(estado', q) /\ q \in usados =>
           Existe(estado, q) /\ (ComEntregador(estado, q) => ComEntregador(estado', q))

\* An order that is not where the ring says was there already, and misplaced.
NaoDesvia(q) ==
    ativos' # {} /\ estado'.mapa[q] \notin {Nenhum, EscolherServidor(q, ativos')} =>
        /\ ativos # {}
        /\ estado.mapa[q] = estado'.mapa[q]
        /\ estado.mapa[q] # EscolherServidor(q, ativos)

Bom == /\ Coerente(estado)'
       /\ usados \subseteq usados'
       /\ \A q \in Pedidos : Mantido(q) /\ NaoDesvia(q)

\* The order created waits in the queue; the map is not touched.
LEMMA CriarBom ==
    ASSUME IInvS, NEW p \in Pedidos, CriarPedido(p)
    PROVE  Bom
<1>1. /\ estado \in Estado /\ estado' = Criar(estado, p) /\ Coerente(estado) /\ SoUsados(estado)
      /\ usados' = usados \cup {p} /\ p \notin usados /\ ativos' = ativos
  BY SucessaoAssumption DEF IInvS, TipoSucessao, TypeOK, CriarPedido, infra
<1>2. Coerente(estado')
  BY <1>1, CriarCoerente
<1>3. ASSUME NEW q \in Pedidos PROVE Mantido(q) /\ NaoDesvia(q)
  <2>1. /\ estado'.mapa[q] = estado.mapa[q]
        /\ Existe(estado', q) <=> q = p \/ Existe(estado, q)
        /\ ComEntregador(estado', q) <=> q # p /\ ComEntregador(estado, q)
    BY <1>1, CriarEfeito
  <2>2. Mantido(q)
    BY <1>1, <2>1 DEF Mantido, SoUsados
  <2>3. NaoDesvia(q)
    BY <1>1, <2>1 DEF NaoDesvia
  <2> QED BY <2>2, <2>3
<1> QED BY <1>1, <1>2, <1>3 DEF Bom

\* A delivered order leaves the queue, the orders and the map together.
LEMMA ConfirmarBom ==
    ASSUME IInvS, NEW p \in Pedidos, ConfirmarEntrega(p)
    PROVE  Bom
<1>1. /\ estado \in Estado /\ estado' = Confirmar(estado, p)
      /\ Coerente(estado) /\ SoUsados(estado)
      /\ usados' = usados /\ ativos' = ativos
  BY DEF IInvS, TipoSucessao, TypeOK, ConfirmarEntrega, infra, historia
<1>2. Coerente(estado')
  BY <1>1, ConfirmarCoerente
<1>3. ASSUME NEW q \in Pedidos PROVE Mantido(q) /\ NaoDesvia(q)
  <2>1. /\ estado'.mapa[q] = IF q = p THEN Nenhum ELSE estado.mapa[q]
        /\ Existe(estado', q) <=> q # p /\ Existe(estado, q)
        /\ ComEntregador(estado', q) <=> q # p /\ ComEntregador(estado, q)
    BY <1>1, ConfirmarEfeito
  <2>2. Mantido(q)
    BY <1>1, <2>1 DEF Mantido, SoUsados
  <2>3. NaoDesvia(q)
    BY <1>1, <2>1 DEF NaoDesvia
  <2> QED BY <2>2, <2>3
<1> QED BY <1>1, <1>2, <1>3 DEF Bom

\* The accepted order goes where the ring says, published or not.
LEMMA AceitarBom ==
    ASSUME IInvS, NEW p \in Pedidos, NEW d \in Entregadores,
           AceitarPedido(p, d) \/ AceiteNaoPublicado(p, d)
    PROVE  Bom
<1>1. /\ estado \in Estado /\ Existe(estado, p)
      /\ ativos \in SUBSET Rastreadores /\ ativos # {}
      /\ estado' = Aceitar(estado, p, d, ativos)
      /\ Coerente(estado) /\ SoUsados(estado)
      /\ usados' = usados /\ ativos' = ativos
  BY DEF IInvS, TipoSucessao, TypeOK, AceitarPedido, AceiteNaoPublicado, PodeAceitar,
         infra, historia
<1>2. Coerente(estado')
  BY <1>1, AceitarCoerente
<1>3. ASSUME NEW q \in Pedidos PROVE Mantido(q) /\ NaoDesvia(q)
  <2>1. /\ estado'.mapa[q] = IF q = p THEN EscolherServidor(p, ativos) ELSE estado.mapa[q]
        /\ Existe(estado', q) <=> Existe(estado, q)
        /\ ComEntregador(estado', q) <=> q = p \/ ComEntregador(estado, q)
    BY <1>1, AceitarEfeito
  <2>2. Mantido(q)
    BY <1>1, <2>1 DEF Mantido, SoUsados
  <2>3. NaoDesvia(q)
    BY <1>1, <2>1 DEF NaoDesvia
  <2> QED BY <2>2, <2>3
<1> QED BY <1>1, <1>2, <1>3 DEF Bom

\* What a complete loop over ps does to the orders the leader knows
LEMMA MoverBom ==
    ASSUME IInvS, NEW ps \in SUBSET Pedidos, NEW at \in SUBSET Rastreadores,
           ps # {} => at # {}, \A q \in ps : Existe(estado, q),
           estado' = Mover(estado, ps, at), ativos' = at, usados' = usados,
           \A q \in Pedidos \ ps : NaoDesvia(q)
    PROVE  Bom
<1>1. /\ estado \in Estado /\ Coerente(estado) /\ SoUsados(estado)
  BY DEF IInvS, TipoSucessao, TypeOK
<1>2. \A q \in ps : EscolherServidor(q, at) # Nenhum
  BY EscolheAtivo, EstadoAssumption
<1>3. \A q \in Pedidos : Movido(estado, estado', q, ps, at)
  BY <1>1, MoverTodos
<1>4. Coerente(estado')
  BY <1>1, <1>2, <1>3 DEF Movido, Coerente, Mapeados
<1>5. ASSUME NEW q \in Pedidos PROVE Mantido(q) /\ NaoDesvia(q)
  <2>1. Mantido(q)
    BY <1>1, <1>3 DEF Movido, Mantido, SoUsados
  <2>2. q \in ps => NaoDesvia(q)
    BY <1>3 DEF Movido, NaoDesvia
  <2> QED BY <2>1, <2>2
<1> QED BY <1>4, <1>5 DEF Bom

\* A tracker enters: every order whose choice changes is moved.
LEMMA EntradaBom ==
    ASSUME IInvS, NEW r \in Rastreadores, EntradaRastreador(r)
    PROVE  Bom
<1> DEFINE at == ativos \cup {r}
           ps == AfetadosPelaEntrada(at)
<1>1. /\ estado \in Estado /\ Coerente(estado) /\ at \in SUBSET Rastreadores /\ at # {}
  BY DEF IInvS, TipoSucessao, TypeOK
<1>2. /\ ativos' = at /\ estado' = Mover(estado, ps, at) /\ usados' = usados
  BY DEF EntradaRastreador, LacoCompleto, historia
<1>3. /\ ps \in SUBSET Pedidos /\ \A q \in ps : Existe(estado, q)
  BY <1>1 DEF AfetadosPelaEntrada, Coerente, Mapeados
<1>4. ASSUME NEW q \in Pedidos \ ps PROVE NaoDesvia(q)
  <2>1. estado.mapa[q] = Nenhum \/ estado.mapa[q] = EscolherServidor(q, at)
    BY DEF AfetadosPelaEntrada, Mapeados
  <2>2. estado'.mapa[q] = estado.mapa[q]
    <3>1. q \in Pedidos /\ q \notin ps
      OBVIOUS
    <3> HIDE DEF at, ps
    <3>2. Mover(estado, ps, at).mapa[q] = estado.mapa[q]
      BY <1>1, <3>1 DEF Mover, Estado
    <3> QED BY <1>2, <3>1, <3>2
  <2> QED BY <1>2, <2>1, <2>2 DEF NaoDesvia
<1> HIDE DEF at, ps
<1> QED BY <1>1, <1>2, <1>3, <1>4, MoverBom

\* A tracker leaves: its orders are moved, and the others keep their place in the ring.
LEMMA SaidaBom ==
    ASSUME IInvS, BackupRecebido
    PROVE  Bom
<1> DEFINE alvo == monitor.alvo
           at   == ativos \ {alvo}
<1>1. /\ TypeOK /\ estado \in Estado /\ Coerente(estado)
      /\ ativos \in SUBSET Rastreadores /\ at \in SUBSET ativos /\ at \in SUBSET Rastreadores
  BY DEF IInvS, TipoSucessao, TypeOK
<1>2. PICK backup \in Backups(alvo) :
          LacoCompleto(AfetadosPelaFalha(alvo, backup, at), at)
  BY DEF BackupRecebido
<1> DEFINE ps == AfetadosPelaFalha(alvo, backup, at)
<1>3. /\ ativos' = at /\ estado' = Mover(estado, ps, at) /\ usados' = usados
  BY <1>2 DEF BackupRecebido, LacoCompleto, historia
<1>4. /\ ps \in SUBSET Pedidos /\ (ps # {} => at # {}) /\ \A q \in ps : Existe(estado, q)
  BY DEF AfetadosPelaFalha
<1>5. ASSUME NEW q \in Pedidos \ ps PROVE NaoDesvia(q)
  <2>1. at # {} /\ estado.mapa[q] # Nenhum => estado.mapa[q] # alvo
    BY <1>1 DEF AfetadosPelaFalha, Coerente, Mapeados
  <2>2. estado'.mapa[q] = estado.mapa[q]
    <3>1. q \in Pedidos /\ q \notin ps
      OBVIOUS
    <3> HIDE DEF at, ps
    <3>2. Mover(estado, ps, at).mapa[q] = estado.mapa[q]
      BY <1>1, <3>1 DEF Mover, Estado
    <3> QED BY <1>3, <3>1, <3>2
  <2>3. ASSUME at # {}, estado.mapa[q] # Nenhum, estado.mapa[q] = EscolherServidor(q, ativos)
        PROVE  estado.mapa[q] = EscolherServidor(q, at)
    <3>1. EscolherServidor(q, ativos) \in at
      BY <1>1, <2>1, <2>3, EscolheAtivo
    <3> QED BY <1>1, <2>3, <3>1, SaidaPreserva
  <2> QED BY <1>1, <1>3, <2>2, <2>3 DEF NaoDesvia
<1> HIDE DEF at, ps, alvo
<1> QED BY <1>1, <1>3, <1>4, <1>5, MoverBom

\* Any step of the leader, or none
LEMMA LiderBom ==
    ASSUME IInvS, PassoLider \/ UNCHANGED vars
    PROVE  Bom
<1>1. ASSUME NEW p \in Pedidos, CriarPedido(p) PROVE Bom
  BY <1>1, CriarBom
<1>2. ASSUME NEW p \in Pedidos, ConfirmarEntrega(p) PROVE Bom
  BY <1>2, ConfirmarBom
<1>3. ASSUME NEW p \in Pedidos, NEW d \in Entregadores,
             AceitarPedido(p, d) \/ AceiteNaoPublicado(p, d)
      PROVE  Bom
  BY <1>3, AceitarBom
<1>4. ASSUME NEW r \in Rastreadores, EntradaRastreador(r) PROVE Bom
  BY <1>4, EntradaBom
<1>5. CASE BackupRecebido
  BY <1>5, SaidaBom
<1>6. CASE \/ \E r \in Rastreadores : KeepAlive(r) \/ Silencio(r) \/ Cair(r) \/ Voltar(r)
           \/ IniciarCiclo \/ ReplicacaoConfirmada \/ ReplicacaoSemMaioria
           \/ UNCHANGED vars
  <2>1. UNCHANGED <<estado, ativos, usados>>
    BY <1>6 DEF KeepAlive, Silencio, Cair, Voltar, IniciarCiclo, ReplicacaoConfirmada,
                ReplicacaoSemMaioria, vars, historia
  <2> QED BY <2>1 DEF IInvS, Bom, Mantido, NaoDesvia, SoUsados
<1> QED BY <1>1, <1>2, <1>3, <1>4, <1>5, <1>6
        DEF PassoLider, PassoMonitorInteiro, Ouvir

-----------------------------------------------------------------------------
(* The steps of the cluster *)

\* What the leader writes in its orders shows in the merge.
LEMMA CompartilharOk ==
    ASSUME IInvS, Bom, estado' \in Estado, lider' = lider, Compartilhar
    PROVE  posse' \in Posse' /\ posse'.fase = posse.fase /\ (posse.fase = "coletando" => MesclaOk')
<1>1. posse \in Posse /\ estado \in Estado
  BY DEF IInvS, TipoSucessao, TypeOK
<1>2. CASE posse.fase # "coletando"
  BY <1>1, <1>2 DEF Compartilhar, Posse
<1>3. CASE posse.fase = "coletando"
  <2> DEFINE ped == [p \in Pedidos |->
                        IF p \in posse.proprios /\ Existe(estado, p) /\ Existe(estado', p)
                        THEN estado'.pedidos[p] ELSE posse.estado.pedidos[p]]
  <2>1. /\ posse = [fase |-> "coletando", estado |-> posse.estado,
                    proprios |-> posse.proprios, pendentes |-> posse.pendentes]
        /\ posse.estado \in Estado /\ posse.proprios \in SUBSET Pedidos
        /\ posse.pendentes \in SUBSET (1..N)
    BY <1>1, <1>3 DEF Posse, Assumida, Anunciando
  <2>2. posse' = [posse EXCEPT !.estado = [posse.estado EXCEPT !.pedidos = ped]]
    BY <1>3, <2>1 DEF Compartilhar
  <2>3. ped \in [Pedidos -> Pedido \cup {Ausente}]
    BY <2>1 DEF Estado
  <2> HIDE DEF ped
  <2>4. /\ posse'.estado.pedidos = ped
        /\ posse'.estado.semEntregador = posse.estado.semEntregador
        /\ posse'.estado.mapa = posse.estado.mapa
        /\ posse'.proprios = posse.proprios /\ posse'.pendentes = posse.pendentes
        /\ posse'.fase = "coletando"
    BY <2>1, <2>2 DEF Estado
  <2>5. posse' \in Posse'
    <3>1. [posse.estado EXCEPT !.pedidos = ped] \in Estado
      BY <2>1, <2>3 DEF Estado
    <3> QED BY <2>1, <2>2, <3>1 DEF Posse
  <2>6. MesclaOk
    BY <1>3 DEF IInvS
  <2>7. ASSUME NEW q \in Pedidos
        PROVE  /\ Existe(posse'.estado, q) <=> Existe(posse.estado, q)
               /\ q \in posse.proprios /\ Existe(estado', q) /\ q \notin posse.estado.semEntregador
                      => ComEntregador(estado', q)
               /\ Existe(posse'.estado, q) /\ q \notin posse.estado.semEntregador
                      => ComEntregador(posse'.estado, q)
    <3>1. ped[q] = IF q \in posse.proprios /\ Existe(estado, q) /\ Existe(estado', q)
                   THEN estado'.pedidos[q] ELSE posse.estado.pedidos[q]
      BY DEF ped
    <3>2. Existe(posse'.estado, q) <=> Existe(posse.estado, q)
      BY <2>4, <2>6, <3>1 DEF Existe, MesclaOk, MesclaLigada
    <3>3. q \in posse.proprios => q \in usados
      BY <2>6 DEF MesclaOk, MesclaLigada, SoUsados
    <3>4. q \in posse.proprios /\ Existe(estado', q) /\ q \notin posse.estado.semEntregador
              => Existe(estado, q) /\ ComEntregador(estado', q)
      BY <2>6, <3>3 DEF Bom, Mantido, MesclaOk, MesclaLigada
    <3>5. Existe(posse'.estado, q) /\ q \notin posse.estado.semEntregador
              => ComEntregador(posse'.estado, q)
      BY <2>4, <2>6, <3>1, <3>2, <3>4 DEF ComEntregador, Existe, MesclaOk, Coerente
    <3> QED BY <3>2, <3>4, <3>5
  <2>8. Coerente(posse'.estado)
    BY <2>4, <2>6, <2>7 DEF MesclaOk, Coerente, Mapeados
  <2>9. SoUsados(posse.estado)'
    BY <2>6, <2>7 DEF MesclaOk, SoUsados, Bom
  <2>10. MesclaLigada'
    BY <2>1, <2>4, <2>6, <2>7 DEF MesclaOk, MesclaLigada
  <2> QED BY <1>3, <2>4, <2>5, <2>8, <2>9, <2>10 DEF MesclaOk
<1> QED BY <1>2, <1>3

\* A misplaced order stays among those of the last takeover.
LEMMA RealinharOk ==
    ASSUME IInvS, Bom, posse'.fase = posse.fase, posse \in Posse, posse' \in Posse', Realinhar
    PROVE  MapaRealinhado'
<1> SUFFICES ASSUME posse' = Assumida, ativos' # {}, NEW q \in Desviados(estado', ativos')
             PROVE  q \in desalinhados'
  BY DEF MapaRealinhado
<1>1. /\ q \in Pedidos /\ estado'.mapa[q] \notin {Nenhum, EscolherServidor(q, ativos')}
  BY DEF Desviados, Mapeados
<1>2. q \in Desviados(estado, ativos) /\ ativos # {}
  BY <1>1 DEF Bom, NaoDesvia, Desviados, Mapeados
<1>3. posse = Assumida
  BY DEF Posse, Assumida, Anunciando
<1> QED BY <1>2, <1>3 DEF Realinhar, IInvS, MapaRealinhado

\* A step of the leader, or one that changes nothing of it
LEMMA LiderarOk ==
    ASSUME IInvS, Liderar(PassoLider)
    PROVE  IInvS'
<1>1. Bom
  BY LiderBom DEF Liderar
<1>2. TypeOK'
  BY TipoPasso DEF IInvS, TipoSucessao, Liderar, PassoLider, PassoMonitorInteiro, Ouvir,
                   Next, PassoMonitor
<1>3. estado' \in Estado /\ lider' = lider /\ copia' = copia
  BY <1>2 DEF TypeOK, Liderar
<1>4. /\ posse' \in Posse' /\ posse'.fase = posse.fase
      /\ posse.fase = "coletando" => MesclaOk'
  BY <1>1, <1>3, CompartilharOk DEF Liderar
<1>5. desalinhados' \subseteq Pedidos
  BY DEF Liderar, Realinhar, IInvS, TipoSucessao
<1>6. TipoSucessao'
  BY <1>2, <1>3, <1>4, <1>5 DEF IInvS, TipoSucessao
<1>7. MapaRealinhado'
  BY <1>1, <1>4, RealinharOk DEF IInvS, TipoSucessao, Liderar
<1>8. SoUsados(estado)'
  BY <1>1 DEF Bom, Mantido, SoUsados
<1>9. \A b \in 1..(lider - 1) : SoUsados(copia[b])'
  BY <1>1, <1>3 DEF IInvS, SoUsados, Bom
<1> QED BY <1>1, <1>3, <1>4, <1>6, <1>7, <1>8, <1>9 DEF IInvS, Bom

\* A snapshot reaches a follower.
LEMMA ReplicarOk ==
    ASSUME IInvS, NEW b \in 1..(lider - 1), Replicar(b)
    PROVE  IInvS'
<1>1. /\ copia' = [copia EXCEPT ![b] = estado]
      /\ UNCHANGED <<estado, ativos, usados, lider, posse, desalinhados>>
      /\ TypeOK'
  BY DEF Replicar, vars, IInvS, TipoSucessao, TypeOK, Avisados
<1>2. TipoSucessao'
  BY <1>1 DEF IInvS, TipoSucessao, TypeOK, Posse
<1>3. \A c \in 1..(lider - 1) : copia'[c] = estado \/ copia'[c] = copia[c]
  BY <1>1 DEF IInvS, TipoSucessao
<1>4. \A c \in 1..(lider' - 1) : Coerente(copia'[c]) /\ SoUsados(copia[c])'
  BY <1>1, <1>3 DEF IInvS, SoUsados
<1>5. /\ MapaRealinhado' /\ SoUsados(estado)'
      /\ posse.fase = "coletando" => MesclaOk'
  BY <1>1 DEF IInvS, MapaRealinhado, SoUsados, MesclaOk, MesclaLigada
<1> QED BY <1>1, <1>2, <1>4, <1>5 DEF IInvS

\* The successor starts from its copy.
LEMMA SucederOk ==
    ASSUME IInvS, Suceder
    PROVE  IInvS'
<1>1. lider \in 1..N /\ lider - 1 \in 1..(lider - 1) /\ lider - 1 \in 1..N
  BY SucessaoAssumption DEF IInvS, TipoSucessao, Suceder
<1>2. /\ lider' = lider - 1 /\ estado' = copia[lider - 1]
      /\ copia' = [b \in 1..(lider - 2) |-> copia[b]]
      /\ posse' = Anunciando /\ desalinhados' = {} /\ usados' = usados
  BY DEF Suceder, historia
<1>3. /\ estado' \in Estado /\ Coerente(estado') /\ SoUsados(estado)'
  BY <1>1, <1>2 DEF IInvS, TipoSucessao, SoUsados
<1>4. TypeOK'
  BY <1>3, SucessaoAssumption DEF Suceder, IInvS, TipoSucessao, TypeOK, Monitor, historia,
                                  avisos, Avisados
<1>5. \A b \in 1..(lider' - 1) : b \in 1..(lider - 1) /\ copia'[b] = copia[b]
  BY <1>1, <1>2
<1>6. copia' \in [1..(lider' - 1) -> Estado]
  BY <1>1, <1>2, <1>5 DEF IInvS, TipoSucessao
<1>7. TipoSucessao'
  BY <1>1, <1>2, <1>4, <1>6 DEF TipoSucessao, Posse
<1>8. \A b \in 1..(lider' - 1) : Coerente(copia'[b]) /\ SoUsados(copia[b])'
  BY <1>2, <1>5 DEF IInvS, SoUsados
<1> QED BY <1>2, <1>3, <1>7, <1>8 DEF IInvS, MapaRealinhado, Anunciando, Assumida

\* The merge starts: every order is shared.
LEMMA IniciarColetaOk ==
    ASSUME IInvS, IniciarColeta
    PROVE  IInvS'
<1>1. /\ posse' = Coletando(estado)
      /\ UNCHANGED <<estado, ativos, usados, lider, copia, desalinhados>>
      /\ TypeOK'
  BY DEF IniciarColeta, vars, IInvS, TipoSucessao, TypeOK, Avisados
<1>2. /\ posse'.fase = "coletando" /\ posse'.estado = estado
      /\ posse'.proprios = {p \in Pedidos : Existe(estado, p)}
      /\ posse' # Assumida
  BY <1>1 DEF Coletando, Assumida
<1>3. posse' \in Posse'
  BY <1>1, SucessaoAssumption DEF Coletando, Posse, IInvS, TipoSucessao, TypeOK
<1>4. TipoSucessao'
  BY <1>1, <1>3 DEF IInvS, TipoSucessao
<1>5. MesclaOk'
  BY <1>1, <1>2 DEF IInvS, MesclaOk, MesclaLigada, SoUsados, Coerente
<1> QED BY <1>1, <1>2, <1>4, <1>5 DEF IInvS, MapaRealinhado, SoUsados

\* A peer answers, or does not.
LEMMA ColetaOk ==
    ASSUME IInvS, NEW b \in 1..(lider - 1), ColetaRecebida(b) \/ ColetaFalha(b)
    PROVE  IInvS'
<1>1. /\ posse.fase = "coletando" /\ posse \in Posse
      /\ UNCHANGED <<estado, ativos, usados, lider, copia, desalinhados>>
      /\ TypeOK'
  BY DEF ColetaRecebida, ColetaFalha, Consulta, vars, IInvS, TipoSucessao, TypeOK, Avisados
<1>2. /\ posse = [fase |-> "coletando", estado |-> posse.estado,
                  proprios |-> posse.proprios, pendentes |-> posse.pendentes]
      /\ posse.estado \in Estado /\ posse.proprios \in SUBSET Pedidos
      /\ posse.pendentes \in SUBSET (1..N)
  BY <1>1 DEF Posse, Assumida, Anunciando
<1>3. MesclaOk /\ copia[b] \in Estado /\ Coerente(copia[b]) /\ SoUsados(copia[b])
  BY <1>1 DEF IInvS, TipoSucessao
<1>4. PICK e \in {posse.estado, Mesclar(posse.estado, copia[b])} :
          posse' = [posse EXCEPT !.estado = e, !.pendentes = @ \ {b}]
  <2>1. CASE ColetaRecebida(b)
    BY <1>2, <2>1 DEF ColetaRecebida
  <2>2. CASE ColetaFalha(b)
    BY <1>2, <2>2 DEF ColetaFalha
  <2> QED BY <2>1, <2>2
<1>5. /\ e \in Estado /\ Coerente(e) /\ SoUsados(e)
      /\ \A q \in Pedidos : /\ Existe(posse.estado, q) => Existe(e, q)
                            /\ q \in posse.estado.semEntregador => q \in e.semEntregador
  <2>1. CASE e = posse.estado
    BY <1>2, <1>3, <2>1 DEF MesclaOk
  <2>2. CASE e = Mesclar(posse.estado, copia[b])
    <3>1. e \in Estado /\ Coerente(e)
      BY <1>2, <1>3, <2>2, MesclarTipo, MesclarCoerente DEF MesclaOk
    <3>2. SoUsados(e)
      BY <1>2, <1>3, <2>2, MesclarEfeito DEF MesclaOk, SoUsados
    <3>3. ASSUME NEW q \in Pedidos
          PROVE  /\ Existe(posse.estado, q) => Existe(e, q)
                 /\ q \in posse.estado.semEntregador => q \in e.semEntregador
      BY <1>2, <1>3, <2>2, MesclarEfeito DEF Mesclar
    <3> QED BY <3>1, <3>2, <3>3
  <2> QED BY <2>1, <2>2
<1>6. /\ posse'.fase = "coletando" /\ posse'.estado = e /\ posse'.proprios = posse.proprios
      /\ posse' \in Posse' /\ posse' # Assumida
  <2>1. posse' = [fase |-> "coletando", estado |-> e, proprios |-> posse.proprios,
                  pendentes |-> posse.pendentes \ {b}]
    <3>1. PICK f, pr, pe : posse = [fase |-> "coletando", estado |-> f, proprios |-> pr,
                                    pendentes |-> pe]
      BY <1>2
    <3>2. posse.proprios = pr /\ posse.pendentes = pe
      BY <3>1
    <3> QED BY <1>4, <3>1, <3>2
  <2>2. posse.pendentes \ {b} \in SUBSET (1..N)
    BY <1>2
  <2> QED BY <1>2, <1>5, <2>1, <2>2 DEF Posse, Assumida
<1>7. TipoSucessao'
  BY <1>1, <1>6 DEF IInvS, TipoSucessao
<1>8. MesclaOk'
  <2>1. SoUsados(posse.estado)'
    BY <1>1, <1>5, <1>6 DEF SoUsados
  <2>2. MesclaLigada'
    BY <1>1, <1>2, <1>3, <1>5, <1>6 DEF MesclaOk, MesclaLigada
  <2> QED BY <1>5, <1>6, <2>1, <2>2 DEF MesclaOk
<1> QED BY <1>1, <1>6, <1>7, <1>8 DEF IInvS, MapaRealinhado, SoUsados

\* The merge becomes the state of the leader: what it misplaces is noted.
LEMMA AssumirEstadoOk ==
    ASSUME IInvS, AssumirEstado
    PROVE  IInvS'
<1>1. /\ posse.fase = "coletando" /\ posse \in Posse
      /\ estado' = posse.estado /\ posse' = Assumida
      /\ desalinhados' = Desviados(estado', ativos) /\ ativos' = ativos
      /\ UNCHANGED <<usados, lider, copia>>
  BY DEF AssumirEstado, infra, historia, IInvS, TipoSucessao
<1>2. estado' \in Estado /\ MesclaOk
  BY <1>1 DEF Posse, Assumida, Anunciando, IInvS
<1>3. TypeOK'
  BY <1>2 DEF AssumirEstado, infra, historia, avisos, IInvS, TipoSucessao, TypeOK, Avisados
<1>4. TipoSucessao'
  BY <1>1, <1>3 DEF IInvS, TipoSucessao, Posse, Desviados, Mapeados
<1>5. MapaRealinhado'
  BY <1>1 DEF MapaRealinhado
<1> QED BY <1>1, <1>2, <1>4, <1>5 DEF IInvS, MesclaOk, SoUsados, Assumida

\* A stutter changes nothing.
LEMMA ParadoOk == IInvS /\ UNCHANGED varsSucessao => IInvS'
<1> SUFFICES ASSUME IInvS, UNCHANGED varsSucessao PROVE IInvS'
  OBVIOUS
<1>1. /\ UNCHANGED <<estado, ativos, usados, lider, copia, posse, desalinhados>>
      /\ TypeOK'
  BY DEF varsSucessao, vars, IInvS, TipoSucessao, TypeOK, Avisados
<1> QED BY <1>1 DEF IInvS, TipoSucessao, Posse, MapaRealinhado, SoUsados, MesclaOk, MesclaLigada

\* The invariant is inductive.
LEMMA PassoSucessaoOk == IInvS /\ [NextSucessao]_varsSucessao => IInvS'
BY LiderarOk, ReplicarOk, SucederOk, IniciarColetaOk, ColetaOk, AssumirEstadoOk, ParadoOk
   DEF NextSucessao, PassoPosse

-----------------------------------------------------------------------------
(* The theorems *)

\* Whoever leads, and wherever its takeover is, every variable keeps its type.
THEOREM TipoSucessaoCorreto == SpecSucessao => []TipoSucessao
<1>1. IInvS => TipoSucessao
  BY DEF IInvS
<1> QED BY <1>1, InicioSucessaoOk, PassoSucessaoOk, PTL DEF SpecSucessao

\* The state of every ADM and every merge is coherent, although a merge shares orders
\* with the leader and not its queue, and the leader goes on serving.
THEOREM SucessaoSempreCoerente == SpecSucessao => []CoerenciaSucessao
<1>1. IInvS => CoerenciaSucessao
  BY DEF IInvS, CoerenciaSucessao, MesclaOk
<1> QED BY <1>1, InicioSucessaoOk, PassoSucessaoOk, PTL DEF SpecSucessao

\* Once a takeover is over, only what it left misplaced is elsewhere than the ring of
\* the active trackers says, whatever trackers come and go.
THEOREM MapaSempreRealinhado == SpecSucessao => []MapaRealinhado
<1>1. IInvS => MapaRealinhado
  BY DEF IInvS
<1> QED BY <1>1, InicioSucessaoOk, PassoSucessaoOk, PTL DEF SpecSucessao
=============================================================================
