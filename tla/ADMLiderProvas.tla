--------------------------- MODULE ADMLiderProvas ---------------------------
(***************************************************************************)
(* For every set of trackers, orders and drivers, every ring, and any      *)
(* number of failed trackers and broker failures: the routing map of the   *)
(* leader follows the ring, the queue and the map agree with the orders,   *)
(* and remapping is minimal.                                               *)
(***************************************************************************)
EXTENDS ADMLider, EstadoProvas

-----------------------------------------------------------------------------
(* Types, and the loops that move orders *)

\* What a loop, finished or cut short by the broker, leaves: the orders of m are
\* moved, and the trackers of those of av told.
Laco(m, av, at) ==
    /\ estado' = Mover(estado, m, at)
    /\ Avisar(av, at)

\* A loop over ps runs to its end or is cut.
UmLaco(ps, at) == \/ LacoCompleto(ps, at)
                  \/ \E pr \in SUBSET Pedidos : LacoInterrompido(ps, pr, at)

\* Being told an order puts it among those ever routed.
LEMMA AvisarTipo ==
    ASSUME TypeOK, NEW av \in SUBSET Pedidos, NEW at,
           \A q \in av : EscolherServidor(q, at) \in Rastreadores,
           Avisar(av, at)
    PROVE  /\ aviso' \in [Pedidos -> Rastreadores \cup {Nenhum}]
           /\ conhecidos' \in [Rastreadores -> SUBSET Avisados']
<1>1. aviso' \in [Pedidos -> Rastreadores \cup {Nenhum}]
  BY DEF Avisar, TypeOK
<1>2. Avisados \cup av \subseteq Avisados'
  BY EstadoAssumption DEF Avisar, Avisados, TypeOK
<1>3. ASSUME NEW r \in Rastreadores
      PROVE  conhecidos[r] \cup {p \in av : EscolherServidor(p, at) = r} \subseteq Avisados'
  BY <1>2 DEF TypeOK
<1> QED BY <1>1, <1>3 DEF Avisar

\* A loop moves some of its orders and announces some of these, or all of both.
LEMMA LacoPartes ==
    ASSUME NEW ps \in SUBSET Pedidos, NEW at \in SUBSET Rastreadores,
           UmLaco(ps, at)
    PROVE  \E m \in SUBSET ps : \E av \in SUBSET m :
               /\ Laco(m, av, at)
               /\ \/ m = ps /\ av = ps /\ falhas' = falhas
                  \/ falhas' = falhas \cup {"laco"}
<1>1. CASE LacoCompleto(ps, at)
  BY <1>1 DEF LacoCompleto, Laco
<1>2. ASSUME NEW pr \in SUBSET Pedidos, LacoInterrompido(ps, pr, at)
      PROVE  \E m \in SUBSET ps : \E av \in SUBSET m :
                 /\ Laco(m, av, at)
                 /\ falhas' = falhas \cup {"laco"}
  <2>1. PICK p \in ps : \E movidos \in SUBSET (ps \ {p}), avisados \in SUBSET {p} :
            /\ estado' = Mover(estado, movidos \cup {p}, at)
            /\ Avisar(movidos \cup avisados, at)
            /\ falhas' = falhas \cup {"laco"}
    BY <1>2 DEF LacoInterrompido
  <2>2. PICK movidos \in SUBSET (ps \ {p}), avisados \in SUBSET {p} :
            /\ estado' = Mover(estado, movidos \cup {p}, at)
            /\ Avisar(movidos \cup avisados, at)
            /\ falhas' = falhas \cup {"laco"}
    BY <2>1
  <2>3. movidos \cup {p} \in SUBSET ps /\ movidos \cup avisados \in SUBSET (movidos \cup {p})
    BY <2>2
  <2> QED BY <2>2, <2>3 DEF Laco
<1> QED BY <1>1, <1>2 DEF UmLaco

\* It leaves a state, and announces only trackers.
LEMMA LacoTipo ==
    ASSUME TypeOK, NEW ps \in SUBSET Pedidos, NEW at \in SUBSET Rastreadores,
           ps # {} => at # {}, UmLaco(ps, at)
    PROVE  /\ estado' \in Estado
           /\ aviso' \in [Pedidos -> Rastreadores \cup {Nenhum}]
           /\ conhecidos' \in [Rastreadores -> SUBSET Avisados']
           /\ falhas' \subseteq {"aceite", "laco"}
<1>1. PICK m \in SUBSET ps : \E av \in SUBSET m :
          Laco(m, av, at) /\ (falhas' = falhas \/ falhas' = falhas \cup {"laco"})
  BY LacoPartes
<1>2. PICK av \in SUBSET m :
          Laco(m, av, at) /\ (falhas' = falhas \/ falhas' = falhas \cup {"laco"})
  BY <1>1
<1>3. m \in SUBSET Pedidos /\ (m # {} => at # {})
  OBVIOUS
<1>4. \A q \in m : EscolherServidor(q, at) \in Rastreadores
  BY <1>3, EscolheAtivo
<1>5. estado' \in Estado
  BY <1>2, <1>3, MoverTipo DEF Laco, TypeOK
<1>6. av \in SUBSET Pedidos /\ \A q \in av : EscolherServidor(q, at) \in Rastreadores
  BY <1>3, <1>4
<1>7. /\ aviso' \in [Pedidos -> Rastreadores \cup {Nenhum}]
      /\ conhecidos' \in [Rastreadores -> SUBSET Avisados']
  BY <1>2, <1>6, AvisarTipo DEF Laco
<1> QED BY <1>2, <1>5, <1>7 DEF TypeOK

\* A step that runs a loop over the orders ps, with at the active trackers from then
\* on.  The orders are in the map or, from the backup, known and once routed.
PassoDeLaco(ps, at) ==
    /\ ps # {} => at # {}
    /\ UmLaco(ps, at)
    /\ \A q \in ps : estado.mapa[q] # Nenhum \/ (Existe(estado, q) /\ q \in Avisados)
    /\ ativos' = at
    /\ \E r \in Rastreadores : at = ativos \cup {r} \/ at = ativos \ {r}
    /\ expirados' \subseteq Rastreadores /\ monitor' \in Monitor
    /\ UNCHANGED <<vivos, historia>>

\* The steps that move orders: a tracker enters, or is declared failed.
Redistribui ==
    \/ \E r \in Rastreadores : EntradaRastreador(r) \/ EntradaInterrompida(r)
    \/ BackupRecebido \/ RedistribuicaoInterrompida

\* The loop of a tracker declared failed, with what its SUP may have answered
LEMMA LacoDaFalha ==
    ASSUME TypeOK, BackupRecebido \/ RedistribuicaoInterrompida
    PROVE  LET alvo == monitor.alvo
               at   == ativos \ {alvo}
           IN  /\ monitor.fase = "backup" /\ ativos' = at /\ expirados' = expirados \ {alvo}
               /\ monitor' = Replicando(monitor.fila) \/ monitor' = Ocioso
               /\ UNCHANGED <<vivos, historia>>
               /\ \E backup \in SUBSET Avisados :
                      UmLaco(AfetadosPelaFalha(alvo, backup, at), at)
<1> DEFINE alvo == monitor.alvo
           at   == ativos \ {alvo}
<1>1. Backups(alvo) \subseteq SUBSET Avisados
  BY DEF TypeOK, Monitor, Ocioso, Backups, BackupRecebido, RedistribuicaoInterrompida
<1>2. CASE BackupRecebido
  <2>1. PICK backup \in Backups(alvo) : LacoCompleto(AfetadosPelaFalha(alvo, backup, at), at)
    BY <1>2 DEF BackupRecebido
  <2>2. UmLaco(AfetadosPelaFalha(alvo, backup, at), at)
    BY <2>1 DEF UmLaco
  <2> QED BY <1>1, <1>2, <2>2 DEF BackupRecebido
<1>3. CASE RedistribuicaoInterrompida
  <2> DEFINE pr == AfetadosPelaFalha(alvo, {}, at)
  <2>1. PICK backup \in Backups(alvo) :
            LacoInterrompido(AfetadosPelaFalha(alvo, backup, at), pr, at)
    BY <1>3 DEF RedistribuicaoInterrompida
  <2>2. pr \in SUBSET Pedidos
    BY DEF AfetadosPelaFalha
  <2>3. UmLaco(AfetadosPelaFalha(alvo, backup, at), at)
    BY <2>1, <2>2 DEF UmLaco
  <2> QED BY <1>1, <1>3, <2>3 DEF RedistribuicaoInterrompida
<1> QED BY <1>2, <1>3

\* The four actions that redistribute run such a loop.
LEMMA LacosDoLider ==
    ASSUME TypeOK, Redistribui
    PROVE  \E ps \in SUBSET Pedidos, at \in SUBSET Rastreadores : PassoDeLaco(ps, at)
<1>1. ASSUME NEW r \in Rastreadores, EntradaRastreador(r) \/ EntradaInterrompida(r)
      PROVE  \E ps \in SUBSET Pedidos, at \in SUBSET Rastreadores : PassoDeLaco(ps, at)
  <2> DEFINE at == ativos \cup {r}
             ps == AfetadosPelaEntrada(at)
  <2>1. /\ ativos' = at
        /\ UmLaco(ps, at)
        /\ expirados' = expirados \ {r}
        /\ UNCHANGED <<monitor, vivos, historia>>
    <3>1. CASE EntradaRastreador(r)
      BY <3>1 DEF EntradaRastreador, UmLaco
    <3>2. CASE EntradaInterrompida(r)
      BY <3>2 DEF EntradaInterrompida, UmLaco
    <3> QED BY <1>1, <3>1, <3>2
  <2>2. /\ at \in SUBSET Rastreadores /\ at # {} /\ ps \in SUBSET Pedidos
        /\ \A q \in ps : estado.mapa[q] # Nenhum
    BY DEF TypeOK, AfetadosPelaEntrada, Mapeados
  <2>3. expirados' \subseteq Rastreadores /\ monitor' \in Monitor
    BY <2>1 DEF TypeOK
  <2>4. at = ativos \cup {r}
    OBVIOUS
  <2> HIDE DEF at, ps
  <2>5. PassoDeLaco(ps, at)
    BY <2>1, <2>2, <2>3, <2>4 DEF PassoDeLaco
  <2> QED BY <2>2, <2>5
<1>2. CASE BackupRecebido \/ RedistribuicaoInterrompida
  <2> DEFINE alvo == monitor.alvo
             at   == ativos \ {alvo}
  <2>1. /\ monitor.fase = "backup" /\ ativos' = at /\ expirados' = expirados \ {alvo}
        /\ monitor' = Replicando(monitor.fila) \/ monitor' = Ocioso
        /\ UNCHANGED <<vivos, historia>>
        /\ \E backup \in SUBSET Avisados : UmLaco(AfetadosPelaFalha(alvo, backup, at), at)
    BY <1>2, LacoDaFalha
  <2>2. PICK backup \in SUBSET Avisados : UmLaco(AfetadosPelaFalha(alvo, backup, at), at)
    BY <2>1
  <2> DEFINE ps == AfetadosPelaFalha(alvo, backup, at)
  <2>3. alvo \in Rastreadores /\ monitor.fila \in SUBSET Rastreadores
    BY <2>1 DEF TypeOK, Monitor, Ocioso
  <2>4. /\ at \in SUBSET Rastreadores /\ (ps # {} => at # {}) /\ ps \in SUBSET Pedidos
        /\ at = ativos \ {alvo}
    BY DEF TypeOK, AfetadosPelaFalha
  <2>5. ASSUME NEW q \in ps
        PROVE  estado.mapa[q] # Nenhum \/ (Existe(estado, q) /\ q \in Avisados)
    BY <2>2, <2>3, EstadoAssumption DEF AfetadosPelaFalha
  <2>6. expirados' \subseteq Rastreadores /\ monitor' \in Monitor
    BY <2>1, <2>3 DEF TypeOK, Monitor, Replicando, Ocioso
  <2>7. UmLaco(ps, at)
    BY <2>2
  <2> HIDE DEF at, ps, alvo
  <2>8. PassoDeLaco(ps, at)
    BY <2>1, <2>3, <2>4, <2>5, <2>6, <2>7 DEF PassoDeLaco
  <2> QED BY <2>4, <2>8
<1> QED BY <1>1, <1>2 DEF Redistribui

\* A step preserves the type.
LEMMA TipoPasso == TypeOK /\ [Next]_vars => TypeOK'
<1> SUFFICES ASSUME TypeOK, [Next]_vars PROVE TypeOK'
  OBVIOUS
<1>1. CASE UNCHANGED vars
  BY <1>1 DEF vars, TypeOK, Avisados
<1>2. ASSUME NEW p \in Pedidos, CriarPedido(p) PROVE TypeOK'
  BY <1>2, CriarTipo DEF CriarPedido, TypeOK, infra, avisos, Avisados
<1>3. ASSUME NEW p \in Pedidos, PrepararPedido(p) PROVE TypeOK'
  BY <1>3, PrepararTipo DEF PrepararPedido, TypeOK, infra, historia, avisos, Avisados
<1>4. ASSUME NEW p \in Pedidos, ConfirmarEntrega(p) PROVE TypeOK'
  BY <1>4, ConfirmarTipo DEF ConfirmarEntrega, TypeOK, infra, historia, avisos, Avisados
<1>5. ASSUME NEW p \in Pedidos, NEW d \in Entregadores,
             AceitarPedido(p, d) \/ AceiteNaoPublicado(p, d)
      PROVE  TypeOK'
  <2>1. /\ Existe(estado, p) /\ ativos \in SUBSET Rastreadores /\ ativos # {}
        /\ estado' = Aceitar(estado, p, d, ativos)
        /\ UNCHANGED <<ativos, expirados, monitor, vivos, usados, reenviados>>
    BY <1>5 DEF TypeOK, AceitarPedido, AceiteNaoPublicado, PodeAceitar, infra, historia
  <2>2. estado' \in Estado /\ EscolherServidor(p, ativos) \in Rastreadores
    BY <2>1, AceitarTipo, EscolheAtivo DEF TypeOK
  <2>3. /\ aviso' \in [Pedidos -> Rastreadores \cup {Nenhum}]
        /\ conhecidos' \in [Rastreadores -> SUBSET Avisados']
        /\ falhas' \subseteq {"aceite", "laco"}
    <3>1. CASE AceitarPedido(p, d)
      <4>1. Avisar({p}, ativos) /\ falhas' = falhas
        BY <3>1 DEF AceitarPedido
      <4> QED BY <2>2, <4>1, AvisarTipo DEF TypeOK
    <3>2. CASE AceiteNaoPublicado(p, d)
      BY <3>2 DEF AceiteNaoPublicado, TypeOK, avisos, Avisados
    <3> QED BY <1>5, <3>1, <3>2
  <2> QED BY <2>1, <2>2, <2>3 DEF TypeOK
<1>6. CASE Redistribui
  <2>1. PICK ps \in SUBSET Pedidos, at \in SUBSET Rastreadores : PassoDeLaco(ps, at)
    BY <1>6, LacosDoLider
  <2>2. /\ estado' \in Estado
        /\ aviso' \in [Pedidos -> Rastreadores \cup {Nenhum}]
        /\ conhecidos' \in [Rastreadores -> SUBSET Avisados']
        /\ falhas' \subseteq {"aceite", "laco"}
    BY <2>1, LacoTipo DEF PassoDeLaco
  <2> QED BY <2>1, <2>2 DEF PassoDeLaco, TypeOK, historia
<1>7. ASSUME NEW r \in Rastreadores, KeepAlive(r) \/ Silencio(r) \/ Cair(r) \/ Voltar(r)
      PROVE  TypeOK'
  BY <1>7 DEF TypeOK, KeepAlive, Silencio, Cair, Voltar, historia, avisos, Avisados
<1>8. CASE IniciarCiclo \/ ReplicacaoConfirmada \/ ReplicacaoSemMaioria
  <2>1. ASSUME NEW resto \in SUBSET Rastreadores, ProximoAlvo(resto) PROVE monitor' \in Monitor
    BY <2>1 DEF ProximoAlvo, Buscando, Monitor
  <2>2. Ocioso \in Monitor
    BY DEF Monitor
  <2>3. monitor' \in Monitor
    <3>1. CASE IniciarCiclo
      BY <2>1, <3>1 DEF IniciarCiclo, TypeOK
    <3>2. CASE ReplicacaoConfirmada
      <4>1. monitor.fila \in SUBSET Rastreadores
        BY <3>2 DEF ReplicacaoConfirmada, TypeOK, Monitor, Ocioso
      <4> QED BY <2>1, <2>2, <3>2, <4>1 DEF ReplicacaoConfirmada
    <3>3. CASE ReplicacaoSemMaioria
      BY <2>2, <3>3 DEF ReplicacaoSemMaioria
    <3> QED BY <1>8, <3>1, <3>2, <3>3
  <2> QED BY <1>8, <2>3 DEF IniciarCiclo, ReplicacaoConfirmada, ReplicacaoSemMaioria,
                            TypeOK, historia, avisos, Avisados
<1> QED BY <1>1, <1>2, <1>3, <1>4, <1>5, <1>6, <1>7, <1>8 DEF Next, PassoMonitor, Redistribui

-----------------------------------------------------------------------------
(* The inductive invariant *)

\* The inductive invariant.  MapaSegueAnel alone is not inductive: that a failed
\* tracker's backup moves no order that is waiting in the queue needs FilaNuncaRoteada.
IInv == /\ TypeOK
        /\ MapaSegueAnel
        /\ FilaCoerente
        /\ RotaCoerente
        /\ RastreadorAvisado
        /\ FilaNuncaRoteada

\* The same, one order at a time.
Ficha(q) ==
    /\ q \in estado.semEntregador <=> Existe(estado, q) /\ ~ComEntregador(estado, q)
    /\ estado.mapa[q] # Nenhum => Existe(estado, q)
    /\ q \notin reenviados => /\ estado.mapa[q] # Nenhum <=> ComEntregador(estado, q)
                              /\ Existe(estado, q) =>
                                     estado.pedidos[q].rastreador = estado.mapa[q]
    /\ "laco" \notin falhas /\ ativos # {} /\ estado.mapa[q] # Nenhum =>
           estado.mapa[q] = EscolherServidor(q, ativos)
    /\ falhas = {} /\ estado.mapa[q] # Nenhum => aviso[q] = estado.mapa[q]
    /\ Existe(estado, q) \/ aviso[q] # Nenhum \/ q \in reenviados => q \in usados
    /\ q \notin reenviados /\ aviso[q] # Nenhum /\ Existe(estado, q) =>
           ComEntregador(estado, q)

\* The invariant is a record of each order.
LEMMA IInvPorPedido == IInv <=> TypeOK /\ \A q \in Pedidos : Ficha(q)
<1>1. ASSUME IInv PROVE TypeOK /\ \A q \in Pedidos : Ficha(q)
  BY <1>1 DEF IInv, TypeOK, MapaSegueAnel, FilaCoerente, RotaCoerente, RastreadorAvisado,
              FilaNuncaRoteada, Ficha, Mapeados, Avisados
<1>2. ASSUME TypeOK, \A q \in Pedidos : Ficha(q) PROVE IInv
  <2>1. MapaSegueAnel /\ FilaCoerente
    BY <1>2 DEF MapaSegueAnel, FilaCoerente, Ficha, Mapeados
  <2>2. RotaCoerente
    BY <1>2 DEF RotaCoerente, Ficha, Mapeados
  <2>3. RastreadorAvisado /\ FilaNuncaRoteada
    BY <1>2 DEF RastreadorAvisado, FilaNuncaRoteada, Ficha, Mapeados, Avisados, TypeOK
  <2> QED BY <1>2, <2>1, <2>2, <2>3 DEF IInv
<1> QED BY <1>1, <1>2

-----------------------------------------------------------------------------
(* Orders *)

\* It holds of the empty state.
LEMMA InicioOk == Init => IInv
<1> SUFFICES ASSUME Init PROVE TypeOK /\ \A q \in Pedidos : Ficha(q)
  BY IInvPorPedido
<1>1. TypeOK
  BY VazioOk DEF Init, TypeOK, Monitor
<1>2. ASSUME NEW q \in Pedidos PROVE Ficha(q)
  BY <1>2 DEF Init, Ficha, EstadoVazio, Existe, ComEntregador
<1> QED BY <1>1, <1>2

\* The order created waits in the queue without a route.
LEMMA CriarOk ==
    ASSUME IInv, NEW p \in Pedidos, CriarPedido(p)
    PROVE  IInv'
<1>1. TypeOK /\ \A q \in Pedidos : Ficha(q)
  BY IInvPorPedido
<1>2. estado \in Estado /\ estado' = Criar(estado, p)
  BY <1>1 DEF TypeOK, CriarPedido
<1>3. TypeOK'
  BY <1>1, TipoPasso DEF Next
<1>4. ASSUME NEW q \in Pedidos PROVE Ficha(q)'
  <2>1. Ficha(q)
    BY <1>1
  <2>2. /\ q \in estado'.semEntregador <=> q = p \/ q \in estado.semEntregador
        /\ estado'.mapa[q] = estado.mapa[q]
        /\ q = p => estado'.pedidos[q] = PedidoNovo
        /\ q # p => estado'.pedidos[q] = estado.pedidos[q]
        /\ Existe(estado', q) <=> q = p \/ Existe(estado, q)
        /\ ComEntregador(estado', q) <=> q # p /\ ComEntregador(estado, q)
    BY <1>2, CriarEfeito
  <2>3. /\ usados' = usados \cup {p}
        /\ reenviados' = IF p \in usados THEN reenviados \cup {p} ELSE reenviados
        /\ UNCHANGED <<ativos, aviso, falhas>>
    BY DEF CriarPedido, infra, avisos
  <2>4. CASE q = p /\ p \in usados
    BY <2>1, <2>2, <2>3, <2>4 DEF Ficha
  <2>5. CASE q = p /\ p \notin usados
    <3>1. /\ ~Existe(estado, q) /\ estado.mapa[q] = Nenhum /\ aviso[q] = Nenhum
          /\ q \notin reenviados
      BY <2>1, <2>5 DEF Ficha
    <3> QED BY <2>2, <2>3, <2>5, <3>1, PedidoNovoOk DEF Ficha
  <2>6. CASE q # p
    <3>1. q \in usados' <=> q \in usados
      BY <2>3, <2>6
    <3>2. q \in reenviados' <=> q \in reenviados
      BY <2>3, <2>6
    <3> QED BY <2>1, <2>2, <2>3, <2>6, <3>1, <3>2 DEF Ficha
  <2> QED BY <2>4, <2>5, <2>6
<1>9. (TypeOK /\ \A q \in Pedidos : Ficha(q))'
  BY <1>3, <1>4
<1> QED BY <1>9, IInvPorPedido, PTL

\* Marking an order ready moves neither the queue nor the map.
LEMMA PrepararOk ==
    ASSUME IInv, NEW p \in Pedidos, PrepararPedido(p)
    PROVE  IInv'
<1>1. TypeOK /\ \A q \in Pedidos : Ficha(q)
  BY IInvPorPedido
<1>2. estado \in Estado /\ Existe(estado, p) /\ estado' = Preparar(estado, p)
  BY <1>1 DEF TypeOK, PrepararPedido
<1>3. TypeOK'
  BY <1>1, TipoPasso DEF Next
<1>4. ASSUME NEW q \in Pedidos PROVE Ficha(q)'
  <2>1. Ficha(q)
    BY <1>1
  <2>2. /\ estado'.semEntregador = estado.semEntregador
        /\ estado'.mapa = estado.mapa
        /\ Existe(estado', q) <=> Existe(estado, q)
        /\ ComEntregador(estado', q) <=> ComEntregador(estado, q)
        /\ Existe(estado, q) => estado'.pedidos[q].rastreador = estado.pedidos[q].rastreador
    BY <1>2, PrepararEfeito
  <2>3. UNCHANGED <<ativos, aviso, falhas, usados, reenviados>>
    BY DEF PrepararPedido, infra, historia, avisos
  <2> QED BY <2>1, <2>2, <2>3 DEF Ficha
<1>9. (TypeOK /\ \A q \in Pedidos : Ficha(q))'
  BY <1>3, <1>4
<1> QED BY <1>9, IInvPorPedido, PTL

\* A delivered order leaves the queue, the orders and the map together.
LEMMA ConfirmarOk ==
    ASSUME IInv, NEW p \in Pedidos, ConfirmarEntrega(p)
    PROVE  IInv'
<1>1. TypeOK /\ \A q \in Pedidos : Ficha(q)
  BY IInvPorPedido
<1>2. estado \in Estado /\ estado' = Confirmar(estado, p)
  BY <1>1 DEF TypeOK, ConfirmarEntrega
<1>3. TypeOK'
  BY <1>1, TipoPasso DEF Next
<1>4. ASSUME NEW q \in Pedidos PROVE Ficha(q)'
  <2>1. Ficha(q)
    BY <1>1
  <2>2. /\ q \in estado'.semEntregador <=> q # p /\ q \in estado.semEntregador
        /\ estado'.mapa[q] = IF q = p THEN Nenhum ELSE estado.mapa[q]
        /\ q # p => estado'.pedidos[q] = estado.pedidos[q]
        /\ Existe(estado', q) <=> q # p /\ Existe(estado, q)
        /\ ComEntregador(estado', q) <=> q # p /\ ComEntregador(estado, q)
    BY <1>2, ConfirmarEfeito
  <2>3. UNCHANGED <<ativos, aviso, falhas, usados, reenviados>>
    BY DEF ConfirmarEntrega, infra, historia, avisos
  <2>4. CASE q = p
    BY <2>1, <2>2, <2>3, <2>4 DEF Ficha
  <2>5. CASE q # p
    BY <2>1, <2>2, <2>3, <2>5 DEF Ficha
  <2> QED BY <2>4, <2>5
<1>9. (TypeOK /\ \A q \in Pedidos : Ficha(q))'
  BY <1>3, <1>4
<1> QED BY <1>9, IInvPorPedido, PTL

\* An accept, whether or not its publication fails
LEMMA AceitarOk ==
    ASSUME IInv, NEW p \in Pedidos, NEW d \in Entregadores,
           AceitarPedido(p, d) \/ AceiteNaoPublicado(p, d)
    PROVE  IInv'
<1>1. TypeOK /\ \A q \in Pedidos : Ficha(q)
  BY IInvPorPedido
<1> DEFINE r == EscolherServidor(p, ativos)
<1>2. /\ estado \in Estado /\ Existe(estado, p) /\ p \in estado.semEntregador
      /\ ativos \in SUBSET Rastreadores /\ ativos # {}
      /\ estado' = Aceitar(estado, p, d, ativos)
      /\ UNCHANGED <<ativos, expirados, monitor, vivos, usados, reenviados>>
  BY <1>1 DEF TypeOK, AceitarPedido, AceiteNaoPublicado, PodeAceitar, infra, historia
<1>3. r \in Rastreadores /\ r # Nenhum
  BY <1>2, EscolheAtivo, EstadoAssumption
<1>4. \/ /\ aviso' = [aviso EXCEPT ![p] = r] /\ falhas' = falhas
      \/ /\ aviso' = aviso /\ falhas' = falhas \cup {"aceite"}
  <2>1. CASE AceitarPedido(p, d)
    <3>1. aviso' = [q \in Pedidos |-> IF q \in {p} THEN EscolherServidor(q, ativos)
                                                  ELSE aviso[q]]
      BY <2>1 DEF AceitarPedido, Avisar
    <3>2. aviso' = [aviso EXCEPT ![p] = r]
      BY <1>1, <3>1 DEF TypeOK
    <3> QED BY <2>1, <3>2 DEF AceitarPedido
  <2>2. CASE AceiteNaoPublicado(p, d)
    BY <2>2 DEF AceiteNaoPublicado, avisos
  <2> QED BY <2>1, <2>2
<1>5. TypeOK'
  BY <1>1, TipoPasso DEF Next
<1>6. ASSUME NEW q \in Pedidos PROVE Ficha(q)'
  <2>1. Ficha(q)
    BY <1>1
  <2>2. /\ q \in estado'.semEntregador <=> q # p /\ q \in estado.semEntregador
        /\ estado'.mapa[q] = IF q = p THEN r ELSE estado.mapa[q]
        /\ q = p => estado'.pedidos[q].rastreador = r
        /\ q # p => estado'.pedidos[q] = estado.pedidos[q]
        /\ Existe(estado', q) <=> Existe(estado, q)
        /\ ComEntregador(estado', q) <=> q = p \/ ComEntregador(estado, q)
    BY <1>2, AceitarEfeito
  <2>3. /\ falhas' = {} => falhas = {} /\ aviso'[q] = IF q = p THEN r ELSE aviso[q]
        /\ "laco" \in falhas' <=> "laco" \in falhas
        /\ aviso'[q] # Nenhum => q = p \/ aviso[q] # Nenhum
    BY <1>1, <1>4 DEF TypeOK
  <2>4. CASE q = p
    BY <1>2, <1>3, <2>1, <2>2, <2>3, <2>4 DEF Ficha
  <2>5. CASE q # p
    BY <1>2, <2>1, <2>2, <2>3, <2>5 DEF Ficha
  <2> QED BY <2>4, <2>5
<1>9. (TypeOK /\ \A q \in Pedidos : Ficha(q))'
  BY <1>5, <1>6
<1> QED BY <1>9, IInvPorPedido, PTL

-----------------------------------------------------------------------------
(* Moving orders *)

\* The orders a loop moves are known and, but for reused ids, have a driver.
Moviveis(ps) ==
    \A q \in ps : Existe(estado, q) /\ (q \in reenviados \/ ComEntregador(estado, q))

\* The orders a loop leaves alone are where the ring of at says.
RestoSegue(ps, at) ==
    \A q \in Pedidos \ ps :
        "laco" \notin falhas /\ at # {} /\ estado.mapa[q] # Nenhum =>
            estado.mapa[q] = EscolherServidor(q, at)

\* Such a loop, finished or cut short by the broker, keeps the invariant.
LEMMA LacoOk ==
    ASSUME IInv, NEW ps \in SUBSET Pedidos, NEW at \in SUBSET Rastreadores,
           ativos' = at, ps # {} => at # {},
           Moviveis(ps), RestoSegue(ps, at),
           UmLaco(ps, at),
           UNCHANGED historia, TypeOK'
    PROVE  IInv'
<1>1. TypeOK /\ \A q \in Pedidos : Ficha(q)
  BY IInvPorPedido
<1>2. PICK m \in SUBSET ps : \E av \in SUBSET m :
          /\ Laco(m, av, at)
          /\ \/ m = ps /\ av = ps /\ falhas' = falhas
             \/ falhas' = falhas \cup {"laco"}
  BY LacoPartes
<1>3. PICK av \in SUBSET m :
          /\ estado' = Mover(estado, m, at)
          /\ aviso' = [q \in Pedidos |-> IF q \in av THEN EscolherServidor(q, at) ELSE aviso[q]]
          /\ \/ m = ps /\ av = ps /\ falhas' = falhas
             \/ falhas' = falhas \cup {"laco"}
  BY <1>2 DEF Laco, Avisar
<1>4. estado \in Estado /\ m \in SUBSET Pedidos /\ (m # {} => at # {})
  BY <1>1, <1>3 DEF TypeOK
<1>5. \A q \in m : EscolherServidor(q, at) \in Rastreadores /\ EscolherServidor(q, at) # Nenhum
  BY <1>4, EscolheAtivo, EstadoAssumption
<1>7. ASSUME NEW q \in Pedidos PROVE Ficha(q)'
  <2> DEFINE r == EscolherServidor(q, at)
  <2>1. Ficha(q)
    BY <1>1
  <2>2. /\ estado'.semEntregador = estado.semEntregador
        /\ estado'.mapa[q] = IF q \in m THEN r ELSE estado.mapa[q]
        /\ Existe(estado', q) <=> Existe(estado, q)
        /\ ComEntregador(estado', q) <=> ComEntregador(estado, q)
        /\ Existe(estado, q) => estado'.pedidos[q].rastreador =
                                    IF q \in m THEN r ELSE estado.pedidos[q].rastreador
    <3>1. Movido(estado, Mover(estado, m, at), q, m, at)
      BY <1>4, MoverTodos
    <3>2. Movido(estado, estado', q, m, at)
      BY <1>3, <3>1
    <3> QED BY <3>2 DEF Movido
  <2>3. /\ aviso'[q] = IF q \in av THEN r ELSE aviso[q]
        /\ UNCHANGED <<usados, reenviados>>
    BY <1>3 DEF historia
  <2>4. "laco" \notin falhas' => m = ps /\ av = ps /\ falhas' = falhas
    BY <1>3
  <2>5. q \in m => /\ r # Nenhum /\ q \in ps
                   /\ Existe(estado, q) /\ (q \in reenviados \/ ComEntregador(estado, q))
    BY <1>3, <1>5 DEF Moviveis
  <2>6. q \in av => q \in m
    OBVIOUS
  <2>7. q \in ps \/ ("laco" \notin falhas /\ at # {} /\ estado.mapa[q] # Nenhum =>
                         estado.mapa[q] = r)
    BY DEF RestoSegue
  <2> HIDE DEF r
  <2>8. /\ q \in estado'.semEntregador <=> Existe(estado', q) /\ ~ComEntregador(estado', q)
        /\ estado'.mapa[q] # Nenhum => Existe(estado', q)
    BY <2>1, <2>2, <2>5 DEF Ficha
  <2>9. q \notin reenviados' =>
            /\ estado'.mapa[q] # Nenhum <=> ComEntregador(estado', q)
            /\ Existe(estado', q) => estado'.pedidos[q].rastreador = estado'.mapa[q]
    BY <2>1, <2>2, <2>3, <2>5 DEF Ficha
  <2>10. "laco" \notin falhas' /\ ativos' # {} /\ estado'.mapa[q] # Nenhum =>
             estado'.mapa[q] = EscolherServidor(q, ativos')
    BY <2>2, <2>4, <2>7 DEF r
  <2>11. falhas' = {} /\ estado'.mapa[q] # Nenhum => aviso'[q] = estado'.mapa[q]
    BY <2>1, <2>2, <2>3, <2>4 DEF Ficha
  <2>12. /\ Existe(estado', q) \/ aviso'[q] # Nenhum \/ q \in reenviados' => q \in usados'
         /\ q \notin reenviados' /\ aviso'[q] # Nenhum /\ Existe(estado', q) =>
                ComEntregador(estado', q)
    BY <2>1, <2>2, <2>3, <2>5, <2>6 DEF Ficha
  <2> QED BY <2>8, <2>9, <2>10, <2>11, <2>12 DEF Ficha
<1>9. (TypeOK /\ \A q \in Pedidos : Ficha(q))'
  BY <1>7
<1> QED BY <1>9, IInvPorPedido, PTL

\* A tracker enters the ring.
LEMMA EntradaOk ==
    ASSUME IInv, NEW r \in Rastreadores, EntradaRastreador(r) \/ EntradaInterrompida(r)
    PROVE  IInv'
<1> DEFINE at == ativos \cup {r}
           ps == AfetadosPelaEntrada(at)
<1>1. TypeOK /\ \A q \in Pedidos : Ficha(q)
  BY IInvPorPedido
<1>2. /\ at \in SUBSET Rastreadores /\ at # {}
      /\ ps \in SUBSET Pedidos
  BY <1>1 DEF TypeOK, AfetadosPelaEntrada, Mapeados
<1>3. /\ ativos' = at
      /\ UmLaco(ps, at)
      /\ expirados' = expirados \ {r}
      /\ UNCHANGED <<monitor, vivos, historia>>
  <2>1. CASE EntradaRastreador(r)
    BY <2>1 DEF EntradaRastreador, UmLaco
  <2>2. CASE EntradaInterrompida(r)
    BY <2>2 DEF EntradaInterrompida, UmLaco
  <2> QED BY <2>1, <2>2
<1>4. Moviveis(ps)
  BY <1>1 DEF Moviveis, AfetadosPelaEntrada, Mapeados, Ficha
<1>5. RestoSegue(ps, at)
  BY DEF RestoSegue, AfetadosPelaEntrada, Mapeados
<1>6. TypeOK'
  BY <1>1, TipoPasso DEF Next
<1> HIDE DEF at, ps
<1> QED BY <1>2, <1>3, <1>4, <1>5, <1>6, LacoOk

\* The monitor declares a tracker failed.  Only here is FilaNuncaRoteada needed: the
\* backup has no order that is waiting for a driver.
LEMMA FalhaOk ==
    ASSUME IInv, BackupRecebido \/ RedistribuicaoInterrompida
    PROVE  IInv'
<1> DEFINE alvo == monitor.alvo
           at   == ativos \ {alvo}
<1>1. TypeOK /\ \A q \in Pedidos : Ficha(q)
  BY IInvPorPedido
<1>2. /\ monitor.fase = "backup" /\ ativos' = at /\ expirados' = expirados \ {alvo}
      /\ monitor' = Replicando(monitor.fila) \/ monitor' = Ocioso
      /\ UNCHANGED <<vivos, historia>>
      /\ \E backup \in SUBSET Avisados : UmLaco(AfetadosPelaFalha(alvo, backup, at), at)
  BY <1>1, LacoDaFalha
<1>3. PICK backup \in SUBSET Avisados : UmLaco(AfetadosPelaFalha(alvo, backup, at), at)
  BY <1>2
<1> DEFINE ps == AfetadosPelaFalha(alvo, backup, at)
<1>4. alvo \in Rastreadores /\ monitor.fila \in SUBSET Rastreadores
  BY <1>1, <1>2 DEF TypeOK, Monitor, Ocioso
<1>5. /\ at \in SUBSET Rastreadores /\ (ps # {} => at # {})
      /\ ps \in SUBSET Pedidos
  BY <1>1 DEF TypeOK, AfetadosPelaFalha
<1>6. Moviveis(ps)
  <2> SUFFICES ASSUME NEW q \in ps
               PROVE  Existe(estado, q) /\ (q \in reenviados \/ ComEntregador(estado, q))
    BY DEF Moviveis
  <2>1. /\ q \in Pedidos /\ Existe(estado, q)
        /\ estado.mapa[q] = alvo \/ q \in Avisados
    BY <1>3 DEF AfetadosPelaFalha
  <2>2. CASE estado.mapa[q] = alvo
    BY <1>1, <1>4, <2>1, <2>2, EstadoAssumption DEF Ficha
  <2>3. CASE q \in Avisados
    BY <1>1, <2>1, <2>3 DEF Ficha, Avisados
  <2> QED BY <2>1, <2>2, <2>3
<1>7. RestoSegue(ps, at)
  <2> SUFFICES ASSUME NEW q \in Pedidos \ ps, "laco" \notin falhas, at # {},
                      estado.mapa[q] # Nenhum
               PROVE  estado.mapa[q] = EscolherServidor(q, at)
    BY DEF RestoSegue
  <2>1. Ficha(q) /\ ativos # {}
    BY <1>1
  <2>2. estado.mapa[q] = EscolherServidor(q, ativos) /\ Existe(estado, q)
    BY <2>1 DEF Ficha
  <2>3. estado.mapa[q] # alvo
    BY <2>2 DEF AfetadosPelaFalha
  <2>4. ativos \in SUBSET Rastreadores
    BY <1>1 DEF TypeOK
  <2>5. EscolherServidor(q, ativos) \in at
    BY <2>1, <2>2, <2>3, <2>4, EscolheAtivo
  <2> QED BY <2>2, <2>4, <2>5, SaidaPreserva
<1>8. TypeOK'
  BY <1>1, TipoPasso DEF Next, PassoMonitor
<1>9. UmLaco(ps, at)
  BY <1>3
<1> HIDE DEF at, ps, alvo
<1> QED BY <1>2, <1>5, <1>6, <1>7, <1>8, <1>9, LacoOk

\* The steps that touch neither the orders nor the ring
LEMMA OutrosOk ==
    ASSUME IInv, UNCHANGED <<estado, ativos, aviso, historia, falhas>>, TypeOK'
    PROVE  IInv'
<1>1. TypeOK /\ \A q \in Pedidos : Ficha(q)
  BY IInvPorPedido
<1>2. ASSUME NEW q \in Pedidos PROVE Ficha(q)'
  <2>1. Ficha(q)
    BY <1>1
  <2> QED BY <2>1 DEF Ficha, historia
<1>3. (TypeOK /\ \A q \in Pedidos : Ficha(q))'
  BY <1>2
<1> QED BY <1>3, IInvPorPedido, PTL

\* Keep-alives, broker failures and the monitor change no order outside the loops.
LEMMA SinaisOk ==
    ASSUME IInv,
           \/ \E r \in Rastreadores : KeepAlive(r) \/ Silencio(r) \/ Cair(r) \/ Voltar(r)
           \/ IniciarCiclo \/ ReplicacaoConfirmada \/ ReplicacaoSemMaioria
           \/ UNCHANGED vars
    PROVE  IInv'
<1>1. TypeOK'
  BY TipoPasso DEF IInv, Next, PassoMonitor
<1>2. UNCHANGED <<estado, ativos, aviso, historia, falhas>>
  BY DEF KeepAlive, Silencio, Cair, Voltar, IniciarCiclo, ReplicacaoConfirmada,
         ReplicacaoSemMaioria, vars, historia, avisos
<1> QED BY <1>1, <1>2, OutrosOk

-----------------------------------------------------------------------------
(* The invariant and what follows from it *)

\* The invariant is inductive.
LEMMA PassoIndutivo == IInv /\ [Next]_vars => IInv'
<1> SUFFICES ASSUME IInv, [Next]_vars PROVE IInv'
  OBVIOUS
<1>1. ASSUME NEW p \in Pedidos, CriarPedido(p) PROVE IInv'
  BY <1>1, CriarOk
<1>2. ASSUME NEW p \in Pedidos, PrepararPedido(p) PROVE IInv'
  BY <1>2, PrepararOk
<1>3. ASSUME NEW p \in Pedidos, ConfirmarEntrega(p) PROVE IInv'
  BY <1>3, ConfirmarOk
<1>4. ASSUME NEW p \in Pedidos, NEW d \in Entregadores,
             AceitarPedido(p, d) \/ AceiteNaoPublicado(p, d)
      PROVE  IInv'
  BY <1>4, AceitarOk
<1>5. ASSUME NEW r \in Rastreadores, EntradaRastreador(r) \/ EntradaInterrompida(r)
      PROVE  IInv'
  BY <1>5, EntradaOk
<1>6. CASE BackupRecebido \/ RedistribuicaoInterrompida
  BY <1>6, FalhaOk
<1>7. CASE \/ \E r \in Rastreadores : KeepAlive(r) \/ Silencio(r) \/ Cair(r) \/ Voltar(r)
           \/ IniciarCiclo \/ ReplicacaoConfirmada \/ ReplicacaoSemMaioria
           \/ UNCHANGED vars
  BY <1>7, SinaisOk
<1> QED BY <1>1, <1>2, <1>3, <1>4, <1>5, <1>6, <1>7 DEF Next, PassoMonitor

\* The state of the leader always has its type (adm_server.py, every handler).
THEOREM TipoCorreto == Spec => []TypeOK
<1>1. IInv => TypeOK
  BY DEF IInv
<1> QED BY <1>1, InicioOk, PassoIndutivo, PTL DEF Spec

\* Every routed order is at the tracker the ring of the active trackers chooses,
\* unless a broker failure has cut a redistribution loop.
THEOREM MapaSempreSegueAnel == Spec => []MapaSegueAnel
<1>1. IInv => MapaSegueAnel
  BY DEF IInv
<1> QED BY <1>1, InicioOk, PassoIndutivo, PTL DEF Spec

\* An order waits in pedidos_sem_entregador exactly when it has no driver.
THEOREM FilaSempreCoerente == Spec => []FilaCoerente
<1>1. IInv => FilaCoerente
  BY DEF IInv
<1> QED BY <1>1, InicioOk, PassoIndutivo, PTL DEF Spec

\* The map has exactly the orders with a driver, with the tracker each one shows.
THEOREM RotaSempreCoerente == Spec => []RotaCoerente
<1>1. IInv => RotaCoerente
  BY DEF IInv
<1> QED BY <1>1, InicioOk, PassoIndutivo, PTL DEF Spec

\* Without a broker failure, the tracker in the map is the last one told.
THEOREM RastreadorSempreAvisado == Spec => []RastreadorAvisado
<1>1. IInv => RastreadorAvisado
  BY DEF IInv
<1> QED BY <1>1, InicioOk, PassoIndutivo, PTL DEF Spec

\* No SUP backup has an order that is waiting for a driver.
THEOREM FilaSempreForaDosBackups == Spec => []FilaNuncaRoteada
<1>1. IInv => FilaNuncaRoteada
  BY DEF IInv
<1> QED BY <1>1, InicioOk, PassoIndutivo, PTL DEF Spec

-----------------------------------------------------------------------------
(* Minimal remapping *)

\* One step moves an order only off a tracker that leaves or onto one that enters.
PassoMinimo ==
    \A p \in Mapeados(estado) :
        "laco" \notin falhas /\ estado'.mapa[p] \notin {Nenhum, estado.mapa[p]} =>
            estado.mapa[p] \notin ativos' \/ estado'.mapa[p] \notin ativos

\* An order whose map entry a step changes to another tracker is moved either by an
\* accept, by the entry of a tracker or by the failure of one.
LEMMA QuemMove ==
    ASSUME IInv, [Next]_vars, NEW q \in Mapeados(estado),
           estado'.mapa[q] \notin {Nenhum, estado.mapa[q]}
    PROVE  /\ estado'.mapa[q] = EscolherServidor(q, ativos')
           /\ \/ ativos' = ativos
              \/ \E r \in Rastreadores : ativos' = ativos \cup {r}
              \/ \E r \in Rastreadores : ativos' = ativos \ {r}
<1>1. TypeOK /\ estado \in Estado /\ q \in Pedidos
  BY DEF IInv, TypeOK, Mapeados
<1>3. ASSUME estado'.mapa[q] = estado.mapa[q] PROVE FALSE
  BY <1>3
<1>4. CASE UNCHANGED estado
  BY <1>3, <1>4
<1>5. ASSUME NEW p \in Pedidos, CriarPedido(p) PROVE FALSE
  BY <1>1, <1>3, <1>5, CriarEfeito DEF CriarPedido
<1>6. ASSUME NEW p \in Pedidos, PrepararPedido(p) PROVE FALSE
  BY <1>1, <1>3, <1>6, PrepararEfeito DEF PrepararPedido
<1>7. ASSUME NEW p \in Pedidos, ConfirmarEntrega(p) PROVE FALSE
  <2>1. estado'.mapa[q] = IF q = p THEN Nenhum ELSE estado.mapa[q]
    BY <1>1, <1>7, ConfirmarEfeito DEF ConfirmarEntrega
  <2> QED BY <1>3, <2>1
<1>8. ASSUME NEW p \in Pedidos, NEW d \in Entregadores,
             AceitarPedido(p, d) \/ AceiteNaoPublicado(p, d)
      PROVE  estado'.mapa[q] = EscolherServidor(q, ativos') /\ ativos' = ativos
  <2>1. /\ Existe(estado, p) /\ ativos # {} /\ ativos' = ativos
        /\ estado' = Aceitar(estado, p, d, ativos) /\ ativos \in SUBSET Rastreadores
    BY <1>1, <1>8 DEF AceitarPedido, AceiteNaoPublicado, PodeAceitar, infra, TypeOK
  <2>2. estado'.mapa[q] = IF q = p THEN EscolherServidor(p, ativos) ELSE estado.mapa[q]
    BY <1>1, <2>1, AceitarEfeito
  <2> QED BY <1>3, <2>1, <2>2
<1>9. CASE Redistribui
  <2>1. PICK ps \in SUBSET Pedidos, at \in SUBSET Rastreadores : PassoDeLaco(ps, at)
    BY <1>1, <1>9, LacosDoLider
  <2>2. PICK m \in SUBSET ps : estado' = Mover(estado, m, at)
    BY <2>1, LacoPartes DEF PassoDeLaco, Laco
  <2>3. m \in SUBSET Pedidos /\ (m # {} => at # {})
    BY <2>1 DEF PassoDeLaco
  <2>4. Movido(estado, estado', q, m, at)
    BY <1>1, <2>2, <2>3, MoverTodos
  <2>5. estado'.mapa[q] = EscolherServidor(q, at)
    BY <1>3, <2>4 DEF Movido
  <2> QED BY <2>1, <2>5 DEF PassoDeLaco
<1>10. ASSUME NEW r \in Rastreadores, KeepAlive(r) \/ Silencio(r) \/ Cair(r) \/ Voltar(r)
       PROVE  UNCHANGED estado
  BY <1>10 DEF KeepAlive, Silencio, Cair, Voltar
<1>11. CASE IniciarCiclo \/ ReplicacaoConfirmada \/ ReplicacaoSemMaioria
  BY <1>4, <1>11 DEF IniciarCiclo, ReplicacaoConfirmada, ReplicacaoSemMaioria
<1> QED BY <1>4, <1>5, <1>6, <1>7, <1>8, <1>9, <1>10, <1>11
        DEF Next, PassoMonitor, Redistribui, vars

\* An order changes tracker only if its old one has just left the ring or the new
\* one has just entered it, while the broker has not cut a loop.
THEOREM RemapeamentoSempreMinimo == Spec => RemapeamentoMinimo
<1>1. IInv /\ [Next]_vars => [PassoMinimo]_vars
  <2> SUFFICES ASSUME IInv, [Next]_vars, NEW q \in Mapeados(estado), "laco" \notin falhas,
                      estado'.mapa[q] \notin {Nenhum, estado.mapa[q]},
                      estado.mapa[q] \in ativos', estado'.mapa[q] \in ativos
               PROVE  FALSE
    BY DEF PassoMinimo
  <2>1. /\ estado'.mapa[q] = EscolherServidor(q, ativos')
        /\ \/ ativos' = ativos
           \/ \E r \in Rastreadores : ativos' = ativos \cup {r}
           \/ \E r \in Rastreadores : ativos' = ativos \ {r}
    BY QuemMove
  <2>2. ativos \in SUBSET Rastreadores /\ ativos # {}
    BY DEF IInv, TypeOK
  <2>3. estado.mapa[q] = EscolherServidor(q, ativos)
    BY <2>2 DEF IInv, MapaSegueAnel
  <2>4. CASE ativos' = ativos
    BY <2>1, <2>3, <2>4
  <2>5. ASSUME NEW r \in Rastreadores, ativos' = ativos \cup {r} PROVE FALSE
    <3>1. CASE r \in ativos
      BY <2>1, <2>3, <2>5, <3>1
    <3>2. CASE r \notin ativos
      BY <2>1, <2>2, <2>3, <2>5, <3>2, EntradaMinima
    <3> QED BY <3>1, <3>2
  <2>6. ASSUME NEW r \in Rastreadores, ativos' = ativos \ {r} PROVE FALSE
    <3>1. ativos' \in SUBSET ativos
      BY <2>6
    <3> QED BY <2>1, <2>2, <2>3, <3>1, SaidaPreserva
  <2> QED BY <2>1, <2>4, <2>5, <2>6
<1> QED BY <1>1, InicioOk, PassoIndutivo, PTL DEF Spec, RemapeamentoMinimo, PassoMinimo

-----------------------------------------------------------------------------
(* The leader implements the life of an order *)

\* What the life of an order q sees of it is the same before and after.
Igual(q) ==
    /\ q \in usados' <=> q \in usados
    /\ q \in reenviados' <=> q \in reenviados
    /\ Existe(estado', q) <=> Existe(estado, q)
    /\ ComEntregador(estado', q) <=> ComEntregador(estado, q)
    /\ Existe(estado, q) => estado'.pedidos[q].entregador = estado.pedidos[q].entregador

\* An order whose record is unchanged stays where it was in its life.
LEMMA IgualFica ==
    ASSUME NEW q \in Pedidos, Igual(q)
    PROVE  Fase'[q] = Fase[q] /\ Dono'[q] = Dono[q]
BY DEF Igual, Fase, Dono

\* If at most p changes, the two functions change at p alone.
LEMMA SoMuda ==
    ASSUME NEW p \in Pedidos, \A q \in Pedidos \ {p} : Igual(q)
    PROVE  /\ Fase' = [Fase EXCEPT ![p] = Fase'[p]]
           /\ Dono' = [Dono EXCEPT ![p] = Dono'[p]]
<1>1. \A q \in Pedidos \ {p} : Fase'[q] = Fase[q] /\ Dono'[q] = Dono[q]
  BY IgualFica
<1>2. /\ Fase = [q \in Pedidos |-> Fase[q]] /\ Fase' = [q \in Pedidos |-> Fase'[q]]
      /\ Dono = [q \in Pedidos |-> Dono[q]] /\ Dono' = [q \in Pedidos |-> Dono'[q]]
  BY DEF Fase, Dono
<1> QED BY <1>1, <1>2

\* When no record changes, both functions are unchanged.
LEMMA TodosIguais ==
    ASSUME \A q \in Pedidos : Igual(q)
    PROVE  UNCHANGED <<Fase, Dono>>
<1>1. \A q \in Pedidos : Fase'[q] = Fase[q] /\ Dono'[q] = Dono[q]
  BY IgualFica
<1>2. /\ Fase = [q \in Pedidos |-> Fase[q]] /\ Fase' = [q \in Pedidos |-> Fase'[q]]
      /\ Dono = [q \in Pedidos |-> Dono[q]] /\ Dono' = [q \in Pedidos |-> Dono'[q]]
  BY DEF Fase, Dono
<1> QED BY <1>1, <1>2

\* A new order is offered; one whose id is used again leaves the abstract life.
LEMMA CriarCiclo ==
    ASSUME IInv, NEW p \in Pedidos, CriarPedido(p)
    PROVE  [Ciclo!Next]_(Ciclo!vars)
<1>1. TypeOK /\ estado \in Estado /\ \A q \in Pedidos : Ficha(q)
  BY IInvPorPedido DEF TypeOK
<1>2. /\ estado' = Criar(estado, p)
      /\ usados' = usados \cup {p}
      /\ reenviados' = IF p \in usados THEN reenviados \cup {p} ELSE reenviados
  BY DEF CriarPedido
<1>3. ASSUME NEW q \in Pedidos \ {p} PROVE Igual(q)
  <2>1. /\ estado'.pedidos[q] = estado.pedidos[q]
        /\ Existe(estado', q) <=> Existe(estado, q)
        /\ ComEntregador(estado', q) <=> ComEntregador(estado, q)
    BY <1>1, <1>2, CriarEfeito
  <2> QED BY <1>2, <2>1 DEF Igual
<1>4. /\ Fase' = [Fase EXCEPT ![p] = Fase'[p]]
      /\ Dono' = [Dono EXCEPT ![p] = Dono'[p]]
  BY <1>3, SoMuda
<1>5. CASE p \notin usados
  <2>1. Ficha(p)
    BY <1>1
  <2>2. Fase[p] = "novo" /\ Dono[p] = Nenhum
    BY <1>5, <2>1 DEF Fase, Dono, Ficha
  <2>3. /\ estado'.pedidos[p] = PedidoNovo /\ Existe(estado', p)
        /\ ~ComEntregador(estado', p)
    BY <1>1, <1>2, CriarEfeito
  <2>4. p \in usados' /\ p \notin reenviados'
    BY <1>2, <1>5, <2>1 DEF Ficha
  <2>5. Fase'[p] = "disponivel" /\ Dono'[p] = Nenhum
    BY <2>3, <2>4, PedidoNovoOk DEF Fase, Dono
  <2>6. Dono' = Dono
    BY <1>4, <2>2, <2>5 DEF Dono
  <2>7. Ciclo!Oferecer(p)
    BY <1>4, <2>2, <2>5, <2>6 DEF Ciclo!Oferecer
  <2> QED BY <2>7 DEF Ciclo!Next
<1>6. CASE p \in usados
  <2>1. Fase'[p] = "entregue" /\ Dono'[p] = Nenhum
    BY <1>2, <1>6 DEF Fase, Dono
  <2>2. CASE Fase[p] \in {"disponivel", "aceito"}
    <3>1. Ciclo!Entregar(p)
      BY <1>4, <2>1, <2>2 DEF Ciclo!Entregar
    <3> QED BY <3>1 DEF Ciclo!Next
  <2>3. CASE Fase[p] \notin {"disponivel", "aceito"}
    <3>1. Fase[p] = "entregue" /\ Dono[p] = Nenhum
      BY <1>6, <2>3 DEF Fase, Dono
    <3>2. Fase' = Fase /\ Dono' = Dono
      BY <1>4, <2>1, <3>1 DEF Fase, Dono
    <3> QED BY <3>2 DEF Ciclo!vars
  <2> QED BY <2>2, <2>3
<1> QED BY <1>5, <1>6

\* An order is accepted, whether or not its publication fails.
LEMMA AceitarCiclo ==
    ASSUME IInv, NEW p \in Pedidos, NEW d \in Entregadores,
           AceitarPedido(p, d) \/ AceiteNaoPublicado(p, d)
    PROVE  [Ciclo!Next]_(Ciclo!vars)
<1>1. TypeOK /\ estado \in Estado /\ \A q \in Pedidos : Ficha(q)
  BY IInvPorPedido DEF TypeOK
<1>2. /\ Existe(estado, p) /\ p \in estado.semEntregador
      /\ ativos \in SUBSET Rastreadores /\ ativos # {}
      /\ estado' = Aceitar(estado, p, d, ativos)
      /\ UNCHANGED <<usados, reenviados>>
  BY <1>1 DEF AceitarPedido, AceiteNaoPublicado, PodeAceitar, historia, TypeOK
<1>3. ASSUME NEW q \in Pedidos \ {p} PROVE Igual(q)
  <2>1. /\ estado'.pedidos[q] = estado.pedidos[q]
        /\ Existe(estado', q) <=> Existe(estado, q)
        /\ ComEntregador(estado', q) <=> ComEntregador(estado, q)
    BY <1>1, <1>2, AceitarEfeito
  <2> QED BY <1>2, <2>1 DEF Igual
<1>4. /\ Fase' = [Fase EXCEPT ![p] = Fase'[p]]
      /\ Dono' = [Dono EXCEPT ![p] = Dono'[p]]
  BY <1>3, SoMuda
<1>5. Ficha(p)
  BY <1>1
<1>6. p \in usados /\ ~ComEntregador(estado, p)
  BY <1>2, <1>5 DEF Ficha
<1>7. /\ estado'.pedidos[p].entregador = d /\ Existe(estado', p)
      /\ ComEntregador(estado', p)
  BY <1>1, <1>2, AceitarEfeito
<1>8. CASE p \in reenviados
  <2>1. /\ Fase[p] = "entregue" /\ Fase'[p] = "entregue"
        /\ Dono[p] = Nenhum /\ Dono'[p] = Nenhum
    BY <1>2, <1>6, <1>8 DEF Fase, Dono
  <2>2. Fase' = Fase /\ Dono' = Dono
    BY <1>4, <2>1 DEF Fase, Dono
  <2> QED BY <2>2 DEF Ciclo!vars
<1>9. CASE p \notin reenviados
  <2>1. Fase[p] = "disponivel" /\ Fase'[p] = "aceito" /\ Dono'[p] = d
    BY <1>2, <1>6, <1>7, <1>9 DEF Fase, Dono
  <2>2. Ciclo!Aceitar(p, d)
    BY <1>4, <2>1 DEF Ciclo!Aceitar
  <2> QED BY <2>2 DEF Ciclo!Next
<1> QED BY <1>8, <1>9

\* A delivery ends the life of an order, accepted or not.
LEMMA ConfirmarCiclo ==
    ASSUME IInv, NEW p \in Pedidos, ConfirmarEntrega(p)
    PROVE  [Ciclo!Next]_(Ciclo!vars)
<1>1. TypeOK /\ estado \in Estado /\ \A q \in Pedidos : Ficha(q)
  BY IInvPorPedido DEF TypeOK
<1>2. /\ Existe(estado, p) /\ estado' = Confirmar(estado, p)
      /\ UNCHANGED <<usados, reenviados>>
  BY DEF ConfirmarEntrega, historia
<1>3. ASSUME NEW q \in Pedidos \ {p} PROVE Igual(q)
  <2>1. /\ estado'.pedidos[q] = estado.pedidos[q]
        /\ Existe(estado', q) <=> Existe(estado, q)
        /\ ComEntregador(estado', q) <=> ComEntregador(estado, q)
    BY <1>1, <1>2, ConfirmarEfeito
  <2> QED BY <1>2, <2>1 DEF Igual
<1>4. /\ Fase' = [Fase EXCEPT ![p] = Fase'[p]]
      /\ Dono' = [Dono EXCEPT ![p] = Dono'[p]]
  BY <1>3, SoMuda
<1>5. p \in usados /\ ~Existe(estado', p)
  BY <1>1, <1>2, ConfirmarEfeito DEF Ficha
<1>6. Fase'[p] = "entregue" /\ Dono'[p] = Nenhum
  BY <1>2, <1>5 DEF Fase, Dono
<1>7. CASE p \in reenviados
  <2>1. Fase[p] = "entregue" /\ Dono[p] = Nenhum
    BY <1>5, <1>7 DEF Fase, Dono
  <2>2. Fase' = Fase /\ Dono' = Dono
    BY <1>4, <1>6, <2>1 DEF Fase, Dono
  <2> QED BY <2>2 DEF Ciclo!vars
<1>8. CASE p \notin reenviados
  <2>1. Fase[p] \in {"disponivel", "aceito"}
    BY <1>2, <1>5, <1>8 DEF Fase
  <2>2. Ciclo!Entregar(p)
    BY <1>4, <1>6, <2>1 DEF Ciclo!Entregar
  <2> QED BY <2>2 DEF Ciclo!Next
<1> QED BY <1>7, <1>8

\* Preparing an order or moving orders is no step of their life.
LEMMA PrepararCiclo ==
    ASSUME IInv, NEW p \in Pedidos, PrepararPedido(p)
    PROVE  UNCHANGED <<Fase, Dono>>
<1>1. /\ estado \in Estado /\ Existe(estado, p) /\ estado' = Preparar(estado, p)
      /\ UNCHANGED <<usados, reenviados>>
  BY DEF IInv, TypeOK, PrepararPedido, historia
<1>2. ASSUME NEW q \in Pedidos PROVE Igual(q)
  <2>1. /\ Existe(estado', q) <=> Existe(estado, q)
        /\ ComEntregador(estado', q) <=> ComEntregador(estado, q)
        /\ Existe(estado, q) => estado'.pedidos[q].entregador = estado.pedidos[q].entregador
    BY <1>1, PrepararEfeito
  <2> QED BY <1>1, <2>1 DEF Igual
<1> QED BY <1>2, TodosIguais

\* No step of the trackers or the broker moves an order in its life.
LEMMA RastreadoresCiclo ==
    ASSUME IInv, Redistribui
    PROVE  UNCHANGED <<Fase, Dono>>
<1>1. TypeOK /\ estado \in Estado
  BY DEF IInv, TypeOK
<1>2. PICK ps \in SUBSET Pedidos, at \in SUBSET Rastreadores : PassoDeLaco(ps, at)
  BY <1>1, LacosDoLider
<1>3. PICK m \in SUBSET ps : estado' = Mover(estado, m, at)
  BY <1>2, LacoPartes DEF PassoDeLaco, Laco
<1>4. m \in SUBSET Pedidos /\ (m # {} => at # {})
  BY <1>2 DEF PassoDeLaco
<1>5. ASSUME NEW q \in Pedidos PROVE Igual(q)
  <2>1. Movido(estado, estado', q, m, at)
    BY <1>1, <1>3, <1>4, MoverTodos
  <2> QED BY <1>2, <2>1 DEF PassoDeLaco, Movido, Igual, historia
<1> QED BY <1>5, TodosIguais

\* Neither does a step that leaves the orders alone.
LEMMA OutrosCiclo ==
    ASSUME UNCHANGED <<estado, usados, reenviados>>
    PROVE  UNCHANGED <<Fase, Dono>>
<1>1. \A q \in Pedidos : Igual(q)
  BY DEF Igual
<1> QED BY <1>1, TodosIguais

\* The leader implements CicloPedido: each order is offered once, kept by the first
\* driver who accepts it, and never back once delivered, whatever the trackers, the
\* broker and the replication do.
THEOREM LiderImplementaCiclo == Spec => ImplementaCiclo
<1>1. Init => Ciclo!Init
  BY DEF Init, Ciclo!Init, Fase, Dono, EstadoVazio, Existe
<1>2. IInv /\ [Next]_vars => [Ciclo!Next]_(Ciclo!vars)
  <2> SUFFICES ASSUME IInv, [Next]_vars PROVE [Ciclo!Next]_(Ciclo!vars)
    OBVIOUS
  <2>1. ASSUME UNCHANGED <<Fase, Dono>> PROVE [Ciclo!Next]_(Ciclo!vars)
    BY <2>1 DEF Ciclo!vars
  <2>2. ASSUME NEW p \in Pedidos, CriarPedido(p) PROVE [Ciclo!Next]_(Ciclo!vars)
    BY <2>2, CriarCiclo
  <2>3. ASSUME NEW p \in Pedidos, PrepararPedido(p) PROVE [Ciclo!Next]_(Ciclo!vars)
    BY <2>1, <2>3, PrepararCiclo
  <2>4. ASSUME NEW p \in Pedidos, ConfirmarEntrega(p) PROVE [Ciclo!Next]_(Ciclo!vars)
    BY <2>4, ConfirmarCiclo
  <2>5. ASSUME NEW p \in Pedidos, NEW d \in Entregadores,
               AceitarPedido(p, d) \/ AceiteNaoPublicado(p, d)
        PROVE  [Ciclo!Next]_(Ciclo!vars)
    BY <2>5, AceitarCiclo
  <2>6. CASE Redistribui
    BY <2>1, <2>6, RastreadoresCiclo
  <2>7. ASSUME \/ \E r \in Rastreadores : KeepAlive(r) \/ Silencio(r) \/ Cair(r) \/ Voltar(r)
               \/ IniciarCiclo \/ ReplicacaoConfirmada \/ ReplicacaoSemMaioria
               \/ UNCHANGED vars
        PROVE  [Ciclo!Next]_(Ciclo!vars)
    <3>1. UNCHANGED <<estado, usados, reenviados>>
      BY <2>7 DEF KeepAlive, Silencio, Cair, Voltar, IniciarCiclo, ReplicacaoConfirmada,
                  ReplicacaoSemMaioria, vars, historia
    <3> QED BY <2>1, <3>1, OutrosCiclo
  <2> QED BY <2>2, <2>3, <2>4, <2>5, <2>6, <2>7 DEF Next, PassoMonitor, Redistribui
<1> QED BY <1>1, <1>2, InicioOk, PassoIndutivo, PTL DEF Spec, ImplementaCiclo, Ciclo!Spec
=============================================================================
