---------------------------- MODULE EleicaoProvas ----------------------------
(***************************************************************************)
(* For any number of ADMs, handlers, crashes and events: the types of      *)
(* Eleicao, that no two running ADMs lead at once unless a running one was *)
(* wrongly suspected or a call or an answer missed its time-out, and that  *)
(* only the highest running ADM takes over, from a leader that is down.    *)
(***************************************************************************)
EXTENDS Eleicao, FiniteSetTheorems, WellFoundedInduction, TLAPS

-----------------------------------------------------------------------------
(* Coroutines *)

\* The conditions of TypeOK on where coroutine t of a stands
BemPosta(a, t, r) ==
    /\ r \in Tarefa
    /\ r.fase = "respondendo" => t # Monitor
    /\ r.fase = "batendo" => t = Monitor
    /\ r.fase = "chamando" => \A b \in r.faltam : b > a
    /\ r.fase = "anunciando" => \A b \in r.faltam : b < a

\* Every coroutine stands where it can.
TarefasOk == /\ tarefa \in [ADMs -> [Tarefas -> Tarefa]]
             /\ \A a \in ADMs, t \in Tarefas : BemPosta(a, t, tarefa[a][t])

\* TypeOK, with the coroutines apart
Partes == /\ vivos \subseteq ADMs
          /\ adm \in [ADMs -> Estado]
          /\ silencio \in [ADMs -> SUBSET ADMs]
          /\ TarefasOk
          /\ quedas \in 0..MaxAbalos
          /\ eventos \subseteq [tipo : Eventos, adm : ADMs]
          /\ Cardinality(eventos) <= MaxEventos

\* These are the conditions of TypeOK.
LEMMA TipoPorTarefa == TypeOK <=> Partes
<1>1. ASSUME tarefa \in [ADMs -> [Tarefas -> Tarefa]], NEW a \in ADMs, NEW t \in Tarefas
      PROVE  tarefa[a][t] \in Tarefa
  BY <1>1
<1> QED BY <1>1 DEF TypeOK, TarefasOk, BemPosta, Partes

\* Where a coroutine may go on to
Chegada(a, t, r) ==
    \/ r = Livre \/ r = Aguardando
    \/ \E s \in SUBSET ADMs : \/ r = Chamando(s) /\ \A b \in s : b > a
                              \/ r = Anunciando(s) /\ \A b \in s : b < a
                              \/ r = Batendo(s) /\ t = Monitor
    \/ \E b \in ADMs : r = Respondendo(b) /\ t # Monitor

\* What Onde returns is such a place again.
LEMMA OndeTipo ==
    ASSUME NEW a \in ADMs, NEW t \in Tarefas, NEW r, Chegada(a, t, r)
    PROVE  BemPosta(a, t, Onde(a, t, r))
<1>1. \A s \in SUBSET ADMs : /\ Chamando(s) \in Tarefa /\ Anunciando(s) \in Tarefa
                             /\ Batendo(s) \in Tarefa
  BY DEF Tarefa, Chamando, Anunciando, Batendo
<1>2. \A b \in ADMs : Respondendo(b) \in Tarefa
  BY DEF Tarefa, Respondendo
<1>3. Livre \in Tarefa /\ Aguardando \in Tarefa
  BY DEF Tarefa
<1>4. BemPosta(a, t, Repouso(a, t))
  BY <1>1, <1>3 DEF BemPosta, Repouso, Batendo, Livre
<1>5. BemPosta(a, t, Aguardando)
  BY <1>3 DEF BemPosta, Aguardando
<1>6. CASE r = Livre
  BY <1>4, <1>6 DEF Onde, Livre
<1>7. CASE r = Aguardando
  BY <1>5, <1>7 DEF Onde, Aguardando, Livre
<1>8. ASSUME NEW s \in SUBSET ADMs, r = Chamando(s), \A b \in s : b > a
      PROVE  BemPosta(a, t, Onde(a, t, r))
  <2>1. BemPosta(a, t, r)
    BY <1>1, <1>8 DEF BemPosta, Chamando
  <2>2. Onde(a, t, r) \in {r, Aguardando}
    BY <1>8 DEF Onde, Chamando, Livre
  <2> QED BY <1>5, <2>1, <2>2
<1>9. ASSUME NEW s \in SUBSET ADMs, r = Anunciando(s), \A b \in s : b < a
      PROVE  BemPosta(a, t, Onde(a, t, r))
  <2>1. BemPosta(a, t, r)
    BY <1>1, <1>9 DEF BemPosta, Anunciando
  <2>2. Onde(a, t, r) \in {r, Repouso(a, t)}
    BY <1>9 DEF Onde, Anunciando, Livre
  <2> QED BY <1>4, <2>1, <2>2
<1>10. ASSUME NEW s \in SUBSET ADMs, r = Batendo(s), t = Monitor
       PROVE  BemPosta(a, t, Onde(a, t, r))
  BY <1>1, <1>10 DEF BemPosta, Batendo, Onde, Livre
<1>11. ASSUME NEW b \in ADMs, r = Respondendo(b), t # Monitor
       PROVE  BemPosta(a, t, Onde(a, t, r))
  BY <1>2, <1>11 DEF BemPosta, Respondendo, Onde, Livre
<1> QED BY <1>6, <1>7, <1>8, <1>9, <1>10, <1>11 DEF Chegada

\* A coroutine that goes on leaves every coroutine well placed.
LEMMA IrTipo ==
    ASSUME TarefasOk, NEW a \in ADMs, NEW t \in Tarefas, NEW r, Chegada(a, t, r),
           Ir(a, t, r)
    PROVE  TarefasOk'
<1>1. BemPosta(a, t, Onde(a, t, r))
  BY OndeTipo
<1>2. /\ tarefa' \in [ADMs -> [Tarefas -> Tarefa]]
      /\ \A b \in ADMs, u \in Tarefas :
             tarefa'[b][u] = IF b = a /\ u = t THEN Onde(a, t, r) ELSE tarefa[b][u]
  BY <1>1 DEF TarefasOk, Ir, BemPosta
<1>3. \A b \in ADMs, u \in Tarefas : BemPosta(b, u, tarefa'[b][u])
  BY <1>1, <1>2 DEF TarefasOk
<1>4. \A b \in ADMs, u \in Tarefas : BemPosta(b, u, tarefa[b][u])' = BemPosta(b, u, tarefa'[b][u])
  BY DEF BemPosta
<1> QED BY <1>2, <1>3, <1>4 DEF TarefasOk

\* A handler that is free is one of them.
LEMMA HandlerLivre ==
    ASSUME NEW b, HandlersLivres(b) # {}
    PROVE  /\ Min(HandlersLivres(b)) \in Handlers
           /\ tarefa[b][Min(HandlersLivres(b))] = Livre
<1> DEFINE S == HandlersLivres(b)
<1>1. S \subseteq Nat /\ S # {}
  BY EleicaoAssumption DEF HandlersLivres, Handlers
<1>2. \E x \in S : \A y \in S : ~ (<<y, x>> \in OpToRel(<, Nat))
  <2> HIDE DEF S
  <2> QED BY <1>1, NatLessThanWellFounded, WFMin
<1>3. \E x \in S : \A y \in S : x <= y
  <2>1. PICK x \in S : \A y \in S : ~ (<<y, x>> \in OpToRel(<, Nat))
    BY <1>2
  <2>2. ASSUME NEW y \in S PROVE x <= y
    <3>1. x \in Nat /\ y \in Nat
      BY <1>1
    <3>2. ~ (y < x)
      BY <2>1, <3>1 DEF OpToRel
    <3> QED BY <3>1, <3>2
  <2> QED BY <2>2
<1>4. Min(S) \in S
  BY <1>3 DEF Min
<1> QED BY <1>4 DEF HandlersLivres

\* What the start of an election makes of a's record and where it goes on: nothing
\* while one is under way; else leadership, if it knows no higher ADM, or calls to them.
LEMMA IniciarEfeito ==
    ASSUME NEW a \in ADMs, NEW e \in Estado, NEW r, r = IniciarEleicao(a, e)
    PROVE  /\ r.adm \in Estado /\ r.adm.ativos = e.ativos
           /\ \A t \in Tarefas : Chegada(a, t, r.tarefa)
           /\ \/ r.tarefa = Livre /\ r.adm = e
              \/ /\ r.tarefa = Anunciando(Menores(a, e)) /\ r.adm.lider = a
                 /\ Maiores(a, e) = {}
              \/ /\ r.tarefa = Chamando(Maiores(a, e)) /\ r.adm.lider = e.lider
                 /\ Maiores(a, e) # {}
<1> DEFINE aberta == [e EXCEPT !.emEleicao = TRUE, !.resposta = FALSE]
<1>1. /\ aberta \in Estado /\ aberta.ativos = e.ativos /\ aberta.lider = e.lider
      /\ Maiores(a, aberta) = Maiores(a, e) /\ Menores(a, aberta) = Menores(a, e)
      /\ Maiores(a, e) \in SUBSET ADMs /\ Menores(a, e) \in SUBSET ADMs
      /\ \A b \in Maiores(a, e) : b > a
      /\ \A b \in Menores(a, e) : b < a
  BY DEF Estado, Maiores, Menores
<1>2. CASE e.emEleicao
  BY <1>2 DEF IniciarEleicao, Chegada
<1>3. CASE ~e.emEleicao /\ Maiores(a, e) = {}
  <2>1. r = TornarLider(a, aberta)
    BY <1>1, <1>3 DEF IniciarEleicao
  <2>2. /\ r.adm = [aberta EXCEPT !.lider = a, !.disponivel = TRUE, !.emEleicao = FALSE]
        /\ r.tarefa = Anunciando(Menores(a, e))
    BY <1>1, <2>1 DEF TornarLider
  <2>3. r.adm \in Estado /\ r.adm.ativos = e.ativos /\ r.adm.lider = a
    BY <1>1, <2>2 DEF Estado
  <2> QED BY <1>1, <1>3, <2>2, <2>3 DEF Chegada
<1>4. CASE ~e.emEleicao /\ Maiores(a, e) # {}
  <2>1. r = [adm |-> aberta, tarefa |-> Chamando(Maiores(a, e))]
    BY <1>1, <1>4 DEF IniciarEleicao
  <2>2. r.adm = aberta /\ r.tarefa = Chamando(Maiores(a, e))
    BY <2>1
  <2>3. \A t \in Tarefas : Chegada(a, t, r.tarefa)
    BY <1>1, <2>2 DEF Chegada
  <2> HIDE DEF aberta
  <2> QED BY <1>1, <1>4, <2>2, <2>3
<1> QED BY <1>2, <1>3, <1>4

\* The same of the leadership of one whose wait is over
LEMMA TornarEfeito ==
    ASSUME NEW a \in ADMs, NEW e \in Estado, NEW r, r = TornarLider(a, e)
    PROVE  /\ r.adm \in Estado /\ r.adm.ativos = e.ativos /\ r.adm.lider = a
           /\ r.tarefa = Anunciando(Menores(a, e))
           /\ \A t \in Tarefas : Chegada(a, t, r.tarefa)
<1>1. Menores(a, e) \in SUBSET ADMs /\ \A b \in Menores(a, e) : b < a
  BY DEF Estado, Menores
<1>2. /\ r.adm = [e EXCEPT !.lider = a, !.disponivel = TRUE, !.emEleicao = FALSE]
      /\ r.tarefa = Anunciando(Menores(a, e))
  BY DEF TornarLider
<1>3. r.adm \in Estado /\ r.adm.ativos = e.ativos /\ r.adm.lider = a
  BY <1>2 DEF Estado
<1> QED BY <1>1, <1>2, <1>3 DEF Chegada

\* The record with which the monitor goes on: a forgets the silent ADMs, and the leader
\* if that has failed.
Expirado(a) == [adm[a] EXCEPT !.ativos = @ \ (silencio[a] \ {a})]
SemLider(e) == [e EXCEPT !.disponivel = FALSE, !.ativos = @ \ {e.lider}]

\* Monitorar, by these two records
LEMMA MonitorarEfeito ==
    ASSUME NEW a \in ADMs, adm[a] \in Estado
    PROVE  LET e == Expirado(a)
           IN  /\ e \in Estado /\ SemLider(e) \in Estado
               /\ e.lider = adm[a].lider /\ SemLider(e).lider = adm[a].lider
               /\ e.resposta = adm[a].resposta
               /\ e.ativos = adm[a].ativos \ (silencio[a] \ {a})
               /\ SemLider(e).ativos = e.ativos \ {e.lider}
               /\ Monitorar(a) =>
                      \/ LiderCaiu(a, e)
                         /\ Mudar(a, Monitor, IniciarEleicao(a, SemLider(e)))
                      \/ Mudar(a, Monitor, [adm |-> e, tarefa |-> Livre])
BY DEF Expirado, SemLider, Estado, Monitorar

-----------------------------------------------------------------------------
(* Types *)

\* Besides its type: the events are finitely many, an ADM that does not run has no
\* coroutine, and a majority runs.
Base == /\ TypeOK
        /\ IsFiniteSet(eventos)
        /\ \A a \in ADMs \ vivos : tarefa[a] = Parado(a)
        /\ 2 * Cardinality(vivos) > N

\* A process that does not run, or has just started, is in no election.
LEMMA ParadoOk ==
    ASSUME NEW a \in ADMs, NEW t \in Tarefas
    PROVE  /\ Parado(a) \in [Tarefas -> Tarefa]
           /\ BemPosta(a, t, Parado(a)[t])
           /\ Parado(a)[t].fase \in {"livre", "batendo"}
<1>1. \A u \in Tarefas : BemPosta(a, u, Repouso(a, u))
  BY DEF BemPosta, Repouso, Batendo, Livre, Tarefa
<1>2. \A u \in Tarefas : Repouso(a, u).fase \in {"livre", "batendo"}
  BY DEF Repouso, Batendo, Livre
<1> QED BY <1>1, <1>2 DEF Parado, BemPosta

\* All ADMs start together.
LEMMA InicioBase == Init => Base
<1> SUFFICES ASSUME Init PROVE Base
  OBVIOUS
<1>1. /\ vivos = ADMs /\ adm = [a \in ADMs |-> EstadoInicial]
      /\ silencio = [a \in ADMs |-> {}] /\ tarefa = [a \in ADMs |-> Parado(a)]
      /\ quedas = 0 /\ eventos = {}
  BY DEF Init
<1>2. EstadoInicial \in Estado
  BY EleicaoAssumption DEF EstadoInicial, Estado, ADMs
<1>3. TarefasOk
  <2>1. \A a \in ADMs, t \in Tarefas : BemPosta(a, t, tarefa[a][t])
    BY <1>1, ParadoOk
  <2>2. \A a \in ADMs : Parado(a) \in [Tarefas -> Tarefa]
    BY ParadoOk, EleicaoAssumption DEF Tarefas
  <2> QED BY <1>1, <2>1, <2>2 DEF TarefasOk
<1>4. IsFiniteSet(eventos) /\ Cardinality(eventos) = 0
  BY <1>1, FS_EmptySet
<1>5. 2 * Cardinality(vivos) > N
  BY <1>1, FS_Interval, EleicaoAssumption DEF ADMs
<1> QED BY <1>1, <1>2, <1>3, <1>4, <1>5, TipoPorTarefa, EleicaoAssumption DEF Base, Partes

\* An event more is within the bounds.
LEMMA EventoOk ==
    ASSUME Base, NEW tipo, NEW b \in ADMs, Acontecer(tipo, b)
    PROVE  /\ eventos' \subseteq [tipo : Eventos, adm : ADMs]
           /\ IsFiniteSet(eventos') /\ Cardinality(eventos') <= MaxEventos
           /\ UNCHANGED <<vivos, quedas>>
<1>1. /\ eventos' = eventos \cup {Evento(tipo, b)} /\ tipo \in Eventos
      /\ Evento(tipo, b) \notin eventos /\ Cardinality(eventos) < MaxEventos
      /\ UNCHANGED <<vivos, quedas>>
  BY DEF Acontecer
<1>2. IsFiniteSet(eventos) /\ eventos \subseteq [tipo : Eventos, adm : ADMs]
  BY DEF Base, TypeOK
<1>3. /\ IsFiniteSet(eventos') /\ Cardinality(eventos') = Cardinality(eventos) + 1
      /\ Cardinality(eventos) \in Nat
  BY <1>1, <1>2, FS_AddElement, FS_CardinalityType
<1>4. Evento(tipo, b) \in [tipo : Eventos, adm : ADMs]
  BY <1>1 DEF Evento
<1> QED BY <1>1, <1>2, <1>3, <1>4, EleicaoAssumption

\* A step that leaves the processes alone keeps Base if it keeps the types of what it
\* changes and the ADMs that do not run without coroutines.
LEMMA BaseFica ==
    ASSUME Base, UNCHANGED <<vivos, quedas>>,
           adm' \in [ADMs -> Estado], silencio' \in [ADMs -> SUBSET ADMs], TarefasOk',
           \A a \in ADMs \ vivos : tarefa'[a] = tarefa[a],
           \/ UNCHANGED eventos
           \/ \E tipo : \E b \in ADMs : Acontecer(tipo, b)
    PROVE  Base'
<1>1. /\ eventos' \subseteq [tipo : Eventos, adm : ADMs]
      /\ IsFiniteSet(eventos') /\ Cardinality(eventos') <= MaxEventos
  <2>1. CASE UNCHANGED eventos
    BY <2>1 DEF Base, TypeOK
  <2> QED BY <2>1, EventoOk
<1>2. vivos \subseteq ADMs /\ quedas \in 0..MaxAbalos
  BY DEF Base, TypeOK
<1>3. TypeOK'
  <2>1. Partes'
    BY <1>1, <1>2 DEF Partes
  <2> QED BY <2>1, TipoPorTarefa, PTL
<1>4. \A a \in ADMs : Parado(a)' = Parado(a)
  BY DEF Parado, Repouso
<1> QED BY <1>1, <1>3, <1>4 DEF Base

\* A coroutine of a running ADM goes on, and changes no other.
LEMMA IrEfeito ==
    ASSUME Base, NEW a \in vivos, NEW t \in Tarefas, NEW r, Chegada(a, t, r), Ir(a, t, r)
    PROVE  /\ TarefasOk'
           /\ \A b \in ADMs \ vivos : tarefa'[b] = tarefa[b]
           /\ \A b \in ADMs, u \in Tarefas :
                  tarefa'[b][u] = IF b = a /\ u = t THEN Onde(a, t, r) ELSE tarefa[b][u]
<1>1. a \in ADMs /\ TarefasOk
  BY TipoPorTarefa DEF Base, Partes
<1>2. TarefasOk'
  BY <1>1, IrTipo
<1>3. tarefa \in [ADMs -> [Tarefas -> Tarefa]]
  BY <1>1 DEF TarefasOk
<1> QED BY <1>1, <1>2, <1>3 DEF Ir

\* It changes the record of its ADM as well.
LEMMA MudarEfeito ==
    ASSUME Base, NEW a \in vivos, NEW t \in Tarefas, NEW r, r.adm \in Estado,
           Chegada(a, t, r.tarefa), Mudar(a, t, r)
    PROVE  /\ TarefasOk'
           /\ \A b \in ADMs \ vivos : tarefa'[b] = tarefa[b]
           /\ \A b \in ADMs, u \in Tarefas :
                  tarefa'[b][u] = IF b = a /\ u = t THEN Onde(a, t, r.tarefa)
                                                    ELSE tarefa[b][u]
           /\ adm' \in [ADMs -> Estado]
           /\ \A b \in ADMs : adm'[b] = IF b = a THEN r.adm ELSE adm[b]
<1>1. adm \in [ADMs -> Estado] /\ adm' = [adm EXCEPT ![a] = r.adm] /\ a \in ADMs
  BY DEF Base, TypeOK, Mudar
<1> QED BY <1>1, IrEfeito DEF Mudar

\* The ADMs a coroutine has left to call, once it has called the next.
LEMMA RestamOk ==
    ASSUME Base, NEW a \in vivos, NEW t \in Tarefas,
           Esta(a, t, "chamando") \/ Esta(a, t, "anunciando")
    PROVE  /\ Restam(a, t) \in SUBSET ADMs
           /\ Esta(a, t, "chamando") => Chegada(a, t, Chamando(Restam(a, t)))
           /\ Esta(a, t, "anunciando") => Chegada(a, t, Anunciando(Restam(a, t)))
<1>1. BemPosta(a, t, tarefa[a][t])
  BY TipoPorTarefa DEF Base, Partes, TarefasOk
<1>2. tarefa[a][t].faltam \in SUBSET ADMs
  BY <1>1 DEF Esta, BemPosta, Tarefa, Livre, Aguardando
<1>3. Restam(a, t) \in SUBSET ADMs
  BY <1>2 DEF Restam
<1>4. Esta(a, t, "chamando") => \A b \in Restam(a, t) : b > a
  BY <1>1 DEF Esta, BemPosta, Restam
<1>5. Esta(a, t, "anunciando") => \A b \in Restam(a, t) : b < a
  BY <1>1 DEF Esta, BemPosta, Restam
<1> QED BY <1>3, <1>4, <1>5 DEF Chegada

\* The monitor's cycle
LEMMA CicloBase ==
    ASSUME Base, NEW a \in ADMs, Ciclo(a)
    PROVE  Base'
<1> USE DEF Monitor, Tarefas
<1>1. /\ a \in vivos /\ vivos \subseteq ADMs /\ adm \in [ADMs -> Estado]
      /\ silencio \in [ADMs -> SUBSET ADMs] /\ adm[a] \in Estado
  BY DEF Base, TypeOK, Ciclo, BaterKeepAlive, Monitorar, Esta
<1>2. CASE BaterKeepAlive(a)
  <2>1. BemPosta(a, Monitor, tarefa[a][Monitor]) /\ tarefa[a][Monitor].fase = "batendo"
    BY <1>2, TipoPorTarefa DEF Base, Partes, TarefasOk, BaterKeepAlive, Esta
  <2>2. tarefa[a][Monitor].faltam \in SUBSET ADMs
    BY <2>1 DEF BemPosta, Tarefa, Livre, Aguardando
  <2>3. Chegada(a, Monitor, Batendo(Restam(a, Monitor)))
    BY <2>2 DEF Chegada, Restam
  <2>4. TarefasOk' /\ \A b \in ADMs \ vivos : tarefa'[b] = tarefa[b]
    BY <1>1, <1>2, <2>3, IrEfeito DEF BaterKeepAlive
  <2>5. adm' \in [ADMs -> Estado] /\ silencio' \in [ADMs -> SUBSET ADMs]
    <3>1. CASE Proximo(a, Monitor) \notin vivos
      BY <1>1, <1>2, <3>1 DEF BaterKeepAlive
    <3>2. ASSUME NEW b \in vivos, b = Proximo(a, Monitor)
          PROVE  adm' \in [ADMs -> Estado] /\ silencio' \in [ADMs -> SUBSET ADMs]
      <4>1. /\ adm' = [adm EXCEPT ![b].ativos = @ \cup {a}]
            /\ silencio' = [silencio EXCEPT ![b] = @ \ {a}]
        BY <1>2, <3>2 DEF BaterKeepAlive
      <4>2. [adm[b] EXCEPT !.ativos = @ \cup {a}] \in Estado
        BY <1>1 DEF Estado
      <4> QED BY <1>1, <4>1, <4>2
    <3> QED BY <3>1, <3>2
  <2> QED BY <1>2, <2>4, <2>5, BaseFica DEF BaterKeepAlive, contadores
<1>3. CASE Monitorar(a)
  <2> DEFINE e == Expirado(a)
  <2>1. PICK r : /\ Mudar(a, Monitor, r)
                 /\ \/ r = IniciarEleicao(a, SemLider(e))
                    \/ r = [adm |-> e, tarefa |-> Livre]
    BY <1>1, <1>3, MonitorarEfeito
  <2>2. e \in Estado /\ SemLider(e) \in Estado
    BY <1>1, MonitorarEfeito
  <2>3. r.adm \in Estado /\ Chegada(a, Monitor, r.tarefa)
    <3> HIDE DEF e
    <3> QED BY <2>1, <2>2, IniciarEfeito DEF Chegada
  <2> QED BY <1>1, <1>3, <2>1, <2>3, MudarEfeito, BaseFica DEF Monitorar, contadores
<1> QED BY <1>2, <1>3 DEF Ciclo

\* The call goes to a handler that was free, or to an ADM that is down.
LEMMA ChamarEfeito ==
    ASSUME Base, NEW a \in ADMs, NEW t \in Tarefas, ChamarMaior(a, t)
    PROVE  /\ TarefasOk'
           /\ \A b \in ADMs \ vivos : tarefa'[b] = tarefa[b]
           /\ a \in vivos /\ tarefa[a][t].fase = "chamando"
           /\ \/ /\ Proximo(a, t) \notin vivos
                 /\ \A c \in ADMs, u \in Tarefas :
                        tarefa'[c][u] = IF c = a /\ u = t
                                        THEN Onde(a, t, Chamando(Restam(a, t)))
                                        ELSE tarefa[c][u]
              \/ \E b \in vivos, h \in Handlers :
                     /\ b = Proximo(a, t) /\ tarefa[b][h] = Livre
                     /\ \A c \in ADMs, u \in Tarefas :
                            tarefa'[c][u] = IF c = b /\ u = h THEN Respondendo(a)
                                            ELSE IF c = a /\ u = t
                                            THEN Onde(a, t, Chamando(Restam(a, t)))
                                            ELSE tarefa[c][u]
<1> DEFINE r == Chamando(Restam(a, t))
           chamou == [tarefa EXCEPT ![a][t] = Onde(a, t, r)]
<1>1. /\ a \in vivos /\ vivos \subseteq ADMs /\ Esta(a, t, "chamando")
      /\ tarefa \in [ADMs -> [Tarefas -> Tarefa]] /\ TarefasOk
      /\ \A c \in ADMs, u \in Tarefas : BemPosta(c, u, tarefa[c][u])
  BY TipoPorTarefa DEF Base, Partes, TarefasOk, ChamarMaior, Esta
<1>2. Chegada(a, t, r)
  BY <1>1, RestamOk
<1>3. BemPosta(a, t, Onde(a, t, r)) /\ Onde(a, t, r) \in Tarefa
  BY <1>2, OndeTipo DEF BemPosta
<1>4. CASE Proximo(a, t) \notin vivos /\ tarefa' = chamou
  <2>1. Ir(a, t, r)
    BY <1>4 DEF Ir
  <2> HIDE DEF r
  <2> QED BY <1>1, <1>2, <1>4, <2>1, IrEfeito DEF Esta, r
<1>5. ASSUME NEW b \in vivos, b = Proximo(a, t), HandlersLivres(b) # {},
             tarefa' = [chamou EXCEPT ![b][Min(HandlersLivres(b))] = Respondendo(a)]
      PROVE  \E h \in Handlers :
                 /\ tarefa[b][h] = Livre
                 /\ TarefasOk'
                 /\ \A c \in ADMs \ vivos : tarefa'[c] = tarefa[c]
                 /\ \A c \in ADMs, u \in Tarefas :
                            tarefa'[c][u] = IF c = b /\ u = h THEN Respondendo(a)
                                            ELSE IF c = a /\ u = t
                                            THEN Onde(a, t, r)
                                            ELSE tarefa[c][u]
  <2> DEFINE h == Min(HandlersLivres(b))
  <2>1. h \in Handlers /\ tarefa[b][h] = Livre
    BY <1>5, HandlerLivre
  <2>2. h \in Tarefas /\ h # Monitor
    BY <2>1, EleicaoAssumption DEF Tarefas, Handlers, Monitor
  <2>3. Respondendo(a) \in Tarefa /\ BemPosta(b, h, Respondendo(a))
    BY <1>1, <2>2 DEF Tarefa, Respondendo, BemPosta
  <2> HIDE DEF h, r
  <2>4. chamou \in [ADMs -> [Tarefas -> Tarefa]]
    BY <1>1, <1>3
  <2>5. tarefa' \in [ADMs -> [Tarefas -> Tarefa]]
    <3> HIDE DEF chamou
    <3> QED BY <1>1, <1>5, <2>2, <2>3, <2>4 DEF h
  <2>6. \A c \in ADMs, u \in Tarefas :
            tarefa'[c][u] = IF c = b /\ u = h THEN Respondendo(a)
                            ELSE IF c = a /\ u = t THEN Onde(a, t, r) ELSE tarefa[c][u]
    BY <1>1, <1>5, <2>2, <2>4 DEF h
  <2>7. \A c \in ADMs, u \in Tarefas : BemPosta(c, u, tarefa'[c][u])
    BY <1>1, <1>3, <2>3, <2>6
  <2>8. TarefasOk'
    BY <2>5, <2>7 DEF TarefasOk, BemPosta
  <2>9. \A c \in ADMs \ vivos : tarefa'[c] = tarefa[c]
    BY <1>1, <1>5
  <2> QED BY <2>1, <2>6, <2>8, <2>9
<1>6. \/ Proximo(a, t) \notin vivos /\ tarefa' = chamou
      \/ /\ Proximo(a, t) \in vivos /\ HandlersLivres(Proximo(a, t)) # {}
         /\ tarefa' = [chamou EXCEPT ![Proximo(a, t)][Min(HandlersLivres(Proximo(a, t)))]
                                         = Respondendo(a)]
  BY DEF ChamarMaior
<1> QED BY <1>1, <1>4, <1>5, <1>6 DEF Esta

\* The answer reaches the caller, if that runs and is lower, before b's own election.
LEMMA ResponderEfeito ==
    ASSUME Base, NEW b \in ADMs, NEW t \in Tarefas, Responder(b, t)
    PROVE  /\ b \in vivos /\ tarefa[b][t].fase = "respondendo"
           /\ adm' \in [ADMs -> Estado] /\ TarefasOk'
           /\ \A c \in ADMs \ vivos : tarefa'[c] = tarefa[c]
           /\ \E a \in ADMs :
                  /\ tarefa[b][t] = Respondendo(a)
                  /\ LET r == IniciarEleicao(b, adm[b])
                     IN  /\ adm'[b] = r.adm
                         /\ \A c \in ADMs, u \in Tarefas :
                                tarefa'[c][u] = IF c = b /\ u = t THEN Onde(b, t, r.tarefa)
                                                ELSE tarefa[c][u]
                  /\ \A c \in ADMs \ {b} :
                         /\ adm'[c].lider = adm[c].lider
                         /\ adm'[c].ativos = adm[c].ativos
                         /\ adm[c].resposta => adm'[c].resposta
                         /\ c = a /\ c \in vivos /\ b > c => adm'[c].resposta
<1> DEFINE a == tarefa[b][t].origem
           r == IniciarEleicao(b, adm[b])
           x == IF a \in vivos /\ b > a THEN TRUE ELSE adm[a].resposta
           respondido == [adm EXCEPT ![a].resposta = x]
<1>1. /\ b \in vivos /\ vivos \subseteq ADMs /\ tarefa[b][t].fase = "respondendo"
      /\ TarefasOk /\ BemPosta(b, t, tarefa[b][t])
      /\ adm \in [ADMs -> Estado] /\ adm[b] \in Estado
  BY TipoPorTarefa DEF Base, Partes, TarefasOk, Responder, Esta
<1>2. a \in ADMs /\ tarefa[b][t] = Respondendo(a)
  BY <1>1 DEF BemPosta, Tarefa, Livre, Aguardando, Respondendo
<1>3. r.adm \in Estado /\ Chegada(b, t, r.tarefa)
  BY <1>1, IniciarEfeito
<1>4. adm' = [respondido EXCEPT ![b] = r.adm] /\ Ir(b, t, r.tarefa)
  BY DEF Responder
<1>5. /\ TarefasOk' /\ \A c \in ADMs \ vivos : tarefa'[c] = tarefa[c]
      /\ \A c \in ADMs, u \in Tarefas :
             tarefa'[c][u] = IF c = b /\ u = t THEN Onde(b, t, r.tarefa) ELSE tarefa[c][u]
  BY <1>1, <1>3, <1>4, IrEfeito
<1> HIDE DEF a, r
<1>6. x \in BOOLEAN /\ [adm[a] EXCEPT !.resposta = x] \in Estado
  BY <1>1, <1>2 DEF Estado
<1>7. /\ respondido \in [ADMs -> Estado]
      /\ \A c \in ADMs : respondido[c] = IF c = a THEN [adm[a] EXCEPT !.resposta = x]
                                                  ELSE adm[c]
  <2> HIDE DEF x
  <2> QED BY <1>1, <1>2, <1>6
<1>8. /\ adm' \in [ADMs -> Estado] /\ adm'[b] = r.adm
      /\ \A c \in ADMs \ {b} : adm'[c] = respondido[c]
  <2> HIDE DEF respondido
  <2> QED BY <1>1, <1>3, <1>4, <1>7
<1>9. ASSUME NEW c \in ADMs \ {b}
      PROVE  /\ adm'[c].lider = adm[c].lider
             /\ adm'[c].ativos = adm[c].ativos
             /\ adm[c].resposta => adm'[c].resposta
             /\ c = a /\ c \in vivos /\ b > c => adm'[c].resposta
  <2> HIDE DEF respondido
  <2>1. CASE c = a
    <3>1. adm'[c] = [adm[c] EXCEPT !.resposta = x]
      BY <1>7, <1>8, <2>1
    <3> QED BY <1>1, <1>2, <2>1, <3>1 DEF Estado
  <2>2. CASE c # a
    BY <1>7, <1>8, <2>2
  <2> QED BY <2>1, <2>2
<1> QED BY <1>1, <1>2, <1>5, <1>8, <1>9 DEF r

\* A step of a coroutine in an election
LEMMA PassoBase ==
    ASSUME Base, NEW a \in ADMs, NEW t \in Tarefas,
           Passo(a, t) \/ PerderChamada(a, t) \/ VencerTarde(a, t) \/ PerderAnuncio(a, t)
    PROVE  Base'
<1>1. /\ a \in vivos /\ vivos \subseteq ADMs
      /\ adm \in [ADMs -> Estado] /\ silencio \in [ADMs -> SUBSET ADMs] /\ adm[a] \in Estado
  BY DEF Base, TypeOK, Passo, ChamarMaior, Responder, Desistir, Vencer, Anunciar,
         PerderChamada, VencerTarde, PerderAnuncio, Esta
<1>2. CASE ChamarMaior(a, t)
  BY <1>1, <1>2, ChamarEfeito, BaseFica DEF ChamarMaior, contadores
<1>3. CASE Responder(a, t)
  BY <1>1, <1>3, ResponderEfeito, BaseFica DEF Responder, contadores
<1>4. CASE Desistir(a, t)
  <2> DEFINE r == [adm |-> [adm[a] EXCEPT !.emEleicao = FALSE], tarefa |-> Livre]
  <2>1. r.adm \in Estado /\ Chegada(a, t, r.tarefa)
    BY <1>1 DEF Estado, Chegada
  <2>2. Mudar(a, t, r)
    BY <1>4 DEF Desistir
  <2> HIDE DEF r
  <2>3. TarefasOk' /\ adm' \in [ADMs -> Estado] /\ \A b \in ADMs \ vivos : tarefa'[b] = tarefa[b]
    BY <1>1, <2>1, <2>2, MudarEfeito
  <2> QED BY <1>1, <1>4, <2>3, BaseFica DEF Desistir, contadores
<1>5. CASE Vencer(a, t) \/ VencerTarde(a, t)
  <2>1. Mudar(a, t, TornarLider(a, adm[a]))
    BY <1>5 DEF Vencer, VencerTarde
  <2>2. TarefasOk' /\ adm' \in [ADMs -> Estado] /\ \A b \in ADMs \ vivos : tarefa'[b] = tarefa[b]
    BY <1>1, <2>1, TornarEfeito, MudarEfeito
  <2>3. UNCHANGED <<vivos, quedas, silencio>>
        /\ (UNCHANGED eventos \/ Acontecer("tardia", a))
    BY <1>5 DEF Vencer, VencerTarde, Acontecer, contadores
  <2> QED BY <1>1, <2>2, <2>3, BaseFica
<1>6. CASE Anunciar(a, t)
  <2>1. TarefasOk' /\ \A b \in ADMs \ vivos : tarefa'[b] = tarefa[b]
    BY <1>1, <1>6, RestamOk, IrEfeito DEF Anunciar
  <2>2. \A b \in ADMs : Aceitar(adm[b], a) \in Estado
    BY <1>1 DEF Estado, Aceitar
  <2>3. adm' \in [ADMs -> Estado]
    BY <1>1, <1>6, <2>2 DEF Anunciar
  <2> QED BY <1>1, <1>6, <2>1, <2>3, BaseFica DEF Anunciar, contadores
<1>7. CASE PerderChamada(a, t) \/ PerderAnuncio(a, t)
  <2>1. TarefasOk' /\ \A b \in ADMs \ vivos : tarefa'[b] = tarefa[b]
    BY <1>1, <1>7, RestamOk, IrEfeito DEF PerderChamada, PerderAnuncio
  <2>2. /\ UNCHANGED <<vivos, quedas, adm, silencio>> /\ Proximo(a, t) \in ADMs
        /\ \E tipo : Acontecer(tipo, Proximo(a, t))
    BY <1>1, <1>7 DEF PerderChamada, PerderAnuncio, Acontecer
  <2> QED BY <1>1, <2>1, <2>2, BaseFica
<1> QED BY <1>2, <1>3, <1>4, <1>5, <1>6, <1>7 DEF Passo

\* A request for an election by hand
LEMMA PedirBase ==
    ASSUME Base, NEW a \in ADMs, PedirEleicao(a)
    PROVE  Base'
<1> DEFINE t == Min(HandlersLivres(a))
<1>1. a \in vivos /\ adm[a] \in Estado /\ silencio \in [ADMs -> SUBSET ADMs]
  BY DEF Base, TypeOK, PedirEleicao
<1>2. t \in Tarefas
  BY HandlerLivre DEF PedirEleicao, Tarefas
<1>3. Mudar(a, t, IniciarEleicao(a, adm[a]))
  BY DEF PedirEleicao
<1> HIDE DEF t
<1>4. TarefasOk' /\ adm' \in [ADMs -> Estado] /\ \A b \in ADMs \ vivos : tarefa'[b] = tarefa[b]
  BY <1>1, <1>2, <1>3, IniciarEfeito, MudarEfeito
<1>5. UNCHANGED <<vivos, quedas, silencio>> /\ Acontecer("manual", a)
  BY DEF PedirEleicao, Acontecer
<1> QED BY <1>1, <1>4, <1>5, BaseFica

\* A crash takes the coroutines of the ADM with it, a restart brings back none.
LEMMA QuedaBase ==
    ASSUME Base, NEW a \in ADMs, Cair(a) \/ Voltar(a)
    PROVE  Base'
<1>1. /\ vivos \subseteq ADMs /\ adm \in [ADMs -> Estado]
      /\ silencio \in [ADMs -> SUBSET ADMs] /\ TarefasOk
      /\ tarefa \in [ADMs -> [Tarefas -> Tarefa]]
      /\ \A c \in ADMs, u \in Tarefas : BemPosta(c, u, tarefa[c][u])
      /\ quedas \in 0..MaxAbalos
  BY TipoPorTarefa DEF Base, Partes, TarefasOk
<1>2. IsFiniteSet(vivos)
  <2>1. IsFiniteSet(ADMs)
    BY FS_Interval, EleicaoAssumption DEF ADMs
  <2> QED BY <1>1, <2>1, FS_Subset
<1>3. \A b \in ADMs : Parado(b)' = Parado(b)
  BY DEF Parado, Repouso
<1>4. ASSUME Cair(a) PROVE Base'
  <2>1. /\ vivos' = vivos \ {a} /\ tarefa' = [tarefa EXCEPT ![a] = Parado(a)]
        /\ quedas' = quedas + 1 /\ UNCHANGED <<adm, silencio, eventos>>
        /\ 2 * Cardinality(vivos \ {a}) > N /\ quedas + Cardinality(eventos) < MaxAbalos
    BY <1>4 DEF Cair, Abalos
  <2>2. Cardinality(eventos) \in Nat
    BY FS_CardinalityType DEF Base
  <2>3. quedas' \in 0..MaxAbalos
    BY <1>1, <2>1, <2>2, EleicaoAssumption
  <2>4. Parado(a) \in [Tarefas -> Tarefa] /\ \A u \in Tarefas : BemPosta(a, u, Parado(a)[u])
    BY ParadoOk, EleicaoAssumption DEF Tarefas
  <2>5. /\ tarefa' \in [ADMs -> [Tarefas -> Tarefa]]
        /\ \A b \in ADMs : tarefa'[b] = IF b = a THEN Parado(a) ELSE tarefa[b]
    BY <1>1, <2>1, <2>4
  <2>6. \A c \in ADMs, u \in Tarefas : BemPosta(c, u, tarefa'[c][u])
    BY <1>1, <2>4, <2>5
  <2>7. Partes'
    BY <1>1, <2>1, <2>3, <2>5, <2>6 DEF Base, TypeOK, Partes, TarefasOk, BemPosta
  <2>8. TypeOK'
    BY <2>7, TipoPorTarefa, PTL
  <2> QED BY <1>3, <2>1, <2>5, <2>8 DEF Base
<1>5. ASSUME Voltar(a) PROVE Base'
  <2>1. /\ vivos' = vivos \cup {a} /\ adm' = [adm EXCEPT ![a] = EstadoInicial]
        /\ silencio' = [silencio EXCEPT ![a] = {}] /\ a \notin vivos
        /\ UNCHANGED <<tarefa, quedas, eventos>>
    BY <1>5 DEF Voltar, contadores
  <2>2. EstadoInicial \in Estado
    BY EleicaoAssumption DEF EstadoInicial, Estado, ADMs
  <2>3. TypeOK'
    BY <1>1, <2>1, <2>2 DEF Base, TypeOK
  <2>4. 2 * Cardinality(vivos') > N
    <3>1. Cardinality(vivos') = Cardinality(vivos) + 1
      BY <1>2, <2>1, FS_AddElement
    <3>2. Cardinality(vivos) \in Nat /\ 2 * Cardinality(vivos) > N /\ N \in Nat
      BY <1>2, FS_CardinalityType, EleicaoAssumption DEF Base
    <3> QED BY <3>1, <3>2
  <2> QED BY <1>3, <2>1, <2>3, <2>4 DEF Base
<1> QED BY <1>4, <1>5

\* Base is inductive, whoever restarts and whatever happens.
LEMMA PassoIndutivoBase == Base /\ [Next]_vars => Base'
<1> SUFFICES ASSUME Base, [Next]_vars PROVE Base'
  OBVIOUS
<1>1. ASSUME NEW a \in ADMs, NEW b \in ADMs, Silenciar(a, b) \/ Suspeitar(a, b) PROVE Base'
  <2>1. /\ TarefasOk /\ adm \in [ADMs -> Estado] /\ silencio \in [ADMs -> SUBSET ADMs]
        /\ silencio' = [silencio EXCEPT ![a] = @ \cup {b}]
        /\ UNCHANGED <<vivos, quedas, adm, tarefa>>
        /\ UNCHANGED eventos \/ Acontecer("suspeita", b)
    BY <1>1, TipoPorTarefa
    DEF Silenciar, Suspeitar, Acontecer, contadores, Base, Partes
  <2>2. TarefasOk'
    BY <2>1 DEF TarefasOk, BemPosta
  <2>3. adm' \in [ADMs -> Estado] /\ silencio' \in [ADMs -> SUBSET ADMs]
    BY <2>1
  <2> QED BY <2>1, <2>2, <2>3, BaseFica
<1>2. CASE UNCHANGED vars
  BY <1>2 DEF vars, Base, TypeOK, Parado, Repouso
<1>3. CASE Next
  BY <1>1, <1>3, CicloBase, PassoBase, PedirBase, QuedaBase DEF Next, Falha
<1> QED BY <1>2, <1>3

\* Every ADM has its state and every coroutine stands where its kind can, through any
\* elections, crashes, restarts and events.
THEOREM TipoDaEleicao == Spec => []TypeOK
<1>1. Base => TypeOK
  BY DEF Base
<1> QED BY <1>1, InicioBase, PassoIndutivoBase, PTL DEF Spec

-----------------------------------------------------------------------------
(* One leader at a time *)

\* What eleicao_reinicio shows to be needed: an ADM that restarts, and then takes the
\* highest id for the leader, has an id too low to be the highest of a majority.
SoMenoresVoltam == \A b \in PodemVoltar : 2 * b <= N

\* The running ADMs that never restart
Firmes == vivos \ PodemVoltar

MaisAlto(a) == \A b \in vivos : b <= a

Procura(a) == \E t \in Tarefas : tarefa[a][t].fase \in {"chamando", "aguardando"}
Anuncia(a) == \E t \in Tarefas : tarefa[a][t].fase = "anunciando"

\* An answer of m has reached a, is being sent, or will be: a has m to call yet.
SeraOuvido(a, m) ==
    \/ adm[a].resposta
    \/ \E t \in Tarefas : tarefa[a][t].fase = "chamando" /\ m \in tarefa[a][t].faltam
    \/ \E t \in Handlers : tarefa[m][t] = Respondendo(a)

\* What holds of a running ADM: it takes for active every ADM that runs from the
\* start, an election of its own will hear of each of these above it, it announces
\* itself only if it is the highest, and the leader it follows is no lower.
OrdemDe(a) ==
    /\ Firmes \subseteq adm[a].ativos /\ silencio[a] \cap Firmes = {}
    /\ Procura(a) => \A m \in Firmes : m > a => SeraOuvido(a, m)
    /\ Anuncia(a) => MaisAlto(a)
    /\ \A b \in vivos : adm[a].lider >= b

Ordem == \A a \in vivos : OrdemDe(a)

\* The invariant: one event of another kind suffices for Ordem to fail.
IInv == Base /\ (Apenas({"anuncio"}) => Ordem)

\* Who is no lower than any ADM that runs from the start is the highest: those that
\* restart are below the highest of a majority.
LEMMA MaximoFirme ==
    ASSUME Base, SoMenoresVoltam
    PROVE  /\ vivos \subseteq ADMs /\ ADMs \subseteq Nat
           /\ \E w \in vivos : \A b \in PodemVoltar : b < w
           /\ \A a \in vivos : (\A m \in Firmes : m <= a) => MaisAlto(a)
<1>1. vivos \subseteq ADMs /\ N \in Nat /\ 2 * Cardinality(vivos) > N /\ PodemVoltar \subseteq ADMs
  BY EleicaoAssumption DEF Base, TypeOK
<1>2. \E w \in vivos : 2 * w > N
  <2> SUFFICES ASSUME \A w \in vivos : 2 * w <= N PROVE FALSE
    BY <1>1 DEF ADMs
  <2> DEFINE h == N \div 2
  <2>1. h \in Nat /\ 2 * h <= N /\ vivos \subseteq 1..h
    BY <1>1 DEF ADMs
  <2>2. IsFiniteSet(1..h) /\ Cardinality(1..h) = h
    BY <2>1, FS_Interval
  <2> HIDE DEF h
  <2>3. IsFiniteSet(vivos) /\ Cardinality(vivos) <= h
    BY <2>1, <2>2, FS_Subset
  <2>4. Cardinality(vivos) \in Nat
    BY <2>3, FS_CardinalityType
  <2> QED BY <1>1, <2>1, <2>3, <2>4
<1>3. PICK w \in vivos : 2 * w > N
  BY <1>2
<1>4. \A b \in PodemVoltar : b < w
  BY <1>1, <1>3 DEF SoMenoresVoltam, ADMs
<1>5. ASSUME NEW a \in vivos, \A m \in Firmes : m <= a PROVE MaisAlto(a)
  <2>1. w \in Firmes
    BY <1>1, <1>4 DEF Firmes, ADMs
  <2> QED BY <1>1, <1>4, <1>5, <2>1 DEF Firmes, MaisAlto, ADMs
<1> QED BY <1>1, <1>4, <1>5 DEF ADMs

\* A step after which c has every coroutine that it had to call with, no other in an
\* election or an announcement, and the answers that it was to hear.
Conserva(c) ==
    /\ UNCHANGED vivos
    /\ Firmes \subseteq adm'[c].ativos /\ silencio'[c] \cap Firmes = {}
    /\ \A b \in vivos : adm'[c].lider >= b
    /\ adm[c].resposta => adm'[c].resposta
    /\ Procura(c)' => Procura(c)
    /\ Anuncia(c)' => Anuncia(c)
    /\ \A t \in Tarefas : tarefa[c][t].fase = "chamando" => tarefa'[c][t] = tarefa[c][t]
    /\ \A m \in Firmes, t \in Handlers :
           m > c /\ tarefa[m][t] = Respondendo(c) =>
               tarefa'[m][t] = Respondendo(c) \/ adm'[c].resposta

\* Such a step disturbs nothing of what holds of c.
LEMMA ConservaOrdem ==
    ASSUME NEW c \in vivos, OrdemDe(c), Conserva(c)
    PROVE  OrdemDe(c)'
<1>1. Firmes' = Firmes /\ MaisAlto(c)' = MaisAlto(c)
  BY DEF Conserva, Firmes, MaisAlto
<1>2. ASSUME Procura(c)', NEW m \in Firmes, m > c PROVE SeraOuvido(c, m)'
  <2>1. SeraOuvido(c, m)
    BY <1>2 DEF Conserva, OrdemDe
  <2> QED BY <1>2, <2>1 DEF Conserva, SeraOuvido, Respondendo
<1> QED BY <1>1, <1>2 DEF OrdemDe, Conserva

\* An election that begins at a calls every ADM above it that runs from the start; a
\* leads at once only without any.
LEMMA IniciarOrdem ==
    ASSUME Base, SoMenoresVoltam, UNCHANGED vivos, NEW a \in vivos, OrdemDe(a),
           NEW t \in Tarefas, NEW e \in Estado, NEW r, r = IniciarEleicao(a, e),
           Firmes \subseteq e.ativos, silencio'[a] \cap Firmes = {},
           e.lider = adm[a].lider, e.resposta = adm[a].resposta,
           tarefa[a][t].fase \notin {"chamando", "aguardando", "anunciando"},
           adm'[a] = r.adm,
           \A c \in ADMs, u \in Tarefas :
               tarefa'[c][u] = IF c = a /\ u = t THEN Onde(a, t, r.tarefa) ELSE tarefa[c][u]
    PROVE  OrdemDe(a)'
<1>1. /\ vivos \subseteq ADMs /\ ADMs \subseteq Nat
      /\ (\A m \in Firmes : m <= a) => MaisAlto(a)
  BY MaximoFirme
<1>2. Firmes' = Firmes /\ MaisAlto(a)' = MaisAlto(a)
  BY DEF Firmes, MaisAlto
<1>3. \A m \in Firmes : m > a => m \in Maiores(a, e)
  BY DEF Maiores
<1>4. \A b \in vivos : adm[a].lider >= b
  BY DEF OrdemDe
<1>5. adm'[a].ativos = e.ativos
  BY <1>1, IniciarEfeito
<1>6. \A u \in Tarefas : tarefa'[a][u] = IF u = t THEN Onde(a, t, r.tarefa) ELSE tarefa[a][u]
  BY <1>1
<1>7. Repouso(a, t).fase \in {"livre", "batendo"}
  BY DEF Repouso, Livre, Batendo
<1>8. CASE r.tarefa = Livre /\ r.adm = e
  <2>1. Onde(a, t, r.tarefa) = Repouso(a, t)
    BY <1>8 DEF Onde, Livre
  <2>2. Procura(a)' => Procura(a)
    BY <1>6, <1>7, <2>1 DEF Procura
  <2>3. Anuncia(a)' => Anuncia(a)
    BY <1>6, <1>7, <2>1 DEF Anuncia
  <2>4. \A m \in Firmes, u \in Handlers : m > a => tarefa'[m][u] = tarefa[m][u]
    BY <1>1 DEF Firmes, Handlers, Tarefas
  <2>5. \A u \in Tarefas : tarefa[a][u].fase = "chamando" => tarefa'[a][u] = tarefa[a][u]
    BY <1>6
  <2>6. Conserva(a)
    BY <1>4, <1>5, <1>8, <2>2, <2>3, <2>4, <2>5 DEF Conserva
  <2> QED BY <2>6, ConservaOrdem
<1>9. CASE r.tarefa = Anunciando(Menores(a, e)) /\ r.adm.lider = a /\ Maiores(a, e) = {}
  <2>1. ASSUME NEW m \in Firmes PROVE m <= a
    <3>1. m \in Nat /\ a \in Nat
      BY <1>1 DEF Firmes
    <3>2. ~ (m > a)
      BY <1>3, <1>9
    <3> QED BY <3>1, <3>2
  <2>2. MaisAlto(a)
    BY <1>1, <2>1
  <2>3. \A m \in Firmes : ~ (m > a)
    BY <1>3, <1>9
  <2>4. \A b \in vivos : adm'[a].lider >= b
    BY <1>1, <1>9, <2>2 DEF MaisAlto
  <2> QED BY <1>2, <1>5, <2>2, <2>3, <2>4 DEF OrdemDe
<1>10. CASE /\ r.tarefa = Chamando(Maiores(a, e)) /\ r.adm.lider = e.lider
            /\ Maiores(a, e) # {}
  <2>1. Onde(a, t, r.tarefa) = Chamando(Maiores(a, e))
    BY <1>10 DEF Onde, Chamando, Livre
  <2>2. tarefa'[a][t].fase = "chamando" /\ tarefa'[a][t].faltam = Maiores(a, e)
    BY <1>6, <2>1 DEF Chamando
  <2>3. \A m \in Firmes : m > a => SeraOuvido(a, m)'
    BY <1>3, <2>2 DEF SeraOuvido
  <2>4. Anuncia(a)' => Anuncia(a)
    BY <1>6, <2>2 DEF Anuncia
  <2> QED BY <1>2, <1>4, <1>5, <1>10, <2>3, <2>4 DEF OrdemDe
<1>11. \/ r.tarefa = Livre /\ r.adm = e
       \/ r.tarefa = Anunciando(Menores(a, e)) /\ r.adm.lider = a /\ Maiores(a, e) = {}
       \/ /\ r.tarefa = Chamando(Maiores(a, e)) /\ r.adm.lider = e.lider
          /\ Maiores(a, e) # {}
  BY <1>1, IniciarEfeito
<1> QED BY <1>8, <1>9, <1>10, <1>11

\* The facts of Base and Ordem that the steps use.
LEMMA FatosDaOrdem ==
    ASSUME Base, Ordem
    PROVE  /\ vivos \subseteq ADMs /\ ADMs \subseteq Nat
           /\ \A c \in ADMs : adm[c] \in Estado
           /\ \A c \in vivos : OrdemDe(c)
           /\ Monitor \in Tarefas /\ Handlers \subseteq Tarefas
           /\ Firmes \subseteq vivos
BY EleicaoAssumption DEF Base, TypeOK, Ordem, ADMs, Tarefas, Firmes

\* A keep-alive makes an ADM active, not silent.
LEMMA BaterOrdem ==
    ASSUME Base, Ordem, NEW a \in ADMs, BaterKeepAlive(a)
    PROVE  Ordem'
<1>1. /\ a \in vivos /\ UNCHANGED vivos /\ tarefa[a][Monitor].fase = "batendo"
      /\ Ir(a, Monitor, Batendo(Restam(a, Monitor)))
  BY DEF BaterKeepAlive, Esta
<1>2. /\ tarefa \in [ADMs -> [Tarefas -> Tarefa]] /\ silencio \in [ADMs -> SUBSET ADMs]
      /\ adm \in [ADMs -> Estado]
  BY DEF Base, TypeOK
<1>3. Onde(a, Monitor, Batendo(Restam(a, Monitor))) = Batendo(Restam(a, Monitor))
  BY DEF Onde, Batendo, Livre
<1>4. \A c \in ADMs, u \in Tarefas :
          tarefa'[c][u] = IF c = a /\ u = Monitor THEN Batendo(Restam(a, Monitor))
                                                  ELSE tarefa[c][u]
  BY <1>1, <1>2, <1>3, FatosDaOrdem DEF Ir
<1>5. ASSUME NEW c \in vivos
      PROVE  /\ adm[c].ativos \subseteq adm'[c].ativos /\ silencio'[c] \subseteq silencio[c]
             /\ adm'[c].lider = adm[c].lider /\ adm'[c].resposta = adm[c].resposta
  <2>1. c \in ADMs /\ adm[c] \in Estado
    BY FatosDaOrdem
  <2>2. CASE Proximo(a, Monitor) \notin vivos
    BY <2>2 DEF BaterKeepAlive
  <2>3. ASSUME NEW b \in vivos, b = Proximo(a, Monitor)
        PROVE  /\ adm[c].ativos \subseteq adm'[c].ativos /\ silencio'[c] \subseteq silencio[c]
               /\ adm'[c].lider = adm[c].lider /\ adm'[c].resposta = adm[c].resposta
    <3>1. /\ adm' = [adm EXCEPT ![b].ativos = @ \cup {a}]
          /\ silencio' = [silencio EXCEPT ![b] = @ \ {a}]
      BY <2>3 DEF BaterKeepAlive
    <3> QED BY <1>2, <2>1, <3>1 DEF Estado
  <2> QED BY <2>2, <2>3
<1>6. ASSUME NEW c \in vivos PROVE OrdemDe(c)'
  <2>1. OrdemDe(c) /\ c \in ADMs
    BY FatosDaOrdem
  <2>2. (Procura(c)' => Procura(c)) /\ (Anuncia(c)' => Anuncia(c))
    BY <1>4, <2>1 DEF Procura, Anuncia, Batendo
  <2>3. \A t \in Tarefas : tarefa[c][t].fase = "chamando" => tarefa'[c][t] = tarefa[c][t]
    BY <1>1, <1>4, <2>1
  <2>4. \A m \in Firmes, t \in Handlers : tarefa'[m][t] = tarefa[m][t]
    BY <1>4, FatosDaOrdem, EleicaoAssumption DEF Handlers, Monitor
  <2>5. Conserva(c)
    BY <1>1, <1>5, <2>1, <2>2, <2>3, <2>4 DEF Conserva, OrdemDe
  <2> QED BY <2>1, <2>5, ConservaOrdem
<1> QED BY <1>1, <1>6 DEF Ordem

\* What a coroutine t of a does to the other ADMs, when it changes only a
LEMMA OutrosOrdem ==
    ASSUME Base, Ordem, UNCHANGED <<vivos, silencio>>, NEW a \in vivos, NEW t \in Tarefas,
           \A b \in ADMs \ {a} : adm'[b] = adm[b],
           \A b \in ADMs \ {a}, u \in Tarefas : tarefa'[b][u] = tarefa[b][u],
           \A u \in Tarefas \ {t} : tarefa'[a][u] = tarefa[a][u],
           tarefa[a][t].fase # "respondendo",
           NEW c \in vivos \ {a}
    PROVE  OrdemDe(c)'
<1>1. OrdemDe(c) /\ c \in ADMs /\ vivos \subseteq ADMs /\ Firmes \subseteq vivos
  BY FatosDaOrdem
<1>2. Procura(c)' = Procura(c) /\ Anuncia(c)' = Anuncia(c)
  BY <1>1 DEF Procura, Anuncia
<1>3. \A m \in Firmes, u \in Handlers :
          tarefa[m][u] = Respondendo(c) => tarefa'[m][u] = Respondendo(c)
  BY <1>1, FatosDaOrdem DEF Respondendo
<1>4. Conserva(c)
  BY <1>1, <1>2, <1>3 DEF Conserva, OrdemDe
<1> QED BY <1>1, <1>4, ConservaOrdem

\* The monitor forgets only ADMs that are down or have restarted, and suspects only a
\* leader that is down.
LEMMA MonitorarOrdem ==
    ASSUME Base, SoMenoresVoltam, Ordem, NEW a \in ADMs, Monitorar(a)
    PROVE  Ordem'
<1> DEFINE e == Expirado(a)
<1>1. /\ a \in vivos /\ UNCHANGED <<vivos, silencio>>
      /\ tarefa[a][Monitor].fase = "batendo"
  BY DEF Monitorar, Esta
<1>2. /\ OrdemDe(a) /\ adm[a] \in Estado /\ Monitor \in Tarefas /\ vivos \subseteq ADMs
      /\ Firmes \subseteq vivos /\ Handlers \subseteq Tarefas /\ ADMs \subseteq Nat
  BY <1>1, FatosDaOrdem
<1>3. /\ e \in Estado /\ SemLider(e) \in Estado
      /\ e.lider = adm[a].lider /\ SemLider(e).lider = adm[a].lider
      /\ e.resposta = adm[a].resposta /\ SemLider(e).resposta = adm[a].resposta
      /\ e.ativos = adm[a].ativos \ (silencio[a] \ {a})
      /\ SemLider(e).ativos = e.ativos \ {e.lider}
  BY <1>2, MonitorarEfeito DEF SemLider, Estado
<1>4. Firmes \subseteq e.ativos
  BY <1>2, <1>3 DEF OrdemDe
<1>5. LiderCaiu(a, e) => Firmes \subseteq SemLider(e).ativos
  BY <1>2, <1>3, <1>4 DEF LiderCaiu, OrdemDe
<1> HIDE DEF e
<1>6. PICK r : /\ Mudar(a, Monitor, r)
               /\ \/ r = IniciarEleicao(a, SemLider(e)) /\ LiderCaiu(a, e)
                  \/ r = [adm |-> e, tarefa |-> Livre]
  BY <1>2, MonitorarEfeito DEF e
<1>7. r.adm \in Estado /\ Chegada(a, Monitor, r.tarefa)
  BY <1>2, <1>3, <1>6, IniciarEfeito DEF Chegada
<1>8. /\ \A b \in ADMs, u \in Tarefas :
             tarefa'[b][u] = IF b = a /\ u = Monitor THEN Onde(a, Monitor, r.tarefa)
                                                     ELSE tarefa[b][u]
      /\ \A b \in ADMs : adm'[b] = IF b = a THEN r.adm ELSE adm[b]
  BY <1>1, <1>2, <1>6, <1>7, MudarEfeito
<1>9. \A c \in vivos \ {a} : OrdemDe(c)'
  BY <1>1, <1>2, <1>8, OutrosOrdem
<1>10. silencio'[a] \cap Firmes = {}
  BY <1>1, <1>2 DEF OrdemDe
<1>11. ASSUME r = IniciarEleicao(a, SemLider(e)), LiderCaiu(a, e) PROVE OrdemDe(a)'
  <2>1. adm'[a] = r.adm /\ Firmes \subseteq SemLider(e).ativos /\ r = IniciarEleicao(a, SemLider(e))
    BY <1>5, <1>8, <1>11
  <2> QED BY <1>1, <1>2, <1>3, <1>8, <1>10, <2>1, IniciarOrdem
<1>12. ASSUME r = [adm |-> e, tarefa |-> Livre] PROVE OrdemDe(a)'
  <2>1. adm'[a] = e /\ tarefa'[a][Monitor] = Repouso(a, Monitor)
    BY <1>2, <1>8, <1>12 DEF Onde, Livre
  <2>2. Repouso(a, Monitor).fase = "batendo"
    BY DEF Repouso, Batendo
  <2>3. (Procura(a)' => Procura(a)) /\ (Anuncia(a)' => Anuncia(a))
    BY <1>1, <1>8, <2>1, <2>2 DEF Procura, Anuncia
  <2>4. \A u \in Tarefas : tarefa[a][u].fase = "chamando" => tarefa'[a][u] = tarefa[a][u]
    BY <1>1, <1>8
  <2>5. \A m \in Firmes, u \in Handlers : m > a => tarefa'[m][u] = tarefa[m][u]
    <3>1. \A m \in Firmes : m \in ADMs /\ (m > a => m # a)
      BY <1>2
    <3> QED BY <1>2, <1>8, <3>1
  <2>6. Conserva(a)
    BY <1>1, <1>2, <1>3, <1>4, <1>10, <2>1, <2>3, <2>4, <2>5 DEF Conserva, OrdemDe
  <2> QED BY <1>1, <1>2, <2>6, ConservaOrdem
<1>13. OrdemDe(a)'
  BY <1>6, <1>11, <1>12
<1> QED BY <1>1, <1>9, <1>13 DEF Ordem

\* A call is answered, or went to an ADM that is down.
LEMMA ChamarOrdem ==
    ASSUME Base, Ordem, NEW a \in ADMs, NEW t \in Tarefas, ChamarMaior(a, t)
    PROVE  Ordem'
<1> DEFINE x == Onde(a, t, Chamando(Restam(a, t)))
<1>1. /\ a \in vivos /\ UNCHANGED <<vivos, adm, silencio>>
      /\ tarefa[a][t].fase = "chamando" /\ vivos \subseteq ADMs /\ ADMs \subseteq Nat
      /\ Firmes \subseteq vivos /\ Handlers \subseteq Tarefas
      /\ \A c \in vivos : OrdemDe(c)
  BY FatosDaOrdem DEF ChamarMaior, Esta
<1>2. x.fase \in {"chamando", "aguardando"}
      /\ (x.fase = "chamando" => x.faltam = Restam(a, t))
      /\ (x.fase = "aguardando" => Restam(a, t) = {})
  BY DEF Onde, Chamando, Aguardando, Livre
<1> HIDE DEF x
<1>3. \/ /\ Proximo(a, t) \notin vivos
         /\ \A c \in ADMs, u \in Tarefas :
                tarefa'[c][u] = IF c = a /\ u = t THEN x ELSE tarefa[c][u]
      \/ \E b \in vivos, h \in Handlers :
             /\ b = Proximo(a, t) /\ tarefa[b][h] = Livre
             /\ \A c \in ADMs, u \in Tarefas :
                    tarefa'[c][u] = IF c = b /\ u = h THEN Respondendo(a)
                                    ELSE IF c = a /\ u = t THEN x ELSE tarefa[c][u]
  BY ChamarEfeito DEF x
<1>4. /\ \A c \in ADMs, u \in Tarefas :
             ~ (c = a /\ u = t) =>
                 \/ tarefa'[c][u] = tarefa[c][u]
                 \/ tarefa[c][u] = Livre /\ tarefa'[c][u] = Respondendo(a)
      /\ tarefa'[a][t] = x
      /\ Proximo(a, t) \in vivos =>
             \E h \in Handlers : tarefa'[Proximo(a, t)][h] = Respondendo(a)
  <2>1. CASE Proximo(a, t) \notin vivos
    BY <1>1, <1>3, <2>1
  <2>2. ASSUME NEW b \in vivos, NEW h \in Handlers, b = Proximo(a, t), tarefa[b][h] = Livre,
               \A c \in ADMs, u \in Tarefas :
                   tarefa'[c][u] = IF c = b /\ u = h THEN Respondendo(a)
                                   ELSE IF c = a /\ u = t THEN x ELSE tarefa[c][u]
        PROVE  /\ \A c \in ADMs, u \in Tarefas :
                      ~ (c = a /\ u = t) =>
                          \/ tarefa'[c][u] = tarefa[c][u]
                          \/ tarefa[c][u] = Livre /\ tarefa'[c][u] = Respondendo(a)
               /\ tarefa'[a][t] = x
               /\ tarefa'[b][h] = Respondendo(a)
    <3>1. ~ (a = b /\ t = h)
      BY <1>1, <2>2 DEF Livre
    <3> QED BY <1>1, <2>2, <3>1
  <2> QED BY <1>3, <2>1, <2>2
<1>5. ASSUME NEW c \in vivos PROVE OrdemDe(c)'
  <2>1. OrdemDe(c) /\ c \in ADMs
    BY <1>1
  <2>2. Anuncia(c)' => Anuncia(c)
    BY <1>2, <1>4, <2>1 DEF Anuncia, Respondendo
  <2>3. Procura(c)' => Procura(c)
    BY <1>1, <1>4, <2>1 DEF Procura, Respondendo
  <2>4. ASSUME NEW m \in Firmes, m > c, NEW u \in Handlers, tarefa[m][u] = Respondendo(c)
        PROVE  tarefa'[m][u] = Respondendo(c)
    BY <1>1, <1>4, <2>4 DEF Respondendo, Livre
  <2>5. CASE c # a
    <3>1. \A u \in Tarefas : tarefa[c][u].fase = "chamando" => tarefa'[c][u] = tarefa[c][u]
      BY <1>4, <2>1, <2>5 DEF Livre
    <3>2. Conserva(c)
      BY <1>1, <2>1, <2>2, <2>3, <2>4, <3>1 DEF Conserva, OrdemDe
    <3> QED BY <2>1, <3>2, ConservaOrdem
  <2>6. CASE c = a
    <3>1. ASSUME NEW m \in Firmes, m > a PROVE SeraOuvido(a, m)'
      <4>1. SeraOuvido(a, m)
        BY <1>1, <3>1 DEF OrdemDe, Procura
      <4>2. CASE adm[a].resposta
        BY <1>1, <4>2 DEF SeraOuvido
      <4>3. CASE \E u \in Handlers : tarefa[m][u] = Respondendo(a)
        BY <2>4, <2>6, <3>1, <4>3 DEF SeraOuvido, Respondendo
      <4>4. ASSUME NEW u \in Tarefas, tarefa[a][u].fase = "chamando",
                   m \in tarefa[a][u].faltam
            PROVE  SeraOuvido(a, m)'
        <5>1. CASE u # t
          <6>1. tarefa'[a][u] = tarefa[a][u]
            BY <1>1, <1>4, <4>4, <5>1 DEF Livre
          <6> QED BY <4>4, <6>1 DEF SeraOuvido
        <5>2. CASE u = t /\ m = Proximo(a, t)
          BY <1>1, <1>4, <5>2 DEF SeraOuvido, Respondendo
        <5>3. CASE u = t /\ m # Proximo(a, t)
          <6>1. m \in Restam(a, t)
            BY <4>4, <5>3 DEF Restam
          <6> QED BY <1>2, <1>4, <6>1 DEF SeraOuvido
        <5> QED BY <5>1, <5>2, <5>3
      <4> QED BY <4>1, <4>2, <4>3, <4>4 DEF SeraOuvido
    <3>2. Firmes' = Firmes /\ MaisAlto(a)' = MaisAlto(a)
      BY <1>1 DEF Firmes, MaisAlto
    <3> QED BY <1>1, <2>1, <2>2, <2>6, <3>1, <3>2 DEF OrdemDe
  <2> QED BY <2>5, <2>6
<1> QED BY <1>1, <1>5 DEF Ordem

\* The answer is heard, and the election that b begins calls those above it.
LEMMA ResponderOrdem ==
    ASSUME Base, SoMenoresVoltam, Ordem, NEW b \in ADMs, NEW t \in Tarefas, Responder(b, t)
    PROVE  Ordem'
<1> DEFINE r == IniciarEleicao(b, adm[b])
<1>1. /\ b \in vivos /\ UNCHANGED <<vivos, silencio>>
      /\ tarefa[b][t].fase = "respondendo" /\ vivos \subseteq ADMs /\ ADMs \subseteq Nat
      /\ Firmes \subseteq vivos /\ Handlers \subseteq Tarefas
      /\ \A c \in vivos : OrdemDe(c)
      /\ adm[b] \in Estado
  BY FatosDaOrdem DEF Responder, Esta
<1>2. PICK a \in ADMs :
          /\ tarefa[b][t] = Respondendo(a)
          /\ adm'[b] = r.adm
          /\ \A c \in ADMs, u \in Tarefas :
                 tarefa'[c][u] = IF c = b /\ u = t THEN Onde(b, t, r.tarefa) ELSE tarefa[c][u]
          /\ \A c \in ADMs \ {b} :
                 /\ adm'[c].lider = adm[c].lider
                 /\ adm'[c].ativos = adm[c].ativos
                 /\ adm[c].resposta => adm'[c].resposta
                 /\ c = a /\ c \in vivos /\ b > c => adm'[c].resposta
  BY ResponderEfeito
<1> HIDE DEF r
<1>3. OrdemDe(b)'
  <2>1. Firmes \subseteq adm[b].ativos /\ silencio'[b] \cap Firmes = {}
    BY <1>1 DEF OrdemDe
  <2> QED BY <1>1, <1>2, <2>1, IniciarOrdem DEF r
<1>4. ASSUME NEW c \in vivos \ {b} PROVE OrdemDe(c)'
  <2>1. OrdemDe(c) /\ c \in ADMs
    BY <1>1
  <2>2. Procura(c)' = Procura(c) /\ Anuncia(c)' = Anuncia(c)
    BY <1>2, <2>1 DEF Procura, Anuncia
  <2>3. ASSUME NEW m \in Firmes, NEW u \in Handlers, m > c, tarefa[m][u] = Respondendo(c)
        PROVE  tarefa'[m][u] = Respondendo(c) \/ adm'[c].resposta
    <3>1. CASE m = b /\ u = t
      <4>1. c = a
        BY <1>2, <2>3, <3>1 DEF Respondendo
      <4> QED BY <1>2, <2>1, <2>3, <3>1, <4>1
    <3>2. CASE ~ (m = b /\ u = t)
      BY <1>1, <1>2, <2>3, <3>2
    <3> QED BY <3>1, <3>2
  <2>4. \A u \in Tarefas : tarefa[c][u].fase = "chamando" => tarefa'[c][u] = tarefa[c][u]
    BY <1>2, <2>1
  <2>5. Conserva(c)
    BY <1>1, <1>2, <2>1, <2>2, <2>3, <2>4 DEF Conserva, OrdemDe
  <2> QED BY <2>1, <2>5, ConservaOrdem
<1> QED BY <1>1, <1>3, <1>4 DEF Ordem

\* Who has heard an answer gives up.
LEMMA DesistirOrdem ==
    ASSUME Base, Ordem, NEW a \in ADMs, NEW t \in Tarefas, Desistir(a, t)
    PROVE  Ordem'
<1> DEFINE r == [adm |-> [adm[a] EXCEPT !.emEleicao = FALSE], tarefa |-> Livre]
<1>1. /\ a \in vivos /\ UNCHANGED <<vivos, silencio>> /\ tarefa[a][t].fase = "aguardando"
      /\ adm[a].resposta /\ adm[a] \in Estado /\ OrdemDe(a) /\ Mudar(a, t, r)
      /\ vivos \subseteq ADMs
  BY FatosDaOrdem DEF Desistir, Esta
<1>2. /\ r.adm \in Estado /\ Chegada(a, t, r.tarefa)
      /\ r.adm.lider = adm[a].lider /\ r.adm.ativos = adm[a].ativos
      /\ r.adm.resposta = adm[a].resposta /\ r.tarefa = Livre
  BY <1>1 DEF Estado, Chegada
<1> HIDE DEF r
<1>3. /\ \A c \in ADMs, u \in Tarefas :
             tarefa'[c][u] = IF c = a /\ u = t THEN Repouso(a, t) ELSE tarefa[c][u]
      /\ \A c \in ADMs : adm'[c] = IF c = a THEN r.adm ELSE adm[c]
  BY <1>1, <1>2, MudarEfeito DEF Onde, Livre
<1>4. \A c \in vivos \ {a} : OrdemDe(c)'
  BY <1>1, <1>3, OutrosOrdem
<1>5. OrdemDe(a)'
  <2>1. Repouso(a, t).fase \in {"livre", "batendo"}
    BY DEF Repouso, Livre, Batendo
  <2>2. (Procura(a)' => Procura(a)) /\ (Anuncia(a)' => Anuncia(a))
    BY <1>1, <1>3, <2>1 DEF Procura, Anuncia
  <2>3. \A u \in Tarefas : tarefa[a][u].fase = "chamando" => tarefa'[a][u] = tarefa[a][u]
    BY <1>1, <1>3
  <2>4. adm'[a].resposta /\ adm'[a].lider = adm[a].lider /\ adm'[a].ativos = adm[a].ativos
    BY <1>1, <1>2, <1>3
  <2>5. Conserva(a)
    BY <1>1, <2>2, <2>3, <2>4 DEF Conserva, OrdemDe
  <2> QED BY <1>1, <2>5, ConservaOrdem
<1> QED BY <1>1, <1>4, <1>5 DEF Ordem

\* Who waits in vain is the highest: of a higher one it would hear.
LEMMA VencerOrdem ==
    ASSUME Base, SoMenoresVoltam, Ordem, NEW a \in ADMs, NEW t \in Tarefas, Vencer(a, t)
    PROVE  Ordem'
<1> DEFINE r == TornarLider(a, adm[a])
<1>1. /\ a \in vivos /\ UNCHANGED <<vivos, silencio>> /\ tarefa[a][t].fase = "aguardando"
      /\ adm[a] \in Estado /\ OrdemDe(a) /\ Mudar(a, t, r)
      /\ vivos \subseteq ADMs /\ Firmes \subseteq vivos /\ ADMs \subseteq Nat
  BY FatosDaOrdem DEF Vencer, Esta
<1>2. ~adm[a].resposta /\ ~RespostaACaminho(a)
  BY DEF Vencer, SemResposta
<1>3. ASSUME NEW m \in Firmes, m > a PROVE FALSE
  <2>1. SeraOuvido(a, m)
    BY <1>1, <1>3 DEF OrdemDe, Procura
  <2> QED BY <1>1, <1>2, <2>1 DEF SeraOuvido, RespostaACaminho
<1>4. MaisAlto(a)
  <2>1. \A m \in Firmes : m <= a
    BY <1>1, <1>3
  <2> QED BY <1>1, <2>1, MaximoFirme
<1>5. /\ r.adm \in Estado /\ Chegada(a, t, r.tarefa)
      /\ r.adm.lider = a /\ r.adm.ativos = adm[a].ativos
  BY <1>1, TornarEfeito
<1> HIDE DEF r
<1>6. /\ \A c \in ADMs, u \in Tarefas :
             tarefa'[c][u] = IF c = a /\ u = t THEN Onde(a, t, r.tarefa) ELSE tarefa[c][u]
      /\ \A c \in ADMs : adm'[c] = IF c = a THEN r.adm ELSE adm[c]
  BY <1>1, <1>5, MudarEfeito
<1>7. \A c \in vivos \ {a} : OrdemDe(c)'
  BY <1>1, <1>6, OutrosOrdem
<1>8. OrdemDe(a)'
  <2>1. Firmes' = Firmes /\ MaisAlto(a)'
    BY <1>1, <1>4 DEF Firmes, MaisAlto
  <2>2. \A m \in Firmes : ~ (m > a)
    BY <1>3
  <2>3. \A b \in vivos : adm'[a].lider >= b
    BY <1>1, <1>4, <1>5, <1>6 DEF MaisAlto
  <2> QED BY <1>1, <1>5, <1>6, <2>1, <2>2, <2>3 DEF OrdemDe
<1> QED BY <1>1, <1>7, <1>8 DEF Ordem

\* Who announces itself is the highest, whoever is reached.
LEMMA AnunciarOrdem ==
    ASSUME Base, Ordem, NEW a \in ADMs, NEW t \in Tarefas,
           Anunciar(a, t) \/ PerderAnuncio(a, t)
    PROVE  Ordem'
<1> DEFINE x == Onde(a, t, Anunciando(Restam(a, t)))
<1>1. /\ a \in vivos /\ UNCHANGED <<vivos, silencio>> /\ Esta(a, t, "anunciando")
      /\ Ir(a, t, Anunciando(Restam(a, t)))
      /\ vivos \subseteq ADMs /\ ADMs \subseteq Nat /\ Firmes \subseteq vivos
      /\ Handlers \subseteq Tarefas /\ OrdemDe(a)
      /\ adm \in [ADMs -> Estado]
  BY FatosDaOrdem DEF Anunciar, PerderAnuncio, Acontecer, Esta, Base, TypeOK
<1>2. Chegada(a, t, Anunciando(Restam(a, t)))
  BY <1>1, RestamOk
<1>3. \A c \in ADMs, u \in Tarefas :
          tarefa'[c][u] = IF c = a /\ u = t THEN x ELSE tarefa[c][u]
  <2> HIDE DEF x
  <2> QED BY <1>1, <1>2, IrEfeito DEF x
<1>4. x.fase \in {"anunciando", "livre", "batendo"}
  BY DEF Onde, Anunciando, Livre, Repouso, Batendo
<1> HIDE DEF x
<1>5. MaisAlto(a)
  BY <1>1 DEF OrdemDe, Anuncia, Esta
<1>6. ASSUME NEW c \in vivos
      PROVE  /\ adm'[c].ativos = adm[c].ativos /\ adm'[c].resposta = adm[c].resposta
             /\ \A b \in vivos : adm'[c].lider >= b
  <2>1. OrdemDe(c) /\ adm[c] \in Estado
    BY FatosDaOrdem, <1>1
  <2>2. CASE adm'[c] = adm[c]
    BY <2>1, <2>2 DEF OrdemDe
  <2>3. CASE adm'[c] = Aceitar(adm[c], a)
    <3>1. /\ adm'[c].ativos = adm[c].ativos /\ adm'[c].resposta = adm[c].resposta
          /\ adm'[c].lider = a
      BY <2>1, <2>3 DEF Aceitar, Estado
    <3> QED BY <1>1, <1>5, <3>1 DEF MaisAlto
  <2>4. adm'[c] = adm[c] \/ adm'[c] = Aceitar(adm[c], a)
    BY <1>1 DEF Anunciar, PerderAnuncio
  <2> QED BY <2>2, <2>3, <2>4
<1>7. ASSUME NEW c \in vivos PROVE OrdemDe(c)'
  <2>1. OrdemDe(c) /\ c \in ADMs
    BY <1>1, FatosDaOrdem
  <2>2. (Procura(c)' => Procura(c)) /\ (Anuncia(c)' => Anuncia(c))
    BY <1>1, <1>3, <1>4, <2>1 DEF Procura, Anuncia, Esta
  <2>3. \A u \in Tarefas : tarefa[c][u].fase = "chamando" => tarefa'[c][u] = tarefa[c][u]
    BY <1>1, <1>3, <2>1 DEF Esta
  <2>4. \A m \in Firmes, u \in Handlers :
            tarefa[m][u] = Respondendo(c) => tarefa'[m][u] = tarefa[m][u]
    BY <1>1, <1>3 DEF Esta, Respondendo
  <2>5. Conserva(c)
    BY <1>1, <1>6, <2>1, <2>2, <2>3, <2>4 DEF Conserva, OrdemDe
  <2> QED BY <2>1, <2>5, ConservaOrdem
<1> QED BY <1>1, <1>7 DEF Ordem

\* An election asked for by hand is like any other.
LEMMA PedirOrdem ==
    ASSUME Base, SoMenoresVoltam, Ordem, NEW a \in ADMs, PedirEleicao(a)
    PROVE  Ordem'
<1> DEFINE t == Min(HandlersLivres(a))
           r == IniciarEleicao(a, adm[a])
<1>1. /\ a \in vivos /\ UNCHANGED <<vivos, silencio>> /\ Mudar(a, t, r)
      /\ adm[a] \in Estado /\ OrdemDe(a) /\ vivos \subseteq ADMs
  BY FatosDaOrdem DEF PedirEleicao, Acontecer
<1>2. t \in Tarefas /\ tarefa[a][t].fase = "livre"
  BY HandlerLivre DEF PedirEleicao, Tarefas, Livre
<1> HIDE DEF t, r
<1>3. r.adm \in Estado /\ Chegada(a, t, r.tarefa)
  BY <1>1, <1>2, IniciarEfeito DEF r
<1>4. /\ \A c \in ADMs, u \in Tarefas :
             tarefa'[c][u] = IF c = a /\ u = t THEN Onde(a, t, r.tarefa) ELSE tarefa[c][u]
      /\ \A c \in ADMs : adm'[c] = IF c = a THEN r.adm ELSE adm[c]
  BY <1>1, <1>2, <1>3, MudarEfeito
<1>5. \A c \in vivos \ {a} : OrdemDe(c)'
  BY <1>1, <1>2, <1>4, OutrosOrdem
<1>6. OrdemDe(a)'
  <2>1. Firmes \subseteq adm[a].ativos /\ silencio'[a] \cap Firmes = {} /\ adm'[a] = r.adm
    BY <1>1, <1>4 DEF OrdemDe
  <2> QED BY <1>1, <1>2, <1>4, <2>1, IniciarOrdem DEF r
<1> QED BY <1>1, <1>5, <1>6 DEF Ordem

\* Only an ADM that does not run becomes silent.
LEMMA SilenciarOrdem ==
    ASSUME Base, Ordem, NEW a \in ADMs, NEW b \in ADMs, Silenciar(a, b)
    PROVE  Ordem'
<1>1. /\ UNCHANGED <<vivos, adm, tarefa>> /\ b \notin vivos
      /\ silencio' = [silencio EXCEPT ![a] = @ \cup {b}]
      /\ silencio \in [ADMs -> SUBSET ADMs] /\ Firmes \subseteq vivos
  BY FatosDaOrdem DEF Silenciar, Base, TypeOK
<1>2. ASSUME NEW c \in vivos PROVE OrdemDe(c)'
  <2>1. OrdemDe(c) /\ c \in ADMs
    BY FatosDaOrdem
  <2>2. silencio'[c] \cap Firmes = {}
    BY <1>1, <2>1 DEF OrdemDe
  <2> QED BY <1>1, <2>1, <2>2
      DEF OrdemDe, Firmes, MaisAlto, Procura, Anuncia, SeraOuvido, Respondendo
<1> QED BY <1>1, <1>2 DEF Ordem

\* A crash makes nobody higher, and the ADM that restarts is below the highest.
LEMMA QuedaOrdem ==
    ASSUME Base, SoMenoresVoltam, Ordem, NEW a \in ADMs, Cair(a) \/ Voltar(a)
    PROVE  Ordem'
<1>1. /\ vivos \subseteq ADMs /\ ADMs \subseteq Nat /\ Firmes \subseteq vivos
      /\ tarefa \in [ADMs -> [Tarefas -> Tarefa]] /\ silencio \in [ADMs -> SUBSET ADMs]
      /\ adm \in [ADMs -> Estado] /\ Handlers \subseteq Tarefas
  BY FatosDaOrdem DEF Base, TypeOK
<1>2. ASSUME Cair(a), NEW c \in vivos \ {a} PROVE OrdemDe(c)'
  <2>1. /\ vivos' = vivos \ {a} /\ tarefa' = [tarefa EXCEPT ![a] = Parado(a)]
        /\ UNCHANGED <<adm, silencio>> /\ OrdemDe(c) /\ c \in ADMs
    BY <1>2, FatosDaOrdem DEF Cair
  <2>2. tarefa'[c] = tarefa[c] /\ \A m \in Firmes' : tarefa'[m] = tarefa[m]
    BY <1>1, <2>1 DEF Firmes
  <2>3. Firmes' \subseteq Firmes /\ vivos' \subseteq vivos
    BY <2>1 DEF Firmes
  <2> QED BY <2>1, <2>2, <2>3
      DEF OrdemDe, MaisAlto, Procura, Anuncia, SeraOuvido, Respondendo
<1>3. ASSUME Voltar(a), NEW c \in vivos \cup {a} PROVE OrdemDe(c)'
  <2>1. /\ vivos' = vivos \cup {a} /\ a \in PodemVoltar /\ a \notin vivos
        /\ adm' = [adm EXCEPT ![a] = EstadoInicial]
        /\ silencio' = [silencio EXCEPT ![a] = {}] /\ tarefa' = tarefa
    BY <1>3 DEF Voltar, contadores
  <2>2. Firmes' = Firmes
    BY <2>1 DEF Firmes
  <2>3. PICK w \in vivos : a < w
    BY <2>1, MaximoFirme
  <2>4. CASE c = a
    <3>1. adm'[a] = EstadoInicial /\ silencio'[a] = {} /\ tarefa'[a] = Parado(a)
      BY <1>1, <2>1 DEF Base
    <3>2. ~Procura(a)' /\ ~Anuncia(a)'
      BY <3>1, ParadoOk DEF Procura, Anuncia
    <3>3. Firmes \subseteq adm'[a].ativos /\ \A b \in vivos' : adm'[a].lider >= b
      BY <1>1, <2>1, <3>1, EleicaoAssumption DEF EstadoInicial, ADMs
    <3> QED BY <2>2, <2>4, <3>1, <3>2, <3>3 DEF OrdemDe
  <2>5. CASE c # a
    <3>1. OrdemDe(c) /\ c \in ADMs /\ adm'[c] = adm[c] /\ silencio'[c] = silencio[c]
          /\ adm[c] \in Estado
      BY <1>1, <1>3, <2>1, <2>5, FatosDaOrdem
    <3>2. \A b \in vivos' : adm'[c].lider >= b
      <4>1. \A b \in vivos : adm[c].lider >= b
        BY <3>1 DEF OrdemDe
      <4>2. adm[c].lider \in Nat /\ w \in Nat /\ a \in Nat /\ adm[c].lider >= w
        BY <1>1, <3>1, <4>1 DEF Estado
      <4>3. adm[c].lider >= a
        BY <2>3, <4>2
      <4> QED BY <2>1, <3>1, <4>1, <4>3
    <3>3. MaisAlto(c) => MaisAlto(c)'
      BY <1>1, <2>1, <2>3, <3>1 DEF MaisAlto
    <3>4. /\ Procura(c)' = Procura(c) /\ Anuncia(c)' = Anuncia(c)
          /\ \A m \in Firmes : SeraOuvido(c, m)' = SeraOuvido(c, m)
      BY <2>1, <3>1 DEF Procura, Anuncia, SeraOuvido, Respondendo
    <3> QED BY <2>2, <3>1, <3>2, <3>3, <3>4 DEF OrdemDe
  <2> QED BY <2>4, <2>5
<1> QED BY <1>2, <1>3 DEF Ordem, Cair, Voltar

\* Every ADM starts with the highest one as its leader.
LEMMA InicioOrdem == Init => IInv
<1> SUFFICES ASSUME Init PROVE Ordem
  BY InicioBase DEF IInv
<1>1. /\ vivos = ADMs /\ adm = [c \in ADMs |-> EstadoInicial]
      /\ silencio = [c \in ADMs |-> {}] /\ tarefa = [c \in ADMs |-> Parado(c)]
  BY DEF Init
<1>2. ASSUME NEW c \in ADMs PROVE OrdemDe(c)
  <2>1. adm[c] = EstadoInicial /\ silencio[c] = {} /\ tarefa[c] = Parado(c)
    BY <1>1
  <2>2. ~Procura(c) /\ ~Anuncia(c)
    BY <2>1, ParadoOk DEF Procura, Anuncia
  <2> QED BY <1>1, <2>1, <2>2, EleicaoAssumption DEF OrdemDe, EstadoInicial, Firmes, ADMs
<1> QED BY <1>1, <1>2 DEF Ordem

\* Events stay, and every other step but a crash and a restart leaves the processes alone.
LEMMA EventosFicam ==
    ASSUME [Next]_vars
    PROVE  /\ eventos \subseteq eventos'
           /\ vivos' = vivos \/ \E a \in ADMs : Cair(a) \/ Voltar(a)
<1>1. \A tipo, b : Acontecer(tipo, b) => eventos \subseteq eventos' /\ vivos' = vivos
  BY DEF Acontecer
<1>2. \A a \in ADMs : Ciclo(a) => UNCHANGED <<eventos, vivos>>
  BY DEF Ciclo, BaterKeepAlive, Monitorar, contadores
<1>3. \A a \in ADMs, t \in Tarefas : Passo(a, t) => UNCHANGED <<eventos, vivos>>
  BY DEF Passo, ChamarMaior, Responder, Desistir, Vencer, Anunciar, contadores
<1>4. \A a \in ADMs : Falha(a) \/ PedirEleicao(a) => eventos \subseteq eventos' /\ vivos' = vivos
  BY <1>1 DEF Falha, PerderChamada, VencerTarde, PerderAnuncio, Suspeitar, PedirEleicao
<1>5. \A a, b \in ADMs : Silenciar(a, b) => UNCHANGED <<eventos, vivos>>
  BY DEF Silenciar, contadores
<1>6. \A a \in ADMs : Cair(a) \/ Voltar(a) => UNCHANGED eventos
  BY DEF Cair, Voltar, contadores
<1> QED BY <1>2, <1>3, <1>4, <1>5, <1>6 DEF Next, vars

\* A step with none of the other events, before or in it
LEMMA PassoOrdem ==
    ASSUME Base, SoMenoresVoltam, Ordem, Apenas({"anuncio"})', [Next]_vars
    PROVE  Ordem'
<1>1. \A tipo, b : Acontecer(tipo, b) => tipo \in {"anuncio", "manual"}
  <2> SUFFICES ASSUME NEW tipo, NEW b, Acontecer(tipo, b)
               PROVE  tipo \in {"anuncio", "manual"}
    OBVIOUS
  <2>1. Evento(tipo, b) \in eventos' /\ Evento(tipo, b).tipo = tipo
    BY DEF Acontecer, Evento
  <2>2. \A f \in eventos' : f.tipo \in {"anuncio", "manual"}
    BY DEF Apenas
  <2> QED BY <2>1, <2>2
<1>2. /\ \A a \in ADMs, t \in Tarefas : ~PerderChamada(a, t) /\ ~VencerTarde(a, t)
      /\ \A a, b \in ADMs : ~Suspeitar(a, b)
  BY <1>1 DEF PerderChamada, VencerTarde, Suspeitar
<1>3. CASE UNCHANGED vars
  BY <1>3 DEF vars, Ordem, OrdemDe, Firmes, MaisAlto, Procura, Anuncia, SeraOuvido,
              Respondendo
<1>4. ASSUME NEW a \in ADMs, NEW t \in Tarefas, Passo(a, t) PROVE Ordem'
  BY <1>4, ChamarOrdem, ResponderOrdem, DesistirOrdem, VencerOrdem, AnunciarOrdem DEF Passo
<1>5. ASSUME NEW a \in ADMs, Ciclo(a) PROVE Ordem'
  BY <1>5, BaterOrdem, MonitorarOrdem DEF Ciclo
<1>6. ASSUME NEW a \in ADMs, Falha(a) PROVE Ordem'
  <2>1. PICK t \in Tarefas : PerderAnuncio(a, t)
    BY <1>2, <1>6 DEF Falha
  <2> QED BY <2>1, AnunciarOrdem
<1> QED BY <1>3, <1>4, <1>5, <1>6, SilenciarOrdem, PedirOrdem, QuedaOrdem DEF Next

\* The invariant is inductive.
LEMMA PassoIndutivo ==
    ASSUME SoMenoresVoltam, IInv, [Next]_vars
    PROVE  IInv'
<1>1. Apenas({"anuncio"})' => Apenas({"anuncio"})
  <2>1. eventos \subseteq eventos'
    BY EventosFicam
  <2> QED BY <2>1 DEF Apenas
<1>2. Base'
  BY PassoIndutivoBase DEF IInv
<1>3. ASSUME Apenas({"anuncio"})' PROVE Ordem'
  BY <1>1, <1>3, PassoOrdem DEF IInv
<1> QED BY <1>2, <1>3 DEF IInv

\* Two running ADMs never both take themselves for the leader, in any cluster and at
\* any moment of any elections, crashes, restarts and lost announcements, as long as no
\* running ADM is suspected and no call or answer misses its time-out.
THEOREM UmLiderPorVez ==
    ASSUME SoMenoresVoltam
    PROVE  Spec => []UmLider
<1>1. IInv => UmLider
  <2> SUFFICES ASSUME IInv, Apenas({"anuncio"}), NEW a \in ADMs, NEW b \in ADMs,
                      SouLider(a), SouLider(b)
               PROVE  a = b
    BY DEF UmLider
  <2>1. a >= b /\ b >= a
    BY DEF IInv, Ordem, OrdemDe, SouLider
  <2> QED BY <2>1 DEF ADMs
<1>2. IInv /\ [Next]_vars => IInv'
  BY PassoIndutivo
<1> QED BY <1>1, <1>2, InicioOrdem, PTL DEF Spec

\* An ADM takes over only as the highest that runs, when the leader it followed is down,
\* although _tornar_lider itself asks for neither.
THEOREM SucessaoSempreCorreta ==
    ASSUME SoMenoresVoltam
    PROVE  Spec => SucessaoCorreta
<1> DEFINE Legitima == \A a \in ADMs :
               /\ adm[a].lider # a /\ adm'[a].lider = a
               /\ a \in vivos /\ a \in vivos'
               /\ Apenas({"anuncio"})'
             => adm[a].lider \notin vivos /\ \A b \in vivos : b <= a
<1>1. IInv /\ IInv' /\ [Next]_vars => [Legitima]_vars
  <2> SUFFICES ASSUME IInv, IInv', Next, Apenas({"anuncio"})', NEW a \in ADMs,
                      adm[a].lider # a, adm'[a].lider = a, a \in vivos, a \in vivos'
               PROVE  adm[a].lider \notin vivos /\ \A b \in vivos : b <= a
    BY DEF vars
  <2>1. vivos' = vivos
    <3>1. ASSUME NEW c \in ADMs, Cair(c) \/ Voltar(c) PROVE FALSE
      <4>1. adm'[a] = adm[a]
        BY <3>1 DEF Cair, Voltar, IInv, Base, TypeOK
      <4> QED BY <4>1
    <3> QED BY <3>1, EventosFicam
  <2>2. Ordem /\ Ordem'
    BY EventosFicam DEF IInv, Apenas
  <2>3. /\ \A b \in vivos : adm[a].lider >= b /\ a >= b
        /\ vivos \subseteq ADMs /\ ADMs \subseteq Nat /\ adm[a].lider \in ADMs
    BY <2>1, <2>2, FatosDaOrdem DEF IInv, Ordem, OrdemDe, Estado
  <2>4. ASSUME adm[a].lider \in vivos PROVE FALSE
    <3>1. /\ adm[a].lider \in Nat /\ a \in Nat
          /\ adm[a].lider >= a /\ a >= adm[a].lider
      BY <2>3, <2>4
    <3> QED BY <3>1
  <2> QED BY <2>3, <2>4
<1>2. IInv /\ [Next]_vars => IInv'
  BY PassoIndutivo
<1> QED BY <1>1, <1>2, InicioOrdem, PTL DEF Spec, SucessaoCorreta

==============================================================================
