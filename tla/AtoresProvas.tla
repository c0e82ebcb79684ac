---------------------------- MODULE AtoresProvas ----------------------------
(***************************************************************************)
(* What EntregadorProvas proves of the drivers and the ADM leader holds    *)
(* with customers and a restaurant around them, whatever their requests    *)
(* do: every step of the whole system is a step of Entregador or writes    *)
(* nothing there but that an order is prepared.  Then the types of the     *)
(* parties, and that an order the restaurant remembers as prepared is.     *)
(***************************************************************************)
EXTENDS Atores, EntregadorProvas

-----------------------------------------------------------------------------
(* What the other parties do to the drivers and to the ADM *)

\* An order is prepared, or nothing happens to it; requests may fail and the
\* restaurant crash.
SoPrepara ==
    /\ \/ UNCHANGED estado
       \/ \E p \in Pedidos : Existe(estado, p) /\ estado' = Preparar(estado, p)
    /\ UNCHANGED <<ativos, usados, mudancas, ligados, memoria, tarefa, correio, iniciais>>
    /\ falhas' \in falhas..MaxFalhas
    /\ quedas' \in quedas..MaxQuedas

\* A step of the whole system is one of Entregador, or at most prepares an order.
LEMMA PassoDeTodos ==
    ASSUME TypeOK, [NextAtores]_tudo
    PROVE  [Next]_vars \/ SoPrepara
<1>1. /\ falhas \in 0..MaxFalhas /\ quedas \in 0..MaxQuedas
      /\ MaxFalhas \in Nat /\ MaxQuedas \in Nat
  BY EntregadorAssumption DEF TypeOK
<1>2. /\ falhas \in falhas..MaxFalhas /\ quedas \in quedas..MaxQuedas
      /\ falhas < MaxFalhas => falhas + 1 \in falhas..MaxFalhas
      /\ quedas < MaxQuedas => quedas + 1 \in quedas..MaxQuedas
  BY <1>1
<1>3. ASSUME NEW p \in Pedidos, Criado(p) \/ Confirmado(p) PROVE Next
  BY <1>3 DEF Criado, Confirmado, Next
<1>4. ASSUME NEW p \in Pedidos, Cliente(p) PROVE [Next]_vars \/ SoPrepara
  <2>1. CASE CriarFalha(p)
    BY <1>2, <2>1 DEF CriarFalha, SoPrepara, adm, processo
  <2>2. CASE Assinar(p) \/ Rastrear(p) \/ Encerrar(p)
    BY <2>2 DEF Assinar, Rastrear, Encerrar
  <2> QED BY <1>4, <2>1, <2>2 DEF Cliente
<1>5. ASSUME NEW p \in DoRestaurante, Cozinha(p) PROVE SoPrepara
  <2>1. p \in Pedidos
    BY AtoresAssumption
  <2>2. CASE PrepararPedido(p)
    BY <1>2, <2>1, <2>2 DEF PrepararPedido, SoPrepara, processo
  <2>3. CASE PrepararFalha(p)
    BY <1>2, <2>1, <2>3 DEF PrepararFalha, SoPrepara, processo
  <2> QED BY <1>5, <2>2, <2>3 DEF Cozinha
<1>6. CASE Abrir
  BY <1>6 DEF Abrir
<1>7. CASE Fechar
  BY <1>2, <1>7 DEF Fechar, SoPrepara, adm
<1>8. CASE Resto
  BY <1>8 DEF Resto, Next
<1>9. CASE UNCHANGED tudo
  BY <1>9 DEF tudo
<1> QED BY <1>3, <1>4, <1>5, <1>6, <1>7, <1>8, <1>9 DEF NextAtores

\* A prepared order is where it was, with the driver and the tracker it had.
LEMMA PreparoNaoMuda ==
    ASSUME TypeOK, SoPrepara
    PROVE  /\ estado' \in Estado
           /\ Coerente(estado) => Coerente(estado')
           /\ estado'.semEntregador = estado.semEntregador
           /\ estado'.mapa = estado.mapa
           /\ \A s \in Pedidos :
                  /\ Existe(estado, s)' <=> Existe(estado, s)
                  /\ ComEntregador(estado, s)' <=> ComEntregador(estado, s)
                  /\ Existe(estado, s) =>
                         estado'.pedidos[s].entregador = estado.pedidos[s].entregador
<1>1. estado \in Estado
  BY DEF TypeOK
<1>2. CASE UNCHANGED estado
  BY <1>1, <1>2 DEF Existe, ComEntregador
<1>3. ASSUME NEW p \in Pedidos, Existe(estado, p), estado' = Preparar(estado, p)
      PROVE  /\ estado' \in Estado
             /\ Coerente(estado) => Coerente(estado')
             /\ estado'.semEntregador = estado.semEntregador
             /\ estado'.mapa = estado.mapa
             /\ \A s \in Pedidos :
                    /\ Existe(estado', s) <=> Existe(estado, s)
                    /\ ComEntregador(estado', s) <=> ComEntregador(estado, s)
                    /\ Existe(estado, s) =>
                           estado'.pedidos[s].entregador = estado.pedidos[s].entregador
  BY <1>1, <1>3, PrepararTipo, PrepararCoerente, PrepararEfeito
<1> QED BY <1>2, <1>3 DEF SoPrepara, Existe, ComEntregador

\* Who carries what is as before.
LEMMA PreparoCarrega ==
    ASSUME SoPrepara, NEW d \in Processos, NEW s \in Pedidos
    PROVE  Carrega(d, s)' <=> Carrega(d, s)
BY DEF SoPrepara, Carrega

\* So the invariants of EntregadorProvas are kept: the owner of each order,
LEMMA PreparoIInv == IInv /\ SoPrepara => IInv'
<1> SUFFICES ASSUME IInv, SoPrepara PROVE IInv'
  OBVIOUS
<1>1. /\ falhas \in 0..MaxFalhas /\ quedas \in 0..MaxQuedas
      /\ MaxFalhas \in Nat /\ MaxQuedas \in Nat
  BY EntregadorAssumption DEF IInv, TypeOK
<1>2. falhas' \in 0..MaxFalhas /\ quedas' \in 0..MaxQuedas
  BY <1>1 DEF SoPrepara
<1>3. TypeOK'
  BY <1>2, PreparoNaoMuda DEF IInv, TypeOK, SoPrepara
<1>4. Coerente(estado') /\ FilaSemDono'
  <2>1. \A p \in estado.semEntregador : p \in Pedidos /\ Existe(estado, p)
    BY DEF IInv, TypeOK, Estado, Donos, Coerente
  <2> QED BY <2>1, PreparoNaoMuda DEF IInv, Donos, FilaSemDono
<1>5. SoCriados' /\ EntregaDoDono'
  <2>1. usados' = usados
    BY DEF SoPrepara
  <2> QED BY <2>1, PreparoNaoMuda, PreparoCarrega
          DEF IInv, Donos, SoCriados, EntregaDoDono
<1> QED BY <1>3, <1>4, <1>5 DEF IInv, Donos

\* that no order is orphaned,
LEMMA PreparoJInv == JInv /\ SoPrepara => JInv'
<1> SUFFICES ASSUME JInv, SoPrepara PROVE JInv'
  OBVIOUS
<1>1. TypeOK /\ IInv'
  BY PreparoIInv DEF JInv, IInv
<1>2. SemVolta'
  <2>1. /\ correio' = correio /\ usados' = usados
        /\ \A d \in Processos : correio[d].confirmada \subseteq Pedidos
    BY <1>1 DEF SoPrepara, TypeOK, Correio
  <2> QED BY <1>1, <2>1, PreparoNaoMuda, PreparoCarrega DEF JInv, SemVolta
<1>3. EntregaAssumida'
  <2>1. falhas' = 0 /\ quedas' = 0 => falhas = 0 /\ quedas = 0
    BY <1>1 DEF TypeOK, SoPrepara
  <2> QED BY <1>1, <2>1, PreparoNaoMuda, PreparoCarrega DEF JInv, EntregaAssumida
<1> QED BY <1>1, <1>2, <1>3 DEF JInv

\* and where its positions go.
LEMMA PreparoKInv == KInv /\ SoPrepara => KInv'
<1> SUFFICES ASSUME KInv, SoPrepara PROVE KInv'
  OBVIOUS
<1>1. TypeOK /\ IInv'
  BY PreparoIInv DEF KInv, IInv
<1>2. UNCHANGED <<ligados, memoria, tarefa, correio, iniciais, usados>>
  BY DEF SoPrepara
<1>3. Parados' /\ Iniciada'
  BY <1>2 DEF KInv, Parados, Iniciada
<1>4. ASSUME NEW q \in Processos, NEW s \in Pedidos PROVE AvisoOk(q, s)' /\ RotaOk(q, s)'
  <2>1. /\ AvisoOk(q, s) /\ RotaOk(q, s)
        /\ Existe(estado, s)' <=> Existe(estado, s)
        /\ ComEntregador(estado, s)' <=> ComEntregador(estado, s)
        /\ estado'.mapa[s] = estado.mapa[s]
    BY <1>1, <1>4, PreparoNaoMuda DEF KInv
  <2> QED BY <1>2, <2>1, AvisoMantido, RotaMantida
<1> QED BY <1>1, <1>3, <1>4 DEF KInv

-----------------------------------------------------------------------------
(* Preparation *)

\* What is true of an order in the ADM from a step on: it does not come back and,
\* once prepared, stays so.
Dura(p) == Existe(estado, p)' =>
               /\ Existe(estado, p)
               /\ estado.pedidos[p].preparado => estado'.pedidos[p].preparado

\* No step of the system takes the preparation of an order back.
LEMMA PreparoDura ==
    ASSUME IInv, [Next]_vars \/ SoPrepara, NEW s \in usados
    PROVE  s \in usados' /\ Dura(s)
<1>1. /\ estado \in Estado /\ ativos \in SUBSET Rastreadores /\ ativos # {}
      /\ usados \subseteq Pedidos /\ s \in Pedidos
      /\ \A p \in estado.semEntregador : p \in Pedidos /\ Existe(estado, p)
  BY DEF IInv, TypeOK, Estado, Donos, Coerente
<1>2. CASE UNCHANGED <<estado, usados>>
  BY <1>2 DEF Dura, Existe
<1>3. ASSUME NEW p \in estado.semEntregador, NEW d \in Entregadores,
             estado' = Aceitar(estado, p, d, ativos), usados' = usados
      PROVE  s \in usados' /\ Dura(s)
  <2>1. /\ Existe(estado', s) <=> Existe(estado, s)
        /\ estado'.pedidos[s].preparado = estado.pedidos[s].preparado
    BY <1>1, <1>3, AceitarEfeito, AceitarPreparo
  <2> QED BY <1>3, <2>1 DEF Dura, Existe
<1>4. ASSUME NEW p \in Pedidos, CriarPedido(p) PROVE s \in usados' /\ Dura(s)
  <2>1. p # s /\ estado' = Criar(estado, p) /\ usados' = usados \cup {p}
    BY <1>4 DEF CriarPedido
  <2>2. estado'.pedidos[s] = estado.pedidos[s]
    BY <1>1, <2>1, CriarEfeito
  <2> QED BY <2>1, <2>2 DEF Dura, Existe
<1>5. ASSUME NEW p \in Pedidos, ConfirmarEntrega(p) PROVE s \in usados' /\ Dura(s)
  <2>1. estado' = Confirmar(estado, p) /\ usados' = usados
    BY <1>5 DEF ConfirmarEntrega
  <2>2. /\ s # p => estado'.pedidos[s] = estado.pedidos[s]
        /\ Existe(estado', s) => s # p
    BY <1>1, <2>1, ConfirmarEfeito
  <2> QED BY <2>1, <2>2 DEF Dura, Existe
<1>6. ASSUME NEW p \in Pedidos, NEW d \in Outros, AceitarOutro(p, d)
      PROVE  s \in usados' /\ Dura(s)
  BY <1>3, <1>6, EntregadorAssumption DEF AceitarOutro
<1>7. ASSUME NEW novos \in SUBSET Rastreadores, MudarRastreadores(novos)
      PROVE  s \in usados' /\ Dura(s)
  <2>1. PICK ps \in SUBSET Pedidos : estado' = Mover(estado, ps, novos)
    BY <1>7 DEF MudarRastreadores, Mapeados
  <2>2. novos # {} /\ usados' = usados
    BY <1>7 DEF MudarRastreadores
  <2>3. /\ Existe(estado', s) <=> Existe(estado, s)
        /\ Existe(estado, s) => estado'.pedidos[s].preparado = estado.pedidos[s].preparado
    BY <1>1, <2>1, <2>2, MoverEfeito, MoverPreparo
  <2> QED BY <2>2, <2>3 DEF Dura, Existe
<1>8. ASSUME NEW d \in Processos, NEW t \in Threads, Passo(d, t)
      PROVE  s \in usados' /\ Dura(s)
  <2>1. CASE \/ Consultar(d, t) \/ ConsultarSemLider(d, t) \/ Tentar(d, t)
             \/ IniciarEntrega(d, t)
    BY <1>2, <2>1 DEF Consultar, ConsultarSemLider, Tentar, IniciarEntrega, adm
  <2>2. CASE Pedir(d, t) \/ PedirComFalha(d, t)
    <3>1. /\ usados' = usados /\ d \in Entregadores
          /\ \/ estado' = estado
             \/ \E p \in estado.semEntregador : estado' = Aceitar(estado, p, d, ativos)
      BY <2>2 DEF Pedir, PedirComFalha, Processos
    <3> QED BY <1>2, <1>3, <3>1
  <2> QED BY <1>8, <2>1, <2>2 DEF Passo
<1>9. ASSUME NEW d \in Processos, Callback(d) \/ Ligar(d) \/ Cair(d)
      PROVE  s \in usados' /\ Dura(s)
  BY <1>2, <1>9 DEF Callback, PedidoDisponivel, EntregaConfirmada, RastreadorAtualizado,
                    Ligar, Cair, adm
<1>10. CASE SoPrepara
  <2>1. ASSUME NEW p \in Pedidos, Existe(estado, p), estado' = Preparar(estado, p)
        PROVE  Dura(s)
    <3>1. Existe(estado', s) <=> Existe(estado, s)
      BY <1>1, <2>1, PrepararEfeito
    <3>2. estado.pedidos[s].preparado => estado'.pedidos[s].preparado
      BY <1>1, <2>1, PrepararPreparo
    <3> QED BY <3>1, <3>2 DEF Dura, Existe
  <2> QED BY <1>2, <1>10, <2>1 DEF SoPrepara
<1>11. CASE UNCHANGED vars
  BY <1>2, <1>11 DEF vars
<1> QED BY <1>4, <1>5, <1>6, <1>7, <1>8, <1>9, <1>10, <1>11 DEF Next

-----------------------------------------------------------------------------
(* The restaurant and the customers *)

\* An order is announced to the restaurant, and its customer goes on.
LEMMA AnunciarTipo ==
    ASSUME TipoAtores, NEW p \in Pedidos, Anunciar(p)
    PROVE  /\ restaurante' \in Restaurante
           /\ ~restaurante'.ligado => restaurante' = Desligado
           /\ restaurante'.preparados = restaurante.preparados
           /\ perdidos' \subseteq Pedidos
<1>1. CASE restaurante.ligado
  <2>1. /\ restaurante' = [restaurante EXCEPT !.fila = @ \cup ({p} \cap DoRestaurante)]
        /\ perdidos' = perdidos
    BY <1>1 DEF Anunciar
  <2>2. /\ restaurante'.ligado /\ restaurante'.preparados = restaurante.preparados
        /\ restaurante' \in Restaurante
    BY <1>1, <2>1 DEF TipoAtores, Restaurante
  <2> QED BY <2>1, <2>2 DEF TipoAtores
<1>2. CASE ~restaurante.ligado
  BY <1>2 DEF Anunciar, TipoAtores
<1> QED BY <1>1, <1>2

\* An event is taken from the queue of the restaurant, which runs.
LEMMA ConsumirTipo ==
    ASSUME TipoAtores, NEW p \in DoRestaurante, NEW ps \in SUBSET {p}, Consumir(p, ps)
    PROVE  /\ restaurante' \in Restaurante
           /\ restaurante'.ligado
           /\ restaurante'.preparados = restaurante.preparados \cup ps
<1>1. /\ restaurante \in Restaurante /\ restaurante.ligado
      /\ restaurante' = [restaurante EXCEPT !.fila = @ \ {p}, !.preparados = @ \cup ps]
  BY DEF Consumir, TipoAtores, Desligado
<1> QED BY <1>1 DEF Restaurante

\* A customer goes on to another place.
LEMMA IrClienteTipo ==
    ASSUME TipoAtores, NEW p \in Pedidos, NEW lugar \in Lugares, IrCliente(p, lugar)
    PROVE  cliente' \in [Pedidos -> Lugares]
BY DEF IrCliente, TipoAtores

\* Every step keeps the types of the restaurant and the customers.
LEMMA PassoTipoAtores == TipoAtores /\ [NextAtores]_tudo => TipoAtores'
<1> SUFFICES ASSUME TipoAtores, [NextAtores]_tudo PROVE TipoAtores'
  OBVIOUS
<1>1. ASSUME NEW p \in Pedidos, Criado(p) PROVE TipoAtores'
  <2>1. Anunciar(p) /\ UNCHANGED <<cenario, tardios>>
    BY <1>1 DEF Criado
  <2>2. cliente' \in [Pedidos -> Lugares]
    BY <1>1, IrClienteTipo DEF Criado, TipoAtores, Lugares
  <2> QED BY <2>1, <2>2, AnunciarTipo DEF TipoAtores
<1>2. ASSUME NEW p \in Pedidos, Confirmado(p) \/ CriarFalha(p) \/ Rastrear(p) \/ Encerrar(p)
      PROVE  TipoAtores'
  <2>1. UNCHANGED <<cenario, restaurante, perdidos, tardios>>
    BY <1>2 DEF Confirmado, CriarFalha, Rastrear, Encerrar
  <2>2. UNCHANGED cliente \/ \E lugar \in Lugares : IrCliente(p, lugar)
    BY <1>2 DEF Confirmado, AvisarCliente, CriarFalha, Rastrear, Encerrar, Lugares
  <2>3. cliente' \in [Pedidos -> Lugares]
    BY <2>2, IrClienteTipo DEF TipoAtores
  <2> QED BY <2>1, <2>3 DEF TipoAtores
<1>3. ASSUME NEW p \in Pedidos, Assinar(p) PROVE TipoAtores'
  <2>1. /\ IrCliente(p, "esperando") /\ tardios' \subseteq Pedidos
        /\ UNCHANGED <<cenario, restaurante, perdidos>>
    BY <1>3 DEF Assinar, TipoAtores
  <2>2. cliente' \in [Pedidos -> Lugares]
    BY <2>1, IrClienteTipo DEF Lugares
  <2> QED BY <2>1, <2>2 DEF TipoAtores
<1>4. ASSUME NEW p \in DoRestaurante, Cozinha(p) PROVE TipoAtores'
  <2>1. PICK ps \in SUBSET {p} : Consumir(p, ps)
    BY <1>4 DEF Cozinha, PrepararPedido, PrepararFalha
  <2>2. /\ UNCHANGED <<cenario, cliente, tardios>>
        /\ perdidos' \subseteq Pedidos
    BY <1>4, AtoresAssumption DEF Cozinha, PrepararPedido, PrepararFalha, TipoAtores
  <2> QED BY <2>1, <2>2, ConsumirTipo DEF TipoAtores
<1>5. CASE Abrir
  <2>1. /\ restaurante' \in Restaurante /\ restaurante'.ligado
        /\ UNCHANGED <<cenario, cliente, perdidos, tardios>>
    BY <1>5 DEF Abrir, TipoAtores, Restaurante
  <2> QED BY <2>1 DEF TipoAtores
<1>6. CASE Fechar
  <2>1. /\ restaurante' = Desligado /\ Desligado \in Restaurante
        /\ perdidos' = perdidos \cup restaurante.fila
        /\ restaurante.fila \subseteq Pedidos
        /\ UNCHANGED <<cenario, cliente, tardios>>
    BY <1>6, AtoresAssumption DEF Fechar, Desligado, Restaurante, TipoAtores
  <2> QED BY <2>1 DEF TipoAtores
<1>7. CASE UNCHANGED atores
  BY <1>7 DEF atores, TipoAtores
<1> QED BY <1>1, <1>2, <1>3, <1>4, <1>5, <1>6, <1>7 DEF NextAtores, Cliente, tudo

\* The restaurant remembers only orders once created, and these are prepared.
Lembrados == restaurante.preparados \subseteq usados /\ PreparoLembrado

\* Remembered, an order stays prepared for as long as the ADM knows it: it is not
\* created again, and nobody who writes it meanwhile undoes that.
LEMMA PassoLembrado ==
    ASSUME IInv, TipoAtores, Lembrados, [NextAtores]_tudo
    PROVE  Lembrados'
<1>1. [Next]_vars \/ SoPrepara
  BY PassoDeTodos DEF IInv
<1>2. \A s \in usados : s \in usados' /\ Dura(s)
  BY <1>1, PreparoDura
<1>3. CASE restaurante'.preparados \subseteq restaurante.preparados
  BY <1>2, <1>3 DEF Lembrados, PreparoLembrado, Dura, Existe
<1>4. ASSUME NEW p \in DoRestaurante, PrepararPedido(p) PROVE Lembrados'
  <2>1. /\ Consumir(p, IF Existe(estado, p) THEN {p} ELSE {})
        /\ Existe(estado, p) => estado' = Preparar(estado, p)
        /\ usados' = usados
    BY <1>4 DEF PrepararPedido
  <2>2. p \in Pedidos /\ estado \in Estado
    BY AtoresAssumption DEF IInv, TypeOK
  <2>3. CASE Existe(estado, p)
    <3>1. Consumir(p, {p}) /\ p \in usados
      BY <2>1, <2>2, <2>3 DEF IInv, Donos, SoCriados
    <3>2. restaurante'.preparados = restaurante.preparados \cup {p}
      BY <3>1, ConsumirTipo
    <3>3. estado'.pedidos[p].preparado
      BY <2>1, <2>2, <2>3, PrepararPreparo
    <3>4. \A s \in restaurante.preparados : s \in usados' /\ Dura(s)
      BY <1>2 DEF Lembrados
    <3> QED BY <2>1, <3>1, <3>2, <3>3, <3>4 DEF Lembrados, PreparoLembrado, Dura, Existe
  <2>4. CASE ~Existe(estado, p)
    <3>1. Consumir(p, {})
      BY <2>1, <2>4
    <3>2. restaurante'.preparados = restaurante.preparados
      BY <3>1, ConsumirTipo
    <3> QED BY <1>3, <3>2
  <2> QED BY <2>3, <2>4
<1>5. ASSUME NEW p \in DoRestaurante, PrepararFalha(p) PROVE Lembrados'
  <2>1. Consumir(p, {})
    BY <1>5 DEF PrepararFalha
  <2>2. restaurante'.preparados = restaurante.preparados
    BY <2>1, ConsumirTipo
  <2> QED BY <1>3, <2>2
<1>6. ASSUME NEW p \in Pedidos, Criado(p) \/ Confirmado(p) \/ Cliente(p) PROVE Lembrados'
  <2>1. CASE Criado(p)
    <3>1. restaurante'.preparados = restaurante.preparados
      BY <2>1, AnunciarTipo DEF Criado
    <3> QED BY <1>3, <3>1
  <2>2. CASE Confirmado(p) \/ Cliente(p)
    BY <1>3, <2>2 DEF Confirmado, Cliente, CriarFalha, Assinar, Rastrear, Encerrar
  <2> QED BY <1>6, <2>1, <2>2
<1>7. CASE Abrir
  <2>1. restaurante'.preparados = restaurante.preparados
    BY <1>7 DEF Abrir, TipoAtores, Restaurante
  <2> QED BY <1>3, <2>1
<1>8. CASE Fechar
  BY <1>3, <1>8 DEF Fechar, Desligado
<1>9. CASE UNCHANGED atores
  BY <1>3, <1>9 DEF atores
<1> QED BY <1>4, <1>5, <1>6, <1>7, <1>8, <1>9 DEF NextAtores, Cozinha, tudo

-----------------------------------------------------------------------------
(* The theorems *)

\* The whole system keeps the types of the drivers and of the ADM, and two drivers
\* never carry the same order, whatever customers and a restaurant do.
THEOREM SistemaEntregaDoDono == SpecAtores => [](TypeOK /\ EntregaDoDono)
<1>1. InitAtores => IInv
  BY InicioOk DEF InitAtores
<1>2. IInv /\ [NextAtores]_tudo => IInv'
  BY PassoDeTodos, PassoIndutivo, PreparoIInv DEF IInv
<1>3. IInv => TypeOK /\ EntregaDoDono
  BY DEF IInv, Donos
<1> QED BY <1>1, <1>2, <1>3, PTL DEF SpecAtores

\* The order a driver was assigned is not orphaned in the whole system, whenever it
\* is prepared, as long as no request fails and nobody crashes.
THEOREM SistemaNenhumOrfao == SpecAtores => []EntregaAssumida
<1>1. InitAtores => JInv
  BY InicioAssumido DEF InitAtores
<1>2. JInv /\ [NextAtores]_tudo => JInv'
  BY PassoDeTodos, PassoAssumido, PreparoJInv DEF JInv, IInv
<1>3. JInv => EntregaAssumida
  BY DEF JInv
<1> QED BY <1>1, <1>2, <1>3, PTL DEF SpecAtores

\* In the whole system too, a driver with no event to consume about a delivery its
\* consumer started sends the position where the routing map says.
THEOREM SistemaRotaSeguida == SpecAtores => []RotaSeguida
<1>1. InitAtores => KInv
  BY InicioRota DEF InitAtores
<1>2. KInv /\ [NextAtores]_tudo => KInv'
  BY PassoDeTodos, PassoRota, PreparoKInv DEF KInv, IInv
<1> QED BY <1>1, <1>2, RotaSegue, PTL DEF SpecAtores

\* The restaurant and the customers keep their types, and a restaurant that does
\* not run has no queue and remembers nothing.
THEOREM TipoDosAtores == SpecAtores => []TipoAtores
<1>1. InitAtores => TipoAtores
  <2> SUFFICES ASSUME InitAtores PROVE TipoAtores
    OBVIOUS
  <2> QED BY DEF InitAtores, TipoAtores, Desligado, Restaurante, Lugares
<1> QED BY <1>1, PassoTipoAtores, PTL DEF SpecAtores

\* An order the restaurant remembers as prepared is prepared for the ADM as long as
\* this knows it, whoever accepts it, moves it to another tracker or fails meanwhile.
THEOREM PreparoSempreLembrado == SpecAtores => []PreparoLembrado
<1> DEFINE Inv == IInv /\ TipoAtores /\ Lembrados
<1>1. InitAtores => Inv
  <2> SUFFICES ASSUME InitAtores PROVE Inv
    OBVIOUS
  <2>1. TipoAtores
    BY DEF InitAtores, TipoAtores, Desligado, Restaurante, Lugares
  <2>2. IInv /\ Lembrados
    BY InicioOk DEF InitAtores, Lembrados, PreparoLembrado, Desligado
  <2> QED BY <2>1, <2>2
<1>2. Inv /\ [NextAtores]_tudo => Inv'
  BY PassoDeTodos, PassoIndutivo, PreparoIInv, PassoTipoAtores, PassoLembrado DEF IInv
<1>3. Inv => PreparoLembrado
  BY DEF Lembrados
<1> QED BY <1>1, <1>2, <1>3, PTL DEF SpecAtores

==============================================================================
