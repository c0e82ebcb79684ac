---------------------------- MODULE EstadoProvas ----------------------------
(***************************************************************************)
(* What the ring promises for every set of trackers and every placement of *)
(* nodes and orders (a choice among the active trackers, and that an order *)
(* changes tracker only when it has to), and what the changes of an order  *)
(* state do and preserve: its type and its coherence.                      *)
(***************************************************************************)
EXTENDS EstadoADM, WellFoundedInduction, TLAPS

-----------------------------------------------------------------------------
(* The ring *)

\* A non-empty set of ring nodes has a first node: the CHOOSE in PrimeiroNo
\* picks an element of the set that no other precedes.
LEMMA PrimeiroNoExiste ==
    ASSUME NEW nos, nos \subseteq Rastreadores \X Indices, nos # {}
    PROVE  /\ PrimeiroNo(nos) \in nos
           /\ \A m \in nos : HashNo[PrimeiroNo(nos)] <= HashNo[m]
<1> DEFINE posicoes == {HashNo[n] : n \in nos}
<1>1. /\ \A n \in nos : HashNo[n] \in Nat
      /\ posicoes \subseteq Nat
      /\ posicoes # {}
  BY AnelAssumption
<1>2. \E x \in posicoes : \A y \in posicoes : ~ (<<y, x>> \in OpToRel(<, Nat))
  <2> HIDE DEF posicoes
  <2> QED BY <1>1, NatLessThanWellFounded, WFMin
<1>3. \E x \in posicoes : \A y \in posicoes : x <= y
  <2>1. PICK x \in posicoes : \A y \in posicoes : ~ (<<y, x>> \in OpToRel(<, Nat))
    BY <1>2
  <2>2. ASSUME NEW y \in posicoes PROVE x <= y
    <3>1. x \in Nat /\ y \in Nat
      BY <1>1
    <3>2. ~ (<<y, x>> \in OpToRel(<, Nat))
      BY <2>1
    <3>3. ~ (y < x)
      BY <3>1, <3>2 DEF OpToRel
    <3> QED BY <3>1, <3>3
  <2> QED BY <2>2
<1>4. \E n \in nos : \A m \in nos : HashNo[n] <= HashNo[m]
  BY <1>3
<1> QED BY <1>4 DEF PrimeiroNo

\* The first node is determined by being first: positions are distinct.
LEMMA PrimeiroNoUnico ==
    ASSUME NEW nos, nos \subseteq Rastreadores \X Indices,
           NEW n \in nos, \A m \in nos : HashNo[n] <= HashNo[m]
    PROVE  PrimeiroNo(nos) = n
<1>1. /\ PrimeiroNo(nos) \in nos
      /\ HashNo[PrimeiroNo(nos)] <= HashNo[n]
      /\ HashNo[n] <= HashNo[PrimeiroNo(nos)]
  BY PrimeiroNoExiste
<1>2. HashNo[PrimeiroNo(nos)] \in Nat /\ HashNo[n] \in Nat
  BY <1>1, AnelAssumption
<1>3. HashNo[PrimeiroNo(nos)] = HashNo[n]
  BY <1>1, <1>2
<1> QED BY <1>1, <1>3, AnelAssumption

\* An order goes to one of the active trackers (escolher_servidor_consistent_hash
\* returns a member of its argument whenever that is not empty).
THEOREM EscolheAtivo ==
    ASSUME NEW p, NEW S \in SUBSET Rastreadores, S # {}
    PROVE  EscolherServidor(p, S) \in S
<1> DEFINE anel   == S \X Indices
           frente == {n \in anel : HashNo[n] >= HashPedido[p]}
           nos    == IF frente # {} THEN frente ELSE anel
<1>1. anel # {} /\ anel \subseteq Rastreadores \X Indices
  <2>1. PICK r \in S, i \in Indices : TRUE
    BY AnelAssumption
  <2>2. <<r, i>> \in anel
    BY <2>1
  <2> QED BY <2>2
<1>2. nos # {} /\ nos \subseteq anel
  BY <1>1
<1>3. PrimeiroNo(nos) \in nos
  <2> HIDE DEF nos, anel
  <2> QED BY <1>1, <1>2, PrimeiroNoExiste
<1>4. PrimeiroNo(nos) \in S \X Indices
  BY <1>2, <1>3
<1>5. PrimeiroNo(nos)[1] \in S
  BY <1>4
<1> QED BY <1>5 DEF EscolherServidor, ConstruirAnel

\* Minimal remapping: the tracker chosen among T stays chosen in any part of T
\* that still holds it.  Losing a tracker moves only the orders it served.
THEOREM SaidaPreserva ==
    ASSUME NEW p, NEW T \in SUBSET Rastreadores, NEW S \in SUBSET T,
           EscolherServidor(p, T) \in S
    PROVE  EscolherServidor(p, S) = EscolherServidor(p, T)
<1> DEFINE anel(V)   == V \X Indices
           frente(V) == {n \in anel(V) : HashNo[n] >= HashPedido[p]}
           nos(V)    == IF frente(V) # {} THEN frente(V) ELSE anel(V)
           n         == PrimeiroNo(nos(T))
<1>1. /\ EscolherServidor(p, T) = n[1]
      /\ EscolherServidor(p, S) = PrimeiroNo(nos(S))[1]
  BY DEF EscolherServidor, ConstruirAnel
<1>2. anel(T) # {}
  <2>1. PICK r \in T, i \in Indices : TRUE
    BY AnelAssumption
  <2>2. <<r, i>> \in anel(T)
    BY <2>1
  <2> QED BY <2>2
<1>3. /\ nos(T) # {} /\ nos(T) \subseteq Rastreadores \X Indices
      /\ nos(T) \subseteq anel(T)
  BY <1>2
<1>4. n \in nos(T) /\ \A m \in nos(T) : HashNo[n] <= HashNo[m]
  <2> HIDE DEF nos
  <2> QED BY <1>3, PrimeiroNoExiste
<1>5. n \in anel(S)
  <2>1. n \in T \X Indices /\ n[1] \in S
    BY <1>1, <1>3, <1>4
  <2> HIDE DEF n
  <2> QED BY <2>1
<1>6. n \in nos(S) /\ nos(S) \subseteq nos(T)
  <2>1. CASE frente(T) # {}
    <3>1. n \in frente(S)
      BY <1>4, <1>5, <2>1
    <3> QED BY <2>1, <3>1
  <2>2. CASE frente(T) = {}
    <3>1. frente(S) = {}
      BY <2>2
    <3> QED BY <1>5, <2>2, <3>1
  <2> QED BY <2>1, <2>2
<1>7. PrimeiroNo(nos(S)) = n
  <2>1. nos(S) \subseteq Rastreadores \X Indices
    OBVIOUS
  <2>2. \A m \in nos(S) : HashNo[n] <= HashNo[m]
    BY <1>4, <1>6
  <2> HIDE DEF nos, n
  <2> QED BY <1>6, <2>1, <2>2, PrimeiroNoUnico
<1> QED BY <1>1, <1>7

\* A tracker that joins the active set S takes orders only for itself: an order
\* is chosen either the newcomer or the tracker it already had.
THEOREM EntradaMinima ==
    ASSUME NEW p, NEW S \in SUBSET Rastreadores, S # {}, NEW r \in Rastreadores,
           EscolherServidor(p, S \cup {r}) # r
    PROVE  EscolherServidor(p, S \cup {r}) = EscolherServidor(p, S)
<1>1. EscolherServidor(p, S \cup {r}) \in S \cup {r}
  BY EscolheAtivo
<1>2. EscolherServidor(p, S \cup {r}) \in S
  BY <1>1
<1>3. S \cup {r} \in SUBSET Rastreadores /\ S \in SUBSET (S \cup {r})
  OBVIOUS
<1> QED BY <1>2, <1>3, SaidaPreserva

-----------------------------------------------------------------------------
(* What each handler does to a state *)

\* The empty state has its type and is coherent.
LEMMA VazioOk == EstadoVazio \in Estado /\ Coerente(EstadoVazio)
<1>1. EstadoVazio \in Estado
  BY DEF EstadoVazio, Estado
<1>2. Coerente(EstadoVazio)
  BY DEF EstadoVazio, Coerente, Existe, ComEntregador, Mapeados
<1> QED BY <1>1, <1>2

\* A new order is not the absence of one, and has no driver and no tracker.
LEMMA PedidoNovoOk ==
    /\ PedidoNovo \in Pedido /\ PedidoNovo # Ausente
    /\ PedidoNovo.entregador = Nenhum /\ PedidoNovo.rastreador = Nenhum
<1>1. PedidoNovo \in Pedido
  BY DEF PedidoNovo, Pedido
<1>2. PedidoNovo.entregador = Nenhum /\ PedidoNovo.rastreador = Nenhum
  BY DEF PedidoNovo
<1> QED BY <1>1, <1>2, EstadoAssumption

\* What creating p does to an order q
LEMMA CriarEfeito ==
    ASSUME NEW e \in Estado, NEW p \in Pedidos, NEW q \in Pedidos
    PROVE  /\ q \in Criar(e, p).semEntregador <=> q = p \/ q \in e.semEntregador
           /\ Criar(e, p).mapa[q] = e.mapa[q]
           /\ q = p => Criar(e, p).pedidos[q] = PedidoNovo
           /\ q # p => Criar(e, p).pedidos[q] = e.pedidos[q]
           /\ Existe(Criar(e, p), q) <=> q = p \/ Existe(e, q)
           /\ ComEntregador(Criar(e, p), q) <=> q # p /\ ComEntregador(e, q)
<1> DEFINE f == Criar(e, p)
<1>1. /\ f.pedidos = [e.pedidos EXCEPT ![p] = PedidoNovo]
      /\ f.semEntregador = e.semEntregador \cup {p}
      /\ f.mapa = e.mapa
  BY DEF Criar, Estado
<1>2. f.pedidos[q] = IF q = p THEN PedidoNovo ELSE e.pedidos[q]
  BY <1>1 DEF Estado
<1> HIDE DEF f
<1> QED BY <1>1, <1>2, PedidoNovoOk DEF Existe, ComEntregador, f

\* What preparing p does to an order q
LEMMA PrepararEfeito ==
    ASSUME NEW e \in Estado, NEW p \in Pedidos, Existe(e, p), NEW q \in Pedidos
    PROVE  /\ Preparar(e, p).semEntregador = e.semEntregador
           /\ Preparar(e, p).mapa = e.mapa
           /\ Existe(Preparar(e, p), q) <=> Existe(e, q)
           /\ ComEntregador(Preparar(e, p), q) <=> ComEntregador(e, q)
           /\ Existe(e, q) =>
                  /\ Preparar(e, p).pedidos[q].entregador = e.pedidos[q].entregador
                  /\ Preparar(e, p).pedidos[q].rastreador = e.pedidos[q].rastreador
<1> DEFINE f == Preparar(e, p)
           pronto == [e.pedidos[p] EXCEPT !.preparado = TRUE]
<1>1. /\ f.pedidos = [e.pedidos EXCEPT ![p] = pronto]
      /\ f.semEntregador = e.semEntregador
      /\ f.mapa = e.mapa
  BY DEF Preparar, Estado
<1>2. e.pedidos[p] \in Pedido /\ e.pedidos \in [Pedidos -> Pedido \cup {Ausente}]
  BY DEF Estado, Existe
<1>3. /\ pronto \in Pedido
      /\ pronto.entregador = e.pedidos[p].entregador
      /\ pronto.rastreador = e.pedidos[p].rastreador
  BY <1>2 DEF Pedido
<1>4. pronto # Ausente
  BY <1>3, EstadoAssumption
<1>5. f.pedidos[q] = IF q = p THEN pronto ELSE e.pedidos[q]
  BY <1>1, <1>2
<1> HIDE DEF pronto, f
<1> QED BY <1>1, <1>3, <1>4, <1>5 DEF Existe, ComEntregador, f

\* What the acceptance of p by d does to an order q
LEMMA AceitarEfeito ==
    ASSUME NEW e \in Estado, NEW p \in Pedidos, Existe(e, p), NEW d \in Entregadores,
           NEW S \in SUBSET Rastreadores, S # {}, NEW q \in Pedidos
    PROVE  /\ q \in Aceitar(e, p, d, S).semEntregador <=> q # p /\ q \in e.semEntregador
           /\ Aceitar(e, p, d, S).mapa[q] =
                  IF q = p THEN EscolherServidor(p, S) ELSE e.mapa[q]
           /\ q = p => /\ Aceitar(e, p, d, S).pedidos[q].entregador = d
                       /\ Aceitar(e, p, d, S).pedidos[q].rastreador = EscolherServidor(p, S)
           /\ q # p => Aceitar(e, p, d, S).pedidos[q] = e.pedidos[q]
           /\ Existe(Aceitar(e, p, d, S), q) <=> Existe(e, q)
           /\ ComEntregador(Aceitar(e, p, d, S), q) <=> q = p \/ ComEntregador(e, q)
<1> DEFINE f == Aceitar(e, p, d, S)
           r == EscolherServidor(p, S)
           aceito == [e.pedidos[p] EXCEPT !.entregador = d, !.rastreador = r]
<1>1. /\ f.pedidos = [e.pedidos EXCEPT ![p] = aceito]
      /\ f.semEntregador = e.semEntregador \ {p}
      /\ f.mapa = [e.mapa EXCEPT ![p] = r]
  BY DEF Aceitar, Atribuir, Estado
<1>2. r \in Rastreadores /\ d # Nenhum
  BY EscolheAtivo, EstadoAssumption
<1>3. /\ e.pedidos \in [Pedidos -> Pedido \cup {Ausente}]
      /\ e.mapa \in [Pedidos -> Rastreadores \cup {Nenhum}]
      /\ e.pedidos[p] \in Pedido
  BY DEF Estado, Existe
<1> HIDE DEF f, r
<1>4. aceito \in Pedido /\ aceito.entregador = d /\ aceito.rastreador = r
  BY <1>2, <1>3 DEF Pedido
<1>5. aceito # Ausente
  BY <1>4, EstadoAssumption
<1> HIDE DEF aceito
<1>6. /\ f.pedidos[q] = IF q = p THEN aceito ELSE e.pedidos[q]
      /\ f.mapa[q] = IF q = p THEN r ELSE e.mapa[q]
  BY <1>1, <1>3
<1> QED BY <1>1, <1>2, <1>4, <1>5, <1>6 DEF Existe, ComEntregador, f, r

\* What the writing of a driver and a tracker in p does to an order q
LEMMA AtribuirEfeito ==
    ASSUME NEW e \in Estado, NEW p \in Pedidos, Existe(e, p), NEW d \in Entregadores,
           NEW r \in Rastreadores, NEW q \in Pedidos
    PROVE  /\ Atribuir(e, p, d, r).semEntregador = e.semEntregador
           /\ Atribuir(e, p, d, r).mapa = e.mapa
           /\ Existe(Atribuir(e, p, d, r), q) <=> Existe(e, q)
           /\ ComEntregador(Atribuir(e, p, d, r), q) <=> q = p \/ ComEntregador(e, q)
<1> DEFINE f == Atribuir(e, p, d, r)
           aceito == [e.pedidos[p] EXCEPT !.entregador = d, !.rastreador = r]
<1>1. /\ f.pedidos = [e.pedidos EXCEPT ![p] = aceito]
      /\ f.semEntregador = e.semEntregador
      /\ f.mapa = e.mapa
  BY DEF Atribuir, Estado
<1>2. /\ e.pedidos \in [Pedidos -> Pedido \cup {Ausente}]
      /\ e.pedidos[p] \in Pedido
      /\ d # Nenhum
  BY EstadoAssumption DEF Estado, Existe
<1> HIDE DEF f
<1>3. aceito \in Pedido /\ aceito.entregador = d
  BY <1>2 DEF Pedido
<1>4. aceito # Ausente
  BY <1>3, EstadoAssumption
<1> HIDE DEF aceito
<1>5. f.pedidos[q] = IF q = p THEN aceito ELSE e.pedidos[q]
  BY <1>1, <1>2
<1> QED BY <1>1, <1>2, <1>3, <1>4, <1>5 DEF Existe, ComEntregador, f

\* What the delivery of p does to an order q
LEMMA ConfirmarEfeito ==
    ASSUME NEW e \in Estado, NEW p \in Pedidos, NEW q \in Pedidos
    PROVE  /\ q \in Confirmar(e, p).semEntregador <=> q # p /\ q \in e.semEntregador
           /\ Confirmar(e, p).mapa[q] = IF q = p THEN Nenhum ELSE e.mapa[q]
           /\ q # p => Confirmar(e, p).pedidos[q] = e.pedidos[q]
           /\ Existe(Confirmar(e, p), q) <=> q # p /\ Existe(e, q)
           /\ ComEntregador(Confirmar(e, p), q) <=> q # p /\ ComEntregador(e, q)
<1> DEFINE f == Confirmar(e, p)
<1>1. /\ f.pedidos = [e.pedidos EXCEPT ![p] = Ausente]
      /\ f.semEntregador = e.semEntregador \ {p}
      /\ f.mapa = [e.mapa EXCEPT ![p] = Nenhum]
  BY DEF Confirmar, Estado
<1>2. /\ f.pedidos[q] = IF q = p THEN Ausente ELSE e.pedidos[q]
      /\ f.mapa[q] = IF q = p THEN Nenhum ELSE e.mapa[q]
  BY <1>1 DEF Estado
<1> HIDE DEF f
<1> QED BY <1>1, <1>2 DEF Existe, ComEntregador, f

\* The loops set the tracker of each order they move and keep its driver.
LEMMA MoverMovido ==
    ASSUME NEW e \in Estado, NEW q \in Pedidos, Existe(e, q), NEW r \in Rastreadores
    PROVE  /\ [e.pedidos[q] EXCEPT !.rastreador = r] # Ausente
           /\ [e.pedidos[q] EXCEPT !.rastreador = r].entregador = e.pedidos[q].entregador
           /\ [e.pedidos[q] EXCEPT !.rastreador = r].rastreador = r
<1> DEFINE movido == [e.pedidos[q] EXCEPT !.rastreador = r]
<1>1. e.pedidos[q] \in Pedido
  BY DEF Estado, Existe
<1>2. /\ movido \in Pedido
      /\ movido.entregador = e.pedidos[q].entregador
      /\ movido.rastreador = r
  BY <1>1 DEF Pedido
<1> QED BY <1>2, EstadoAssumption

\* Moving orders leaves the queue, and who has a driver, as they are.
LEMMA MoverEfeito ==
    ASSUME NEW e \in Estado, NEW ps \in SUBSET Pedidos,
           NEW S \in SUBSET Rastreadores, ps # {} => S # {}, NEW q \in Pedidos
    PROVE  /\ Mover(e, ps, S).semEntregador = e.semEntregador
           /\ Mover(e, ps, S).mapa[q] = IF q \in ps THEN EscolherServidor(q, S) ELSE e.mapa[q]
           /\ Existe(Mover(e, ps, S), q) <=> Existe(e, q)
           /\ ComEntregador(Mover(e, ps, S), q) <=> ComEntregador(e, q)
<1> DEFINE f == Mover(e, ps, S)
           r == EscolherServidor(q, S)
           movido == [e.pedidos[q] EXCEPT !.rastreador = r]
<1>1. /\ f.semEntregador = e.semEntregador
      /\ f.mapa[q] = IF q \in ps THEN r ELSE e.mapa[q]
      /\ f.pedidos[q] = IF q \in ps /\ Existe(e, q) THEN movido ELSE e.pedidos[q]
  BY DEF Mover, Estado
<1>2. CASE Existe(e, q) /\ q \in ps
  <2>1. r \in Rastreadores
    BY <1>2, EscolheAtivo
  <2> HIDE DEF r
  <2>2. movido # Ausente /\ movido.entregador = e.pedidos[q].entregador
    BY <1>2, <2>1, MoverMovido
  <2> HIDE DEF movido, f
  <2> QED BY <1>1, <1>2, <2>2 DEF Existe, ComEntregador, f, r
<1>3. CASE ~(Existe(e, q) /\ q \in ps)
  <2> HIDE DEF movido
  <2> QED BY <1>1, <1>3 DEF Existe, ComEntregador
<1> QED BY <1>2, <1>3

\* Moving orders writes their tracker in them.
LEMMA MoverRastreador ==
    ASSUME NEW e \in Estado, NEW ps \in SUBSET Pedidos,
           NEW S \in SUBSET Rastreadores, ps # {} => S # {}, NEW q \in Pedidos, Existe(e, q)
    PROVE  Mover(e, ps, S).pedidos[q].rastreador =
               IF q \in ps THEN EscolherServidor(q, S) ELSE e.pedidos[q].rastreador
<1> DEFINE r == EscolherServidor(q, S)
           movido == [e.pedidos[q] EXCEPT !.rastreador = r]
<1>1. Mover(e, ps, S).pedidos[q] = IF q \in ps THEN movido ELSE e.pedidos[q]
  BY DEF Mover, Estado
<1>2. CASE q \in ps
  <2>1. r \in Rastreadores
    BY <1>2, EscolheAtivo
  <2> HIDE DEF r
  <2>2. movido.rastreador = r
    BY <2>1, MoverMovido
  <2> HIDE DEF movido
  <2> QED BY <1>1, <1>2, <2>2 DEF r
<1>3. CASE q \notin ps
  BY <1>1, <1>3
<1> QED BY <1>2, <1>3

\* Moving orders keeps their driver.
LEMMA MoverEntregador ==
    ASSUME NEW e \in Estado, NEW ps \in SUBSET Pedidos,
           NEW S \in SUBSET Rastreadores, ps # {} => S # {}, NEW q \in Pedidos, Existe(e, q)
    PROVE  Mover(e, ps, S).pedidos[q].entregador = e.pedidos[q].entregador
<1> DEFINE r == EscolherServidor(q, S)
           movido == [e.pedidos[q] EXCEPT !.rastreador = r]
<1>1. Mover(e, ps, S).pedidos[q] = IF q \in ps THEN movido ELSE e.pedidos[q]
  BY DEF Mover, Estado
<1>2. CASE q \in ps
  <2>1. r \in Rastreadores
    BY <1>2, EscolheAtivo
  <2> HIDE DEF r
  <2>2. movido.entregador = e.pedidos[q].entregador
    BY <2>1, MoverMovido
  <2> HIDE DEF movido
  <2> QED BY <1>1, <1>2, <2>2
<1>3. CASE q \notin ps
  BY <1>1, <1>3
<1> QED BY <1>2, <1>3

\* What becomes of an order q when the state e turns into f by moving the orders ps
Movido(e, f, q, ps, S) ==
    /\ f.semEntregador = e.semEntregador
    /\ f.mapa[q] = IF q \in ps THEN EscolherServidor(q, S) ELSE e.mapa[q]
    /\ Existe(f, q) <=> Existe(e, q)
    /\ ComEntregador(f, q) <=> ComEntregador(e, q)
    /\ Existe(e, q) =>
           /\ f.pedidos[q].entregador = e.pedidos[q].entregador
           /\ f.pedidos[q].rastreador =
                  IF q \in ps THEN EscolherServidor(q, S) ELSE e.pedidos[q].rastreador

\* The effect of a loop over the orders ps.
LEMMA MoverTodos ==
    ASSUME NEW e \in Estado, NEW ps \in SUBSET Pedidos,
           NEW S \in SUBSET Rastreadores, ps # {} => S # {}, NEW q \in Pedidos
    PROVE  Movido(e, Mover(e, ps, S), q, ps, S)
<1>1. ASSUME Existe(e, q)
      PROVE  Mover(e, ps, S).pedidos[q].rastreador =
                 IF q \in ps THEN EscolherServidor(q, S) ELSE e.pedidos[q].rastreador
  BY <1>1, MoverRastreador
<1>2. ASSUME Existe(e, q)
      PROVE  Mover(e, ps, S).pedidos[q].entregador = e.pedidos[q].entregador
  BY <1>2, MoverEntregador
<1>3. /\ Mover(e, ps, S).semEntregador = e.semEntregador
      /\ Mover(e, ps, S).mapa[q] = IF q \in ps THEN EscolherServidor(q, S) ELSE e.mapa[q]
      /\ Existe(Mover(e, ps, S), q) <=> Existe(e, q)
      /\ ComEntregador(Mover(e, ps, S), q) <=> ComEntregador(e, q)
  BY MoverEfeito
<1> QED BY <1>1, <1>2, <1>3 DEF Movido

\* An acceptance keeps what is prepared.
LEMMA AceitarPreparo ==
    ASSUME NEW e \in Estado, NEW p \in Pedidos, Existe(e, p), NEW d \in Entregadores,
           NEW S \in SUBSET Rastreadores, S # {}, NEW s \in Pedidos
    PROVE  Aceitar(e, p, d, S).pedidos[s].preparado = e.pedidos[s].preparado
<1> DEFINE r == EscolherServidor(p, S)
           aceito == [e.pedidos[p] EXCEPT !.entregador = d, !.rastreador = r]
<1>1. /\ e.pedidos \in [Pedidos -> Pedido \cup {Ausente}]
      /\ e.pedidos[p] \in Pedido
  BY DEF Estado, Existe
<1>2. Aceitar(e, p, d, S).pedidos = [e.pedidos EXCEPT ![p] = aceito]
  BY DEF Aceitar, Atribuir, Estado
<1> HIDE DEF r
<1>3. aceito.preparado = e.pedidos[p].preparado
  BY <1>1 DEF Pedido
<1> HIDE DEF aceito
<1> QED BY <1>1, <1>2, <1>3

\* So does a change of trackers.
LEMMA MoverPreparo ==
    ASSUME NEW e \in Estado, NEW ps \in SUBSET Pedidos, NEW S, NEW s \in Pedidos
    PROVE  Existe(e, s) => Mover(e, ps, S).pedidos[s].preparado = e.pedidos[s].preparado
<1> DEFINE r == EscolherServidor(s, S)
           movido == [e.pedidos[s] EXCEPT !.rastreador = r]
<1> SUFFICES ASSUME Existe(e, s)
             PROVE  Mover(e, ps, S).pedidos[s].preparado = e.pedidos[s].preparado
  OBVIOUS
<1>1. Mover(e, ps, S).pedidos[s] = IF s \in ps THEN movido ELSE e.pedidos[s]
  BY DEF Mover, Estado
<1>2. e.pedidos[s] \in Pedido
  BY DEF Estado, Existe
<1> HIDE DEF r
<1>3. movido.preparado = e.pedidos[s].preparado
  BY <1>2 DEF Pedido
<1> HIDE DEF movido
<1> QED BY <1>1, <1>3

\* Preparing an order leaves the others as they are.
LEMMA PrepararPreparo ==
    ASSUME NEW e \in Estado, NEW p \in Pedidos, Existe(e, p), NEW s \in Pedidos
    PROVE  /\ Preparar(e, p).pedidos[p].preparado
           /\ s # p => Preparar(e, p).pedidos[s] = e.pedidos[s]
<1>1. e.pedidos \in [Pedidos -> Pedido \cup {Ausente}] /\ e.pedidos[p] \in Pedido
  BY DEF Estado, Existe
<1>2. Preparar(e, p).pedidos = [e.pedidos EXCEPT ![p] = [@ EXCEPT !.preparado = TRUE]]
  BY DEF Preparar, Estado
<1> QED BY <1>1, <1>2 DEF Pedido

\* What the merge of f into e has of an order q
LEMMA MesclarEfeito ==
    ASSUME NEW e \in Estado, NEW f \in Estado, NEW q \in Pedidos
    PROVE  /\ Existe(Mesclar(e, f), q) <=> Existe(e, q) \/ Existe(f, q)
           /\ Existe(e, q) => Mesclar(e, f).pedidos[q] = e.pedidos[q]
           /\ ~Existe(e, q) => Mesclar(e, f).pedidos[q] = f.pedidos[q]
           /\ q \in Mesclar(e, f).semEntregador => q \in e.semEntregador \cup f.semEntregador
<1> DEFINE g == Mesclar(e, f)
<1>1. /\ g.pedidos[q] = IF Existe(e, q) THEN e.pedidos[q] ELSE f.pedidos[q]
      /\ g.semEntregador \subseteq e.semEntregador \cup f.semEntregador
  BY DEF Mesclar
<1> HIDE DEF g
<1> QED BY <1>1 DEF Existe, g

\* criar_pedido keeps the type.
LEMMA CriarTipo ==
    ASSUME NEW e \in Estado, NEW p \in Pedidos
    PROVE  Criar(e, p) \in Estado
BY DEF Criar, Estado, PedidoNovo, Pedido

\* preparar_pedido keeps the type.
LEMMA PrepararTipo ==
    ASSUME NEW e \in Estado, NEW p \in Pedidos, Existe(e, p)
    PROVE  Preparar(e, p) \in Estado
BY DEF Preparar, Estado, Existe, Pedido

\* aceitar_pedido keeps the type: the ring answers with a tracker.
LEMMA AceitarTipo ==
    ASSUME NEW e \in Estado, NEW p \in Pedidos, NEW d \in Entregadores, Existe(e, p),
           NEW S \in SUBSET Rastreadores, S # {}
    PROVE  Aceitar(e, p, d, S) \in Estado
<1>1. EscolherServidor(p, S) \in Rastreadores
  BY EscolheAtivo
<1>2. /\ e.pedidos[p] \in Pedido
      /\ e \in Estado
  BY DEF Estado, Existe
<1> QED BY <1>1, <1>2 DEF Aceitar, Atribuir, Estado, Pedido

\* Writing a driver and a tracker in a known order keeps the type.
LEMMA AtribuirTipo ==
    ASSUME NEW e \in Estado, NEW p \in Pedidos, NEW d \in Entregadores, Existe(e, p),
           NEW r \in Rastreadores
    PROVE  Atribuir(e, p, d, r) \in Estado
<1>1. e.pedidos[p] \in Pedido
  BY DEF Estado, Existe
<1> QED BY <1>1 DEF Atribuir, Estado, Pedido

\* confirmar_entrega keeps the type.
LEMMA ConfirmarTipo ==
    ASSUME NEW e \in Estado, NEW p \in Pedidos
    PROVE  Confirmar(e, p) \in Estado
BY DEF Confirmar, Estado

\* Moving orders to active trackers keeps the type.
LEMMA MoverTipo ==
    ASSUME NEW e \in Estado, NEW ps \in SUBSET Pedidos,
           NEW S \in SUBSET Rastreadores, ps # {} => S # {}
    PROVE  Mover(e, ps, S) \in Estado
<1>1. \A p \in ps : EscolherServidor(p, S) \in Rastreadores
  BY EscolheAtivo
<1>2. \A p \in Pedidos : Existe(e, p) => e.pedidos[p] \in Pedido
  BY DEF Estado, Existe
<1>3. \A p \in ps : Existe(e, p) =>
          [e.pedidos[p] EXCEPT !.rastreador = EscolherServidor(p, S)] \in Pedido
  BY <1>1, <1>2 DEF Pedido
<1> QED BY <1>1, <1>3 DEF Mover, Estado

\* Merging the state of a peer keeps the type.
LEMMA MesclarTipo ==
    ASSUME NEW e \in Estado, NEW f \in Estado
    PROVE  Mesclar(e, f) \in Estado
BY DEF Mesclar, Estado
-----------------------------------------------------------------------------
(* Coherence *)

\* A created order is known, in the queue, without a driver.
LEMMA CriarCoerente ==
    ASSUME NEW e \in Estado, NEW p \in Pedidos, Coerente(e)
    PROVE  Coerente(Criar(e, p))
BY CriarEfeito DEF Coerente, Mapeados

\* Preparing an order changes neither the queue, the drivers nor the map.
LEMMA PrepararCoerente ==
    ASSUME NEW e \in Estado, NEW p \in Pedidos, Existe(e, p), Coerente(e)
    PROVE  Coerente(Preparar(e, p))
BY PrepararEfeito DEF Coerente, Mapeados

\* An accepted order leaves the queue with a driver and a tracker.
LEMMA AceitarCoerente ==
    ASSUME NEW e \in Estado, NEW p \in Pedidos, NEW d \in Entregadores, Existe(e, p),
           NEW S \in SUBSET Rastreadores, S # {}, Coerente(e)
    PROVE  Coerente(Aceitar(e, p, d, S))
<1>1. EscolherServidor(p, S) # Nenhum
  BY EscolheAtivo, EstadoAssumption
<1> QED BY <1>1, AceitarEfeito DEF Coerente, Mapeados

\* Writing a driver and a tracker in a known order changes neither the queue nor
\* the map.
LEMMA AtribuirCoerente ==
    ASSUME NEW e \in Estado, NEW p \in Pedidos, NEW d \in Entregadores, Existe(e, p),
           NEW r \in Rastreadores, Coerente(e)
    PROVE  Coerente(Atribuir(e, p, d, r))
BY AtribuirEfeito DEF Coerente, Mapeados

\* A delivered order leaves the three dictionaries together.
LEMMA ConfirmarCoerente ==
    ASSUME NEW e \in Estado, NEW p \in Pedidos, Coerente(e)
    PROVE  Coerente(Confirmar(e, p))
BY ConfirmarEfeito DEF Coerente, Mapeados

\* The merge of two coherent states is coherent: an order comes with its place in
\* the queue and in the map, whichever of the two states knows it.
LEMMA MesclarCoerente ==
    ASSUME NEW e \in Estado, NEW f \in Estado, Coerente(e), Coerente(f)
    PROVE  Coerente(Mesclar(e, f))
<1> DEFINE g == Mesclar(e, f)
           ped == [p \in Pedidos |-> IF Existe(e, p) THEN e.pedidos[p] ELSE f.pedidos[p]]
<1>1. /\ g.pedidos = ped
      /\ g.semEntregador = e.semEntregador \cup {p \in f.semEntregador : ped[p] # Ausente}
      /\ g.mapa = [p \in Pedidos |-> IF e.mapa[p] # Nenhum THEN e.mapa[p] ELSE f.mapa[p]]
  BY DEF Mesclar
<1> HIDE DEF g
<1>2. SUFFICES ASSUME NEW q \in Pedidos
               PROVE  /\ q \in g.semEntregador \cup Mapeados(g) => Existe(g, q)
                      /\ Existe(g, q) /\ q \notin g.semEntregador =>
                             ComEntregador(g, q) /\ q \in Mapeados(g)
  BY DEF Coerente, g
<1>3. CASE Existe(e, q)
  <2>1. g.pedidos[q] = e.pedidos[q] /\ Existe(g, q)
    BY <1>1, <1>3 DEF Existe
  <2>2. q \in e.semEntregador => q \in g.semEntregador
    BY <1>1
  <2>3. q \in Mapeados(e) => q \in Mapeados(g)
    BY <1>1 DEF Mapeados
  <2> QED BY <1>3, <2>1, <2>2, <2>3 DEF Coerente, Existe, ComEntregador
<1>4. CASE ~Existe(e, q)
  <2>1. g.pedidos[q] = f.pedidos[q]
    BY <1>1, <1>4
  <2>2. q \notin e.semEntregador /\ e.mapa[q] = Nenhum
    BY <1>4 DEF Coerente, Mapeados
  <2>3. q \in g.semEntregador <=> q \in f.semEntregador /\ Existe(f, q)
    BY <1>1, <1>4, <2>2 DEF Existe
  <2>4. q \in Mapeados(g) <=> q \in Mapeados(f)
    BY <1>1, <2>2 DEF Mapeados
  <2> QED BY <2>1, <2>3, <2>4 DEF Coerente, Existe, ComEntregador
<1> QED BY <1>3, <1>4
=============================================================================
