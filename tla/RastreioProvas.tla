--------------------------- MODULE RastreioProvas ---------------------------
(***************************************************************************)
(* For any orders and trackers and any bounds on crashes, moves and        *)
(* failures: the types of Rastreio, that a backup never goes back while    *)
(* its tracker runs, and that the customer never sees an older position    *)
(* than before, through crashes and redistributions.                       *)
(***************************************************************************)
EXTENDS Rastreio, SequenceTheorems, TLAPS

-----------------------------------------------------------------------------
(* Types *)

Posicao == [pedido : Pedidos, tempo : 1..agora]

\* TypeOK does not say that posicoes is a function.
Base == TypeOK /\ posicoes \in [Rastreadores -> Seq(Posicao)]

\* The variables but the clock and the queues, with their types
Demais ==
    /\ fase \in [Pedidos -> {"novo", "aceito", "entregue"}]
    /\ rota \in [Pedidos -> Rastreadores \cup {Nenhum}]
    /\ destino \in [Pedidos -> Rastreadores \cup {Nenhum}]
    /\ aviso \in [Pedidos -> Rastreadores \cup {Nenhum}]
    /\ vivos \subseteq Rastreadores
    /\ registros \in [Rastreadores -> SUBSET Pedidos]
    /\ conhece \in [Rastreadores -> Retrato]
    /\ emVoo \in [Rastreadores -> Retrato \cup {SemPedido}]
    /\ backup \in [Rastreadores -> Retrato]
    /\ mudos \cup movidos \cup ocultos \subseteq Pedidos
    /\ reiniciados \subseteq Rastreadores
    /\ quedas \in 0..MaxQuedas /\ rebalanceios \in 0..MaxRebalanceios
    /\ falhas \in 0..MaxFalhas

\* The clock, the queues, and what is known of positions and shown of them
Relogio ==
    /\ agora \in 1..MaxTempo
    /\ posicoes \in [Rastreadores -> Seq(Posicao)]
    /\ \A r \in Rastreadores : Len(posicoes[r]) <= MaxFila
    /\ \A r \in Rastreadores, p \in Pedidos : conhece[r][p] <= agora
    /\ vista \in [Pedidos -> 0..agora]

Desligados ==
    \A r \in Rastreadores \ vivos :
        registros[r] = {} /\ posicoes[r] = <<>> /\ conhece[r] = Vazio

\* The invariant Base in three parts
LEMMA PartesDaBase == Base <=> Demais /\ Relogio /\ Desligados
BY DEF Base, TypeOK, Posicao, Demais, Relogio, Desligados

\* Nothing is known of any position when the trackers start.
LEMMA InicioBase == Init => Base
<1> SUFFICES ASSUME Init PROVE Base
  OBVIOUS
<1>1. Vazio \in Retrato
  BY DEF Vazio, Retrato
<1>2. Demais
  BY <1>1, RastreioAssumption DEF Init, Demais
<1>3. Relogio
  BY RastreioAssumption DEF Init, Relogio, Vazio, Ausente, Posicao
<1>4. Desligados
  BY DEF Init, Desligados
<1> QED BY <1>2, <1>3, <1>4, PartesDaBase

\* The types of what no clock bounds are kept by every step.
LEMMA PassoDemais == Base /\ [Next]_vars => Demais'
<1> SUFFICES ASSUME Base, [Next]_vars PROVE Demais'
  OBVIOUS
<1> USE DEF adm, entregador, rastreador, sup, historia
<1>1. Demais /\ Relogio
  BY PartesDaBase
<1>2. CASE UNCHANGED vars \/ Passar
  BY <1>1, <1>2 DEF Demais, vars, Passar
<1>3. ASSUME NEW p \in Pedidos, NEW r \in Rastreadores,
             Aceitar(p, r) \/ Redistribuir(p, r) \/ Rebalancear(p, r)
      PROVE  Demais'
  BY <1>1, <1>3, RastreioAssumption
  DEF Demais, Aceitar, Redistribuir, Rebalancear, Mover, Registrar
<1>4. ASSUME NEW p \in Pedidos,
             \/ Confirmar(p) \/ RastreadorAtualizado(p)
             \/ EnviarPosicao(p) \/ EnvioFalha(p)
      PROVE  Demais'
  BY <1>1, <1>4, RastreioAssumption
  DEF Demais, Confirmar, RastreadorAtualizado, EnviarPosicao, EnvioFalha
<1>5. ASSUME NEW p \in Pedidos, NEW r \in Rastreadores, ProcessarRegistro(r, p)
      PROVE  Demais'
  <2>1. [conhece[r] EXCEPT ![p] = IF @ = Ausente THEN 0 ELSE @] \in Retrato
    BY <1>1, RastreioAssumption DEF Demais, Retrato, Tempo
  <2> QED BY <1>1, <1>5, <2>1 DEF Demais, ProcessarRegistro
<1>6. ASSUME NEW r \in Rastreadores, ReceberPosicao(r) \/ PublicacaoFalha(r)
      PROVE  Demais'
  <2> DEFINE m == Head(posicoes[r])
  <2>1. posicoes[r] # <<>> /\ posicoes[r] \in Seq(Posicao)
    BY <1>1, <1>6 DEF ReceberPosicao, PublicacaoFalha, Relogio
  <2>2. m \in Posicao
    BY <2>1, HeadTailProperties
  <2> HIDE DEF m
  <2>3. m.pedido \in Pedidos /\ m.tempo \in Tempo
    BY <1>1, <2>2, RastreioAssumption DEF Posicao, Tempo, Relogio
  <2>4. [conhece[r] EXCEPT ![m.pedido] = m.tempo] \in Retrato
    BY <1>1, <2>3 DEF Demais, Retrato
  <2>5. \/ conhece' = [conhece EXCEPT ![r][m.pedido] = m.tempo]
        \/ conhece' = conhece
    BY <1>6 DEF ReceberPosicao, PublicacaoFalha, m
  <2>6. conhece' \in [Rastreadores -> Retrato]
    BY <1>1, <2>4, <2>5 DEF Demais
  <2>7. falhas' \in 0..MaxFalhas
    BY <1>1, <1>6, RastreioAssumption DEF ReceberPosicao, PublicacaoFalha, Demais
  <2>8. UNCHANGED <<fase, rota, destino, aviso, mudos, vivos, registros, emVoo, backup,
                    movidos, reiniciados, quedas, rebalanceios>>
    BY <1>6 DEF ReceberPosicao, PublicacaoFalha
  <2>9. ocultos' \subseteq ocultos \cup {m.pedido}
    BY <1>6 DEF ReceberPosicao, PublicacaoFalha, m
  <2> QED BY <1>1, <2>3, <2>6, <2>7, <2>8, <2>9 DEF Demais
<1>7. ASSUME NEW r \in Rastreadores, EnviarSync(r) \/ Sincronizar(r) \/ SyncPerdido(r)
      PROVE  Demais'
  BY <1>1, <1>7 DEF Demais, EnviarSync, Sincronizar, SyncPerdido, RetratoDe
<1>8. ASSUME NEW r \in Rastreadores, Cair(r) \/ Voltar(r)
      PROVE  Demais'
  <2>1. Vazio \in Retrato
    BY DEF Vazio, Retrato
  <2> QED BY <1>1, <1>8, <2>1, RastreioAssumption DEF Demais, Cair, Voltar
<1> QED BY <1>2, <1>3, <1>4, <1>5, <1>6, <1>7, <1>8 DEF Next

\* The positions in a queue
Mensagens(s) == {s[i] : i \in 1..Len(s)}

\* A queue grows at its end and is consumed at its head.
LEMMA Filas ==
    ASSUME NEW S, NEW s \in Seq(S), NEW m \in S
    PROVE  /\ Append(s, m) \in Seq(S) /\ Len(Append(s, m)) = Len(s) + 1
           /\ Mensagens(Append(s, m)) = Mensagens(s) \cup {m}
           /\ s # <<>> => /\ Head(s) \in S /\ Head(s) \in Mensagens(s)
                          /\ Tail(s) \in Seq(S) /\ Len(Tail(s)) = Len(s) - 1
                          /\ Mensagens(Tail(s)) \subseteq Mensagens(s)
           /\ \A n \in Mensagens(s) : n \in S
<1>1. /\ Append(s, m) \in Seq(S) /\ Len(Append(s, m)) = Len(s) + 1 /\ Len(s) \in Nat
      /\ \A i \in 1..Len(s) : Append(s, m)[i] = s[i]
      /\ Append(s, m)[Len(s) + 1] = m
  BY AppendProperties, LenProperties
<1>2. Mensagens(Append(s, m)) = Mensagens(s) \cup {m}
  BY <1>1 DEF Mensagens
<1>3. ASSUME s # <<>>
      PROVE  /\ Head(s) \in S /\ Head(s) \in Mensagens(s)
             /\ Tail(s) \in Seq(S) /\ Len(Tail(s)) = Len(s) - 1
             /\ Mensagens(Tail(s)) \subseteq Mensagens(s)
  <2>1. /\ Head(s) \in S /\ Tail(s) \in Seq(S) /\ Len(Tail(s)) = Len(s) - 1
        /\ \A i \in 1..Len(Tail(s)) : Tail(s)[i] = s[i + 1]
    BY <1>3, HeadTailProperties
  <2>2. Len(s) \in Nat \ {0} /\ Head(s) = s[1]
    BY <1>3, EmptySeq, LenProperties
  <2> QED BY <2>1, <2>2 DEF Mensagens
<1>4. \A n \in Mensagens(s) : n \in S
  BY ElementOfSeq DEF Mensagens
<1> QED BY <1>1, <1>2, <1>3, <1>4

\* A queue of positions of the past remains one.
LEMMA FilaEnvelhece ==
    ASSUME agora \in Nat, agora' \in Nat, agora <= agora'
    PROVE  Seq(Posicao) \subseteq Seq(Posicao')
<1>1. Posicao \subseteq Posicao'
  BY DEF Posicao
<1> QED BY <1>1

\* Nobody knows a position of the future, and the queues keep their bound.
LEMMA PassoRelogio == Base /\ [Next]_vars => Relogio'
<1> SUFFICES ASSUME Base, [Next]_vars PROVE Relogio'
  OBVIOUS
<1> USE DEF adm, entregador, rastreador, sup, historia
<1>1. Demais /\ Relogio /\ agora \in Nat /\ agora <= MaxTempo /\ MaxTempo \in Nat
  BY PartesDaBase, RastreioAssumption DEF Relogio
<1>2. CASE Passar
  <2>1. /\ agora' = agora + 1 /\ agora' \in 1..MaxTempo
        /\ UNCHANGED <<posicoes, conhece, vista>>
    BY <1>1, <1>2 DEF Passar, Relogio
  <2>2. Seq(Posicao) \subseteq Seq(Posicao')
    BY <1>1, <2>1, FilaEnvelhece
  <2>3. \A r \in Rastreadores, p \in Pedidos : conhece'[r][p] <= agora'
    <3>1. \A r \in Rastreadores, p \in Pedidos : conhece[r][p] \in Int /\ conhece[r][p] <= agora
      BY <1>1, RastreioAssumption DEF Relogio, Demais, Retrato, Tempo, Ausente
    <3> QED BY <1>1, <2>1, <3>1
  <2>4. posicoes' \in [Rastreadores -> Seq(Posicao')] /\ vista' \in [Pedidos -> 0..agora']
    BY <1>1, <2>1, <2>2 DEF Relogio
  <2> QED BY <1>1, <2>1, <2>3, <2>4 DEF Relogio
<1>3. ASSUME UNCHANGED <<agora, posicoes, conhece, vista>> PROVE Relogio'
  BY <1>1, <1>3 DEF Relogio, Posicao
<1>4. ASSUME NEW p \in Pedidos, EnviarPosicao(p) PROVE Relogio'
  <2> DEFINE r == destino[p]
             m == [pedido |-> p, tempo |-> agora]
  <2>1. /\ r \in Rastreadores /\ Len(posicoes[r]) < MaxFila
        /\ posicoes' = [posicoes EXCEPT ![r] = Append(@, m)]
        /\ UNCHANGED <<agora, conhece, vista>>
    BY <1>1, <1>4 DEF EnviarPosicao, Demais
  <2>2. m \in Posicao /\ posicoes[r] \in Seq(Posicao) /\ Posicao' = Posicao
    <3>1. posicoes[r] \in Seq(Posicao) /\ Posicao' = Posicao
      BY <1>1, <2>1 DEF Posicao, Relogio
    <3>2. m \in Posicao
      BY <1>1 DEF Posicao, Relogio
    <3> QED BY <3>1, <3>2
  <2> HIDE DEF m, r
  <2>3. /\ Append(posicoes[r], m) \in Seq(Posicao)
        /\ Len(Append(posicoes[r], m)) = Len(posicoes[r]) + 1
    BY <2>2, Filas
  <2>4. Len(posicoes[r]) \in Nat
    BY <2>2, LenProperties
  <2> QED BY <1>1, <2>1, <2>2, <2>3, <2>4, RastreioAssumption DEF Relogio
<1>5. ASSUME NEW p \in Pedidos, NEW r \in Rastreadores, ProcessarRegistro(r, p)
      PROVE  Relogio'
  <2>1. \A s \in Rastreadores, q \in Pedidos : conhece'[s][q] <= agora
    BY <1>1, <1>5 DEF Relogio, Demais, Retrato, Tempo, Ausente, ProcessarRegistro
  <2> QED BY <1>1, <1>5, <2>1 DEF Relogio, Posicao, ProcessarRegistro
<1>6. ASSUME NEW r \in Rastreadores, ReceberPosicao(r) \/ PublicacaoFalha(r)
      PROVE  Relogio'
  <2> DEFINE m == Head(posicoes[r])
  <2>1. /\ posicoes[r] # <<>> /\ posicoes[r] \in Seq(Posicao)
        /\ posicoes' = [posicoes EXCEPT ![r] = Tail(@)] /\ agora' = agora
    BY <1>1, <1>6 DEF ReceberPosicao, PublicacaoFalha, Relogio
  <2>2. /\ m \in Posicao /\ Tail(posicoes[r]) \in Seq(Posicao)
        /\ Len(Tail(posicoes[r])) = Len(posicoes[r]) - 1 /\ Len(posicoes[r]) \in Nat
    BY <2>1, HeadTailProperties, LenProperties
  <2> HIDE DEF m
  <2>3. m.pedido \in Pedidos /\ m.tempo \in 1..agora
    BY <2>2 DEF Posicao
  <2>4. \/ conhece' = [conhece EXCEPT ![r][m.pedido] = m.tempo]
        \/ conhece' = conhece
    BY <1>6 DEF ReceberPosicao, PublicacaoFalha, m
  <2>5. \/ vista' = [vista EXCEPT ![m.pedido] = m.tempo]
        \/ vista' = vista
    BY <1>6 DEF ReceberPosicao, PublicacaoFalha, m
  <2>6. \A s \in Rastreadores, q \in Pedidos : conhece'[s][q] <= agora
    <3>1. \A s \in Rastreadores, q \in Pedidos :
              conhece'[s][q] = conhece[s][q] \/ conhece'[s][q] = m.tempo
      BY <1>1, <2>3, <2>4 DEF Demais, Retrato
    <3>2. \A s \in Rastreadores, q \in Pedidos : conhece[s][q] <= agora
      BY <1>1 DEF Relogio
    <3> QED BY <1>1, <2>3, <3>1, <3>2
  <2>7. vista' \in [Pedidos -> 0..agora]
    BY <1>1, <2>3, <2>5 DEF Relogio
  <2>8. /\ posicoes' \in [Rastreadores -> Seq(Posicao)]
        /\ \A s \in Rastreadores : Len(posicoes'[s]) <= MaxFila
    BY <1>1, <2>1, <2>2, RastreioAssumption DEF Relogio
  <2> QED BY <1>1, <2>1, <2>6, <2>7, <2>8 DEF Relogio, Posicao
<1>7. ASSUME NEW r \in Rastreadores, Cair(r) PROVE Relogio'
  <2>1. /\ posicoes' = [posicoes EXCEPT ![r] = <<>>]
        /\ conhece' = [conhece EXCEPT ![r] = Vazio]
        /\ UNCHANGED <<agora, vista>>
    BY <1>7 DEF Cair
  <2>2. \A s \in Rastreadores, q \in Pedidos : conhece'[s][q] <= agora
    BY <1>1, <2>1 DEF Relogio, Demais, Vazio, Ausente
  <2>3. /\ posicoes' \in [Rastreadores -> Seq(Posicao)]
        /\ \A s \in Rastreadores : Len(posicoes'[s]) <= MaxFila
    BY <1>1, <2>1, RastreioAssumption DEF Relogio
  <2> QED BY <1>1, <2>1, <2>2, <2>3 DEF Relogio, Posicao
<1> QED BY <1>2, <1>3, <1>4, <1>5, <1>6, <1>7
    DEF Next, vars, Aceitar, Redistribuir, Rebalancear, Mover, Confirmar,
        RastreadorAtualizado, EnvioFalha, EnviarSync, Sincronizar, SyncPerdido, Voltar

\* A tracker that does not run gets nothing, and one that crashes loses everything.
LEMMA PassoDesligados == Base /\ [Next]_vars => Desligados'
<1> SUFFICES ASSUME Base, [Next]_vars PROVE Desligados'
  OBVIOUS
<1> USE DEF adm, entregador, rastreador, sup, historia
<1>1. Demais /\ Relogio /\ Desligados
  BY PartesDaBase
<1>2. CASE UNCHANGED <<vivos, registros, posicoes, conhece>>
  BY <1>1, <1>2 DEF Desligados
<1>3. ASSUME NEW p \in Pedidos, NEW r \in Rastreadores,
             Aceitar(p, r) \/ Redistribuir(p, r) \/ Rebalancear(p, r)
      PROVE  Desligados'
  BY <1>1, <1>3
  DEF Desligados, Demais, Aceitar, Redistribuir, Rebalancear, Mover, Registrar
<1>4. ASSUME NEW p \in Pedidos, EnviarPosicao(p) PROVE Desligados'
  BY <1>1, <1>4 DEF Desligados, Demais, Relogio, EnviarPosicao
<1>5. ASSUME NEW p \in Pedidos, NEW r \in Rastreadores, ProcessarRegistro(r, p)
      PROVE  Desligados'
  BY <1>1, <1>5 DEF Desligados, Demais, ProcessarRegistro
<1>6. ASSUME NEW r \in Rastreadores, ReceberPosicao(r) \/ PublicacaoFalha(r)
      PROVE  Desligados'
  <2>1. r \in vivos
    BY <1>1, <1>6 DEF Desligados, ReceberPosicao, PublicacaoFalha
  <2>2. /\ posicoes' = [posicoes EXCEPT ![r] = Tail(@)]
        /\ UNCHANGED <<vivos, registros>>
        /\ \A s \in Rastreadores \ {r} : conhece'[s] = conhece[s]
    BY <1>1, <1>6 DEF ReceberPosicao, PublicacaoFalha, Demais
  <2> QED BY <1>1, <2>1, <2>2 DEF Desligados, Relogio
<1>7. ASSUME NEW r \in Rastreadores, Cair(r) \/ Voltar(r) PROVE Desligados'
  BY <1>1, <1>7 DEF Desligados, Demais, Relogio, Cair, Voltar
<1> QED BY <1>2, <1>3, <1>4, <1>5, <1>6, <1>7
    DEF Next, vars, Passar, Confirmar, RastreadorAtualizado, EnvioFalha, EnviarSync,
        Sincronizar, SyncPerdido

\* The three parts together
LEMMA PassoBase == Base /\ [Next]_vars => Base'
<1>1. Base /\ [Next]_vars => (Demais /\ Relogio /\ Desligados)'
  BY PassoDemais, PassoRelogio, PassoDesligados
<1> QED BY <1>1, PartesDaBase, PTL

\* Every variable keeps its type, a tracker that is down keeps nothing, and no one ever
\* knows a position of the future.
THEOREM TipoDoRastreio == Spec => []TypeOK
<1>1. Base => TypeOK
  BY DEF Base
<1> QED BY <1>1, InicioBase, PassoBase, PTL DEF Spec

-----------------------------------------------------------------------------
(* What a step does to the positions *)

\* A position is taken from a queue: if new, it is known from then on and shown, or not
\* when its publication raises.
LEMMA ReceberEfeito ==
    ASSUME Base, NEW r \in Rastreadores, ReceberPosicao(r) \/ PublicacaoFalha(r)
    PROVE  \E m \in Mensagens(posicoes[r]) :
               /\ m.pedido \in Pedidos /\ m.tempo \in 1..agora
               /\ Mensagens(posicoes'[r]) \subseteq Mensagens(posicoes[r])
               /\ \A s \in Rastreadores \ {r} : posicoes'[s] = posicoes[s]
               /\ \/ UNCHANGED <<conhece, vista>>
                  \/ /\ Nova(r, m)
                     /\ \A s \in Rastreadores, q \in Pedidos :
                            conhece'[s][q] = IF s = r /\ q = m.pedido THEN m.tempo
                                                                     ELSE conhece[s][q]
                     /\ \/ vista' = vista
                        \/ \A q \in Pedidos :
                               vista'[q] = IF q = m.pedido THEN m.tempo ELSE vista[q]
<1> DEFINE m == Head(posicoes[r])
<1>1. Demais /\ Relogio
  BY PartesDaBase
<1>2. /\ posicoes[r] # <<>> /\ posicoes[r] \in Seq(Posicao)
      /\ posicoes' = [posicoes EXCEPT ![r] = Tail(@)]
  BY <1>1 DEF ReceberPosicao, PublicacaoFalha, Relogio
<1>3. /\ m \in Posicao /\ m \in Mensagens(posicoes[r])
      /\ Mensagens(Tail(posicoes[r])) \subseteq Mensagens(posicoes[r])
  <2>1. m \in Posicao
    BY <1>2, HeadTailProperties
  <2> HIDE DEF m
  <2> QED BY <1>2, <2>1, Filas DEF m
<1>4. m.pedido \in Pedidos /\ m.tempo \in 1..agora
  <2> HIDE DEF m
  <2> QED BY <1>3 DEF Posicao
<1>5. \/ UNCHANGED <<conhece, vista>>
      \/ /\ Nova(r, m) /\ conhece' = [conhece EXCEPT ![r][m.pedido] = m.tempo]
         /\ vista' = vista \/ vista' = [vista EXCEPT ![m.pedido] = m.tempo]
  BY DEF ReceberPosicao, PublicacaoFalha
<1> HIDE DEF m
<1>6. conhece \in [Rastreadores -> [Pedidos -> Tempo \cup {Ausente}]] /\ vista \in [Pedidos -> 0..agora]
  BY <1>1 DEF Demais, Relogio, Retrato
<1>7. /\ posicoes'[r] = Tail(posicoes[r])
      /\ \A s \in Rastreadores \ {r} : posicoes'[s] = posicoes[s]
  BY <1>1, <1>2 DEF Relogio
<1> QED BY <1>3, <1>4, <1>5, <1>6, <1>7

\* A tracker that goes on running forgets no position and goes back to none.
LEMMA ConheceCresce ==
    ASSUME Base, [Next]_vars, NEW r \in Rastreadores, ~Cair(r), NEW p \in Pedidos
    PROVE  conhece'[r][p] >= conhece[r][p]
<1> USE DEF adm, entregador, rastreador, sup, historia
<1>1. Demais /\ Relogio /\ \A q \in Pedidos, s \in Rastreadores : conhece[s][q] \in Int
  BY PartesDaBase, RastreioAssumption DEF Demais, Retrato, Tempo, Ausente
<1>2. CASE conhece' = conhece
  BY <1>1, <1>2
<1>3. ASSUME NEW s \in Rastreadores, NEW q \in Pedidos, ProcessarRegistro(s, q)
      PROVE  conhece'[r][p] >= conhece[r][p]
  <2>1. conhece'[r][p] = conhece[r][p] \/ (conhece'[r][p] = 0 /\ conhece[r][p] = Ausente)
    BY <1>1, <1>3 DEF ProcessarRegistro, Demais, Retrato
  <2> QED BY <1>1, <2>1 DEF Ausente
<1>4. ASSUME NEW s \in Rastreadores, ReceberPosicao(s) \/ PublicacaoFalha(s)
      PROVE  conhece'[r][p] >= conhece[r][p]
  <2>1. \/ conhece' = conhece
        \/ \E m \in Mensagens(posicoes[s]) :
               /\ m.tempo \in 1..agora /\ Nova(s, m)
               /\ conhece'[r][p] = IF r = s /\ p = m.pedido THEN m.tempo ELSE conhece[r][p]
    BY <1>4, ReceberEfeito
  <2> QED BY <1>1, <2>1 DEF Nova
<1>5. ASSUME NEW s \in Rastreadores, Cair(s) PROVE conhece'[r][p] >= conhece[r][p]
  <2>1. s # r
    BY <1>5
  <2>2. conhece'[r][p] = conhece[r][p]
    BY <1>1, <1>5, <2>1 DEF Cair, Demais
  <2> QED BY <1>1, <2>2
<1> QED BY <1>2, <1>3, <1>4, <1>5
    DEF Next, vars, Passar, Aceitar, Redistribuir, Rebalancear, Mover, Confirmar,
        RastreadorAtualizado, EnviarPosicao, EnvioFalha, EnviarSync, Sincronizar,
        SyncPerdido, Voltar

-----------------------------------------------------------------------------
(* The backups *)

\* While a tracker has not restarted its backup has nothing newer than the snapshot on
\* its way, and neither has anything newer than the tracker, as long as that runs.
Atrasado(r, p) ==
    /\ emVoo[r] # SemPedido => backup[r][p] <= emVoo[r][p]
    /\ r \in vivos => /\ backup[r][p] <= conhece[r][p]
                      /\ emVoo[r] # SemPedido => emVoo[r][p] <= conhece[r][p]

IInvBackup == Base /\ \A r \in Rastreadores \ reiniciados, p \in Pedidos : Atrasado(r, p)

\* Trackers and backups start empty.
LEMMA InicioBackup == Init => IInvBackup
BY InicioBase DEF Init, IInvBackup, Atrasado, Vazio, Ausente

\* The snapshots are sent one at a time and replace the backup in their order.
LEMMA PassoBackup == IInvBackup /\ [Next]_vars => IInvBackup'
<1> SUFFICES ASSUME IInvBackup, [Next]_vars, NEW r \in Rastreadores \ reiniciados', NEW p \in Pedidos
             PROVE  Atrasado(r, p)'
  BY PassoBase DEF IInvBackup
<1> USE DEF adm, entregador, rastreador, sup, historia
<1>1. /\ Base /\ Demais /\ Demais'
  BY PartesDaBase, PassoBase, PassoDemais DEF IInvBackup
<1>2. /\ conhece[r][p] \in Int /\ conhece'[r][p] \in Int
      /\ backup[r][p] \in Int
      /\ emVoo[r] # SemPedido => emVoo[r][p] \in Int
  BY <1>1, RastreioAssumption DEF Demais, Retrato, Tempo, Ausente
<1>3. /\ r \notin reiniciados /\ Atrasado(r, p)
      /\ r \in vivos' => r \in vivos /\ conhece'[r][p] >= conhece[r][p]
  <2>1. reiniciados \subseteq reiniciados' /\ vivos' \subseteq vivos \cup reiniciados'
    BY DEF Next, vars, Passar, Aceitar, Redistribuir, Rebalancear, Mover, Confirmar,
           RastreadorAtualizado, EnviarPosicao, EnvioFalha, ProcessarRegistro, ReceberPosicao,
           PublicacaoFalha, EnviarSync, Sincronizar, SyncPerdido, Cair, Voltar
  <2>2. r \in vivos' => ~Cair(r)
    BY DEF Cair
  <2> QED BY <1>1, <2>1, <2>2, ConheceCresce DEF IInvBackup
<1>4. CASE UNCHANGED <<emVoo, backup>>
  BY <1>2, <1>3, <1>4 DEF Atrasado
<1>5. ASSUME NEW s \in Rastreadores, EnviarSync(s) \/ Sincronizar(s) \/ SyncPerdido(s)
      PROVE  Atrasado(r, p)'
  <2>1. CASE s # r
    <3>1. emVoo'[r] = emVoo[r] /\ backup'[r] = backup[r]
      BY <1>1, <1>5, <2>1 DEF EnviarSync, Sincronizar, SyncPerdido, Demais
    <3> QED BY <1>2, <1>3, <3>1 DEF Atrasado
  <2>2. CASE s = r /\ EnviarSync(r)
    <3>1. /\ emVoo'[r] = conhece[r] /\ r \in vivos /\ UNCHANGED <<backup, conhece, vivos>>
      BY <1>1, <2>2 DEF EnviarSync, RetratoDe, Demais
    <3> QED BY <1>2, <1>3, <3>1 DEF Atrasado
  <2>3. CASE s = r /\ Sincronizar(r)
    <3>1. /\ emVoo[r] # SemPedido /\ backup'[r] = emVoo[r] /\ emVoo'[r] = SemPedido
          /\ UNCHANGED <<conhece, vivos>>
      BY <1>1, <2>3 DEF Sincronizar, Demais
    <3> QED BY <1>2, <1>3, <3>1 DEF Atrasado
  <2>4. CASE s = r /\ SyncPerdido(r)
    <3>1. emVoo'[r] = SemPedido /\ UNCHANGED <<backup, conhece, vivos>>
      BY <1>1, <2>4 DEF SyncPerdido, Demais
    <3> QED BY <1>2, <1>3, <3>1 DEF Atrasado
  <2> QED BY <1>5, <2>1, <2>2, <2>3, <2>4
<1> QED BY <1>4, <1>5
    DEF Next, vars, Passar, Aceitar, Redistribuir, Rebalancear, Mover, Confirmar,
        RastreadorAtualizado, EnviarPosicao, EnvioFalha, ProcessarRegistro, ReceberPosicao,
        PublicacaoFalha, Cair, Voltar

\* A backup never loses an order nor goes back to an older position, as long as its
\* tracker has not restarted: through crashes, lost snapshots and late ones.
THEOREM BackupAvanca == Spec => BackupNaoRegride
<1> USE DEF adm, entregador, rastreador, sup, historia
<1>1. IInvBackup /\ [Next]_vars =>
          [\A r \in Rastreadores \ reiniciados, p \in Pedidos :
               backup'[r][p] >= backup[r][p]]_vars
  <2> SUFFICES ASSUME IInvBackup, Next, NEW r \in Rastreadores \ reiniciados, NEW p \in Pedidos
               PROVE  backup'[r][p] >= backup[r][p]
    OBVIOUS
  <2>1. Demais /\ backup[r][p] \in Int
    BY PartesDaBase, RastreioAssumption DEF IInvBackup, Demais, Retrato, Tempo, Ausente
  <2>2. \/ backup' = backup
        \/ \E s \in Rastreadores : Sincronizar(s)
    BY DEF Next, vars, Passar, Aceitar, Redistribuir, Rebalancear, Mover, Confirmar,
           RastreadorAtualizado, EnviarPosicao, EnvioFalha, ProcessarRegistro, ReceberPosicao,
           PublicacaoFalha, EnviarSync, SyncPerdido, Cair, Voltar
  <2>3. backup'[r] = backup[r] \/ (emVoo[r] # SemPedido /\ backup'[r] = emVoo[r])
    BY <2>1, <2>2 DEF Sincronizar, Demais
  <2>4. emVoo[r] # SemPedido => emVoo[r][p] \in Int /\ backup[r][p] <= emVoo[r][p]
    BY <2>1, RastreioAssumption DEF IInvBackup, Atrasado, Demais, Retrato, Tempo, Ausente
  <2> QED BY <2>1, <2>3, <2>4
<1> QED BY <1>1, InicioBackup, PassoBackup, PTL DEF Spec, BackupNaoRegride
-----------------------------------------------------------------------------
(* What the customer sees *)

\* The positions of an order on their way to a tracker
De(p, r) == {m \in Mensagens(posicoes[r]) : m.pedido = p}

\* Nobody has to do with an order before its driver accepts it.
Novo(p) == fase[p] = "novo" => rota[p] = Nenhum /\ aviso[p] = Nenhum /\ destino[p] = Nenhum

\* Only the tracker of the order has it, or is about to.
SoARota(p) == \A r \in Rastreadores \ {rota[p]} : conhece[r][p] = Ausente /\ p \notin registros[r]

\* To another tracker that never crashed there are no positions on their way, and no
\* driver to send one: it cannot be given the order with old positions waiting.
SemRastro(p) ==
    \A r \in vivos \ reiniciados :
        r # rota[p] => destino[p] # r /\ aviso[p] # r /\ De(p, r) = {}

\* What the tracker may still show is not older than what the customer sees: it knows a
\* position as new, or, if it has just been given the order, none of those waiting is older.
Adiante(p) ==
    \A r \in Rastreadores \ reiniciados :
        r = rota[p] => \/ vista[p] <= conhece[r][p]
                       \/ \A m \in De(p, r) : vista[p] <= m.tempo

IInvVista ==
    /\ Base
    /\ \A p \in Pedidos : Novo(p) /\ (p \notin movidos => SoARota(p) /\ SemRastro(p) /\ Adiante(p))

\* No position waits in an empty queue; those that wait are of the past.
LEMMA PosicoesEmEspera ==
    ASSUME Base, NEW r \in Rastreadores
    PROVE  /\ posicoes[r] = <<>> => \A p \in Pedidos : De(p, r) = {}
           /\ \A p \in Pedidos : \A m \in De(p, r) : m.tempo \in 1..agora
<1>1. posicoes[r] \in Seq(Posicao)
  BY DEF Base
<1>2. \A m \in Mensagens(posicoes[r]) : m \in Posicao
  BY <1>1, ElementOfSeq DEF Mensagens
<1>3. posicoes[r] = <<>> => Mensagens(posicoes[r]) = {}
  BY <1>1, EmptySeq DEF Mensagens
<1> QED BY <1>2, <1>3 DEF De, Posicao

\* The driver's thread sends the time of the clock to the tracker it knows.
LEMMA EnviarEfeito ==
    ASSUME Base, NEW p \in Pedidos, EnviarPosicao(p)
    PROVE  /\ destino[p] \in vivos
           /\ \A r \in Rastreadores :
                  /\ r # destino[p] => posicoes'[r] = posicoes[r]
                  /\ r = destino[p] => Mensagens(posicoes'[r]) =
                         Mensagens(posicoes[r]) \cup {[pedido |-> p, tempo |-> agora]}
<1> DEFINE r == destino[p]
           m == [pedido |-> p, tempo |-> agora]
<1>1. Demais /\ Relogio
  BY PartesDaBase
<1>2. /\ r \in vivos /\ r \in Rastreadores
      /\ posicoes' = [posicoes EXCEPT ![r] = Append(@, m)]
  BY <1>1 DEF EnviarPosicao, Demais
<1>3. m \in Posicao /\ posicoes[r] \in Seq(Posicao)
  <2>1. posicoes[r] \in Seq(Posicao)
    BY <1>1, <1>2 DEF Relogio
  <2>2. m \in Posicao
    BY <1>1 DEF Posicao, Relogio
  <2> QED BY <2>1, <2>2
<1> HIDE DEF m, r
<1>4. Mensagens(Append(posicoes[r], m)) = Mensagens(posicoes[r]) \cup {m}
  BY <1>3, Filas
<1>5. \A s \in Rastreadores : /\ s # r => posicoes'[s] = posicoes[s]
                             /\ s = r => posicoes'[s] = Append(posicoes[r], m)
  BY <1>1, <1>2 DEF Relogio
<1> QED BY <1>2, <1>4, <1>5 DEF r, m

\* No order has a tracker yet.
LEMMA InicioVista == Init => IInvVista
<1> SUFFICES ASSUME Init PROVE IInvVista
  OBVIOUS
<1>1. Base
  BY InicioBase
<1>2. \A p \in Pedidos : Novo(p) /\ SoARota(p) /\ Adiante(p)
  BY RastreioAssumption, <1>1, PosicoesEmEspera DEF Init, Novo, SoARota, Adiante, Vazio
<1>3. \A p \in Pedidos : SemRastro(p)
  BY RastreioAssumption, <1>1, PosicoesEmEspera DEF Init, SemRastro
<1> QED BY <1>1, <1>2, <1>3 DEF IInvVista

\* Only the acceptance gives a new order a tracker.
LEMMA PassoNovo ==
    ASSUME IInvVista, [Next]_vars, NEW q \in Pedidos
    PROVE  Novo(q)'
<1> USE DEF adm, entregador, rastreador, sup, historia
<1>1. Demais /\ Novo(q)
  BY PartesDaBase DEF IInvVista
<1>2. CASE UNCHANGED <<fase, rota, aviso, destino>>
  BY <1>1, <1>2 DEF Novo
<1>3. ASSUME NEW p \in Pedidos, NEW r \in Rastreadores,
             Aceitar(p, r) \/ Redistribuir(p, r) \/ Rebalancear(p, r)
      PROVE  Novo(q)'
  BY <1>1, <1>3 DEF Novo, Demais, Aceitar, Redistribuir, Rebalancear, Mover
<1>4. ASSUME NEW p \in Pedidos, Confirmar(p) \/ RastreadorAtualizado(p)
      PROVE  Novo(q)'
  BY <1>1, <1>4 DEF Novo, Demais, Confirmar, RastreadorAtualizado
<1> QED BY <1>2, <1>3, <1>4
    DEF Next, vars, Passar, EnviarPosicao, EnvioFalha, ProcessarRegistro, ReceberPosicao,
        PublicacaoFalha, EnviarSync, Sincronizar, SyncPerdido, Cair, Voltar

\* An order moved away from a tracker that ran is remembered as such.
LEMMA MovidosCresce == [Next]_vars => movidos \subseteq movidos'
BY DEF Next, vars, Passar, Aceitar, Redistribuir, Rebalancear, Mover, Confirmar,
       RastreadorAtualizado, EnviarPosicao, EnvioFalha, ProcessarRegistro, ReceberPosicao,
       PublicacaoFalha, EnviarSync, Sincronizar, SyncPerdido, Cair, Voltar,
       adm, entregador, rastreador, sup, historia

\* Outside its moves an order is registered, and its positions stored, at its tracker
\* alone; the tracker it is redistributed from has lost everything.
LEMMA PassoSoARota ==
    ASSUME IInvVista, [Next]_vars, NEW q \in Pedidos, q \notin movidos'
    PROVE  SoARota(q)'
<1> USE DEF adm, entregador, rastreador, sup, historia
<1>1. q \notin movidos
  BY MovidosCresce
<1>2. Base /\ Demais /\ Relogio /\ Desligados /\ Novo(q) /\ SoARota(q)
  BY <1>1, PartesDaBase DEF IInvVista
<1>3. CASE UNCHANGED <<rota, registros, conhece>>
  BY <1>2, <1>3 DEF SoARota
<1>4. ASSUME NEW p \in Pedidos, NEW r \in Rastreadores, Aceitar(p, r) PROVE SoARota(q)'
  BY <1>2, <1>4, RastreioAssumption DEF Novo, SoARota, Demais, Aceitar, Registrar
<1>5. ASSUME NEW p \in Pedidos, NEW r \in Rastreadores, Redistribuir(p, r) PROVE SoARota(q)'
  BY <1>2, <1>5 DEF SoARota, Demais, Desligados, Vazio, Redistribuir, Mover, Registrar
<1>6. ASSUME NEW p \in Pedidos, NEW r \in Rastreadores, Rebalancear(p, r) PROVE SoARota(q)'
  <2>1. p # q
    BY <1>6 DEF Rebalancear
  <2> QED BY <1>2, <1>6, <2>1 DEF SoARota, Demais, Rebalancear, Mover, Registrar
<1>7. ASSUME NEW p \in Pedidos, NEW r \in Rastreadores, ProcessarRegistro(r, p)
      PROVE  SoARota(q)'
  BY <1>2, <1>7 DEF SoARota, Demais, Retrato, ProcessarRegistro
<1>8. ASSUME NEW r \in Rastreadores, ReceberPosicao(r) \/ PublicacaoFalha(r)
      PROVE  SoARota(q)'
  <2>1. \/ conhece' = conhece
        \/ \E m \in Mensagens(posicoes[r]) :
               /\ Nova(r, m)
               /\ \A s \in Rastreadores :
                      conhece'[s][q] = IF s = r /\ q = m.pedido THEN m.tempo ELSE conhece[s][q]
    BY <1>2, <1>8, ReceberEfeito
  <2>2. UNCHANGED <<rota, registros>>
    BY <1>8 DEF ReceberPosicao, PublicacaoFalha
  <2> QED BY <1>2, <2>1, <2>2, RastreioAssumption DEF SoARota, Nova, Tempo, Ausente
<1>9. ASSUME NEW r \in Rastreadores, Cair(r) PROVE SoARota(q)'
  BY <1>2, <1>9 DEF SoARota, Demais, Vazio, Cair
<1> QED BY <1>3, <1>4, <1>5, <1>6, <1>7, <1>8, <1>9
    DEF Next, vars, Passar, Confirmar, RastreadorAtualizado, EnviarPosicao, EnvioFalha,
        EnviarSync, Sincronizar, SyncPerdido, Voltar
\* No driver is sent to a tracker that never crashed and is not the one of its order.
LEMMA PassoSemRastro ==
    ASSUME IInvVista, [Next]_vars, NEW q \in Pedidos, q \notin movidos'
    PROVE  SemRastro(q)'
<1> USE DEF adm, entregador, rastreador, sup, historia
<1>1. /\ q \notin movidos
      /\ vivos' \ reiniciados' \subseteq vivos \ reiniciados
  BY DEF Next, vars, Passar, Aceitar, Redistribuir, Rebalancear, Mover, Confirmar,
         RastreadorAtualizado, EnviarPosicao, EnvioFalha, ProcessarRegistro, ReceberPosicao,
         PublicacaoFalha, EnviarSync, Sincronizar, SyncPerdido, Cair, Voltar
<1>2. Base /\ Demais /\ Relogio /\ Desligados /\ Novo(q) /\ SemRastro(q)
  BY <1>1, PartesDaBase DEF IInvVista
<1>3. CASE UNCHANGED <<rota, destino, aviso, posicoes>>
  BY <1>1, <1>2, <1>3 DEF SemRastro, De
<1>4. ASSUME NEW p \in Pedidos, NEW r \in Rastreadores,
             Aceitar(p, r) \/ Redistribuir(p, r) \/ Rebalancear(p, r)
      PROVE  SemRastro(q)'
  <2>1. posicoes' = posicoes /\ vivos' = vivos /\ reiniciados' = reiniciados
    BY <1>4 DEF Aceitar, Redistribuir, Rebalancear, Mover
  <2>2. CASE p # q
    <3>1. rota'[q] = rota[q] /\ destino'[q] = destino[q] /\ aviso'[q] = aviso[q]
      BY <1>2, <1>4, <2>2 DEF Demais, Aceitar, Redistribuir, Rebalancear, Mover
    <3> QED BY <1>2, <2>1, <3>1 DEF SemRastro, De
  <2>3. CASE p = q /\ Aceitar(q, r)
    <3>1. rota[q] = Nenhum /\ aviso[q] = Nenhum /\ rota'[q] = r /\ destino'[q] = r /\ aviso' = aviso
      BY <1>2, <2>3 DEF Novo, Demais, Aceitar
    <3> QED BY <1>2, <2>1, <3>1, RastreioAssumption DEF SemRastro, De, Demais
  <2>4. CASE p = q /\ Redistribuir(q, r)
    <3>1. /\ rota[q] \notin vivos /\ rota'[q] = r /\ aviso'[q] = r /\ destino' = destino
      BY <1>2, <2>4 DEF Demais, Redistribuir, Mover
    <3> QED BY <1>2, <2>1, <3>1 DEF SemRastro, De
  <2>5. ~(p = q /\ Rebalancear(q, r))
    BY DEF Rebalancear
  <2> QED BY <1>4, <2>2, <2>3, <2>4, <2>5
<1>5. ASSUME NEW p \in Pedidos, Confirmar(p) \/ RastreadorAtualizado(p)
      PROVE  SemRastro(q)'
  <2>1. /\ UNCHANGED <<rota, posicoes, vivos, reiniciados>>
        /\ destino'[q] \in {destino[q], aviso[q], Nenhum}
        /\ aviso'[q] \in {aviso[q], Nenhum}
    BY <1>2, <1>5 DEF Demais, Confirmar, RastreadorAtualizado
  <2> QED BY <1>2, <2>1, RastreioAssumption DEF SemRastro, De, Demais
<1>6. ASSUME NEW p \in Pedidos, EnviarPosicao(p) PROVE SemRastro(q)'
  <2>1. \A r \in Rastreadores : r # destino[q] => De(q, r)' \subseteq De(q, r)
    BY <1>2, <1>6, EnviarEfeito DEF De
  <2>2. UNCHANGED <<rota, destino, aviso, vivos, reiniciados>>
    BY <1>6 DEF EnviarPosicao
  <2> QED BY <1>2, <2>1, <2>2 DEF SemRastro, Demais
<1>7. ASSUME NEW s \in Rastreadores, ReceberPosicao(s) \/ PublicacaoFalha(s)
      PROVE  SemRastro(q)'
  <2>1. \A r \in Rastreadores : De(q, r)' \subseteq De(q, r)
    BY <1>2, <1>7, ReceberEfeito DEF De
  <2>2. UNCHANGED <<rota, destino, aviso, vivos, reiniciados>>
    BY <1>7 DEF ReceberPosicao, PublicacaoFalha
  <2> QED BY <1>2, <2>1, <2>2 DEF SemRastro, Demais
<1>8. ASSUME NEW s \in Rastreadores, Cair(s) PROVE SemRastro(q)'
  <2>1. \A r \in vivos' : r \in vivos /\ posicoes'[r] = posicoes[r]
    BY <1>2, <1>8 DEF Cair, Demais, Relogio
  <2>2. UNCHANGED <<rota, destino, aviso, reiniciados>>
    BY <1>8 DEF Cair
  <2> QED BY <1>2, <2>1, <2>2 DEF SemRastro, De, Demais
<1> QED BY <1>3, <1>4, <1>5, <1>6, <1>7, <1>8
    DEF Next, vars, Passar, EnvioFalha, ProcessarRegistro, EnviarSync, Sincronizar,
        SyncPerdido, Voltar

\* The tracker of an order knows what it shows, and one just given the order, still
\* without memory, gets only positions sent after that.
LEMMA PassoAdiante ==
    ASSUME IInvVista, [Next]_vars, NEW q \in Pedidos, q \notin movidos'
    PROVE  Adiante(q)'
<1> USE DEF adm, entregador, rastreador, sup, historia
<1>1. q \notin movidos /\ reiniciados \subseteq reiniciados'
  <2>1. reiniciados \subseteq reiniciados'
    BY DEF Next, vars, Passar, Aceitar, Redistribuir, Rebalancear, Mover, Confirmar,
           RastreadorAtualizado, EnviarPosicao, EnvioFalha, ProcessarRegistro, ReceberPosicao,
           PublicacaoFalha, EnviarSync, Sincronizar, SyncPerdido, Cair, Voltar
  <2> QED BY <2>1, MovidosCresce
<1>2. /\ Base /\ Demais /\ Relogio /\ Desligados
      /\ Novo(q) /\ SoARota(q) /\ SemRastro(q) /\ Adiante(q)
  BY <1>1, PartesDaBase DEF IInvVista
<1>3. /\ vista[q] \in Int /\ vista[q] <= agora /\ agora \in Int
      /\ \A r \in Rastreadores : conhece[r][q] \in Int
  BY <1>2, RastreioAssumption DEF Demais, Relogio, Retrato, Tempo, Ausente
<1>4. CASE UNCHANGED <<rota, conhece, posicoes, vista>>
  BY <1>1, <1>2, <1>4 DEF Adiante, De
<1>5. ASSUME NEW p \in Pedidos, NEW r \in Rastreadores,
             Aceitar(p, r) \/ Redistribuir(p, r) \/ Rebalancear(p, r)
      PROVE  Adiante(q)'
  <2>1. UNCHANGED <<conhece, posicoes, vista, reiniciados>>
    BY <1>5 DEF Aceitar, Redistribuir, Rebalancear, Mover
  <2>2. CASE p # q
    <3>1. rota'[q] = rota[q]
      BY <1>2, <1>5, <2>2 DEF Demais, Aceitar, Redistribuir, Rebalancear, Mover
    <3> QED BY <1>2, <2>1, <3>1 DEF Adiante, De
  <2>3. CASE p = q /\ (Aceitar(q, r) \/ Redistribuir(q, r))
    <3>1. rota[q] \notin vivos /\ rota'[q] = r
      BY <1>2, <2>3, RastreioAssumption DEF Novo, Demais, Aceitar, Redistribuir, Mover
    <3>2. r \notin reiniciados => De(q, r) = {}
      BY <1>2, <3>1, PosicoesEmEspera DEF SemRastro, Desligados
    <3> QED BY <2>1, <3>1, <3>2 DEF Adiante, De
  <2>4. ~(p = q /\ Rebalancear(q, r))
    BY DEF Rebalancear
  <2> QED BY <1>5, <2>2, <2>3, <2>4
<1>6. ASSUME NEW p \in Pedidos, EnviarPosicao(p) PROVE Adiante(q)'
  <2>1. \A r \in Rastreadores : \A m \in De(q, r)' : m \in De(q, r) \/ m.tempo = agora
    BY <1>2, <1>6, EnviarEfeito DEF De
  <2>2. UNCHANGED <<rota, conhece, vista, reiniciados>>
    BY <1>6 DEF EnviarPosicao
  <2> QED BY <1>2, <1>3, <2>1, <2>2 DEF Adiante
<1>7. ASSUME NEW s \in Rastreadores, NEW p \in Pedidos, ProcessarRegistro(s, p)
      PROVE  Adiante(q)'
  <2>1. UNCHANGED <<rota, posicoes, vista, reiniciados>>
    BY <1>7 DEF ProcessarRegistro
  <2>2. \A r \in Rastreadores : conhece'[r][q] \in Int /\ conhece'[r][q] >= conhece[r][q]
    BY <1>2, <1>3, <1>7 DEF ProcessarRegistro, Demais, Retrato, Ausente
  <2> QED BY <1>2, <1>3, <2>1, <2>2 DEF Adiante, De
<1>8. ASSUME NEW s \in Rastreadores, ReceberPosicao(s) \/ PublicacaoFalha(s)
      PROVE  Adiante(q)'
  <2>1. PICK m \in Mensagens(posicoes[s]) :
            /\ m.tempo \in 1..agora
            /\ \/ UNCHANGED <<conhece, vista>>
               \/ /\ Nova(s, m)
                  /\ \A r \in Rastreadores :
                         conhece'[r][q] = IF r = s /\ q = m.pedido THEN m.tempo
                                                                   ELSE conhece[r][q]
                  /\ \/ vista' = vista
                     \/ vista'[q] = IF q = m.pedido THEN m.tempo ELSE vista[q]
    BY <1>2, <1>8, ReceberEfeito
  <2>2. \A r \in Rastreadores : De(q, r)' \subseteq De(q, r)
    BY <1>2, <1>8, ReceberEfeito DEF De
  <2>3. UNCHANGED <<rota, reiniciados>>
    BY <1>8 DEF ReceberPosicao, PublicacaoFalha
  <2>4. CASE vista'[q] = vista[q]
    <3>1. \A r \in Rastreadores : conhece'[r][q] \in Int /\ conhece'[r][q] >= conhece[r][q]
      BY <1>3, <2>1 DEF Nova
    <3> QED BY <1>2, <1>3, <2>2, <2>3, <2>4, <3>1 DEF Adiante
  <2>5. CASE vista'[q] # vista[q]
    <3>1. /\ Nova(s, m) /\ q = m.pedido /\ vista'[q] = m.tempo /\ conhece'[s][q] = m.tempo
      BY <2>1, <2>5
    <3>2. rota[q] = s
      BY <1>2, <3>1, RastreioAssumption DEF SoARota, Nova, Tempo, Ausente
    <3> QED BY <2>1, <2>3, <3>1, <3>2 DEF Adiante
  <2> QED BY <2>4, <2>5
<1>9. ASSUME NEW s \in Rastreadores, Cair(s) PROVE Adiante(q)'
  <2>1. /\ \A r \in Rastreadores \ {s} : conhece'[r] = conhece[r] /\ posicoes'[r] = posicoes[r]
        /\ posicoes'[s] = <<>> /\ UNCHANGED <<rota, vista, reiniciados>>
    BY <1>2, <1>9 DEF Cair, Demais, Relogio
  <2>2. Base'
    BY <1>2, PassoBase
  <2>3. De(q, s)' = {}
    <3>1. Base' => (posicoes'[s] = <<>> => De(q, s)' = {})
      BY <1>2, <2>1, EmptySeq DEF De, Mensagens
    <3> QED BY <2>1, <2>2, <3>1
  <2> QED BY <1>2, <2>1, <2>3 DEF Adiante, De
<1>10. ASSUME Passar \/ UNCHANGED vars PROVE Adiante(q)'
  BY <1>2, <1>10 DEF Adiante, De, Passar, vars
<1> QED BY <1>4, <1>5, <1>6, <1>7, <1>8, <1>9, <1>10
    DEF Next, Confirmar, RastreadorAtualizado, EnvioFalha, EnviarSync, Sincronizar,
        SyncPerdido, Voltar

\* Every step keeps, of every order never moved, who has it and what is still to be shown.
LEMMA PassoVista == IInvVista /\ [Next]_vars => IInvVista'
<1> SUFFICES ASSUME IInvVista, [Next]_vars PROVE IInvVista'
  OBVIOUS
<1>1. Base'
  BY PassoBase DEF IInvVista
<1>2. \A p \in Pedidos :
          /\ Novo(p)'
          /\ p \notin movidos' => SoARota(p)' /\ SemRastro(p)' /\ Adiante(p)'
  BY PassoNovo, PassoSoARota, PassoSemRastro, PassoAdiante
<1> QED BY <1>1, <1>2 DEF IInvVista

\* The customer is never shown an older position than the one before, through crashes
\* of trackers and redistributions of the order: of the orders never taken away from a
\* tracker that ran, as long as their tracker has not come back from a crash.
THEOREM VistaNuncaRecua == Spec => VistaMonotona
<1> USE DEF adm, entregador, rastreador, sup, historia
<1>1. IInvVista /\ [Next]_vars =>
          [\A p \in Pedidos \ movidos' : rota[p] \notin reiniciados => vista'[p] >= vista[p]]_vars
  <2> SUFFICES ASSUME IInvVista, Next, NEW p \in Pedidos \ movidos', rota[p] \notin reiniciados
               PROVE  vista'[p] >= vista[p]
    OBVIOUS
  <2>1. p \notin movidos /\ (vista' = vista \/ \E r \in Rastreadores : ReceberPosicao(r))
    BY MovidosCresce DEF Next, vars, Passar, Aceitar, Redistribuir, Rebalancear, Mover, Confirmar,
           RastreadorAtualizado, EnviarPosicao, EnvioFalha, ProcessarRegistro,
           PublicacaoFalha, EnviarSync, Sincronizar, SyncPerdido, Cair, Voltar
  <2>2. /\ Base /\ SoARota(p) /\ Adiante(p) /\ vista[p] \in Int
        /\ \A r \in Rastreadores : conhece[r][p] \in Int
    BY <2>1, PartesDaBase, RastreioAssumption
    DEF IInvVista, Demais, Relogio, Retrato, Tempo, Ausente
  <2>3. ASSUME NEW r \in Rastreadores, ReceberPosicao(r) PROVE vista'[p] >= vista[p]
    <3>1. PICK m \in Mensagens(posicoes[r]) :
              /\ m.tempo \in 1..agora
              /\ \/ vista' = vista
                 \/ /\ Nova(r, m)
                    /\ vista'[p] = IF p = m.pedido THEN m.tempo ELSE vista[p]
      BY <2>2, <2>3, ReceberEfeito
    <3>2. CASE Nova(r, m) /\ p = m.pedido
      <4>1. r = rota[p]
        BY <2>2, <3>2, RastreioAssumption DEF SoARota, Nova, Tempo, Ausente
      <4>2. m \in De(p, r)
        BY <3>1, <3>2 DEF De
      <4>3. vista[p] <= m.tempo
        BY <2>2, <3>1, <3>2, <4>1, <4>2 DEF Adiante, Nova
      <4> QED BY <2>2, <3>1, <3>2, <4>3
    <3> QED BY <2>2, <3>1, <3>2
  <2> QED BY <2>1, <2>2, <2>3
<1> QED BY <1>1, InicioVista, PassoVista, PTL DEF Spec, VistaMonotona


==============================================================================
