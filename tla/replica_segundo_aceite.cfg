SPECIFICATION Spec
CONSTANTS
    p1 = p1
    p2 = p2
    d1 = d1
    d2 = d2
    r1 = r1
    Rastreadores = {r1}
    Pedidos = {p1}
    Entregadores = {d1, d2}
    Nenhum = Nenhum
    Ausente = Ausente
    N = 3
    MaxTarefas = 1
    PodemCair = {3}
    MaxFalhas = 1
    Indices = {0}
    HashNo <- MCHashNo
    HashPedido <- MCHashPedido
INVARIANTS
    UmSoEntregador
CHECK_DEADLOCK FALSE
