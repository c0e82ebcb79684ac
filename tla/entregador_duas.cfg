SPECIFICATION Spec
CONSTANTS
    r1 = r1
    r2 = r2
    p1 = p1
    p2 = p2
    d1 = d1
    d2 = d2
    Rastreadores = {r1, r2}
    Pedidos = {p1, p2}
    Entregadores = {d1, d2}
    Outros = {d2}
    Nenhum = Nenhum
    Ausente = Ausente
    Indices <- MCIndices
    HashNo <- MCHashNo
    HashPedido <- MCHashPedido
    MaxMudancas = 0
    MaxQuedas = 0
    MaxFalhas = 0
INVARIANTS
    UmaEntregaPorVez
CHECK_DEADLOCK FALSE
