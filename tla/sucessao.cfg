SPECIFICATION SpecSucessao
CONSTANTS
    r1 = r1
    r2 = r2
    r3 = r3
    p1 = p1
    p2 = p2
    d1 = d1
    d2 = d2
    Rastreadores = {r1, r2}
    Pedidos = {p1}
    Entregadores = {d1}
    Nenhum = Nenhum
    Ausente = Ausente
    Reenviaveis = {}
    PodemCair = {r2}
    Indices <- MCIndices
    HashNo <- MCHashNo
    HashPedido <- MCHashPedido
    N = 3
    MaxSucessoes = 1
    Ouvidos <- MCDois
INVARIANTS
    TipoSucessao
    CoerenciaSucessao
    MapaRealinhado
PROPERTIES
    MigraAposSucessao
