SPECIFICATION SpecAtores
CONSTANTS
    r1 = r1
    r2 = r2
    p1 = p1
    p2 = p2
    d1 = d1
    d2 = d2
    Rastreadores = {r1, r2}
    Pedidos = {p1, p2}
    Entregadores = {d1, d2}
    Outros = {d2}
    Nenhum = Nenhum
    Ausente = Ausente
    Indices <- MCIndices
    HashNo <- MCHashNo
    HashPedido <- MCHashPedido
    DoRestaurante = {p1, p2}
    Cenarios <- MCCenarios
    MaxMudancas = 1
    MaxQuedas = 1
    MaxFalhas = 1
INVARIANTS
    TypeOK
    EntregaDoDono
    EntregaAssumida
    RotaSeguida
    TipoAtores
    PreparoLembrado
PROPERTIES
    NenhumOcioso
    PreparoChega
    ClienteEncerra
\* A finite workload: nothing is left to do once every order is delivered.
CHECK_DEADLOCK FALSE
