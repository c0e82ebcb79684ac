SPECIFICATION Spec
CONSTANTS
    p1 = p1
    p2 = p2
    d1 = d1
    d2 = d2
    r1 = r1
    Rastreadores = {r1}
    Pedidos = {p1}
    Entregadores = {d1, d2}
    Nenhum = Nenhum
    Ausente = Ausente
    N = 3
    MaxTarefas = 2
    PodemCair = {1, 2, 3}
    MaxFalhas = 2
    Indices = {0}
    HashNo <- MCHashNo
    HashPedido <- MCHashPedido
SYMMETRY Simetria
VIEW Vista
CONSTRAINT SimplesSeFalha
INVARIANTS
    TypeOK
    EstadosCoerentes
    
    CriacaoSobrevive
    

    
CHECK_DEADLOCK FALSE
