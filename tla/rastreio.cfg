SPECIFICATION Spec
CONSTANTS
    r1 = r1
    r2 = r2
    p1 = p1
    p2 = p2
    Rastreadores = {r1, r2}
    Pedidos = {p1}
    Nenhum = Nenhum
    ComSuporte = {r1}
    MaxTempo = 2
    MaxFila = 2
    MaxQuedas = 2
    MaxRebalanceios = 1
    MaxFalhas = 1
INVARIANTS
    TypeOK
PROPERTIES
    VistaMonotona
    BackupNaoRegride
    
\* A finite workload: the clock stops and every order is delivered.
CHECK_DEADLOCK FALSE
