\* The highest ADM crashes, is replaced, and restarts.
SPECIFICATION Spec
CONSTANTS
    N = 3
    Atendimentos = 2
    PodemVoltar <- SoMaior
    Eventos = {}
    MaxEventos = 0
    MaxAbalos = 1
PROPERTIES
    UmLiderDeNovo
