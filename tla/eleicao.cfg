SPECIFICATION Spec
CONSTANTS
    N = 3
    Atendimentos = 2
    PodemVoltar <- SoMenor
    Eventos <- Tipos
    MaxEventos = 1
    MaxAbalos = 2
INVARIANTS
    TypeOK
    UmLider
PROPERTIES
    SucessaoCorreta
    MaiorLidera
    EleicaoTermina
