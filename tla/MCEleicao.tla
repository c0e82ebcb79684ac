----------------------------- MODULE MCEleicao -----------------------------
(* Model-checking instance of Eleicao: three ADMs, as the repository's     *)
(* cluster scripts start them.                                             *)
EXTENDS Eleicao

\* The lowest ADM may restart; the highest, see eleicao_reinicio.cfg.
SoMenor == {1}
SoMaior == {N}
=============================================================================
