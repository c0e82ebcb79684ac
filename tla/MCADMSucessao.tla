---------------------------- MODULE MCADMSucessao ----------------------------
(***************************************************************************)
(* Small instances of ADMSucessao, with the ring of MCADMLider.            *)
(***************************************************************************)
EXTENDS MCADMLider, ADMSucessao

\* The successor has heard of one tracker only, having restarted, or of all.
MCDois == {{r1}, Rastreadores}
=============================================================================
