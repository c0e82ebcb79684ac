---------------------------- MODULE CicloPedido ----------------------------
(***************************************************************************)
(* What the ADM leader promises about one order, whatever happens to the   *)
(* trackers: it is offered once, the first driver who accepts it keeps it  *)
(* and, once delivered, it never comes back.  (The customer may confirm a  *)
(* delivery that no driver has accepted: confirmar_entrega does not ask.)  *)
(***************************************************************************)
CONSTANTS Pedidos, Entregadores, Nenhum

VARIABLES fase,  \* the phase of each order
          dono   \* the driver who has it

vars == <<fase, dono>>

Init == /\ fase = [p \in Pedidos |-> "novo"]
        /\ dono = [p \in Pedidos |-> Nenhum]

Oferecer(p) == /\ fase[p] = "novo"
               /\ fase' = [fase EXCEPT ![p] = "disponivel"]
               /\ UNCHANGED dono

Aceitar(p, d) == /\ fase[p] = "disponivel"
                 /\ fase' = [fase EXCEPT ![p] = "aceito"]
                 /\ dono' = [dono EXCEPT ![p] = d]

Entregar(p) == /\ fase[p] \in {"disponivel", "aceito"}
               /\ fase' = [fase EXCEPT ![p] = "entregue"]
               /\ dono' = [dono EXCEPT ![p] = Nenhum]

Next == \E p \in Pedidos :
            \/ Oferecer(p)
            \/ \E d \in Entregadores : Aceitar(p, d)
            \/ Entregar(p)

Spec == Init /\ [][Next]_vars
=============================================================================
