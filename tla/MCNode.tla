------------------------------ MODULE MCNode ------------------------------
(***************************************************************************)
(* The smaller parts of a node: the routing table, the DHT records, the    *)
(* card caches and the surroundings of the API. They share no state, so    *)
(* the steps of one commute with those of the others: a behaviour moves    *)
(* one of them, which focus names, and the others rest.                    *)
(***************************************************************************)
EXTENDS Routing, Records, Cards, Gateway, TLC

\* Every contact has a link, and the first one has a second.
LoopPeers == [l \in Loop |-> IF l \in Contact THEN l ELSE 1]

VARIABLE focus

vars == <<focus, routingVars, recordVars, cardVars, gatewayVars>>

Init ==
    /\ focus \in {"routing", "records", "cards", "gateway"}
    /\ RoutingInit /\ RecordsInit /\ CardsInit /\ GatewayInit

Next ==
    /\ UNCHANGED focus
    /\ \/ /\ focus = "routing" /\ RoutingNext
          /\ UNCHANGED <<recordVars, cardVars, gatewayVars>>
       \/ /\ focus = "records" /\ RecordsNext
          /\ UNCHANGED <<routingVars, cardVars, gatewayVars>>
       \/ /\ focus = "cards" /\ CardsNext
          /\ UNCHANGED <<routingVars, recordVars, gatewayVars>>
       \/ /\ focus = "gateway" /\ GatewayNext
          /\ UNCHANGED <<routingVars, recordVars, cardVars>>

Spec == Init /\ [][Next]_vars /\ RecordsFairness

NodeTypeOK == RoutingTypeOK /\ RecordsTypeOK /\ CardsTypeOK /\ GatewayTypeOK
===========================================================================
