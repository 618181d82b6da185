----------------------------- MODULE MCDelivery -----------------------------
(* An instance of Delivery: an inventory snapshot beside two events, the *)
(* detection engine, and a channel of capacity one.                      *)
EXTENDS Delivery

MCMaxItems == [k \in Kinds |-> IF k = Events THEN 2 ELSE 1]
MCRank == [k \in Kinds |-> IF k = Events THEN 1 ELSE 2]
=============================================================================
