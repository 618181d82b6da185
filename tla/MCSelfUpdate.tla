----------------------------- MODULE MCSelfUpdate -----------------------------
(* Small instances: an agent of version 1 and two update requests, for      *)
(* versions 3 and 2, that the server may issue in either order.             *)
EXTENDS SelfUpdate

CONSTANTS toThree, toTwo

MCRequests == {toThree, toTwo}
MCTarget == [r \in MCRequests |-> IF r = toThree THEN 3 ELSE 2]
===============================================================================
