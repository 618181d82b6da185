--------------------------- MODULE MCScanCoordinator ---------------------------
(* A small instance: two YARA requests (one of the console, one of the     *)
(* policy), one of a type this agent does not support, of which the server *)
(* issues any two, and the agent's own YARA passes.                        *)
EXTENDS ScanCoordinator

CONSTANTS r1, r2, r3, yaraLoop

MCRequests == {r1, r2, r3}
MCTypes == {"yara"}
MCRequestType ==
    [r \in Requests |-> IF r = r3 THEN "unknown" ELSE "yara"]
MCRequestTrigger == [r \in Requests |-> IF r = r2 THEN "policy" ELSE "console"]
MCOwn == {yaraLoop}
MCOwnType == [o \in MCOwn |-> "yara"]
=============================================================================
