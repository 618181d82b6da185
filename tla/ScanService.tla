------------------------------ MODULE ScanService ------------------------------
(***************************************************************************)
(* What the scan coordinator promises, without goroutines, queues, reports *)
(* or a server: a request is accepted at most once while it is remembered; *)
(* the runs of a type follow one another; a run takes a batch of accepted  *)
(* requests of its type (an empty one for a run of the agent's own); a     *)
(* request leaves by being run or by being dropped.                        *)
(***************************************************************************)
EXTENDS Naturals

CONSTANTS Requests, Types, RequestType

VARIABLES
    waiting,  \* accepted, not run yet
    active,   \* for each type, the set of batches being run
    settled   \* run or dropped, and still remembered

vars == <<waiting, active, settled>>

Known == waiting \cup settled \cup (UNION {UNION active[t] : t \in Types})

Init ==
    /\ waiting = {}
    /\ active = [t \in Types |-> {}]
    /\ settled = {}

(* Some settled requests are forgotten and new ones accepted. *)
Accept(new, old) ==
    /\ old \subseteq settled
    /\ new \cap (Known \ old) = {}
    /\ waiting' = waiting \cup new
    /\ settled' = settled \ old
    /\ UNCHANGED active

(* The run of a batch begins; a request found withdrawn is dropped. *)
Begin(t, batch, dropped) ==
    /\ active[t] = {}
    /\ batch \cup dropped \subseteq {r \in waiting : RequestType[r] = t}
    /\ batch \cap dropped = {}
    /\ active' = [active EXCEPT ![t] = {batch}]
    /\ waiting' = waiting \ (batch \cup dropped)
    /\ settled' = settled \cup dropped

Drop(r) ==
    /\ r \in waiting
    /\ waiting' = waiting \ {r}
    /\ settled' = settled \cup {r}
    /\ UNCHANGED active

End(t) ==
    /\ active[t] # {}
    /\ active' = [active EXCEPT ![t] = {}]
    /\ settled' = settled \cup (UNION active[t])
    /\ UNCHANGED waiting

(* The agent restarts and remembers nothing. *)
Forget ==
    /\ waiting' = {}
    /\ active' = [t \in Types |-> {}]
    /\ settled' = {}

Next ==
    \/ \E new, old \in SUBSET Requests : Accept(new, old)
    \/ \E t \in Types, batch, dropped \in SUBSET Requests :
          Begin(t, batch, dropped)
    \/ \E r \in Requests : Drop(r)
    \/ \E t \in Types : End(t)
    \/ Forget

Spec == Init /\ [][Next]_vars
=============================================================================
