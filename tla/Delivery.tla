------------------------------ MODULE Delivery ------------------------------
(***************************************************************************)
(* How the agent's payloads reach the server: detection events through the *)
(* channel and the batches of batchEvents, inventory and vulnerability     *)
(* snapshots straight from their scans, and the on-disk spool that takes a *)
(* payload whose send failed and from which flushSpool replays it          *)
(* (internal/agent/agent.go, internal/transport/spool.go and client.go).   *)
(*                                                                         *)
(* A payload is the set of the numbers of what it carries: event numbers   *)
(* in the order the channel took them, or the number of one snapshot.      *)
(***************************************************************************)
EXTENDS Naturals, FiniteSets

CONSTANTS
    Snapshots,    \* the payload kinds that carry one snapshot each
    Rank,         \* the order of the kinds' names
    Emitters,     \* goroutines that put events into the channel
    Engine,       \* the one of them that a rule update restarts
    ChannelCap,   \* capacity of the channel
    BatchMax,     \* events that fill a batch
    MaxItems,     \* per kind, the bound on events or snapshots
    MaxFaults,    \* bound on failed or unanswered requests and file errors
    MaxCrashes    \* bound on crashes, and on stops of the service

Events == "events"
Kinds  == {Events} \cup Snapshots

ASSUME DeliveryConstants ==
    /\ Events \notin Snapshots
    /\ Rank \in [Kinds -> Nat]
    /\ \A k, l \in Kinds : Rank[k] = Rank[l] => k = l
    /\ Engine \in Emitters
    /\ MaxItems \in [Kinds -> Nat \ {0}]
    /\ {ChannelCap, BatchMax} \subseteq Nat \ {0}
    /\ {MaxFaults, MaxCrashes} \subseteq Nat

VARIABLES
    (* The agent's process *)
    emitter,    \* what each emitter is doing
    channel,    \* events in the channel
    payload,    \* per kind, what its goroutine holds (for events, buf)
    pc,         \* per kind, where its goroutine is
    flusher,    \* where flushSpool is
    todo,       \* the entries it has listed and not yet dealt with
    stopping,   \* the agent's context is cancelled
    (* The host *)
    spool,      \* the spooled payloads
    (* The server *)
    received,   \* what it has, as pairs of a kind and a number
    (* Bookkeeping of the model *)
    made,       \* per kind, how many items there are
    batched,    \* events that batchEvents has taken
    settled,    \* what the agent knows to have been delivered
    lost,       \* what a crash or a file error has cost
    skipped,    \* entries the pass could not read
    adds,       \* spool entries written so far: the clock of their names
    faults,
    crashes,
    stops

memory  == <<emitter, channel, payload, pc, flusher, todo, stopping>>
history == <<made, batched, settled, lost, skipped>>
counts  == <<faults, crashes, stops>>
vars    == <<memory, spool, received, history, adds, counts>>

Numbers == UNION {1..MaxItems[k] : k \in Kinds}
Items == {i \in Kinds \X Numbers : i[2] <= MaxItems[i[1]]}
Carries(k, body) == {<<k, n>> : n \in body}
Spooled == UNION {Carries(e.kind, e.body) : e \in spool}
HeldInMemory == UNION {Carries(k, payload[k]) : k \in Kinds}

Entries == [kind : Kinds, at : Nat, body : SUBSET Numbers]

Init ==
    /\ emitter = [g \in Emitters |-> "idle"]
    /\ channel = {}
    /\ payload = [k \in Kinds |-> {}]
    /\ pc = [k \in Kinds |-> "idle"]
    /\ flusher = "idle"
    /\ todo = {}
    /\ stopping = FALSE
    /\ spool = {}
    /\ received = {}
    /\ made = [k \in Kinds |-> 0]
    /\ batched = {}
    /\ settled = {}
    /\ lost = {}
    /\ skipped = {}
    /\ adds = 0
    /\ faults = 0
    /\ crashes = 0
    /\ stops = 0

Fault == faults < MaxFaults /\ faults' = faults + 1
NoFault == UNCHANGED faults

-----------------------------------------------------------------------------
(* Detections: SigmaEngine.evaluate and the end of yaraScan *)

Detects(g) ==
    /\ emitter[g] = "idle"
    /\ made[Events] < MaxItems[Events]
    /\ emitter' = [emitter EXCEPT ![g] = "offering"]
    /\ UNCHANGED <<channel, payload, pc, flusher, todo, stopping, spool, received,
                   history, adds, counts>>

(* The channel has room, and batchEvents or its buffer takes the event. *)
Emits(g) ==
    /\ emitter[g] = "offering"
    /\ Cardinality(channel) < ChannelCap
    /\ made[Events] < MaxItems[Events]
    /\ made' = [made EXCEPT ![Events] = @ + 1]
    /\ channel' = channel \cup {made[Events] + 1}
    /\ emitter' = [emitter EXCEPT ![g] = "idle"]
    /\ UNCHANGED <<payload, pc, flusher, todo, stopping, spool, received, batched,
                   settled, lost, skipped, adds, counts>>

(* MUTANT of GivesUp: the emitter waits for the channel only *)
WaitsForRoom(g) == FALSE

(* The emitter's context is cancelled: the agent's, or the one that the *)
(* engine runs in until a rule update restarts it.                      *)
GivesUp(g) == stopping \/ g = Engine

AbandonsEvent(g) ==
    /\ emitter[g] = "offering"
    /\ GivesUp(g)
    /\ emitter' = [emitter EXCEPT ![g] = "idle"]
    /\ UNCHANGED <<channel, payload, pc, flusher, todo, stopping, spool, received,
                   history, adds, counts>>

EmitterStops(g) ==
    /\ stopping
    /\ emitter[g] = "idle"
    /\ emitter' = [emitter EXCEPT ![g] = "stopped"]
    /\ UNCHANGED <<channel, payload, pc, flusher, todo, stopping, spool, received,
                   history, adds, counts>>

-----------------------------------------------------------------------------
(* Sends: batchEvents, inventoryScan and vulnScan *)

(* A request whose context is cancelled fails before it leaves the host. *)
Begun == IF stopping THEN "failed" ELSE "sending"

BatchTakes ==
    /\ pc[Events] = "idle"
    /\ \E e \in channel :
          /\ \A f \in channel : e <= f
          /\ channel' = channel \ {e}
          /\ batched' = batched \cup {e}
          /\ payload' = [payload EXCEPT ![Events] = @ \cup {e}]
    /\ pc' = [pc EXCEPT ![Events] =
                IF Cardinality(payload'[Events]) >= BatchMax THEN Begun ELSE "idle"]
    /\ UNCHANGED <<emitter, flusher, todo, stopping, spool, received, made, settled,
                   lost, skipped, adds, counts>>

(* The ticker, or the cancelled context, flushes what there is. *)
BatchFlushes ==
    /\ pc[Events] = "idle"
    /\ payload[Events] # {}
    /\ pc' = [pc EXCEPT ![Events] = Begun]
    /\ UNCHANGED <<emitter, channel, payload, flusher, todo, stopping, spool, received,
                   history, adds, counts>>

(* A scan collects a snapshot and sends it. *)
Collects(k) ==
    /\ pc[k] = "idle"
    /\ made[k] < MaxItems[k]
    /\ made' = [made EXCEPT ![k] = @ + 1]
    /\ payload' = [payload EXCEPT ![k] = {made[k] + 1}]
    /\ pc' = [pc EXCEPT ![k] = Begun]
    /\ UNCHANGED <<emitter, channel, flusher, todo, stopping, spool, received, batched,
                   settled, lost, skipped, adds, counts>>

(* Client.do: ok iff a 2xx answer came back.  The server may have taken the *)
(* payload even if none did; only a cancelled context makes this free.      *)
Answers(k, body, ok, taken) ==
    /\ received' = IF taken THEN received \cup Carries(k, body) ELSE received
    /\ ok => taken
    /\ IF ok \/ stopping THEN NoFault ELSE Fault

Sends(k) ==
    /\ pc[k] = "sending"
    /\ \E ok, taken \in BOOLEAN :
          /\ Answers(k, payload[k], ok, taken)
          /\ pc' = [pc EXCEPT ![k] = IF ok THEN "sent" ELSE "failed"]
    /\ UNCHANGED <<emitter, channel, payload, flusher, todo, stopping, spool, history,
                   adds, crashes, stops>>

SendSucceeded(k) ==
    /\ pc[k] = "sent"
    /\ settled' = settled \cup Carries(k, payload[k])
    /\ payload' = [payload EXCEPT ![k] = {}]
    /\ pc' = [pc EXCEPT ![k] = "idle"]
    /\ UNCHANGED <<emitter, channel, flusher, todo, stopping, spool, received, made,
                   batched, lost, skipped, adds, counts>>

(* MUTANT of Files: only a full batch is worth a file *)
FilesOfFullBatches(k) ==
    {e \in {[kind |-> k, at |-> adds + 1, body |-> payload[k]]} :
        k # Events \/ Cardinality(e.body) >= BatchMax}

(* spoolJSON makes a file of every payload whose send failed. *)
Files(k) == {[kind |-> k, at |-> adds + 1, body |-> payload[k]]}

(* spoolJSON and Spool.Add, whose temporary file is renamed when complete. *)
(* A payload that cannot be written is gone.                               *)
SendFailed(k) ==
    /\ pc[k] = "failed"
    /\ \/ /\ adds' = adds + 1
          /\ spool' = spool \cup Files(k)
          /\ NoFault
          /\ UNCHANGED lost
       \/ /\ Fault
          /\ lost' = lost \cup Carries(k, payload[k])
          /\ UNCHANGED <<spool, adds>>
    /\ payload' = [payload EXCEPT ![k] = {}]
    /\ pc' = [pc EXCEPT ![k] = "idle"]
    /\ UNCHANGED <<emitter, channel, flusher, todo, stopping, received, made, batched,
                   settled, skipped, crashes, stops>>

SenderStops(k) ==
    /\ stopping
    /\ pc[k] = "idle"
    /\ payload[k] = {}
    /\ pc' = [pc EXCEPT ![k] = "stopped"]
    /\ UNCHANGED <<emitter, channel, payload, flusher, todo, stopping, spool, received,
                   history, adds, counts>>

-----------------------------------------------------------------------------
(* Replays: flushSpool *)

(* Spool.List: sorted by file name, so by kind and then by time. *)
Before(e, f) ==
    \/ Rank[e.kind] < Rank[f.kind]
    \/ e.kind = f.kind /\ e.at < f.at

FlushLists ==
    /\ flusher = "idle"
    /\ todo' = spool
    /\ skipped' = {}
    /\ flusher' = "next"
    /\ UNCHANGED <<emitter, channel, payload, pc, stopping, spool, received, made,
                   batched, settled, lost, adds, counts>>

Current(e) == e \in todo /\ \A f \in todo \ {e} : Before(e, f)

(* An entry that cannot be read is passed over. *)
FlushSkips ==
    /\ flusher = "next"
    /\ Fault
    /\ \E e \in todo : Current(e) /\ todo' = todo \ {e} /\ skipped' = skipped \cup {e}
    /\ UNCHANGED <<emitter, channel, payload, pc, flusher, stopping, spool, received,
                   made, batched, settled, lost, adds, crashes, stops>>

(* MUTANT of AfterFailure: a failure passes the entry over *)
TriesNext(e) == todo \ {e}

(* The first failure ends the pass. *)
AfterFailure(e) == {}

(* Client.PostRaw: with the context cancelled it fails at once. *)
FlushPosts ==
    /\ flusher = "next"
    /\ \E e \in todo :
          /\ Current(e)
          /\ IF stopping THEN todo' = AfterFailure(e) /\ UNCHANGED flusher
             ELSE flusher' = "posting" /\ UNCHANGED todo
    /\ UNCHANGED <<emitter, channel, payload, pc, stopping, spool, received, history,
                   adds, counts>>

FlushAnswered ==
    /\ flusher = "posting"
    /\ \E e \in todo, ok, taken \in BOOLEAN :
          /\ Current(e)
          /\ Answers(e.kind, e.body, ok, taken)
          /\ IF ok THEN flusher' = "posted" /\ UNCHANGED todo
             ELSE flusher' = "next" /\ todo' = AfterFailure(e)
    /\ UNCHANGED <<emitter, channel, payload, pc, stopping, spool, history, adds,
                   crashes, stops>>

(* MUTANT of Removed: the entry stays in the directory *)
KeptInSpool(e) == spool

(* MUTANT of Removed: the whole pass is taken to be delivered *)
RemovesListed(e) == spool \ todo

(* Spool.Remove *)
Removed(e) == spool \ {e}

(* An error of the removal is ignored: the entry will be posted again. *)
FlushRemoves ==
    /\ flusher = "posted"
    /\ \E e \in todo :
          /\ Current(e)
          /\ todo' = todo \ {e}
          /\ \/ /\ NoFault
                /\ spool' = Removed(e)
                /\ settled' = settled \cup Carries(e.kind, e.body)
             \/ Fault /\ UNCHANGED <<spool, settled>>
    /\ flusher' = "next"
    /\ UNCHANGED <<emitter, channel, payload, pc, stopping, received, made, batched,
                   lost, skipped, adds, crashes, stops>>

FlushEnds ==
    /\ flusher = "next"
    /\ todo = {}
    /\ flusher' = "idle"
    /\ UNCHANGED <<emitter, channel, payload, pc, todo, stopping, spool, received,
                   history, adds, counts>>

FlusherStops ==
    /\ stopping
    /\ flusher = "idle"
    /\ flusher' = "stopped"
    /\ UNCHANGED <<emitter, channel, payload, pc, todo, stopping, spool, received,
                   history, adds, counts>>

-----------------------------------------------------------------------------
(* The service *)

Stop ==
    /\ ~stopping
    /\ stops < MaxCrashes
    /\ stops' = stops + 1
    /\ stopping' = TRUE
    /\ UNCHANGED <<emitter, channel, payload, pc, flusher, todo, spool, received,
                   history, adds, faults, crashes>>

(* A process begins: what the last one had in memory is gone. *)
FreshMemory ==
    /\ emitter' = [g \in Emitters |-> "idle"]
    /\ channel' = {}
    /\ payload' = [k \in Kinds |-> {}]
    /\ pc' = [k \in Kinds |-> "idle"]
    /\ flusher' = "idle"
    /\ todo' = {}
    /\ stopping' = FALSE
    /\ UNCHANGED <<spool, received, made, batched, settled, adds, faults, stops>>
    /\ skipped' = {}

AllStopped ==
    /\ \A g \in Emitters : emitter[g] = "stopped"
    /\ \A k \in Kinds : pc[k] = "stopped"
    /\ flusher = "stopped"

(* Run has waited for its goroutines; the service is started again. *)
Restart ==
    /\ AllStopped
    /\ FreshMemory
    /\ UNCHANGED <<lost, crashes>>

Crash ==
    /\ crashes < MaxCrashes
    /\ crashes' = crashes + 1
    /\ FreshMemory
    /\ lost' = lost \cup HeldInMemory

Emitting(g) == Detects(g) \/ Emits(g) \/ AbandonsEvent(g) \/ EmitterStops(g)
Batching == BatchTakes \/ BatchFlushes
Sending(k) == Sends(k) \/ SendSucceeded(k) \/ SendFailed(k) \/ SenderStops(k)
Flushing == \/ FlushLists \/ FlushSkips \/ FlushPosts \/ FlushAnswered
            \/ FlushRemoves \/ FlushEnds \/ FlusherStops

Next ==
    \/ \E g \in Emitters : Emitting(g)
    \/ Batching
    \/ \E k \in Snapshots : Collects(k)
    \/ \E k \in Kinds : Sending(k)
    \/ Flushing
    \/ Stop \/ Restart \/ Crash

(* Go runs every goroutine that can take a step, and a select chooses at   *)
(* random, so that a context that stays cancelled is noticed.  The spool   *)
(* is flushed on a ticker and requests end (they fail at most MaxFaults    *)
(* times), and the service manager starts a stopped agent again.           *)
Fairness ==
    /\ \A g \in Emitters : WF_vars(Emits(g) \/ (stopping /\ AbandonsEvent(g)))
    /\ \A g \in Emitters : SF_vars(EmitterStops(g))
    /\ WF_vars(Batching \/ Sending(Events))
    /\ \A k \in Snapshots : WF_vars(Sending(k))
    /\ WF_vars(Flushing) /\ SF_vars(FlusherStops)
    /\ WF_vars(Restart)

Spec == Init /\ [][Next]_vars
FairSpec == Spec /\ Fairness

-----------------------------------------------------------------------------
(* Properties *)

TypeOK ==
    /\ emitter \in [Emitters -> {"idle", "offering", "stopped"}]
    /\ channel \subseteq Numbers
    /\ Cardinality(channel) <= ChannelCap
    /\ payload \in [Kinds -> SUBSET Numbers]
    /\ Cardinality(payload[Events]) <= BatchMax
    /\ pc \in [Kinds -> {"idle", "sending", "sent", "failed", "stopped"}]
    /\ flusher \in {"idle", "next", "posting", "posted", "stopped"}
    /\ spool \subseteq Entries
    /\ todo \subseteq spool
    /\ stopping \in BOOLEAN
    /\ received \subseteq Items
    /\ settled \subseteq received
    /\ lost \subseteq Items
    /\ skipped \subseteq spool
    /\ made \in [Kinds -> {0} \cup Numbers]
    /\ batched \subseteq Numbers
    /\ adds \in Nat
    /\ faults \in 0..MaxFaults
    /\ crashes \in 0..MaxCrashes
    /\ stops \in 0..MaxCrashes

(* No event that batchEvents took is lost by an outage or by stopping the   *)
(* service, in whatever order its goroutines end: the server has it, or it  *)
(* is in the batch or the spool.  Only a crash, or a full disk, costs some. *)
BatchedIsKept ==
    Carries(Events, batched) \subseteq received \cup HeldInMemory \cup Spooled \cup lost

(* What the agent knows to be delivered is not sent again: neither its file *)
(* nor a batch still has it.  Only an answer that was lost, or a crash or a *)
(* file error before the removal, makes the server see a payload twice.     *)
SettledIsGone == settled \cap (HeldInMemory \cup Spooled) = {}

(* A replay does not overtake: the spooled payloads of a kind reach the     *)
(* server in the order in which they were spooled, over any number of       *)
(* passes cut short, of crashes and of payloads spooled meanwhile.  (Files  *)
(* that could not be read are not held against it.)                         *)
ReplaysInOrder ==
    [][\A e, f \in spool :
          /\ e.kind = f.kind
          /\ e.at < f.at
          /\ Carries(f.kind, f.body) \subseteq received'
          /\ ~(Carries(f.kind, f.body) \subseteq received)
          /\ e \notin skipped
          => Carries(e.kind, e.body) \subseteq received']_vars

(* A stop always comes to an end: no goroutine waits for another that has  *)
(* already returned, even with a full channel and nothing to empty it.     *)
StopEnds == stopping ~> ~stopping

(* Every payload arrives once the server answers again, by way of sends    *)
(* that fail, the spool, stops of the service, crashes and replays cut     *)
(* short; only a crash before it is spooled, or a full disk, costs one.    *)
PayloadsArrive ==
    \A i \in Items : (i \in HeldInMemory \cup Spooled) ~> (i \in received \cup lost)
=============================================================================
