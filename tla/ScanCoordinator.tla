--------------------------- MODULE ScanCoordinator ---------------------------
(***************************************************************************)
(* The agent's scan coordinator (internal/agent/scans.go): console and     *)
(* policy requests arrive in heartbeat replies, each gets a goroutine, and *)
(* runScan keeps the runs of one scan type serial.  A request that finds   *)
(* its type running is queued and shares the next run; the agent's own     *)
(* (startup or scheduled) run that finds one running is skipped.  Runs are *)
(* reported, best effort, to the server's scan history.                    *)
(*                                                                         *)
(* One process per goroutine that calls runScan.  Ids are kept in sets:    *)
(* the order of a queue shapes only which row a shared payload is linked   *)
(* to, which nothing here is about.                                        *)
(***************************************************************************)
EXTENDS Naturals, FiniteSets

CONSTANTS
    Requests,     \* scan ids the server may issue
    Types,        \* scan types this agent supports
    RequestType,  \* the scan type of each request, possibly unsupported
    RequestTrigger, \* "console" or "policy", for each request
    Own,          \* the goroutines of the agent's own schedule
    OwnType,      \* the scan type of each of them
    Available,    \* the types this host can run (scanAvailable)
    Incremental,  \* the types whose own runs may be too small to record a start
    MaxIssued,    \* bound on the requests the server issues
    MaxRestarts   \* bound on the stops and crashes of the agent

NoId   == "NoId"    \* a report that names no history row
OwnRow == "OwnRow"  \* the row the server made for one of the agent's own runs

Procs == Requests \cup Own
Supported(r) == RequestType[r] \in Types
ProcType == [p \in Procs |-> IF p \in Own THEN OwnType[p] ELSE RequestType[p]]

ASSUME ScanConstants ==
    /\ Requests \cap Own = {}
    /\ {NoId, OwnRow} \cap Procs = {}
    /\ RequestTrigger \in [Requests -> {"console", "policy"}]
    /\ OwnType \in [Own -> Types]
    /\ DOMAIN RequestType = Requests
    /\ MaxIssued \in Nat
    /\ MaxRestarts \in Nat

VARIABLES
    (* The agent's memory, lost at a restart *)
    handled,   \* console ids already seen (scanCoordinator.handled)
    aged,      \* those of them seen more than handledScanTTL ago
    reply,     \* the requests of a heartbeat reply not yet handled
    running,   \* scanState.running of each type
    queued,    \* scanState.queued of each type
    noReport,  \* reports are suspended (scanCoordinator.noReport)
    stopping,  \* the context is cancelled
    pc,        \* where each goroutine is
    trig,      \* the trigger of the run it executes
    todo,      \* the ids it still has to report in this phase
    ids,       \* the ids its run belongs to
    (* The server *)
    row,       \* status of each request's history row
    route,     \* whether the server has POST /api/edr/scans
    (* Bookkeeping of the model *)
    ran,       \* requests that have been run
    told,      \* requests the server has told this process not to run
    restarts   \* stops and crashes so far

memory == <<handled, aged, reply, running, queued, noReport, stopping>>
proc   == <<pc, trig, todo, ids>>
server == <<row, route>>
vars   == <<memory, proc, server, ran, told, restarts>>

(* "finished" is succeeded or failed, "closed" is cancelled or expired. *)
Statuses == {"absent", "pending", "running", "finished", "closed"}

(* A goroutine executes a run from the moment it sets running to the moment *)
(* it clears it.                                                            *)
Points == {"off", "spawned", "reject", "start", "scan", "finish", "end"}
Executing == {"start", "scan", "finish", "end"}
Executes(p) == pc[p] \in Executing

(* The requests a goroutine is responsible for. *)
HeldBy(p) == (todo[p] \cup ids[p]) \cap Requests
AllQueued == UNION {queued[t] : t \in Types}
Held == AllQueued \cup (UNION {HeldBy(p) : p \in Procs})

(* Accepted by the agent, and its run not begun. *)
WaitingIn(p) ==
    IF pc[p] \in {"spawned", "start", "reject"} THEN HeldBy(p) ELSE {}
Scanning(r) == \E p \in Procs : pc[p] = "scan" /\ r \in ids[p]
Waiting == AllQueued \cup (UNION {WaitingIn(p) : p \in Procs})

Init ==
    /\ handled = {}
    /\ aged = {}
    /\ reply = {}
    /\ running = [t \in Types |-> FALSE]
    /\ queued = [t \in Types |-> {}]
    /\ noReport = FALSE
    /\ stopping = FALSE
    /\ pc = [p \in Procs |-> "off"]
    /\ trig = [p \in Procs |-> "own"]
    /\ todo = [p \in Procs |-> {}]
    /\ ids = [p \in Procs |-> {}]
    /\ row = [r \in Requests |-> "absent"]
    /\ route \in BOOLEAN
    /\ ran = {}
    /\ told = {}
    /\ restarts = 0

-----------------------------------------------------------------------------
(* The server, as the agent's protocol describes it. *)

Issued == {r \in Requests : row[r] # "absent"}

Issue(r) ==
    /\ route
    /\ row[r] = "absent"
    /\ Cardinality(Issued) < MaxIssued
    /\ row' = [row EXCEPT ![r] = "pending"]
    /\ UNCHANGED <<memory, proc, route, ran, told, restarts>>

(* A pending request is cancelled or expires; a running one expires. *)
Close(r) ==
    /\ row[r] \in {"pending", "running"}
    /\ row' = [row EXCEPT ![r] = "closed"]
    /\ UNCHANGED <<memory, proc, route, ran, told, restarts>>

(* An old server is updated and gains the scan history. *)
Upgrade ==
    /\ ~route
    /\ route' = TRUE
    /\ UNCHANGED <<memory, proc, row, ran, told, restarts>>

(* A report changes the row it names, unless that row is already closed. *)
Recorded(i, status) ==
    IF i \notin Requests THEN row
    ELSE IF status = "running"
         THEN IF row[i] = "pending" THEN [row EXCEPT ![i] = status] ELSE row
         ELSE IF row[i] \in {"pending", "running"}
              THEN [row EXCEPT ![i] = status] ELSE row

-----------------------------------------------------------------------------
(* Reports *)

(* reportScan, with its outcome ok: suppressed while noReport, lost with   *)
(* the request or its answer, answered 404, or delivered.                  *)
ReportScan(i, status, ok) ==
    \/ /\ ~ok
       /\ UNCHANGED <<row, noReport>>
    \/ /\ ~noReport /\ ~route /\ ~ok /\ ~stopping
       /\ noReport' = (i = NoId)
       /\ UNCHANGED row
    \/ /\ ~noReport /\ route /\ ~stopping
       /\ row' = Recorded(i, status)
       /\ UNCHANGED noReport

(* 24 hours later *)
BackoffOver ==
    /\ noReport
    /\ noReport' = FALSE
    /\ UNCHANGED <<handled, aged, reply, running, queued, stopping, proc, server,
                   ran, told, restarts>>

-----------------------------------------------------------------------------
(* Requests *)

(* The heartbeat goroutine is not in the middle of handling a reply. *)
HeartbeatIdle == reply = {} /\ \A r \in Requests : pc[r] # "reject"

(* The server serves every request whose start report has not landed. *)
Heartbeat ==
    /\ ~stopping
    /\ HeartbeatIdle
    /\ \E r \in Requests : row[r] = "pending"
    /\ reply' = {r \in Requests : row[r] = "pending"}
    /\ UNCHANGED <<handled, aged, running, queued, noReport, stopping, proc,
                   server, ran, told, restarts>>

(* MUTANT of Unseen: the ids already seen are not filtered out *)
UnseenServedAgain(served, seen) == served

Unseen(served, seen) == served \ seen

(* 48 hours (handledScanTTL) after r was seen.  By then its run has ended  *)
(* (every scan and report has a timeout well below that), and no heartbeat *)
(* of that time is still being answered.                                   *)
TtlOver(r) ==
    /\ r \in handled \ (aged \cup Held)
    /\ pc[r] = "off"
    /\ reply = {}
    /\ aged' = aged \cup {r}
    /\ UNCHANGED <<handled, reply, running, queued, noReport, stopping, proc,
                   server, ran, told, restarts>>

(* handleScanRequests: forgets the ids seen too long ago, then starts a    *)
(* goroutine for each request not seen before, or goes on to report it     *)
(* failed when its type is unknown to this version.                        *)
HandleScanRequests ==
    /\ reply # {}
    /\ LET fresh == Unseen(reply, handled \ aged) IN
         /\ pc' = [p \in Procs |->
                     IF p \notin fresh THEN pc[p]
                     ELSE IF Supported(p) THEN "spawned" ELSE "reject"]
         /\ trig' = [p \in Procs |->
                     IF p \in fresh THEN RequestTrigger[p] ELSE trig[p]]
         /\ ids' = [p \in Procs |-> IF p \in fresh THEN {p} ELSE ids[p]]
    /\ handled' = (handled \ aged) \cup reply
    /\ aged' = {}
    /\ reply' = {}
    /\ UNCHANGED <<running, queued, noReport, stopping, todo, server, ran, told,
                   restarts>>

(* A request of a type this version does not know is reported failed. *)
RejectUnsupported(r) ==
    /\ pc[r] = "reject"
    /\ \E ok \in BOOLEAN : ReportScan(r, "finished", ok)
    /\ pc' = [pc EXCEPT ![r] = "off"]
    /\ ids' = [ids EXCEPT ![r] = {}]
    /\ trig' = [trig EXCEPT ![r] = "own"]
    /\ UNCHANGED <<handled, aged, reply, running, queued, stopping, todo, route,
                   ran, told, restarts>>

(* A startup or scheduled run of the agent's own falls due. *)
OwnRunDue(o) ==
    /\ ~stopping
    /\ pc[o] = "off"
    /\ pc' = [pc EXCEPT ![o] = "spawned"]
    /\ UNCHANGED <<memory, trig, todo, ids, server, ran, told, restarts>>

-----------------------------------------------------------------------------
(* Runs *)

(* MUTANT of Busy: a second run of a type is let through *)
BusyNever(t) == FALSE

(* The type is running: the caller queues or skips instead. *)
Busy(t) == running[t]

(* runScan, up to its first unlock. *)
RunScan(p) ==
    LET t == ProcType[p] IN
    /\ pc[p] = "spawned"
    /\ IF Busy(t)
       THEN /\ queued' = [queued EXCEPT ![t] = @ \cup ids[p]]
            /\ pc' = [pc EXCEPT ![p] = "off"]
            /\ ids' = [ids EXCEPT ![p] = {}]
            /\ trig' = [trig EXCEPT ![p] = "own"]
            /\ UNCHANGED <<running, todo>>
       ELSE /\ running' = [running EXCEPT ![t] = TRUE]
            /\ pc' = [pc EXCEPT ![p] = "start"]
            /\ todo' = [todo EXCEPT ![p] = ids[p]]
            /\ ids' = [ids EXCEPT ![p] = {}]
            /\ UNCHANGED <<queued, trig>>
    /\ UNCHANGED <<handled, aged, reply, noReport, stopping, server, ran, told,
                   restarts>>

IsRequested(p) == trig[p] # "own"

(* MUTANT of Drops: the answer to a start report is ignored *)
AnswerIgnored(i, ok) == FALSE

(* The start report of i was answered, not accepted and with a status      *)
(* other than running.                                                     *)
Drops(i, ok) == ok /\ row[i] \notin {"pending", "running"}

(* execScan, start reports of requested ids: a request the server says was *)
(* cancelled (or is otherwise closed) is dropped; one whose report did not *)
(* get through is kept.  With none left the run ends.                      *)
ReportRequestedStart(p) ==
    /\ pc[p] = "start" /\ IsRequested(p)
    /\ \E i \in todo[p], ok \in BOOLEAN :
         LET live == IF Drops(i, ok) THEN ids[p] ELSE ids[p] \cup {i}
             last == todo[p] = {i}
         IN
         /\ ReportScan(i, "running", ok)
         /\ told' = IF ok /\ row[i] = "closed" THEN told \cup {i} ELSE told
         /\ ids' = [ids EXCEPT ![p] = live]
         /\ todo' = [todo EXCEPT ![p] = @ \ {i}]
         /\ pc' = [pc EXCEPT ![p] = IF ~last THEN "start"
                                   ELSE IF live = {} THEN "end" ELSE "scan"]
         /\ ran' = IF last THEN ran \cup live ELSE ran
    /\ UNCHANGED <<handled, aged, reply, running, queued, stopping, trig, route,
                   restarts>>

(* recordsStart and scanAvailable: whether the agent's own run of type t   *)
(* may, or may not, ask the server for a row when it starts.               *)
MayRecordStart(t) == t \in Available
MayOmitStart(t) == t \notin Available \/ t \in Incremental

(* MUTANT of LinkedRow: the id is used without a look at ok *)
LinkedRowUnchecked(ok) == IF ok THEN {OwnRow} ELSE {NoId}

(* The row the agent's own run is linked to after its start report. *)
LinkedRow(ok) == IF ok THEN {OwnRow} ELSE {}

(* execScan, start of the agent's own run *)
ReportOwnStart(p) ==
    /\ pc[p] = "start" /\ ~IsRequested(p)
    /\ \/ /\ MayOmitStart(ProcType[p])
          /\ UNCHANGED <<row, noReport, ids>>
       \/ /\ MayRecordStart(ProcType[p])
          /\ \E ok \in BOOLEAN :
               /\ ReportScan(NoId, "running", ok)
               /\ ids' = [ids EXCEPT ![p] = LinkedRow(ok)]
    /\ pc' = [pc EXCEPT ![p] = "scan"]
    /\ UNCHANGED <<handled, aged, reply, running, queued, stopping, trig, todo,
                   route, ran, told, restarts>>

(* execScan, after the scan function returned.  Nothing is reported when   *)
(* the agent is stopping, when its own run needed a scanner the host lacks *)
(* (errScanUnavailable), or when a run without a row is not worth one      *)
(* (scanResult.Record).                                                    *)
ScanReturns(p) ==
    /\ pc[p] = "scan"
    /\ \E record \in BOOLEAN :
         LET reported ==
               /\ ~stopping
               /\ IsRequested(p) \/ ProcType[p] \in Available
               /\ ids[p] # {} \/ record
         IN
         /\ pc' = [pc EXCEPT ![p] = IF reported THEN "finish" ELSE "end"]
         /\ todo' = [todo EXCEPT ![p] =
                       IF ~reported THEN {}
                       ELSE IF ids[p] = {} THEN {NoId} ELSE ids[p]]
         /\ ids' = [ids EXCEPT ![p] = {}]
    /\ UNCHANGED <<memory, trig, server, ran, told, restarts>>

(* execScan, one of the finishing reports. *)
ReportFinish(p) ==
    /\ pc[p] = "finish"
    /\ \E i \in todo[p], ok \in BOOLEAN :
         /\ ReportScan(i, "finished", ok)
         /\ todo' = [todo EXCEPT ![p] = @ \ {i}]
         /\ pc' = [pc EXCEPT ![p] = IF todo[p] = {i} THEN "end" ELSE "finish"]
    /\ UNCHANGED <<handled, aged, reply, running, queued, stopping, trig, ids, route,
                   ran, told, restarts>>

(* MUTANT of NothingQueued: running is cleared without a look at the queue *)
QueueNotConsulted(t) == TRUE

NothingQueued(t) == queued[t] = {}

(* MUTANT of QueueAfterTaking: st.queued is not reset *)
QueueKept(t) == queued[t]

QueueAfterTaking(t) == {}

(* runScan, after execScan: the queued ids share the next run, or the type *)
(* is no longer running.                                                   *)
RunEnds(p) ==
    LET t == ProcType[p] IN
    /\ pc[p] = "end"
    /\ IF NothingQueued(t) \/ stopping
       THEN /\ running' = [running EXCEPT ![t] = FALSE]
            /\ pc' = [pc EXCEPT ![p] = "off"]
            /\ trig' = [trig EXCEPT ![p] = "own"]
            /\ UNCHANGED <<queued, todo>>
       ELSE /\ todo' = [todo EXCEPT ![p] = queued[t]]
            /\ queued' = [queued EXCEPT ![t] = QueueAfterTaking(t)]
            /\ trig' = [trig EXCEPT ![p] = "console"]
            /\ pc' = [pc EXCEPT ![p] = "start"]
            /\ UNCHANGED running
    /\ UNCHANGED <<handled, aged, reply, noReport, stopping, ids, server, ran, told,
                   restarts>>

-----------------------------------------------------------------------------
(* Stops and crashes *)

(* The service is asked to stop: the context is cancelled. *)
Shutdown ==
    /\ ~stopping
    /\ restarts < MaxRestarts
    /\ stopping' = TRUE
    /\ UNCHANGED <<handled, aged, reply, running, queued, noReport, proc, server,
                   ran, told, restarts>>

(* The process ends, by a crash or after a stop, and starts anew. *)
Restart ==
    /\ restarts < MaxRestarts
    /\ restarts' = restarts + 1
    /\ handled' = {}
    /\ aged' = {}
    /\ reply' = {}
    /\ running' = [t \in Types |-> FALSE]
    /\ queued' = [t \in Types |-> {}]
    /\ noReport' = FALSE
    /\ stopping' = FALSE
    /\ pc' = [p \in Procs |-> "off"]
    /\ trig' = [p \in Procs |-> "own"]
    /\ todo' = [p \in Procs |-> {}]
    /\ ids' = [p \in Procs |-> {}]
    /\ UNCHANGED <<server, ran, told>>

-----------------------------------------------------------------------------
RunStep(p) ==
    \/ RunScan(p)
    \/ ReportRequestedStart(p)
    \/ ReportOwnStart(p)
    \/ ScanReturns(p)
    \/ ReportFinish(p)
    \/ RunEnds(p)

Next ==
    \/ \E r \in Requests : Issue(r)
    \/ \E r \in Requests : Close(r)
    \/ Upgrade
    \/ BackoffOver
    \/ Heartbeat
    \/ \E r \in Requests : TtlOver(r)
    \/ HandleScanRequests
    \/ \E r \in Requests : RejectUnsupported(r)
    \/ \E o \in Own : OwnRunDue(o)
    \/ \E p \in Procs : RunStep(p)
    \/ Shutdown
    \/ Restart

(* Heartbeats recur, goroutines are scheduled, every report and every scan *)
(* has a timeout, and the service manager restarts a stopped agent.        *)
Fairness ==
    /\ WF_vars(Heartbeat)
    /\ WF_vars(HandleScanRequests)
    /\ \A r \in Requests : WF_vars(RejectUnsupported(r))
    /\ \A p \in Procs : WF_vars(RunStep(p))
    /\ WF_vars(stopping /\ Restart)

Spec == Init /\ [][Next]_vars
FairSpec == Spec /\ Fairness

-----------------------------------------------------------------------------
(* Properties *)

MemoryTypes ==
    /\ handled \in SUBSET Requests
    /\ aged \in SUBSET handled
    /\ reply \in SUBSET Requests
    /\ running \in [Types -> BOOLEAN]
    /\ queued \in [Types -> SUBSET Requests]
    /\ noReport \in BOOLEAN
    /\ stopping \in BOOLEAN

ProcTypes ==
    /\ pc \in [Procs -> Points]
    /\ trig \in [Procs -> {"own", "console", "policy"}]
    /\ todo \in [Procs -> SUBSET (Requests \cup {NoId, OwnRow})]
    /\ ids \in [Procs -> SUBSET (Requests \cup {OwnRow})]

ServerTypes ==
    /\ row \in [Requests -> Statuses]
    /\ route \in BOOLEAN
    /\ ran \in SUBSET Requests
    /\ told \in SUBSET Requests
    /\ restarts \in 0..MaxRestarts

(* The type invariant. *)
TypeOK == MemoryTypes /\ ProcTypes /\ ServerTypes

(* Never two runs of one scan type at a time, whoever asked for them: the  *)
(* running flag is set and cleared in different critical sections, by      *)
(* whichever goroutine happens to serve the queue.                         *)
OneRunPerType ==
    \A p, q \in Procs :
        Executes(p) /\ Executes(q) /\ ProcType[p] = ProcType[q] => p = q

(* A queued request always has a goroutine that will look at the queue     *)
(* again: it is never left behind by a run that ended as it arrived.  Only *)
(* a stop leaves requests queued.                                          *)
NoStrandedRequest ==
    \A t \in Types : queued[t] # {} /\ ~stopping =>
        \E p \in Procs : Executes(p) /\ ProcType[p] = t

(* A request is in one place at a time: with one goroutine, or in the      *)
(* queue of its own type.  It is never run by two of them.                 *)
HeldOnce ==
    /\ \A p, q \in Procs : p # q => HeldBy(p) \cap HeldBy(q) = {}
    /\ \A p \in Procs, t \in Types : HeldBy(p) \cap queued[t] = {}
    /\ \A t \in Types : \A r \in queued[t] : RequestType[r] = t

(* Requests accepted whose start report has not been sent. *)
UnreportedBy(p) ==
    IF pc[p] = "start" THEN todo[p]
    ELSE IF pc[p] \in {"spawned", "reject"} THEN ids[p]
    ELSE {}

(* A request that still waits for its run is not open or finished on the   *)
(* server, so a stop leaves it pending there and it is served again        *)
(* (the comment in runScan relies on this).                                *)
WaitingIsUnstarted ==
    \A r \in AllQueued \cup (UNION {UnreportedBy(p) : p \in Procs}) :
        row[r] \notin {"running", "finished"}

(* A request the server has answered was cancelled or expired is never     *)
(* run, in this process or a later one.                                    *)
RefusedNeverRuns ==
    \A p \in Procs : pc[p] = "scan" => ids[p] \cap told = {}

(* What the API document promises: a scan id runs at most once.            *)
RunsAtMostOnce ==
    [][\A r \in ran : Scanning(r)' => Scanning(r)]_vars

(* A pending request of a supported type is eventually run, unless the     *)
(* server withdraws it first.                                              *)
PendingIsServed ==
    \A r \in Requests :
        (row[r] = "pending" /\ Supported(r))
            ~> (r \in ran \/ row[r] # "pending")

-----------------------------------------------------------------------------
(* What the coordinator implements *)

Service == INSTANCE ScanService WITH
    waiting <- Waiting,
    active  <- [t \in Types |-> {ids[p] \cap Requests :
                  p \in {q \in Procs : pc[q] = "scan" /\ ProcType[q] = t}}],
    settled <- {r \in handled \ Waiting : ~Scanning(r)}

(* The coordinator implements the abstract scan service: requests are      *)
(* accepted once while remembered, each batch is taken from the accepted   *)
(* ones, and a type's batches never overlap.                               *)
ServiceSpec == Service!Spec
=============================================================================
