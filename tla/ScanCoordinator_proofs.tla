------------------------ MODULE ScanCoordinator_proofs ------------------------
(***************************************************************************)
(* The safety of the scan coordinator, for any number of requests, scan    *)
(* types and goroutines of the agent's own schedule.                       *)
(***************************************************************************)
EXTENDS ScanCoordinator, TLAPS

(* A request still among the ids seen. *)
Remembered == handled \ aged

(* What a goroutine's variables hold at each point of its run. *)
PhaseOf(p) ==
    /\ pc[p] \in {"off", "finish", "end"} => ids[p] = {}
    /\ pc[p] \in {"off", "end", "spawned", "reject"} => todo[p] = {}
    /\ pc[p] \in {"spawned", "reject"} => ids[p] \subseteq Requests
    /\ pc[p] = "start" =>
         /\ todo[p] \subseteq Requests /\ ids[p] \subseteq Requests
         /\ todo[p] \cap ids[p] = {}
    /\ pc[p] \notin {"off", "reject"} => ProcType[p] \in Types
    /\ p \in Requests /\ pc[p] # "off" => p \in Remembered

Phases == \A p \in Procs : PhaseOf(p)

(* What the assumptions on the constants say of goroutines and their types. *)
LEMMA ProcFacts ==
    /\ \A o \in Own : o \in Procs /\ ProcType[o] \in Types
    /\ \A r \in Requests :
         r \in Procs /\ r \notin Own /\ ProcType[r] = RequestType[r]
    /\ NoId \notin Requests /\ OwnRow \notin Requests
    /\ MaxRestarts \in Nat
  BY ScanConstants DEF Procs, ProcType

(* A report leaves the rows and the suspension well typed. *)
LEMMA ReportTypes ==
    ASSUME TypeOK, NEW i, NEW status \in {"running", "finished"},
           NEW ok \in BOOLEAN, ReportScan(i, status, ok)
    PROVE  row' \in [Requests -> Statuses] /\ noReport' \in BOOLEAN
  BY DEF TypeOK, ServerTypes, MemoryTypes, Statuses, ReportScan, Recorded

-----------------------------------------------------------------------------
(* Types and phases together are inductive: a run's ids are requests of    *)
(* the queue only because of where its goroutine is.                       *)
TInv == TypeOK /\ Phases

(* The types and phases hold initially. *)
LEMMA TInvInit == Init => TInv
<1> SUFFICES ASSUME Init PROVE TInv
  OBVIOUS
<1> USE DEF Init
<1>1. MemoryTypes
  BY DEF MemoryTypes
<1>2. ProcTypes
  BY DEF ProcTypes, Points
<1>3. ServerTypes
  BY ProcFacts DEF ServerTypes, Statuses
<1>4. Phases
  BY DEF Phases, PhaseOf, Remembered
<1> QED BY <1>1, <1>2, <1>3, <1>4 DEF TInv, TypeOK

(* Every step of runScan and execScan keeps the types and phases. *)
LEMMA TInvRunStep ==
    ASSUME TInv, NEW p \in Procs, RunStep(p)
    PROVE  TInv'
<1> USE DEF TInv, TypeOK, Remembered
<1>1. CASE RunScan(p)
  <2> USE <1>1 DEF RunScan, server
  <2>1. PhaseOf(p) /\ ProcType[p] \in Types /\ ids[p] \subseteq Requests
    BY DEF Phases, PhaseOf
  <2>2. MemoryTypes'
    BY <2>1 DEF MemoryTypes
  <2>3. ProcTypes'
    BY <2>1 DEF ProcTypes, Points
  <2>4. ServerTypes'
    BY DEF ServerTypes
  <2>5. Phases'
    BY <2>1 DEF Phases, PhaseOf, ProcTypes
  <2> QED BY <2>2, <2>3, <2>4, <2>5
<1>2. CASE ReportRequestedStart(p)
  <2> USE <1>2 DEF ReportRequestedStart
  <2>1. PhaseOf(p)
    BY DEF Phases
  <2>2. PICK i \in todo[p], ok \in BOOLEAN :
          ReportScan(i, "running", ok)
    OBVIOUS
  <2>3. row' \in [Requests -> Statuses] /\ noReport' \in BOOLEAN
    BY <2>2, ReportTypes
  <2>4. MemoryTypes'
    BY <2>3 DEF MemoryTypes
  <2>5. ProcTypes'
    BY <2>1 DEF ProcTypes, Points, PhaseOf
  <2>6. ServerTypes'
    BY <2>1, <2>3 DEF ServerTypes, PhaseOf
  <2>7. Phases'
    BY <2>1 DEF Phases, PhaseOf, ProcTypes
  <2> QED BY <2>4, <2>5, <2>6, <2>7
<1>3. CASE ReportOwnStart(p)
  <2> USE <1>3 DEF ReportOwnStart
  <2>1. row' \in [Requests -> Statuses] /\ noReport' \in BOOLEAN
    BY ReportTypes DEF ServerTypes, MemoryTypes
  <2>2. MemoryTypes'
    BY <2>1 DEF MemoryTypes
  <2>3. ProcTypes'
    BY DEF ProcTypes, Points, LinkedRow
  <2>4. ServerTypes'
    BY <2>1 DEF ServerTypes
  <2>5. Phases'
    BY DEF Phases, PhaseOf, ProcTypes
  <2> QED BY <2>2, <2>3, <2>4, <2>5
<1>4. CASE ScanReturns(p)
  <2> USE <1>4 DEF ScanReturns, memory, server
  <2>1. ProcTypes'
    BY DEF ProcTypes, Points
  <2>2. MemoryTypes' /\ ServerTypes'
    BY DEF MemoryTypes, ServerTypes
  <2>3. Phases'
    BY DEF Phases, PhaseOf, ProcTypes
  <2> QED BY <2>1, <2>2, <2>3
<1>5. CASE ReportFinish(p)
  <2> USE <1>5 DEF ReportFinish
  <2>1. row' \in [Requests -> Statuses] /\ noReport' \in BOOLEAN
    BY ReportTypes
  <2>2. ProcTypes'
    BY DEF ProcTypes, Points
  <2>3. MemoryTypes' /\ ServerTypes'
    BY <2>1 DEF MemoryTypes, ServerTypes
  <2>4. Phases'
    BY DEF Phases, PhaseOf, ProcTypes
  <2> QED BY <2>2, <2>3, <2>4
<1>6. CASE RunEnds(p)
  <2> USE <1>6 DEF RunEnds, QueueAfterTaking, server
  <2>1. PhaseOf(p) /\ ProcType[p] \in Types /\ ids[p] = {}
    BY DEF Phases, PhaseOf
  <2>2. ProcTypes'
    BY <2>1 DEF ProcTypes, Points, MemoryTypes
  <2>3. MemoryTypes' /\ ServerTypes'
    BY <2>1 DEF MemoryTypes, ServerTypes
  <2>4. Phases'
    BY <2>1 DEF Phases, PhaseOf, ProcTypes, MemoryTypes
  <2> QED BY <2>2, <2>3, <2>4
<1> QED BY <1>1, <1>2, <1>3, <1>4, <1>5, <1>6 DEF RunStep

(* So does every other step: types and phases are inductive. *)
LEMMA TInvStep == TInv /\ [Next]_vars => TInv'
<1> SUFFICES ASSUME TInv, [Next]_vars PROVE TInv'
  OBVIOUS
<1> USE DEF TInv, TypeOK, Remembered
<1>1. ASSUME NEW r \in Requests, Issue(r) \/ Close(r) PROVE TInv'
  <2> USE <1>1 DEF Issue, Close, memory, proc
  <2>1. ServerTypes'
    BY DEF ServerTypes, Statuses
  <2> QED BY <2>1 DEF MemoryTypes, ProcTypes, Phases, PhaseOf
<1>2. CASE Upgrade \/ BackoffOver \/ Heartbeat \/ Shutdown
  BY <1>2 DEF Upgrade, BackoffOver, Heartbeat, Shutdown, memory, proc, server,
              MemoryTypes, ProcTypes, ServerTypes, Phases, PhaseOf
<1>3. ASSUME NEW r \in Requests, TtlOver(r) PROVE TInv'
  BY <1>3 DEF TtlOver, proc, server, MemoryTypes, ProcTypes, ServerTypes,
              Phases, PhaseOf
<1>4. CASE HandleScanRequests
  <2> USE <1>4 DEF HandleScanRequests, server
  <2>1. MemoryTypes' /\ ServerTypes'
    BY DEF MemoryTypes, ServerTypes
  <2>2. pc' \in [Procs -> Points]
    BY DEF ProcTypes, Points
  <2> DEFINE fresh == Unseen(reply, handled \ aged)
  <2>3. fresh \subseteq Requests
    BY DEF MemoryTypes, Unseen
  <2>4. \A p \in Procs \ fresh :
          pc'[p] = pc[p] /\ ids'[p] = ids[p] /\ todo'[p] = todo[p]
    BY DEF Unseen
  <2>5. \A p \in fresh :
          /\ p \in Procs /\ ids'[p] = {p} /\ todo'[p] = todo[p]
          /\ pc'[p] = IF Supported(p) THEN "spawned" ELSE "reject"
    BY <2>3, ProcFacts DEF Unseen
  <2>6. ProcTypes'
    <3>1. trig' \in [Procs -> {"own", "console", "policy"}]
      BY <2>3, ScanConstants DEF ProcTypes
    <3>2. ids' \in [Procs -> SUBSET (Requests \cup {OwnRow})]
      BY <2>3 DEF ProcTypes
    <3> QED BY <2>2, <3>1, <3>2 DEF ProcTypes
  <2>7. \A p \in fresh : pc[p] = "off" /\ todo[p] = {}
    BY <2>3, <2>5 DEF Unseen, Phases, PhaseOf
  <2>8. ASSUME NEW p \in Procs PROVE PhaseOf(p)'
    <3>1. CASE p \in fresh
      <4>1. p \in Requests /\ p \in Remembered'
        BY <2>3, <3>1 DEF Unseen
      <4>2. ids'[p] = {p} /\ todo'[p] = {} /\ pc'[p] \in {"spawned", "reject"}
        BY <2>5, <2>7, <3>1
      <4>3. pc'[p] = "spawned" => ProcType[p] \in Types
        BY <2>5, <3>1, <4>1, ProcFacts DEF Supported
      <4> QED BY <4>1, <4>2, <4>3 DEF PhaseOf
    <3>2. CASE p \notin fresh
      BY <2>4, <3>2 DEF Phases, PhaseOf, MemoryTypes
    <3> QED BY <3>1, <3>2
  <2>9. Phases'
    BY <2>8 DEF Phases
  <2> QED BY <2>1, <2>6, <2>9
<1>5. ASSUME NEW r \in Requests, RejectUnsupported(r) PROVE TInv'
  <2> USE <1>5 DEF RejectUnsupported
  <2>1. row' \in [Requests -> Statuses] /\ noReport' \in BOOLEAN
    BY ReportTypes
  <2> QED BY <2>1, ProcFacts DEF MemoryTypes, ProcTypes, Points, ServerTypes,
                                 Phases, PhaseOf
<1>6. ASSUME NEW o \in Own, OwnRunDue(o) PROVE TInv'
  BY <1>6, ProcFacts DEF OwnRunDue, memory, server, MemoryTypes, ProcTypes,
                         Points, ServerTypes, Phases, PhaseOf
<1>7. ASSUME NEW p \in Procs, RunStep(p) PROVE TInv'
  BY <1>7, TInvRunStep
<1>8. CASE Restart
  <2> USE <1>8 DEF Restart, server
  <2>1. MemoryTypes' /\ ServerTypes'
    <3>1. restarts' \in 0..MaxRestarts
      BY ProcFacts DEF ServerTypes
    <3> QED BY <3>1 DEF MemoryTypes, ServerTypes
  <2>2. ProcTypes'
    BY DEF ProcTypes, Points
  <2>3. Phases'
    BY DEF Phases, PhaseOf
  <2> QED BY <2>1, <2>2, <2>3
<1>9. CASE UNCHANGED vars
  BY <1>9 DEF vars, memory, proc, server, MemoryTypes, ProcTypes, ServerTypes,
              Phases, PhaseOf
<1> QED
  BY <1>1, <1>2, <1>3, <1>4, <1>5, <1>6, <1>7, <1>8, <1>9 DEF Next

(* They hold throughout. *)
LEMMA TInvariant == Spec => []TInv
  BY TInvInit, TInvStep, PTL DEF Spec

(* Type correctness: every variable keeps its shape in every step. *)
THEOREM TypeCorrect == Spec => []TypeOK
<1>1. TInv => TypeOK
  BY DEF TInv
<1> QED BY <1>1, TInvariant, PTL

-----------------------------------------------------------------------------
(* The running flag of a type is up exactly while a goroutine executes a   *)
(* run of it; that flag, and not the goroutines themselves, is what keeps  *)
(* the runs of a type apart.                                               *)
FlagHeld ==
    /\ \A p \in Procs : Executes(p) => running[ProcType[p]]
    /\ \A t \in Types : running[t] =>
         \E p \in Procs : Executes(p) /\ ProcType[p] = t
    /\ \A t \in Types : queued[t] # {} /\ ~stopping => running[t]

RunInv == FlagHeld /\ OneRunPerType

(* A step after which the same goroutines execute a run keeps it. *)
LEMMA RunInvQuiet ==
    ASSUME RunInv, UNCHANGED <<running, queued>>, stopping => stopping',
           \A p \in Procs : Executes(p)' <=> Executes(p)
    PROVE  RunInv'
  BY DEF RunInv, FlagHeld, OneRunPerType

(* A goroutine that enters runScan finds the type idle, or queues. *)
LEMMA RunInvRunScan ==
    ASSUME TInv, RunInv, NEW p \in Procs, RunScan(p)
    PROVE  RunInv'
<1> USE DEF RunScan
<1>1. ProcType[p] \in Types /\ ~Executes(p) /\ pc[p] = "spawned"
  BY DEF TInv, Phases, PhaseOf, Executes, Executing
<1>2. /\ running \in [Types -> BOOLEAN] /\ queued \in [Types -> SUBSET Requests]
      /\ pc \in [Procs -> Points] /\ stopping' = stopping
  BY DEF TInv, TypeOK, MemoryTypes, ProcTypes
<1>3. CASE Busy(ProcType[p])
  <2>1. \A q \in Procs : Executes(q)' <=> Executes(q)
    BY <1>1, <1>2, <1>3 DEF Executes, Executing
  <2>2. running' = running /\ running[ProcType[p]]
    BY <1>3 DEF Busy
  <2>3. \A t \in Types : t # ProcType[p] => queued'[t] = queued[t]
    BY <1>2, <1>3
  <2> QED BY <2>1, <2>2, <2>3, <1>2 DEF RunInv, FlagHeld, OneRunPerType
<1>4. CASE ~Busy(ProcType[p])
  <2>1. Executes(p)' /\ \A q \in Procs \ {p} : Executes(q)' <=> Executes(q)
    BY <1>2, <1>4 DEF Executes, Executing
  <2>2. \A q \in Procs : Executes(q) => ProcType[q] # ProcType[p]
    BY <1>4 DEF Busy, RunInv, FlagHeld
  <2>3. queued' = queued /\ running' = [running EXCEPT ![ProcType[p]] = TRUE]
    BY <1>4
  <2>4. FlagHeld'
    BY <1>1, <1>2, <2>1, <2>3 DEF RunInv, FlagHeld
  <2>5. OneRunPerType'
    BY <2>1, <2>2 DEF RunInv, OneRunPerType
  <2> QED BY <2>4, <2>5 DEF RunInv
<1> QED BY <1>3, <1>4

(* A run that ends takes the queue over, or leaves the type idle. *)
LEMMA RunInvRunEnds ==
    ASSUME TInv, RunInv, NEW p \in Procs, RunEnds(p)
    PROVE  RunInv'
<1> USE DEF RunEnds
<1>1. ProcType[p] \in Types /\ Executes(p) /\ pc[p] = "end"
  BY DEF TInv, Phases, PhaseOf, Executes, Executing
<1>2. /\ running \in [Types -> BOOLEAN] /\ queued \in [Types -> SUBSET Requests]
      /\ pc \in [Procs -> Points] /\ stopping' = stopping
  BY DEF TInv, TypeOK, MemoryTypes, ProcTypes
<1>3. CASE NothingQueued(ProcType[p]) \/ stopping
  <2>1. ~Executes(p)' /\ \A q \in Procs \ {p} : Executes(q)' <=> Executes(q)
    BY <1>2, <1>3 DEF Executes, Executing
  <2>2. \A q \in Procs \ {p} : Executes(q) => ProcType[q] # ProcType[p]
    BY <1>1 DEF RunInv, OneRunPerType
  <2>3. queued' = queued /\ running' = [running EXCEPT ![ProcType[p]] = FALSE]
    BY <1>3
  <2>4. FlagHeld'
    BY <1>1, <1>2, <1>3, <2>1, <2>2, <2>3 DEF RunInv, FlagHeld, NothingQueued
  <2>5. OneRunPerType'
    BY <2>1 DEF RunInv, OneRunPerType
  <2> QED BY <2>4, <2>5 DEF RunInv
<1>4. CASE ~(NothingQueued(ProcType[p]) \/ stopping)
  <2>1. \A q \in Procs : Executes(q)' <=> Executes(q)
    BY <1>1, <1>2, <1>4 DEF Executes, Executing
  <2>2. running' = running /\ running[ProcType[p]]
    BY <1>1, <1>4 DEF RunInv, FlagHeld
  <2>3. \A t \in Types : t # ProcType[p] => queued'[t] = queued[t]
    BY <1>2, <1>4
  <2> QED BY <2>1, <2>2, <2>3 DEF RunInv, FlagHeld, OneRunPerType
<1> QED BY <1>3, <1>4

(* The invariant of runs is inductive, given types and phases. *)
LEMMA RunInvStep == TInv /\ RunInv /\ [Next]_vars => RunInv'
<1> SUFFICES ASSUME TInv, RunInv, [Next]_vars PROVE RunInv'
  OBVIOUS
<1> DEFINE Same == \A p \in Procs : Executes(p)' <=> Executes(p)
<1>0. pc \in [Procs -> Points]
  BY DEF TInv, TypeOK, ProcTypes
<1>1. ASSUME NEW r \in Requests, Issue(r) \/ Close(r) \/ TtlOver(r) PROVE RunInv'
  BY <1>1, RunInvQuiet DEF Issue, Close, TtlOver, memory, proc, Executes
<1>2. CASE Upgrade \/ BackoffOver \/ Heartbeat \/ Shutdown
  BY <1>2, RunInvQuiet
  DEF Upgrade, BackoffOver, Heartbeat, Shutdown, memory, proc, Executes
<1>3. CASE HandleScanRequests
  <2>1. \A p \in Unseen(reply, handled \ aged) : p \in Requests /\ pc[p] = "off"
    BY DEF TInv, TypeOK, MemoryTypes, Phases, PhaseOf, Remembered, Unseen, Procs
  <2>2. Same
    BY <1>3, <2>1 DEF HandleScanRequests, Executes, Executing
  <2> QED BY <1>3, <2>2, RunInvQuiet DEF HandleScanRequests
<1>4. ASSUME NEW r \in Requests, RejectUnsupported(r) PROVE RunInv'
  <2>1. Same
    BY <1>0, <1>4, ProcFacts DEF RejectUnsupported, Executes, Executing
  <2> QED BY <1>4, <2>1, RunInvQuiet DEF RejectUnsupported
<1>5. ASSUME NEW o \in Own, OwnRunDue(o) PROVE RunInv'
  <2>1. Same
    BY <1>0, <1>5, ProcFacts DEF OwnRunDue, Executes, Executing
  <2> QED BY <1>5, <2>1, RunInvQuiet DEF OwnRunDue, memory
<1>6. ASSUME NEW p \in Procs, RunStep(p) PROVE RunInv'
  <2>1. CASE ReportRequestedStart(p) \/ ReportFinish(p)
    <3>1. Same
      BY <1>0, <2>1 DEF ReportRequestedStart, ReportFinish, Executes, Executing
    <3> QED BY <2>1, <3>1, RunInvQuiet DEF ReportRequestedStart, ReportFinish
  <2>2. CASE ReportOwnStart(p) \/ ScanReturns(p)
    <3>1. Same
      BY <1>0, <2>2 DEF ReportOwnStart, ScanReturns, Executes, Executing
    <3> QED BY <2>2, <3>1, RunInvQuiet DEF ReportOwnStart, ScanReturns, memory
  <2> QED BY <1>6, <2>1, <2>2, RunInvRunScan, RunInvRunEnds DEF RunStep
<1>7. CASE Restart
  BY <1>7 DEF Restart, RunInv, FlagHeld, OneRunPerType, Executes, Executing
<1>8. CASE UNCHANGED vars
  BY <1>8, RunInvQuiet DEF vars, memory, proc, Executes
<1> QED
  BY <1>1, <1>2, <1>3, <1>4, <1>5, <1>6, <1>7, <1>8 DEF Next

(* It holds throughout. *)
LEMMA RunInvariant == Spec => []RunInv
<1>1. Init => RunInv
  BY DEF Init, RunInv, FlagHeld, OneRunPerType, Executes, Executing
<1> QED BY <1>1, RunInvStep, TInvariant, PTL DEF Spec

(* Two runs of one scan type never overlap, in any interleaving of         *)
(* requests, the agent's own runs, stops and crashes.                      *)
THEOREM RunsAreSerial == Spec => []OneRunPerType
<1>1. RunInv => OneRunPerType
  BY DEF RunInv
<1> QED BY <1>1, RunInvariant, PTL

(* A queued request always has a goroutine left to run it, until a stop.   *)
THEOREM NothingStranded == Spec => []NoStrandedRequest
<1>1. RunInv => NoStrandedRequest
  BY DEF RunInv, FlagHeld, NoStrandedRequest
<1> QED BY <1>1, RunInvariant, PTL

-----------------------------------------------------------------------------
(* A held request is remembered, so that no later heartbeat can hand it to *)
(* a second goroutine, and it has the type of whoever holds it.            *)
HeldRemembered ==
    /\ \A p \in Procs : \A r \in HeldBy(p) :
         r \in Remembered /\ RequestType[r] = ProcType[p]
    /\ \A t \in Types : queued[t] \subseteq Remembered

HoldInv == HeldOnce /\ HeldRemembered

(* A step in which no queue changes and nobody gains a request keeps it.   *)
LEMMA HoldInvQuiet ==
    ASSUME HoldInv, queued' = queued, Remembered \subseteq Remembered',
           \A p \in Procs : HeldBy(p)' \subseteq HeldBy(p)
    PROVE  HoldInv'
<1>1. HeldOnce'
  BY DEF HoldInv, HeldOnce
<1>2. HeldRemembered'
  BY DEF HoldInv, HeldRemembered
<1> QED BY <1>1, <1>2 DEF HoldInv

(* When the type is busy the ids move to its queue; otherwise the goroutine *)
(* keeps them.                                                              *)
LEMMA HoldInvRunScan ==
    ASSUME TInv, HoldInv, NEW p \in Procs, RunScan(p)
    PROVE  HoldInv'
<1> DEFINE t == ProcType[p]
<1>1. /\ t \in Types /\ todo[p] = {} /\ ids[p] \subseteq Requests
      /\ HeldBy(p) = ids[p] /\ pc[p] = "spawned"
  BY DEF RunScan, TInv, Phases, PhaseOf, HeldBy
<1>2. /\ queued \in [Types -> SUBSET Requests] /\ todo \in [Procs -> SUBSET (Requests \cup {NoId, OwnRow})]
      /\ ids \in [Procs -> SUBSET (Requests \cup {OwnRow})]
  BY DEF TInv, TypeOK, MemoryTypes, ProcTypes
<1>3. Remembered' = Remembered
  BY DEF RunScan, Remembered
<1>4. CASE Busy(t)
  <2>1. queued' = [queued EXCEPT ![t] = @ \cup ids[p]] /\ ids' = [ids EXCEPT ![p] = {}]
        /\ todo' = todo
    BY <1>4 DEF RunScan
  <2>2. HeldBy(p)' = {} /\ \A q \in Procs \ {p} : HeldBy(q)' = HeldBy(q)
    BY <1>1, <1>2, <2>1 DEF HeldBy
  <2>3. queued'[t] = queued[t] \cup HeldBy(p)
        /\ \A u \in Types \ {t} : queued'[u] = queued[u]
    BY <1>1, <1>2, <2>1
  <2>4. HeldOnce'
    BY <2>2, <2>3 DEF HoldInv, HeldOnce, HeldRemembered
  <2>5. HeldRemembered'
    BY <1>3, <2>2, <2>3 DEF HoldInv, HeldRemembered
  <2> QED BY <2>4, <2>5 DEF HoldInv
<1>5. CASE ~Busy(t)
  <2>1. \A q \in Procs : HeldBy(q)' = HeldBy(q)
    BY <1>1, <1>2, <1>5 DEF RunScan, HeldBy
  <2> QED BY <1>3, <1>5, <2>1, HoldInvQuiet DEF RunScan
<1> QED BY <1>4, <1>5

(* The queue of the type moves to the goroutine that ended a run. *)
LEMMA HoldInvRunEnds ==
    ASSUME TInv, HoldInv, NEW p \in Procs, RunEnds(p)
    PROVE  HoldInv'
<1> DEFINE t == ProcType[p]
<1>1. t \in Types /\ todo[p] = {} /\ ids[p] = {} /\ HeldBy(p) = {}
  BY DEF RunEnds, TInv, Phases, PhaseOf, HeldBy
<1>2. /\ queued \in [Types -> SUBSET Requests] /\ todo \in [Procs -> SUBSET (Requests \cup {NoId, OwnRow})]
      /\ ids \in [Procs -> SUBSET (Requests \cup {OwnRow})]
  BY DEF TInv, TypeOK, MemoryTypes, ProcTypes
<1>3. Remembered' = Remembered
  BY DEF RunEnds, Remembered
<1>4. CASE NothingQueued(t) \/ stopping
  <2>1. \A q \in Procs : HeldBy(q)' = HeldBy(q)
    BY <1>4 DEF RunEnds, HeldBy
  <2> QED BY <1>3, <1>4, <2>1, HoldInvQuiet DEF RunEnds
<1>5. CASE ~(NothingQueued(t) \/ stopping)
  <2>1. queued' = [queued EXCEPT ![t] = {}] /\ ids' = ids
        /\ todo' = [todo EXCEPT ![p] = queued[t]]
    BY <1>5 DEF RunEnds, QueueAfterTaking
  <2>2. HeldBy(p)' = queued[t] /\ \A q \in Procs \ {p} : HeldBy(q)' = HeldBy(q)
    BY <1>1, <1>2, <2>1 DEF HeldBy
  <2>3. queued'[t] = {} /\ \A u \in Types \ {t} : queued'[u] = queued[u]
    BY <1>1, <1>2, <2>1
  <2>4. HeldOnce'
    BY <2>2, <2>3, <1>1 DEF HoldInv, HeldOnce
  <2>5. HeldRemembered'
    BY <1>1, <1>3, <2>2, <2>3 DEF HoldInv, HeldRemembered, HeldOnce
  <2> QED BY <2>4, <2>5 DEF HoldInv
<1> QED BY <1>4, <1>5

(* A fresh request is not remembered, hence held by nobody. *)
LEMMA HoldInvHandle ==
    ASSUME TInv, HoldInv, HandleScanRequests
    PROVE  HoldInv'
<1> DEFINE fresh == Unseen(reply, handled \ aged)
<1>1. /\ fresh \subseteq Requests /\ fresh \cap Remembered = {}
      /\ fresh \subseteq Remembered' /\ Remembered \subseteq Remembered'
  BY DEF HandleScanRequests, Unseen, Remembered, TInv, TypeOK, MemoryTypes
<1>2. \A p \in Procs : HeldBy(p) \cap fresh = {}
  BY <1>1 DEF HoldInv, HeldRemembered
<1>3. \A t \in Types : queued'[t] = queued[t] /\ queued[t] \cap fresh = {}
  BY <1>1 DEF HandleScanRequests, HoldInv, HeldRemembered
<1>4. \A p \in Procs : todo'[p] = todo[p]
                        /\ ids'[p] = IF p \in fresh THEN {p} ELSE ids[p]
  BY DEF HandleScanRequests
<1>5. \A p \in fresh : p \in Procs /\ todo[p] = {}
  BY <1>1 DEF TInv, Phases, PhaseOf, Procs
<1>6. \A p \in fresh : HeldBy(p)' = {p}
  BY <1>1, <1>4, <1>5 DEF HeldBy
<1>7. \A p \in Procs \ fresh : HeldBy(p)' = HeldBy(p)
  BY <1>4 DEF HeldBy
<1>8. \A r \in fresh : ProcType[r] = RequestType[r]
  BY <1>1, ProcFacts
<1> HIDE DEF fresh
<1>9. HeldOnce'
  <2>1. ASSUME NEW p \in Procs, NEW q \in Procs, p # q
        PROVE  HeldBy(p)' \cap HeldBy(q)' = {}
    BY <1>2, <1>6, <1>7, <2>1 DEF HoldInv, HeldOnce
  <2>2. ASSUME NEW p \in Procs, NEW t \in Types
        PROVE  HeldBy(p)' \cap queued'[t] = {}
    BY <1>2, <1>3, <1>6, <1>7 DEF HoldInv, HeldOnce
  <2>3. \A t \in Types : \A r \in queued'[t] : RequestType[r] = t
    BY <1>3 DEF HoldInv, HeldOnce
  <2> QED BY <2>1, <2>2, <2>3 DEF HeldOnce
<1>10. HeldRemembered'
  <2>1. ASSUME NEW p \in Procs, NEW r \in HeldBy(p)'
        PROVE  r \in Remembered' /\ RequestType[r] = ProcType[p]
    BY <1>1, <1>6, <1>7, <1>8 DEF HoldInv, HeldRemembered
  <2>2. \A t \in Types : queued'[t] \subseteq Remembered'
    BY <1>1, <1>3 DEF HoldInv, HeldRemembered
  <2> QED BY <2>1, <2>2 DEF HeldRemembered
<1> QED BY <1>9, <1>10 DEF HoldInv

(* The invariant of held requests is inductive. *)
LEMMA HoldInvStep == TInv /\ HoldInv /\ [Next]_vars => HoldInv'
<1> SUFFICES ASSUME TInv, HoldInv, [Next]_vars PROVE HoldInv'
  OBVIOUS
<1>0. /\ todo \in [Procs -> SUBSET (Requests \cup {NoId, OwnRow})]
      /\ ids \in [Procs -> SUBSET (Requests \cup {OwnRow})]
  BY DEF TInv, TypeOK, ProcTypes
<1>1. ASSUME NEW r \in Requests, Issue(r) \/ Close(r) PROVE HoldInv'
  BY <1>1, HoldInvQuiet DEF Issue, Close, memory, proc, HeldBy, Remembered
<1>2. ASSUME NEW r \in Requests, TtlOver(r) PROVE HoldInv'
  <2>1. /\ Remembered' = Remembered \ {r} /\ queued' = queued
        /\ \A p \in Procs : HeldBy(p)' = HeldBy(p)
    BY <1>2 DEF TtlOver, Remembered, proc, HeldBy
  <2>2. /\ \A p \in Procs : r \notin HeldBy(p)
        /\ \A t \in Types : r \notin queued[t]
    <3>1. r \notin Held
      BY <1>2 DEF TtlOver
    <3>2. ASSUME NEW p \in Procs PROVE HeldBy(p) \subseteq Held
      BY DEF Held
    <3>3. ASSUME NEW t \in Types PROVE queued[t] \subseteq Held
      BY DEF Held, AllQueued
    <3> QED BY <3>1, <3>2, <3>3
  <2>3. HeldOnce'
    BY <2>1 DEF HoldInv, HeldOnce
  <2>4. ASSUME NEW p \in Procs, NEW s \in HeldBy(p)'
        PROVE  s \in Remembered' /\ RequestType[s] = ProcType[p]
    BY <2>1, <2>2 DEF HoldInv, HeldRemembered
  <2>5. \A t \in Types : queued'[t] \subseteq Remembered'
    BY <2>1, <2>2 DEF HoldInv, HeldRemembered
  <2> QED BY <2>3, <2>4, <2>5 DEF HoldInv, HeldRemembered
<1>3. CASE Upgrade \/ BackoffOver \/ Heartbeat \/ Shutdown
  BY <1>3, HoldInvQuiet DEF Upgrade, BackoffOver, Heartbeat, Shutdown, memory,
                            proc, HeldBy, Remembered
<1>4. CASE HandleScanRequests
  BY <1>4, HoldInvHandle
<1>5. ASSUME NEW r \in Requests, RejectUnsupported(r) PROVE HoldInv'
  <2>1. \A p \in Procs : HeldBy(p)' \subseteq HeldBy(p)
    BY <1>0, <1>5 DEF RejectUnsupported, HeldBy
  <2> QED BY <1>5, <2>1, HoldInvQuiet DEF RejectUnsupported, Remembered
<1>6. ASSUME NEW o \in Own, OwnRunDue(o) PROVE HoldInv'
  BY <1>6, HoldInvQuiet DEF OwnRunDue, memory, HeldBy, Remembered
<1>7. ASSUME NEW p \in Procs, RunStep(p) PROVE HoldInv'
  <2>1. CASE ReportRequestedStart(p)
    <3>1. \A q \in Procs : HeldBy(q)' \subseteq HeldBy(q)
      BY <1>0, <2>1 DEF ReportRequestedStart, HeldBy
    <3> QED BY <2>1, <3>1, HoldInvQuiet DEF ReportRequestedStart, Remembered
  <2>2. CASE ReportOwnStart(p)
    <3>1. \A q \in Procs : HeldBy(q)' \subseteq HeldBy(q)
      BY <1>0, <2>2, ProcFacts DEF ReportOwnStart, LinkedRow, HeldBy
    <3> QED BY <2>2, <3>1, HoldInvQuiet DEF ReportOwnStart, Remembered
  <2>3. CASE ScanReturns(p)
    <3>1. \A q \in Procs : HeldBy(q)' \subseteq HeldBy(q)
      BY <1>0, <2>3, ProcFacts DEF ScanReturns, HeldBy
    <3> QED BY <2>3, <3>1, HoldInvQuiet DEF ScanReturns, Remembered, memory
  <2>4. CASE ReportFinish(p)
    <3>1. \A q \in Procs : HeldBy(q)' \subseteq HeldBy(q)
      BY <1>0, <2>4 DEF ReportFinish, HeldBy
    <3> QED BY <2>4, <3>1, HoldInvQuiet DEF ReportFinish, Remembered
  <2> QED BY <1>7, <2>1, <2>2, <2>3, <2>4, HoldInvRunScan, HoldInvRunEnds
         DEF RunStep
<1>8. CASE Restart
  BY <1>8 DEF Restart, HoldInv, HeldOnce, HeldRemembered, HeldBy
<1>9. CASE UNCHANGED vars
  BY <1>9, HoldInvQuiet DEF vars, memory, proc, HeldBy, Remembered
<1> QED
  BY <1>1, <1>2, <1>3, <1>4, <1>5, <1>6, <1>7, <1>8, <1>9 DEF Next

(* It holds throughout. *)
LEMMA HoldInvariant == Spec => []HoldInv
<1>1. Init => HoldInv
  BY DEF Init, HoldInv, HeldOnce, HeldRemembered, HeldBy
<1> QED BY <1>1, HoldInvStep, TInvariant, PTL DEF Spec

(* No request is ever with two goroutines, or with one and in a queue, and *)
(* a queue holds only requests of its type.                                *)
THEOREM RequestsHeldOnce == Spec => []HeldOnce
<1>1. HoldInv => HeldOnce
  BY DEF HoldInv
<1> QED BY <1>1, HoldInvariant, PTL

-----------------------------------------------------------------------------
(* A request whose start has not been reported: queued, with a goroutine,  *)
(* or in a reply that is about to hand it to one.                          *)
Unstarted(r) ==
    \/ \E t \in Types : r \in queued[t]
    \/ \E p \in Procs : r \in UnreportedBy(p)
    \/ r \in reply \ Remembered

(* A request this process may still run or report. *)
InHand(r) ==
    \/ \E t \in Types : r \in queued[t]
    \/ \E p \in Procs : r \in HeldBy(p)
    \/ r \in reply \ Remembered

Opened == {"running", "finished"}

(* What the rows of the server say of the requests in the agent's hands.   *)
(* The reply under way is part of it: what it holds and the agent does not *)
(* remember becomes a run without another look at the server.              *)
RowInv ==
    /\ \A r \in Requests : Unstarted(r) => row[r] \notin Opened
    /\ \A r \in told : row[r] = "closed" /\ ~InHand(r)
    /\ \A r \in Requests : pc[r] = "reject" => ids[r] = {r}

(* A report changes no row but the one it names, and no closed one. *)
LEMMA ReportRow ==
    ASSUME TypeOK, NEW i, NEW status \in {"running", "finished"},
           NEW ok \in BOOLEAN, ReportScan(i, status, ok)
    PROVE  \A r \in Requests :
              /\ r # i => row'[r] = row[r]
              /\ row[r] = "closed" => row'[r] = "closed"
  BY DEF TypeOK, ServerTypes, ReportScan, Recorded

(* A step that takes no request in hand, and opens no row of an unstarted  *)
(* one, keeps the invariant.                                               *)
LEMMA RowInvQuiet ==
    ASSUME RowInv, told' = told, told \subseteq Requests,
           \A r \in Requests : Unstarted(r)' => Unstarted(r),
           \A r \in Requests : InHand(r)' => InHand(r),
           \A r \in Requests : Unstarted(r)' =>
              row'[r] = row[r] \/ row'[r] \notin Opened,
           \A r \in Requests : row[r] = "closed" => row'[r] = "closed",
           \A r \in Requests : pc'[r] = "reject" => ids'[r] = {r}
    PROVE  RowInv'
  BY DEF RowInv

(* Every unstarted request is in hand, and all in hand but those of a      *)
(* reply are remembered.                                                   *)
LEMMA InHandFacts ==
    ASSUME TInv, HoldInv
    PROVE  /\ \A r \in Requests : Unstarted(r) => InHand(r)
           /\ \A p \in Procs : UnreportedBy(p) \subseteq HeldBy(p)
           /\ \A p \in Procs : HeldBy(p) \subseteq Remembered
<1>1. \A p \in Procs : UnreportedBy(p) \subseteq HeldBy(p)
  BY DEF TInv, Phases, PhaseOf, UnreportedBy, HeldBy
<1> QED BY <1>1 DEF Unstarted, InHand, HoldInv, HeldRemembered

(* What a goroutine has in hand is with nobody else: not queued, not with  *)
(* another goroutine, and not new in a reply.                              *)
LEMMA NotElsewhere ==
    ASSUME TInv, HoldInv, NEW p \in Procs, NEW r \in HeldBy(p)
    PROVE  /\ \A t \in Types : r \notin queued[t]
           /\ \A q \in Procs : q # p => r \notin HeldBy(q) /\ r \notin UnreportedBy(q)
           /\ r \notin reply \ Remembered
  BY InHandFacts DEF HoldInv, HeldOnce, HeldRemembered

(* A start report: the request is taken off the list of those to report,   *)
(* and refused for good or part of the run.                                *)
LEMMA RowInvStart ==
    ASSUME TInv, HoldInv, RowInv, NEW p \in Procs, ReportRequestedStart(p)
    PROVE  RowInv'
<1> USE DEF ReportRequestedStart
<1>0. /\ pc[p] = "start" /\ pc \in [Procs -> Points]
      /\ todo \in [Procs -> SUBSET (Requests \cup {NoId, OwnRow})]
      /\ ids \in [Procs -> SUBSET (Requests \cup {OwnRow})]
      /\ todo[p] \subseteq Requests /\ ids[p] \subseteq Requests
      /\ todo[p] \cap ids[p] = {}
      /\ TypeOK
  BY DEF TInv, TypeOK, ProcTypes, Phases, PhaseOf
<1>1. PICK i \in todo[p], ok \in BOOLEAN :
         LET live == IF Drops(i, ok) THEN ids[p] ELSE ids[p] \cup {i}
             last == todo[p] = {i}
         IN
         /\ ReportScan(i, "running", ok)
         /\ told' = IF ok /\ row[i] = "closed" THEN told \cup {i} ELSE told
         /\ ids' = [ids EXCEPT ![p] = live]
         /\ todo' = [todo EXCEPT ![p] = @ \ {i}]
         /\ pc' = [pc EXCEPT ![p] = IF ~last THEN "start"
                                   ELSE IF live = {} THEN "end" ELSE "scan"]
  OBVIOUS
<1>2. \A r \in Requests :
        /\ r # i => row'[r] = row[r]
        /\ row[r] = "closed" => row'[r] = "closed"
  BY <1>0, <1>1, ReportRow
<1>3. i \in HeldBy(p) /\ i \in Requests
  BY <1>0 DEF HeldBy
<1>4. /\ \A t \in Types : i \notin queued[t]
      /\ \A q \in Procs : q # p => i \notin HeldBy(q) /\ i \notin UnreportedBy(q)
      /\ i \notin reply \ Remembered
  BY <1>3, NotElsewhere
<1>5. /\ \A q \in Procs : q # p => UnreportedBy(q)' = UnreportedBy(q)
                                   /\ HeldBy(q)' = HeldBy(q)
      /\ UnreportedBy(p)' \subseteq UnreportedBy(p) \ {i}
      /\ HeldBy(p)' \subseteq HeldBy(p)
      /\ reply' = reply /\ Remembered' = Remembered /\ queued' = queued
  BY <1>0, <1>1 DEF UnreportedBy, HeldBy, Remembered
<1>6. ok /\ row[i] = "closed" => i \notin HeldBy(p)'
  BY <1>0, <1>1 DEF Drops, HeldBy
<1>7. \A r \in Requests : Unstarted(r)' => Unstarted(r) /\ r # i
  BY <1>4, <1>5 DEF Unstarted
<1>8. \A r \in Requests : InHand(r)' => InHand(r)
  BY <1>5 DEF InHand
<1>9. ok /\ row[i] = "closed" => ~InHand(i)'
  BY <1>4, <1>5, <1>6 DEF InHand
<1>10. \A r \in Requests : pc'[r] = "reject" => ids'[r] = {r}
  BY <1>0, <1>1 DEF RowInv, Procs
<1>11. told \subseteq Requests
  BY DEF TInv, TypeOK, ServerTypes
<1>12. \A r \in told' : row'[r] = "closed" /\ ~InHand(r)'
  BY <1>1, <1>2, <1>3, <1>8, <1>9, <1>11 DEF RowInv
<1>13. \A r \in Requests : Unstarted(r)' => row'[r] \notin Opened
  BY <1>2, <1>7 DEF RowInv
<1> QED BY <1>10, <1>12, <1>13 DEF RowInv

(* The other steps of a run report only what is started, or nothing. *)
LEMMA RowInvRunStep ==
    ASSUME TInv, HoldInv, RowInv, NEW p \in Procs, RunStep(p)
    PROVE  RowInv'
<1>0. /\ pc \in [Procs -> Points] /\ told \subseteq Requests
      /\ todo \in [Procs -> SUBSET (Requests \cup {NoId, OwnRow})]
      /\ ids \in [Procs -> SUBSET (Requests \cup {OwnRow})]
      /\ queued \in [Types -> SUBSET Requests]
      /\ TypeOK /\ PhaseOf(p)
  BY DEF TInv, TypeOK, MemoryTypes, ProcTypes, ServerTypes, Phases
<1>a. \A r \in Requests : pc[r] = "reject" => ids[r] = {r}
  BY DEF RowInv
<1>b. OwnRow \notin Requests /\ NoId \notin Requests /\ Requests \subseteq Procs
  BY ProcFacts DEF Procs
<1>1. CASE RunScan(p)
  <2> USE DEF RunScan
  <2>1. /\ UNCHANGED <<reply, handled, aged, told, row>>
        /\ pc[p] = "spawned" /\ todo[p] = {} /\ ids[p] \subseteq Requests
        /\ ProcType[p] \in Types
        /\ \A q \in Procs \ {p} : /\ pc'[q] = pc[q] /\ ids'[q] = ids[q]
                                  /\ todo'[q] = todo[q]
        /\ pc'[p] # "reject"
    BY <1>0, <1>1 DEF PhaseOf, server
  <2>2. UnreportedBy(p) = ids[p] /\ HeldBy(p) = ids[p]
    BY <2>1 DEF UnreportedBy, HeldBy
  <2>3. /\ \A t \in Types : queued'[t] \subseteq queued[t] \cup ids[p]
        /\ UnreportedBy(p)' \subseteq ids[p] /\ HeldBy(p)' \subseteq ids[p]
    BY <1>0, <1>1, <2>1 DEF UnreportedBy, HeldBy
  <2>4. \A q \in Procs \ {p} : UnreportedBy(q)' = UnreportedBy(q)
                                 /\ HeldBy(q)' = HeldBy(q)
    BY <2>1 DEF UnreportedBy, HeldBy
  <2>5. \A s \in Requests : (Unstarted(s)' => Unstarted(s)) /\ (InHand(s)' => InHand(s))
    BY <2>1, <2>2, <2>3, <2>4 DEF Unstarted, InHand, Remembered
  <2>6. \A s \in Requests : pc'[s] = "reject" => ids'[s] = {s}
    BY <1>a, <1>b, <2>1
  <2> QED BY <1>0, <2>1, <2>5, <2>6, RowInvQuiet
<1>2. CASE ReportRequestedStart(p)
  BY <1>2, RowInvStart
<1>3. CASE ReportOwnStart(p)
  <2> USE DEF ReportOwnStart
  <2>1. /\ UNCHANGED <<reply, handled, aged, told, queued, todo>>
        /\ pc' = [pc EXCEPT ![p] = "scan"]
        /\ \A q \in Procs \ {p} : ids'[q] = ids[q]
        /\ ids'[p] = ids[p] \/ ids'[p] = {} \/ ids'[p] = {OwnRow}
    BY <1>0, <1>3 DEF LinkedRow
  <2>2. \A s \in Requests : row'[s] = row[s]
    BY <1>0, <1>3, <1>b, ReportRow
  <2>3. \A q \in Procs : UnreportedBy(q)' \subseteq UnreportedBy(q)
                          /\ HeldBy(q)' \subseteq HeldBy(q)
    BY <1>0, <1>b, <2>1 DEF UnreportedBy, HeldBy
  <2>4. \A s \in Requests : (Unstarted(s)' => Unstarted(s)) /\ (InHand(s)' => InHand(s))
    BY <2>1, <2>3 DEF Unstarted, InHand, Remembered
  <2>5. \A s \in Requests : pc'[s] = "reject" => ids'[s] = {s}
    BY <1>0, <1>a, <1>b, <2>1
  <2> QED BY <1>0, <2>1, <2>2, <2>4, <2>5, RowInvQuiet
<1>4. CASE ScanReturns(p)
  <2> USE DEF ScanReturns
  <2>1. /\ UNCHANGED <<reply, handled, aged, told, queued, row>>
        /\ pc[p] = "scan"
        /\ \A q \in Procs \ {p} : /\ pc'[q] = pc[q] /\ ids'[q] = ids[q]
                                  /\ todo'[q] = todo[q]
        /\ pc'[p] \in {"finish", "end"} /\ ids'[p] = {}
        /\ todo'[p] \subseteq ids[p] \cup {NoId}
    BY <1>0, <1>4 DEF memory, server
  <2>2. \A q \in Procs : UnreportedBy(q)' \subseteq UnreportedBy(q)
                          /\ HeldBy(q)' \subseteq HeldBy(q)
    BY <1>b, <2>1 DEF UnreportedBy, HeldBy
  <2>3. \A s \in Requests : (Unstarted(s)' => Unstarted(s)) /\ (InHand(s)' => InHand(s))
    BY <2>1, <2>2 DEF Unstarted, InHand, Remembered
  <2>4. \A s \in Requests : pc'[s] = "reject" => ids'[s] = {s}
    BY <1>a, <1>b, <2>1
  <2> QED BY <1>0, <2>1, <2>3, <2>4, RowInvQuiet
<1>5. CASE ReportFinish(p)
  <2> USE DEF ReportFinish
  <2>1. PICK i \in todo[p], ok \in BOOLEAN :
          /\ ReportScan(i, "finished", ok)
          /\ todo' = [todo EXCEPT ![p] = @ \ {i}]
          /\ pc' = [pc EXCEPT ![p] = IF todo[p] = {i} THEN "end" ELSE "finish"]
    BY <1>5
  <2>2. /\ \A s \in Requests :
             /\ s # i => row'[s] = row[s]
             /\ row[s] = "closed" => row'[s] = "closed"
    BY <1>0, <2>1, ReportRow
  <2>3. /\ UNCHANGED <<reply, handled, aged, told, queued, ids>>
        /\ pc[p] = "finish" /\ pc'[p] \in {"finish", "end"}
        /\ \A q \in Procs \ {p} : pc'[q] = pc[q] /\ todo'[q] = todo[q]
        /\ todo'[p] \subseteq todo[p]
    BY <1>0, <1>5, <2>1
  <2>4. \A q \in Procs : /\ UnreportedBy(q)' \subseteq UnreportedBy(q)
                         /\ HeldBy(q)' \subseteq HeldBy(q)
                         /\ q # p => UnreportedBy(q)' = UnreportedBy(q)
    BY <2>3 DEF UnreportedBy, HeldBy
  <2>5. \A s \in Requests : (Unstarted(s)' => Unstarted(s)) /\ (InHand(s)' => InHand(s))
    BY <2>3, <2>4 DEF Unstarted, InHand, Remembered
  <2>6. i \in Requests => ~Unstarted(i)'
    <3>1. i \in Requests => i \in HeldBy(p)
      BY DEF HeldBy
    <3>2. UnreportedBy(p)' = {}
      BY <2>3 DEF UnreportedBy
    <3> QED BY <2>3, <2>4, <3>1, <3>2, NotElsewhere DEF Unstarted, Remembered
  <2>7. \A s \in Requests : pc'[s] = "reject" => ids'[s] = {s}
    BY <1>a, <1>b, <2>3
  <2> QED BY <1>0, <2>2, <2>3, <2>5, <2>6, <2>7, RowInvQuiet
<1>6. CASE RunEnds(p)
  <2> USE DEF RunEnds, QueueAfterTaking
  <2>1. /\ UNCHANGED <<reply, handled, aged, told, row, ids>>
        /\ pc[p] = "end" /\ todo[p] = {} /\ ids[p] = {} /\ ProcType[p] \in Types
        /\ \A q \in Procs \ {p} : pc'[q] = pc[q] /\ todo'[q] = todo[q]
        /\ pc'[p] # "reject"
    BY <1>0, <1>6 DEF PhaseOf, server
  <2>2. /\ \A t \in Types : queued'[t] \subseteq queued[t]
        /\ todo'[p] \subseteq queued[ProcType[p]]
    BY <1>0, <1>6, <2>1
  <2>3. /\ \A q \in Procs \ {p} : UnreportedBy(q)' = UnreportedBy(q)
                                    /\ HeldBy(q)' = HeldBy(q)
        /\ UnreportedBy(p)' \subseteq queued[ProcType[p]]
        /\ HeldBy(p)' \subseteq queued[ProcType[p]]
    BY <2>1, <2>2 DEF UnreportedBy, HeldBy
  <2>4. \A s \in Requests : (Unstarted(s)' => Unstarted(s)) /\ (InHand(s)' => InHand(s))
    BY <2>1, <2>2, <2>3 DEF Unstarted, InHand, Remembered
  <2>5. \A s \in Requests : pc'[s] = "reject" => ids'[s] = {s}
    BY <1>a, <1>b, <2>1
  <2> QED BY <1>0, <2>1, <2>4, <2>5, RowInvQuiet
<1> QED BY <1>1, <1>2, <1>3, <1>4, <1>5, <1>6, <1>0, <1>a DEF RunStep

(* The requests a reply hands out were new in it. *)
LEMMA RowInvHandle ==
    ASSUME TInv, HoldInv, RowInv, HandleScanRequests
    PROVE  RowInv'
<1> USE DEF HandleScanRequests
<1> DEFINE fresh == Unseen(reply, handled \ aged)
<1>1. /\ fresh = reply \ Remembered /\ fresh \subseteq Requests
      /\ reply' = {}
  BY DEF Unseen, Remembered, TInv, TypeOK, MemoryTypes
<1>2. \A p \in fresh : p \in Procs /\ todo[p] = {} /\ pc[p] = "off"
  BY <1>1 DEF TInv, Phases, PhaseOf, Procs
<1>3. /\ \A p \in fresh : ids'[p] = {p} /\ todo'[p] = todo[p]
                          /\ pc'[p] \in {"spawned", "reject"}
      /\ \A p \in Procs \ fresh : ids'[p] = ids[p] /\ todo'[p] = todo[p]
                                   /\ pc'[p] = pc[p]
      /\ queued' = queued /\ row' = row /\ told' = told
  BY <1>2 DEF server
<1> HIDE DEF fresh, HandleScanRequests
<1>4. /\ \A p \in fresh : UnreportedBy(p)' = {p} /\ HeldBy(p)' = {p}
      /\ \A p \in Procs \ fresh : UnreportedBy(p)' = UnreportedBy(p)
                                    /\ HeldBy(p)' = HeldBy(p)
  BY <1>1, <1>2, <1>3 DEF UnreportedBy, HeldBy
<1>5. \A r \in Requests : Unstarted(r)' => Unstarted(r)
  BY <1>1, <1>2, <1>3, <1>4 DEF Unstarted
<1>6. \A r \in Requests : InHand(r)' => InHand(r)
  BY <1>1, <1>2, <1>3, <1>4 DEF InHand
<1>7. \A r \in Requests : pc'[r] = "reject" => ids'[r] = {r}
  BY <1>3 DEF RowInv, Procs
<1> QED BY <1>3, <1>5, <1>6, <1>7, RowInvQuiet DEF TInv, TypeOK, ServerTypes

(* The invariant of rows is inductive, given the ones before. *)
LEMMA RowInvStep == TInv /\ HoldInv /\ RowInv /\ [Next]_vars => RowInv'
<1> SUFFICES ASSUME TInv, HoldInv, RowInv, [Next]_vars PROVE RowInv'
  OBVIOUS
<1>0. /\ pc \in [Procs -> Points] /\ told \subseteq Requests
      /\ todo \in [Procs -> SUBSET (Requests \cup {NoId, OwnRow})]
      /\ ids \in [Procs -> SUBSET (Requests \cup {OwnRow})]
      /\ queued \in [Types -> SUBSET Requests]
      /\ row \in [Requests -> Statuses] /\ reply \subseteq Requests
      /\ TypeOK
  BY DEF TInv, TypeOK, MemoryTypes, ProcTypes, ServerTypes
<1>a. \A r \in Requests : pc[r] = "reject" => ids[r] = {r}
  BY DEF RowInv
<1>1. ASSUME NEW r \in Requests, Issue(r) \/ Close(r) PROVE RowInv'
  <2>1. /\ UNCHANGED <<queued, pc, todo, ids, reply, handled, aged, told>>
        /\ \A s \in Requests : row'[s] = row[s] \/ row'[s] \notin Opened
        /\ \A s \in Requests : row[s] = "closed" => row'[s] = "closed"
    BY <1>0, <1>1 DEF Issue, Close, memory, proc, Opened
  <2>2. \A s \in Requests : (Unstarted(s)' <=> Unstarted(s)) /\ (InHand(s)' <=> InHand(s))
    BY <2>1 DEF Unstarted, InHand, UnreportedBy, HeldBy, Remembered
  <2> QED BY <1>0, <1>a, <2>1, <2>2, RowInvQuiet
<1>2. CASE Upgrade \/ BackoffOver \/ Shutdown \/ UNCHANGED vars
  <2>1. UNCHANGED <<queued, pc, todo, ids, reply, handled, aged, told, row>>
    BY <1>2 DEF Upgrade, BackoffOver, Shutdown, vars, memory, proc, server
  <2>2. \A s \in Requests : (Unstarted(s)' <=> Unstarted(s)) /\ (InHand(s)' <=> InHand(s))
    BY <2>1 DEF Unstarted, InHand, UnreportedBy, HeldBy, Remembered
  <2> QED BY <1>0, <1>a, <2>1, <2>2, RowInvQuiet
<1>3. CASE Heartbeat
  <2>1. /\ UNCHANGED <<queued, pc, todo, ids, handled, aged, told, row>>
        /\ \A s \in reply' : row[s] = "pending"
    BY <1>3 DEF Heartbeat, proc, server
  <2>2. /\ \A s \in Requests : Unstarted(s)' => Unstarted(s) \/ row[s] = "pending"
        /\ \A s \in Requests : InHand(s)' => InHand(s) \/ row[s] = "pending"
    BY <2>1 DEF Unstarted, InHand, UnreportedBy, HeldBy, Remembered
  <2> QED BY <1>0, <2>1, <2>2 DEF RowInv, Opened
<1>4. ASSUME NEW r \in Requests, TtlOver(r) PROVE RowInv'
  <2>1. UNCHANGED <<queued, pc, todo, ids, told, row, reply>> /\ reply = {}
    BY <1>4 DEF TtlOver, proc, server
  <2>2. \A s \in Requests : (Unstarted(s)' <=> Unstarted(s)) /\ (InHand(s)' <=> InHand(s))
    BY <2>1 DEF Unstarted, InHand, UnreportedBy, HeldBy
  <2> QED BY <1>0, <1>a, <2>1, <2>2, RowInvQuiet
<1>5. CASE HandleScanRequests
  BY <1>5, RowInvHandle
<1>6. ASSUME NEW r \in Requests, RejectUnsupported(r) PROVE RowInv'
  <2>1. r \in Procs /\ r \in HeldBy(r)
    BY <1>6, <1>a, ProcFacts DEF RejectUnsupported, HeldBy
  <2>2. /\ \A s \in Requests :
             /\ s # r => row'[s] = row[s]
             /\ row[s] = "closed" => row'[s] = "closed"
    BY <1>0, <1>6, ReportRow DEF RejectUnsupported
  <2>3. /\ UNCHANGED <<queued, todo, reply, handled, aged, told>>
        /\ pc' = [pc EXCEPT ![r] = "off"] /\ ids' = [ids EXCEPT ![r] = {}]
    BY <1>6 DEF RejectUnsupported
  <2>4. /\ UnreportedBy(r)' = {} /\ HeldBy(r)' \subseteq HeldBy(r)
        /\ \A q \in Procs : q # r => UnreportedBy(q)' = UnreportedBy(q)
                                      /\ HeldBy(q)' = HeldBy(q)
    BY <1>0, <2>1, <2>3 DEF UnreportedBy, HeldBy
  <2>5. ~Unstarted(r)' /\ \A s \in Requests : Unstarted(s)' => Unstarted(s)
    BY <2>1, <2>3, <2>4, NotElsewhere DEF Unstarted, Remembered
  <2>6. \A s \in Requests : InHand(s)' => InHand(s)
    BY <2>3, <2>4 DEF InHand, Remembered
  <2>7. \A s \in Requests : pc'[s] = "reject" => ids'[s] = {s}
    BY <1>0, <1>a, <2>3, ProcFacts
  <2> QED BY <1>0, <2>2, <2>3, <2>5, <2>6, <2>7, RowInvQuiet
<1>7. ASSUME NEW o \in Own, OwnRunDue(o) PROVE RowInv'
  <2>1. /\ UNCHANGED <<queued, todo, ids, reply, handled, aged, told, row>>
        /\ pc' = [pc EXCEPT ![o] = "spawned"] /\ pc[o] = "off" /\ o \in Procs
    BY <1>7, ProcFacts DEF OwnRunDue, memory, server
  <2>2. ids[o] = {}
    BY <2>1 DEF TInv, Phases, PhaseOf
  <2>3. \A q \in Procs : UnreportedBy(q)' = UnreportedBy(q) /\ HeldBy(q)' = HeldBy(q)
    BY <1>0, <2>1, <2>2 DEF UnreportedBy, HeldBy
  <2>4. \A s \in Requests : (Unstarted(s)' <=> Unstarted(s)) /\ (InHand(s)' <=> InHand(s))
    BY <2>1, <2>3 DEF Unstarted, InHand, Remembered
  <2>5. \A s \in Requests : pc'[s] = "reject" => ids'[s] = {s}
    BY <1>0, <1>a, <2>1, ProcFacts
  <2> QED BY <1>0, <2>1, <2>4, <2>5, RowInvQuiet
<1>8. ASSUME NEW p \in Procs, RunStep(p) PROVE RowInv'
  BY <1>8, RowInvRunStep
<1>9. CASE Restart
  <2>1. /\ \A q \in Procs : UnreportedBy(q)' = {} /\ HeldBy(q)' = {}
        /\ \A t \in Types : queued'[t] = {}
        /\ reply' = {} /\ row' = row /\ told' = told
        /\ \A s \in Procs : pc'[s] = "off"
    BY <1>9 DEF Restart, server, UnreportedBy, HeldBy
  <2>2. \A s \in Requests : ~Unstarted(s)' /\ ~InHand(s)'
    BY <2>1 DEF Unstarted, InHand
  <2> QED BY <1>0, <2>1, <2>2, ProcFacts DEF RowInv
<1> QED
  BY <1>1, <1>2, <1>3, <1>4, <1>5, <1>6, <1>7, <1>8, <1>9 DEF Next

(* It holds throughout. *)
LEMMA RowInvariant == Spec => []RowInv
<1>1. Init => RowInv
  <2> SUFFICES ASSUME Init PROVE RowInv
    OBVIOUS
  <2>1. \A r \in Requests : ~Unstarted(r) /\ pc[r] = "off"
    BY ProcFacts DEF Init, Unstarted, UnreportedBy
  <2> QED BY <2>1 DEF Init, RowInv
<1> QED BY <1>1, RowInvStep, HoldInvariant, TInvariant, PTL DEF Spec

(* A request that waits is neither open nor finished on the server, for    *)
(* any requests, types and interleavings: a stop of the agent leaves it to *)
(* be served again, as the comment in runScan says.                        *)
THEOREM WaitingUnstarted == Spec => []WaitingIsUnstarted
<1>1. TInv /\ RowInv => WaitingIsUnstarted
  <2> SUFFICES ASSUME TInv, RowInv,
                      NEW r \in AllQueued \cup (UNION {UnreportedBy(p) : p \in Procs})
               PROVE  row[r] \notin Opened
    BY DEF WaitingIsUnstarted, Opened
  <2>1. Unstarted(r)
    BY DEF Unstarted, AllQueued
  <2>2. r \in Requests
    <3>1. \A t \in Types : queued[t] \subseteq Requests
      BY DEF TInv, TypeOK, MemoryTypes
    <3>2. \A p \in Procs : UnreportedBy(p) \subseteq Requests
      BY DEF TInv, Phases, PhaseOf, UnreportedBy
    <3> QED BY <3>1, <3>2 DEF AllQueued
  <2> QED BY <2>1, <2>2 DEF RowInv
<1> QED BY <1>1, RowInvariant, TInvariant, PTL

(* A request the server answered was closed is not run afterwards, in this *)
(* process or in a later one.                                              *)
THEOREM RefusedStaysRefused == Spec => []RefusedNeverRuns
<1>1. TInv /\ RowInv => RefusedNeverRuns
  <2> SUFFICES ASSUME TInv, RowInv, NEW p \in Procs, NEW r \in ids[p], r \in told
               PROVE  FALSE
    BY DEF RefusedNeverRuns
  <2>1. r \in HeldBy(p)
    BY DEF HeldBy, TInv, TypeOK, ServerTypes
  <2> QED BY <2>1 DEF RowInv, InHand
<1> QED BY <1>1, RowInvariant, TInvariant, PTL

-----------------------------------------------------------------------------
(* The coordinator implements ScanService.  What is being run, and what is *)
(* settled, as the refinement maps them: *)
Active == [t \in Types |-> {ids[p] \cap Requests :
             p \in {q \in Procs : pc[q] = "scan" /\ ProcType[q] = t}}]
Settled == {r \in handled \ Waiting : ~Scanning(r)}

(* A goroutine on a run of the agent's own has no request to report. *)
OwnInv ==
    \A p \in Procs :
        pc[p] \in {"spawned", "start"} /\ trig[p] = "own" =>
            ids[p] = {} /\ todo[p] = {}

(* The requests being run by a type are those of the goroutine that        *)
(* executes its run.                                                       *)
ActiveIsOneRun ==
    \A p \in Procs : Executes(p) =>
        /\ ProcType[p] \in Types
        /\ Active[ProcType[p]] =
              IF pc[p] = "scan" THEN {ids[p] \cap Requests} ELSE {}

(* What a goroutine holds is in one place, so that a request waits, is     *)
(* being run, or neither.                                                  *)
WaitingOrScanning ==
    /\ Waiting \subseteq Requests /\ Waiting \subseteq Remembered
    /\ \A p \in Procs : pc[p] = "scan" =>
          /\ ids[p] \cap Waiting = {} /\ ids[p] \cap Requests \subseteq Remembered
          /\ \A r \in ids[p] \cap Requests : \A q \in Procs :
                pc[q] = "scan" /\ r \in ids[q] => q = p

(* All that is known of a state when a step from it is mapped. *)
MapInv == TInv /\ RunInv /\ HoldInv /\ RowInv /\ OwnInv

(* The runs of a type never overlap, which is why one batch is active.     *)
LEMMA ActiveRuns == TInv /\ RunInv => ActiveIsOneRun
<1> SUFFICES ASSUME TInv, RunInv, NEW p \in Procs, Executes(p)
             PROVE  /\ ProcType[p] \in Types
                    /\ Active[ProcType[p]] =
                          IF pc[p] = "scan" THEN {ids[p] \cap Requests} ELSE {}
  BY DEF ActiveIsOneRun
<1>1. ProcType[p] \in Types
  BY DEF TInv, Phases, PhaseOf, Executes, Executing
<1>2. \A q \in Procs : pc[q] = "scan" /\ ProcType[q] = ProcType[p] => q = p
  BY DEF RunInv, OneRunPerType, Executes, Executing
<1> QED BY <1>1, <1>2 DEF Active

(* A request is held once, which is why it cannot both wait and be run.    *)
LEMMA WaitingApart == TInv /\ HoldInv => WaitingOrScanning
<1> SUFFICES ASSUME TInv, HoldInv PROVE WaitingOrScanning
  OBVIOUS
<1>1. /\ \A t \in Types : queued[t] \subseteq Requests
      /\ \A p \in Procs : HeldBy(p) \subseteq Requests
  BY DEF TInv, TypeOK, MemoryTypes, HeldBy
<1>2. \A p \in Procs : WaitingIn(p) \subseteq HeldBy(p)
  BY DEF WaitingIn
<1>3. Waiting \subseteq Requests /\ Waiting \subseteq Remembered
  BY <1>1, <1>2 DEF Waiting, AllQueued, HoldInv, HeldRemembered
<1>4. ASSUME NEW p \in Procs, pc[p] = "scan"
      PROVE  /\ ids[p] \cap Waiting = {} /\ ids[p] \cap Requests \subseteq Remembered
             /\ \A r \in ids[p] \cap Requests : \A q \in Procs :
                   pc[q] = "scan" /\ r \in ids[q] => q = p
  <2>1. ids[p] \cap Requests \subseteq HeldBy(p)
    BY DEF HeldBy
  <2>2. \A q \in Procs : HeldBy(p) \cap WaitingIn(q) = {}
    BY <1>2, <1>4 DEF HoldInv, HeldOnce, WaitingIn
  <2>3. \A t \in Types : HeldBy(p) \cap queued[t] = {}
    BY DEF HoldInv, HeldOnce
  <2>4. ids[p] \cap Waiting = {}
    BY <1>3, <2>1, <2>2, <2>3 DEF Waiting, AllQueued
  <2>5. \A r \in ids[p] \cap Requests : \A q \in Procs :
           pc[q] = "scan" /\ r \in ids[q] => q = p
    BY DEF HoldInv, HeldOnce, HeldBy
  <2> QED BY <2>1, <2>4, <2>5 DEF HoldInv, HeldRemembered
<1> QED BY <1>3, <1>4 DEF WaitingOrScanning

(* The same of the state after a step. *)
LEMMA MapInvNext == MapInv' => ActiveIsOneRun' /\ WaitingOrScanning'
<1>1. MapInv => ActiveIsOneRun /\ WaitingOrScanning
  BY ActiveRuns, WaitingApart DEF MapInv
<1> QED BY <1>1, PTL

(* The invariant of the agent's own runs is inductive. *)
LEMMA OwnInvStep == TInv /\ OwnInv /\ [Next]_vars => OwnInv'
<1> SUFFICES ASSUME TInv, OwnInv, [Next]_vars PROVE OwnInv'
  OBVIOUS
<1>0. /\ pc \in [Procs -> Points] /\ trig \in [Procs -> {"own", "console", "policy"}]
      /\ todo \in [Procs -> SUBSET (Requests \cup {NoId, OwnRow})]
      /\ ids \in [Procs -> SUBSET (Requests \cup {OwnRow})]
      /\ reply \subseteq Requests
  BY DEF TInv, TypeOK, ProcTypes, MemoryTypes
<1>1. CASE UNCHANGED <<pc, trig, todo, ids>>
  BY <1>1 DEF OwnInv
<1>2. CASE HandleScanRequests
  <2>1. \A p \in Unseen(reply, handled \ aged) :
           p \in Requests /\ RequestTrigger[p] \in {"console", "policy"}
    BY <1>0, ScanConstants DEF Unseen
  <2> QED BY <1>0, <1>2, <2>1 DEF HandleScanRequests, OwnInv
<1>3. ASSUME NEW r \in Requests, RejectUnsupported(r) PROVE OwnInv'
  BY <1>0, <1>3, ProcFacts DEF RejectUnsupported, OwnInv
<1>4. ASSUME NEW o \in Own, OwnRunDue(o) PROVE OwnInv'
  BY <1>0, <1>4, ProcFacts DEF OwnRunDue, OwnInv, TInv, Phases, PhaseOf
<1>5. ASSUME NEW p \in Procs, RunStep(p) PROVE OwnInv'
  <2>1. PhaseOf(p)
    BY DEF TInv, Phases
  <2>2. CASE RunScan(p) \/ RunEnds(p)
    BY <1>0, <2>1, <2>2 DEF RunScan, RunEnds, OwnInv, PhaseOf
  <2>3. CASE ReportRequestedStart(p) \/ ReportOwnStart(p)
    BY <1>0, <2>3 DEF ReportRequestedStart, ReportOwnStart, IsRequested, OwnInv
  <2>4. CASE ScanReturns(p) \/ ReportFinish(p)
    BY <1>0, <2>4 DEF ScanReturns, ReportFinish, OwnInv
  <2> QED BY <1>5, <2>2, <2>3, <2>4 DEF RunStep
<1>6. CASE Restart
  BY <1>6 DEF Restart, OwnInv
<1>7. ASSUME NEW r \in Requests, Issue(r) \/ Close(r) \/ TtlOver(r) PROVE OwnInv'
  BY <1>1, <1>7 DEF Issue, Close, TtlOver, proc
<1>8. CASE Upgrade \/ BackoffOver \/ Heartbeat \/ Shutdown \/ UNCHANGED vars
  BY <1>1, <1>8 DEF Upgrade, BackoffOver, Heartbeat, Shutdown, vars, proc
<1> QED BY <1>2, <1>3, <1>4, <1>5, <1>6, <1>7, <1>8 DEF Next

(* All of it holds throughout. *)
LEMMA MapInvariant == Spec => []MapInv
<1>1. Init => OwnInv
  BY DEF Init, OwnInv
<1>2. Spec => []OwnInv
  BY <1>1, OwnInvStep, TInvariant, PTL DEF Spec
<1> QED BY <1>2, TInvariant, RunInvariant, HoldInvariant, RowInvariant, PTL
        DEF MapInv

-----------------------------------------------------------------------------
(* A step that moves no request out of the waiting or the run ones, and    *)
(* remembers as many, is a stutter of the service.                         *)
LEMMA MapStutter ==
    ASSUME Waiting' = Waiting, handled' = handled,
           \A p \in Procs : /\ pc'[p] = "scan" <=> pc[p] = "scan"
                            /\ pc[p] = "scan" => ids'[p] = ids[p]
    PROVE  UNCHANGED Service!vars
<1>1. Active' = Active
  BY DEF Active
<1>2. Settled' = Settled
  BY DEF Settled, Scanning
<1> QED BY <1>1, <1>2 DEF Service!vars, Active, Settled

(* The run of goroutine p begins. *)
LEMMA MapBegin ==
    ASSUME MapInv, MapInv', NEW p \in Procs, pc[p] = "start", pc'[p] = "scan",
           \A q \in Procs \ {p} : pc'[q] = pc[q] /\ ids'[q] = ids[q],
           handled' = handled,
           NEW dropped \in SUBSET Waiting, dropped \cap ids'[p] = {},
           ids'[p] \cap Requests \subseteq Waiting,
           \A r \in dropped \cup (ids'[p] \cap Requests) : RequestType[r] = ProcType[p],
           Waiting' = Waiting \ (dropped \cup ids'[p])
    PROVE  Service!Next
<1> DEFINE t == ProcType[p]
           batch == ids'[p] \cap Requests
<1>1. ActiveIsOneRun /\ WaitingOrScanning /\ ActiveIsOneRun' /\ WaitingOrScanning'
  BY ActiveRuns, WaitingApart, MapInvNext DEF MapInv
<1>2. t \in Types /\ Active[t] = {} /\ Active'[t] = {batch}
  BY <1>1 DEF ActiveIsOneRun, Executes, Executing
<1>3. Active' = [Active EXCEPT ![t] = {batch}]
  <2>1. \A u \in Types \ {t} : Active'[u] = Active[u]
    BY DEF Active
  <2> QED BY <1>2, <2>1 DEF Active
<1>4. Settled' = Settled \cup dropped
  <2>1. dropped \subseteq handled /\ \A r \in dropped : ~Scanning(r)
    BY <1>1 DEF WaitingOrScanning, Remembered, Scanning
  <2>2. \A r : Scanning(r)' <=> Scanning(r) \/ r \in ids'[p]
    BY DEF Scanning
  <2>3. handled \subseteq Requests
    BY DEF MapInv, TInv, TypeOK, MemoryTypes
  <2> QED BY <2>1, <2>2, <2>3 DEF Settled
<1>5. /\ batch \in SUBSET Requests /\ dropped \in SUBSET Requests
      /\ batch \cup dropped \subseteq {r \in Waiting : RequestType[r] = t}
      /\ batch \cap dropped = {}
      /\ Waiting' = Waiting \ (batch \cup dropped)
  BY <1>1 DEF WaitingOrScanning
<1>6. PICK b \in SUBSET Requests : b = batch
  BY <1>5
<1>7. Service!Begin(t, b, dropped)
  BY <1>2, <1>3, <1>4, <1>5, <1>6 DEF Service!Begin, Active, Settled
<1> HIDE DEF t
<1> QED BY <1>2, <1>5, <1>7 DEF Service!Next

(* A waiting request is dropped. *)
LEMMA MapDrop ==
    ASSUME MapInv, NEW r \in Waiting, Waiting' = Waiting \ {r}, handled' = handled,
           \A p \in Procs : /\ pc'[p] = "scan" <=> pc[p] = "scan"
                            /\ pc[p] = "scan" => ids'[p] = ids[p]
    PROVE  Service!Next
<1>1. WaitingOrScanning
  BY WaitingApart DEF MapInv
<1>2. Active' = Active
  BY DEF Active
<1>3. r \in Requests /\ r \in handled /\ ~Scanning(r)
  BY <1>1 DEF WaitingOrScanning, Remembered, Scanning
<1>4. Settled' = Settled \cup {r}
  BY <1>3 DEF Settled, Scanning
<1>5. Service!Drop(r)
  BY <1>2, <1>4 DEF Service!Drop, Active, Settled
<1> QED BY <1>3, <1>5 DEF Service!Next

(* The run of goroutine p ends. *)
LEMMA MapEnd ==
    ASSUME MapInv, MapInv', NEW p \in Procs, pc[p] = "scan", Executes(p)', pc'[p] # "scan",
           \A q \in Procs \ {p} : pc'[q] = pc[q] /\ ids'[q] = ids[q],
           handled' = handled, Waiting' = Waiting
    PROVE  Service!Next
<1> DEFINE t == ProcType[p]
           batch == ids[p] \cap Requests
<1>1. ActiveIsOneRun /\ WaitingOrScanning /\ ActiveIsOneRun'
  BY ActiveRuns, WaitingApart, MapInvNext DEF MapInv
<1>2. t \in Types /\ Active[t] = {batch} /\ Active'[t] = {}
  BY <1>1 DEF ActiveIsOneRun, Executes, Executing
<1>3. Active' = [Active EXCEPT ![t] = {}]
  <2>1. \A u \in Types \ {t} : Active'[u] = Active[u]
    BY DEF Active
  <2> QED BY <1>2, <2>1 DEF Active
<1>4. Settled' = Settled \cup (UNION Active[t])
  <2>1. batch \subseteq handled /\ batch \cap Waiting = {}
    BY <1>1 DEF WaitingOrScanning, Remembered
  <2>2. /\ \A r \in batch : Scanning(r) /\ ~Scanning(r)'
        /\ \A r \in Requests \ batch : Scanning(r)' <=> Scanning(r)
    BY <1>1 DEF WaitingOrScanning, Scanning
  <2>3. handled \subseteq Requests
    BY DEF MapInv, TInv, TypeOK, MemoryTypes
  <2> QED BY <1>2, <2>1, <2>2, <2>3 DEF Settled
<1>5. Service!End(t)
  BY <1>2, <1>3, <1>4 DEF Service!End, Active, Settled
<1> QED BY <1>2, <1>5 DEF Service!Next

(* Nothing queued, unqueued or handed over: the waiting ones stay. *)
LEMMA WaitingSame ==
    ASSUME \A t \in Types : queued'[t] = queued[t],
           \A p \in Procs : WaitingIn(p)' = WaitingIn(p)
    PROVE  Waiting' = Waiting
  BY DEF Waiting, AllQueued

(* A goroutine puts all it has into the queue of its type, or takes all    *)
(* that is there: the waiting ones stay.                                   *)
LEMMA WaitingMoves ==
    ASSUME NEW p \in Procs, NEW t \in Types, queued \in [Types -> SUBSET Requests],
           \A q \in Procs \ {p} : WaitingIn(q)' = WaitingIn(q),
           \/ /\ WaitingIn(p)' = {}
              /\ queued' = [queued EXCEPT ![t] = @ \cup WaitingIn(p)]
           \/ /\ WaitingIn(p) = {} /\ WaitingIn(p)' = queued[t]
              /\ queued' = [queued EXCEPT ![t] = {}]
           \/ WaitingIn(p)' = WaitingIn(p) /\ queued' = queued
    PROVE  Waiting' = Waiting
<1>1. \A r : r \in Waiting' <=> (\E u \in Types : r \in queued'[u])
                                \/ (\E q \in Procs : r \in WaitingIn(q)')
  BY DEF Waiting, AllQueued
<1>2. \A r : r \in Waiting <=> (\E u \in Types : r \in queued[u])
                               \/ (\E q \in Procs : r \in WaitingIn(q))
  BY DEF Waiting, AllQueued
<1>3. \A u \in Types \ {t} : queued'[u] = queued[u]
  OBVIOUS
<1>4. queued'[t] \cup WaitingIn(p)' = queued[t] \cup WaitingIn(p)
  OBVIOUS
<1>5. ASSUME NEW r, r \in Waiting PROVE r \in Waiting'
  BY <1>1, <1>2, <1>3, <1>4, <1>5
<1>6. ASSUME NEW r, r \in Waiting' PROVE r \in Waiting
  BY <1>1, <1>2, <1>3, <1>4, <1>6
<1> QED BY <1>5, <1>6

(* A reply is handled: what the agent saw too long ago is forgotten, and   *)
(* what is new is accepted.                                                *)
LEMMA MapHandle ==
    ASSUME MapInv, MapInv', HandleScanRequests
    PROVE  Service!Next
<1> USE DEF HandleScanRequests
<1> DEFINE fresh == Unseen(reply, handled \ aged)
<1>0. WaitingOrScanning
  BY WaitingApart DEF MapInv
<1>1. /\ fresh \subseteq Requests /\ fresh \cap Remembered = {}
      /\ handled' = Remembered \cup fresh
      /\ aged \subseteq handled /\ handled \subseteq Requests
  BY DEF Unseen, Remembered, MapInv, TInv, TypeOK, MemoryTypes
<1>2. \A p \in fresh : p \in Procs /\ pc[p] = "off" /\ todo[p] = {}
  BY <1>1 DEF MapInv, TInv, Phases, PhaseOf, Procs
<1>3. /\ \A p \in fresh : pc'[p] \in {"spawned", "reject"} /\ ids'[p] = {p}
                           /\ todo'[p] = todo[p]
      /\ \A p \in Procs \ fresh : pc'[p] = pc[p] /\ ids'[p] = ids[p]
                                   /\ todo'[p] = todo[p]
      /\ queued' = queued
  BY <1>2
<1> HIDE DEF fresh, HandleScanRequests
<1>4. /\ \A p \in fresh : WaitingIn(p)' = {p} /\ WaitingIn(p) = {}
      /\ \A p \in Procs \ fresh : WaitingIn(p)' = WaitingIn(p)
  BY <1>1, <1>2, <1>3 DEF WaitingIn, HeldBy
<1>5. Waiting' = Waiting \cup fresh
  <2>1. \A r : r \in Waiting' <=> (\E t \in Types : r \in queued'[t])
                                  \/ (\E p \in Procs : r \in WaitingIn(p)')
    BY DEF Waiting, AllQueued
  <2>2. \A r : r \in Waiting <=> (\E t \in Types : r \in queued[t])
                                 \/ (\E p \in Procs : r \in WaitingIn(p))
    BY DEF Waiting, AllQueued
  <2> QED BY <1>2, <1>3, <1>4, <2>1, <2>2
<1>6. /\ \A r : Scanning(r)' <=> Scanning(r)
      /\ \A r \in Requests : Scanning(r) => r \in Remembered
  BY <1>0, <1>2, <1>3 DEF Scanning, WaitingOrScanning
<1>7. Active' = Active
  BY <1>2, <1>3 DEF Active
<1>8. Settled' = Settled \ aged
  BY <1>0, <1>1, <1>5, <1>6 DEF Settled, WaitingOrScanning, Remembered
<1>9. aged \subseteq Settled
  <2>1. aged \cap Remembered = {}
    BY DEF Remembered
  <2> QED BY <1>0, <1>1, <1>6, <2>1 DEF Settled, WaitingOrScanning
<1>10. fresh \cap ((Waiting \cup Settled \cup UNION {UNION Active[t] : t \in Types})
                      \ aged) = {}
  <2>1. fresh \cap Waiting = {} /\ fresh \cap (Settled \ aged) = {}
    BY <1>0, <1>1 DEF WaitingOrScanning, Settled, Remembered
  <2>2. ASSUME NEW r \in fresh, NEW t \in Types, r \in UNION Active[t] PROVE FALSE
    <3>1. Scanning(r)
      BY <2>2 DEF Active, Scanning
    <3> QED BY <1>1, <1>6, <3>1
  <2> QED BY <2>1, <2>2
<1>11. PICK new \in SUBSET Requests, old \in SUBSET Requests : new = fresh /\ old = aged
  BY <1>1
<1>12. Service!Accept(new, old)
  BY <1>5, <1>7, <1>8, <1>9, <1>10, <1>11
  DEF Service!Accept, Service!Known, Active, Settled
<1> QED BY <1>12 DEF Service!Next

(* A start report: the request is dropped, or kept for the run, which      *)
(* begins with the last of them unless all were dropped.                   *)
LEMMA MapStart ==
    ASSUME MapInv, MapInv', NEW p \in Procs, ReportRequestedStart(p)
    PROVE  Service!Next \/ UNCHANGED Service!vars
<1> USE DEF ReportRequestedStart
<1>0. /\ pc[p] = "start" /\ pc \in [Procs -> Points]
      /\ todo \in [Procs -> SUBSET (Requests \cup {NoId, OwnRow})]
      /\ ids \in [Procs -> SUBSET (Requests \cup {OwnRow})]
      /\ todo[p] \subseteq Requests /\ ids[p] \subseteq Requests
      /\ todo[p] \cap ids[p] = {}
      /\ handled' = handled /\ queued' = queued
  BY DEF MapInv, TInv, TypeOK, ProcTypes, Phases, PhaseOf
<1>1. PICK i \in todo[p], ok \in BOOLEAN :
         LET live == IF Drops(i, ok) THEN ids[p] ELSE ids[p] \cup {i}
             last == todo[p] = {i}
         IN
         /\ ids' = [ids EXCEPT ![p] = live]
         /\ todo' = [todo EXCEPT ![p] = @ \ {i}]
         /\ pc' = [pc EXCEPT ![p] = IF ~last THEN "start"
                                   ELSE IF live = {} THEN "end" ELSE "scan"]
  OBVIOUS
<1> HIDE DEF ReportRequestedStart
<1>2. /\ WaitingIn(p) = todo[p] \cup ids[p]
      /\ \A q \in Procs \ {p} : WaitingIn(q)' = WaitingIn(q)
      /\ \A q \in Procs \ {p} : pc'[q] = pc[q] /\ ids'[q] = ids[q]
  BY <1>0, <1>1 DEF WaitingIn, HeldBy
<1>3. \A r : r \in Waiting' <=> (\E t \in Types : r \in queued'[t])
                                \/ (\E q \in Procs : r \in WaitingIn(q)')
  BY DEF Waiting, AllQueued
<1>4. \A r : r \in Waiting <=> (\E t \in Types : r \in queued[t])
                               \/ (\E q \in Procs : r \in WaitingIn(q))
  BY DEF Waiting, AllQueued
<1>5. \A r \in WaitingIn(p) :
         /\ \A t \in Types : r \notin queued[t]
         /\ \A q \in Procs \ {p} : r \notin WaitingIn(q)
         /\ RequestType[r] = ProcType[p]
  BY DEF WaitingIn, MapInv, HoldInv, HeldOnce, HeldRemembered
<1>6. ASSUME NEW gone, WaitingIn(p)' = WaitingIn(p) \ gone, gone \subseteq WaitingIn(p)
      PROVE  Waiting' = Waiting \ gone
  <2>1. \A r \in gone : r \notin Waiting'
    BY <1>0, <1>2, <1>3, <1>5, <1>6
  <2> QED BY <1>0, <1>2, <1>3, <1>4, <1>6, <2>1
<1>7. i \in WaitingIn(p) /\ WaitingIn(p) \subseteq Waiting
  BY <1>2, <1>4
<1>8. CASE pc'[p] = "start"
  <2>1. WaitingIn(p)' = todo'[p] \cup ids'[p]
    BY <1>0, <1>1, <1>8 DEF WaitingIn, HeldBy
  <2>2. CASE Drops(i, ok)
    <3>1. WaitingIn(p)' = WaitingIn(p) \ {i}
      BY <1>0, <1>1, <1>2, <2>1, <2>2
    <3>2. Waiting' = Waiting \ {i}
      BY <1>6, <1>7, <3>1
    <3> QED BY <1>0, <1>2, <1>7, <1>8, <3>2, MapDrop
  <2>3. CASE ~Drops(i, ok)
    <3>1. WaitingIn(p)' = WaitingIn(p)
      BY <1>0, <1>1, <1>2, <2>1, <2>3
    <3>2. Waiting' = Waiting
      BY <1>0, <1>2, <3>1, WaitingSame
    <3> QED BY <1>0, <1>2, <1>8, <3>2, MapStutter
  <2> QED BY <2>2, <2>3
<1>9. CASE pc'[p] = "end"
  <2>1. WaitingIn(p) = {i} /\ WaitingIn(p)' = {}
    BY <1>0, <1>1, <1>2, <1>9 DEF WaitingIn
  <2>2. Waiting' = Waiting \ {i}
    BY <1>6, <2>1
  <2> QED BY <1>0, <1>2, <1>7, <1>9, <2>2, MapDrop
<1>10. CASE pc'[p] = "scan"
  <2> DEFINE dropped == WaitingIn(p) \ ids'[p]
  <2>1. /\ WaitingIn(p)' = {} /\ ids'[p] \subseteq WaitingIn(p)
        /\ ids'[p] \subseteq Requests
    BY <1>0, <1>1, <1>2, <1>10 DEF WaitingIn
  <2>2. Waiting' = Waiting \ WaitingIn(p)
    BY <1>6, <2>1
  <2>3. Waiting' = Waiting \ (dropped \cup ids'[p])
    BY <2>1, <2>2
  <2>4. PICK d \in SUBSET Waiting : d = dropped
    BY <1>7
  <2>5. /\ d \cap ids'[p] = {} /\ ids'[p] \cap Requests \subseteq Waiting
        /\ \A r \in d \cup (ids'[p] \cap Requests) : RequestType[r] = ProcType[p]
        /\ Waiting' = Waiting \ (d \cup ids'[p])
    BY <1>5, <1>7, <2>1, <2>3, <2>4
  <2> QED BY <1>0, <1>2, <1>10, <2>5, MapBegin
<1> QED BY <1>0, <1>1, <1>8, <1>9, <1>10

(* Each step of a run is a step of the service, or a stutter. *)
LEMMA MapRunStep ==
    ASSUME MapInv, MapInv', NEW p \in Procs, RunStep(p)
    PROVE  Service!Next \/ UNCHANGED Service!vars
<1>0. /\ pc \in [Procs -> Points] /\ trig \in [Procs -> {"own", "console", "policy"}]
      /\ todo \in [Procs -> SUBSET (Requests \cup {NoId, OwnRow})]
      /\ ids \in [Procs -> SUBSET (Requests \cup {OwnRow})]
      /\ queued \in [Types -> SUBSET Requests]
      /\ PhaseOf(p) /\ OwnRow \notin Requests /\ NoId \notin Requests
  BY ProcFacts DEF MapInv, TInv, TypeOK, ProcTypes, MemoryTypes, Phases
<1>1. CASE RunScan(p)
  <2> USE DEF RunScan
  <2>1. /\ ProcType[p] \in Types /\ pc[p] = "spawned" /\ handled' = handled
        /\ todo[p] = {} /\ WaitingIn(p) = ids[p]
        /\ \A q \in Procs \ {p} : /\ pc'[q] = pc[q] /\ ids'[q] = ids[q]
                                  /\ todo'[q] = todo[q]
        /\ pc'[p] # "scan"
    BY <1>0, <1>1 DEF PhaseOf, WaitingIn, HeldBy
  <2>2. \A q \in Procs \ {p} : WaitingIn(q)' = WaitingIn(q)
    BY <2>1 DEF WaitingIn, HeldBy
  <2>3. Waiting' = Waiting
    <3>1. \/ /\ WaitingIn(p)' = {}
             /\ queued' = [queued EXCEPT ![ProcType[p]] = @ \cup WaitingIn(p)]
          \/ WaitingIn(p)' = WaitingIn(p) /\ queued' = queued
      BY <1>0, <1>1, <2>1 DEF WaitingIn, HeldBy, PhaseOf
    <3> QED BY <1>0, <2>1, <2>2, <3>1, WaitingMoves
  <2> QED BY <2>1, <2>3, MapStutter
<1>2. CASE ReportRequestedStart(p)
  BY <1>2, MapStart
<1>3. CASE ReportOwnStart(p)
  <2> USE DEF ReportOwnStart
  <2>1. ids[p] = {} /\ todo[p] = {} /\ pc[p] = "start"
    BY <1>3 DEF MapInv, OwnInv, IsRequested
  <2>2. /\ handled' = handled /\ queued' = queued /\ todo' = todo
        /\ \A q \in Procs \ {p} : pc'[q] = pc[q] /\ ids'[q] = ids[q]
        /\ pc'[p] = "scan" /\ ids'[p] \subseteq {OwnRow}
    BY <1>0, <1>3, <2>1 DEF LinkedRow
  <2>3. Waiting' = Waiting
    <3>1. WaitingIn(p) = {} /\ WaitingIn(p)' = {}
      BY <2>1, <2>2 DEF WaitingIn, HeldBy
    <3>2. \A q \in Procs : WaitingIn(q)' = WaitingIn(q)
      BY <2>2, <3>1 DEF WaitingIn, HeldBy
    <3> QED BY <2>2, <3>2, WaitingSame
  <2>4. Waiting \subseteq Requests
    BY WaitingApart DEF MapInv, WaitingOrScanning
  <2> QED BY <1>0, <2>1, <2>2, <2>3, <2>4, MapBegin
<1>4. CASE ScanReturns(p)
  <2> USE DEF ScanReturns
  <2>1. /\ handled' = handled /\ queued' = queued
        /\ \A q \in Procs \ {p} : /\ pc'[q] = pc[q] /\ ids'[q] = ids[q]
                                  /\ todo'[q] = todo[q]
        /\ pc[p] = "scan" /\ pc'[p] \in {"finish", "end"}
    BY <1>0, <1>4 DEF memory
  <2>2. Waiting' = Waiting
    <3>1. \A q \in Procs : WaitingIn(q)' = WaitingIn(q)
      BY <2>1 DEF WaitingIn, HeldBy
    <3> QED BY <2>1, <3>1, WaitingSame
  <2> QED BY <2>1, <2>2, MapEnd DEF Executes, Executing
<1>5. CASE ReportFinish(p)
  <2> USE DEF ReportFinish
  <2>1. /\ handled' = handled /\ queued' = queued /\ ids' = ids
        /\ \A q \in Procs \ {p} : pc'[q] = pc[q] /\ todo'[q] = todo[q]
        /\ pc[p] = "finish" /\ pc'[p] \in {"finish", "end"}
    BY <1>0, <1>5
  <2>2. Waiting' = Waiting
    <3>1. \A q \in Procs : WaitingIn(q)' = WaitingIn(q)
      BY <2>1 DEF WaitingIn, HeldBy
    <3> QED BY <2>1, <3>1, WaitingSame
  <2> QED BY <2>1, <2>2, MapStutter
<1>6. CASE RunEnds(p)
  <2> USE DEF RunEnds, QueueAfterTaking
  <2>1. /\ handled' = handled /\ ids' = ids
        /\ \A q \in Procs \ {p} : pc'[q] = pc[q] /\ todo'[q] = todo[q]
        /\ pc[p] = "end" /\ pc'[p] \in {"off", "start"} /\ ids[p] = {}
        /\ ProcType[p] \in Types /\ todo[p] = {} /\ WaitingIn(p) = {}
    BY <1>0, <1>6 DEF PhaseOf, WaitingIn
  <2>2. \A q \in Procs \ {p} : WaitingIn(q)' = WaitingIn(q)
    BY <2>1 DEF WaitingIn, HeldBy
  <2>3. Waiting' = Waiting
    <3>1. \/ /\ WaitingIn(p)' = queued[ProcType[p]]
             /\ queued' = [queued EXCEPT ![ProcType[p]] = {}]
          \/ WaitingIn(p)' = {} /\ queued' = queued
      BY <1>0, <1>6, <2>1 DEF WaitingIn, HeldBy
    <3> QED BY <1>0, <2>1, <2>2, <3>1, WaitingMoves
  <2> QED BY <2>1, <2>3, MapStutter
<1> QED BY <1>1, <1>2, <1>3, <1>4, <1>5, <1>6 DEF RunStep

(* The steps of the server and of the heartbeat, and those of the agent    *)
(* that only concern its schedule, are stutters; a rejected request is     *)
(* dropped, and a restart forgets.                                         *)
LEMMA MapStep ==
    MapInv /\ MapInv' /\ [Next]_vars => Service!Next \/ UNCHANGED Service!vars
<1> SUFFICES ASSUME MapInv, MapInv', [Next]_vars
             PROVE  Service!Next \/ UNCHANGED Service!vars
  OBVIOUS
<1>0. pc \in [Procs -> Points] /\ ids \in [Procs -> SUBSET (Requests \cup {OwnRow})]
  BY DEF MapInv, TInv, TypeOK, ProcTypes
<1>1. ASSUME UNCHANGED <<handled, queued, pc, todo, ids>>
      PROVE  UNCHANGED Service!vars
  <2>1. Waiting' = Waiting
    <3>1. \A p \in Procs : WaitingIn(p)' = WaitingIn(p)
      BY <1>1 DEF WaitingIn, HeldBy
    <3> QED BY <1>1, <3>1, WaitingSame
  <2> QED BY <1>1, <2>1, MapStutter
<1>2. ASSUME NEW r \in Requests, Issue(r) \/ Close(r) \/ TtlOver(r)
      PROVE  UNCHANGED Service!vars
  BY <1>1, <1>2 DEF Issue, Close, TtlOver, memory, proc
<1>3. CASE Upgrade \/ BackoffOver \/ Heartbeat \/ Shutdown \/ UNCHANGED vars
  BY <1>1, <1>3 DEF Upgrade, BackoffOver, Heartbeat, Shutdown, vars, memory, proc
<1>4. CASE HandleScanRequests
  BY <1>4, MapHandle
<1>5. ASSUME NEW r \in Requests, RejectUnsupported(r) PROVE Service!Next
  <2>1. /\ r \in Procs /\ pc[r] = "reject" /\ ids[r] = {r} /\ todo[r] = {}
        /\ WaitingIn(r) = {r}
    BY <1>5, ProcFacts DEF RejectUnsupported, MapInv, RowInv, TInv, Phases, PhaseOf,
                           WaitingIn, HeldBy
  <2>2. /\ handled' = handled /\ queued' = queued /\ todo' = todo
        /\ pc' = [pc EXCEPT ![r] = "off"] /\ ids' = [ids EXCEPT ![r] = {}]
    BY <1>5 DEF RejectUnsupported
  <2>3. /\ WaitingIn(r)' = {}
        /\ \A q \in Procs \ {r} : WaitingIn(q)' = WaitingIn(q) /\ r \notin WaitingIn(q)
        /\ \A t \in Types : r \notin queued[t]
    <3>1. \A q \in Procs \ {r} : WaitingIn(q)' = WaitingIn(q)
      BY <1>0, <2>1, <2>2 DEF WaitingIn, HeldBy
    <3>2. r \in HeldBy(r) /\ \A q \in Procs : WaitingIn(q) \subseteq HeldBy(q)
      BY <2>1 DEF WaitingIn, HeldBy
    <3>3. WaitingIn(r)' = {}
      BY <1>0, <2>1, <2>2 DEF WaitingIn
    <3> QED BY <2>1, <3>1, <3>2, <3>3 DEF MapInv, HoldInv, HeldOnce
  <2>4. Waiting' = Waiting \ {r} /\ r \in Waiting
    <3>1. \A s : s \in Waiting' <=> (\E t \in Types : s \in queued'[t])
                                    \/ (\E q \in Procs : s \in WaitingIn(q)')
      BY DEF Waiting, AllQueued
    <3>2. \A s : s \in Waiting <=> (\E t \in Types : s \in queued[t])
                                   \/ (\E q \in Procs : s \in WaitingIn(q))
      BY DEF Waiting, AllQueued
    <3>3. r \notin Waiting' /\ r \in Waiting
      BY <2>1, <2>2, <2>3, <3>1, <3>2
    <3>4. \A s : s # r => (s \in Waiting' <=> s \in Waiting)
      BY <2>1, <2>2, <2>3, <3>1, <3>2
    <3> QED BY <3>3, <3>4
  <2> QED BY <1>0, <2>1, <2>2, <2>4, MapDrop
<1>6. ASSUME NEW o \in Own, OwnRunDue(o) PROVE UNCHANGED Service!vars
  <2>1. /\ o \in Procs /\ UNCHANGED <<handled, queued, todo, ids>>
        /\ pc' = [pc EXCEPT ![o] = "spawned"] /\ pc[o] = "off"
    BY <1>6, ProcFacts DEF OwnRunDue, memory
  <2>2. HeldBy(o) = {}
    BY <2>1 DEF MapInv, TInv, Phases, PhaseOf, HeldBy
  <2>3. \A q \in Procs : WaitingIn(q)' = WaitingIn(q)
    BY <1>0, <2>1, <2>2 DEF WaitingIn, HeldBy
  <2>4. Waiting' = Waiting
    BY <2>1, <2>3, WaitingSame
  <2> QED BY <1>0, <2>1, <2>4, MapStutter
<1>7. ASSUME NEW p \in Procs, RunStep(p)
      PROVE  Service!Next \/ UNCHANGED Service!vars
  BY <1>7, MapRunStep
<1>8. CASE Restart
  <2>1. /\ \A t \in Types : queued'[t] = {}
        /\ \A p \in Procs : WaitingIn(p)' = {} /\ pc'[p] = "off"
        /\ handled' = {}
    BY <1>8 DEF Restart, WaitingIn
  <2>2. Waiting' = {}
    BY <2>1 DEF Waiting, AllQueued
  <2>3. Active' = [t \in Types |-> {}]
    BY <2>1 DEF Active
  <2>4. Settled' = {}
    BY <2>1 DEF Settled
  <2>5. Service!Forget
    BY <2>2, <2>3, <2>4 DEF Service!Forget, Active, Settled
  <2> QED BY <2>5 DEF Service!Next
<1> QED BY <1>2, <1>3, <1>4, <1>5, <1>6, <1>7, <1>8 DEF Next

(* The coordinator with its goroutines, queues, flags and reports is an    *)
(* implementation of ScanService: a request is accepted once while it is   *)
(* remembered, is taken by one run or dropped, and the runs of a type      *)
(* follow one another.                                                     *)
THEOREM ImplementsService == Spec => ServiceSpec
<1>1. Init => Service!Init
  <2> SUFFICES ASSUME Init PROVE Service!Init
    OBVIOUS
  <2>1. Waiting = {}
    BY DEF Init, Waiting, AllQueued, WaitingIn
  <2>2. Active = [t \in Types |-> {}] /\ Settled = {}
    BY DEF Init, Active, Settled
  <2> QED BY <2>1, <2>2 DEF Service!Init, Active, Settled
<1>2. MapInv /\ MapInv' /\ [Next]_vars => [Service!Next]_Service!vars
  BY MapStep
<1> QED BY <1>1, <1>2, MapInvariant, PTL DEF Spec, ServiceSpec, Service!Spec
=============================================================================
