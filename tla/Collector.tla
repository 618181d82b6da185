----------------------------- MODULE Collector -----------------------------
(***************************************************************************)
(* Rates from counters (internal/metrics/metrics.go: Prime, Sample,        *)
(* Processes, rates, index).  The host only has cumulative counters; each  *)
(* rate is the difference between two readings over the time between them. *)
(* Readings fail now and then, counters start again (an interface that is  *)
(* made anew, a CPU taken away), and a pid is given to another process.    *)
(*                                                                         *)
(* One CPU, one interface, and one pid.  In a unit of time the host      *)
(* computes, receives or sends; a percentage is its fraction, before       *)
(* rounding.                                                               *)
(***************************************************************************)
EXTENDS Integers

CONSTANTS
    Width,      \* 2^64: the counters of an interface wrap around in a subtraction
    MaxClock,   \* bound on units of time
    MaxResets   \* bound on counters starting again and pids reused

ASSUME CollectorConstants ==
    /\ {MaxClock, MaxResets} \subseteq Nat
    /\ Width \in Nat /\ Width > 2 * MaxClock

VARIABLES
    (* The host *)
    clock, cpu, net, proc,
    (* The collector *)
    prevCPU,   \* the reading before: a sequence of none or one
    prevNet,   \* with prevNetAt
    prevProcs, \* with prevPAt
    (* Bookkeeping of the model *)
    since,     \* what happened since each reading
    resets

hostCounters == <<clock, cpu, net, proc>>
previous == <<prevCPU, prevNet, prevProcs>>
collectorVars == <<hostCounters, previous, since, resets>>

None == <<>>
Nothing == [cpu |-> [busy |-> 0, total |-> 0, reset |-> FALSE],
            net |-> [rx |-> 0, tx |-> 0, reset |-> FALSE, time |-> 0],
            proc |-> [cpu |-> 0, time |-> 0]]

CollectorInit ==
    /\ clock = 0
    /\ cpu = [busy |-> 0, total |-> 0]
    /\ net = [rx |-> 0, tx |-> 0]
    /\ proc = [start |-> 0, cpu |-> 0]
    /\ prevCPU = None /\ prevNet = None /\ prevProcs = None
    /\ since = Nothing
    /\ resets = 0

-----------------------------------------------------------------------------
(* The host *)

(* A unit of time in which the process computes, the interface receives, or sends *)
Runs(does) == LET c == IF does = "computes" THEN 1 ELSE 0
                  r == IF does = "receives" THEN 1 ELSE 0
                  t == IF does = "sends" THEN 1 ELSE 0 IN
    /\ clock < MaxClock
    /\ clock' = clock + 1
    /\ cpu' = [busy |-> cpu.busy + c, total |-> cpu.total + 1]
    /\ proc' = [proc EXCEPT !.cpu = @ + c]
    /\ net' = [rx |-> net.rx + r, tx |-> net.tx + t]
    /\ since' = [cpu |-> [since.cpu EXCEPT !.busy = @ + c, !.total = @ + 1],
                 net |-> [since.net EXCEPT !.rx = @ + r, !.tx = @ + t, !.time = @ + 1],
                 proc |-> [cpu |-> since.proc.cpu + c, time |-> since.proc.time + 1]]
    /\ UNCHANGED <<previous, resets>>

(* One of the three starts again. *)
StartsAgain ==
    /\ resets < MaxResets
    /\ resets' = resets + 1
    /\ \/ /\ cpu' = [busy |-> 0, total |-> 0]
          /\ since' = [since EXCEPT !.cpu.reset = TRUE]
          /\ UNCHANGED <<net, proc>>
       \/ /\ net' = [rx |-> 0, tx |-> 0]
          /\ since' = [since EXCEPT !.net.reset = TRUE]
          /\ UNCHANGED <<cpu, proc>>
       \/ /\ proc.start # clock
          /\ proc' = [start |-> clock, cpu |-> 0]
          /\ since' = [since EXCEPT !.proc.cpu = 0]
          /\ UNCHANGED <<cpu, net>>
    /\ UNCHANGED <<clock, previous>>

-----------------------------------------------------------------------------
(* The collector *)

(* clampPct *)
Clamped(part, all) == IF part > all THEN all ELSE part

(* A share is measured only between readings whose counters did not go back. *)
CPUShare(prev, cur) ==
    IF cur.total > prev.total /\ cur.busy >= prev.busy
    THEN <<Clamped(cur.busy - prev.busy, cur.total - prev.total), cur.total - prev.total>>
    ELSE None

(* MUTANT of WentBack: judged by the bytes received *)
WentBackReceiving(prev, cur) == cur.rx < prev.rx

WentBack(prev, cur) == cur.rx < prev.rx \/ cur.tx < prev.tx

Rates(prev, cur, seconds) ==
    IF seconds <= 0 \/ WentBack(prev, cur)
    THEN None
    ELSE <<(cur.rx - prev.rx) % Width, (cur.tx - prev.tx) % Width, seconds>>

(* The key of a process tells a reused pid apart. *)
Key(p) == p.start

Used(prev, p) ==
    IF Key(prev) = Key(p) /\ p.cpu >= prev.cpu THEN p.cpu - prev.cpu ELSE 0

(* What a sample, or a snapshot, that is taken now reports *)
CPUPct == IF prevCPU = None THEN None ELSE CPUShare(prevCPU[1], cpu)

NetRate ==
    IF prevNet = None THEN None
    ELSE Rates(prevNet[1].net, net, clock - prevNet[1].at)

ProcPct ==
    IF prevProcs = None \/ clock = prevProcs[1].at THEN None
    ELSE <<Used(prevProcs[1].proc, proc), clock - prevProcs[1].at>>

(* Prime, then Sample; readCPU, readNet: that reading did not fail.  A part that
   fails is left out, and the next one measures from the reading before. *)
Sample(readCPU, readNet) ==
    /\ prevCPU' = IF readCPU THEN <<cpu>> ELSE prevCPU
    /\ prevNet' = IF readNet THEN <<[net |-> net, at |-> clock]>> ELSE prevNet
    /\ since' = [since EXCEPT !.cpu = IF readCPU THEN Nothing.cpu ELSE @,
                              !.net = IF readNet THEN Nothing.net ELSE @]
    /\ UNCHANGED <<hostCounters, prevProcs, resets>>

(* A first reading only becomes the one before. *)
Processes ==
    /\ prevProcs' = <<[proc |-> proc, at |-> clock]>>
    /\ since' = [since EXCEPT !.proc = Nothing.proc]
    /\ UNCHANGED <<hostCounters, prevCPU, prevNet, resets>>

CollectorNext ==
    \/ \E does \in {"computes", "receives", "sends"} : Runs(does)
    \/ StartsAgain
    \/ \E readCPU, readNet \in BOOLEAN : Sample(readCPU, readNet)
    \/ Processes

-----------------------------------------------------------------------------
(* Properties *)

CollectorTypeOK ==
    /\ clock \in 0..MaxClock
    /\ cpu.busy \in 0..cpu.total /\ cpu.total \in 0..MaxClock
    /\ net.rx \in 0..MaxClock /\ net.tx \in 0..MaxClock
    /\ proc.start \in 0..MaxClock /\ proc.cpu \in 0..MaxClock
    /\ resets \in 0..MaxResets

(* What is reported, whenever it is read, is what happened since the reading
   before: a CPU share is the share of that time, a process is never given
   another one's time, nor more than the time that passed, and a network rate
   never exceeds what the interface moved, whatever failed, started again or was
   reused in between. *)
RatesAreMeasured ==
    /\ CPUPct # None =>
          /\ CPUPct[1] \in 0..CPUPct[2]
          /\ ~since.cpu.reset => CPUPct = <<since.cpu.busy, since.cpu.total>>
    /\ NetRate # None =>
          /\ NetRate[1] <= since.net.rx /\ NetRate[2] <= since.net.tx
          /\ NetRate[3] = since.net.time
          /\ ~since.net.reset => NetRate = <<since.net.rx, since.net.tx, since.net.time>>
    /\ ProcPct # None =>
          /\ ProcPct[1] <= since.proc.cpu
          /\ ProcPct[1] <= ProcPct[2] /\ ProcPct[2] = since.proc.time
=============================================================================
