----------------------------- MODULE Host_proofs -----------------------------
(***************************************************************************)
(* Proofs about HostSpec, whichever part of the agent runs and for any     *)
(* bounds: what UpdateInstall_proofs and PackageSync_proofs show of their  *)
(* parts, and the collector's rates.                                       *)
(***************************************************************************)
EXTENDS Host, PackageSync_proofs, UpdateInstall_proofs, TLAPS

-----------------------------------------------------------------------------
(* One part runs *)

(* Each part starts as it starts alone.                                     *)
LEMMA PartsStart ==
    HostInit => ReportsInit /\ PerfInit /\ InstallInit /\ TelemetryInit /\ CollectorInit
BY DEF HostInit

(* Each step is one of the part, or leaves the part as it is.               *)
LEMMA PartsStep ==
    [HostNext]_hostState =>
        /\ [ReportsNext]_reportVars /\ [PerfNext]_perfVars /\ [InstallNext]_installVars
        /\ [TelemetryNext]_telemetryVars /\ [CollectorNext]_collectorVars
        /\ UNCHANGED focus
BY DEF HostNext, hostState

-----------------------------------------------------------------------------
(* The files of an update *)

(* Whatever fails and whenever the service dies, a whole program stays where *)
(* the service is started from, or, on Windows between the two renames,     *)
(* where the next attempt and startup leave it alone; and a command is      *)
(* handed an asset of the host's own kind and architecture only.            *)
THEOREM ProgramStaysWhole == HostSpec => []ProgramIsWhole
<1>1. HostInit => InstallInv
  BY PartsStart, InstallStarts
<1>2. InstallInv /\ [HostNext]_hostState => InstallInv'
  BY PartsStep, InstallSteps
<1> QED
  BY <1>1, <1>2, InstallHolds, PTL DEF HostSpec

-----------------------------------------------------------------------------
(* The identity *)

(* An agent keeps the identity it was told, unless a write of it failed or  *)
(* the process ended before its save, and the loops of Run start as the     *)
(* agent that the server registered.                                        *)
THEOREM IdentityKept == HostSpec => []IdentityOutlivesToken
<1>1. HostInit => IdentityInv
  BY PartsStart, IdentityStarts
<1>2. IdentityInv /\ [HostNext]_hostState => IdentityInv'
  BY PartsStep, IdentitySteps
<1>3. IdentityInv => IdentityOutlivesToken
  BY DEF IdentityInv
<1> QED
  BY <1>1, <1>2, <1>3, PTL DEF HostSpec

-----------------------------------------------------------------------------
(* The collector *)

(* What is kept of what happened since a reading                            *)
CPUSince == [busy : Nat, total : Nat, reset : BOOLEAN]
NetSince == [rx : Nat, tx : Nat, reset : BOOLEAN, time : Nat]
ProcSince == [cpu : Nat, time : Nat]

(* Counters count units of time, so none is ahead of the clock.             *)
CounterInv ==
    /\ clock \in 0..MaxClock /\ resets \in 0..MaxResets
    /\ cpu \in [busy : 0..clock, total : 0..clock] /\ cpu.busy <= cpu.total
    /\ net \in [rx : 0..clock, tx : 0..clock]
    /\ proc \in [start : 0..clock, cpu : 0..clock]
    /\ since \in [cpu : CPUSince, net : NetSince, proc : ProcSince]

(* Between two readings the counters of the CPU moved by what happened,     *)
(* unless they started again.                                               *)
CPUInv ==
    /\ since.cpu.busy <= since.cpu.total
    /\ prevCPU # None =>
          /\ prevCPU[1] \in [busy : Nat, total : Nat]
          /\ ~since.cpu.reset =>
                /\ cpu.busy = prevCPU[1].busy + since.cpu.busy
                /\ cpu.total = prevCPU[1].total + since.cpu.total

(* So did those of the interface; when they started again they count less   *)
(* than what happened.                                                      *)
NetInv ==
    prevNet # None =>
        /\ prevNet[1].net \in [rx : Nat, tx : Nat] /\ prevNet[1].at \in Nat
        /\ clock = prevNet[1].at + since.net.time
        /\ IF since.net.reset
           THEN net.rx <= since.net.rx /\ net.tx <= since.net.tx
           ELSE /\ net.rx = prevNet[1].net.rx + since.net.rx
                /\ net.tx = prevNet[1].net.tx + since.net.tx

(* A pid that is given to another process gets a later start, so that an    *)
(* equal start is the same process.                                         *)
ProcInv ==
    prevProcs # None =>
        /\ prevProcs[1].proc \in [start : Nat, cpu : Nat] /\ prevProcs[1].at \in Nat
        /\ clock = prevProcs[1].at + since.proc.time
        /\ since.proc.cpu <= since.proc.time
        /\ prevProcs[1].proc.start <= proc.start
        /\ prevProcs[1].proc.start = proc.start =>
              proc.cpu = prevProcs[1].proc.cpu + since.proc.cpu

(* The inductive invariant *)
RateInv == CounterInv /\ CPUInv /\ NetInv /\ ProcInv

(* A difference that is smaller than the width of the counter does not wrap *)
(* around.                                                                  *)
LEMMA SmallDifference ==
    ASSUME NEW a \in Nat, a < Width PROVE a % Width = a
BY CollectorConstants

(* Every rate of the invariant is what happened.                            *)
LEMMA RatesHold == RateInv => RatesAreMeasured
<1> SUFFICES ASSUME RateInv PROVE RatesAreMeasured
  OBVIOUS
<1> USE DEF RateInv, CounterInv, CPUSince, NetSince, ProcSince
<1>1. ASSUME CPUPct # None
      PROVE  /\ CPUPct[1] \in 0..CPUPct[2]
             /\ ~since.cpu.reset => CPUPct = <<since.cpu.busy, since.cpu.total>>
  <2> DEFINE prev == prevCPU[1]
  <2>1. prevCPU # None /\ prev \in [busy : Nat, total : Nat]
    BY <1>1 DEF CPUPct, CPUInv
  <2>2. /\ cpu.total > prev.total /\ cpu.busy >= prev.busy
        /\ CPUPct = <<Clamped(cpu.busy - prev.busy, cpu.total - prev.total),
                      cpu.total - prev.total>>
    BY <1>1, <2>1 DEF CPUPct, CPUShare
  <2>3. CPUPct[1] \in 0..CPUPct[2]
    BY <2>1, <2>2 DEF Clamped
  <2>4. ASSUME ~since.cpu.reset
        PROVE  CPUPct = <<since.cpu.busy, since.cpu.total>>
    <3>1. cpu.busy - prev.busy = since.cpu.busy /\ cpu.total - prev.total = since.cpu.total
      BY <2>1, <2>4 DEF CPUInv
    <3> QED
      BY <2>2, <3>1 DEF Clamped, CPUInv
  <2> QED
    BY <2>3, <2>4
<1>2. ASSUME NetRate # None
      PROVE  /\ NetRate[1] <= since.net.rx /\ NetRate[2] <= since.net.tx
             /\ NetRate[3] = since.net.time
             /\ ~since.net.reset =>
                   NetRate = <<since.net.rx, since.net.tx, since.net.time>>
  <2> DEFINE prev == prevNet[1].net
             rx == net.rx - prev.rx
             tx == net.tx - prev.tx
  <2>1. prevNet # None /\ prev \in [rx : Nat, tx : Nat] /\ prevNet[1].at \in Nat
    BY <1>2 DEF NetRate, NetInv
  <2>2. /\ net.rx >= prev.rx /\ net.tx >= prev.tx
        /\ NetRate = <<rx % Width, tx % Width, clock - prevNet[1].at>>
    BY <1>2, <2>1 DEF NetRate, Rates, WentBack
  <2>3. rx \in Nat /\ rx < Width /\ tx \in Nat /\ tx < Width
    BY <2>1, <2>2, CollectorConstants
  <2>4. NetRate = <<rx, tx, clock - prevNet[1].at>>
    BY <2>2, <2>3, SmallDifference
  <2>5. clock - prevNet[1].at = since.net.time
    BY <2>1 DEF NetInv
  <2>6. rx <= since.net.rx /\ tx <= since.net.tx
    BY <2>1 DEF NetInv
  <2>7. ~since.net.reset => rx = since.net.rx /\ tx = since.net.tx
    BY <2>1 DEF NetInv
  <2> QED
    BY <2>4, <2>5, <2>6, <2>7
<1>3. ASSUME ProcPct # None
      PROVE  /\ ProcPct[1] <= since.proc.cpu
             /\ ProcPct[1] <= ProcPct[2] /\ ProcPct[2] = since.proc.time
  <2> DEFINE prev == prevProcs[1].proc
  <2>1. prevProcs # None /\ prev \in [start : Nat, cpu : Nat] /\ prevProcs[1].at \in Nat
    BY <1>3 DEF ProcPct, ProcInv
  <2>2. ProcPct = <<Used(prev, proc), clock - prevProcs[1].at>>
    BY <1>3, <2>1 DEF ProcPct
  <2>3. Used(prev, proc) <= since.proc.cpu
    BY <2>1 DEF Used, Key, ProcInv
  <2>4. clock - prevProcs[1].at = since.proc.time /\ since.proc.cpu <= since.proc.time
    BY <2>1 DEF ProcInv
  <2>5. Used(prev, proc) \in Nat
    BY <2>1 DEF Used
  <2> HIDE DEF prev
  <2> QED
    BY <2>2, <2>3, <2>4, <2>5
<1> QED
  BY <1>1, <1>2, <1>3 DEF RatesAreMeasured

(* A unit of time counts for what moves and for all that was read before.   *)
LEMMA RunsKeeps ==
    ASSUME RateInv, NEW does \in {"computes", "receives", "sends"}, Runs(does)
    PROVE  RateInv'
<1> DEFINE c == IF does = "computes" THEN 1 ELSE 0
           r == IF does = "receives" THEN 1 ELSE 0
           t == IF does = "sends" THEN 1 ELSE 0
<1>1. /\ clock < MaxClock /\ clock' = clock + 1
      /\ cpu' = [busy |-> cpu.busy + c, total |-> cpu.total + 1]
      /\ proc' = [proc EXCEPT !.cpu = @ + c]
      /\ net' = [rx |-> net.rx + r, tx |-> net.tx + t]
      /\ since' = [cpu |-> [since.cpu EXCEPT !.busy = @ + c, !.total = @ + 1],
                   net |-> [since.net EXCEPT !.rx = @ + r, !.tx = @ + t, !.time = @ + 1],
                   proc |-> [cpu |-> since.proc.cpu + c, time |-> since.proc.time + 1]]
      /\ UNCHANGED <<prevCPU, prevNet, prevProcs, resets>>
  BY DEF Runs, previous
<1>2. c \in 0..1 /\ r \in 0..1 /\ t \in 0..1
  OBVIOUS
<1> HIDE DEF c, r, t
<1>3. /\ since'.cpu \in CPUSince
      /\ since'.cpu.busy = since.cpu.busy + c
      /\ since'.cpu.total = since.cpu.total + 1
      /\ since'.cpu.reset = since.cpu.reset
  <2> DEFINE s == since.cpu
             busy == s.busy + c
             total == s.total + 1
             moved == since'.cpu
  <2>1. s \in CPUSince /\ busy \in Nat /\ total \in Nat
    BY <1>2 DEF RateInv, CounterInv, CPUSince
  <2>2. moved = [s EXCEPT !.busy = busy, !.total = total]
    BY <1>1
  <2> HIDE DEF s, busy, total, moved
  <2>3. moved \in CPUSince
    BY <2>1, <2>2 DEF CPUSince
  <2>4. moved.busy = busy /\ moved.total = total /\ moved.reset = s.reset
    BY <2>1, <2>2 DEF CPUSince
  <2> QED
    BY <2>3, <2>4 DEF s, busy, total, moved
<1>4. /\ since'.net \in NetSince
      /\ since'.net.rx = since.net.rx + r
      /\ since'.net.tx = since.net.tx + t
      /\ since'.net.time = since.net.time + 1
      /\ since'.net.reset = since.net.reset
  <2> DEFINE s == since.net
             rx == s.rx + r
             tx == s.tx + t
             time == s.time + 1
             moved == since'.net
  <2>1. s \in NetSince /\ rx \in Nat /\ tx \in Nat /\ time \in Nat
    BY <1>2 DEF RateInv, CounterInv, NetSince
  <2>2. moved = [s EXCEPT !.rx = rx, !.tx = tx, !.time = time]
    BY <1>1
  <2> HIDE DEF s, rx, tx, time, moved
  <2>3. moved \in NetSince
    BY <2>1, <2>2 DEF NetSince
  <2>4. moved.rx = rx /\ moved.tx = tx /\ moved.time = time /\ moved.reset = s.reset
    BY <2>1, <2>2 DEF NetSince
  <2> QED
    BY <2>3, <2>4 DEF s, rx, tx, time, moved
<1>5. /\ since'.proc \in ProcSince
      /\ since'.proc.cpu = since.proc.cpu + c
      /\ since'.proc.time = since.proc.time + 1
  BY <1>1, <1>2 DEF RateInv, CounterInv, ProcSince
<1>6. since' \in [cpu : CPUSince, net : NetSince, proc : ProcSince]
  <2>1. since' = [cpu |-> since'.cpu, net |-> since'.net, proc |-> since'.proc]
    BY <1>1
  <2> QED
    BY <1>3, <1>4, <1>5, <2>1
<1> USE CollectorConstants DEF RateInv, CounterInv
<1>7. CounterInv'
  <2>1. cpu' \in [busy : 0..clock', total : 0..clock'] /\ cpu'.busy <= cpu'.total
    BY <1>1, <1>2
  <2>2. net' \in [rx : 0..clock', tx : 0..clock']
    BY <1>1, <1>2
  <2>3. proc' \in [start : 0..clock', cpu : 0..clock']
    BY <1>1, <1>2
  <2> QED
    BY <1>1, <1>6, <2>1, <2>2, <2>3
<1>8. CPUInv'
  BY <1>1, <1>2, <1>3 DEF CPUInv, CPUSince
<1>9. NetInv'
  BY <1>1, <1>2, <1>4 DEF NetInv, NetSince
<1>10. ProcInv'
  BY <1>1, <1>2, <1>5 DEF ProcInv, ProcSince
<1> QED
  BY <1>7, <1>8, <1>9, <1>10

(* What starts again has not moved since: its differences are not measured  *)
(* from the reading before.                                                 *)
LEMMA StartsAgainKeeps == ASSUME RateInv, StartsAgain PROVE RateInv'
<1> USE CollectorConstants DEF RateInv, CounterInv
<1>1. /\ resets' \in 0..MaxResets
      /\ UNCHANGED <<clock, prevCPU, prevNet, prevProcs>>
  BY DEF StartsAgain, previous
<1>2. CASE /\ cpu' = [busy |-> 0, total |-> 0]
           /\ since' = [since EXCEPT !.cpu.reset = TRUE]
           /\ UNCHANGED <<net, proc>>
  <2>1. /\ since'.cpu = [busy |-> since.cpu.busy, total |-> since.cpu.total, reset |-> TRUE]
        /\ since'.net = since.net /\ since'.proc = since.proc
        /\ since' = [cpu |-> since'.cpu, net |-> since.net, proc |-> since.proc]
    BY <1>2 DEF CPUSince, NetSince, ProcSince
  <2>2. since'.cpu \in CPUSince
    BY <2>1 DEF CPUSince
  <2>3. since' \in [cpu : CPUSince, net : NetSince, proc : ProcSince]
    BY <2>1, <2>2
  <2>4. CounterInv'
    BY <1>1, <1>2, <2>3
  <2> QED
    BY <1>1, <1>2, <2>1, <2>4 DEF CPUInv, NetInv, ProcInv, CPUSince
<1>3. CASE /\ net' = [rx |-> 0, tx |-> 0]
           /\ since' = [since EXCEPT !.net.reset = TRUE]
           /\ UNCHANGED <<cpu, proc>>
  <2>1. /\ since'.net = [rx |-> since.net.rx, tx |-> since.net.tx, reset |-> TRUE,
                         time |-> since.net.time]
        /\ since'.cpu = since.cpu /\ since'.proc = since.proc
        /\ since' = [cpu |-> since.cpu, net |-> since'.net, proc |-> since.proc]
    BY <1>3 DEF CPUSince, NetSince, ProcSince
  <2>2. since'.net \in NetSince
    BY <2>1 DEF NetSince
  <2>3. since' \in [cpu : CPUSince, net : NetSince, proc : ProcSince]
    BY <2>1, <2>2
  <2>4. CounterInv'
    BY <1>1, <1>3, <2>3
  <2> QED
    BY <1>1, <1>3, <2>1, <2>4 DEF CPUInv, NetInv, ProcInv, NetSince
<1>4. CASE /\ proc.start # clock
           /\ proc' = [start |-> clock, cpu |-> 0]
           /\ since' = [since EXCEPT !.proc.cpu = 0]
           /\ UNCHANGED <<cpu, net>>
  <2>1. /\ since'.proc = [cpu |-> 0, time |-> since.proc.time]
        /\ since'.cpu = since.cpu /\ since'.net = since.net
        /\ since' = [cpu |-> since.cpu, net |-> since.net, proc |-> since'.proc]
    BY <1>4 DEF CPUSince, NetSince, ProcSince
  <2>2. since'.proc \in ProcSince
    BY <2>1 DEF ProcSince
  <2>3. since' \in [cpu : CPUSince, net : NetSince, proc : ProcSince]
    BY <2>1, <2>2
  <2>4. CounterInv'
    BY <1>1, <1>4, <2>3
  <2> QED
    BY <1>1, <1>4, <2>1, <2>4 DEF CPUInv, NetInv, ProcInv, ProcSince
<1> QED
  BY <1>2, <1>3, <1>4 DEF StartsAgain

(* A reading that did not fail becomes the one before, and nothing happened *)
(* since; one that failed leaves both.                                      *)
LEMMA SampleKeeps ==
    ASSUME RateInv, NEW readCPU \in BOOLEAN, NEW readNet \in BOOLEAN,
           Sample(readCPU, readNet)
    PROVE  RateInv'
<1> USE DEF RateInv, CounterInv, CPUSince, NetSince, ProcSince
<1>1. /\ prevCPU' = IF readCPU THEN <<cpu>> ELSE prevCPU
      /\ prevNet' = IF readNet THEN <<[net |-> net, at |-> clock]>> ELSE prevNet
      /\ UNCHANGED <<clock, cpu, net, proc, prevProcs, resets>>
      /\ since' = [since EXCEPT !.cpu = IF readCPU THEN Nothing.cpu ELSE @,
                                !.net = IF readNet THEN Nothing.net ELSE @]
  BY DEF Sample, hostCounters
<1>2. /\ since'.cpu = IF readCPU THEN [busy |-> 0, total |-> 0, reset |-> FALSE]
                                 ELSE since.cpu
      /\ since'.net = IF readNet THEN [rx |-> 0, tx |-> 0, reset |-> FALSE, time |-> 0]
                                 ELSE since.net
      /\ since'.proc = since.proc
  BY <1>1 DEF Nothing
<1>3. CounterInv'
  BY <1>1, <1>2 DEF Nothing
<1>4. CPUInv'
  BY <1>1, <1>2 DEF CPUInv
<1>5. NetInv'
  BY <1>1, <1>2 DEF NetInv
<1>6. ProcInv'
  BY <1>1, <1>2 DEF ProcInv
<1> QED
  BY <1>3, <1>4, <1>5, <1>6

(* A snapshot of the processes becomes the one before.                      *)
LEMMA ProcessesKeeps == ASSUME RateInv, Processes PROVE RateInv'
<1> USE DEF RateInv, CounterInv, CPUSince, NetSince, ProcSince
<1>1. /\ prevProcs' = <<[proc |-> proc, at |-> clock]>>
      /\ since' = [since EXCEPT !.proc = [cpu |-> 0, time |-> 0]]
      /\ UNCHANGED <<clock, cpu, net, proc, prevCPU, prevNet, resets>>
  BY DEF Processes, hostCounters, Nothing
<1>2. /\ since'.proc = [cpu |-> 0, time |-> 0]
      /\ since'.cpu = since.cpu /\ since'.net = since.net
  BY <1>1
<1>3. CounterInv'
  BY <1>1, <1>2
<1> QED
  BY <1>1, <1>2, <1>3 DEF CPUInv, NetInv, ProcInv

(* The collector starts with nothing read.                                  *)
LEMMA RatesStart == CollectorInit => RateInv
BY CollectorConstants
   DEF CollectorInit, RateInv, CounterInv, CPUInv, NetInv, ProcInv, Nothing, None,
       CPUSince, NetSince, ProcSince

(* Every step of the collector, or of another part, keeps the invariant.    *)
LEMMA RatesStep == RateInv /\ [CollectorNext]_collectorVars => RateInv'
<1> SUFFICES ASSUME RateInv, [CollectorNext]_collectorVars PROVE RateInv'
  OBVIOUS
<1>1. CASE UNCHANGED collectorVars
  BY <1>1 DEF collectorVars, hostCounters, previous, RateInv, CounterInv, CPUInv, NetInv,
     ProcInv
<1> QED
  BY <1>1, RunsKeeps, StartsAgainKeeps, SampleKeeps, ProcessesKeeps DEF CollectorNext

(* What is reported of the CPU, the interface and a process is what         *)
(* happened since the reading before it, whatever failed, started again or  *)
(* was reused in between.                                                   *)
THEOREM RatesTrue == HostSpec => []RatesAreMeasured
<1>1. HostInit => RateInv
  BY PartsStart, RatesStart
<1>2. RateInv /\ [HostNext]_hostState => RateInv'
  BY PartsStep, RatesStep
<1> QED
  BY <1>1, <1>2, RatesHold, PTL DEF HostSpec

-----------------------------------------------------------------------------
(* Sequences of numbers *)

(* A number that is put last                                                *)
LEMMA AppendNumber ==
    ASSUME NEW s \in Seq(Nat), NEW n \in Nat
    PROVE  /\ Append(s, n) \in Seq(Nat) /\ Len(Append(s, n)) = Len(s) + 1
           /\ ToSet(Append(s, n)) = ToSet(s) \cup {n}
           /\ Ascending(s) /\ (\A m \in ToSet(s) : m < n) => Ascending(Append(s, n))
<1> DEFINE t == Append(s, n)
           last == Len(s) + 1
<1>1. /\ last \in Nat /\ Len(s) = last - 1 /\ DOMAIN s = 1..last - 1
      /\ t \in Seq(Nat) /\ Len(t) = last /\ DOMAIN t = 1..last
      /\ \A i \in 1..last - 1 : t[i] = s[i] /\ s[i] \in Nat
      /\ t[last] = n
  OBVIOUS
<1> HIDE DEF t, last
<1>2. ToSet(t) = ToSet(s) \cup {n}
  <2>1. ASSUME NEW i \in DOMAIN t PROVE t[i] \in ToSet(s) \cup {n}
    BY <1>1 DEF ToSet
  <2>2. ASSUME NEW i \in DOMAIN s PROVE s[i] \in ToSet(t)
    BY <1>1 DEF ToSet
  <2>3. n \in ToSet(t)
    <3>1. last \in 1..last
      BY <1>1
    <3> QED
      BY <1>1, <3>1 DEF ToSet
  <2> QED
    BY <2>1, <2>2, <2>3 DEF ToSet
<1>3. ASSUME Ascending(s), \A m \in ToSet(s) : m < n PROVE Ascending(t)
  <2>1. \A i \in 1..last - 1 : s[i] < n
    BY <1>1, <1>3 DEF ToSet
  <2>2. \A i, j \in 1..last - 1 : i < j => s[i] < s[j]
    BY <1>1, <1>3 DEF Ascending
  <2>3. ASSUME NEW i \in 1..last, NEW j \in 1..last, i < j PROVE t[i] < t[j]
    <3>1. CASE j = last
      BY <1>1, <2>1, <2>3, <3>1
    <3>2. CASE j # last
      BY <1>1, <2>2, <2>3, <3>2
    <3> QED
      BY <3>1, <3>2
  <2> QED
    BY <1>1, <2>3 DEF Ascending
<1>4. Len(t) = Len(s) + 1
  BY <1>1
<1> QED
  BY <1>1, <1>2, <1>3, <1>4 DEF t

(* What is left when the first ones are taken away                          *)
LEMMA RestOfNumbers ==
    ASSUME NEW s \in Seq(Nat), NEW k \in 1..Len(s) + 1
    PROVE  LET rest == SubSeq(s, k, Len(s)) IN
           /\ rest \in Seq(Nat) /\ Len(rest) = Len(s) + 1 - k
           /\ ToSet(rest) = {s[i] : i \in k..Len(s)}
           /\ Ascending(s) => Ascending(rest)
<1> DEFINE rest == SubSeq(s, k, Len(s))
           n == Len(s)
<1>1. /\ n \in Nat /\ k \in Nat /\ 1 <= k /\ k <= n + 1
      /\ DOMAIN s = 1..n /\ \A i \in 1..n : s[i] \in Nat
  OBVIOUS
<1>2. /\ rest \in Seq(Nat) /\ Len(rest) = n + 1 - k
      /\ \A i \in 1..n + 1 - k : rest[i] = s[k + i - 1]
      /\ DOMAIN rest = 1..n + 1 - k
  OBVIOUS
<1> HIDE DEF rest, n
<1>3. ToSet(rest) = {s[i] : i \in k..n}
  <2>1. ASSUME NEW i \in 1..n + 1 - k PROVE rest[i] \in {s[j] : j \in k..n}
    <3>1. k + i - 1 \in k..n /\ rest[i] = s[k + i - 1]
      BY <1>1, <1>2
    <3> QED
      BY <3>1
  <2>2. ASSUME NEW j \in k..n PROVE \E i \in 1..n + 1 - k : rest[i] = s[j]
    <3>1. j + 1 - k \in 1..n + 1 - k /\ k + (j + 1 - k) - 1 = j
      BY <1>1
    <3> QED
      BY <1>2, <3>1
  <2> QED
    BY <1>2, <2>1, <2>2 DEF ToSet
<1>4. ASSUME Ascending(s) PROVE Ascending(rest)
  <2>1. ASSUME NEW i \in 1..n + 1 - k, NEW j \in 1..n + 1 - k, i < j
        PROVE  rest[i] < rest[j]
    <3>1. k + i - 1 \in 1..n /\ k + j - 1 \in 1..n /\ k + i - 1 < k + j - 1
      BY <1>1, <2>1
    <3>2. s[k + i - 1] < s[k + j - 1]
      BY <1>1, <1>4, <3>1 DEF Ascending
    <3> QED
      BY <1>2, <3>2
  <2> QED
    BY <1>2, <2>1 DEF Ascending
<1> QED
  BY <1>2, <1>3, <1>4 DEF rest, n

(* The first of an ascending sequence, and the others                       *)
LEMMA TailOfNumbers ==
    ASSUME NEW s \in Seq(Nat), s # <<>>, Ascending(s)
    PROVE  /\ Tail(s) \in Seq(Nat) /\ Len(Tail(s)) = Len(s) - 1
           /\ ToSet(s) = {Head(s)} \cup ToSet(Tail(s))
           /\ Ascending(Tail(s))
           /\ \A n \in ToSet(Tail(s)) : Head(s) < n
<1>1. /\ Len(s) \in Nat /\ Len(s) > 0 /\ DOMAIN s = 1..Len(s)
      /\ Head(s) = s[1] /\ Tail(s) = SubSeq(s, 2, Len(s))
  OBVIOUS
<1>2. /\ Tail(s) \in Seq(Nat) /\ Len(Tail(s)) = Len(s) - 1
      /\ ToSet(Tail(s)) = {s[i] : i \in 2..Len(s)} /\ Ascending(Tail(s))
  <2> DEFINE k == 2
             rest == SubSeq(s, k, Len(s))
  <2>1. k \in 1..Len(s) + 1
    BY <1>1
  <2> HIDE DEF k
  <2>2. /\ rest \in Seq(Nat) /\ Len(rest) = Len(s) + 1 - k
        /\ ToSet(rest) = {s[i] : i \in k..Len(s)} /\ Ascending(rest)
    BY <2>1, RestOfNumbers
  <2>3. rest = Tail(s)
    BY <1>1 DEF k
  <2> HIDE DEF rest
  <2>4. Len(rest) = Len(s) - 1
    BY <1>1, <2>2 DEF k
  <2> QED
    BY <2>2, <2>3, <2>4 DEF k
<1>3. ToSet(s) = {s[1]} \cup {s[i] : i \in 2..Len(s)}
  <2>1. \A i \in 1..Len(s) : i = 1 \/ i \in 2..Len(s)
    BY <1>1
  <2> QED
    BY <1>1, <2>1 DEF ToSet
<1>4. \A i \in 2..Len(s) : s[1] < s[i]
  BY <1>1 DEF Ascending
<1> QED
  BY <1>1, <1>2, <1>3, <1>4

-----------------------------------------------------------------------------
(* The rows of osqueryd *)

(* The last row that the rules, the channel or a dropped channel can hold:  *)
(* the tail's place in the log, or, while the engine is off, any row, since *)
(* EngineStarts empties the log before it is tailed again.                  *)
LastRead == IF engine = "up" THEN made - Len(log) + offset ELSE made

(* TelemetryTypeOK, one variable at a time                                  *)
RowFlags ==
    /\ daemon \in {"none", "up", "dead"}
    /\ old \in BOOLEAN /\ half \in BOOLEAN /\ begun \in BOOLEAN

RowTypes ==
    /\ made \in 0..MaxRows
    /\ log \in Seq(1..MaxRows)
    /\ records \in Seq(1..MaxRows) /\ Len(records) <= MaxQueued
    /\ evaluated \in Seq(1..MaxRows)
    /\ engine \in {"off", "up"}
    /\ offset \in 0..Len(log)
    /\ held \subseteq Line
    /\ cut \subseteq 1..MaxRows
    /\ engineStops \in 0..MaxEngineStops /\ deaths \in 0..MaxDaemonDeaths

(* The log holds the rows that were made last.                              *)
LogInv ==
    /\ Len(log) <= made
    /\ \A i \in 1..Len(log) : log[i] = made - Len(log) + i

(* The inductive invariant: rows evaluated come before those in the         *)
(* channel, and these before those not read, of which none was dropped.     *)
(* A row half written has a number left, as nobody writes in between.       *)
TelemetryInv ==
    /\ RowTypes /\ RowFlags
    /\ half => made < MaxRows
    /\ LogInv
    /\ engine = "off" => records = <<>>
    /\ Ascending(evaluated) /\ Ascending(records)
    /\ \A n \in ToSet(evaluated) : n <= LastRead /\ n \notin cut
    /\ \A n \in ToSet(evaluated), m \in ToSet(records) : n < m
    /\ \A m \in ToSet(records) : m <= LastRead /\ m \notin cut
    /\ \A m \in cut : m <= LastRead

(* What a sequence of rows holds, as numbers                                *)
LEMMA RowsAreNumbers ==
    ASSUME NEW s \in Seq(1..MaxRows)
    PROVE  s \in Seq(Nat) /\ ToSet(s) \subseteq 1..MaxRows
<1>1. /\ Len(s) \in Nat /\ DOMAIN s = 1..Len(s)
      /\ \A i \in 1..Len(s) : s[i] \in 1..MaxRows /\ s[i] \in Nat
  BY TelemetryConstants
<1>2. s \in Seq(Nat)
  <2>1. s \in [1..Len(s) -> Nat]
    BY <1>1
  <2> QED
    BY <1>1, <2>1
<1> QED
  BY <1>1, <1>2 DEF ToSet

LEMMA TelemetryTypes ==
    ASSUME TelemetryInv
    PROVE  /\ MaxRows \in Nat /\ made \in Nat /\ offset \in Nat /\ offset <= Len(log)
           /\ log \in Seq(1..MaxRows) /\ Len(log) \in Nat
           /\ records \in Seq(1..MaxRows) /\ evaluated \in Seq(1..MaxRows)
           /\ records \in Seq(Nat) /\ evaluated \in Seq(Nat)
           /\ ToSet(records) \subseteq Nat /\ ToSet(evaluated) \subseteq Nat
           /\ cut \subseteq Nat
           /\ LastRead \in Nat /\ LastRead <= made
<1>1. /\ MaxRows \in Nat /\ made \in Nat /\ offset \in Nat /\ offset <= Len(log)
      /\ log \in Seq(1..MaxRows) /\ Len(log) \in Nat /\ Len(log) <= made
      /\ records \in Seq(1..MaxRows) /\ evaluated \in Seq(1..MaxRows)
      /\ cut \subseteq Nat
  BY TelemetryConstants DEF TelemetryInv, RowTypes, LogInv
<1> QED
  BY <1>1, RowsAreNumbers DEF LastRead

(* osqueryd, of the engine or the one before, writes the next row.          *)
LEMMA WritesKeep == ASSUME TelemetryInv, WritesRest \/ OldWrites PROVE TelemetryInv'
<1> DEFINE next == made + 1
           n == Len(log)
<1>1. /\ next \in 1..MaxRows /\ made' = next /\ log' = Append(log, next)
      /\ ~half'
      /\ UNCHANGED <<engine, offset, held, records, evaluated, cut, engineStops, deaths>>
  <2>1. CASE WritesRest
    BY <2>1, TelemetryTypes DEF WritesRest, TelemetryInv, tailVars
  <2>2. CASE OldWrites
    BY <2>2, TelemetryTypes DEF OldWrites, TelemetryInv, tailVars
  <2> QED
    BY <2>1, <2>2
<1>9. RowFlags'
  BY Zenon DEF TelemetryInv, RowFlags, WritesRest, OldWrites, tailVars
<1>2. /\ made \in Nat /\ n \in Nat /\ n <= made /\ offset \in 0..n
      /\ log \in Seq(1..MaxRows)
  BY TelemetryTypes DEF TelemetryInv, LogInv
<1>3. /\ log' \in Seq(1..MaxRows) /\ Len(log') = n + 1 /\ log'[n + 1] = next
      /\ \A i \in 1..n : log'[i] = log[i]
  BY <1>1, <1>2
<1> HIDE DEF n
<1>4. RowTypes'
  BY <1>1, <1>2, <1>3 DEF TelemetryInv, RowTypes
<1>5. LogInv'
  <2>1. \A i \in 1..n : log[i] = made - n + i
    BY DEF TelemetryInv, LogInv, n
  <2>2. ASSUME NEW i \in 1..n + 1 PROVE log'[i] = made' - (n + 1) + i
    <3>1. CASE i = n + 1
      BY <1>1, <1>2, <1>3, <3>1
    <3>2. CASE i \in 1..n
      BY <1>1, <1>2, <1>3, <2>1, <3>2
    <3> QED
      BY <1>2, <3>1, <3>2
  <2>3. Len(log') <= made'
    BY <1>1, <1>2, <1>3
  <2> QED
    BY <1>3, <2>2, <2>3 DEF LogInv
<1>6. LastRead' \in Nat /\ LastRead <= LastRead'
  BY <1>1, <1>2, <1>3 DEF LastRead, n
<1>7. /\ \A m \in ToSet(evaluated) \cup ToSet(records) \cup cut : m <= LastRead'
  BY <1>6, TelemetryTypes DEF TelemetryInv
<1> QED
  BY <1>9, <1>1, <1>4, <1>5, <1>7 DEF TelemetryInv

(* Steps that move no row                                                   *)
LEMMA NoRowMoves ==
    ASSUME TelemetryInv, WritesHalf \/ OldDies \/ DaemonDies \/ TailReadsHalf
    PROVE  TelemetryInv'
<1>1. UNCHANGED <<made, log, engine, offset, records, evaluated, cut>>
  BY Zenon DEF WritesHalf, OldDies, DaemonDies, TailReadsHalf, osqueryVars, tailVars
<1>2. held' \subseteq Line /\ deaths' \in 0..MaxDaemonDeaths /\ engineStops' = engineStops
  <2>1. /\ held' \in {held, held \cup {"head"}}
        /\ \/ deaths' = deaths
           \/ deaths < MaxDaemonDeaths /\ deaths' = deaths + 1
        /\ engineStops' = engineStops
    <3>1. CASE WritesHalf
      BY <3>1 DEF WritesHalf, tailVars
    <3>2. CASE OldDies
      BY <3>2 DEF OldDies, tailVars
    <3>3. CASE DaemonDies
      BY <3>3 DEF DaemonDies, tailVars
    <3>4. CASE TailReadsHalf
      BY <3>4 DEF TailReadsHalf, AtEOF, osqueryVars
    <3> QED
      BY <3>1, <3>2, <3>3, <3>4
  <2> QED
    BY <2>1, TelemetryConstants DEF TelemetryInv, RowTypes, Line
<1>3. RowTypes'
  <2>1. RowTypes
    BY DEF TelemetryInv
  <2> QED
    BY <1>1, <1>2, <2>1 DEF RowTypes
<1>4. RowFlags'
  <2>1. RowFlags
    BY DEF TelemetryInv
  <2>2. CASE WritesHalf \/ OldDies
    BY <2>1, <2>2 DEF RowFlags, WritesHalf, OldDies, tailVars
  <2>3. CASE DaemonDies
    BY <2>1, <2>3 DEF RowFlags, DaemonDies, tailVars
  <2>4. CASE TailReadsHalf
    BY <2>1, <2>4 DEF RowFlags, TailReadsHalf, osqueryVars
  <2> QED
    BY <2>2, <2>3, <2>4
<1>5. half' => made' < MaxRows
  BY DEF TelemetryInv, WritesHalf, OldDies, DaemonDies, TailReadsHalf, osqueryVars
<1> QED
  BY <1>1, <1>3, <1>4, <1>5 DEF TelemetryInv, LogInv, LastRead

(* The log is emptied, and what it holds is not evaluated later.            *)
LEMMA EngineStartsKeep == ASSUME TelemetryInv, EngineStarts PROVE TelemetryInv'
<1>1. /\ log' = <<>> /\ half' = FALSE /\ offset' = 0 /\ records' = <<>>
      /\ made' = made /\ evaluated' = evaluated
      /\ cut' = cut \cup (ToSet(log) \ ToSet(evaluated))
      /\ engine = "off" /\ engine' \in {"up", "off"}
  BY DEF EngineStarts, LogAtStart
<1>2. LastRead = made /\ LastRead' = made
  BY <1>1, TelemetryTypes DEF LastRead
<1>3. ToSet(log) \subseteq 1..MaxRows /\ \A m \in ToSet(log) : m <= made
  <2>1. \A i \in 1..Len(log) : log[i] = made - Len(log) + i /\ log[i] <= made
    BY TelemetryTypes DEF TelemetryInv, LogInv
  <2>2. DOMAIN log = 1..Len(log)
    BY TelemetryTypes
  <2> QED
    BY <2>1, <2>2, TelemetryTypes, RowsAreNumbers DEF ToSet
<1>4. RowTypes'
  <2>1. cut' \subseteq 1..MaxRows
    BY <1>1, <1>3 DEF TelemetryInv, RowTypes
  <2>2. held' = {} /\ deaths' = deaths /\ engineStops' \in 0..MaxEngineStops
    BY TelemetryConstants DEF EngineStarts, TelemetryInv, RowTypes
  <2>3. <<>> \in Seq(1..MaxRows) /\ Len(<<>>) = 0 /\ 0 <= MaxQueued
    BY TelemetryConstants
  <2> QED
    BY <1>1, <2>1, <2>2, <2>3 DEF TelemetryInv, RowTypes
<1>9. RowFlags'
  BY Zenon DEF TelemetryInv, RowFlags, EngineStarts, LogAtStart
<1>5. ToSet(records') = {} /\ Ascending(records')
  BY <1>1 DEF ToSet, Ascending
<1>6. LogInv'
  BY <1>1, TelemetryTypes DEF LogInv
<1>7. \A n \in ToSet(evaluated) : n \notin cut'
  BY <1>1 DEF TelemetryInv
<1>8. \A n \in ToSet(evaluated) \cup cut' : n <= made
  BY <1>1, <1>2, <1>3 DEF TelemetryInv
<1> QED
  BY <1>9, <1>1, <1>2, <1>4, <1>5, <1>6, <1>7, <1>8 DEF TelemetryInv

(* What the channel holds was not evaluated, and is dropped.                *)
LEMMA EngineStopsKeep == ASSUME TelemetryInv, EngineStops PROVE TelemetryInv'
<1>1. /\ offset' = 0 /\ records' = <<>> /\ half' = FALSE
      /\ made' = made /\ log' = log /\ evaluated' = evaluated
      /\ cut' = cut \cup ToSet(records)
      /\ engine' = "off"
  BY DEF EngineStops
<1>2. LastRead' = made /\ LastRead \in Nat /\ LastRead <= made
  BY <1>1, TelemetryTypes DEF LastRead
<1>3. RowTypes'
  <2>1. cut' \subseteq 1..MaxRows
    BY <1>1, TelemetryTypes, RowsAreNumbers DEF TelemetryInv, RowTypes
  <2>2. held' = {} /\ deaths' = deaths /\ engineStops' \in 0..MaxEngineStops
    BY TelemetryConstants DEF EngineStops, TelemetryInv, RowTypes
  <2>3. <<>> \in Seq(1..MaxRows) /\ Len(<<>>) = 0 /\ 0 <= MaxQueued /\ 0 \in 0..Len(log)
    BY TelemetryConstants, TelemetryTypes
  <2> QED
    BY <1>1, <2>1, <2>2, <2>3 DEF TelemetryInv, RowTypes
<1>9. RowFlags'
  BY Zenon DEF TelemetryInv, RowFlags, EngineStops
<1>4. ToSet(records') = {} /\ Ascending(records')
  BY <1>1 DEF ToSet, Ascending
<1>5. LogInv'
  BY <1>1 DEF TelemetryInv, LogInv
<1>6. /\ \A m \in ToSet(evaluated) : m \notin ToSet(records)
      /\ \A m \in ToSet(evaluated) \cup cut' : m <= made
  BY <1>1, <1>2, TelemetryTypes DEF TelemetryInv
<1> QED
  BY <1>9, <1>1, <1>2, <1>3, <1>4, <1>5, <1>6 DEF TelemetryInv

(* The tail sends the row after the last it read, or skips it.              *)
LEMMA TailReadsKeep == ASSUME TelemetryInv, TailReadsLine PROVE TelemetryInv'
<1> DEFINE row == log[offset + 1]
<1>1. /\ engine = "up" /\ offset < Len(log) /\ offset' = offset + 1
      /\ begun' = FALSE /\ held' = {}
      /\ \/ records' = records
         \/ records' = Append(records, row) /\ Len(records) < MaxQueued
      /\ UNCHANGED <<daemon, old, made, log, half, engine, evaluated, cut, engineStops,
                     deaths>>
  <2>1. \/ records' = records \o <<>>
        \/ records' = records \o <<row>> /\ Len(records) < MaxQueued
    BY DEF TailReadsLine
  <2>2. records \o <<>> = records /\ records \o <<row>> = Append(records, row)
    BY TelemetryTypes
  <2> QED
    BY <2>1, <2>2 DEF TailReadsLine, osqueryVars
<1>2. LastRead' = LastRead + 1 /\ row = LastRead'
  BY <1>1, TelemetryTypes DEF LastRead, TelemetryInv, LogInv
<1>3. row \in 1..MaxRows /\ row \in Nat
  BY <1>1, TelemetryTypes
<1> HIDE DEF row
<1>4. /\ Ascending(records') /\ ToSet(records') \subseteq ToSet(records) \cup {row}
      /\ records' \in Seq(1..MaxRows) /\ Len(records') <= MaxQueued
  <2>1. \A m \in ToSet(records) : m < row
    BY <1>2, TelemetryTypes DEF TelemetryInv
  <2>2. CASE records' = records
    BY <2>2, TelemetryTypes DEF TelemetryInv, RowTypes
  <2>3. CASE records' = Append(records, row) /\ Len(records) < MaxQueued
    <3>1. Ascending(records') /\ ToSet(records') = ToSet(records) \cup {row}
      BY <1>3, <2>1, <2>3, AppendNumber, TelemetryTypes DEF TelemetryInv
    <3>2. Len(records') = Len(records) + 1 /\ records' \in Seq(1..MaxRows)
      BY <1>3, <2>3, TelemetryTypes
    <3>3. Len(records') <= MaxQueued
      BY <2>3, <3>2, TelemetryTypes, TelemetryConstants
    <3> QED
      BY <3>1, <3>2, <3>3
  <2> QED
    BY <1>1, <2>2, <2>3
<1>5. RowTypes'
  BY <1>1, <1>4, TelemetryTypes DEF TelemetryInv, RowTypes
<1>6. LogInv'
  BY <1>1 DEF TelemetryInv, LogInv
<1>7. /\ \A m \in ToSet(evaluated) \cup cut : m <= LastRead' /\ m # row /\ m < row
      /\ \A m \in ToSet(records) : m <= LastRead'
  BY <1>2, TelemetryTypes DEF TelemetryInv
<1>9. RowFlags'
  BY Zenon DEF TelemetryInv, RowFlags, TailReadsLine, osqueryVars
<1>8. row \notin cut
  BY <1>7
<1> QED
  BY <1>9, <1>1, <1>2, <1>4, <1>5, <1>6, <1>7, <1>8 DEF TelemetryInv

(* Run takes the first row of the channel, which is after all it evaluated. *)
LEMMA EvaluatesKeep == ASSUME TelemetryInv, Evaluates PROVE TelemetryInv'
<1> DEFINE row == Head(records)
           rest == Tail(records)
<1>1. /\ records # <<>> /\ evaluated' = Append(evaluated, row) /\ records' = rest
      /\ UNCHANGED <<daemon, old, made, log, half, engine, offset, begun, held, cut,
                     engineStops, deaths>>
      /\ engine = "up"
  BY DEF Evaluates, osqueryVars, tailVars
<1>2. /\ rest \in Seq(Nat) /\ Len(rest) = Len(records) - 1
      /\ ToSet(records) = {row} \cup ToSet(rest)
      /\ Ascending(rest)
      /\ \A n \in ToSet(rest) : row < n
  BY <1>1, TailOfNumbers, TelemetryTypes DEF TelemetryInv
<1>3. rest \in Seq(1..MaxRows) /\ row \in 1..MaxRows /\ row \in Nat
  BY <1>1, TelemetryTypes
<1> HIDE DEF row, rest
<1>4. /\ Ascending(evaluated') /\ ToSet(evaluated') = ToSet(evaluated) \cup {row}
      /\ evaluated' \in Seq(1..MaxRows)
  <2>1. \A n \in ToSet(evaluated) : n < row
    BY <1>2 DEF TelemetryInv
  <2>2. Ascending(evaluated') /\ ToSet(evaluated') = ToSet(evaluated) \cup {row}
    BY <1>1, <1>3, <2>1, AppendNumber, TelemetryTypes DEF TelemetryInv
  <2> QED
    BY <1>1, <1>3, <2>2, TelemetryTypes
<1>5. RowTypes'
  <2>1. Len(rest) <= MaxQueued
    BY <1>2, TelemetryTypes, TelemetryConstants DEF TelemetryInv, RowTypes
  <2> QED
    BY <1>1, <1>3, <1>4, <2>1 DEF TelemetryInv, RowTypes
<1>6. LogInv' /\ LastRead' = LastRead
  BY <1>1 DEF TelemetryInv, LogInv, LastRead
<1>9. RowFlags'
  BY Zenon DEF TelemetryInv, RowFlags, Evaluates, osqueryVars, tailVars
<1>7. /\ row \in ToSet(records) /\ ToSet(rest) \subseteq ToSet(records)
      /\ \A n \in ToSet(evaluated), m \in ToSet(rest) : n < m
  BY <1>2 DEF TelemetryInv
<1> QED
  BY <1>9, <1>1, <1>2, <1>4, <1>5, <1>6, <1>7 DEF TelemetryInv

(* The log is empty at the start.                                           *)
LEMMA TelemetryStarts == TelemetryInit => TelemetryInv
<1> SUFFICES ASSUME TelemetryInit PROVE TelemetryInv
  OBVIOUS
<1>1. ToSet(<<>>) = {} /\ Ascending(<<>>)
  BY DEF ToSet, Ascending
<1>2. /\ made \in 0..MaxRows /\ engineStops \in 0..MaxEngineStops
      /\ deaths \in 0..MaxDaemonDeaths /\ 0 <= MaxQueued
  BY TelemetryConstants DEF TelemetryInit
<1>3. RowTypes
  <2>1. <<>> \in Seq(1..MaxRows) /\ Len(<<>>) = 0
    OBVIOUS
  <2> QED
    BY <1>2, <2>1 DEF TelemetryInit, RowTypes
<1>4. RowFlags
  BY DEF TelemetryInit, RowFlags
<1>5. LogInv
  BY DEF TelemetryInit, LogInv
<1> QED
  BY <1>1, <1>3, <1>4, <1>5 DEF TelemetryInit, TelemetryInv

(* Every step from osqueryd to the rules, or of another part, keeps the     *)
(* invariant.                                                               *)
LEMMA TelemetrySteps == TelemetryInv /\ [TelemetryNext]_telemetryVars => TelemetryInv'
<1> SUFFICES ASSUME TelemetryInv, [TelemetryNext]_telemetryVars PROVE TelemetryInv'
  OBVIOUS
<1>1. CASE UNCHANGED telemetryVars
  BY <1>1 DEF telemetryVars, osqueryVars, tailVars, TelemetryInv, RowTypes, RowFlags,
     LogInv, LastRead
<1> QED
  BY <1>1, WritesKeep, NoRowMoves, EngineStartsKeep, EngineStopsKeep, TailReadsKeep,
     EvaluatesKeep DEF TelemetryNext

(* Across restarts of the engine, with the osqueryd before it still         *)
(* writing, each row is evaluated at most once and in the order osqueryd    *)
(* found it; none that was dropped with a channel or a log comes back.      *)
THEOREM RowsOnceInOrder == HostSpec => []RowsInOrderOnce
<1>1. HostInit => TelemetryInv
  BY PartsStart, TelemetryStarts
<1>2. TelemetryInv /\ [HostNext]_hostState => TelemetryInv'
  BY PartsStep, TelemetrySteps
<1>3. TelemetryInv => RowsInOrderOnce
  BY DEF TelemetryInv, Ascending, RowsInOrderOnce
<1> QED
  BY <1>1, <1>2, <1>3, PTL DEF HostSpec

-----------------------------------------------------------------------------
(* The buffer of samples *)

Saved == All(pending.samples, pending.procs)

(* What was taken up to now *)
Taken == {"sample", "procs"} \X (1..ticks)

(* The variables whose types are no sequences *)
PerfFlags ==
    /\ loop \in {"off", "wait", "send"}
    /\ backoff \in BOOLEAN /\ enabled \in BOOLEAN /\ accepts \in BOOLEAN
    /\ ticks \in 0..MaxTicks /\ outages \in 0..MaxOutages /\ restarts \in 0..MaxRestarts

(* What waits is in the order of time and within its bound, in memory as    *)
(* in the file,                                                             *)
Waits(s, bound) == s \in Seq(Nat) /\ Ascending(s) /\ Len(s) <= bound

(* and is in one of the two places: the file is removed when the loop       *)
(* begins and written when it ends.                                         *)
InOnePlace ==
    /\ Waits(samples, MaxPending) /\ Waits(procs, MaxPendingProcs)
    /\ Waits(pending.samples, MaxPending) /\ Waits(pending.procs, MaxPendingProcs)
    /\ loop = "off" => samples = <<>> /\ procs = <<>>
    /\ loop # "off" => pending = Empty

(* Nothing is kept that was acknowledged or given up; that nothing is       *)
(* known that was not taken yet makes the next sample a new one.            *)
Accounts ==
    /\ \A n \in 1..ticks : <<"sample", n>> \in stored \cup Buffered \cup Saved \cup gone
    /\ acked \cap (Buffered \cup Saved) = {}
    /\ gone \cap (Buffered \cup Saved) = {}
    /\ stored \cup acked \cup gone \cup Buffered \cup Saved \subseteq Taken

(* The inductive invariant *)
PerfInv == PerfFlags /\ InOnePlace /\ Accounts

(* add keeps the order and the bound: the new one comes last, and the       *)
(* oldest is dropped when there were as many as may wait.                   *)
LEMMA AddKeeps ==
    ASSUME NEW s, NEW bound \in Nat \ {0}, Waits(s, bound),
           NEW n \in Nat, \A m \in ToSet(s) : m < n,
           NEW kind \in {"sample", "procs"}
    PROVE  /\ Waits(Add(s, n, bound), bound)
           /\ Dropped(kind, s, bound) \subseteq Marked(kind, s)
           /\ Marked(kind, Add(s, n, bound))
                 = (Marked(kind, s) \ Dropped(kind, s, bound)) \cup {<<kind, n>>}
<1> DEFINE t == Append(s, n)
<1>1. s \in Seq(Nat) /\ Ascending(s) /\ Len(s) \in Nat /\ Len(s) <= bound
  BY DEF Waits
<1>2. /\ t \in Seq(Nat) /\ Len(t) = Len(s) + 1
      /\ ToSet(t) = ToSet(s) \cup {n} /\ Ascending(t)
  BY <1>1, AppendNumber
<1>3. CASE Len(s) < bound
  <2>1. Add(s, n, bound) = t /\ Dropped(kind, s, bound) = {}
    BY <1>1, <1>2, <1>3 DEF Add, Dropped
  <2> HIDE DEF t
  <2>2. Waits(t, bound)
    BY <1>1, <1>2, <1>3 DEF Waits
  <2>3. Marked(kind, t) = Marked(kind, s) \cup {<<kind, n>>}
    BY <1>2 DEF Marked
  <2> QED
    BY <2>1, <2>2, <2>3
<1>4. CASE Len(s) = bound
  <2> DEFINE u == Tail(t)
  <2>1. s # <<>> /\ t # <<>> /\ Head(t) = Head(s) /\ Head(s) \in Nat
    BY <1>1, <1>4
  <2>2. Add(s, n, bound) = u /\ Dropped(kind, s, bound) = {<<kind, Head(s)>>}
    BY <1>1, <1>2, <1>4 DEF Add, Dropped
  <2> HIDE DEF t
  <2>3. /\ u \in Seq(Nat) /\ Len(u) = Len(t) - 1 /\ Ascending(u)
        /\ ToSet(t) = {Head(t)} \cup ToSet(u)
        /\ \A m \in ToSet(u) : Head(t) < m
    BY <1>2, <2>1, TailOfNumbers
  <2> HIDE DEF u
  <2>4. Head(s) \in ToSet(s)
    BY <1>1, <2>1 DEF ToSet
  <2>5. Head(s) \notin ToSet(u)
    BY <2>1, <2>3
  <2>6. ToSet(u) = (ToSet(s) \ {Head(s)}) \cup {n}
    <3>1. Head(s) # n
      BY <2>1, <2>4
    <3> QED
      BY <1>2, <2>1, <2>3, <2>5, <3>1
  <2>7. Waits(u, bound)
    BY <1>1, <1>2, <1>4, <2>3 DEF Waits
  <2>8. Marked(kind, u) = (Marked(kind, s) \ {<<kind, Head(s)>>}) \cup {<<kind, n>>}
    BY <2>6 DEF Marked
  <2>9. <<kind, Head(s)>> \in Marked(kind, s)
    BY <2>4 DEF Marked
  <2> QED
    BY <2>2, <2>7, <2>8, <2>9
<1> QED
  BY <1>1, <1>3, <1>4

(* loadPendingMetrics keeps the order, and leaves out what is old.          *)
LEMMA RecentKeeps ==
    ASSUME NEW s, NEW bound \in Nat, Waits(s, bound), NEW cutoff \in Nat,
           NEW r \in Recent(s, cutoff)
    PROVE  Waits(r, bound) /\ ToSet(r) = {n \in ToSet(s) : n > cutoff}
<1>1. s \in Seq(Nat) /\ Ascending(s) /\ Len(s) \in Nat /\ Len(s) <= bound
      /\ DOMAIN s = 1..Len(s)
  BY DEF Waits
<1>2. PICK k \in 1..Len(s) + 1 : /\ r = SubSeq(s, k, Len(s))
                                /\ \A i \in DOMAIN s : s[i] > cutoff <=> i >= k
  BY DEF Recent
<1>3. /\ r \in Seq(Nat) /\ Len(r) = Len(s) + 1 - k
      /\ ToSet(r) = {s[i] : i \in k..Len(s)} /\ Ascending(r)
  BY <1>1, <1>2, RestOfNumbers
<1>4. Waits(r, bound)
  BY <1>1, <1>2, <1>3 DEF Waits
<1>5. ASSUME NEW i \in k..Len(s) PROVE s[i] \in {n \in ToSet(s) : n > cutoff}
  <2>1. i \in 1..Len(s) /\ i >= k
    BY <1>1, <1>2
  <2> QED
    BY <1>1, <1>2, <2>1 DEF ToSet
<1>6. ASSUME NEW n \in ToSet(s), n > cutoff PROVE n \in {s[i] : i \in k..Len(s)}
  <2>1. PICK i \in DOMAIN s : s[i] = n
    BY DEF ToSet
  <2>2. i \in k..Len(s)
    BY <1>1, <1>2, <1>6, <2>1
  <2> QED
    BY <2>1, <2>2
<1> QED
  BY <1>3, <1>4, <1>5, <1>6

(* Nothing waits                                                            *)
LEMMA NothingWaits ==
    /\ \A bound \in Nat : Waits(<<>>, bound)
    /\ All(<<>>, <<>>) = {}
    /\ Empty.samples = <<>> /\ Empty.procs = <<>>
BY DEF Waits, Ascending, All, Marked, ToSet, Empty

LEMMA PerfTypes ==
    ASSUME PerfInv
    PROVE  /\ MaxPending \in Nat \ {0} /\ MaxPendingProcs \in Nat \ {0}
           /\ MaxTicks \in Nat /\ ticks \in Nat
           /\ loop # "off" => Saved = {}
           /\ loop = "off" => Buffered = {}
<1>1. loop # "off" => Saved = {}
  BY NothingWaits DEF PerfInv, InOnePlace, Saved
<1>2. loop = "off" => Buffered = {}
  BY NothingWaits DEF PerfInv, InOnePlace, Buffered
<1> QED
  BY <1>1, <1>2, PerfConstants DEF PerfInv, PerfFlags

(* A sample and a snapshot of one tick are two.                             *)
LEMMA KindsApart ==
    ASSUME NEW s, NEW t PROVE Marked("sample", s) \cap Marked("procs", t) = {}
BY DEF Marked

(* A tick takes a sample that is newer than all that waits, was            *)
(* acknowledged or was given up.                                            *)
LEMMA TickKeeps ==
    ASSUME PerfInv, NEW snap \in BOOLEAN, NEW due \in BOOLEAN, Tick(snap, due)
    PROVE  PerfInv'
<1>1. /\ loop = "wait" /\ loop' \in {"send", "wait"}
      /\ UNCHANGED <<backoff, pending, enabled, accepts, stored, acked, outages, restarts>>
  BY DEF Tick, perfServer
<1>2. Saved = {} /\ Saved' = {} /\ loop # "off" /\ loop' # "off"
  BY <1>1, PerfTypes DEF Saved
<1>3. CASE ~(ticks < MaxTicks)
  <2>1. UNCHANGED <<ticks, samples, procs, gone>>
    BY <1>3 DEF Tick, buffer
  <2>2. Buffered' = Buffered /\ Taken' = Taken
    BY <2>1 DEF Buffered, Taken
  <2> QED
    BY <1>1, <1>2, <2>1, <2>2 DEF PerfInv, PerfFlags, InOnePlace, Accounts
<1>4. CASE ticks < MaxTicks
  <2> DEFINE n == ticks + 1
             DS == Dropped("sample", samples, MaxPending)
             DP == IF snap THEN Dropped("procs", procs, MaxPendingProcs) ELSE {}
             OldS == Marked("sample", samples)
             OldP == Marked("procs", procs)
             NewS == Marked("sample", samples')
             NewP == Marked("procs", procs')
  <2>1. /\ ticks' = n /\ n \in Nat /\ n \in 0..MaxTicks
        /\ samples' = Add(samples, n, MaxPending)
        /\ procs' = IF snap THEN Add(procs, n, MaxPendingProcs) ELSE procs
        /\ gone' = gone \cup DS \cup DP
    BY <1>4, PerfTypes DEF Tick
  <2>2. /\ \A m \in ToSet(samples) : m < n
        /\ \A m \in ToSet(procs) : m < n
    <3>1. ASSUME NEW k, NEW m, <<k, m>> \in Buffered PROVE m < n
      BY <3>1, PerfTypes DEF PerfInv, Accounts, Taken
    <3> QED
      BY <3>1 DEF Buffered, All, Marked
  <2>3. /\ Waits(samples', MaxPending)
        /\ DS \subseteq OldS
        /\ NewS = (OldS \ DS) \cup {<<"sample", n>>}
    BY <2>1, <2>2, AddKeeps, PerfTypes DEF PerfInv, InOnePlace
  <2>4. /\ Waits(procs', MaxPendingProcs)
        /\ DP \subseteq OldP
        /\ NewP = (OldP \ DP) \cup IF snap THEN {<<"procs", n>>} ELSE {}
    <3>1. CASE snap
      BY <2>1, <2>2, <3>1, AddKeeps, PerfTypes DEF PerfInv, InOnePlace
    <3>2. CASE ~snap
      BY <2>1, <3>2 DEF PerfInv, InOnePlace
    <3> QED
      BY <3>1, <3>2
  <2>5. Buffered = OldS \cup OldP /\ Buffered' = NewS \cup NewP
        /\ OldS \cap OldP = {}
    BY KindsApart DEF Buffered, All
  <2>6. /\ Taken \subseteq Taken'
        /\ <<"sample", n>> \in Taken' /\ <<"procs", n>> \in Taken'
        /\ <<"sample", n>> \notin Taken /\ <<"procs", n>> \notin Taken
    BY <2>1, PerfTypes DEF Taken
  <2>7. PerfFlags'
    BY <1>1, <2>1 DEF PerfInv, PerfFlags
  <2>8. InOnePlace'
    BY <1>1, <1>2, <2>3, <2>4 DEF PerfInv, InOnePlace
  <2> HIDE DEF n, DS, DP, OldS, OldP, NewS, NewP
  <2>9. /\ Buffered' \subseteq (Buffered \ (DS \cup DP))
                                  \cup {<<"sample", n>>, <<"procs", n>>}
        /\ Buffered \subseteq Buffered' \cup DS \cup DP
        /\ DS \cup DP \subseteq Buffered
        /\ <<"sample", n>> \in Buffered'
    BY <2>3, <2>4, <2>5
  <2>10. \A m \in 1..ticks' : m \in 1..ticks \/ m = n
    BY <2>1, PerfTypes DEF n
  <2>11. Accounts'
    <3>1. stored \cup acked \cup gone \cup Buffered \subseteq Taken
      BY DEF PerfInv, Accounts
    <3>2. gone' \subseteq Taken
      BY <2>1, <2>9, <3>1
    <3>3. stored' \cup acked' \cup gone' \cup Buffered' \cup Saved' \subseteq Taken'
      BY <1>1, <1>2, <2>6, <2>9, <3>1, <3>2
    <3>4. acked \cap Buffered = {} /\ gone \cap Buffered = {}
      BY DEF PerfInv, Accounts
    <3>5. acked' \cap (Buffered' \cup Saved') = {} /\ gone' \cap (Buffered' \cup Saved') = {}
      BY <1>1, <1>2, <2>1, <2>6, <2>9, <3>1, <3>2, <3>4
    <3>6. \A m \in 1..ticks : <<"sample", m>> \in stored \cup Buffered \cup gone
      BY <1>2 DEF PerfInv, Accounts
    <3>7. \A m \in 1..ticks' :
             <<"sample", m>> \in stored' \cup Buffered' \cup Saved' \cup gone'
      BY <1>1, <2>1, <2>9, <2>10, <3>6
    <3> QED
      BY <3>3, <3>5, <3>7 DEF Accounts
  <2> QED
    BY <2>7, <2>8, <2>11 DEF PerfInv
<1> QED
  BY <1>3, <1>4

(* Steps that take nothing and lose nothing: what waits stays, was          *)
(* acknowledged, or is given up.                                            *)
LEMMA BufferSettles ==
    ASSUME PerfInv, PerfFlags', InOnePlace', UNCHANGED ticks,
           Buffered' \cup Saved' \subseteq Buffered \cup Saved,
           \A m \in Buffered \cup Saved : m \in Buffered' \cup Saved' \cup stored' \cup gone',
           stored \subseteq stored', stored' \subseteq stored \cup Buffered,
           acked \subseteq acked', acked' \subseteq acked \cup Buffered,
           gone \subseteq gone', gone' \subseteq gone \cup Buffered \cup Saved,
           \A m \in Buffered' \cup Saved' : (m \in acked' => m \in acked)
                                           /\ (m \in gone' => m \in gone)
    PROVE  PerfInv'
<1>1. Taken' = Taken
  BY DEF Taken
<1>2. stored' \cup acked' \cup gone' \cup Buffered' \cup Saved' \subseteq Taken'
  BY <1>1 DEF PerfInv, Accounts
<1>3. acked' \cap (Buffered' \cup Saved') = {} /\ gone' \cap (Buffered' \cup Saved') = {}
  BY DEF PerfInv, Accounts
<1>4. \A n \in 1..ticks' : <<"sample", n>> \in stored' \cup Buffered' \cup Saved' \cup gone'
  BY DEF PerfInv, Accounts
<1> QED
  BY <1>2, <1>3, <1>4 DEF PerfInv, Accounts

(* Steps that leave what waits: nothing to send, a request that is lost,    *)
(* the server.                                                              *)
LEMMA WaitingKeeps ==
    ASSUME PerfInv, SendSkipped \/ SendLost \/ PerfBackoffOver \/ ServerChanges
    PROVE  PerfInv'
<1>1. /\ UNCHANGED <<samples, procs, pending, acked, gone, ticks>>
      /\ loop' = loop \/ (loop # "off" /\ loop' = "wait")
      /\ stored' = stored \/ stored' = stored \cup Buffered
  BY DEF SendSkipped, SendLost, PerfBackoffOver, ServerChanges, buffer, perfServer,
     perfHistory, perfBounds
<1>2. Buffered' = Buffered /\ Saved' = Saved
  BY <1>1 DEF Buffered, Saved
<1>3. PerfFlags'
  <2>1. outages' \in 0..MaxOutages /\ restarts' = restarts
    BY PerfConstants DEF SendSkipped, SendLost, PerfBackoffOver, ServerChanges, Outage,
       perfBounds, PerfInv, PerfFlags
  <2>2. backoff' \in BOOLEAN /\ enabled' \in BOOLEAN /\ accepts' \in BOOLEAN
    BY DEF SendSkipped, SendLost, PerfBackoffOver, ServerChanges, perfServer, PerfInv,
       PerfFlags
  <2> QED
    BY <1>1, <2>1, <2>2 DEF PerfInv, PerfFlags
<1>4. InOnePlace'
  BY <1>1 DEF PerfInv, InOnePlace
<1> QED
  BY <1>1, <1>2, <1>3, <1>4, BufferSettles

(* Steps after which nothing waits in memory: an answer, the policy, a stop *)
(* whose save fails, a crash.                                               *)
LEMMA EmptiedKeeps ==
    ASSUME PerfInv, PerfFlags', loop # "off", UNCHANGED ticks,
           samples' = <<>>, procs' = <<>>, pending' = Empty,
           \/ /\ gone' = gone \cup Buffered
              /\ UNCHANGED <<stored, acked>>
           \/ /\ stored' = stored \cup Buffered /\ acked' = acked \cup Buffered
              /\ UNCHANGED gone
    PROVE  PerfInv'
<1>1. Buffered' = {} /\ Saved' = {} /\ Saved = {}
  BY NothingWaits, PerfTypes DEF Buffered, Saved
<1>2. InOnePlace'
  BY NothingWaits, PerfTypes DEF InOnePlace
<1> QED
  BY <1>1, <1>2, BufferSettles

LEMMA AnsweredKeeps ==
    ASSUME PerfInv, TickOff \/ SendAccepted \/ SendRefused \/ SendNotFound \/ Crash
    PROVE  PerfInv'
<1>1. /\ loop # "off" /\ ticks' = ticks /\ samples' = <<>> /\ procs' = <<>>
      /\ pending' = pending
  BY DEF TickOff, SendAccepted, SendRefused, SendNotFound, Crash, DropSent, AfterRefusal,
     perfBounds
<1>2. pending' = Empty
  BY <1>1 DEF PerfInv, InOnePlace
<1>3. \/ /\ gone' = gone \cup Buffered
         /\ UNCHANGED <<stored, acked>>
      \/ /\ stored' = stored \cup Buffered /\ acked' = acked \cup Buffered
         /\ UNCHANGED gone
  BY DEF TickOff, SendAccepted, SendRefused, SendNotFound, Crash, AfterRefusal
<1>4. PerfFlags'
  <2>1. /\ loop' \in {loop, "wait", "off"} /\ outages' = outages
        /\ restarts' \in 0..MaxRestarts
    BY PerfConstants DEF TickOff, SendAccepted, SendRefused, SendNotFound, Crash,
       perfBounds, PerfInv, PerfFlags
  <2>2. backoff' \in BOOLEAN /\ enabled' \in BOOLEAN /\ accepts' \in BOOLEAN
    BY DEF TickOff, SendAccepted, SendRefused, SendNotFound, Crash, perfServer, PerfInv,
       PerfFlags
  <2> QED
    BY <1>1, <2>1, <2>2 DEF PerfInv, PerfFlags
<1> QED
  BY <1>1, <1>2, <1>3, <1>4, EmptiedKeeps

(* What waits moves to the file, or is given up with a save that fails.     *)
LEMMA StopKeeps == ASSUME PerfInv, Stop PROVE PerfInv'
<1>1. PerfFlags'
  <2>1. /\ loop' = "off" /\ backoff' = FALSE /\ restarts' \in 0..MaxRestarts
        /\ outages' \in 0..MaxOutages
        /\ UNCHANGED <<ticks, enabled, accepts>>
    BY PerfConstants DEF Stop, Outage, perfServer, PerfInv, PerfFlags
  <2> QED
    BY <2>1 DEF PerfInv, PerfFlags
<1>2. CASE pending' = Empty /\ gone' = gone \cup Buffered
  BY <1>1, <1>2, EmptiedKeeps DEF Stop
<1>3. CASE pending' = [samples |-> samples, procs |-> procs] /\ UNCHANGED gone
  <2>1. /\ loop # "off" /\ loop' = "off" /\ samples' = <<>> /\ procs' = <<>>
        /\ UNCHANGED <<stored, acked, gone, ticks>>
    BY <1>3 DEF Stop
  <2>2. pending'.samples = samples /\ pending'.procs = procs
    BY <1>3
  <2>3. Saved' = Buffered /\ Buffered' = {} /\ Saved = {}
    BY <2>1, <2>2, NothingWaits, PerfTypes DEF Saved, Buffered
  <2>4. InOnePlace'
    BY <2>1, <2>2, NothingWaits, PerfTypes DEF PerfInv, InOnePlace
  <2> QED
    BY <1>1, <2>1, <2>3, <2>4, BufferSettles
<1> QED
  BY <1>2, <1>3 DEF Stop

(* What the file holds moves to memory, but for what is old, which is given *)
(* up.                                                                      *)
LEMMA BeginKeeps ==
    ASSUME PerfInv, NEW cutoff \in 0..ticks, Begin(cutoff) PROVE PerfInv'
<1> DEFINE older == {m \in Saved : m[2] <= cutoff}
<1>1. /\ loop = "off" /\ loop' = "wait" /\ pending' = Empty
      /\ samples' \in Recent(pending.samples, cutoff)
      /\ procs' \in Recent(pending.procs, cutoff)
      /\ gone' = gone \cup older
      /\ UNCHANGED <<backoff, enabled, accepts, stored, acked, ticks, outages, restarts>>
  BY DEF Begin, PendingAfterLoad, perfServer, perfBounds, Saved
<1>2. cutoff \in Nat /\ MaxPending \in Nat /\ MaxPendingProcs \in Nat
  BY PerfTypes
<1>3. /\ Waits(samples', MaxPending)
      /\ ToSet(samples') = {n \in ToSet(pending.samples) : n > cutoff}
  BY <1>1, <1>2, RecentKeeps DEF PerfInv, InOnePlace
<1>4. /\ Waits(procs', MaxPendingProcs)
      /\ ToSet(procs') = {n \in ToSet(pending.procs) : n > cutoff}
  BY <1>1, <1>2, RecentKeeps DEF PerfInv, InOnePlace
<1>5. Buffered = {} /\ Saved' = {}
  BY <1>1, NothingWaits, PerfTypes DEF Saved
<1>6. /\ Buffered' \subseteq Saved \ older
      /\ Saved \subseteq Buffered' \cup older
  <2>1. ASSUME NEW k, NEW n, <<k, n>> \in Buffered' PROVE <<k, n>> \in Saved /\ n > cutoff
    BY <1>3, <1>4, <2>1 DEF Buffered, Saved, All, Marked
  <2>2. ASSUME NEW k, NEW n, <<k, n>> \in Saved PROVE <<k, n>> \in Buffered' \/ ~(n > cutoff)
    BY <1>3, <1>4, <2>2 DEF Buffered, Saved, All, Marked
  <2>3. \A m \in Saved : m = <<m[1], m[2]>> /\ m[2] \in Nat
    BY PerfTypes DEF PerfInv, Accounts, Taken
  <2>4. \A m \in Buffered' : m = <<m[1], m[2]>>
    BY DEF Buffered, All, Marked
  <2>5. ASSUME NEW m \in Buffered' PROVE m \in Saved /\ m[2] > cutoff
    BY <2>1, <2>4
  <2>6. ASSUME NEW m \in Saved PROVE m \in Buffered' \/ m[2] <= cutoff
    BY <1>2, <2>2, <2>3
  <2>7. ASSUME NEW m \in Saved, m[2] > cutoff PROVE ~(m[2] <= cutoff)
    BY <1>2, <2>3, <2>7
  <2> QED
    BY <2>5, <2>6, <2>7
<1>7. PerfFlags'
  BY <1>1 DEF PerfInv, PerfFlags
<1>8. InOnePlace'
  BY <1>1, <1>2, <1>3, <1>4, NothingWaits DEF InOnePlace
<1> HIDE DEF older
<1>9. older \subseteq Saved
  BY DEF older
<1> QED
  BY <1>1, <1>5, <1>6, <1>7, <1>8, <1>9, BufferSettles

(* Nothing was taken at the start.                                          *)
LEMMA PerfStarts == PerfInit => PerfInv
<1> SUFFICES ASSUME PerfInit PROVE PerfInv
  OBVIOUS
<1>1. /\ ticks = 0 /\ ticks \in 0..MaxTicks /\ outages \in 0..MaxOutages
      /\ restarts \in 0..MaxRestarts
      /\ MaxPending \in Nat /\ MaxPendingProcs \in Nat
  BY PerfConstants DEF PerfInit
<1>2. PerfFlags
  BY <1>1 DEF PerfInit, PerfFlags
<1>3. Buffered = {} /\ Saved = {}
  BY NothingWaits DEF PerfInit, Buffered, Saved
<1>4. InOnePlace
  BY <1>1, NothingWaits DEF PerfInit, InOnePlace
<1>5. Accounts
  BY <1>1, <1>3 DEF PerfInit, Accounts
<1> QED
  BY <1>2, <1>4, <1>5 DEF PerfInv

(* Every step of the buffer, or of another part, keeps the invariant.       *)
LEMMA PerfSteps == PerfInv /\ [PerfNext]_perfVars => PerfInv'
<1> SUFFICES ASSUME PerfInv, [PerfNext]_perfVars PROVE PerfInv'
  OBVIOUS
<1>1. CASE UNCHANGED perfVars
  BY <1>1 DEF perfVars, buffer, perfServer, perfHistory, perfBounds, PerfInv, PerfFlags,
     InOnePlace, Accounts, Buffered, Saved, Taken
<1> QED
  BY <1>1, TickKeeps, WaitingKeeps, AnsweredKeeps, StopKeeps, BeginKeeps DEF PerfNext

(* Each sample is with the server, or waits in memory or in the file, or    *)
(* was given up by a rule; what the server acknowledged or a rule gave up   *)
(* is never kept, whatever is restored after a restart.                     *)
THEOREM SamplesKept == HostSpec => []SamplesAccountedFor
<1>1. HostInit => PerfInv
  BY PartsStart, PerfStarts
<1>2. PerfInv /\ [HostNext]_hostState => PerfInv'
  BY PartsStep, PerfSteps
<1>3. PerfInv => SamplesAccountedFor
  <2> SUFFICES ASSUME PerfInv PROVE SamplesAccountedFor
    OBVIOUS
  <2>1. Buffered \cap Saved = {}
    BY PerfTypes
  <2> QED
    BY <2>1 DEF PerfInv, InOnePlace, Waits, Accounts, Saved, SamplesAccountedFor
<1> QED
  BY <1>1, <1>2, <1>3, PTL DEF HostSpec

-----------------------------------------------------------------------------
(* Types *)

(* What was taken by a tick is numbered by one.                             *)
LEMMA TicksAreTyped ==
    ASSUME PerfInv, NEW s, s \in Seq(Nat), NEW kind,
           \A x \in ToSet(s) : <<kind, x>> \in Taken
    PROVE  s \in Seq(1..MaxTicks)
<1>1. ticks \in Nat /\ MaxTicks \in Nat /\ ticks <= MaxTicks
  BY PerfTypes DEF PerfInv, PerfFlags
<1>2. /\ Len(s) \in Nat /\ DOMAIN s = 1..Len(s)
      /\ s \in [1..Len(s) -> Nat]
  OBVIOUS
<1>3. \A i \in 1..Len(s) : s[i] \in 1..MaxTicks
  <2> SUFFICES ASSUME NEW i \in 1..Len(s) PROVE s[i] \in 1..MaxTicks
    OBVIOUS
  <2>1. <<kind, s[i]>> \in {"sample", "procs"} \X (1..ticks)
    BY <1>2 DEF ToSet, Taken
  <2>2. s[i] \in 1..ticks
    BY <2>1
  <2> QED
    BY <1>1, <2>2
<1> QED
  BY <1>1, <1>2, <1>3

LEMMA PerfTyped == PerfInv => PerfTypeOK
<1> SUFFICES ASSUME PerfInv PROVE PerfTypeOK
  OBVIOUS
<1>1. stored \cup acked \cup gone \subseteq Taken /\ Buffered \cup Saved \subseteq Taken
  BY DEF PerfInv, Accounts
<1>2. /\ \A x \in ToSet(samples) : <<"sample", x>> \in Taken
      /\ \A x \in ToSet(procs) : <<"procs", x>> \in Taken
      /\ \A x \in ToSet(pending.samples) : <<"sample", x>> \in Taken
      /\ \A x \in ToSet(pending.procs) : <<"procs", x>> \in Taken
  BY <1>1 DEF Buffered, Saved, All, Marked
<1>3. {samples, procs, pending.samples, pending.procs} \subseteq Seq(1..MaxTicks)
  <2>1. /\ samples \in Seq(Nat) /\ procs \in Seq(Nat)
        /\ pending.samples \in Seq(Nat) /\ pending.procs \in Seq(Nat)
    BY DEF PerfInv, InOnePlace, Waits
  <2>2. samples \in Seq(1..MaxTicks)
    BY <1>2, <2>1, TicksAreTyped
  <2>3. procs \in Seq(1..MaxTicks)
    BY <1>2, <2>1, TicksAreTyped
  <2>4. pending.samples \in Seq(1..MaxTicks)
    BY <1>2, <2>1, TicksAreTyped
  <2>5. pending.procs \in Seq(1..MaxTicks)
    BY <1>2, <2>1, TicksAreTyped
  <2> QED
    BY <2>2, <2>3, <2>4, <2>5
<1>4. Taken \subseteq Marks
  <2>1. ticks \in Nat /\ MaxTicks \in Nat /\ ticks <= MaxTicks
    BY PerfTypes DEF PerfInv, PerfFlags
  <2>2. 1..ticks \subseteq 1..MaxTicks
    BY <2>1
  <2> QED
    BY <2>2 DEF Taken, Marks
<1>5. stored \cup acked \cup gone \subseteq Marks
  BY <1>1, <1>4
<1> QED
  BY <1>3, <1>5 DEF PerfInv, PerfFlags, PerfTypeOK

LEMMA TelemetryTyped == TelemetryInv => TelemetryTypeOK
<1> SUFFICES ASSUME TelemetryInv PROVE TelemetryTypeOK
  OBVIOUS
<1>1. RowTypes /\ RowFlags
  BY DEF TelemetryInv
<1>2. {log, records, evaluated} \subseteq Seq(1..MaxRows)
  BY <1>1 DEF RowTypes
<1>3. {old, half, begun} \subseteq BOOLEAN
  BY <1>1 DEF RowFlags
<1> QED
  BY <1>1, <1>2, <1>3 DEF RowTypes, RowFlags, TelemetryTypeOK

LEMMA CollectorTyped == RateInv => CollectorTypeOK
<1> SUFFICES ASSUME RateInv PROVE CollectorTypeOK
  OBVIOUS
<1>1. /\ clock \in 0..MaxClock /\ resets \in 0..MaxResets /\ MaxClock \in Nat
      /\ cpu.busy \in 0..clock /\ cpu.total \in 0..clock /\ cpu.busy <= cpu.total
      /\ net.rx \in 0..clock /\ net.tx \in 0..clock
      /\ proc.start \in 0..clock /\ proc.cpu \in 0..clock
  BY CollectorConstants DEF RateInv, CounterInv
<1> QED
  BY <1>1 DEF CollectorTypeOK

(* Every part of the host's state has its type, whichever part runs.        *)
THEOREM HostTypeCorrect == HostSpec => []HostTypeOK
<1> DEFINE Inv == /\ focus \in Parts
                  /\ IdentityInv /\ PerfInv /\ InstallInv /\ TelemetryInv /\ RateInv
<1>1. HostInit => Inv
  BY PartsStart, IdentityStarts, PerfStarts, InstallStarts, TelemetryStarts, RatesStart
     DEF HostInit
<1>2. Inv /\ [HostNext]_hostState => Inv'
  BY PartsStep, IdentitySteps, PerfSteps, InstallSteps, TelemetrySteps, RatesStep
<1>3. Inv => HostTypeOK
  BY PerfTyped, TelemetryTyped, CollectorTyped DEF IdentityInv, InstallInv, HostTypeOK
<1> QED
  BY <1>1, <1>2, <1>3, PTL DEF HostSpec
=============================================================================
