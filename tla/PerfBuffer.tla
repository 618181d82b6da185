----------------------------- MODULE PerfBuffer -----------------------------
(***************************************************************************)
(* The buffer of performance samples (agent/performance.go; client.go:     *)
(* SendMetrics).  runPerformance takes a sample a minute and a process     *)
(* snapshot now and then, and sends all it has in one batch; what the      *)
(* server has not taken waits in memory up to a bound, and in              *)
(* metrics-pending.json over a restart.                                    *)
(*                                                                         *)
(* A sample or snapshot is the number of the tick that took it, which also *)
(* is its timestamp; the server keeps one row of each.  Removing the file  *)
(* is taken to succeed.                                                    *)
(***************************************************************************)
EXTENDS Naturals, Sequences, SequencesExt

CONSTANTS
    MaxPending,       \* perfMaxPending
    MaxPendingProcs,  \* perfMaxPendingProcs
    MaxTicks,         \* bound on ticks that sample; later ones only send
    MaxOutages,       \* bound on requests, answers and saves that fail
    MaxRestarts       \* bound on stops and crashes

ASSUME PerfConstants ==
    /\ {MaxPending, MaxPendingProcs} \subseteq Nat \ {0}
    /\ {MaxTicks, MaxOutages, MaxRestarts} \subseteq Nat

VARIABLES
    loop,         \* runPerformance: "off", "wait" for the timer, or "send"
    samples,      \* perfState.samples
    procs,        \* perfState.procs
    backoff,      \* perfState.unsupported is ahead
    pending,      \* metrics-pending.json
    (* The server *)
    enabled,      \* the performance switch of the agent's policy
    accepts,      \* it has /api/edr/metrics
    bad,          \* samples that make it refuse a batch
    stored,       \* rows it has
    (* Bookkeeping of the model *)
    ticks, outages, restarts,
    acked,        \* rows the agent was told of
    gone          \* samples and snapshots given up, each by a rule of the code

buffer  == <<samples, procs>>
perfServer == <<enabled, accepts, bad>>
perfHistory == <<stored, acked, gone>>
perfBounds == <<ticks, outages, restarts>>
perfVars == <<loop, buffer, backoff, pending, perfServer, perfHistory, perfBounds>>

Empty == [samples |-> <<>>, procs |-> <<>>]

(* Samples and snapshots apart *)
Marked(kind, s) == {<<kind, n>> : n \in ToSet(s)}
All(ss, ps) == Marked("sample", ss) \cup Marked("procs", ps)
Buffered == All(samples, procs)

PerfInit ==
    /\ loop = "off"
    /\ samples = <<>> /\ procs = <<>>
    /\ backoff = FALSE
    /\ pending = Empty
    /\ enabled = TRUE
    /\ accepts \in BOOLEAN
    /\ bad \in {{}, {2}}
    /\ stored = {} /\ acked = {} /\ gone = {}
    /\ ticks = 0 /\ outages = 0 /\ restarts = 0

Outage == outages < MaxOutages /\ outages' = outages + 1

-----------------------------------------------------------------------------
(* perfState.add: past the bound the oldest is dropped. *)
Add(s, n, bound) == LET all == Append(s, n) IN
    IF Len(all) > bound THEN Tail(all) ELSE all

Dropped(kind, s, bound) ==
    IF Len(s) >= bound THEN {<<kind, Head(s)>>} ELSE {}

(* perfTick; snap: the interval of process snapshots is over and one was read.
   A sample that cannot be read leaves everything to the next tick. *)
Tick(snap, due) ==
    /\ loop = "wait"
    /\ enabled
    /\ IF ticks < MaxTicks
       THEN /\ ticks' = ticks + 1
            /\ samples' = Add(samples, ticks', MaxPending)
            /\ procs' = IF snap THEN Add(procs, ticks', MaxPendingProcs) ELSE procs
            /\ gone' = gone \cup Dropped("sample", samples, MaxPending)
                            \cup IF snap THEN Dropped("procs", procs, MaxPendingProcs)
                                         ELSE {}
       ELSE UNCHANGED <<ticks, buffer, gone>>
    /\ loop' = IF due THEN "send" ELSE "wait"
    /\ UNCHANGED <<backoff, pending, perfServer, stored, acked, outages, restarts>>

(* A tick while the server's policy has it off: what waited is not sent. *)
TickOff ==
    /\ loop = "wait"
    /\ ~enabled
    /\ samples' = <<>> /\ procs' = <<>>
    /\ gone' = gone \cup Buffered
    /\ UNCHANGED <<loop, backoff, pending, perfServer, stored, acked, perfBounds>>

-----------------------------------------------------------------------------
(* sendMetrics *)

NothingToSend == backoff \/ Buffered = {}

SendSkipped ==
    /\ loop = "send"
    /\ NothingToSend
    /\ loop' = "wait"
    /\ UNCHANGED <<buffer, backoff, pending, perfServer, perfHistory, perfBounds>>

Refuses == bad \cap ToSet(samples) # {}

(* dropSent: nothing is added while the loop sends. *)
DropSent == samples' = <<>> /\ procs' = <<>>

SendAccepted ==
    /\ loop = "send" /\ ~NothingToSend
    /\ accepts /\ ~Refuses
    /\ stored' = stored \cup Buffered
    /\ acked' = acked \cup Buffered
    /\ DropSent
    /\ loop' = "wait"
    /\ UNCHANGED <<backoff, pending, perfServer, gone, perfBounds>>

(* MUTANT of AfterRefusal: kept for the next send, as after any other error *)
AfterRefusalKept == UNCHANGED <<buffer, gone>>

(* 400: resending the batch would fail forever. *)
AfterRefusal == DropSent /\ gone' = gone \cup Buffered

SendRefused ==
    /\ loop = "send" /\ ~NothingToSend
    /\ accepts /\ Refuses
    /\ AfterRefusal
    /\ loop' = "wait"
    /\ UNCHANGED <<backoff, pending, perfServer, stored, acked, perfBounds>>

(* 404 *)
SendNotFound ==
    /\ loop = "send" /\ ~NothingToSend
    /\ ~accepts
    /\ backoff' = TRUE
    /\ samples' = <<>> /\ procs' = <<>>
    /\ gone' = gone \cup Buffered
    /\ loop' = "wait"
    /\ UNCHANGED <<pending, perfServer, stored, acked, perfBounds>>

(* The request or its answer is lost; the batch waits for the next send. *)
SendLost ==
    /\ loop = "send" /\ ~NothingToSend
    /\ Outage
    /\ stored' \in {stored} \cup IF accepts /\ ~Refuses THEN {stored \cup Buffered} ELSE {}
    /\ loop' = "wait"
    /\ UNCHANGED <<buffer, backoff, pending, perfServer, acked, gone, ticks, restarts>>

-----------------------------------------------------------------------------
(* The life of the loop *)

(* MUTANT of PendingAfterLoad: kept until the samples were sent *)
PendingAfterLoadKept == pending

(* loadPendingMetrics removes the file before anything of it was sent. *)
PendingAfterLoad == Empty

(* What is older than perfMaxPendingAge is left out: the first ones, since what
   waits is in the order of time. *)
Recent(s, cutoff) ==
    {SubSeq(s, k, Len(s)) :
        k \in {first \in 1..Len(s) + 1 : \A i \in DOMAIN s : s[i] > cutoff <=> i >= first}}

Begin(cutoff) ==
    /\ loop = "off"
    /\ loop' = "wait"
    /\ samples' \in Recent(pending.samples, cutoff)
    /\ procs' \in Recent(pending.procs, cutoff)
    /\ gone' = gone \cup {m \in All(pending.samples, pending.procs) : m[2] <= cutoff}
    /\ pending' = PendingAfterLoad
    /\ UNCHANGED <<backoff, perfServer, stored, acked, perfBounds>>

(* The context ends: savePendingMetrics writes what waits, or removes the file. *)
Stop ==
    /\ loop # "off"
    /\ restarts < MaxRestarts
    /\ restarts' = restarts + 1
    /\ loop' = "off"
    /\ samples' = <<>> /\ procs' = <<>>
    /\ backoff' = FALSE
    /\ \/ /\ pending' = [samples |-> samples, procs |-> procs]
          /\ UNCHANGED <<gone, outages>>
       \/ /\ Outage /\ Buffered # {}
          /\ pending' = Empty
          /\ gone' = gone \cup Buffered
    /\ UNCHANGED <<perfServer, stored, acked, ticks>>

Crash ==
    /\ loop # "off"
    /\ restarts < MaxRestarts
    /\ restarts' = restarts + 1
    /\ loop' = "off"
    /\ samples' = <<>> /\ procs' = <<>>
    /\ backoff' = FALSE
    /\ gone' = gone \cup Buffered
    /\ UNCHANGED <<pending, perfServer, stored, acked, ticks, outages>>

PerfBackoffOver ==
    /\ backoff
    /\ backoff' = FALSE
    /\ UNCHANGED <<loop, buffer, pending, perfServer, perfHistory, perfBounds>>

ServerChanges ==
    /\ \/ enabled' = ~enabled /\ UNCHANGED accepts
       \/ ~accepts /\ accepts' = TRUE /\ UNCHANGED enabled
    /\ UNCHANGED <<loop, buffer, backoff, pending, bad, perfHistory, perfBounds>>

PerfNext ==
    \/ \E snap, due \in BOOLEAN : Tick(snap, due)
    \/ TickOff
    \/ SendSkipped
    \/ SendAccepted
    \/ SendRefused
    \/ SendNotFound
    \/ SendLost
    \/ \E cutoff \in 0..ticks : Begin(cutoff)
    \/ Stop
    \/ Crash
    \/ PerfBackoffOver
    \/ ServerChanges

-----------------------------------------------------------------------------
(* Properties *)

Marks == {"sample", "procs"} \X (1..MaxTicks)

PerfTypeOK ==
    /\ loop \in {"off", "wait", "send"}
    /\ {samples, procs, pending.samples, pending.procs} \subseteq Seq(1..MaxTicks)
    /\ {backoff, enabled, accepts} \subseteq BOOLEAN
    /\ stored \cup acked \cup gone \subseteq Marks
    /\ ticks \in 0..MaxTicks /\ outages \in 0..MaxOutages /\ restarts \in 0..MaxRestarts

Ascending(s) == \A i, j \in DOMAIN s : i < j => s[i] < s[j]

(* Each sample is with the server, or waits in one place (memory or the file), or
   was given up by a rule: the bound, its age, a 404, a refused batch, the
   policy, a crash, a failed save.  What the server has acknowledged is never
   kept to be sent again, whatever is restored after a restart, and what waits
   is in the order of time and within the bounds. *)
SamplesAccountedFor ==
    LET saved == All(pending.samples, pending.procs) IN
    /\ \A n \in 1..ticks : <<"sample", n>> \in stored \cup Buffered \cup saved \cup gone
    /\ acked \cap (Buffered \cup saved) = {}
    /\ Buffered \cap saved = {}
    /\ gone \cap (Buffered \cup saved) = {}
    /\ Ascending(samples) /\ Ascending(procs)
    /\ Len(samples) <= MaxPending /\ Len(procs) <= MaxPendingProcs

(* Each sample reaches the server or is given up by one of those rules; in
   particular no batch blocks those behind it. *)
SamplesArrive ==
    \A n \in 1..MaxTicks :
        n <= ticks ~> <<"sample", n>> \in stored \cup gone
=============================================================================
