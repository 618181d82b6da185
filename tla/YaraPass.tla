------------------------------ MODULE YaraPass ------------------------------
(***************************************************************************)
(* The agent-driven YARA passes (internal/agent/agent.go: runYaraScans,    *)
(* yaraScan).  A full pass reads every file of the watched directories, an *)
(* incremental one those changed since the previous pass started.  The     *)
(* loop runs a pass per tick and makes one full after a rule update;       *)
(* passes the server requests run in other goroutines.  That passes never  *)
(* overlap, and how a request waits for the one that runs, is              *)
(* ScanCoordinator's.                                                      *)
(*                                                                         *)
(* Instants are not modelled: since is whether there is a cutoff, and      *)
(* changed the files that changed after it.                                *)
(***************************************************************************)
EXTENDS Naturals

CONSTANTS
    Files,       \* files of the watched directories
    Policies,    \* what the server may do: "own", "managed", "quiet"
    MaxRules,    \* bound on updates of the signature file
    MaxChanges,  \* bound on changes of files
    MaxRestarts  \* bound on restarts and crashes of the agent

ASSUME PassConstants ==
    /\ Policies \subseteq {"own", "managed", "quiet"}
    /\ {MaxRules, MaxChanges, MaxRestarts} \subseteq Nat

VARIABLES
    policy,   \* own schedule, managed by the server, or managed without YARA
    (* The rules *)
    sigs,     \* version of the signature file
    syncing,  \* syncYaraRules has written it and not yet signalled
    rescan,   \* a signal waits in the yaraRescan channel
    (* Under yaraMu *)
    since,    \* yaraSince is set
    force,    \* yaraForceFull
    (* Goroutines *)
    loop,     \* the loop of runYaraScans: start, wait, or pass
    pass,     \* the pass under way
    queued,   \* a requested pass waits for it to end
    (* Files *)
    changed,  \* changed since the cutoff
    during,   \* changed since the pass under way started
    unread,   \* changed, and not read since by a pass that succeeded
    excused,  \* of those, the ones a timeout or the watch cutoff gave up
    (* Bookkeeping of the model *)
    tried,    \* rules of the last full pass that succeeded or timed out
    changes, restarts

rules  == <<sigs, syncing, rescan>>
cutoff == <<since, force>>
files  == <<changed, during, unread, excused>>
vars == <<policy, rules, cutoff, loop, pass, queued, files, tried, changes, restarts>>

Off == [pc |-> "off", own |-> FALSE, full |-> FALSE, sigs |-> 0, reads |-> {}]

Init ==
    /\ policy \in Policies
    /\ sigs = 0
    /\ syncing = FALSE
    /\ rescan = FALSE
    /\ since = FALSE
    /\ force = FALSE
    /\ loop = "start"
    /\ pass = Off
    /\ queued = FALSE
    /\ changed = {}
    /\ during = {}
    /\ unread = {}
    /\ excused = {}
    /\ tried = 0
    /\ changes = 0
    /\ restarts = 0

-----------------------------------------------------------------------------
(* The host and the server *)

FileChanges(f) ==
    /\ changes < MaxChanges
    /\ changes' = changes + 1
    /\ unread' = unread \cup {f}
    /\ excused' = excused \ {f}
    /\ changed' = IF since THEN changed \cup {f} ELSE changed
    /\ during' = IF pass.pc = "reading" THEN during \cup {f} ELSE during
    /\ UNCHANGED <<policy, rules, cutoff, loop, pass, queued, tried, restarts>>

PolicyChanges(p) ==
    /\ p # policy
    /\ policy' = p
    /\ UNCHANGED <<rules, cutoff, loop, pass, queued, files, tried, changes, restarts>>

(* syncYaraRules writes a new signature file ... *)
RulesWritten ==
    /\ sigs < MaxRules
    /\ sigs' = sigs + 1
    /\ syncing' = TRUE
    /\ UNCHANGED <<policy, rescan, cutoff, loop, pass, queued, files, tried, changes,
                   restarts>>

(* ... and signals it. *)
RulesSignalled ==
    /\ syncing
    /\ syncing' = FALSE
    /\ rescan' = TRUE
    /\ UNCHANGED <<policy, sigs, cutoff, loop, pass, queued, files, tried, changes,
                   restarts>>

-----------------------------------------------------------------------------
(* Passes *)

(* yaraNextFull, with or without a cutoff *)
NextFull(scheduled, cut) == ~scheduled \/ ~cut \/ force

Begun(own, full) ==
    [pc |-> "decided", own |-> own, full |-> full, sigs |-> 0, reads |-> {}]

(* runScan of the loop's own pass: skipped when one is under way. *)
LoopRuns(scheduled) ==
    IF pass = Off
    THEN pass' = Begun(TRUE, NextFull(scheduled, since')) /\ loop' = "pass"
    ELSE UNCHANGED pass /\ loop' = "wait"

(* MUTANT of WatchFrom: each tick starts the watch anew *)
WatchAnew == policy # "own"

(* yaraWatchFrom, where the server schedules scans: a missing cutoff is    *)
(* set, and what changed before is left to the policy's passes.            *)
WatchFrom == policy # "own" /\ ~since

SetCutoff ==
    /\ since' = (since \/ WatchFrom)
    /\ changed' = IF WatchFrom THEN {} ELSE changed
    /\ excused' = IF ~since /\ WatchFrom THEN unread ELSE excused

(* The startup pass, or the start of the watch. *)
LoopStarts ==
    /\ loop = "start"
    /\ SetCutoff
    /\ IF policy = "own" THEN LoopRuns(FALSE) ELSE loop' = "wait" /\ UNCHANGED pass
    /\ UNCHANGED <<policy, rules, force, queued, during, unread, tried, changes, restarts>>

(* A tick of the loop; a policy without YARA stops the per-minute pass.    *)
LoopTicks ==
    /\ loop = "wait"
    /\ policy # "quiet"
    /\ SetCutoff
    /\ LoopRuns(TRUE)
    /\ UNCHANGED <<policy, rules, force, queued, during, unread, tried, changes, restarts>>

(* The loop takes the signal of a rule update. *)
LoopRescans ==
    /\ loop = "wait"
    /\ rescan
    /\ rescan' = FALSE
    /\ force' = (force \/ policy = "own")
    /\ UNCHANGED <<policy, sigs, syncing, since, loop, pass, queued, files, tried,
                   changes, restarts>>

(* A console or policy request: its pass is full. *)
RequestedPass ==
    /\ \/ pass = Off /\ pass' = Begun(FALSE, TRUE) /\ UNCHANGED queued
       \/ pass # Off /\ queued' = TRUE /\ UNCHANGED pass
    /\ UNCHANGED <<policy, rules, cutoff, loop, files, tried, changes, restarts>>

(* yaraScan up to the start of osqueryi *)
PassReads ==
    /\ pass.pc = "decided"
    /\ pass' = [pass EXCEPT !.pc = "reading", !.sigs = sigs,
                            !.reads = IF pass.full THEN Files ELSE changed]
    /\ during' = {}
    /\ UNCHANGED <<policy, rules, cutoff, loop, queued, changed, unread, excused, tried,
                   changes, restarts>>

(* MUTANT of LoopAfter: the loop does not wait for the queue it serves *)
LoopResumes == IF pass.own THEN "wait" ELSE loop

LoopAfter == IF pass.own /\ ~queued THEN "wait" ELSE loop

(* runScan: a queued request is served by the goroutine whose pass ended.  *)
PassOver ==
    /\ pass' = IF queued THEN Begun(pass.own, TRUE) ELSE Off
    /\ queued' = FALSE
    /\ loop' = LoopAfter
    /\ UNCHANGED <<policy, rules, changes, restarts>>

(* MUTANT of ChangedSinceStart: the cutoff is taken when the pass ends *)
ChangedSinceEnd == {}

(* The cutoff of the next pass is the start of this one. *)
ChangedSinceStart == during

(* A pass that succeeded or timed out: the cutoff moves, and a full one    *)
(* settles a forced one.                                                   *)
Advance ==
    /\ since' = TRUE
    /\ changed' = ChangedSinceStart
    /\ force' = (force /\ ~pass.full)
    /\ tried' = IF pass.full THEN pass.sigs ELSE tried
    /\ during' = {}

PassSucceeds ==
    /\ pass.pc = "reading"
    /\ Advance
    /\ unread' = unread \ (pass.reads \ during)
    /\ excused' = excused \ (pass.reads \ during)
    /\ PassOver

(* YaraScanTimeout: the rest of the files is given up, on purpose. *)
PassTimesOut ==
    /\ pass.pc = "reading"
    /\ Advance
    /\ excused' = excused \cup ((unread \cap pass.reads) \ during)
    /\ UNCHANGED unread
    /\ PassOver

(* osqueryi fails otherwise: nothing moves. *)
PassFails ==
    /\ pass.pc = "reading"
    /\ during' = {}
    /\ UNCHANGED <<cutoff, changed, unread, excused, tried>>
    /\ PassOver

(* The agent ends, by a stop or a crash, and starts anew. *)
Restart ==
    /\ restarts < MaxRestarts
    /\ restarts' = restarts + 1
    /\ syncing' = FALSE
    /\ rescan' = FALSE
    /\ since' = FALSE
    /\ force' = FALSE
    /\ loop' = "start"
    /\ pass' = Off
    /\ queued' = FALSE
    /\ changed' = {}
    /\ during' = {}
    /\ excused' = {}
    /\ UNCHANGED <<policy, sigs, unread, tried, changes>>

-----------------------------------------------------------------------------
Next ==
    \/ \E f \in Files : FileChanges(f)
    \/ \E p \in Policies : PolicyChanges(p)
    \/ RulesWritten \/ RulesSignalled
    \/ LoopStarts \/ LoopTicks \/ LoopRescans
    \/ RequestedPass
    \/ PassReads \/ PassSucceeds \/ PassTimesOut \/ PassFails
    \/ Restart

(* The loop and the passes go on, and passes succeed now and then. *)
Fairness ==
    /\ WF_vars(LoopStarts)
    /\ SF_vars(LoopTicks)
    /\ WF_vars(PassReads)
    /\ SF_vars(PassSucceeds)

Spec == Init /\ [][Next]_vars
FairSpec == Spec /\ Fairness

-----------------------------------------------------------------------------
(* Properties *)

(* The type invariant: the loop is busy exactly while it runs a pass, its  *)
(* own or one it serves from the queue.                                    *)
TypeOK ==
    /\ policy \in Policies
    /\ sigs \in 0..MaxRules /\ tried \in 0..sigs
    /\ syncing \in BOOLEAN /\ rescan \in BOOLEAN
    /\ since \in BOOLEAN /\ force \in BOOLEAN
    /\ loop \in {"start", "wait", "pass"} /\ (loop = "pass") = pass.own
    /\ pass \in [pc : {"off", "decided", "reading"}, own : BOOLEAN, full : BOOLEAN,
                 sigs : 0..sigs, reads : SUBSET Files]
    /\ queued \in BOOLEAN
    /\ changed \in SUBSET Files /\ during \in SUBSET Files
    /\ unread \in SUBSET Files /\ excused \in SUBSET unread
    /\ changes \in 0..MaxChanges /\ restarts \in 0..MaxRestarts

(* No change falls between two passes: a file changed at any moment, also  *)
(* while a pass runs or after one failed, is read by the next pass, full   *)
(* or not, unless a timeout or the start of the watch gave it up.          *)
NoFileMissed == since => unread \ excused \subseteq changed

(* A changed file is read in the end, while the agent schedules its own    *)
(* passes, unless it is given up.                                          *)
FileIsRead ==
    \A f \in Files :
        (f \in unread /\ policy = "own")
            ~> (f \notin unread \/ f \in excused \/ policy # "own")

(* The comment on runYaraScans: a rule update makes the next pass full.    *)
(* So a pass is incremental only under rules some full pass has used,      *)
(* unless their signal is still on its way.                                *)
RuleUpdateScansAll ==
    pass.pc = "reading" /\ ~pass.full /\ policy = "own" =>
        tried = sigs \/ rescan \/ syncing
=============================================================================
