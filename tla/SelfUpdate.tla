----------------------------- MODULE SelfUpdate -----------------------------
(***************************************************************************)
(* The agent's self-update (internal/update/updater.go) with what drives   *)
(* it in internal/agent/agent.go: the heartbeat and config goroutines, the *)
(* startup of Run, and the identity persisted by internal/config.          *)
(*                                                                         *)
(* The server's config names a request; a request is attempted in its own  *)
(* goroutine: download, install, mark the update pending on disk, launch a *)
(* detached installer.  The installer replaces the program and restarts    *)
(* the service, and the restarted agent resolves the pending update.       *)
(* Requests are persisted by id, so that neither a crash nor a restart     *)
(* attempts one again.                                                     *)
(***************************************************************************)
EXTENDS Naturals

CONSTANTS
    Requests,       \* update request ids the server may issue
    Target,         \* the version each of them asks for
    FirstVersion,   \* the version installed at first
    MaxConfig,      \* bound on the server's config versions
    MaxCrashes,     \* bound on crashes and plain restarts of the agent
    MaxFailedSaves  \* bound on writes of identity.json that fail

None == "none"

(* A version is a number, in the order of X.Y.Z.  A development build has   *)
(* no number and accepts any target: as the first version it is 0.         *)
ASSUME UpdateConstants ==
    /\ None \notin Requests
    /\ Target \in [Requests -> Nat \ {0}]
    /\ FirstVersion \in Nat
    /\ MaxConfig \in Nat
    /\ MaxCrashes \in Nat
    /\ MaxFailedSaves \in Nat

VARIABLES
    (* The host *)
    disk,       \* identity.json
    installed,  \* the version of the program on disk
    method,     \* how the agent was installed, and is updated
    installer,  \* the detached installer or restart command under way
    (* The agent's process *)
    mem,        \* the identity in memory
    cur,        \* the version that runs
    main,       \* how far Run has come
    attempt,    \* the attempt goroutine (running, and where it is)
    overdue,    \* PendingTimeout has passed since the installer was launched
    hb,         \* where the heartbeat goroutine is
    fetched,    \* the config it has fetched
    asking,     \* the request of the config considerUpdate has read
    poll,       \* where the config poll goroutine is
    polled,     \* the config it has fetched
    (* The server *)
    server,     \* its config for this agent: version and request
    issued,     \* requests issued so far
    outcome,    \* what it knows of the outcome of each
    (* Bookkeeping of the model *)
    attempted,  \* requests an attempt was started for
    launched,   \* the request launched last, unless one was attempted since
    wentBack,   \* an older config was applied over a newer one
    crashes,
    failedSaves

host    == <<disk, installed, method, installer>>
beats   == <<hb, fetched, asking, poll, polled>>
asked   == <<server, issued, outcome>>
history == <<attempted, launched, wentBack>>
counts  == <<crashes, failedSaves>>
vars    == <<host, mem, cur, main, attempt, overdue, beats, asked, history, counts>>

Configs == [ver : 0..MaxConfig, req : Requests \cup {None}]
NoFetch == [ver |-> 0, req |-> None]
Progress == {"downloading", "installing"}
Finished == {"succeeded", "failed"}
Reports == {[id |-> None, state |-> None]} \cup
           [id : Requests, state : Progress \cup Finished]
NoReport == [id |-> None, state |-> None]

(* The fields of config.Identity that self-update is about. *)
Identities ==
    [config : Configs, last : Requests \cup {None},
     pending : Requests \cup {None}, report : Reports]

Idle == [pc |-> "off", id |-> None]

(* The install methods by what the command does with the program on disk:  *)
(* the attempt itself swaps an archive's; rpm -U and msiexec replace it    *)
(* unless it is newer; dpkg -i, which apt-get falls back to, and installer *)
(* -pkg replace it by any.                                                 *)
Methods == {"archive", "upgrade", "install"}

FirstIdentity ==
    [config |-> NoFetch, last |-> None, pending |-> None, report |-> NoReport]

Init ==
    /\ disk = FirstIdentity
    /\ installed = FirstVersion
    /\ method \in Methods
    /\ installer = Idle
    /\ mem = FirstIdentity
    /\ cur = FirstVersion
    /\ main = "config"
    /\ attempt = Idle
    /\ overdue = FALSE
    /\ hb = "idle"
    /\ fetched = NoFetch
    /\ asking = None
    /\ poll = "idle"
    /\ polled = NoFetch
    /\ server = NoFetch
    /\ issued = {}
    /\ outcome = [r \in Requests |-> "unknown"]
    /\ attempted = {}
    /\ launched = None
    /\ wentBack = FALSE
    /\ crashes = 0
    /\ failedSaves = 0

-----------------------------------------------------------------------------
(* Persistence *)

(* State.Mutate: the identity in memory becomes id, and is written to disk *)
(* unless the write fails.                                                 *)
Mutate(id, ok) ==
    /\ mem' = id
    /\ disk' = IF ok THEN id ELSE disk
    /\ ok \/ failedSaves < MaxFailedSaves
    /\ failedSaves' = IF ok THEN failedSaves ELSE failedSaves + 1

NoMutate == UNCHANGED <<mem, disk, failedSaves>>

(* MUTANT of Resolved: the report is named after the pending marker *)
ResolvedPending(id, r, state) ==
    [id EXCEPT !.pending = None, !.report = [id |-> id.pending, state |-> state]]

(* Updater.finish: a terminal report, and nothing pending. *)
Resolved(id, r, state) ==
    [id EXCEPT !.pending = None, !.report = [id |-> r, state |-> state]]

-----------------------------------------------------------------------------
(* The server *)

(* An admin, or auto-update, asks for a new update. *)
Ask(r) ==
    /\ r \notin issued
    /\ server.ver < MaxConfig
    /\ server' = [ver |-> server.ver + 1, req |-> r]
    /\ issued' = issued \cup {r}
    /\ UNCHANGED <<host, mem, cur, main, attempt, overdue, beats, outcome, history,
                   counts>>

(* The request is cleared. *)
Withdraw ==
    /\ server.req # None
    /\ server.ver < MaxConfig
    /\ server' = [ver |-> server.ver + 1, req |-> None]
    /\ UNCHANGED <<host, mem, cur, main, attempt, overdue, beats, issued, outcome,
                   history, counts>>

(* What the server makes of a heartbeat: its request has succeeded when    *)
(* the agent says so or runs the target, and reports about other requests  *)
(* are ignored.                                                            *)
Learned(version, report) ==
    LET r == server.req IN
    IF r = None THEN outcome
    ELSE IF version >= Target[r] \/ report = [id |-> r, state |-> "succeeded"]
         THEN [outcome EXCEPT ![r] = "succeeded"]
         ELSE IF report = [id |-> r, state |-> "failed"]
              THEN [outcome EXCEPT ![r] = "failed"]
              ELSE outcome

-----------------------------------------------------------------------------
(* Decisions of the updater *)

(* MUTANT of Accepts: an older version is accepted *)
AcceptsAnything(version, target) == TRUE

(* CheckTarget: strictly forward, from the version that runs *)
Accepts(version, target) == target > version

(* MUTANT of Seen: the last request is not remembered *)
SeenForgotten(id, r) == FALSE

(* Consider: r is the last request acted on. *)
Seen(id, r) == id.last = r

(* MUTANT of Blocked: a pending update does not hold up the next one *)
BlockedNever(id) == FALSE

(* Consider: another update's outcome is still open. *)
Blocked(id) == id.pending # None

(* MUTANT of Outcome: any restart is taken for the installer's success *)
OutcomeAssumed(version, target) == "succeeded"

(* Startup: whether the pending update made it. *)
Outcome(version, target) == IF version = target THEN "succeeded" ELSE "failed"

(* Consider *)
Starts(r) ==
    /\ r # None
    /\ attempt.pc = "off"
    /\ ~Seen(mem, r)
    /\ ~Blocked(mem)

(* Consider, for request r of the current config: record the attempt, then *)
(* start its goroutine; a failed write is ignored.                         *)
Consider(r) ==
    IF Starts(r)
    THEN /\ \E ok \in BOOLEAN :
              Mutate([mem EXCEPT !.last = r,
                                 !.report = [id |-> r, state |-> "downloading"]], ok)
         /\ attempt' = [pc |-> "download", id |-> r]
         /\ attempted' = attempted \cup {r}
         /\ launched' = None
         /\ UNCHANGED wentBack
    ELSE NoMutate /\ UNCHANGED <<attempt, history>>

-----------------------------------------------------------------------------
(* Startup (Agent.Run) *)

(* fetchConfig(force), best effort *)
StartupConfig ==
    /\ main = "config"
    /\ \/ \E ok \in BOOLEAN : Mutate([mem EXCEPT !.config = server], ok)
       \/ NoMutate
    /\ main' = "startup"
    /\ UNCHANGED <<installed, method, installer, cur, attempt, overdue, beats, asked,
                   history, crashes>>

(* MUTANT of Interrupted: an attempt cut short before its installer was    *)
(* launched is left as it is                                               *)
InterruptedIgnored(id) == FALSE

(* Startup: an attempt the last process did not bring to its installer *)
Interrupted(id) == id.pending = None /\ id.report.state \in Progress

(* Updater.Startup *)
Startup ==
    /\ main = "startup"
    /\ main' = "consider"
    /\ IF mem.pending # None
       THEN \E ok \in BOOLEAN :
              Mutate(Resolved(mem, mem.pending, Outcome(cur, Target[mem.pending])), ok)
       ELSE IF Interrupted(mem)
            THEN \E ok \in BOOLEAN : Mutate(Resolved(mem, mem.report.id, "failed"), ok)
            ELSE NoMutate
    /\ UNCHANGED <<installed, method, installer, cur, attempt, overdue, beats, asked,
                   history, crashes>>

(* Consider, on the config as fetched or cached; then the loops start. *)
StartupConsider ==
    /\ main = "consider"
    /\ main' = "up"
    /\ Consider(mem.config.req)
    /\ UNCHANGED <<installed, method, installer, cur, overdue, beats, asked, crashes>>

-----------------------------------------------------------------------------
(* The heartbeat goroutine *)

(* Updater.CheckPending *)
CheckPending ==
    IF mem.pending # None /\ overdue
    THEN \E ok \in BOOLEAN : Mutate(Resolved(mem, mem.pending, "failed"), ok)
    ELSE NoMutate

(* heartbeat: CheckPending, then the report is sent.  An answer tells the  *)
(* server's config version.                                                *)
HeartbeatAnswered ==
    /\ main = "up" /\ hb = "idle"
    /\ CheckPending
    /\ outcome' = Learned(cur, mem'.report)
    /\ hb' = IF server.ver > mem.config.ver THEN "fetch" ELSE "ask"
    /\ UNCHANGED <<installed, method, installer, cur, main, attempt, overdue, fetched,
                   asking, poll, polled, server, issued, history, crashes>>

(* The heartbeat, or only its answer, is lost. *)
HeartbeatLost ==
    /\ main = "up" /\ hb = "idle"
    /\ CheckPending
    /\ outcome' \in {outcome, Learned(cur, mem'.report)}
    /\ UNCHANGED <<installed, method, installer, cur, main, attempt, overdue, beats,
                   server, issued, history, crashes>>

(* fetchConfig: the server's answer, or a failure. *)
HeartbeatFetches ==
    /\ hb = "fetch"
    /\ fetched' = server
    /\ hb' = "apply"
    /\ UNCHANGED <<host, mem, cur, main, attempt, overdue, asking, poll, polled, asked,
                   history, counts>>

HeartbeatFetchFails ==
    /\ hb = "fetch"
    /\ hb' = "ask"
    /\ UNCHANGED <<host, mem, cur, main, attempt, overdue, fetched, asking, poll, polled,
                   asked, history, counts>>

(* fetchConfig: a config that differs from the applied one replaces it, be *)
(* it newer or, when the other goroutine was faster, older.                *)
Apply(config) ==
    /\ IF config.ver # mem.config.ver
       THEN \E ok \in BOOLEAN : Mutate([mem EXCEPT !.config = config], ok)
       ELSE NoMutate
    /\ wentBack' = (wentBack \/ config.ver < mem.config.ver)
    /\ UNCHANGED <<attempted, launched>>

HeartbeatApplies ==
    /\ hb = "apply"
    /\ Apply(fetched)
    /\ hb' = "ask"
    /\ fetched' = NoFetch
    /\ UNCHANGED <<installed, method, installer, cur, main, attempt, overdue, asking,
                   poll, polled, asked, crashes>>

(* considerUpdate reads the request once, for Prune and for Consider. *)
HeartbeatAsks ==
    /\ hb = "ask"
    /\ hb' = "prune"
    /\ asking' = mem.config.req
    /\ UNCHANGED <<host, mem, cur, main, attempt, overdue, fetched, poll, polled, asked,
                   history, counts>>

(* MUTANT of Prunable: any finished report is dropped *)
PrunableAlways(id, active) == id.report.state \in Finished

(* Prune: a finished report that the config does not ask about *)
Prunable(id, active) == id.report.state \in Finished /\ id.report.id # active

(* considerUpdate: Prune *)
HeartbeatPrunes ==
    /\ hb = "prune"
    /\ hb' = "consider"
    /\ IF Prunable(mem, asking)
       THEN \E ok \in BOOLEAN : Mutate([mem EXCEPT !.report = NoReport], ok)
       ELSE NoMutate
    /\ UNCHANGED <<installed, method, installer, cur, main, attempt, overdue, fetched,
                   asking, poll, polled, asked, history, crashes>>

(* considerUpdate: Consider *)
HeartbeatConsiders ==
    /\ hb = "consider"
    /\ hb' = "idle"
    /\ Consider(asking)
    /\ asking' = None
    /\ UNCHANGED <<installed, method, installer, cur, main, overdue, fetched, poll,
                   polled, asked, crashes>>

-----------------------------------------------------------------------------
(* The config poll goroutine *)

PollFetches ==
    /\ main = "up" /\ poll = "idle"
    /\ poll' = "apply"
    /\ polled' = server
    /\ UNCHANGED <<host, mem, cur, main, attempt, overdue, hb, fetched, asking, asked,
                   history, counts>>

PollApplies ==
    /\ poll = "apply"
    /\ Apply(polled)
    /\ poll' = "idle"
    /\ polled' = NoFetch
    /\ UNCHANGED <<installed, method, installer, cur, main, attempt, overdue, hb,
                   fetched, asking, asked, crashes>>

-----------------------------------------------------------------------------
(* The attempt goroutine (Updater.run) *)

At(point) == attempt.pc = point
Goto(point) == attempt' = IF point = "off" THEN Idle ELSE [attempt EXCEPT !.pc = point]

(* CheckTarget, DetectMethod, FetchSums, SelectAsset, FetchAsset *)
AttemptDownload ==
    /\ At("download")
    /\ \/ Goto("fail")
       \/ Accepts(cur, Target[attempt.id]) /\ Goto("install")
    /\ UNCHANGED <<host, mem, cur, main, overdue, beats, asked, history, counts>>

(* setState *)
AttemptInstalling ==
    /\ At("install")
    /\ \E ok \in BOOLEAN :
         Mutate([mem EXCEPT !.report = [id |-> attempt.id, state |-> "installing"]], ok)
    /\ Goto("swap")
    /\ UNCHANGED <<installed, method, installer, cur, main, overdue, beats, asked,
                   history, crashes>>

(* swapBinary for an archive, InstallCommand otherwise *)
AttemptSwap ==
    /\ At("swap")
    /\ \/ method = "archive" /\ Goto("fail") /\ UNCHANGED installed
       \/ method = "archive" /\ Goto("mark") /\ installed' = Target[attempt.id]
       \/ method # "archive" /\ Goto("mark") /\ UNCHANGED installed
    /\ UNCHANGED <<disk, method, installer, mem, cur, main, overdue, beats, asked,
                   history, counts>>

(* MUTANT of AfterMark: the error of the write is ignored *)
LaunchAnyway(ok) == "launch"

AfterMark(ok) == IF ok THEN "launch" ELSE "fail"

(* The pending marker: without it on disk, nothing is launched. *)
AttemptMark ==
    /\ At("mark")
    /\ \E ok \in BOOLEAN :
         /\ Mutate([mem EXCEPT !.pending = attempt.id], ok)
         /\ Goto(AfterMark(ok))
    /\ overdue' = FALSE
    /\ UNCHANGED <<installed, method, installer, cur, main, beats, asked, history,
                   crashes>>

(* Launch: an installer that finds another one at work fails at once (the  *)
(* package manager's lock); an archive only has the service restarted.     *)
AttemptLaunch ==
    /\ At("launch")
    /\ Goto("off")
    /\ installer' = IF installer # Idle THEN installer
                    ELSE [pc |-> IF method = "archive" THEN "replaced" ELSE "launched",
                          id |-> attempt.id]
    /\ launched' = attempt.id
    /\ UNCHANGED <<disk, installed, method, mem, cur, main, overdue, beats, asked,
                   attempted, wentBack, counts>>

AttemptLaunchFails ==
    /\ At("launch")
    /\ Goto("fail")
    /\ \E ok \in BOOLEAN : Mutate([mem EXCEPT !.pending = None], ok)
    /\ UNCHANGED <<installed, method, installer, cur, main, overdue, beats, asked,
                   history, crashes>>

(* MUTANT of Failed: the failure of an attempt is not recorded *)
FailureForgotten(id, r) == [id EXCEPT !.pending = None]

(* attempt: what is recorded of an attempt that failed *)
Failed(id, r) == Resolved(id, r, "failed")

AttemptFails ==
    /\ At("fail")
    /\ Goto("off")
    /\ \E ok \in BOOLEAN : Mutate(Failed(mem, attempt.id), ok)
    /\ UNCHANGED <<installed, method, installer, cur, main, overdue, beats, asked,
                   history, crashes>>

(* PendingTimeout passes. *)
TimeoutPasses ==
    /\ mem.pending # None
    /\ attempt.pc = "off"
    /\ ~overdue
    /\ overdue' = TRUE
    /\ UNCHANGED <<host, mem, cur, main, attempt, beats, asked, history, counts>>

-----------------------------------------------------------------------------
(* The host: detached installers, restarts and crashes *)

(* The package is installed, over an older program or over any. *)
InstallerReplaces ==
    /\ installer.pc = "launched"
    /\ method = "upgrade" => Target[installer.id] >= installed
    /\ installed' = Target[installer.id]
    /\ installer' = [installer EXCEPT !.pc = "replaced"]
    /\ UNCHANGED <<disk, method, mem, cur, main, attempt, overdue, beats, asked,
                   history, counts>>

(* The installer, or the restart command, fails. *)
InstallerFails ==
    /\ installer # Idle
    /\ installer' = Idle
    /\ UNCHANGED <<disk, installed, method, mem, cur, main, attempt, overdue, beats,
                   asked, history, counts>>

(* A new process runs what is installed, from what was persisted. *)
NewProcess ==
    /\ mem' = disk
    /\ cur' = installed
    /\ main' = "config"
    /\ attempt' = Idle
    /\ overdue' = FALSE
    /\ hb' = "idle"
    /\ fetched' = NoFetch
    /\ asking' = None
    /\ poll' = "idle"
    /\ polled' = NoFetch
    /\ UNCHANGED <<disk, installed, method, asked, history, failedSaves>>

(* The installer, or the restart command, restarts the service. *)
InstallerRestarts ==
    /\ installer.pc = "replaced"
    /\ installer' = Idle
    /\ NewProcess
    /\ UNCHANGED crashes

(* The agent crashes, or is stopped, and the service manager starts it. *)
Crash ==
    /\ crashes < MaxCrashes
    /\ crashes' = crashes + 1
    /\ NewProcess
    /\ UNCHANGED installer

-----------------------------------------------------------------------------
StartupStep == StartupConfig \/ Startup \/ StartupConsider

HeartbeatStep ==
    HeartbeatApplies \/ HeartbeatAsks \/ HeartbeatPrunes \/ HeartbeatConsiders

AttemptStep ==
    \/ AttemptDownload
    \/ AttemptInstalling
    \/ AttemptSwap
    \/ AttemptMark
    \/ AttemptLaunch
    \/ AttemptLaunchFails
    \/ AttemptFails

Next ==
    \/ \E r \in Requests : Ask(r)
    \/ Withdraw
    \/ StartupStep
    \/ HeartbeatAnswered \/ HeartbeatLost
    \/ HeartbeatFetches \/ HeartbeatFetchFails
    \/ HeartbeatStep
    \/ PollFetches \/ PollApplies
    \/ AttemptStep
    \/ TimeoutPasses
    \/ InstallerReplaces \/ InstallerFails \/ InstallerRestarts
    \/ Crash

(* Heartbeats recur and some are answered, goroutines are scheduled, every *)
(* step of an attempt has a timeout, and time passes.  Of an installer     *)
(* nothing is assumed: it may hang.                                        *)
Fairness ==
    /\ WF_vars(StartupStep)
    /\ SF_vars(HeartbeatAnswered)
    /\ SF_vars(HeartbeatFetches)
    /\ WF_vars(HeartbeatStep)
    /\ WF_vars(PollApplies)
    /\ WF_vars(AttemptStep)
    /\ WF_vars(TimeoutPasses)

Spec == Init /\ [][Next]_vars
FairSpec == Spec /\ Fairness
-----------------------------------------------------------------------------
(* Properties *)

Points == {"off", "download", "install", "swap", "mark", "launch", "fail"}

(* The type invariant. *)
TypeOK ==
    /\ disk \in Identities /\ mem \in Identities
    /\ installed \in Nat /\ cur \in Nat
    /\ method \in Methods
    /\ installer \in [pc : {"off", "launched", "replaced"}, id : Requests \cup {None}]
    /\ attempt \in [pc : Points, id : Requests \cup {None}]
    /\ (installer.pc = "off") = (installer.id = None)
    /\ (attempt.pc = "off") = (attempt.id = None)
    /\ main \in {"config", "startup", "consider", "up"}
    /\ overdue \in BOOLEAN
    /\ hb \in {"idle", "fetch", "apply", "ask", "prune", "consider"}
    /\ fetched \in Configs
    /\ asking \in Requests \cup {None}
    /\ poll \in {"idle", "apply"}
    /\ polled \in Configs
    /\ server \in Configs
    /\ issued \in SUBSET Requests
    /\ outcome \in [Requests -> {"unknown"} \cup Finished]
    /\ attempted \in SUBSET Requests
    /\ launched \in Requests \cup {None}
    /\ wentBack \in BOOLEAN
    /\ crashes \in 0..MaxCrashes
    /\ failedSaves \in 0..MaxFailedSaves

(* The report in memory is that of the attempt under way, and the pending  *)
(* marker is never another request's: no attempt starts while the outcome  *)
(* of an earlier one is open, and nothing resolves or prunes the report of *)
(* one that runs (the heartbeat and the attempt both write the identity).  *)
AttemptOwnsReport ==
    attempt.pc # "off" =>
        /\ mem.report.id = attempt.id
        /\ mem.report.state \in Progress
        /\ mem.pending \in {None, attempt.id}

(* Once started up, a report of progress always has something that will    *)
(* resolve it: the attempt itself or, from the launch on, the pending      *)
(* marker with its timeout.  An admin never watches "installing" forever.  *)
ProgressIsResolvable ==
    main \in {"consider", "up"} /\ mem.report.state \in Progress =>
        attempt.pc # "off" \/ mem.pending = mem.report.id

(* The update launched last has no outcome yet. *)
Unresolved ==
    /\ launched # None
    /\ mem.report.id = launched
    /\ mem.report.state \in Progress

(* No launch goes unaccounted for: from the moment an installer can be at  *)
(* work until a heartbeat or a new process has its outcome, the marker is  *)
(* on disk, whatever else is written by the two loops, whichever of these  *)
(* writes fail, and in whatever process the installer finds the agent.     *)
LaunchIsPersisted ==
    /\ attempt.pc = "launch" => disk.pending = attempt.id
    /\ Unresolved => disk.pending = launched

(* A process that starts while a launched update has no outcome reports    *)
(* that it succeeded exactly if it runs the target version.  This holds of *)
(* every install method, after a crash as after the installer's restart,   *)
(* and for the retry of a version under a new id.  (An attempt that was    *)
(* cut short before its launch is reported as failed without a look at the *)
(* version, though an archive's program may be swapped by then.)           *)
RestartReportsOutcome ==
    [][Unresolved /\ main = "startup" /\ main' = "consider" =>
         mem'.report =
            [id |-> launched,
             state |-> IF cur = Target[launched] THEN "succeeded" ELSE "failed"]]_vars

(* The version that runs never goes back, over any sequence of requests,   *)
(* late installers, crashes and restarts, where the package manager        *)
(* refuses an older package or the attempt itself swaps the program.       *)
(* Elsewhere a late installer can bring back the version it was for.       *)
NeverDowngraded == [][method # "install" => cur' >= cur]_vars

(* On the same hosts, what the server was told succeeded is what runs, or  *)
(* a newer version.                                                        *)
SuccessIsReal ==
    method # "install" =>
        \A r \in Requests : outcome[r] = "succeeded" => cur >= Target[r]

Begins(r) == attempt.pc = "off" /\ attempt' = [pc |-> "download", id |-> r]

(* A request that was launched is not attempted again, until another one   *)
(* has been: not after a crash or a restart at any point, not when writes  *)
(* before or after the launch failed, not when a config that is stale asks *)
(* for it again.                                                           *)
LaunchedOnce == [][\A r \in Requests : launched = r => ~Begins(r)]_vars

(* ENDPOINT_API.md: a request is attempted at most once, even across       *)
(* restarts.                                                               *)
AttemptedOnce == [][\A r \in attempted : ~Begins(r)]_vars

(* The agent and its file have the config that asks for r and a report on  *)
(* r, and no goroutine still works with another request.                   *)
Settled(r) ==
    /\ server.req = r
    /\ \A id \in {mem, disk} : id.config.req = r /\ id.report.id = r
    /\ hb = "apply" => fetched.req = r
    /\ hb \in {"prune", "consider"} => asking = r
    /\ poll = "apply" => polled.req = r

(* From then on, and until the server's request changes, the report about  *)
(* it stays: nothing drops it or replaces it by another's, whatever        *)
(* crashes, restarts and failed writes do to the config and the report.    *)
ReportKept ==
    [][\A r \in Requests : Settled(r) /\ server'.req = r => Settled(r)']_vars

(* The server learns how every request ends, unless it moves on: whatever  *)
(* crashes, and even if the installer hangs or fails silently.  A stale    *)
(* config that was applied over a newer one is the exception: it lets the  *)
(* agent drop a report that the server has not got.                        *)
OutcomeLearned ==
    \A r \in Requests :
        server.req = r ~> (outcome[r] # "unknown" \/ server.req # r \/ wentBack)
=============================================================================
