------------------------------ MODULE RuleSync ------------------------------
(***************************************************************************)
(* How the server's config and detection rules reach the host              *)
(* (internal/agent/agent.go: Run, fetchConfig, syncYaraRules,              *)
(* runDetection; cmd/siembox-agent/main.go: runAgent).  The startup of     *)
(* Run, the heartbeat and the config poll each fetch the config, and the   *)
(* two loops do so concurrently.  A config carries Sigma rules, compiled   *)
(* into the engine, and the version of a YARA bundle, downloaded into the  *)
(* signature file beside the embedded baseline.  A supervisor restarts     *)
(* detection when the file changed.                                        *)
(*                                                                         *)
(* A config is its version; a bundle is the version of the config's        *)
(* yara_rules_version, 0 standing for the baseline alone.  Writes of the   *)
(* identity succeed here (SelfUpdate models those that fail).              *)
(***************************************************************************)
EXTENDS Integers

CONSTANTS
    MaxConfig,   \* bound on the server's config versions
    BundleOf,    \* yara_rules_version of each config version
    MaxRestarts  \* bound on restarts and crashes of the agent

Versions == 0..MaxConfig

ASSUME RuleConstants ==
    /\ MaxConfig \in Nat
    /\ MaxRestarts \in Nat
    /\ BundleOf \in [Versions -> Nat]
    /\ BundleOf[0] = 0
    /\ \A v, w \in Versions : v <= w => BundleOf[v] <= BundleOf[w]

VARIABLES
    server,    \* the server's config version
    (* Persisted by the agent *)
    config,    \* the applied config (Identity.Config)
    applied,   \* Identity.AppliedYaraRulesVersion
    sigs,      \* the bundle in the signature file, or Torn
    (* The agent's process *)
    main,      \* how far Run has come
    pc,        \* where each goroutine is in fetchConfig and syncYaraRules
    got,       \* the config each has fetched
    want,      \* the bundle version each is to record as applied
    bundle,    \* the bundle each has downloaded
    engine,    \* the config whose rules the engine has
    restart,   \* a signal waits in the restartDetection channel
    detection, \* the supervisor: off, loading rules, or running
    loading,   \* the config whose rules it is loading
    (* Bookkeeping of the model *)
    loaded,    \* what the file held when detection was last started
    restarts

persisted == <<config, applied, sigs>>
fetcher   == <<pc, got, want, bundle>>
supervisor == <<detection, loading, loaded>>
vars == <<server, persisted, main, fetcher, engine, restart, supervisor,
          restarts>>

Loops == {"heartbeat", "poll"}
Goroutines == {"run"} \cup Loops
Bundles == {BundleOf[v] : v \in Versions}

(* A signature file that was cut short by an error *)
Torn == -1

Init ==
    /\ server = 0
    /\ config = 0
    /\ applied = 0
    /\ sigs = 0
    /\ main = "config"
    /\ pc = [g \in Goroutines |-> "idle"]
    /\ got = [g \in Goroutines |-> 0]
    /\ want = [g \in Goroutines |-> 0]
    /\ bundle = [g \in Goroutines |-> 0]
    /\ engine = 0
    /\ restart = FALSE
    /\ detection = "off"
    /\ loading = 0
    /\ loaded = 0
    /\ restarts = 0

-----------------------------------------------------------------------------
(* The server's config changes. *)
Publish ==
    /\ server < MaxConfig
    /\ server' = server + 1
    /\ UNCHANGED <<persisted, main, fetcher, engine, restart, supervisor,
                   restarts>>

-----------------------------------------------------------------------------
(* fetchConfig and syncYaraRules, step by step, in goroutine g *)

At(g, point) == pc[g] = point
Goto(g, point) == pc' = [pc EXCEPT ![g] = point]

(* FetchConfig is answered. *)
Fetch(g) ==
    /\ got' = [got EXCEPT ![g] = server]
    /\ Goto(g, "apply")
    /\ UNCHANGED <<want, bundle>>

(* The heartbeat fetches when it is told of a newer version, the poll      *)
(* always does.                                                            *)
LoopFetches(g) ==
    /\ main = "up" /\ At(g, "idle")
    /\ g = "heartbeat" => server > config
    /\ Fetch(g)
    /\ UNCHANGED <<server, persisted, main, engine, restart, supervisor,
                   restarts>>

(* MUTANT of Applies: only an older config is taken for a change *)
AppliesOlder(fetched, current) == fetched < current

(* A loop applies any version that differs from the applied one. *)
Applies(fetched, current) == fetched # current

(* The startup applies the config in any case (force). *)
Apply(g) ==
    /\ At(g, "apply")
    /\ IF g = "run" \/ Applies(got[g], config)
       THEN config' = got[g] /\ Goto(g, "load")
       ELSE UNCHANGED config /\ Goto(g, "idle")
    /\ UNCHANGED <<server, applied, sigs, main, got, want, bundle, engine, restart,
                   supervisor, restarts>>

(* LoadRules of the config that was fetched *)
LoadRules(g) ==
    /\ At(g, "load")
    /\ engine' = got[g]
    /\ Goto(g, "sync")
    /\ UNCHANGED <<server, persisted, main, got, want, bundle, restart, supervisor, restarts>>

(* MUTANT of Wanted: the config's version is taken for its bundle's *)
ConfigVersionWanted(v) == v

(* YaraRulesVersion of the config *)
Wanted(v) == BundleOf[v]

(* syncYaraRules: the applied config asks for a newer bundle than the      *)
(* applied one, and the server's current one is downloaded, or not.        *)
SyncYara(g) ==
    /\ At(g, "sync")
    /\ \/ Goto(g, "idle") /\ UNCHANGED <<want, bundle>>
       \/ /\ Wanted(config) > applied
          /\ want' = [want EXCEPT ![g] = Wanted(config)]
          /\ bundle' = [bundle EXCEPT ![g] = BundleOf[server]]
          /\ Goto(g, "write")
    /\ UNCHANGED <<server, persisted, main, got, engine, restart, supervisor,
                   restarts>>

(* WriteSignatures: the whole file is written, or an error leaves it as it *)
(* was or, as os.WriteFile truncates it first, cut short.                  *)
WriteSignatures(g) ==
    /\ At(g, "write")
    /\ \/ Goto(g, "record") /\ sigs' = bundle[g]
       \/ Goto(g, "idle") /\ sigs' \in {sigs, Torn}
    /\ UNCHANGED <<server, config, applied, main, got, want, bundle, engine, restart,
                   supervisor, restarts>>

RecordApplied(g) ==
    /\ At(g, "record")
    /\ applied' = want[g]
    /\ Goto(g, "signal")
    /\ UNCHANGED <<server, config, sigs, main, got, want, bundle, engine, restart,
                   supervisor, restarts>>

(* MUTANT of Nudges: compared again, after the version was recorded *)
NudgesIfNewer(g) == want[g] > applied

(* Every bundle written is signalled; the channel holds one signal, and a  *)
(* second one is dropped.                                                  *)
Nudges(g) == TRUE

(* The nudges to detection and to the YARA loop (the latter: YaraPass) *)
Signal(g) ==
    /\ At(g, "signal")
    /\ restart' = (restart \/ Nudges(g))
    /\ Goto(g, "idle")
    /\ UNCHANGED <<server, persisted, main, got, want, bundle, engine, supervisor, restarts>>

-----------------------------------------------------------------------------
(* The startup (Agent.Run) *)

StartupConfig ==
    /\ main = "config"
    /\ \/ Fetch("run")
       \/ UNCHANGED fetcher
    /\ main' = "yara"
    /\ UNCHANGED <<server, persisted, engine, restart, supervisor, restarts>>

StartupYara ==
    /\ main = "yara" /\ At("run", "idle")
    /\ main' = "drain"
    /\ Goto("run", "sync")
    /\ UNCHANGED <<server, persisted, got, want, bundle, engine, restart, supervisor, restarts>>

(* The signal of the initial sync is dropped, the rules are loaded, and    *)
(* the loops and the supervisor start.                                     *)
StartupLoops ==
    /\ main = "drain" /\ At("run", "idle")
    /\ main' = "up"
    /\ restart' = FALSE
    /\ engine' = config
    /\ detection' = "start"
    /\ UNCHANGED <<server, persisted, fetcher, loading, loaded, restarts>>

-----------------------------------------------------------------------------
(* The detection supervisor (runDetection) *)

(* The top of the loop reads the config's rules, without the state lock, *)
DetectionReads ==
    /\ detection = "start"
    /\ detection' = "load"
    /\ loading' = config
    /\ UNCHANGED <<server, persisted, main, fetcher, engine, restart, loaded,
                   restarts>>

(* loads them, and runs the engine.  The restarts are meant to have it     *)
(* started with the current signature file (loaded); the osqueryd it       *)
(* starts is given no YARA section, so that the passes read the file.      *)
DetectionRuns ==
    /\ detection = "load"
    /\ detection' = "running"
    /\ engine' = loading
    /\ loaded' = sigs
    /\ UNCHANGED <<server, persisted, main, fetcher, restart, loading, restarts>>

(* The engine is stopped because the rules changed. *)
DetectionRestarts ==
    /\ detection = "running"
    /\ restart
    /\ restart' = FALSE
    /\ detection' = "start"
    /\ UNCHANGED <<server, persisted, main, fetcher, engine, loading, loaded,
                   restarts>>

(* The engine ends by itself and is run again. *)
DetectionEnds ==
    /\ detection = "running"
    /\ detection' = "start"
    /\ UNCHANGED <<server, persisted, main, fetcher, engine, restart, loading, loaded, restarts>>

-----------------------------------------------------------------------------
(* runAgent writes the signature file anew, with the baseline alone, and   *)
(* goes on if the write fails (file detection is then off).                *)
FilesAtStart(file) == {0, file, Torn}

(* The process ends at any point, and a new one starts. *)
Restart ==
    /\ restarts < MaxRestarts
    /\ restarts' = restarts + 1
    /\ sigs' \in FilesAtStart(sigs)
    /\ main' = "config"
    /\ pc' = [g \in Goroutines |-> "idle"]
    /\ got' = [g \in Goroutines |-> 0]
    /\ want' = [g \in Goroutines |-> 0]
    /\ bundle' = [g \in Goroutines |-> 0]
    /\ engine' = 0
    /\ restart' = FALSE
    /\ detection' = "off"
    /\ loading' = 0
    /\ loaded' = 0
    /\ UNCHANGED <<server, config, applied>>

FetchStep(g) ==
    \/ Apply(g)
    \/ LoadRules(g)
    \/ SyncYara(g)
    \/ WriteSignatures(g)
    \/ RecordApplied(g)
    \/ Signal(g)

StartupStep == StartupConfig \/ StartupYara \/ StartupLoops

DetectionStep == DetectionReads \/ DetectionRuns \/ DetectionRestarts

Next ==
    \/ Publish
    \/ StartupStep
    \/ \E g \in Loops : LoopFetches(g)
    \/ \E g \in Goroutines : FetchStep(g)
    \/ DetectionStep
    \/ DetectionEnds
    \/ Restart

(* Goroutines are scheduled, and fetches recur and are answered. *)
Fairness ==
    /\ WF_vars(StartupStep)
    /\ \A g \in Loops : WF_vars(LoopFetches(g))
    /\ \A g \in Goroutines : WF_vars(FetchStep(g))
    /\ WF_vars(DetectionStep)

Spec == Init /\ [][Next]_vars
FairSpec == Spec /\ Fairness

-----------------------------------------------------------------------------
(* Properties *)

(* The type invariant. *)
TypeOK ==
    /\ server \in Versions /\ config \in Versions
    /\ applied \in Bundles /\ sigs \in Bundles \cup {Torn}
    /\ main \in {"config", "yara", "drain", "up"}
    /\ pc \in [Goroutines ->
                 {"idle", "apply", "load", "sync", "write", "record", "signal"}]
    /\ got \in [Goroutines -> Versions]
    /\ want \in [Goroutines -> Bundles]
    /\ bundle \in [Goroutines -> Bundles]
    /\ engine \in Versions /\ loading \in Versions
    /\ restart \in BOOLEAN
    /\ detection \in {"off", "start", "load", "running"}
    /\ loaded \in Bundles \cup {Torn}
    /\ restarts \in 0..MaxRestarts

(* A bundle written while detection runs is never overlooked: as long as   *)
(* detection was started with another one, a restart is signalled or about *)
(* to be, though the channel holds a single signal and two goroutines send *)
(* without waiting.  (A file that an error cut short is not signalled.)    *)
ReloadIsPending ==
    detection = "running" /\ sigs \notin {loaded, Torn} =>
        restart \/ \E g \in Goroutines : pc[g] \in {"record", "signal"}

(* A stale config may overwrite a newer one, but not for good: once the    *)
(* server stops changing its config, the agent ends up with it.            *)
ConfigConverges == <>[](config = server)

(* The comment on Identity.AppliedYaraRulesVersion: it is the version of   *)
(* the bundle currently written to disk.  At least, the file is not behind *)
(* it (unless an error cut it short).                                      *)
AppliedIsOnDisk ==
    main = "up" /\ (\A g \in Goroutines : pc[g] = "idle") =>
        sigs = Torn \/ sigs >= applied
=============================================================================
