-------------------------- MODULE RuleSync_proofs ---------------------------
(***************************************************************************)
(* Proofs about RuleSync, for any number of config versions, any bundle    *)
(* versions that grow with them and any number of restarts: types, and     *)
(* that a bundle written under a running detection is signalled.           *)
(***************************************************************************)
EXTENDS RuleSync, TLAPS

(* Version 0 is a version, and its bundle, the baseline alone, is 0. *)
LEMMA BaselineType == 0 \in Versions /\ 0 \in Bundles
BY RuleConstants DEF Versions, Bundles

(* The bundle of a config version is a bundle, and a number. *)
LEMMA BundleType ==
    /\ \A v \in Versions : BundleOf[v] \in Bundles
    /\ \A b \in Bundles : b \in Nat
BY RuleConstants DEF Bundles

(* The startup's goroutine and the two loops. *)
LEMMA GoroutineNames == "run" \in Goroutines /\ Loops \subseteq Goroutines
BY DEF Goroutines, Loops

(* A goroutine's step to a point changes where that goroutine is, and no    *)
(* other.                                                                   *)
LEMMA GotoMoves ==
    ASSUME TypeOK, NEW g \in Goroutines,
           NEW point \in {"idle", "apply", "load", "sync", "write", "record", "signal"},
           Goto(g, point)
    PROVE  /\ pc'[g] = point
           /\ \A h \in Goroutines \ {g} : pc'[h] = pc[h]
           /\ pc' \in [Goroutines ->
                {"idle", "apply", "load", "sync", "write", "record", "signal"}]
BY DEF Goto, TypeOK

-----------------------------------------------------------------------------
(* Type correctness *)

(* What a goroutine does in fetchConfig and syncYaraRules keeps the types. *)
LEMMA TypeFetch == TypeOK /\ (\E g \in Goroutines : FetchStep(g)) => TypeOK'
<1> SUFFICES ASSUME TypeOK, NEW g \in Goroutines, FetchStep(g) PROVE TypeOK'
  OBVIOUS
<1>1. CASE Apply(g)
  BY <1>1 DEF Apply, Goto, TypeOK, supervisor
<1>2. CASE LoadRules(g)
  BY <1>2 DEF LoadRules, Goto, TypeOK, persisted, supervisor
<1>3. CASE SyncYara(g)
  BY <1>3, BundleType DEF SyncYara, Goto, Wanted, TypeOK, persisted,
     supervisor
<1>4. CASE WriteSignatures(g)
  BY <1>4 DEF WriteSignatures, Goto, TypeOK, supervisor
<1>5. CASE RecordApplied(g)
  BY <1>5 DEF RecordApplied, Goto, TypeOK, supervisor
<1>6. CASE Signal(g)
  BY <1>6 DEF Signal, Goto, Nudges, TypeOK, persisted, supervisor
<1> QED
  BY <1>1, <1>2, <1>3, <1>4, <1>5, <1>6 DEF FetchStep

(* The steps of startup keep the types. *)
LEMMA TypeStartup == TypeOK /\ StartupStep => TypeOK'
<1> SUFFICES ASSUME TypeOK, StartupStep PROVE TypeOK'
  OBVIOUS
<1>1. CASE StartupConfig
  <2>1. UNCHANGED fetcher \/ Fetch("run")
    BY <1>1 DEF StartupConfig
  <2> QED
    BY <1>1, <2>1, GoroutineNames DEF StartupConfig, Fetch, Goto, TypeOK, persisted,
       fetcher, supervisor
<1>2. CASE StartupYara
  BY <1>2, GoroutineNames DEF StartupYara, Goto, TypeOK, persisted, supervisor
<1>3. CASE StartupLoops
  BY <1>3 DEF StartupLoops, TypeOK, persisted, fetcher
<1> QED
  BY <1>1, <1>2, <1>3 DEF StartupStep

(* A new process finds the identity, and writes the signature file anew. *)
LEMMA TypeRestart == TypeOK /\ Restart => TypeOK'
<1> SUFFICES ASSUME TypeOK, Restart PROVE TypeOK'
  OBVIOUS
<1>1. restarts' \in 0..MaxRestarts
  BY RuleConstants DEF Restart, TypeOK
<1>2. sigs' \in Bundles \cup {Torn}
  BY BaselineType DEF Restart, FilesAtStart, TypeOK
<1> QED
  BY <1>1, <1>2, BaselineType DEF Restart, TypeOK

(* Every step keeps the types, and so does a step that changes nothing. *)
LEMMA TypeStep == TypeOK /\ [Next]_vars => TypeOK'
<1> SUFFICES ASSUME TypeOK, [Next]_vars PROVE TypeOK'
  OBVIOUS
<1>1. CASE UNCHANGED vars
  BY <1>1 DEF vars, persisted, fetcher, supervisor, TypeOK
<1>2. CASE Publish
  <2>1. server' \in Versions
    BY <1>2, RuleConstants DEF Publish, TypeOK, Versions
  <2> QED
    BY <1>2, <2>1 DEF Publish, persisted, fetcher, supervisor, TypeOK
<1>3. ASSUME NEW g \in Loops, LoopFetches(g) PROVE TypeOK'
  BY <1>3, GoroutineNames DEF LoopFetches, Fetch, Goto, persisted, supervisor, TypeOK
<1>4. CASE DetectionStep \/ DetectionEnds
  BY <1>4 DEF DetectionStep, DetectionReads, DetectionRuns, DetectionRestarts,
     DetectionEnds, persisted, fetcher, TypeOK
<1> QED
  BY <1>1, <1>2, <1>3, <1>4, TypeFetch, TypeStartup, TypeRestart DEF Next

(* Configs, bundles and where each goroutine is have their types in every   *)
(* state.                                                                   *)
THEOREM TypeCorrect == Spec => []TypeOK
<1>1. ASSUME Init PROVE TypeOK
  <2>1. restarts \in 0..MaxRestarts
    BY <1>1, RuleConstants DEF Init
  <2>2. /\ pc \in [Goroutines ->
                 {"idle", "apply", "load", "sync", "write", "record", "signal"}]
        /\ got \in [Goroutines -> Versions]
        /\ want \in [Goroutines -> Bundles]
        /\ bundle \in [Goroutines -> Bundles]
    BY <1>1, BaselineType DEF Init
  <2> QED
    BY <1>1, <2>1, <2>2, BaselineType DEF Init, TypeOK
<1> QED
  BY <1>1, TypeStep, PTL DEF Spec

-----------------------------------------------------------------------------
(* Detection's restarts *)

(* The inductive invariant: detection runs only once Run's loops do, so     *)
(* that the signal StartupLoops drops is not one it waits for.              *)
ReloadInv ==
    /\ main # "up" => detection = "off"
    /\ ReloadIsPending

(* Whoever wrote the file goes on to signal it: a step of a goroutine       *)
(* leaves those of the other goroutines as they are.                        *)
LEMMA ReloadFetch == TypeOK /\ ReloadInv /\ (\E g \in Goroutines : FetchStep(g)) => ReloadInv'
<1> SUFFICES ASSUME TypeOK, ReloadInv, NEW g \in Goroutines, FetchStep(g)
             PROVE  ReloadInv'
  OBVIOUS
<1>1. UNCHANGED <<main, detection, loaded>>
  BY DEF FetchStep, Apply, LoadRules, SyncYara, WriteSignatures, RecordApplied, Signal,
     supervisor
<1>2. \A h \in Goroutines \ {g} : pc'[h] = pc[h]
  BY DEF FetchStep, Apply, LoadRules, SyncYara, WriteSignatures, RecordApplied, Signal,
     Goto, TypeOK
<1>3. CASE Signal(g)
  BY <1>1, <1>3 DEF Signal, Nudges, ReloadInv, ReloadIsPending
<1>4. CASE WriteSignatures(g) /\ sigs' \notin {sigs, Torn}
  <2>1. pc'[g] = "record"
    BY <1>4 DEF WriteSignatures, Goto, TypeOK
  <2> QED
    BY <1>1, <2>1 DEF ReloadInv, ReloadIsPending
<1>5. CASE RecordApplied(g)
  <2>1. pc'[g] = "signal"
    BY <1>5 DEF RecordApplied, Goto, TypeOK
  <2> QED
    BY <1>1, <2>1 DEF ReloadInv, ReloadIsPending
<1>6. CASE \/ Apply(g) \/ LoadRules(g) \/ SyncYara(g)
           \/ WriteSignatures(g) /\ sigs' \in {sigs, Torn}
  <2>1. /\ sigs' \in {sigs, Torn} /\ restart' = restart
        /\ pc[g] \notin {"record", "signal"}
    BY <1>6 DEF Apply, LoadRules, SyncYara, WriteSignatures, At, persisted
  <2> QED
    BY <1>1, <1>2, <2>1 DEF ReloadInv, ReloadIsPending
<1> QED
  BY <1>3, <1>4, <1>5, <1>6 DEF FetchStep

(* Every step keeps ReloadInv. *)
LEMMA ReloadStep == TypeOK /\ ReloadInv /\ [Next]_vars => ReloadInv'
<1> SUFFICES ASSUME TypeOK, ReloadInv, [Next]_vars PROVE ReloadInv'
  OBVIOUS
<1> USE DEF ReloadInv, ReloadIsPending
<1>1. CASE UNCHANGED vars \/ Publish
  BY <1>1 DEF vars, Publish, persisted, fetcher, supervisor
<1>2. CASE StartupStep
  <2>1. detection = "off"
    BY <1>2 DEF StartupStep, StartupConfig, StartupYara, StartupLoops
  <2>2. detection' # "running" /\ (main' # "up" => detection' = "off")
    BY <1>2, <2>1 DEF StartupStep, StartupConfig, StartupYara, StartupLoops, supervisor
  <2> QED
    BY <2>2
<1>3. ASSUME NEW g \in Loops, LoopFetches(g) PROVE ReloadInv'
  <2>1. /\ UNCHANGED <<main, detection, loaded, sigs, restart>>
        /\ pc[g] = "idle"
        /\ \A h \in Goroutines \ {g} : pc'[h] = pc[h]
    BY <1>3, GoroutineNames DEF LoopFetches, Fetch, Goto, At, persisted, supervisor, TypeOK
  <2> QED
    BY <2>1
<1>4. CASE DetectionStep \/ DetectionEnds
  BY <1>4 DEF DetectionStep, DetectionReads, DetectionRuns, DetectionRestarts,
     DetectionEnds, persisted
<1>5. CASE Restart
  BY <1>5 DEF Restart
<1> QED
  BY <1>1, <1>2, <1>3, <1>4, <1>5, ReloadFetch DEF Next

(* A bundle written while detection runs with another one is always         *)
(* signalled, or about to be by the goroutine that wrote it.                *)
THEOREM ReloadPending == Spec => []ReloadIsPending
<1>1. Init => ReloadInv
  BY DEF Init, ReloadInv, ReloadIsPending
<1>2. ReloadInv => ReloadIsPending
  BY DEF ReloadInv
<1> QED
  BY <1>1, <1>2, TypeCorrect, ReloadStep, PTL DEF Spec
=============================================================================
