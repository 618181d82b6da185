------------------------- MODULE SelfUpdate_proofs --------------------------
(***************************************************************************)
(* Proofs about SelfUpdate, for any requests, targets and bounds: whose    *)
(* report the identity holds, that progress is resolved by someone, that   *)
(* the agent never goes back to an older version and that a success the    *)
(* server knows of is real, what of a launch is persisted, what a restart  *)
(* reports of it, and that it is not done twice.                           *)
(***************************************************************************)
EXTENDS SelfUpdate, TLAPS

(* The initial identity is an identity. *)
LEMMA FirstIdentityType == FirstIdentity \in Identities /\ NoFetch \in Configs
BY UpdateConstants DEF FirstIdentity, Identities, Configs, NoFetch, Reports, NoReport

(* The fields of an identity have their types, and a report that has a      *)
(* state is about a request.                                                *)
LEMMA IdentityFields ==
    ASSUME NEW id \in Identities
    PROVE  /\ id.config \in Configs /\ id.config.req \in Requests \cup {None}
           /\ id.last \in Requests \cup {None}
           /\ id.pending \in Requests \cup {None}
           /\ id.report \in Reports
           /\ id.report.state \in Progress \cup Finished => id.report.id \in Requests
BY UpdateConstants DEF Identities, Reports, Configs, Progress, Finished, None

(* What the updater makes of an identity is an identity: State.Mutate's     *)
(* callbacks set one or two fields.                                         *)
LEMMA IdentityUpdates ==
    ASSUME NEW id \in Identities
    PROVE  /\ \A c \in Configs : [id EXCEPT !.config = c] \in Identities
           /\ \A r \in Requests \cup {None} : [id EXCEPT !.pending = r] \in Identities
           /\ \A p \in Reports : [id EXCEPT !.report = p] \in Identities
           /\ \A r \in Requests, s \in Finished : Resolved(id, r, s) \in Identities
           /\ \A r \in Requests : [id EXCEPT !.last = r,
                 !.report = [id |-> r, state |-> "downloading"]] \in Identities
BY DEF Identities, Resolved, Reports, Progress, Finished

(* State.Mutate keeps the types, whether the write fails or not, and what   *)
(* is on disk afterwards was there before or is the new identity.           *)
LEMMA MutateType ==
    ASSUME TypeOK, NEW id \in Identities, NEW ok \in BOOLEAN, Mutate(id, ok)
    PROVE  /\ mem' = id /\ disk' \in {disk, id}
           /\ mem' \in Identities /\ disk' \in Identities
           /\ failedSaves' \in 0..MaxFailedSaves
BY UpdateConstants DEF Mutate, TypeOK

(* Where nothing is mutated the identity and its copy stay as they are. *)
LEMMA NoMutateType ==
    ASSUME TypeOK, NoMutate
    PROVE  /\ mem' = mem /\ disk' = disk
           /\ mem' \in Identities /\ disk' \in Identities
           /\ failedSaves' \in 0..MaxFailedSaves
BY DEF NoMutate, TypeOK

(* What finish makes of an identity: nothing pending, and its report. *)
LEMMA ResolvedFields ==
    ASSUME NEW id \in Identities, NEW r \in Requests
    PROVE  /\ \A s \in Finished : Resolved(id, r, s).report = [id |-> r, state |-> s]
           /\ Resolved(id, r, "failed").report.state = "failed"
           /\ \A s \in Finished : Resolved(id, r, s).pending = None
BY DEF Identities, Resolved, Finished

-----------------------------------------------------------------------------
(* What the composed steps do to the identity *)

(* Consider starts an attempt, whose report the identity then holds, or     *)
(* leaves everything as it is.                                              *)
LEMMA ConsiderDoes ==
    ASSUME TypeOK, NEW r \in Requests \cup {None}, Consider(r)
    PROVE  /\ mem' \in Identities /\ disk' \in Identities
           /\ failedSaves' \in 0..MaxFailedSaves
           /\ wentBack' = wentBack
           /\ \/ /\ UNCHANGED <<mem, disk, attempt, attempted, launched>>
              \/ /\ Starts(r) /\ r \in Requests
                 /\ mem' = [mem EXCEPT !.last = r,
                              !.report = [id |-> r, state |-> "downloading"]]
                 /\ disk' \in {disk, mem'}
                 /\ attempt' = [pc |-> "download", id |-> r]
                 /\ attempted' = attempted \cup {r}
                 /\ launched' = None
<1>1. CASE Starts(r)
  <2> DEFINE id == [mem EXCEPT !.last = r,
                               !.report = [id |-> r, state |-> "downloading"]]
  <2>1. r \in Requests
    BY <1>1 DEF Starts
  <2>2. id \in Identities
    BY <2>1, IdentityUpdates DEF TypeOK
  <2>3. PICK ok \in BOOLEAN : Mutate(id, ok)
    BY <1>1 DEF Consider
  <2> HIDE DEF id
  <2>4. mem' = id /\ disk' \in {disk, id} /\ mem' \in Identities
        /\ disk' \in Identities /\ failedSaves' \in 0..MaxFailedSaves
    BY <2>2, <2>3, MutateType
  <2> USE DEF id
  <2> QED
    BY <1>1, <2>1, <2>4 DEF Consider
<1>2. CASE ~Starts(r)
  BY <1>2, NoMutateType DEF Consider, history
<1> QED
  BY <1>1, <1>2

(* CheckPending gives up an overdue update, or does nothing. *)
LEMMA CheckPendingDoes ==
    ASSUME TypeOK, CheckPending
    PROVE  /\ mem' \in Identities /\ disk' \in Identities
           /\ failedSaves' \in 0..MaxFailedSaves
           /\ \/ UNCHANGED <<mem, disk>>
              \/ /\ mem.pending # None /\ overdue /\ mem.pending \in Requests
                 /\ mem' = Resolved(mem, mem.pending, "failed")
                 /\ disk' \in {disk, mem'}
<1>1. CASE mem.pending # None /\ overdue
  <2>1. mem.pending \in Requests
    BY <1>1, IdentityFields DEF TypeOK
  <2>2. Resolved(mem, mem.pending, "failed") \in Identities
    BY <2>1, IdentityUpdates DEF TypeOK, Finished
  <2>3. PICK ok \in BOOLEAN : Mutate(Resolved(mem, mem.pending, "failed"), ok)
    BY <1>1 DEF CheckPending
  <2> QED
    BY <1>1, <2>1, <2>2, <2>3, MutateType
<1>2. CASE ~(mem.pending # None /\ overdue)
  BY <1>2, NoMutateType DEF CheckPending
<1> QED
  BY <1>1, <1>2

(* A config that is applied replaces only the config. *)
LEMMA ApplyDoes ==
    ASSUME TypeOK, NEW c \in Configs, Apply(c)
    PROVE  /\ mem' \in Identities /\ disk' \in Identities
           /\ failedSaves' \in 0..MaxFailedSaves
           /\ UNCHANGED <<attempted, launched>> /\ wentBack' \in BOOLEAN
           /\ \/ UNCHANGED <<mem, disk>>
              \/ mem' = [mem EXCEPT !.config = c] /\ disk' \in {disk, mem'}
<1>1. [mem EXCEPT !.config = c] \in Identities
  BY IdentityUpdates DEF TypeOK
<1>2. UNCHANGED <<attempted, launched>> /\ wentBack' \in BOOLEAN
  BY DEF Apply, TypeOK
<1>3. CASE c.ver # mem.config.ver
  <2>1. PICK ok \in BOOLEAN : Mutate([mem EXCEPT !.config = c], ok)
    BY <1>3 DEF Apply
  <2> QED
    BY <1>1, <1>2, <2>1, MutateType
<1>4. CASE c.ver = mem.config.ver
  BY <1>2, <1>4, NoMutateType DEF Apply
<1> QED
  BY <1>3, <1>4

(* The first fetch of a process replaces the config, or fails. *)
LEMMA StartupConfigDoes ==
    ASSUME TypeOK, StartupConfig
    PROVE  /\ mem' \in Identities /\ disk' \in Identities
           /\ failedSaves' \in 0..MaxFailedSaves
           /\ \/ UNCHANGED <<mem, disk>>
              \/ mem' = [mem EXCEPT !.config = server] /\ disk' \in {disk, mem'}
<1>1. [mem EXCEPT !.config = server] \in Identities
  BY IdentityUpdates DEF TypeOK
<1>2. CASE \E ok \in BOOLEAN : Mutate([mem EXCEPT !.config = server], ok)
  BY <1>1, <1>2, MutateType
<1>3. CASE NoMutate
  BY <1>3, NoMutateType
<1> QED
  BY <1>2, <1>3 DEF StartupConfig

(* Startup resolves the pending update by the version that runs, fails an   *)
(* attempt that was cut short, and leaves any other identity alone.         *)
LEMMA StartupDoes ==
    ASSUME TypeOK, Startup
    PROVE  /\ mem' \in Identities /\ disk' \in Identities
           /\ failedSaves' \in 0..MaxFailedSaves
           /\ disk' \in {disk, mem'}
           /\ \/ /\ mem.pending \in Requests
                 /\ mem' = Resolved(mem, mem.pending, Outcome(cur, Target[mem.pending]))
              \/ /\ mem.report.id \in Requests
                 /\ mem' = Resolved(mem, mem.report.id, "failed")
              \/ /\ mem.pending = None /\ ~Interrupted(mem)
                 /\ UNCHANGED <<mem, disk>>
<1>1. CASE mem.pending # None
  <2> DEFINE o == Outcome(cur, Target[mem.pending])
  <2>1. mem.pending \in Requests /\ o \in Finished
    BY <1>1, IdentityFields DEF TypeOK, Outcome, Finished
  <2>2. Resolved(mem, mem.pending, o) \in Identities
    BY <2>1, IdentityUpdates DEF TypeOK
  <2>3. PICK ok \in BOOLEAN : Mutate(Resolved(mem, mem.pending, o), ok)
    BY <1>1 DEF Startup
  <2> QED
    BY <2>1, <2>2, <2>3, MutateType
<1>2. CASE mem.pending = None /\ Interrupted(mem)
  <2>1. mem.report.id \in Requests
    BY <1>2, IdentityFields DEF TypeOK, Interrupted
  <2>2. Resolved(mem, mem.report.id, "failed") \in Identities
    BY <2>1, IdentityUpdates DEF TypeOK, Finished
  <2>3. PICK ok \in BOOLEAN : Mutate(Resolved(mem, mem.report.id, "failed"), ok)
    BY <1>2 DEF Startup
  <2> QED
    BY <2>1, <2>2, <2>3, MutateType
<1>3. CASE mem.pending = None /\ ~Interrupted(mem)
  BY <1>3, NoMutateType DEF Startup
<1> QED
  BY <1>1, <1>2, <1>3

(* Prune drops a finished report, or does nothing. *)
LEMMA PruneDoes ==
    ASSUME TypeOK, HeartbeatPrunes
    PROVE  /\ mem' \in Identities /\ disk' \in Identities
           /\ failedSaves' \in 0..MaxFailedSaves
           /\ \/ UNCHANGED <<mem, disk>>
              \/ /\ mem.report.state \in Finished /\ Prunable(mem, asking)
                 /\ mem' = [mem EXCEPT !.report = NoReport]
                 /\ disk' \in {disk, mem'}
<1>1. [mem EXCEPT !.report = NoReport] \in Identities
  BY IdentityUpdates DEF TypeOK, Reports, NoReport
<1>2. CASE Prunable(mem, asking)
  <2>1. PICK ok \in BOOLEAN : Mutate([mem EXCEPT !.report = NoReport], ok)
    BY <1>2 DEF HeartbeatPrunes
  <2> QED
    BY <1>1, <1>2, <2>1, MutateType DEF Prunable
<1>3. CASE ~Prunable(mem, asking)
  BY <1>3, NoMutateType DEF HeartbeatPrunes
<1> QED
  BY <1>2, <1>3

(* What the steps of an attempt that mutate the identity do to it. *)
LEMMA AttemptDoes ==
    ASSUME TypeOK, AttemptInstalling \/ AttemptMark \/ AttemptLaunchFails \/ AttemptFails
    PROVE  /\ mem' \in Identities /\ disk' \in Identities
           /\ failedSaves' \in 0..MaxFailedSaves
           /\ disk' \in {disk, mem'}
           /\ attempt.id \in Requests
           /\ AttemptInstalling =>
                mem' = [mem EXCEPT !.report = [id |-> attempt.id, state |-> "installing"]]
           /\ AttemptMark => /\ mem' = [mem EXCEPT !.pending = attempt.id]
                             /\ attempt'.pc = "launch" => disk' = mem'
                             /\ attempt' \in {[attempt EXCEPT !.pc = "launch"],
                                              [attempt EXCEPT !.pc = "fail"]}
           /\ AttemptLaunchFails => mem' = [mem EXCEPT !.pending = None]
           /\ AttemptFails => mem' = Resolved(mem, attempt.id, "failed")
<1> DEFINE report == [id |-> attempt.id, state |-> "installing"]
<1>1. attempt.id \in Requests /\ attempt.id # None
  BY DEF TypeOK, AttemptInstalling, AttemptMark, AttemptLaunchFails, AttemptFails, At
<1>2. report \in Reports /\ "failed" \in Finished
  BY <1>1 DEF Reports, Progress, Finished
<1>3. /\ [mem EXCEPT !.report = report] \in Identities
      /\ [mem EXCEPT !.pending = attempt.id] \in Identities
      /\ [mem EXCEPT !.pending = None] \in Identities
      /\ Resolved(mem, attempt.id, "failed") \in Identities
  BY <1>1, <1>2, IdentityUpdates DEF TypeOK
<1> HIDE DEF report
<1>4. AttemptInstalling => \E ok \in BOOLEAN : Mutate([mem EXCEPT !.report = report], ok)
  BY DEF AttemptInstalling, report
<1>5. AttemptMark =>
        \E ok \in BOOLEAN : /\ Mutate([mem EXCEPT !.pending = attempt.id], ok)
                            /\ attempt' = [attempt EXCEPT !.pc = AfterMark(ok)]
  BY DEF AttemptMark, Goto, AfterMark
<1>6. AttemptLaunchFails => \E ok \in BOOLEAN : Mutate([mem EXCEPT !.pending = None], ok)
  BY DEF AttemptLaunchFails
<1>7. AttemptFails => \E ok \in BOOLEAN : Mutate(Resolved(mem, attempt.id, "failed"), ok)
  BY DEF AttemptFails, Failed
<1>8. CASE AttemptInstalling
  BY <1>1, <1>3, <1>4, <1>8, MutateType DEF report, AttemptInstalling, AttemptMark,
     AttemptLaunchFails, AttemptFails, At
<1>9. CASE AttemptMark
  <2>1. PICK ok \in BOOLEAN : /\ Mutate([mem EXCEPT !.pending = attempt.id], ok)
                              /\ attempt' = [attempt EXCEPT !.pc = AfterMark(ok)]
    BY <1>5, <1>9
  <2>2. /\ attempt' \in {[attempt EXCEPT !.pc = "launch"], [attempt EXCEPT !.pc = "fail"]}
        /\ attempt'.pc = "launch" => disk' = mem'
    BY <2>1 DEF AfterMark, Mutate, TypeOK, Points
  <2>3. At("mark")
    BY <1>9 DEF AttemptMark
  <2> QED
    BY <1>1, <1>3, <2>1, <2>2, <2>3, MutateType DEF AttemptInstalling,
       AttemptLaunchFails, AttemptFails, At
<1>10. CASE AttemptLaunchFails
  BY <1>1, <1>3, <1>6, <1>10, MutateType DEF AttemptInstalling, AttemptMark,
     AttemptLaunchFails, AttemptFails, At
<1>11. CASE AttemptFails
  BY <1>1, <1>3, <1>7, <1>11, MutateType DEF AttemptInstalling, AttemptMark,
     AttemptLaunchFails, AttemptFails, At
<1> QED
  BY <1>8, <1>9, <1>10, <1>11

-----------------------------------------------------------------------------
(* Type correctness *)

(* What the server makes of a heartbeat of an agent is an outcome for each  *)
(* request.                                                                 *)
LEMMA LearnedType ==
    ASSUME TypeOK, NEW version \in Nat, NEW report \in Reports
    PROVE  Learned(version, report) \in [Requests -> {"unknown"} \cup Finished]
BY DEF Learned, TypeOK, Finished

(* The steps of startup keep the types. *)
LEMMA TypeStartup == TypeOK /\ StartupStep => TypeOK'
<1> SUFFICES ASSUME TypeOK, StartupStep PROVE TypeOK'
  OBVIOUS
<1>1. CASE StartupConfig
  <2>1. mem' \in Identities /\ disk' \in Identities /\ failedSaves' \in 0..MaxFailedSaves
    BY <1>1, StartupConfigDoes
  <2> QED
    BY <1>1, <2>1 DEF TypeOK, StartupConfig, beats, asked, history
<1>2. CASE Startup
  <2>1. mem' \in Identities /\ disk' \in Identities /\ failedSaves' \in 0..MaxFailedSaves
    BY <1>2, StartupDoes
  <2> QED
    BY <1>2, <2>1 DEF TypeOK, Startup, beats, asked, history
<1>3. CASE StartupConsider
  <2>1. mem.config.req \in Requests \cup {None} /\ Consider(mem.config.req)
    BY <1>3, IdentityFields DEF TypeOK, StartupConsider
  <2>2. mem' \in Identities /\ disk' \in Identities /\ failedSaves' \in 0..MaxFailedSaves
    BY <2>1, ConsiderDoes
  <2>3. /\ attempt' \in [pc : Points, id : Requests \cup {None}]
        /\ (attempt'.pc = "off") = (attempt'.id = None)
        /\ attempted' \in SUBSET Requests /\ launched' \in Requests \cup {None}
        /\ wentBack' = wentBack
    <3>1. CASE UNCHANGED <<mem, disk, attempt, attempted, launched>>
      BY <2>1, <3>1, ConsiderDoes DEF TypeOK
    <3>2. CASE /\ mem.config.req \in Requests
               /\ attempt' = [pc |-> "download", id |-> mem.config.req]
               /\ attempted' = attempted \cup {mem.config.req}
               /\ launched' = None
      BY <2>1, <3>2, UpdateConstants, ConsiderDoes DEF TypeOK, Points
    <3> QED
      BY <2>1, <3>1, <3>2, ConsiderDoes
  <2> QED
    BY <1>3, <2>2, <2>3 DEF TypeOK, StartupConsider, beats, asked, history
<1> QED
  BY <1>1, <1>2, <1>3 DEF StartupStep

(* The heartbeat and the config poll keep the types. *)
LEMMA TypeBeats ==
    TypeOK /\ (\/ HeartbeatAnswered \/ HeartbeatLost \/ HeartbeatFetches
               \/ HeartbeatFetchFails \/ HeartbeatStep \/ PollFetches \/ PollApplies)
        => TypeOK'
<1> SUFFICES ASSUME TypeOK,
                    \/ HeartbeatAnswered \/ HeartbeatLost \/ HeartbeatFetches
                    \/ HeartbeatFetchFails \/ HeartbeatStep \/ PollFetches \/ PollApplies
             PROVE  TypeOK'
  OBVIOUS
<1>1. CASE HeartbeatAnswered \/ HeartbeatLost
  <2>1. mem' \in Identities /\ disk' \in Identities /\ failedSaves' \in 0..MaxFailedSaves
    BY <1>1, CheckPendingDoes DEF HeartbeatAnswered, HeartbeatLost
  <2>2. mem'.report \in Reports
    BY <2>1, IdentityFields
  <2>3. Learned(cur, mem'.report) \in [Requests -> {"unknown"} \cup Finished]
    BY <2>2, LearnedType DEF TypeOK
  <2>4. outcome' \in [Requests -> {"unknown"} \cup Finished]
    BY <1>1, <2>3 DEF HeartbeatAnswered, HeartbeatLost, TypeOK
  <2>5. hb' \in {"idle", "fetch", "ask"}
    BY <1>1 DEF HeartbeatAnswered, HeartbeatLost, beats
  <2> QED
    BY <1>1, <2>1, <2>4, <2>5 DEF TypeOK, HeartbeatAnswered, HeartbeatLost, beats,
       history
<1>2. CASE HeartbeatFetches \/ HeartbeatFetchFails \/ HeartbeatAsks \/ PollFetches
  <2>1. mem.config.req \in Requests \cup {None}
    BY IdentityFields DEF TypeOK
  <2> QED
    BY <1>2, <2>1 DEF TypeOK, HeartbeatFetches, HeartbeatFetchFails, HeartbeatAsks,
       PollFetches, host, asked, history, counts
<1>3. CASE HeartbeatApplies \/ PollApplies
  <2>1. /\ mem' \in Identities /\ disk' \in Identities
        /\ failedSaves' \in 0..MaxFailedSaves
        /\ UNCHANGED <<attempted, launched>> /\ wentBack' \in BOOLEAN
    BY <1>3, ApplyDoes DEF HeartbeatApplies, PollApplies, TypeOK
  <2> QED
    BY <1>3, <2>1, FirstIdentityType DEF TypeOK, HeartbeatApplies, PollApplies, asked
<1>4. CASE HeartbeatPrunes
  <2>1. mem' \in Identities /\ disk' \in Identities /\ failedSaves' \in 0..MaxFailedSaves
    BY <1>4, PruneDoes
  <2> QED
    BY <1>4, <2>1 DEF TypeOK, HeartbeatPrunes, asked, history
<1>5. CASE HeartbeatConsiders
  <2>1. asking \in Requests \cup {None} /\ Consider(asking)
    BY <1>5 DEF TypeOK, HeartbeatConsiders
  <2>2. mem' \in Identities /\ disk' \in Identities /\ failedSaves' \in 0..MaxFailedSaves
    BY <2>1, ConsiderDoes
  <2>3. /\ attempt' \in [pc : Points, id : Requests \cup {None}]
        /\ (attempt'.pc = "off") = (attempt'.id = None)
        /\ attempted' \in SUBSET Requests /\ launched' \in Requests \cup {None}
        /\ wentBack' = wentBack
    <3>1. CASE UNCHANGED <<mem, disk, attempt, attempted, launched>>
      BY <2>1, <3>1, ConsiderDoes DEF TypeOK
    <3>2. CASE /\ asking \in Requests
               /\ attempt' = [pc |-> "download", id |-> asking]
               /\ attempted' = attempted \cup {asking}
               /\ launched' = None
      BY <2>1, <3>2, UpdateConstants, ConsiderDoes DEF TypeOK, Points
    <3> QED
      BY <2>1, <3>1, <3>2, ConsiderDoes
  <2> QED
    BY <1>5, <2>2, <2>3 DEF TypeOK, HeartbeatConsiders, asked
<1> QED
  BY <1>1, <1>2, <1>3, <1>4, <1>5 DEF HeartbeatStep

(* The steps of an attempt keep the types. *)
LEMMA TypeAttempt == TypeOK /\ AttemptStep => TypeOK'
<1> SUFFICES ASSUME TypeOK, AttemptStep PROVE TypeOK'
  OBVIOUS
<1>1. CASE AttemptDownload
  BY <1>1 DEF TypeOK, AttemptDownload, At, Goto, Idle, Points, host, beats, asked, history, counts
<1>2. CASE AttemptInstalling \/ AttemptMark \/ AttemptLaunchFails \/ AttemptFails
  <2>1. mem' \in Identities /\ disk' \in Identities /\ failedSaves' \in 0..MaxFailedSaves
    BY <1>2, AttemptDoes
  <2>2. /\ attempt' \in [pc : Points, id : Requests \cup {None}]
        /\ (attempt'.pc = "off") = (attempt'.id = None)
    BY <1>2 DEF TypeOK, AttemptInstalling, AttemptMark, AttemptLaunchFails, AttemptFails,
       At, Goto, AfterMark, Idle, Points
  <2> QED
    BY <1>2, <2>1, <2>2 DEF TypeOK, AttemptInstalling, AttemptMark, AttemptLaunchFails,
       AttemptFails, beats, asked, history
<1>3. CASE AttemptSwap
  <2>1. attempt.id \in Requests
    BY <1>3 DEF TypeOK, AttemptSwap, At
  <2>2. Target[attempt.id] \in Nat
    BY <2>1, UpdateConstants
  <2> QED
    BY <1>3, <2>1, <2>2 DEF TypeOK, AttemptSwap, At, Goto, Points, beats, asked, history, counts
<1>4. CASE AttemptLaunch
  <2>1. attempt.id \in Requests /\ attempt.id # None
    BY <1>4 DEF TypeOK, AttemptLaunch, At
  <2> QED
    BY <1>4, <2>1 DEF TypeOK, AttemptLaunch, At, Goto, Idle, Points, beats, asked, history, counts
<1> QED
  BY <1>1, <1>2, <1>3, <1>4 DEF AttemptStep

(* The server, the installer and a new process keep the types. *)
LEMMA TypeOthers ==
    TypeOK /\ (\/ \E r \in Requests : Ask(r)
               \/ Withdraw \/ TimeoutPasses
               \/ InstallerReplaces \/ InstallerFails \/ InstallerRestarts \/ Crash)
        => TypeOK'
<1> SUFFICES ASSUME TypeOK,
                    \/ \E r \in Requests : Ask(r)
                    \/ Withdraw \/ TimeoutPasses
                    \/ InstallerReplaces \/ InstallerFails \/ InstallerRestarts \/ Crash
             PROVE  TypeOK'
  OBVIOUS
<1>1. ASSUME NEW r \in Requests, Ask(r) PROVE TypeOK'
  <2>1. server' \in Configs
    BY <1>1, UpdateConstants DEF Ask, TypeOK, Configs
  <2> QED
    BY <1>1, <2>1 DEF TypeOK, Ask, host, beats, history, counts
<1>2. CASE Withdraw
  <2>1. server' \in Configs
    BY <1>2, UpdateConstants DEF Withdraw, TypeOK, Configs
  <2> QED
    BY <1>2, <2>1 DEF TypeOK, Withdraw, host, beats, history, counts
<1>3. CASE TimeoutPasses
  BY <1>3 DEF TypeOK, TimeoutPasses, host, beats, asked, history, counts
<1>4. CASE InstallerReplaces
  <2>1. installer.id \in Requests
    BY <1>4 DEF TypeOK, InstallerReplaces
  <2>2. Target[installer.id] \in Nat
    BY <2>1, UpdateConstants
  <2> QED
    BY <1>4, <2>1, <2>2 DEF TypeOK, InstallerReplaces, beats, asked, history, counts
<1>5. CASE InstallerFails
  BY <1>5 DEF TypeOK, InstallerFails, Idle, beats, asked, history, counts
<1>6. CASE InstallerRestarts \/ Crash
  <2>1. crashes' \in 0..MaxCrashes
    BY <1>6, UpdateConstants DEF TypeOK, InstallerRestarts, Crash
  <2>2. NewProcess /\ installer' \in {installer, Idle}
    BY <1>6 DEF InstallerRestarts, Crash
  <2>3. /\ Idle \in [pc : {"off", "launched", "replaced"}, id : Requests \cup {None}]
        /\ Idle \in [pc : Points, id : Requests \cup {None}]
        /\ Idle.pc = "off" /\ Idle.id = None
    BY DEF Idle, Points
  <2> QED
    BY <2>1, <2>2, <2>3, FirstIdentityType DEF TypeOK, NewProcess, asked, history
<1> QED
  BY <1>1, <1>2, <1>3, <1>4, <1>5, <1>6

(* Every step keeps the types, and so does a step that changes nothing. *)
LEMMA TypeStep == TypeOK /\ [Next]_vars => TypeOK'
<1>1. ASSUME TypeOK, UNCHANGED vars PROVE TypeOK'
  BY <1>1 DEF TypeOK, vars, host, beats, asked, history, counts
<1> QED
  BY <1>1, TypeStartup, TypeBeats, TypeAttempt, TypeOthers DEF Next

(* The identity in memory and the one on disk, the goroutines and what the  *)
(* server knows have their types in every state.                            *)
THEOREM TypeCorrect == Spec => []TypeOK
<1>1. ASSUME Init PROVE TypeOK
  <2>1. /\ Idle \in [pc : {"off", "launched", "replaced"}, id : Requests \cup {None}]
        /\ Idle \in [pc : Points, id : Requests \cup {None}]
        /\ Idle.pc = "off" /\ Idle.id = None
    BY DEF Idle, Points
  <2>2. outcome \in [Requests -> {"unknown"} \cup Finished]
    BY <1>1 DEF Init
  <2>3. crashes \in 0..MaxCrashes /\ failedSaves \in 0..MaxFailedSaves
    BY <1>1, UpdateConstants DEF Init
  <2> QED
    BY <1>1, <2>1, <2>2, <2>3, UpdateConstants, FirstIdentityType DEF Init, TypeOK
<1> QED
  BY <1>1, TypeStep, PTL DEF Spec

-----------------------------------------------------------------------------
(* Whose the report and the pending marker are *)

(* Where an attempt may be: none runs before Run's loops do, and no         *)
(* heartbeat either.  The identity is not marked before the attempt marks   *)
(* it, it is at the launch, and a marker of an attempt under way is never   *)
(* overdue, so that CheckPending leaves it alone.                           *)
MarkInv ==
    /\ main # "up" => attempt.pc = "off" /\ hb = "idle"
    /\ attempt.pc \in {"download", "install", "swap", "mark"} => mem.pending = None
    /\ attempt.pc = "launch" => mem.pending = attempt.id /\ disk.pending = attempt.id
    /\ attempt.pc # "off" /\ mem.pending # None => ~overdue

(* The inductive invariant: the heartbeat and the attempt both write the    *)
(* identity, and MarkInv is what keeps them apart.                          *)
AttemptInv ==
    /\ MarkInv
    /\ AttemptOwnsReport
    /\ ProgressIsResolvable

(* A step that changes neither the attempt nor, of the identity, the        *)
(* marker and the report, keeps AttemptInv: configs are applied beside an   *)
(* attempt at any time.                                                     *)
LEMMA AttemptKept ==
    ASSUME AttemptInv, UNCHANGED <<attempt, overdue>>,
           mem'.pending = mem.pending, mem'.report = mem.report,
           disk' \in {disk, mem'},
           main' = main \/ (main = "config" /\ main' = "startup"),
           hb' = hb \/ main = "up"
    PROVE  AttemptInv'
BY DEF AttemptInv, MarkInv, AttemptOwnsReport, ProgressIsResolvable

(* An attempt starts where nothing is pending, and the report is its own. *)
LEMMA AttemptBegins ==
    ASSUME TypeOK, AttemptInv, NEW r \in Requests \cup {None}, Consider(r),
           UNCHANGED overdue, main \in {"consider", "up"}, main' = "up"
    PROVE  AttemptInv'
<1>1. CASE UNCHANGED <<mem, disk, attempt, attempted, launched>>
  BY <1>1 DEF AttemptInv, MarkInv, AttemptOwnsReport, ProgressIsResolvable
<1>2. CASE /\ Starts(r) /\ r \in Requests
           /\ mem' = [mem EXCEPT !.last = r,
                        !.report = [id |-> r, state |-> "downloading"]]
           /\ attempt' = [pc |-> "download", id |-> r]
  <2>1. mem'.report = [id |-> r, state |-> "downloading"] /\ mem'.pending = None
    BY <1>2 DEF TypeOK, Identities, Starts, Blocked
  <2>2. attempt'.pc = "download" /\ attempt'.id = r
    BY <1>2
  <2> QED
    BY <2>1, <2>2 DEF AttemptInv, MarkInv, AttemptOwnsReport, ProgressIsResolvable, Progress
<1> QED
  BY <1>1, <1>2, ConsiderDoes

(* Startup resolves what the last process left open, before any attempt. *)
LEMMA AttemptStartup == TypeOK /\ AttemptInv /\ Startup => AttemptInv'
<1> SUFFICES ASSUME TypeOK, AttemptInv, Startup PROVE AttemptInv'
  OBVIOUS
<1>1. attempt.pc = "off" /\ hb = "idle" /\ main = "startup" /\ main' = "consider"
      /\ UNCHANGED <<attempt, overdue, hb>>
  BY DEF Startup, AttemptInv, MarkInv, beats
<1>2. mem'.report.state \notin Progress
  <2>1. ASSUME NEW r, NEW s, s \in Finished, mem' = Resolved(mem, r, s)
        PROVE  mem'.report.state \notin Progress
    BY <2>1 DEF Resolved, TypeOK, Identities, Progress, Finished
  <2>2. CASE mem.pending = None /\ ~Interrupted(mem) /\ mem' = mem
    BY <2>2 DEF Interrupted
  <2>3. Outcome(cur, Target[mem.pending]) \in Finished /\ "failed" \in Finished
    BY DEF Outcome, Finished
  <2> QED
    BY <2>1, <2>2, <2>3, StartupDoes
<1> QED
  BY <1>1, <1>2 DEF AttemptInv, MarkInv, AttemptOwnsReport, ProgressIsResolvable

(* A heartbeat gives up a pending update only once its attempt is over, and *)
(* the report is then a finished one.                                       *)
LEMMA AttemptHeartbeat ==
    TypeOK /\ AttemptInv /\ (HeartbeatAnswered \/ HeartbeatLost) => AttemptInv'
<1> SUFFICES ASSUME TypeOK, AttemptInv, HeartbeatAnswered \/ HeartbeatLost
             PROVE  AttemptInv'
  OBVIOUS
<1>1. CheckPending /\ main = "up" /\ UNCHANGED <<main, attempt, overdue>>
  BY DEF HeartbeatAnswered, HeartbeatLost
<1>2. CASE UNCHANGED <<mem, disk>>
  BY <1>1, <1>2, AttemptKept
<1>3. CASE /\ mem.pending # None /\ overdue
           /\ mem' = Resolved(mem, mem.pending, "failed")
  <2>1. attempt.pc = "off"
    BY <1>3 DEF AttemptInv, MarkInv
  <2>2. mem'.report.state \notin Progress
    BY <1>3 DEF Resolved, TypeOK, Identities, Progress
  <2> QED
    BY <1>1, <2>1, <2>2 DEF AttemptInv, MarkInv, AttemptOwnsReport,
       ProgressIsResolvable
<1> QED
  BY <1>1, <1>2, <1>3, CheckPendingDoes

(* Prune drops finished reports only, and so never that of an attempt. *)
LEMMA AttemptPrune == TypeOK /\ AttemptInv /\ HeartbeatPrunes => AttemptInv'
<1> SUFFICES ASSUME TypeOK, AttemptInv, HeartbeatPrunes PROVE AttemptInv'
  OBVIOUS
<1>1. main = "up" /\ UNCHANGED <<main, attempt, overdue>>
  BY DEF HeartbeatPrunes, AttemptInv, MarkInv
<1>2. CASE UNCHANGED <<mem, disk>>
  BY <1>1, <1>2, AttemptKept
<1>3. CASE mem.report.state \in Finished /\ mem' = [mem EXCEPT !.report = NoReport]
  <2>1. attempt.pc = "off"
    BY <1>3 DEF AttemptInv, AttemptOwnsReport, Finished, Progress
  <2>2. mem'.report.state \notin Progress
    BY <1>3 DEF TypeOK, Identities, NoReport, Progress, None
  <2> QED
    BY <1>1, <2>1, <2>2 DEF AttemptInv, MarkInv, AttemptOwnsReport,
       ProgressIsResolvable
<1> QED
  BY <1>2, <1>3, PruneDoes

(* The steps of the attempt hand the marker on: set on disk before the      *)
(* launch, and dropped only with the attempt's own failure.                 *)
LEMMA AttemptSteps == TypeOK /\ AttemptInv /\ AttemptStep => AttemptInv'
<1> SUFFICES ASSUME TypeOK, AttemptInv, AttemptStep PROVE AttemptInv'
  OBVIOUS
<1> USE DEF AttemptInv, MarkInv, AttemptOwnsReport, ProgressIsResolvable
<1>1. attempt.pc # "off" /\ main = "up" /\ main' = "up"
  BY DEF AttemptStep, AttemptDownload, AttemptInstalling, AttemptSwap, AttemptMark,
     AttemptLaunch, AttemptLaunchFails, AttemptFails, At
<1>2. CASE AttemptDownload \/ AttemptSwap
  <2>1. UNCHANGED <<mem, disk, overdue>> /\ mem.pending = None
    BY <1>2 DEF AttemptDownload, AttemptSwap, At, host
  <2>2. attempt'.pc \in {"fail", "install", "mark"} /\ attempt'.id = attempt.id
    BY <1>2 DEF AttemptDownload, AttemptSwap, At, Goto, TypeOK
  <2> QED
    BY <1>1, <2>1, <2>2
<1>3. CASE AttemptInstalling
  <2>1. mem'.report = [id |-> attempt.id, state |-> "installing"]
        /\ mem'.pending = mem.pending
    BY <1>3, AttemptDoes DEF TypeOK, Identities
  <2>2. attempt'.pc = "swap" /\ attempt'.id = attempt.id /\ mem.pending = None
        /\ UNCHANGED overdue
    BY <1>3 DEF AttemptInstalling, At, Goto, TypeOK
  <2> QED
    BY <1>1, <2>1, <2>2 DEF Progress
<1>4. CASE AttemptMark
  <2>1. mem'.report = mem.report /\ mem'.pending = attempt.id
    BY <1>4, AttemptDoes DEF TypeOK, Identities
  <2>2. /\ attempt'.pc \in {"launch", "fail"} /\ attempt'.id = attempt.id
        /\ attempt'.pc = "launch" => disk' = mem'
    BY <1>4, AttemptDoes DEF TypeOK
  <2>3. overdue' = FALSE
    BY <1>4 DEF AttemptMark
  <2> QED
    BY <1>1, <2>1, <2>2, <2>3
<1>5. CASE AttemptLaunch
  <2>1. UNCHANGED <<mem, disk>> /\ attempt'.pc = "off"
        /\ mem.pending = attempt.id /\ mem.report.id = attempt.id
    BY <1>5 DEF AttemptLaunch, At, Goto, Idle
  <2> QED
    BY <1>1, <2>1
<1>6. CASE AttemptLaunchFails
  <2>1. mem'.report = mem.report /\ mem'.pending = None
    BY <1>6, AttemptDoes DEF TypeOK, Identities
  <2>2. attempt'.pc = "fail" /\ attempt'.id = attempt.id
    BY <1>6 DEF AttemptLaunchFails, Goto, TypeOK
  <2> QED
    BY <1>1, <2>1, <2>2
<1>7. CASE AttemptFails
  <2>1. mem'.report.state \notin Progress
    <3>1. /\ mem' = Resolved(mem, attempt.id, "failed")
          /\ mem \in Identities /\ attempt.id \in Requests
      BY <1>7, AttemptDoes DEF TypeOK
    <3>2. mem'.report.state = "failed"
      BY <3>1, ResolvedFields
    <3> QED
      BY <3>2 DEF Progress
  <2>2. attempt'.pc = "off"
    BY <1>7 DEF AttemptFails, Goto, Idle
  <2> QED
    BY <1>1, <2>1, <2>2
<1> QED
  BY <1>2, <1>3, <1>4, <1>5, <1>6, <1>7 DEF AttemptStep

(* Every step keeps AttemptInv. *)
LEMMA AttemptInvStep == TypeOK /\ AttemptInv /\ [Next]_vars => AttemptInv'
<1> SUFFICES ASSUME TypeOK, AttemptInv, [Next]_vars PROVE AttemptInv'
  OBVIOUS
<1>1. CASE \/ UNCHANGED vars
           \/ \E r \in Requests : Ask(r)
           \/ Withdraw
           \/ HeartbeatFetches \/ HeartbeatFetchFails \/ HeartbeatAsks
           \/ PollFetches \/ InstallerReplaces \/ InstallerFails
  <2>1. UNCHANGED <<mem, disk, main, attempt, overdue>> /\ (hb' = hb \/ main = "up")
    BY <1>1 DEF vars, host, beats, counts, Ask, Withdraw, HeartbeatFetches,
       HeartbeatFetchFails, HeartbeatAsks, PollFetches, InstallerReplaces,
       InstallerFails, AttemptInv, MarkInv
  <2> QED
    BY <2>1, AttemptKept
<1>2. CASE StartupConfig
  <2>1. mem'.pending = mem.pending /\ mem'.report = mem.report /\ disk' \in {disk, mem'}
    BY <1>2, StartupConfigDoes DEF TypeOK, Identities
  <2> QED
    BY <1>2, <2>1, AttemptKept DEF StartupConfig, beats
<1>3. CASE HeartbeatApplies \/ PollApplies
  <2>1. mem'.pending = mem.pending /\ mem'.report = mem.report /\ disk' \in {disk, mem'}
    BY <1>3, ApplyDoes DEF HeartbeatApplies, PollApplies, TypeOK, Identities
  <2>2. UNCHANGED <<main, attempt, overdue>> /\ (hb' = hb \/ main = "up")
    BY <1>3 DEF HeartbeatApplies, PollApplies, AttemptInv, MarkInv
  <2> QED
    BY <2>1, <2>2, AttemptKept
<1>4. CASE StartupConsider \/ HeartbeatConsiders
  <2>1. mem.config.req \in Requests \cup {None} /\ asking \in Requests \cup {None}
    BY IdentityFields DEF TypeOK
  <2>2. main \in {"consider", "up"} /\ main' = "up"
    BY <1>4 DEF StartupConsider, HeartbeatConsiders, AttemptInv, MarkInv
  <2> QED
    BY <1>4, <2>1, <2>2, AttemptBegins DEF StartupConsider, HeartbeatConsiders
<1>5. CASE TimeoutPasses
  BY <1>5 DEF TimeoutPasses, host, beats, AttemptInv, MarkInv, AttemptOwnsReport,
     ProgressIsResolvable
<1>6. CASE InstallerRestarts \/ Crash
  BY <1>6 DEF InstallerRestarts, Crash, NewProcess, Idle, AttemptInv, MarkInv,
     AttemptOwnsReport, ProgressIsResolvable
<1> QED
  BY <1>1, <1>2, <1>3, <1>4, <1>5, <1>6, AttemptStartup, AttemptHeartbeat, AttemptPrune,
     AttemptSteps DEF Next, StartupStep, HeartbeatStep

(* AttemptInv holds in every state. *)
LEMMA AttemptInvariant == Spec => []AttemptInv
<1>1. Init => AttemptInv
  BY DEF Init, Idle, AttemptInv, MarkInv, AttemptOwnsReport, ProgressIsResolvable
<1> QED
  BY <1>1, TypeCorrect, AttemptInvStep, PTL DEF Spec

(* The report in memory is the running attempt's, and no one else's update  *)
(* is pending: CheckPending, Prune and Startup never touch it.              *)
THEOREM ReportIsAttempts == Spec => []AttemptOwnsReport
BY AttemptInvariant, PTL DEF AttemptInv

(* A report of progress always has an attempt or a pending marker that will *)
(* resolve it, through every failed write and restart.                      *)
THEOREM ProgressResolvable == Spec => []ProgressIsResolvable
BY AttemptInvariant, PTL DEF AttemptInv

-----------------------------------------------------------------------------
(* What runs *)

(* An archive is swapped by the attempt itself: its installer has nothing   *)
(* to replace.                                                              *)
ArchiveInv == method = "archive" => installer.pc # "launched"

(* ArchiveInv holds in every state, as no step changes the method. *)
LEMMA ArchiveInvariant == Spec => []ArchiveInv
<1>1. Init => ArchiveInv
  BY DEF Init, Idle, ArchiveInv
<1>2. ASSUME TypeOK, ArchiveInv, [Next]_vars PROVE ArchiveInv'
  <2>1. CASE AttemptLaunch
    BY <1>2, <2>1 DEF AttemptLaunch, ArchiveInv, TypeOK
  <2>2. CASE InstallerReplaces \/ InstallerFails \/ InstallerRestarts \/ Crash
    BY <1>2, <2>2 DEF InstallerReplaces, InstallerFails, InstallerRestarts, Crash,
       NewProcess, Idle, ArchiveInv, TypeOK
  <2>3. CASE ~(\/ AttemptLaunch \/ InstallerReplaces \/ InstallerFails
               \/ InstallerRestarts \/ Crash)
    <3>1. UNCHANGED <<method, installer>>
      BY <1>2, <2>3 DEF Next, vars, host, Ask, Withdraw, StartupStep, StartupConfig,
         Startup, StartupConsider, HeartbeatAnswered, HeartbeatLost, HeartbeatFetches,
         HeartbeatFetchFails, HeartbeatStep, HeartbeatApplies, HeartbeatAsks,
         HeartbeatPrunes, HeartbeatConsiders, PollFetches, PollApplies, AttemptStep,
         AttemptDownload, AttemptInstalling, AttemptSwap, AttemptMark,
         AttemptLaunchFails, AttemptFails, TimeoutPasses
    <3> QED
      BY <1>2, <3>1 DEF ArchiveInv
  <2> QED
    BY <2>1, <2>2, <2>3
<1> QED
  BY <1>1, <1>2, TypeCorrect, PTL DEF Spec

(* The inductive invariant about versions, on hosts that refuse an older    *)
(* package or swap the program: what is installed is what runs or a newer   *)
(* version, an attempt past CheckTarget goes forward, and a success in      *)
(* memory, on disk or at the server is of a version that was reached: the   *)
(* report survives the process that resolved it.                            *)
VersionInv ==
    /\ installed >= cur
    /\ attempt.pc \in {"install", "swap"} => Target[attempt.id] > cur
    /\ mem.report.state = "succeeded" => cur >= Target[mem.report.id]
    /\ disk.report.state = "succeeded" => cur >= Target[disk.report.id]
    /\ \A r \in Requests : outcome[r] = "succeeded" => cur >= Target[r]

(* A step of one process, which leaves the server and the installed program *)
(* alone and reports no new success, keeps VersionInv.                      *)
LEMMA VersionKept ==
    ASSUME VersionInv, UNCHANGED <<cur, installed, outcome>>,
           mem'.report = mem.report \/ mem'.report.state # "succeeded",
           disk' \in {disk, mem'},
           attempt'.pc \in {"install", "swap"} =>
               /\ attempt.pc \in {"install", "swap"}
               /\ attempt'.id = attempt.id
    PROVE  VersionInv'
BY DEF VersionInv

(* What a heartbeat makes the server believe is true: it runs the target    *)
(* already, or the report in memory is of a success.                        *)
LEMMA VersionHeartbeat ==
    TypeOK /\ VersionInv /\ (HeartbeatAnswered \/ HeartbeatLost) => VersionInv'
<1> SUFFICES ASSUME TypeOK, VersionInv, HeartbeatAnswered \/ HeartbeatLost
             PROVE  VersionInv'
  OBVIOUS
<1>1. CheckPending /\ UNCHANGED <<cur, installed, attempt>>
      /\ outcome' \in {outcome, Learned(cur, mem'.report)}
  BY DEF HeartbeatAnswered, HeartbeatLost
<1>2. disk' \in {disk, mem'}
      /\ (mem'.report = mem.report \/ mem'.report.state # "succeeded")
  <2>1. mem \in Identities
    BY DEF TypeOK
  <2>2. CASE UNCHANGED <<mem, disk>>
    BY <2>2
  <2>3. CASE /\ mem' = Resolved(mem, mem.pending, "failed")
             /\ mem.pending \in Requests /\ disk' \in {disk, mem'}
    <3>1. mem'.report.state = "failed"
      BY <2>1, <2>3, ResolvedFields
    <3> QED
      BY <2>3, <3>1
  <2> QED
    BY <1>1, <2>2, <2>3, CheckPendingDoes
<1>3. mem'.report.state = "succeeded" => cur >= Target[mem'.report.id]
  BY <1>2 DEF VersionInv
<1>4. ASSUME NEW r \in Requests, outcome'[r] = "succeeded" PROVE cur >= Target[r]
  <2>1. CASE outcome'[r] = outcome[r]
    BY <1>4, <2>1 DEF VersionInv
  <2>2. CASE outcome'[r] # outcome[r]
    <3>1. outcome' = Learned(cur, mem'.report)
      BY <1>1, <2>2
    <3>2. \/ cur >= Target[server.req] /\ r = server.req
          \/ mem'.report = [id |-> r, state |-> "succeeded"]
      BY <1>4, <2>2, <3>1 DEF Learned, TypeOK
    <3> QED
      BY <1>3, <3>2
  <2> QED
    BY <2>1, <2>2
<1> QED
  BY <1>1, <1>2, <1>3, <1>4 DEF VersionInv

(* Startup reports a success only of the version that runs. *)
LEMMA VersionStartup == TypeOK /\ VersionInv /\ Startup => VersionInv'
<1> SUFFICES ASSUME TypeOK, VersionInv, Startup PROVE VersionInv'
  OBVIOUS
<1>1. UNCHANGED <<cur, installed, attempt, outcome>> /\ cur \in Nat
  BY DEF Startup, TypeOK, asked
<1>2. disk' \in {disk, mem'}
  BY StartupDoes
<1>3. mem'.report.state = "succeeded" => cur >= Target[mem'.report.id]
  <2>1. CASE /\ mem.pending \in Requests
             /\ mem' = Resolved(mem, mem.pending, Outcome(cur, Target[mem.pending]))
    <3>1. mem'.report = [id |-> mem.pending,
                         state |-> Outcome(cur, Target[mem.pending])]
      BY <2>1 DEF Resolved, TypeOK, Identities
    <3>2. mem'.report.state = "succeeded" => cur = Target[mem.pending]
      BY <3>1 DEF Outcome
    <3> QED
      BY <1>1, <3>1, <3>2
  <2>2. CASE mem' = Resolved(mem, mem.report.id, "failed")
    BY <2>2 DEF Resolved, TypeOK, Identities
  <2>3. CASE mem' = mem
    BY <2>3 DEF VersionInv
  <2> QED
    BY <2>1, <2>2, <2>3, StartupDoes
<1> QED
  BY <1>1, <1>2, <1>3 DEF VersionInv

(* An attempt installs only what CheckTarget found to be newer. *)
LEMMA VersionAttempt == TypeOK /\ VersionInv /\ AttemptStep => VersionInv'
<1> SUFFICES ASSUME TypeOK, VersionInv, AttemptStep PROVE VersionInv'
  OBVIOUS
<1>1. CASE AttemptDownload
  <2>1. UNCHANGED <<cur, installed, outcome, mem, disk>>
    BY <1>1 DEF AttemptDownload, host, asked
  <2>2. attempt'.pc \in {"install", "swap"} => Target[attempt'.id] > cur
    BY <1>1 DEF AttemptDownload, Accepts, Goto, TypeOK
  <2> QED
    BY <2>1, <2>2 DEF VersionInv
<1>2. CASE AttemptInstalling \/ AttemptMark \/ AttemptLaunchFails \/ AttemptFails
  <2>1. disk' \in {disk, mem'}
    BY <1>2, AttemptDoes
  <2>4. mem'.report = mem.report \/ mem'.report.state # "succeeded"
    <3>1. CASE AttemptInstalling
      BY <3>1, AttemptDoes DEF TypeOK, Identities
    <3>2. CASE AttemptMark \/ AttemptLaunchFails
      BY <3>2, AttemptDoes DEF TypeOK, Identities
    <3>3. CASE AttemptFails
      <4>1. /\ mem' = Resolved(mem, attempt.id, "failed")
            /\ mem \in Identities /\ attempt.id \in Requests
        BY <3>3, AttemptDoes DEF TypeOK
      <4>2. mem'.report.state = "failed"
        BY <4>1, ResolvedFields
      <4> QED
        BY <4>2
    <3> QED
      BY <1>2, <3>1, <3>2, <3>3
  <2>2. UNCHANGED <<cur, installed, outcome>>
    BY <1>2 DEF AttemptInstalling, AttemptMark, AttemptLaunchFails, AttemptFails, asked
  <2>3. attempt'.pc \in {"install", "swap"} =>
            attempt.pc = "install" /\ attempt'.id = attempt.id
    BY <1>2 DEF AttemptInstalling, AttemptMark, AttemptLaunchFails, AttemptFails,
       At, Goto, AfterMark, Idle, TypeOK
  <2> QED
    BY <2>1, <2>2, <2>3, <2>4, VersionKept
<1>3. CASE AttemptSwap
  <2>1. UNCHANGED <<cur, outcome, mem, disk>> /\ attempt'.pc \in {"fail", "mark"}
    BY <1>3 DEF AttemptSwap, Goto, asked, TypeOK
  <2>2. attempt.id \in Requests /\ cur \in Nat /\ Target[attempt.id] > cur
        /\ installed' \in {installed, Target[attempt.id]}
    BY <1>3 DEF AttemptSwap, At, TypeOK, VersionInv
  <2>3. installed' >= cur
    BY <2>2, UpdateConstants DEF VersionInv
  <2> QED
    BY <2>1, <2>3 DEF VersionInv
<1>4. CASE AttemptLaunch
  <2>1. UNCHANGED <<cur, installed, outcome, mem, disk>> /\ attempt'.pc = "off"
    BY <1>4 DEF AttemptLaunch, Goto, Idle, asked
  <2> QED
    BY <2>1, VersionKept
<1> QED
  BY <1>1, <1>2, <1>3, <1>4 DEF AttemptStep

(* A new process runs what is installed, which is no older: every success   *)
(* of the last one still is one.                                            *)
LEMMA VersionNewProcess == TypeOK /\ VersionInv /\ NewProcess => VersionInv'
<1> SUFFICES ASSUME TypeOK, VersionInv, NewProcess PROVE VersionInv'
  OBVIOUS
<1>1. cur \in Nat /\ cur' \in Nat /\ cur' >= cur /\ installed' = cur'
      /\ attempt'.pc = "off" /\ mem' = disk /\ disk' = disk /\ outcome' = outcome
  BY DEF NewProcess, TypeOK, VersionInv, Idle, asked
<1>2. disk.report.state = "succeeded" =>
          disk.report.id \in Requests /\ Target[disk.report.id] \in Nat
  BY IdentityFields, UpdateConstants DEF TypeOK, Finished
<1>3. disk.report.state = "succeeded" => cur' >= Target[disk.report.id]
  BY <1>1, <1>2 DEF VersionInv
<1>4. ASSUME NEW r \in Requests, outcome[r] = "succeeded" PROVE cur' >= Target[r]
  BY <1>1, <1>4, UpdateConstants DEF VersionInv
<1> QED
  BY <1>1, <1>3, <1>4 DEF VersionInv

(* Every step keeps VersionInv, and none makes the version that runs older. *)
LEMMA VersionStep ==
    ASSUME TypeOK, ArchiveInv, VersionInv, [Next]_vars, method # "install"
    PROVE  VersionInv' /\ cur' >= cur
<1>1. CASE InstallerRestarts \/ Crash
  <2>1. NewProcess
    BY <1>1 DEF InstallerRestarts, Crash
  <2> QED
    BY <2>1, VersionNewProcess DEF NewProcess, VersionInv, TypeOK
<1>2. CASE ~(InstallerRestarts \/ Crash)
  <2>1. cur' = cur /\ cur >= cur
    BY <1>2 DEF Next, vars, Ask, Withdraw, StartupStep, StartupConfig, Startup,
       StartupConsider, HeartbeatAnswered, HeartbeatLost, HeartbeatFetches,
       HeartbeatFetchFails, HeartbeatStep, HeartbeatApplies, HeartbeatAsks,
       HeartbeatPrunes, HeartbeatConsiders, PollFetches, PollApplies, AttemptStep, AttemptDownload,
       AttemptInstalling, AttemptSwap, AttemptMark, AttemptLaunch, AttemptLaunchFails,
       AttemptFails, TimeoutPasses, InstallerReplaces, InstallerFails, TypeOK
  <2>2. CASE \/ UNCHANGED vars
             \/ \E r \in Requests : Ask(r)
             \/ Withdraw \/ HeartbeatFetches \/ HeartbeatFetchFails \/ HeartbeatAsks
             \/ PollFetches \/ TimeoutPasses \/ InstallerFails
    <3>1. UNCHANGED <<cur, installed, outcome, mem, disk, attempt>>
      BY <2>2 DEF vars, host, asked, Ask, Withdraw, HeartbeatFetches,
         HeartbeatFetchFails, HeartbeatAsks, PollFetches, TimeoutPasses,
         InstallerFails
    <3> QED
      BY <2>1, <3>1, VersionKept
  <2>3. CASE StartupConfig \/ HeartbeatApplies \/ PollApplies \/ HeartbeatPrunes
    <3>1. /\ disk' \in {disk, mem'}
          /\ mem'.report = mem.report \/ mem'.report.state # "succeeded"
      BY <2>3, StartupConfigDoes, ApplyDoes, PruneDoes DEF HeartbeatApplies,
         PollApplies, TypeOK, Identities, NoReport, None
    <3>2. UNCHANGED <<cur, installed, outcome, attempt>>
      BY <2>3 DEF StartupConfig, HeartbeatApplies, PollApplies, HeartbeatPrunes, asked
    <3> QED
      BY <2>1, <3>1, <3>2, VersionKept
  <2>4. CASE StartupConsider \/ HeartbeatConsiders
    <3>1. \E r \in Requests \cup {None} : Consider(r)
      BY <2>4, IdentityFields DEF TypeOK, StartupConsider, HeartbeatConsiders
    <3>2. UNCHANGED <<cur, installed, outcome>>
      BY <2>4 DEF StartupConsider, HeartbeatConsiders, asked
    <3>3. /\ disk' \in {disk, mem'}
          /\ mem'.report = mem.report \/ mem'.report.state # "succeeded"
          /\ attempt' = attempt \/ attempt'.pc = "download"
      <4>1. CASE UNCHANGED <<mem, disk, attempt, attempted, launched>>
        BY <4>1
      <4>2. ASSUME NEW r \in Requests, disk' \in {disk, mem'},
                   mem' = [mem EXCEPT !.last = r,
                             !.report = [id |-> r, state |-> "downloading"]],
                   attempt' = [pc |-> "download", id |-> r]
            PROVE  /\ disk' \in {disk, mem'}
                   /\ mem'.report.state # "succeeded"
                   /\ attempt'.pc = "download"
        BY <4>2 DEF TypeOK, Identities
      <4> QED
        BY <3>1, <4>1, <4>2, ConsiderDoes
    <3> QED
      BY <2>1, <3>2, <3>3, VersionKept
  <2>5. CASE InstallerReplaces
    <3>1. installer.id \in Requests /\ installed' = Target[installer.id]
          /\ Target[installer.id] >= installed
      BY <2>5 DEF InstallerReplaces, ArchiveInv, TypeOK, Methods
    <3>2. UNCHANGED <<cur, outcome, mem, disk, attempt>>
      BY <2>5 DEF InstallerReplaces, asked
    <3>3. installed' >= cur
      BY <3>1, UpdateConstants DEF VersionInv, TypeOK
    <3> QED
      BY <2>1, <3>2, <3>3 DEF VersionInv
  <2> QED
    BY <1>2, <2>1, <2>2, <2>3, <2>4, <2>5, VersionHeartbeat, VersionStartup,
       VersionAttempt DEF Next, StartupStep, HeartbeatStep
<1> QED
  BY <1>1, <1>2

(* The install method never changes. *)
LEMMA MethodStays == [Next]_vars => method' = method
BY DEF Next, vars, host, Ask, Withdraw, StartupStep, StartupConfig, Startup,
   StartupConsider, HeartbeatAnswered, HeartbeatLost, HeartbeatFetches,
   HeartbeatFetchFails, HeartbeatStep, HeartbeatApplies, HeartbeatAsks,
   HeartbeatPrunes, HeartbeatConsiders, PollFetches, PollApplies, AttemptStep,
   AttemptDownload, AttemptInstalling, AttemptSwap, AttemptMark, AttemptLaunch,
   AttemptLaunchFails, AttemptFails, TimeoutPasses, InstallerReplaces, InstallerFails,
   InstallerRestarts, Crash, NewProcess

(* VersionInv holds in every state of such a host. *)
LEMMA VersionInvariant == Spec => [](method # "install" => VersionInv)
<1>1. Init => VersionInv
  BY UpdateConstants DEF Init, FirstIdentity, NoReport, None, Idle, VersionInv
<1>2. ASSUME TypeOK, ArchiveInv, method # "install" => VersionInv, [Next]_vars
      PROVE  (method # "install" => VersionInv)'
  BY <1>2, VersionStep, MethodStays
<1> QED
  BY <1>1, <1>2, TypeCorrect, ArchiveInvariant, PTL DEF Spec

(* What the server was told succeeded is what runs, or a newer version runs *)
(* by now, where an installer refuses an older package or the attempt swaps *)
(* the program: reports come from disk after restarts, and there versions   *)
(* only grow.                                                               *)
THEOREM SuccessReal == Spec => []SuccessIsReal
<1>1. (method # "install" => VersionInv) => SuccessIsReal
  BY DEF VersionInv, SuccessIsReal
<1> QED
  BY <1>1, VersionInvariant, PTL

(* On the same hosts the version that runs never goes back, whatever        *)
(* requests, late installers, crashes and restarts there are.               *)
THEOREM NoDowngrade == Spec => NeverDowngraded
<1>1. ASSUME TypeOK, ArchiveInv, method # "install" => VersionInv, [Next]_vars
      PROVE  [method # "install" => cur' >= cur]_vars
  BY <1>1, VersionStep
<1> QED
  BY <1>1, TypeCorrect, ArchiveInvariant, VersionInvariant, PTL DEF Spec, NeverDowngraded

-----------------------------------------------------------------------------
(* What of a launched update is persisted *)

(* What an identity says of the pending update and of the one launched      *)
(* last: the marker goes with its request's report of progress, as both are *)
(* resolved in one write; and the update launched last is the last request  *)
(* acted on, its report is there unless it was pruned, and its marker as    *)
(* long as the report is one of progress.                                   *)
Accounted(id) ==
    /\ id.pending # None => id.report.id = id.pending /\ id.report.state \in Progress
    /\ launched # None =>
           /\ id.last = launched
           /\ id.report.id \in {launched, None}
           /\ id.report.state \in Progress => id.pending = launched

(* The inductive invariant about launches: they are accounted for in memory *)
(* and on disk, from the launch on in both.                                 *)
LaunchInv ==
    /\ Accounted(mem) /\ Accounted(disk)
    /\ attempt.pc # "off" => launched = None /\ mem.last = attempt.id
    /\ attempt.pc = "launch" => disk.last = attempt.id
    /\ LaunchIsPersisted

(* A step of a process that goes on, beside its attempt, keeps LaunchInv if *)
(* the identity it leaves is accounted for and a report of progress is not  *)
(* new.                                                                     *)
LEMMA LaunchKept ==
    ASSUME LaunchInv, UNCHANGED <<attempt, launched>>,
           disk' \in {disk, mem'}, Accounted(mem'),
           mem'.report.state \in Progress => mem.report = mem'.report,
           attempt.pc # "off" => /\ mem'.last = mem.last
                                 /\ mem'.pending = mem.pending,
           attempt.pc = "launch" => mem.pending = attempt.id
    PROVE  LaunchInv'
<1>1. Accounted(mem)' /\ Accounted(disk)'
  BY DEF LaunchInv, Accounted
<1>2. attempt.pc = "launch" => disk'.last = attempt.id /\ disk'.pending = attempt.id
  BY DEF LaunchInv, LaunchIsPersisted
<1>3. Unresolved' => disk'.pending = launched
  BY DEF Unresolved, LaunchInv, LaunchIsPersisted, Accounted
<1> QED
  BY <1>1, <1>2, <1>3 DEF LaunchInv, LaunchIsPersisted

(* What is resolved is accounted for, and keeps the report's request. *)
LEMMA ResolvedAccounted ==
    ASSUME TypeOK, Accounted(mem), NEW s \in Finished,
           NEW r \in {mem.pending, mem.report.id}, r \in Requests
    PROVE  /\ Accounted(Resolved(mem, r, s))
           /\ Resolved(mem, r, s).report.state \notin Progress
           /\ Resolved(mem, r, s).report.id = mem.report.id
<1>1. /\ Resolved(mem, r, s).report = [id |-> r, state |-> s]
      /\ Resolved(mem, r, s).pending = None
      /\ Resolved(mem, r, s).last = mem.last
  BY DEF Resolved, TypeOK, Identities
<1>2. s \notin Progress /\ r # None /\ r = mem.report.id
  BY UpdateConstants DEF Accounted, Finished, Progress
<1> QED
  BY <1>1, <1>2 DEF Accounted

(* A config that is applied changes nothing that LaunchInv speaks of. *)
LEMMA LaunchConfig ==
    TypeOK /\ AttemptInv /\ LaunchInv /\ (StartupConfig \/ HeartbeatApplies \/ PollApplies)
        => LaunchInv'
<1> SUFFICES ASSUME TypeOK, AttemptInv, LaunchInv,
                    StartupConfig \/ HeartbeatApplies \/ PollApplies
             PROVE  LaunchInv'
  OBVIOUS
<1>1. /\ disk' \in {disk, mem'} /\ UNCHANGED <<attempt, launched>>
      /\ mem'.pending = mem.pending /\ mem'.report = mem.report /\ mem'.last = mem.last
  BY StartupConfigDoes, ApplyDoes DEF StartupConfig, HeartbeatApplies, PollApplies,
     history, TypeOK, Identities
<1>2. Accounted(mem')
  BY <1>1 DEF LaunchInv, Accounted
<1> QED
  BY <1>1, <1>2, LaunchKept DEF AttemptInv, MarkInv

(* Startup and CheckPending resolve, and Prune drops what was resolved: no  *)
(* attempt is under way, except that Prune and CheckPending do nothing then. *)
LEMMA LaunchResolves ==
    TypeOK /\ AttemptInv /\ LaunchInv
        /\ (Startup \/ HeartbeatAnswered \/ HeartbeatLost \/ HeartbeatPrunes) => LaunchInv'
<1> SUFFICES ASSUME TypeOK, AttemptInv, LaunchInv,
                    Startup \/ HeartbeatAnswered \/ HeartbeatLost \/ HeartbeatPrunes
             PROVE  LaunchInv'
  OBVIOUS
<1>1. UNCHANGED <<attempt, launched>> /\ Accounted(mem)
  BY DEF Startup, HeartbeatAnswered, HeartbeatLost, HeartbeatPrunes, history, LaunchInv
<1>2. attempt.pc = "launch" => mem.pending = attempt.id
  BY DEF AttemptInv, MarkInv
<1>3. CASE UNCHANGED <<mem, disk>>
  BY <1>1, <1>2, <1>3, LaunchKept
<1>4. ASSUME NEW r \in {mem.pending, mem.report.id}, r \in Requests, NEW s \in Finished,
             mem' = Resolved(mem, r, s), disk' \in {disk, mem'}, attempt.pc = "off"
      PROVE  LaunchInv'
  <2>1. Accounted(mem') /\ mem'.report.state \notin Progress
    BY <1>1, <1>4, ResolvedAccounted
  <2> QED
    BY <1>1, <1>2, <1>4, <2>1, LaunchKept
<1>5. "failed" \in Finished /\ Outcome(cur, Target[mem.pending]) \in Finished
  BY DEF Outcome, Finished
<1>6. CASE Startup
  <2>1. attempt.pc = "off"
    BY <1>6 DEF Startup, AttemptInv, MarkInv
  <2> QED
    BY <1>3, <1>4, <1>5, <1>6, <2>1, StartupDoes
<1>7. CASE HeartbeatAnswered \/ HeartbeatLost
  <2>1. mem.pending # None /\ overdue => attempt.pc = "off"
    BY DEF AttemptInv, MarkInv
  <2>2. CheckPending
    BY <1>7 DEF HeartbeatAnswered, HeartbeatLost
  <2> QED
    BY <1>3, <1>4, <1>5, <2>1, <2>2, CheckPendingDoes
<1>8. CASE HeartbeatPrunes
  <2>1. CASE /\ mem.report.state \in Finished
             /\ mem' = [mem EXCEPT !.report = NoReport] /\ disk' \in {disk, mem'}
    <3>1. attempt.pc = "off"
      BY <2>1 DEF AttemptInv, AttemptOwnsReport, Finished, Progress
    <3>2. /\ mem'.report = NoReport /\ mem'.last = mem.last /\ mem'.pending = mem.pending
          /\ mem.pending = None
      BY <1>1, <2>1 DEF TypeOK, Identities, Accounted, Finished, Progress
    <3>3. Accounted(mem') /\ mem'.report.state \notin Progress
      BY <1>1, <3>2 DEF Accounted, NoReport, Progress, None
    <3> QED
      BY <1>1, <1>2, <2>1, <3>1, <3>3, LaunchKept
  <2> QED
    BY <1>3, <1>8, <2>1, PruneDoes
<1> QED
  BY <1>6, <1>7, <1>8

(* An attempt that starts closes the account of the one before it. *)
LEMMA LaunchConsider ==
    ASSUME TypeOK, AttemptInv, LaunchInv, NEW r \in Requests \cup {None}, Consider(r)
    PROVE  LaunchInv'
<1>1. CASE UNCHANGED <<mem, disk, attempt, attempted, launched>>
  BY <1>1 DEF LaunchInv, LaunchIsPersisted, Accounted, Unresolved
<1>2. CASE /\ Starts(r) /\ r \in Requests
           /\ mem' = [mem EXCEPT !.last = r,
                        !.report = [id |-> r, state |-> "downloading"]]
           /\ disk' \in {disk, mem'}
           /\ attempt' = [pc |-> "download", id |-> r]
           /\ launched' = None
  <2>1. mem'.last = r /\ mem'.pending = None
    BY <1>2 DEF TypeOK, Identities, Starts, Blocked
  <2>2. Accounted(mem)' /\ Accounted(disk)'
    BY <1>2, <2>1 DEF LaunchInv, Accounted
  <2> QED
    BY <1>2, <2>1, <2>2 DEF LaunchInv, LaunchIsPersisted, Unresolved
<1> QED
  BY <1>1, <1>2, ConsiderDoes

(* The attempt keeps its request the last one in memory, has the identity   *)
(* with its marker on disk before the launch, and opens its account there.  *)
LEMMA LaunchAttempt == TypeOK /\ AttemptInv /\ LaunchInv /\ AttemptStep => LaunchInv'
<1> SUFFICES ASSUME TypeOK, AttemptInv, LaunchInv, AttemptStep PROVE LaunchInv'
  OBVIOUS
<1>1. /\ attempt.pc # "off" /\ launched = None /\ mem.last = attempt.id
      /\ mem.report.id = attempt.id /\ mem.report.state \in Progress
      /\ attempt.id \in Requests /\ attempt.id # None
  BY DEF AttemptStep, AttemptDownload, AttemptInstalling, AttemptSwap, AttemptMark,
     AttemptLaunch, AttemptLaunchFails, AttemptFails, At, LaunchInv, AttemptInv,
     AttemptOwnsReport, TypeOK
<1>2. CASE AttemptDownload \/ AttemptSwap
  <2>1. UNCHANGED <<mem, disk, launched>>
    BY <1>2 DEF AttemptDownload, AttemptSwap, host, history
  <2>2. attempt'.pc \in {"fail", "install", "mark"} /\ attempt'.id = attempt.id
    BY <1>2 DEF AttemptDownload, AttemptSwap, At, Goto, TypeOK
  <2> QED
    BY <1>1, <2>1, <2>2 DEF LaunchInv, LaunchIsPersisted, Accounted, Unresolved
<1>3. CASE AttemptInstalling \/ AttemptMark \/ AttemptLaunchFails \/ AttemptFails
  <2>1. /\ disk' \in {disk, mem'} /\ mem'.last = mem.last
        /\ mem'.pending # None =>
             mem'.report.id = mem'.pending /\ mem'.report.state \in Progress
    <3>1. CASE AttemptInstalling
      <4>1. /\ mem'.report = [id |-> attempt.id, state |-> "installing"]
            /\ mem'.last = mem.last /\ mem'.pending = None /\ disk' \in {disk, mem'}
        BY <3>1, AttemptDoes DEF TypeOK, Identities, AttemptInstalling, At, AttemptInv,
           MarkInv
      <4> QED
        BY <4>1
    <3>2. CASE AttemptMark
      BY <1>1, <3>2, AttemptDoes DEF TypeOK, Identities
    <3>3. CASE AttemptLaunchFails
      BY <1>1, <3>3, AttemptDoes DEF TypeOK, Identities
    <3>4. CASE AttemptFails
      <4>1. mem' = Resolved(mem, attempt.id, "failed") /\ disk' \in {disk, mem'}
        BY <3>4, AttemptDoes
      <4> QED
        BY <4>1 DEF Resolved, TypeOK, Identities
    <3> QED
      BY <1>3, <3>1, <3>2, <3>3, <3>4
  <2>2. /\ launched' = launched
        /\ attempt'.pc # "off" => attempt'.id = attempt.id
        /\ attempt'.pc = "launch" => disk' = mem' /\ mem'.pending = attempt.id
    <3>1. launched' = launched
      BY <1>3 DEF AttemptInstalling, AttemptMark, AttemptLaunchFails, AttemptFails,
         history
    <3>2. attempt'.pc # "off" => attempt'.id = attempt.id
      BY <1>3 DEF AttemptInstalling, AttemptMark, AttemptLaunchFails, AttemptFails,
         Goto, Idle, AfterMark, TypeOK
    <3>3. attempt'.pc = "launch" => AttemptMark
      BY <1>3 DEF AttemptInstalling, AttemptLaunchFails, AttemptFails, Goto, Idle, TypeOK
    <3>4. AttemptMark => /\ attempt'.pc = "launch" => disk' = mem'
                         /\ mem'.pending = attempt.id
      BY AttemptDoes DEF TypeOK, Identities
    <3> QED
      BY <3>1, <3>2, <3>3, <3>4
  <2>3. Accounted(mem)' /\ Accounted(disk)'
    BY <1>1, <2>1, <2>2 DEF LaunchInv, Accounted
  <2> QED
    BY <1>1, <2>1, <2>2, <2>3 DEF LaunchInv, LaunchIsPersisted, Unresolved
<1>4. CASE AttemptLaunch
  <2>1. /\ UNCHANGED <<mem, disk>> /\ attempt'.pc = "off" /\ launched' = attempt.id
        /\ attempt.pc = "launch"
    BY <1>4 DEF AttemptLaunch, At, Goto, Idle
  <2>2. /\ mem.pending = attempt.id /\ disk.pending = attempt.id
        /\ disk.last = attempt.id /\ disk.report.id = attempt.id
    BY <1>1, <2>1 DEF AttemptInv, MarkInv, LaunchInv, Accounted
  <2>3. Accounted(mem)' /\ Accounted(disk)'
    BY <1>1, <2>1, <2>2 DEF LaunchInv, Accounted
  <2> QED
    BY <2>1, <2>2, <2>3 DEF LaunchInv, LaunchIsPersisted
<1> QED
  BY <1>2, <1>3, <1>4 DEF AttemptStep

(* Every step keeps LaunchInv; a new process has the identity from disk,    *)
(* where the launch is accounted for as well.                               *)
LEMMA LaunchStep == TypeOK /\ AttemptInv /\ LaunchInv /\ [Next]_vars => LaunchInv'
<1> SUFFICES ASSUME TypeOK, AttemptInv, LaunchInv, [Next]_vars PROVE LaunchInv'
  OBVIOUS
<1>1. CASE \/ UNCHANGED vars \/ \E r \in Requests : Ask(r)
           \/ Withdraw \/ HeartbeatFetches \/ HeartbeatFetchFails \/ HeartbeatAsks
           \/ PollFetches \/ TimeoutPasses \/ InstallerReplaces \/ InstallerFails
  <2>1. UNCHANGED <<mem, disk, attempt, launched>>
    BY <1>1 DEF vars, host, history, Ask, Withdraw, HeartbeatFetches,
       HeartbeatFetchFails, HeartbeatAsks, PollFetches, TimeoutPasses,
       InstallerReplaces, InstallerFails
  <2> QED
    BY <2>1 DEF LaunchInv, LaunchIsPersisted, Accounted, Unresolved
<1>2. CASE StartupConsider \/ HeartbeatConsiders
  <2>1. \E r \in Requests \cup {None} : Consider(r)
    BY <1>2, IdentityFields DEF TypeOK, StartupConsider, HeartbeatConsiders
  <2> QED
    BY <2>1, LaunchConsider
<1>3. CASE InstallerRestarts \/ Crash
  <2>1. mem' = disk /\ disk' = disk /\ attempt'.pc = "off" /\ launched' = launched
    BY <1>3 DEF InstallerRestarts, Crash, NewProcess, Idle, history
  <2>2. Accounted(mem)' /\ Accounted(disk)'
    BY <2>1 DEF LaunchInv, Accounted
  <2>3. Unresolved' => disk'.pending = launched'
    BY <2>1, <2>2 DEF Unresolved, Accounted
  <2> QED
    BY <2>1, <2>2, <2>3 DEF LaunchInv, LaunchIsPersisted
<1> QED
  BY <1>1, <1>2, <1>3, LaunchConfig, LaunchResolves, LaunchAttempt
     DEF Next, StartupStep, HeartbeatStep

(* LaunchInv holds in every state. *)
LEMMA LaunchInvariant == Spec => []LaunchInv
<1>1. Init => LaunchInv
  BY DEF Init, Idle, FirstIdentity, NoReport, LaunchInv, LaunchIsPersisted, Unresolved,
     Accounted
<1> QED
  BY <1>1, TypeCorrect, AttemptInvariant, LaunchStep, PTL DEF Spec

(* From the launch of an installer until the outcome of its update is in    *)
(* memory, the marker is on disk: no config, report, failed write, crash or *)
(* restart in between takes it away.                                        *)
THEOREM LaunchPersisted == Spec => []LaunchIsPersisted
BY LaunchInvariant, PTL DEF LaunchInv

-----------------------------------------------------------------------------
(* What a restart does about a launched update *)

(* Only Startup takes a process on from there. *)
LEMMA OnlyStartup ==
    ASSUME AttemptInv, [Next]_vars, main = "startup", main' = "consider"
    PROVE  Startup
BY DEF AttemptInv, MarkInv, Next, vars, Ask, Withdraw, StartupStep, StartupConfig,
   StartupConsider, HeartbeatAnswered, HeartbeatLost, HeartbeatFetches,
   HeartbeatFetchFails, HeartbeatStep, HeartbeatApplies, HeartbeatAsks,
   HeartbeatPrunes, HeartbeatConsiders, PollFetches, PollApplies, AttemptStep,
   AttemptDownload, AttemptInstalling, AttemptSwap, AttemptMark, AttemptLaunch,
   AttemptLaunchFails, AttemptFails, TimeoutPasses, InstallerReplaces, InstallerFails,
   InstallerRestarts, Crash, NewProcess

(* A process that starts while a launched update has no outcome finds the   *)
(* update's marker, and reports a success exactly if it runs the target.    *)
THEOREM RestartsReportOutcome == Spec => RestartReportsOutcome
<1> DEFINE report == [id |-> launched,
                      state |-> IF cur = Target[launched] THEN "succeeded" ELSE "failed"]
<1>1. ASSUME TypeOK, AttemptInv, LaunchInv, [Next]_vars,
             Unresolved, main = "startup", main' = "consider"
      PROVE  mem'.report = report
  <2>1. mem.pending = launched /\ mem.pending # None
    BY <1>1 DEF Unresolved, LaunchInv, Accounted
  <2>2. mem' = Resolved(mem, mem.pending, Outcome(cur, Target[mem.pending]))
    BY <1>1, <2>1, OnlyStartup DEF Startup, Mutate
  <2> QED
    BY <1>1, <2>1, <2>2 DEF Resolved, Outcome, TypeOK, Identities
<1>2. ASSUME TypeOK, AttemptInv, LaunchInv, [Next]_vars
      PROVE  [Unresolved /\ main = "startup" /\ main' = "consider"
                 => mem'.report = report]_vars
  BY <1>1, <1>2
<1> QED
  BY <1>2, TypeCorrect, AttemptInvariant, LaunchInvariant, PTL
     DEF Spec, RestartReportsOutcome

(* An attempt starts only by Consider. *)
LEMMA OnlyConsider ==
    ASSUME TypeOK, [Next]_vars, NEW r \in Requests, Begins(r)
    PROVE  Starts(r)
<1>1. attempt.pc = "off" /\ attempt'.pc = "download"
  BY DEF Begins
<1>2. StartupConsider \/ HeartbeatConsiders
  BY <1>1 DEF Next, vars, Ask, Withdraw, StartupStep, StartupConfig,
     Startup, HeartbeatAnswered, HeartbeatLost, HeartbeatFetches,
     HeartbeatFetchFails, HeartbeatStep, HeartbeatApplies, HeartbeatAsks,
     HeartbeatPrunes, PollFetches, PollApplies, AttemptStep, AttemptDownload,
     AttemptInstalling, AttemptSwap, AttemptMark, AttemptLaunch, AttemptLaunchFails,
     AttemptFails, At, TimeoutPasses, InstallerReplaces, InstallerFails,
     InstallerRestarts, Crash, NewProcess, Idle
<1>3. PICK q \in Requests \cup {None} : Consider(q)
  BY <1>2, IdentityFields DEF TypeOK, StartupConsider, HeartbeatConsiders
<1>4. Starts(q) /\ attempt' = [pc |-> "download", id |-> q]
  BY <1>1, <1>3 DEF Consider
<1> QED
  BY <1>4 DEF Begins

(* A request that was launched is the last one acted on, in every process   *)
(* from then on, and so is not attempted again before another one is.       *)
THEOREM LaunchesAreOnce == Spec => LaunchedOnce
<1>1. ASSUME TypeOK, LaunchInv, [Next]_vars, NEW r \in Requests, launched = r
      PROVE  ~Begins(r)
  <2>1. mem.last = r
    BY <1>1, UpdateConstants DEF LaunchInv, Accounted
  <2> QED
    BY <1>1, <2>1, OnlyConsider DEF Starts, Seen
<1>2. ASSUME TypeOK, LaunchInv, [Next]_vars
      PROVE  [\A r \in Requests : launched = r => ~Begins(r)]_vars
  BY <1>1, <1>2
<1> QED
  BY <1>2, TypeCorrect, LaunchInvariant, PTL DEF Spec, LaunchedOnce

-----------------------------------------------------------------------------
(* The report that the server asks for *)

(* An identity that asks for r and has a report on r. *)
On(id, r) == id.config.req = r /\ id.report.id = r

(* What the agent does about r while it is settled leaves it settled: a     *)
(* report is resolved under its own request, an attempt that starts is for  *)
(* r, and Prune has r as the active request.                                *)
LEMMA SettledMutates ==
    ASSUME TypeOK, AttemptInv, LaunchInv, NEW r \in Requests, Settled(r),
           server'.req = r, [Next]_vars
    PROVE  On(mem', r) /\ On(disk', r)
<1>1. /\ mem \in Identities /\ On(mem, r) /\ On(disk, r) /\ r # None
      /\ mem.pending # None => mem.pending = r
      /\ attempt.pc # "off" => attempt.id = r
  BY UpdateConstants DEF Settled, On, TypeOK, LaunchInv, Accounted, AttemptInv,
     AttemptOwnsReport
<1>2. ASSUME On(mem', r), disk' \in {disk, mem'}
      PROVE  On(mem', r) /\ On(disk', r)
  BY <1>1, <1>2
<1>3. ASSUME UNCHANGED <<mem, disk>>
      PROVE  On(mem', r) /\ On(disk', r)
  BY <1>1, <1>3
<1>4. ASSUME NEW s \in Finished, mem' = Resolved(mem, r, s)
      PROVE  On(mem', r)
  BY <1>1, <1>4 DEF Resolved, On, Identities
<1>5. "failed" \in Finished /\ Outcome(cur, Target[mem.pending]) \in Finished
  BY DEF Outcome, Finished
<1>6. CASE StartupConfig
  <2>1. CASE mem' = [mem EXCEPT !.config = server] /\ disk' \in {disk, mem'}
    BY <1>1, <1>2, <2>1 DEF Settled, On, Identities
  <2> QED
    BY <1>3, <1>6, <2>1, StartupConfigDoes
<1>7. CASE HeartbeatApplies \/ PollApplies
  <2>1. PICK c \in Configs : Apply(c) /\ c.req = r
    BY <1>7 DEF HeartbeatApplies, PollApplies, Settled, TypeOK
  <2>2. CASE mem' = [mem EXCEPT !.config = c] /\ disk' \in {disk, mem'}
    BY <1>1, <1>2, <2>1, <2>2 DEF On, Identities
  <2> QED
    BY <1>3, <2>1, <2>2, ApplyDoes
<1>8. CASE StartupConsider \/ HeartbeatConsiders
  <2>1. Consider(r)
    BY <1>8 DEF StartupConsider, HeartbeatConsiders, Settled
  <2>2. CASE /\ mem' = [mem EXCEPT !.last = r,
                          !.report = [id |-> r, state |-> "downloading"]]
             /\ disk' \in {disk, mem'}
    BY <1>1, <1>2, <2>2 DEF On, Identities
  <2> QED
    BY <1>3, <2>1, <2>2, ConsiderDoes
<1>9. CASE Startup
  <2>1. CASE /\ mem.pending \in Requests
             /\ mem' = Resolved(mem, mem.pending, Outcome(cur, Target[mem.pending]))
    BY <1>1, <1>2, <1>4, <1>5, <1>9, <2>1, StartupDoes, UpdateConstants
  <2>2. CASE mem' = Resolved(mem, mem.report.id, "failed")
    BY <1>1, <1>2, <1>4, <1>5, <1>9, <2>2, StartupDoes DEF On
  <2> QED
    BY <1>3, <1>9, <2>1, <2>2, StartupDoes
<1>10. CASE HeartbeatAnswered \/ HeartbeatLost
  <2>1. CheckPending
    BY <1>10 DEF HeartbeatAnswered, HeartbeatLost
  <2>2. CASE /\ mem.pending # None
             /\ mem' = Resolved(mem, mem.pending, "failed") /\ disk' \in {disk, mem'}
    BY <1>1, <1>2, <1>4, <1>5, <2>2
  <2> QED
    BY <1>3, <2>1, <2>2, CheckPendingDoes
<1>11. CASE HeartbeatPrunes
  <2>1. ~Prunable(mem, asking)
    BY <1>1, <1>11 DEF HeartbeatPrunes, Prunable, Settled, On
  <2> QED
    BY <1>3, <1>11, <2>1, PruneDoes
<1>12. CASE AttemptInstalling \/ AttemptMark \/ AttemptLaunchFails \/ AttemptFails
  <2>1. attempt.id = r /\ disk' \in {disk, mem'}
    BY <1>1, <1>12, AttemptDoes, UpdateConstants DEF TypeOK
  <2>2. CASE AttemptInstalling \/ AttemptMark \/ AttemptLaunchFails
    BY <1>1, <1>2, <2>1, <2>2, AttemptDoes DEF On, Identities
  <2>3. CASE AttemptFails
    BY <1>2, <1>4, <1>5, <2>1, <2>3, AttemptDoes
  <2> QED
    BY <1>12, <2>2, <2>3
<1>13. CASE InstallerRestarts \/ Crash
  BY <1>1, <1>13 DEF InstallerRestarts, Crash, NewProcess
<1>14. CASE \/ UNCHANGED vars \/ \E q \in Requests : Ask(q)
            \/ Withdraw \/ HeartbeatFetches \/ HeartbeatFetchFails \/ HeartbeatAsks
            \/ PollFetches \/ TimeoutPasses \/ InstallerReplaces \/ InstallerFails
            \/ AttemptDownload \/ AttemptSwap \/ AttemptLaunch
  BY <1>3, <1>14 DEF vars, host, Ask, Withdraw, HeartbeatFetches, HeartbeatFetchFails,
     HeartbeatAsks, PollFetches, TimeoutPasses, InstallerReplaces, InstallerFails,
     AttemptDownload, AttemptSwap, AttemptLaunch
<1> QED
  BY <1>6, <1>7, <1>8, <1>9, <1>10, <1>11, <1>12, <1>13, <1>14
     DEF Next, StartupStep, HeartbeatStep, AttemptStep

(* What the goroutines fetch and read meanwhile is about r as well. *)
LEMMA SettledReads ==
    ASSUME TypeOK, NEW r \in Requests, Settled(r), server'.req = r, [Next]_vars
    PROVE  /\ hb' = "apply" => fetched'.req = r
           /\ hb' \in {"prune", "consider"} => asking' = r
           /\ poll' = "apply" => polled'.req = r
<1>1. CASE \/ HeartbeatFetches \/ HeartbeatFetchFails \/ HeartbeatAsks
           \/ HeartbeatApplies \/ HeartbeatPrunes \/ HeartbeatConsiders
           \/ PollFetches \/ PollApplies \/ HeartbeatAnswered
  BY <1>1 DEF HeartbeatFetches, HeartbeatFetchFails, HeartbeatAsks, HeartbeatApplies,
     HeartbeatPrunes, HeartbeatConsiders, PollFetches, PollApplies, HeartbeatAnswered,
     Settled
<1>2. CASE InstallerRestarts \/ Crash
  BY <1>2 DEF InstallerRestarts, Crash, NewProcess
<1>3. CASE ~(\/ HeartbeatFetches \/ HeartbeatFetchFails \/ HeartbeatAsks
             \/ HeartbeatApplies \/ HeartbeatPrunes \/ HeartbeatConsiders
             \/ PollFetches \/ PollApplies \/ HeartbeatAnswered
             \/ InstallerRestarts \/ Crash)
  <2>1. UNCHANGED beats
    BY <1>3 DEF Next, vars, Ask, Withdraw, StartupStep, StartupConfig, Startup,
       StartupConsider, HeartbeatLost, HeartbeatStep, AttemptStep, AttemptDownload,
       AttemptInstalling, AttemptSwap, AttemptMark, AttemptLaunch, AttemptLaunchFails,
       AttemptFails, TimeoutPasses, InstallerReplaces, InstallerFails
  <2> QED
    BY <2>1 DEF beats, Settled
<1> QED
  BY <1>1, <1>2, <1>3

(* Once the agent and its file have the config that asks for a request and  *)
(* a report on it, and no goroutine works with another request, the report  *)
(* stays as long as the server asks for it.                                 *)
THEOREM ReportsAreKept == Spec => ReportKept
<1>1. ASSUME TypeOK, AttemptInv, LaunchInv, [Next]_vars,
             NEW r \in Requests, Settled(r), server'.req = r
      PROVE  Settled(r)'
  BY <1>1, SettledMutates, SettledReads DEF Settled, On
<1>2. ASSUME TypeOK, AttemptInv, LaunchInv, [Next]_vars
      PROVE  [\A r \in Requests : Settled(r) /\ server'.req = r => Settled(r)']_vars
  BY <1>1, <1>2
<1> QED
  BY <1>2, TypeCorrect, AttemptInvariant, LaunchInvariant, PTL DEF Spec, ReportKept
=============================================================================
