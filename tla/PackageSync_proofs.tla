------------------------- MODULE PackageSync_proofs -------------------------
(***************************************************************************)
(* Proofs about Enrollment and the package reports that share its files,   *)
(* for any tokens, any package databases and any number of failed writes,  *)
(* lost answers, stops and crashes: an agent keeps the identity that it    *)
(* was told.  Host_proofs states them of HostSpec, which the runs check.   *)
(***************************************************************************)
EXTENDS PackageSync, TLAPS

(* What each phase of the service knows of the identity: none is on disk    *)
(* while it enrolls, and the one it works with is the one on disk, if any,  *)
(* from the save on, so that no save, and no report that is persisted,      *)
(* replaces the identity of another agent.                                  *)
IdentityInPhase ==
    /\ phase \in {"enrolling", "saving"} => disk.agent = NoToken
    /\ phase \in {"clearing", "running"} => disk.agent \in {NoToken, identity.agent}
    /\ phase \in {"saving", "clearing", "running"} => identity.agent \in answered
    /\ disk.agent \in answered \cup {NoToken}

(* The inductive invariant.  The types are part of it: an agent that is     *)
(* given up was answered because it is the one of the phase.                *)
IdentityInv == ReportsTypeOK /\ IdentityInPhase /\ IdentityOutlivesToken

(* The identities *)
Identities == IdentityType(SUBSET Sources)

LEMMA NoIdentityType == NoIdentity \in Identities /\ NoIdentity.agent = NoToken
BY DEF NoIdentity, Identities, IdentityType

LEMMA NewType == ASSUME NEW t \in Tokens PROVE New(t) \in Identities /\ New(t).agent = t
BY DEF New, NoIdentity, Identities, IdentityType

(* A fault is counted within its bound.                                     *)
LEMMA FaultType == ASSUME faults \in 0..MaxFaults, Fault PROVE faults' \in 0..MaxFaults
BY EnrollmentConstants DEF Fault

(* A write that goes through, is refused, or is cut short: no other agent's *)
(* identity is on disk then, and this one is unless there was a fault.      *)
LEMMA WritesIdentity ==
    ASSUME NEW id \in Identities, disk \in Identities, torn \in BOOLEAN,
           faults \in 0..MaxFaults,
           disk.agent \in {NoToken, id.agent}, Writes(id)
    PROVE  /\ disk' \in Identities /\ torn' \in BOOLEAN /\ faults' \in 0..MaxFaults
           /\ disk'.agent \in {NoToken, id.agent}
           /\ faults' = faults => disk'.agent = id.agent
<1>1. CASE disk' = id /\ torn' = FALSE /\ UNCHANGED faults
  BY <1>1
<1>2. CASE Fault /\ (UNCHANGED <<disk, torn>> \/ (disk' = NoIdentity /\ torn' = TRUE))
  <2>1. faults' \in 0..MaxFaults /\ faults' # faults
    BY <1>2, FaultType DEF Fault
  <2> QED
    BY <1>2, <2>1, NoIdentityType
<1> QED
  BY <1>1, <1>2 DEF Writes

(* In a state of the invariant, what the two kinds of write start from      *)
LEMMA WriteStarts ==
    ASSUME IdentityInv, phase \in {"saving", "running"}
    PROVE  /\ disk.agent \in {NoToken, identity.agent}
           /\ identity \in Identities /\ disk \in Identities
           /\ torn \in BOOLEAN /\ faults \in 0..MaxFaults
           /\ identity.agent \in answered
           /\ \A t \in answered \ givenUp : t = identity.agent
<1>1. \A t \in answered : t # NoToken
  BY EnrollmentConstants DEF IdentityInv, ReportsTypeOK, EnrollTypeOK
<1> QED
  BY <1>1 DEF IdentityInv, IdentityInPhase, IdentityOutlivesToken, ReportsTypeOK,
     EnrollTypeOK, Identities

-----------------------------------------------------------------------------
(* Enrollment *)

(* The operator changes agent.json, and removes a file that is torn.        *)
LEMMA OperatorKeeps ==
    ASSUME IdentityInv, NEW t \in Tokens, Configure(t) \/ Repair(t), UNCHANGED packageVars
    PROVE  IdentityInv'
<1>1. /\ UNCHANGED <<disk, process, enrolled, faults, packageVars>>
      /\ settings' = t /\ torn' \in {torn, FALSE}
  BY DEF Configure, Repair
<1> QED
  BY <1>1 DEF IdentityInv, ReportsTypeOK, EnrollTypeOK, IdentityInPhase,
     IdentityOutlivesToken, process, enrolled, packageVars

(* Load: the identity of the process is the one on disk, if any.            *)
LEMMA ConfiguredKeeps ==
    ASSUME IdentityInv, Configured, UNCHANGED packageVars PROVE IdentityInv'
<1> USE DEF IdentityInv, Configured, files, enrolled, packageVars
<1>1. /\ token' \in Tokens \cup {NoToken}
      /\ identity' = disk /\ creds' = disk.agent
      /\ phase' \in {"running", "enrolling"}
      /\ disk \in Identities
      /\ report.pc = "none"
  BY DEF Loads, ReportsTypeOK, EnrollTypeOK, Identities
<1>2. disk.agent \in Tokens \cup {NoToken}
  BY <1>1 DEF Identities, IdentityType
<1>3. ReportsTypeOK'
  BY <1>1, <1>2 DEF ReportsTypeOK, EnrollTypeOK, Identities
<1>4. IdentityInPhase' /\ IdentityOutlivesToken'
  BY <1>1 DEF IdentityInPhase, IdentityOutlivesToken, Enrolled
<1> QED
  BY <1>3, <1>4

(* The server makes a new agent of a token; one that the process is told of *)
(* was nobody's before.                                                     *)
LEMMA EnrollKeeps ==
    ASSUME IdentityInv, Enroll, UNCHANGED packageVars PROVE IdentityInv'
<1> USE DEF IdentityInv, Enroll, files, packageVars
<1>1. /\ token \in Tokens /\ token \notin answered
      /\ report.pc = "none" /\ disk.agent = NoToken
  BY DEF ReportsTypeOK, EnrollTypeOK, IdentityInPhase
<1>2. faults' \in 0..MaxFaults
  BY FaultType DEF ReportsTypeOK, EnrollTypeOK
<1>3. New(token) \in Identities /\ New(token).agent = token
  BY <1>1, NewType
<1>4. answered \ givenUp = {}
  BY <1>1, EnrollmentConstants DEF ReportsTypeOK, EnrollTypeOK, IdentityOutlivesToken
<1>5. CASE UNCHANGED <<answered, identity, phase>>
  <2>1. ReportsTypeOK'
    BY <1>1, <1>2, <1>5 DEF ReportsTypeOK, EnrollTypeOK
  <2> QED
    BY <2>1, <1>1, <1>4, <1>5 DEF IdentityInPhase, IdentityOutlivesToken
<1>6. CASE /\ answered' = answered \cup {token}
           /\ identity' = New(token)
           /\ phase' = "saving"
  <2>1. ReportsTypeOK'
    BY <1>1, <1>2, <1>3, <1>6 DEF ReportsTypeOK, EnrollTypeOK, Identities
  <2> QED
    BY <2>1, <1>1, <1>3, <1>4, <1>6 DEF IdentityInPhase, IdentityOutlivesToken
<1> QED
  BY <1>5, <1>6

(* The save puts the identity on disk, or gives it up.                      *)
LEMMA SaveKeeps ==
    ASSUME IdentityInv, Save, UNCHANGED packageVars PROVE IdentityInv'
<1> USE DEF IdentityInv, Save, packageVars
<1>1. /\ disk.agent = NoToken /\ identity \in Identities /\ disk \in Identities
      /\ torn \in BOOLEAN /\ faults \in 0..MaxFaults
      /\ identity.agent \in answered /\ report.pc = "none"
      /\ \A t \in answered \ givenUp : t = identity.agent
  BY WriteStarts DEF ReportsTypeOK, IdentityInPhase
<1>2. /\ disk' \in Identities /\ torn' \in BOOLEAN /\ faults' \in 0..MaxFaults
      /\ disk'.agent \in {NoToken, identity.agent}
      /\ givenUp' \in {givenUp, givenUp \cup {identity.agent}}
      /\ disk'.agent = identity.agent \/ identity.agent \in givenUp'
  BY <1>1, WritesIdentity DEF Written
<1>3. \/ phase' = "clearing"
      \/ phase' = "enrolling" /\ faults' # faults
  BY DEF AfterSave, Written
<1>4. phase' = "enrolling" => disk'.agent = NoToken
  <2>1. CASE disk' = identity /\ UNCHANGED faults
    BY <2>1, <1>3
  <2>2. CASE disk' = disk \/ disk' = NoIdentity
    BY <2>2, <1>1, NoIdentityType
  <2> QED
    BY <2>1, <2>2 DEF Writes
<1>5. ReportsTypeOK'
  BY <1>1, <1>2, <1>3 DEF ReportsTypeOK, EnrollTypeOK, Identities
<1>6. IdentityInPhase' /\ IdentityOutlivesToken'
  BY <1>1, <1>2, <1>3, <1>4 DEF IdentityInPhase, IdentityOutlivesToken
<1> QED
  BY <1>5, <1>6

(* The token is cleared, and the loops of Run start as the agent that the   *)
(* process was told it is.                                                  *)
LEMMA ClearTokenKeeps ==
    ASSUME IdentityInv, ClearToken, UNCHANGED packageVars PROVE IdentityInv'
<1> USE DEF IdentityInv, ClearToken, enrolled, packageVars
<1>1. faults' \in 0..MaxFaults /\ settings' \in {settings, NoToken, "torn"}
  BY FaultType DEF WritesSettings, ReportsTypeOK, EnrollTypeOK
<1>2. identity.agent \in answered /\ identity.agent \in Tokens \cup {NoToken}
  BY DEF IdentityInPhase, ReportsTypeOK, EnrollTypeOK, IdentityType
<1>3. ReportsTypeOK'
  BY <1>1, <1>2 DEF ReportsTypeOK, EnrollTypeOK
<1>4. IdentityInPhase' /\ IdentityOutlivesToken'
  BY <1>2 DEF IdentityInPhase, IdentityOutlivesToken
<1> QED
  BY <1>3, <1>4

(* Every step of the enrollment keeps the invariant.                        *)
LEMMA EnrollmentKeeps ==
    ASSUME IdentityInv, EnrollStep, UNCHANGED packageVars PROVE IdentityInv'
<1>1. CASE Start
  BY <1>1 DEF Start, files, enrolled, packageVars, IdentityInv, ReportsTypeOK,
     EnrollTypeOK, IdentityInPhase, IdentityOutlivesToken
<1> QED
  BY <1>1, OperatorKeeps, ConfiguredKeeps, EnrollKeeps, SaveKeeps, ClearTokenKeeps
     DEF EnrollStep

(* A stop or a crash gives up the identity that is not on disk, and no      *)
(* other.                                                                   *)
LEMMA EndsKeeps ==
    ASSUME IdentityInv, Ends, report' = NoReport, unsupported' = FALSE,
           UNCHANGED <<installed, lists, route, hostChanges>>
    PROVE  IdentityInv'
<1> USE DEF IdentityInv, Ends, files
<1>1. faults' \in 0..MaxFaults
  BY FaultType DEF ReportsTypeOK, EnrollTypeOK
<1>2. /\ Unsaved => identity.agent \in answered
      /\ \A t \in answered \ givenUp' : disk.agent = t
  BY DEF IdentityInPhase, IdentityOutlivesToken, Unsaved
<1>3. NoReport \in [pc : {"none", "post", "accepted"}, list : SUBSET Sources, full : BOOLEAN]
      /\ NoReport.pc = "none"
  BY DEF NoReport
<1>4. ReportsTypeOK'
  BY <1>1, <1>2, <1>3, NoIdentityType DEF ReportsTypeOK, EnrollTypeOK, Identities
<1>5. IdentityInPhase' /\ IdentityOutlivesToken'
  BY <1>2 DEF IdentityInPhase, IdentityOutlivesToken
<1> QED
  BY <1>4, <1>5

-----------------------------------------------------------------------------
(* Reports of packages *)

ReportType == [pc : {"none", "post", "accepted"}, list : SUBSET Sources, full : BOOLEAN]

LEMMA NoReportType == NoReport \in ReportType /\ NoReport.pc = "none"
BY DEF NoReport, ReportType

(* Steps that leave the enrollment, but for a fault, alone                  *)
LEMMA ReportOnly ==
    ASSUME IdentityInv, UNCHANGED <<files, process, enrolled>>,
           faults' \in 0..MaxFaults, installed' \subseteq Sources,
           report' \in ReportType, report'.pc # "none" => phase = "running",
           {unsupported', route'} \subseteq BOOLEAN,
           lists' \in [Tokens -> SUBSET Sources],
           hostChanges' \in 0..MaxHostChanges
    PROVE  IdentityInv'
BY DEF IdentityInv, ReportsTypeOK, EnrollTypeOK, IdentityInPhase, IdentityOutlivesToken,
   files, process, enrolled, ReportType

(* What ReportOnly asks for, before the step                                *)
LEMMA ReportTypes ==
    ASSUME IdentityInv
    PROVE  /\ faults \in 0..MaxFaults /\ installed \subseteq Sources
           /\ report \in ReportType /\ (report.pc # "none" => phase = "running")
           /\ {unsupported, route} \subseteq BOOLEAN
           /\ lists \in [Tokens -> SUBSET Sources]
           /\ hostChanges \in 0..MaxHostChanges
BY DEF IdentityInv, ReportsTypeOK, EnrollTypeOK, ReportType

(* The host, the server and the request, up to its answer                   *)
LEMMA PostKeeps ==
    ASSUME IdentityInv,
           \/ \E s \in Sources : HostChanges(s)
           \/ BackoffOver \/ RouteComes \/ NotFound \/ Post \/ PostLost
           \/ \E t \in Tokens : ServerLoses(t)
           \/ \E force \in BOOLEAN, failing \in SUBSET installed : Collect(force, failing)
    PROVE  IdentityInv'
<1> USE ReportTypes, NoReportType
<1>1. ASSUME NEW s \in Sources, HostChanges(s) PROVE IdentityInv'
  <2>1. hostChanges' \in 0..MaxHostChanges
    BY <1>1, PackageConstants DEF HostChanges
  <2> QED
    BY <1>1, <2>1, ReportOnly DEF HostChanges, enrollVars
<1>2. CASE BackoffOver \/ RouteComes \/ NotFound
  BY <1>2, ReportOnly DEF BackoffOver, RouteComes, NotFound, enrollVars
<1>3. CASE Post
  <2>1. report' \in ReportType /\ lists' \in [Tokens -> SUBSET Sources]
    BY <1>3 DEF Post, Resent, ReportType
  <2>2. phase = "running"
    BY <1>3 DEF Post
  <2> QED
    BY <1>3, <2>1, <2>2, ReportOnly DEF Post, enrollVars
<1>4. CASE PostLost
  <2>1. lists' \in [Tokens -> SUBSET Sources]
    BY <1>4 DEF PostLost, ReportType
  <2> QED
    BY <1>4, <2>1, FaultType, ReportOnly DEF PostLost
<1>5. ASSUME NEW t \in Tokens, ServerLoses(t) PROVE IdentityInv'
  BY <1>5, FaultType, ReportOnly DEF ServerLoses
<1>6. ASSUME NEW force \in BOOLEAN, NEW failing \in SUBSET installed,
             Collect(force, failing)
      PROVE  IdentityInv'
  <2>1. SendsFull(force, Collected(failing)) \in BOOLEAN
    <3>1. identity.recent \in BOOLEAN
      BY DEF IdentityInv, ReportsTypeOK, EnrollTypeOK, IdentityType
    <3> QED
      BY <3>1 DEF SendsFull
  <2>2. report' \in ReportType /\ phase = "running"
    BY <1>6, <2>1 DEF Collect, Collected, ReportType
  <2>3. faults' \in 0..MaxFaults
    BY <1>6, FaultType DEF Collect
  <2> QED
    BY <1>6, <2>2, <2>3, ReportOnly DEF Collect
<1> QED
  BY <1>1, <1>2, <1>3, <1>4, <1>5, <1>6

(* The day that passes changes no agent.                                    *)
LEMMA DayKeeps == ASSUME IdentityInv, DayPasses PROVE IdentityInv'
<1> USE DEF IdentityInv, DayPasses, enrolled, packageVars
<1>1. /\ identity' \in Identities /\ identity'.agent = identity.agent
      /\ disk' \in Identities /\ disk'.agent = disk.agent
  BY DEF ReportsTypeOK, EnrollTypeOK, Identities, IdentityType
<1>2. ReportsTypeOK'
  BY <1>1 DEF ReportsTypeOK, EnrollTypeOK, Identities
<1>3. IdentityInPhase' /\ IdentityOutlivesToken'
  BY <1>1 DEF IdentityInPhase, IdentityOutlivesToken
<1> QED
  BY <1>2, <1>3

(* A report that is persisted is that of the agent that runs: a write of it *)
(* that fails leaves it to the process, and no agent is replaced.           *)
LEMMA PersistKeeps == ASSUME IdentityInv, Persist PROVE IdentityInv'
<1> USE DEF IdentityInv, Persist, enrolled
<1>1. report \in ReportType /\ phase = "running"
  BY ReportTypes
<1>2. /\ disk.agent \in {NoToken, identity.agent}
      /\ identity \in Identities /\ disk \in Identities
      /\ torn \in BOOLEAN /\ faults \in 0..MaxFaults
      /\ identity.agent \in answered
      /\ \A t \in answered \ givenUp : t = identity.agent
  BY <1>1, WriteStarts
<1>3. identity' \in Identities /\ identity'.agent = identity.agent
  BY <1>1, <1>2 DEF Identities, IdentityType, ReportType
<1>4. /\ disk' \in Identities /\ torn' \in BOOLEAN /\ faults' \in 0..MaxFaults
      /\ disk'.agent \in {NoToken, identity.agent}
  <2> DEFINE id == identity'
  <2>1. id \in Identities /\ id.agent = identity.agent /\ Writes(id)
    BY <1>3
  <2> HIDE DEF id
  <2> QED
    BY <1>2, <2>1, WritesIdentity
<1>5. ReportsTypeOK'
  BY <1>1, <1>2, <1>3, <1>4, NoReportType, ReportTypes
     DEF ReportsTypeOK, EnrollTypeOK, Identities, ReportType
<1>6. IdentityInPhase' /\ IdentityOutlivesToken'
  BY <1>1, <1>2, <1>3, <1>4 DEF IdentityInPhase, IdentityOutlivesToken
<1> QED
  BY <1>5, <1>6

-----------------------------------------------------------------------------
(* Together *)

(* Nobody is enrolled at the start.                                         *)
LEMMA IdentityStarts == ReportsInit => IdentityInv
<1> SUFFICES ASSUME ReportsInit PROVE IdentityInv
  OBVIOUS
<1>1. faults \in 0..MaxFaults /\ hostChanges \in 0..MaxHostChanges
  BY EnrollmentConstants, PackageConstants DEF ReportsInit, EnrollInit, PackageInit
<1>2. ReportsTypeOK
  BY <1>1, NoIdentityType, NoReportType
     DEF ReportsInit, EnrollInit, PackageInit, ReportsTypeOK, EnrollTypeOK, Identities, ReportType
<1> QED
  BY <1>2, NoIdentityType
     DEF ReportsInit, EnrollInit, IdentityInv, IdentityInPhase, IdentityOutlivesToken

(* Every step of the enrollment and the reports, or of another part, keeps  *)
(* the invariant.                                                           *)
LEMMA IdentitySteps == IdentityInv /\ [ReportsNext]_reportVars => IdentityInv'
<1> SUFFICES ASSUME IdentityInv, [ReportsNext]_reportVars PROVE IdentityInv'
  OBVIOUS
<1>1. CASE UNCHANGED reportVars
  BY <1>1 DEF reportVars, enrollVars, packageVars, files, process, enrolled, IdentityInv,
     ReportsTypeOK, EnrollTypeOK, IdentityInPhase, IdentityOutlivesToken
<1>2. CASE EnrollStep /\ UNCHANGED packageVars
  BY <1>2, EnrollmentKeeps
<1>3. CASE /\ Ends
           /\ report' = NoReport
           /\ unsupported' = FALSE
           /\ UNCHANGED <<installed, lists, route, hostChanges>>
  BY <1>3, EndsKeeps
<1>4. CASE PackageStep
  BY <1>4, PostKeeps, DayKeeps, PersistKeeps DEF PackageStep
<1> QED
  BY <1>1, <1>2, <1>3, <1>4 DEF ReportsNext
=============================================================================
