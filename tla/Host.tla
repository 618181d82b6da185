-------------------------------- MODULE Host --------------------------------
(***************************************************************************)
(* The parts of the agent that share neither state nor messages with each  *)
(* other, checked by one run: enrollment with the reports of packages, the *)
(* buffer of performance samples, the collector behind it, the files of an *)
(* update, and the path from osqueryd to the rules.  Their product would   *)
(* add states and no behaviour of any part, so one part runs and the       *)
(* others stay as they started; Init chooses which.                        *)
(***************************************************************************)
EXTENDS PackageSync, PerfBuffer, UpdateInstall, Telemetry, Collector

CONSTANT Parts  \* parts to be explored

ASSUME HostConstants ==
    Parts \subseteq {"reports", "perf", "install", "telemetry", "collector"}

VARIABLE focus  \* the part that runs; never changes

hostState == <<focus, reportVars, perfVars, installVars, telemetryVars, collectorVars>>

(* The several initial states of a part are explored while it runs only. *)
HostInit ==
    /\ focus \in Parts
    /\ ReportsInit /\ (focus # "reports" => route)
    /\ PerfInit /\ (focus # "perf" => accepts /\ bad = {})
    /\ InstallInit /\ (focus # "install" =>
           /\ host = [os |-> "linux", owner |-> "none", arch |-> "amd64"]
           /\ listing = Release(Methods, {"amd64", "arm64"}))
    /\ TelemetryInit
    /\ CollectorInit

HostNext ==
    /\ UNCHANGED focus
    /\ \/ /\ focus = "reports" /\ ReportsNext
          /\ UNCHANGED <<perfVars, installVars, telemetryVars, collectorVars>>
       \/ /\ focus = "perf" /\ PerfNext
          /\ UNCHANGED <<reportVars, installVars, telemetryVars, collectorVars>>
       \/ /\ focus = "install" /\ InstallNext
          /\ UNCHANGED <<reportVars, perfVars, telemetryVars, collectorVars>>
       \/ /\ focus = "telemetry" /\ TelemetryNext
          /\ UNCHANGED <<reportVars, perfVars, installVars, collectorVars>>
       \/ /\ focus = "collector" /\ CollectorNext
          /\ UNCHANGED <<reportVars, perfVars, installVars, telemetryVars>>

(* Reports: the ticker of the package inventory, requests that end, the day of
   the 404. *)
ReportsFairness ==
    /\ WF_reportVars(focus = "reports" /\ Collect(FALSE, {}))
    /\ WF_reportVars(focus = "reports" /\ (Post \/ NotFound \/ Persist))
    /\ WF_reportVars(focus = "reports" /\ BackoffOver)

(* Samples: the timer fires, a send comes due again and again, requests end, the
   service is started again. *)
PerfFairness ==
    /\ WF_perfVars(focus = "perf" /\ (TickOff \/ \E snap, due \in BOOLEAN : Tick(snap, due)))
    /\ SF_perfVars(focus = "perf" /\ \E snap \in BOOLEAN : Tick(snap, TRUE))
    /\ WF_perfVars(focus = "perf" /\ (SendSkipped \/ SendAccepted \/ SendRefused
                                                  \/ SendNotFound))
    /\ WF_perfVars(focus = "perf" /\ \E cutoff \in 0..ticks : Begin(cutoff))
    /\ WF_perfVars(focus = "perf" /\ PerfBackoffOver)

(* Rows: the supervisor retries, the tail has a ticker, Run reads its channel. *)
TelemetryFairness ==
    /\ WF_telemetryVars(focus = "telemetry" /\ EngineStarts)
    /\ WF_telemetryVars(focus = "telemetry" /\ (TailReadsHalf \/ TailReadsLine))
    /\ WF_telemetryVars(focus = "telemetry" /\ Evaluates)

HostFairness == ReportsFairness /\ PerfFairness /\ TelemetryFairness

HostSpec == HostInit /\ [][HostNext]_hostState /\ HostFairness

-----------------------------------------------------------------------------
(* Properties *)

HostTypeOK ==
    /\ focus \in Parts
    /\ ReportsTypeOK
    /\ PerfTypeOK
    /\ InstallTypeOK
    /\ TelemetryTypeOK
    /\ CollectorTypeOK
=============================================================================
