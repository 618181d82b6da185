---------------------------- MODULE PackageSync ----------------------------
(***************************************************************************)
(* The list of installed packages (agent.go: sendPackages; packages.go:    *)
(* CollectFrom, Hash; client.go: SendPackages) on top of Enrollment: the   *)
(* hash of the last list the server accepted is a field of the identity,   *)
(* so it shares its writes, its crashes and its loss.                      *)
(*                                                                         *)
(* A source is a package database with one package of its name; a list,    *)
(* like its hash, is the set of the packages in it.  The scan coordinator  *)
(* runs one report at a time (ScanCoordinator!OneRunPerType).              *)
(***************************************************************************)
EXTENDS Enrollment

CONSTANTS
    Sources,        \* package databases
    MaxHostChanges  \* bound on installs and removals

ASSUME PackageConstants == MaxHostChanges \in Nat

VARIABLES
    installed,    \* what the databases of the host list
    report,       \* the report under way
    unsupported,  \* packagesUnsupported is ahead
    (* The server *)
    lists,        \* the list it keeps of each agent
    route,        \* it has /api/edr/packages
    hostChanges

packageVars == <<installed, report, unsupported, lists, route, hostChanges>>
reportVars == <<enrollVars, packageVars>>

NoReport == [pc |-> "none", list |-> {}, full |-> FALSE]

PackageInit ==
    /\ installed = Sources
    /\ report = NoReport
    /\ unsupported = FALSE
    /\ lists = [t \in Tokens |-> {}]
    /\ route \in BOOLEAN
    /\ hostChanges = 0

-----------------------------------------------------------------------------
(* The host and the server *)

HostChanges(s) ==
    /\ hostChanges < MaxHostChanges
    /\ hostChanges' = hostChanges + 1
    /\ installed' = IF s \in installed THEN installed \ {s} ELSE installed \cup {s}
    /\ UNCHANGED <<enrollVars, report, unsupported, lists, route>>

(* packageResendEvery after PackagesSentAt *)
DayPasses ==
    /\ identity.recent \/ disk.recent
    /\ identity' = [identity EXCEPT !.recent = FALSE]
    /\ disk' = [disk EXCEPT !.recent = FALSE]
    /\ UNCHANGED <<settings, torn, phase, token, creds, enrolled, faults, packageVars>>

BackoffOver ==
    /\ unsupported
    /\ unsupported' = FALSE
    /\ UNCHANGED <<enrollVars, installed, report, lists, route, hostChanges>>

RouteComes ==
    /\ ~route
    /\ route' = TRUE
    /\ UNCHANGED <<enrollVars, installed, report, unsupported, lists, hostChanges>>

(* A database restored from before the agent's first report *)
ServerLoses(t) ==
    /\ lists[t] # {}
    /\ Fault
    /\ lists' = [lists EXCEPT ![t] = {}]
    /\ UNCHANGED <<files, process, enrolled, installed, report, unsupported, route,
                   hostChanges>>

-----------------------------------------------------------------------------
(* sendPackages *)

(* CollectFrom: a source that fails is left out, the others still count. *)
Collected(failing) == installed \ failing

(* Whether the list goes along, or only its hash *)
SendsFull(force, list) == force \/ list # identity.list \/ ~identity.recent

(* An empty list is never reported. *)
Collect(force, failing) ==
    /\ phase = "running"
    /\ report = NoReport
    /\ force \/ ~unsupported
    /\ IF failing = {} THEN UNCHANGED faults ELSE Fault
    /\ Collected(failing) # {}
    /\ report' = [pc |-> "post", list |-> Collected(failing),
                  full |-> SendsFull(force, Collected(failing))]
    /\ UNCHANGED <<files, process, enrolled, installed, unsupported, lists, route,
                   hostChanges>>

(* MUTANT of Resent: left to the next run *)
ResentNextRun(r) == NoReport

(* snapshot_required: the list follows at once. *)
Resent(r) == [r EXCEPT !.full = TRUE]

NotFound ==
    /\ report.pc = "post"
    /\ ~route
    /\ unsupported' = TRUE
    /\ report' = NoReport
    /\ UNCHANGED <<enrollVars, installed, lists, route, hostChanges>>

(* The server answers; a report with the list replaces what it keeps. *)
Post ==
    /\ report.pc = "post"
    /\ route
    /\ IF report.full
       THEN /\ lists' = [lists EXCEPT ![creds] = report.list]
            /\ report' = [report EXCEPT !.pc = "accepted"]
       ELSE /\ UNCHANGED lists
            /\ report' = IF lists[creds] = report.list
                         THEN [report EXCEPT !.pc = "accepted"]
                         ELSE Resent(report)
    /\ UNCHANGED <<enrollVars, installed, unsupported, route, hostChanges>>

(* The request or its answer is lost; the next run supersedes it. *)
PostLost ==
    /\ report.pc = "post"
    /\ Fault
    /\ \/ UNCHANGED lists
       \/ route /\ report.full /\ lists' = [lists EXCEPT ![creds] = report.list]
    /\ report' = NoReport
    /\ UNCHANGED <<files, process, enrolled, installed, unsupported, route, hostChanges>>

(* Mutate: a write that fails is logged, the hash stays in memory. *)
Persist ==
    /\ report.pc = "accepted"
    /\ identity' = [identity EXCEPT !.list = report.list,
                                    !.recent = @ \/ report.full]
    /\ Writes(identity')
    /\ report' = NoReport
    /\ UNCHANGED <<settings, phase, token, creds, enrolled, installed, unsupported, lists,
                   route, hostChanges>>

PackageStep ==
    \/ \E s \in Sources : HostChanges(s)
    \/ DayPasses
    \/ BackoffOver
    \/ RouteComes
    \/ \E t \in Tokens : ServerLoses(t)
    \/ \E force \in BOOLEAN, failing \in SUBSET installed : Collect(force, failing)
    \/ NotFound
    \/ Post
    \/ PostLost
    \/ Persist

-----------------------------------------------------------------------------
(* The two together *)

ReportsInit == EnrollInit /\ PackageInit

ReportsNext ==
    \/ EnrollStep /\ UNCHANGED packageVars
    \/ /\ Ends
       /\ report' = NoReport
       /\ unsupported' = FALSE
       /\ UNCHANGED <<installed, lists, route, hostChanges>>
    \/ PackageStep

-----------------------------------------------------------------------------
(* Properties *)

ReportsTypeOK ==
    /\ EnrollTypeOK(SUBSET Sources)
    /\ installed \subseteq Sources
    /\ report \in [pc : {"none", "post", "accepted"}, list : SUBSET Sources, full : BOOLEAN]
    /\ report.pc # "none" => phase = "running"
    /\ {unsupported, route} \subseteq BOOLEAN
    /\ lists \in [Tokens -> SUBSET Sources]
    /\ hostChanges \in 0..MaxHostChanges

(* While the agent runs and the server has the route, the server's list becomes
   the host's and stays so, through sources that failed for a while, lost
   answers, a server that lost its copy, and restarts with an identity file
   that was or was not written; only a host with no package at all is not
   reported. *)
ListConverges ==
    <>[](phase = "running" /\ route)
        => <>[](phase = "running" /\ installed # {} => lists[creds] = installed)
=============================================================================
