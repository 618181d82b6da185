----------------------------- MODULE Telemetry -----------------------------
(***************************************************************************)
(* From osqueryd to the Sigma rules (osquery.go: Start, tailResults;       *)
(* sigma.go: Run; agent.go: runDetection).  osqueryd appends a line to its *)
(* results log for each change of the host that it has not reported yet;   *)
(* Start empties the log, starts osqueryd and tails the log from its       *)
(* first byte; Run evaluates what the tail sends.  RuleSync has what makes *)
(* the supervisor restart the engine, Delivery the events.                 *)
(*                                                                         *)
(* Rows are numbered as osqueryd finds the changes, a line is one row and  *)
(* is written in two halves.  Run returns before Start has killed osqueryd,*)
(* and an agent that was killed leaves it: the one before may still write. *)
(***************************************************************************)
EXTENDS Naturals, Sequences, SequencesExt

CONSTANTS
    MaxRows,         \* bound on changes of the host
    MaxQueued,       \* capacity of the records channel
    MaxEngineStops,  \* bound on restarts of the engine, and on failed starts
    MaxDaemonDeaths  \* bound on osqueryd exiting on its own

ASSUME TelemetryConstants ==
    /\ MaxQueued \in Nat \ {0}
    /\ {MaxRows, MaxEngineStops, MaxDaemonDeaths} \subseteq Nat

VARIABLES
    (* osqueryd *)
    daemon,     \* the engine's: "none", "up", "dead"
    old,        \* the one before still lives
    made,       \* rows written; its database remembers them
    log,        \* osqueryd.results.log: its whole lines
    half,       \* and the first half of the next one
    (* The engine *)
    engine,     \* Run: "off" or "up"
    offset,     \* lines the tail has read
    begun,      \* it has read the first half of the next one
    held,       \* the halves it holds: pending
    records,    \* the channel of Run
    (* Bookkeeping of the model *)
    evaluated,  \* rows the rules were run against, in that order
    cut,        \* rows dropped with a channel or a log when the engine restarts
    engineStops, deaths

osqueryVars == <<daemon, old, made, log, half>>
tailVars == <<offset, begun, held>>
telemetryVars == <<osqueryVars, engine, tailVars, records, evaluated, cut, engineStops, deaths>>

Line == {"head", "tail"}

TelemetryInit ==
    /\ daemon = "none" /\ old = FALSE
    /\ made = 0 /\ log = <<>> /\ half = FALSE
    /\ engine = "off"
    /\ offset = 0 /\ begun = FALSE /\ held = {}
    /\ records = <<>>
    /\ evaluated = <<>> /\ cut = {}
    /\ engineStops = 0 /\ deaths = 0

-----------------------------------------------------------------------------
(* osqueryd *)

WritesHalf ==
    /\ daemon = "up" /\ ~half /\ made < MaxRows
    /\ half' = TRUE
    /\ UNCHANGED <<daemon, old, made, log, engine, tailVars, records, evaluated, cut,
                   engineStops, deaths>>

WritesRest ==
    /\ daemon = "up" /\ half
    /\ half' = FALSE
    /\ made' = made + 1
    /\ log' = Append(log, made')
    /\ UNCHANGED <<daemon, old, engine, tailVars, records, evaluated, cut, engineStops,
                   deaths>>

(* The one before, still alive, writes into the log by its path. *)
OldWrites ==
    /\ old /\ ~half /\ made < MaxRows
    /\ made' = made + 1
    /\ log' = Append(log, made')
    /\ UNCHANGED <<daemon, old, half, engine, tailVars, records, evaluated, cut,
                   engineStops, deaths>>

OldDies ==
    /\ old
    /\ old' = FALSE
    /\ UNCHANGED <<daemon, made, log, half, engine, tailVars, records, evaluated, cut,
                   engineStops, deaths>>

(* Start waits for its context and for the tail, not for osqueryd. *)
DaemonDies ==
    /\ daemon = "up"
    /\ deaths < MaxDaemonDeaths
    /\ deaths' = deaths + 1
    /\ daemon' = "dead"
    /\ UNCHANGED <<old, made, log, half, engine, tailVars, records, evaluated, cut,
                   engineStops>>

-----------------------------------------------------------------------------
(* The engine *)

(* MUTANT of LogAtStart: the log is left as it is *)
LogKeptAtStart == UNCHANGED <<log, half>>

(* Rows that osqueryd reported and nobody tailed go with the log. *)
LogAtStart == log' = <<>> /\ half' = FALSE

(* Run and Start; when osqueryd cannot be started the supervisor tries again. *)
EngineStarts ==
    /\ engine = "off"
    /\ LogAtStart
    /\ cut' = cut \cup (ToSet(log) \ ToSet(evaluated))
    /\ offset' = 0 /\ begun' = FALSE /\ held' = {}
    /\ records' = <<>>
    /\ \/ engine' = "up" /\ daemon' = "up" /\ UNCHANGED engineStops
       \/ /\ engineStops < MaxEngineStops
          /\ engineStops' = engineStops + 1
          /\ UNCHANGED <<engine, daemon>>
    /\ UNCHANGED <<old, made, evaluated, deaths>>

(* The supervisor cancels the context for new rules, or the agent ends. *)
EngineStops ==
    /\ engine = "up"
    /\ engineStops < MaxEngineStops
    /\ engineStops' = engineStops + 1
    /\ engine' = "off"
    /\ old' = (old \/ daemon = "up")
    /\ daemon' = "none"
    /\ cut' = cut \cup ToSet(records)
    /\ records' = <<>>
    /\ offset' = 0 /\ begun' = FALSE /\ held' = {}
    /\ half' = FALSE   \* a line it was writing is written whole, or not at all
    /\ UNCHANGED <<made, log, evaluated, deaths>>

(* MUTANT of AtEOF: only what was read in one go makes a line *)
AtEOFDropped(read) == {}

(* Half a line is kept for the next tick. *)
AtEOF(read) == read

TailReadsHalf ==
    /\ engine = "up"
    /\ offset = Len(log) /\ half /\ ~begun
    /\ begun' = TRUE
    /\ held' = AtEOF(held \cup {"head"})
    /\ UNCHANGED <<osqueryVars, engine, offset, records, evaluated, cut, engineStops, deaths>>

(* A line to its end; one that does not parse is skipped. *)
TailReadsLine ==
    /\ engine = "up"
    /\ offset < Len(log)
    /\ LET line == held \cup IF begun THEN {"tail"} ELSE Line IN
       /\ line = Line => Len(records) < MaxQueued
       /\ records' = records \o IF line = Line THEN <<log[offset + 1]>> ELSE <<>>
    /\ offset' = offset + 1
    /\ begun' = FALSE /\ held' = {}
    /\ UNCHANGED <<osqueryVars, engine, evaluated, cut, engineStops, deaths>>

Evaluates ==
    /\ engine = "up"
    /\ records # <<>>
    /\ evaluated' = Append(evaluated, Head(records))
    /\ records' = Tail(records)
    /\ UNCHANGED <<osqueryVars, engine, tailVars, cut, engineStops, deaths>>

TelemetryNext ==
    \/ WritesHalf
    \/ WritesRest
    \/ OldWrites
    \/ OldDies
    \/ DaemonDies
    \/ EngineStarts
    \/ EngineStops
    \/ TailReadsHalf
    \/ TailReadsLine
    \/ Evaluates

-----------------------------------------------------------------------------
(* Properties *)

TelemetryTypeOK ==
    /\ daemon \in {"none", "up", "dead"}
    /\ {old, half, begun} \subseteq BOOLEAN
    /\ made \in 0..MaxRows
    /\ {log, records, evaluated} \subseteq Seq(1..MaxRows)
    /\ Len(records) <= MaxQueued
    /\ engine \in {"off", "up"}
    /\ offset \in 0..Len(log)
    /\ held \subseteq Line
    /\ cut \subseteq 1..MaxRows
    /\ engineStops \in 0..MaxEngineStops /\ deaths \in 0..MaxDaemonDeaths

(* Across restarts of the engine, with the osqueryd before it still writing, each
   row is evaluated at most once and in the order osqueryd found it; none that
   was dropped with a channel or a log comes back. *)
RowsInOrderOnce ==
    /\ \A i, j \in DOMAIN evaluated : i < j => evaluated[i] < evaluated[j]
    /\ ToSet(evaluated) \cap cut = {}

(* Each row that osqueryd wrote is evaluated, unless the engine was restarted
   over it; in particular a line that the tail reads in two parts is whole. *)
RowsAreEvaluated ==
    \A r \in 1..MaxRows : made >= r ~> r \in ToSet(evaluated) \cup cut

(* "Engine exited on its own (e.g. osquery crashed); cancel and retry after a
   short pause": an osqueryd that exits is replaced.  The code does not: Start
   never learns of it, and the engine tails a log nobody writes. *)
DeadDaemonIsReplaced ==
    daemon = "dead" ~> daemon = "up" \/ engine = "off"
=============================================================================
