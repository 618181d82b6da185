--------------------------- MODULE YaraPass_proofs ---------------------------
(***************************************************************************)
(* No file change falls between two YARA passes, for any set of files and  *)
(* any bounds.  That the next pass will read a changed file is not         *)
(* inductive by itself: what the pass under way has already taken for its  *)
(* own must be known too (PassInv), and that a pass is incremental only    *)
(* when there is a cutoff.                                                 *)
(***************************************************************************)
EXTENDS YaraPass, TLAPS

(* The pass under way reads every file it will be trusted to have read, or *)
(* the file changed again meanwhile.                                       *)
PassInv ==
    /\ pass.pc = "reading" => unread \ excused \subseteq pass.reads \cup during
    /\ pass.pc # "off" /\ ~pass.full => since

IInv == TypeOK /\ PassInv /\ NoFileMissed

Passes(s) ==
    [pc : {"off", "decided", "reading"}, own : BOOLEAN, full : BOOLEAN,
     sigs : 0..s, reads : SUBSET Files]

-----------------------------------------------------------------------------
(* The pass there is when none is under way. *)
LEMMA OffPass ==
    ASSUME NEW s \in Nat
    PROVE  Off \in Passes(s) /\ Off.pc = "off" /\ Off.own = FALSE /\ Off.full = FALSE
  BY DEF Off, Passes

(* A pass just begun. *)
LEMMA BegunPass ==
    ASSUME NEW s \in Nat, NEW own \in BOOLEAN, NEW full \in BOOLEAN
    PROVE  /\ Begun(own, full) \in Passes(s)
           /\ Begun(own, full).pc = "decided"
           /\ Begun(own, full).own = own
           /\ Begun(own, full).full = full
  BY DEF Begun, Passes

(* The bounds are numbers. *)
LEMMA Bounds == MaxRules \in Nat /\ MaxChanges \in Nat /\ MaxRestarts \in Nat
  BY PassConstants

(* The invariant holds initially. *)
LEMMA InitInv == Init => IInv
<1> SUFFICES ASSUME Init PROVE IInv
  OBVIOUS
<1>1. pass \in Passes(0) /\ pass.own = FALSE /\ loop = "start"
  BY OffPass DEF Init
<1>2. 0 \in 0..0 /\ 0 \in 0..MaxRules /\ 0 \in 0..MaxChanges /\ 0 \in 0..MaxRestarts
  BY Bounds
<1>3. TypeOK
  BY <1>1, <1>2 DEF Init, TypeOK, Passes
<1>4. PassInv /\ NoFileMissed
  BY OffPass DEF Init, PassInv, NoFileMissed
<1> QED BY <1>3, <1>4 DEF IInv

-----------------------------------------------------------------------------
(* The host's and the server's steps. *)
LEMMA OutsideStep ==
    ASSUME IInv,
           \/ \E f \in Files : FileChanges(f)
           \/ \E p \in Policies : PolicyChanges(p)
           \/ RulesWritten \/ RulesSignalled
    PROVE  IInv'
<1> USE DEF IInv
<1>1. ASSUME NEW f \in Files, FileChanges(f) PROVE IInv'
  <2>1. TypeOK'
    BY <1>1, Bounds DEF FileChanges, TypeOK, rules, cutoff
  <2>2. PassInv'
    BY <1>1 DEF FileChanges, TypeOK, PassInv, cutoff
  <2>3. NoFileMissed'
    BY <1>1 DEF FileChanges, TypeOK, NoFileMissed, cutoff
  <2> QED BY <2>1, <2>2, <2>3
<1>2. ASSUME NEW p \in Policies, PolicyChanges(p) PROVE IInv'
  BY <1>2 DEF PolicyChanges, TypeOK, PassInv, NoFileMissed, rules, cutoff, files
<1>3. CASE RulesWritten
  <2>1. sigs' \in 0..MaxRules /\ 0..sigs \subseteq 0..sigs'
    BY <1>3, Bounds DEF RulesWritten, TypeOK
  <2>2. pass \in Passes(sigs) => pass \in Passes(sigs')
    BY <2>1 DEF Passes
  <2>3. TypeOK'
    BY <1>3, <2>1, <2>2 DEF RulesWritten, TypeOK, Passes, cutoff, files
  <2> QED BY <1>3, <2>3 DEF RulesWritten, PassInv, NoFileMissed, cutoff, files
<1>4. CASE RulesSignalled
  BY <1>4 DEF RulesSignalled, TypeOK, PassInv, NoFileMissed, cutoff, files
<1> QED BY <1>1, <1>2, <1>3, <1>4

(* The loop's steps: a pass it starts is incremental only with a cutoff,   *)
(* and a cutoff set for the watch excuses what changed before it.          *)
LEMMA LoopStep ==
    ASSUME IInv, LoopStarts \/ LoopTicks \/ LoopRescans
    PROVE  IInv'
<1> USE DEF IInv
<1>1. ASSUME NEW scheduled \in BOOLEAN, LoopRuns(scheduled), SetCutoff,
             loop # "pass", UNCHANGED <<sigs, force, unread>>
      PROVE  /\ since' \in BOOLEAN
             /\ pass' \in Passes(sigs')
             /\ loop' \in {"start", "wait", "pass"} /\ (loop' = "pass") = pass'.own
             /\ changed' \in SUBSET Files /\ excused' \in SUBSET unread'
             /\ pass'.pc # "off" /\ ~pass'.full => since'
             /\ pass'.pc = "reading" => pass' = pass
  <2>1. sigs \in Nat /\ pass \in Passes(sigs) /\ since' \in BOOLEAN
    BY <1>1, Bounds DEF SetCutoff, TypeOK, Passes, WatchFrom
  <2>2. NextFull(scheduled, since') \in BOOLEAN
    BY <1>1, <2>1 DEF NextFull, TypeOK
  <2>3. changed' \in SUBSET Files /\ excused' \in SUBSET unread'
    BY <1>1 DEF SetCutoff, TypeOK
  <2>4. since => since'
    BY <1>1 DEF SetCutoff
  <2>5. CASE pass = Off
    <3>1. pass' = Begun(TRUE, NextFull(scheduled, since')) /\ loop' = "pass"
      BY <1>1, <2>5 DEF LoopRuns
    <3>2. ~NextFull(scheduled, since') => since'
      BY DEF NextFull
    <3> QED BY <1>1, <2>1, <2>2, <2>3, <3>1, <3>2, BegunPass
  <2>6. CASE pass # Off
    <3>1. pass' = pass /\ loop' = "wait"
      BY <1>1, <2>6 DEF LoopRuns
    <3>2. pass.own = FALSE
      BY <1>1 DEF TypeOK
    <3> QED BY <1>1, <2>1, <2>3, <2>4, <3>1, <3>2 DEF PassInv
  <2> QED BY <2>5, <2>6
<1>2. ASSUME SetCutoff, UNCHANGED <<unread, during>>
      PROVE  /\ NoFileMissed'
             /\ unread \ excused \subseteq pass.reads \cup during =>
                  unread' \ excused' \subseteq pass.reads \cup during'
  <2>1. CASE WatchFrom
    <3>1. changed' = {} /\ excused' = unread
      BY <1>2, <2>1 DEF SetCutoff, WatchFrom
    <3> QED BY <1>2, <3>1 DEF NoFileMissed
  <2>2. CASE ~WatchFrom
    <3>1. changed' = changed /\ excused' = excused /\ since' = since
      BY <1>2, <2>2 DEF SetCutoff, TypeOK
    <3> QED BY <1>2, <3>1 DEF NoFileMissed
  <2> QED BY <2>1, <2>2
<1>3. CASE LoopStarts
  <2>1. CASE policy = "own"
    <3>1. LoopRuns(FALSE)
      BY <1>3, <2>1 DEF LoopStarts
    <3>2. loop # "pass"
      BY <1>3 DEF LoopStarts
    <3>3. TypeOK'
      BY <1>1, <1>3, <3>1, <3>2 DEF LoopStarts, TypeOK, Passes, rules
    <3>4. PassInv' /\ NoFileMissed'
      BY <1>1, <1>2, <1>3, <3>1, <3>2 DEF LoopStarts, PassInv, rules
    <3> QED BY <3>3, <3>4
  <2>2. CASE policy # "own"
    <3>1. loop' = "wait" /\ pass' = pass /\ pass.own = FALSE
      BY <1>3, <2>2 DEF LoopStarts, TypeOK
    <3>2. since' \in BOOLEAN /\ (since => since')
      BY <1>3 DEF LoopStarts, SetCutoff, TypeOK, WatchFrom
    <3>3. TypeOK'
      BY <1>3, <3>1, <3>2 DEF LoopStarts, SetCutoff, TypeOK, rules
    <3>4. PassInv' /\ NoFileMissed'
      BY <1>2, <1>3, <3>1, <3>2 DEF LoopStarts, PassInv
    <3> QED BY <3>3, <3>4
  <2> QED BY <2>1, <2>2
<1>4. CASE LoopTicks
  <2>1. LoopRuns(TRUE) /\ SetCutoff /\ loop # "pass"
    BY <1>4 DEF LoopTicks
  <2>2. TypeOK'
    BY <1>1, <1>4, <2>1 DEF LoopTicks, TypeOK, Passes, rules
  <2>3. PassInv' /\ NoFileMissed'
    BY <1>1, <1>2, <1>4, <2>1 DEF LoopTicks, PassInv, rules
  <2> QED BY <2>2, <2>3
<1>5. CASE LoopRescans
  BY <1>5 DEF LoopRescans, TypeOK, PassInv, NoFileMissed, files
<1> QED BY <1>3, <1>4, <1>5

(* A request, and the start of osqueryi. *)
LEMMA StartStep ==
    ASSUME IInv, RequestedPass \/ PassReads
    PROVE  IInv'
<1> USE DEF IInv
<1>1. CASE RequestedPass
  <2>1. CASE pass = Off /\ pass' = Begun(FALSE, TRUE) /\ UNCHANGED queued
    <3>a. sigs \in Nat
      BY Bounds DEF TypeOK
    <3>b. Off.own = FALSE
      BY <3>a, OffPass
    <3>0. sigs \in Nat /\ pass.own = FALSE
      BY <2>1, <3>a, <3>b
    <3>1. /\ pass' \in Passes(sigs) /\ pass'.pc = "decided"
          /\ pass'.own = FALSE /\ pass'.full = TRUE
      BY <2>1, <3>0, BegunPass
    <3>2. TypeOK'
      BY <1>1, <2>1, <3>0, <3>1 DEF RequestedPass, TypeOK, Passes, rules, cutoff, files
    <3>3. PassInv' /\ NoFileMissed'
      BY <1>1, <3>1 DEF RequestedPass, PassInv, NoFileMissed, cutoff, files
    <3> QED BY <3>2, <3>3
  <2>2. CASE queued' = TRUE /\ UNCHANGED pass
    BY <1>1, <2>2 DEF RequestedPass, TypeOK, PassInv, NoFileMissed, rules, cutoff, files
  <2> QED BY <1>1, <2>1, <2>2 DEF RequestedPass
<1>2. CASE PassReads
  <2> DEFINE reads == IF pass.full THEN Files ELSE changed
  <2>1. sigs \in Nat /\ pass \in Passes(sigs) /\ reads \in SUBSET Files
    BY Bounds DEF TypeOK, Passes
  <2>2. pass' = [pass EXCEPT !.pc = "reading", !.sigs = sigs, !.reads = reads]
    BY <1>2 DEF PassReads
  <2>3. /\ pass' \in Passes(sigs) /\ pass'.pc = "reading" /\ pass'.own = pass.own
        /\ pass'.full = pass.full /\ pass'.reads = reads
    <3> HIDE DEF reads
    <3>1. /\ pass'.pc = "reading" /\ pass'.own = pass.own /\ pass'.full = pass.full
          /\ pass'.sigs = sigs /\ pass'.reads = reads /\ DOMAIN pass' = DOMAIN pass
      BY <2>1, <2>2 DEF Passes
    <3>2. pass.own \in BOOLEAN /\ pass.full \in BOOLEAN /\ sigs \in 0..sigs
      BY <2>1 DEF Passes
    <3>3. pass' \in Passes(sigs)
      BY <2>1, <2>2, <3>2 DEF Passes
    <3> QED BY <3>1, <3>3
  <2>4. pass.pc = "decided" /\ during' = {} /\ UNCHANGED <<since, changed, unread, excused>>
    BY <1>2 DEF PassReads, cutoff
  <2>5. TypeOK'
    BY <1>2, <2>3, <2>4 DEF PassReads, TypeOK, Passes, rules, cutoff
  <2>6. unread \ excused \subseteq reads
    BY <2>4 DEF PassInv, NoFileMissed, TypeOK
  <2>7. PassInv' /\ NoFileMissed'
    BY <2>3, <2>4, <2>6 DEF PassInv, NoFileMissed
  <2> QED BY <2>5, <2>7
<1> QED BY <1>1, <1>2

(* What PassOver leaves: no pass, or a full one for the queued request. *)
LEMMA Over ==
    ASSUME TypeOK, pass.pc = "reading", PassOver
    PROVE  /\ sigs' = sigs /\ pass' \in Passes(sigs)
           /\ pass'.pc = "off" \/ (pass'.pc = "decided" /\ pass'.full)
           /\ queued' = FALSE
           /\ loop' \in {"start", "wait", "pass"} /\ (loop' = "pass") = pass'.own
           /\ UNCHANGED <<policy, rules, changes, restarts>>
<1>1. sigs \in Nat /\ pass.own \in BOOLEAN /\ (loop = "pass") = pass.own
  BY Bounds DEF TypeOK
<1>2. UNCHANGED <<policy, rules, changes, restarts>> /\ sigs' = sigs /\ queued' = FALSE
  BY DEF PassOver, rules
<1>3. CASE queued
  <2>1. pass' = Begun(pass.own, TRUE) /\ loop' = loop
    BY <1>3 DEF PassOver, LoopAfter
  <2> QED BY <1>1, <1>2, <2>1, BegunPass DEF TypeOK
<1>4. CASE ~queued
  <2>1. pass' = Off /\ loop' = IF pass.own THEN "wait" ELSE loop
    BY <1>4 DEF PassOver, LoopAfter
  <2> QED BY <1>1, <1>2, <2>1, OffPass DEF TypeOK
<1> QED BY <1>3, <1>4

(* A pass ends: what it did not read is in what changed since it started. *)
LEMMA EndStep ==
    ASSUME IInv, PassSucceeds \/ PassTimesOut \/ PassFails
    PROVE  IInv'
<1> USE DEF IInv
<1>1. pass.pc = "reading" /\ PassOver
  BY DEF PassSucceeds, PassTimesOut, PassFails
<1>2. /\ sigs' = sigs /\ pass' \in Passes(sigs)
      /\ pass'.pc = "off" \/ (pass'.pc = "decided" /\ pass'.full)
      /\ queued' = FALSE
      /\ loop' \in {"start", "wait", "pass"} /\ (loop' = "pass") = pass'.own
      /\ UNCHANGED <<policy, rules, changes, restarts>>
  BY <1>1, Over
<1>3. PassInv'
  BY <1>2 DEF PassInv
<1>4. ASSUME Advance
      PROVE  /\ since' \in BOOLEAN /\ force' \in BOOLEAN /\ during' = {}
             /\ changed' = during /\ tried' \in 0..sigs
  BY <1>4 DEF Advance, ChangedSinceStart, TypeOK
<1>5. CASE PassSucceeds
  <2>1. /\ unread' = unread \ (pass.reads \ during)
        /\ excused' = excused \ (pass.reads \ during)
        /\ Advance
    BY <1>5 DEF PassSucceeds
  <2>2. TypeOK'
    BY <1>2, <1>4, <2>1 DEF TypeOK, Passes, rules
  <2>3. NoFileMissed'
    BY <1>1, <1>4, <2>1 DEF NoFileMissed, PassInv
  <2> QED BY <1>3, <2>2, <2>3
<1>6. CASE PassTimesOut
  <2>1. /\ unread' = unread
        /\ excused' = excused \cup ((unread \cap pass.reads) \ during)
        /\ Advance
    BY <1>6 DEF PassTimesOut
  <2>2. TypeOK'
    BY <1>2, <1>4, <2>1 DEF TypeOK, Passes, rules
  <2>3. NoFileMissed'
    BY <1>1, <1>4, <2>1 DEF NoFileMissed, PassInv
  <2> QED BY <1>3, <2>2, <2>3
<1>7. CASE PassFails
  <2>1. UNCHANGED <<since, force, changed, unread, excused, tried>> /\ during' = {}
    BY <1>7 DEF PassFails, cutoff
  <2>2. TypeOK'
    BY <1>2, <2>1 DEF TypeOK, Passes, rules
  <2>3. NoFileMissed'
    BY <2>1 DEF NoFileMissed
  <2> QED BY <1>3, <2>2, <2>3
<1> QED BY <1>5, <1>6, <1>7

(* A new process has no cutoff. *)
LEMMA RestartStep == IInv /\ Restart => IInv'
<1> SUFFICES ASSUME IInv, Restart PROVE IInv'
  OBVIOUS
<1> USE DEF IInv
<1>1. sigs \in Nat /\ sigs' = sigs /\ pass' = Off /\ loop' = "start" /\ since' = FALSE
  BY Bounds DEF Restart, TypeOK
<1>2. pass' \in Passes(sigs') /\ pass'.pc = "off" /\ pass'.own = FALSE
  BY <1>1, OffPass
<1>3. restarts' \in 0..MaxRestarts
  BY Bounds DEF Restart, TypeOK
<1>4. TypeOK'
  BY <1>1, <1>2, <1>3 DEF Restart, TypeOK, Passes
<1>5. PassInv' /\ NoFileMissed'
  BY <1>1, <1>2 DEF PassInv, NoFileMissed
<1> QED BY <1>4, <1>5

(* The invariant is inductive. *)
LEMMA StepInv == IInv /\ [Next]_vars => IInv'
<1> SUFFICES ASSUME IInv, [Next]_vars PROVE IInv'
  OBVIOUS
<1>1. CASE Next
  BY <1>1, OutsideStep, LoopStep, StartStep, EndStep, RestartStep DEF Next
<1>2. CASE UNCHANGED vars
  BY <1>2 DEF vars, rules, cutoff, files, IInv, TypeOK, PassInv, NoFileMissed
<1> QED BY <1>1, <1>2

(* It holds throughout. *)
LEMMA Invariant == Spec => []IInv
  BY InitInv, StepInv, PTL DEF Spec

-----------------------------------------------------------------------------
(* Type correctness: in particular, the loop waits for the pass it runs    *)
(* and no other.                                                           *)
THEOREM PassTypeCorrect == Spec => []TypeOK
<1>1. IInv => TypeOK
  BY DEF IInv
<1> QED BY <1>1, Invariant, PTL

(* Every file change is read by the next pass, full or incremental, unless *)
(* a timeout or the start of the watch gave it up: yaraScan's cutoff is    *)
(* the start of the last pass that was not a failure.                      *)
THEOREM NothingFallsBetween == Spec => []NoFileMissed
<1>1. IInv => NoFileMissed
  BY DEF IInv
<1> QED BY <1>1, Invariant, PTL
=============================================================================
