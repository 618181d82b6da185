------------------------ MODULE UpdateInstall_proofs ------------------------
(***************************************************************************)
(* Proofs about UpdateInstall, for any number of update attempts and of    *)
(* crashes of the service, on every host and with every release: the host  *)
(* is never left without a whole program, and is handed no asset that is   *)
(* not its own.  Host_proofs states them of HostSpec, which the runs check. *)
(***************************************************************************)
EXTENDS UpdateInstall, TLAPS

Whole == {"current", "wanted"}

(* What is about to be swapped in passed the self-check: this is what keeps *)
(* a file that was cut short out of the program's place.                    *)
Checked == pc \in {"swap", "place"} => exeNew = "wanted"

(* Where the program is: at its path, or, on Windows, only at exe.old, and  *)
(* then a service that runs is the one that was moved there, so that no     *)
(* swap and no startup takes it for left over.                              *)
Placed ==
    /\ \/ exe \in Whole
       \/ host.os = "windows" /\ exe = "none" /\ exeOld \in Whole
    /\ exe = "none" /\ running # "none" => inOld
    /\ pc = "place" => exe = "none"
    /\ inOld \/ pc # "idle" => running # "none"

(* The kinds of asset that are the host's own *)
HostMethods ==
    {NativeOf[o] : o \in Owners[host.os] \ {"none"}} \cup {ArchiveOf[host.os]}

Fits(a) == a.method \in HostMethods /\ a.arch \in {host.arch, "any"}

(* An attempt is for the host, and so is what it chooses and launches.      *)
Fitting ==
    /\ host.os \in DOMAIN Owners /\ host.owner \in Owners[host.os]
    /\ method # "none" => method \in HostMethods
    /\ pc # "idle" => method # "none"
    /\ \A a \in {asset, installer} \ {NoAsset} : Fits(a)

(* The inductive invariant.  The types are part of it: what Swap renames    *)
(* may only be a program because of Checked.                                *)
InstallInv == InstallTypeOK /\ Checked /\ Placed /\ Fitting

(* What DetectMethod finds is of a kind that fits the host.                 *)
LEMMA DetectedFits ==
    ASSUME host.os \in DOMAIN Owners, host.owner \in Owners[host.os]
    PROVE  DetectMethod \subseteq HostMethods
BY DEF DetectMethod, Probed, HostMethods

(* What SelectAsset finds is listed, and fits the host.                     *)
LEMMA SelectedFits ==
    ASSUME method \in HostMethods, NEW a \in SelectAsset(method, host.arch)
    PROVE  a \in listing /\ Fits(a)
BY DEF SelectAsset, Fits

-----------------------------------------------------------------------------
(* Checking and swapping *)

(* Every step of an attempt but the choice of the asset keeps the           *)
(* invariant.                                                               *)
LEMMA FilesAttempt ==
    InstallInv /\ (FetchSums \/ Download \/ Verify \/ Extract \/ Extracted
                       \/ SelfCheck \/ Swap \/ MoveAside \/ Place)
        => InstallTypeOK' /\ Checked' /\ Placed'
<1> SUFFICES ASSUME InstallInv,
                    FetchSums \/ Download \/ Verify \/ Extract \/ Extracted
                       \/ SelfCheck \/ Swap \/ MoveAside \/ Place
             PROVE  InstallTypeOK' /\ Checked' /\ Placed'
  OBVIOUS
<1> USE DEF InstallInv, InstallTypeOK, Checked, Placed, Whole, hostVars, programs,
            service, attempt, Gives
<1>1. CASE FetchSums \/ Download \/ Verify
  BY <1>1 DEF FetchSums, Download, Verify
<1>2. CASE Extract \/ Extracted
  BY <1>2 DEF Extract, Extracted
<1>3. CASE SelfCheck
  BY <1>3 DEF SelfCheck, Reports
<1>4. CASE Swap
  BY <1>4 DEF Swap
<1>5. CASE MoveAside
  BY <1>5 DEF MoveAside
<1>6. CASE Place
  BY <1>6 DEF Place
<1> QED
  BY <1>1, <1>2, <1>3, <1>4, <1>5, <1>6

(* None of them chooses a kind of asset, or an asset.                       *)
LEMMA FitsAttempt ==
    InstallInv /\ (FetchSums \/ Download \/ Verify \/ Extract \/ Extracted
                       \/ SelfCheck \/ Swap \/ MoveAside \/ Place)
        => Fitting'
<1> SUFFICES ASSUME InstallInv,
                    FetchSums \/ Download \/ Verify \/ Extract \/ Extracted
                       \/ SelfCheck \/ Swap \/ MoveAside \/ Place
             PROVE  Fitting'
  OBVIOUS
<1>1. UNCHANGED <<host, installer>>
  BY DEF FetchSums, Download, Verify, Extract, Extracted, SelfCheck, Swap, MoveAside,
     Place, hostVars
<1>2. pc # "idle"
  BY DEF FetchSums, Download, Verify, Extract, Extracted, SelfCheck, Swap, MoveAside,
     Place
<1>3. Gives \/ UNCHANGED <<method, asset>>
  BY DEF FetchSums, Download, Verify, Extract, Extracted, SelfCheck, Swap, MoveAside,
     Place
<1> QED
  BY <1>1, <1>2, <1>3 DEF InstallInv, Fitting, Fits, HostMethods, Gives

-----------------------------------------------------------------------------
(* What begins an attempt, and what follows it *)

(* An attempt begins with a kind that DetectMethod found.                   *)
LEMMA StartsFitting == ASSUME InstallInv, NEW m \in Methods, StartAttempt(m) PROVE InstallInv'
<1>1. m \in HostMethods
  BY DetectedFits DEF InstallInv, Fitting, StartAttempt
<1>2. tries' \in 0..MaxAttempts
  BY InstallConstants DEF InstallInv, InstallTypeOK, StartAttempt
<1>3. InstallTypeOK'
  BY <1>2 DEF InstallInv, InstallTypeOK, StartAttempt, hostVars, programs, service
<1>4. Checked' /\ Placed'
  BY DEF InstallInv, Checked, Placed, StartAttempt, hostVars, programs, service
<1>5. m # "none"
  BY DEF Methods, Archives, NativeOf
<1>6. Fitting'
  BY <1>1, <1>5 DEF InstallInv, Fitting, Fits, HostMethods, StartAttempt, hostVars
<1> QED
  BY <1>3, <1>4, <1>6 DEF InstallInv

(* The asset is chosen among those of the kind and the architecture.        *)
LEMMA SelectsFitting == InstallInv /\ Select => InstallInv'
<1> SUFFICES ASSUME InstallInv, Select PROVE InstallInv'
  OBVIOUS
<1>1. method \in HostMethods
  BY DEF InstallInv, Fitting, Select
<1>2. \A a \in SelectAsset(method, host.arch) : a \in listing /\ Fits(a)
  BY <1>1, SelectedFits
<1>3. \/ Gives
      \/ asset' \in listing /\ Fits(asset') /\ pc' = "get" /\ method' = method
  BY <1>2 DEF Select
<1>4. UNCHANGED <<hostVars, programs, service, installer, tries, crashes>>
      /\ (dir' = dir \/ dir' = "none")
  BY DEF Select
<1>5. InstallTypeOK'
  BY <1>3, <1>4 DEF InstallInv, InstallTypeOK, Gives, hostVars, programs, service
<1>6. Checked' /\ Placed'
  BY <1>3, <1>4 DEF InstallInv, Checked, Placed, Gives, hostVars, programs, service,
     Select
<1>7. Fitting'
  BY <1>1, <1>3, <1>4 DEF InstallInv, Fitting, Fits, HostMethods, Gives, hostVars, Select
<1> QED
  BY <1>5, <1>6, <1>7 DEF InstallInv

(* A command is launched with the asset of the attempt, and the service     *)
(* stops only for a program at its path.                                    *)
LEMMA LaunchKeeps == InstallInv /\ (Launch \/ InstallerRuns) => InstallInv'
<1> SUFFICES ASSUME InstallInv, Launch \/ InstallerRuns PROVE InstallInv'
  OBVIOUS
<1>1. InstallTypeOK'
  BY DEF InstallInv, InstallTypeOK, Launch, InstallerRuns, Gives, hostVars, programs,
     service, attempt
<1>2. Checked' /\ Placed'
  BY DEF InstallInv, Checked, Placed, Launch, InstallerRuns, Gives, hostVars, programs,
     service, attempt, Whole
<1>3. Fitting'
  <2>1. host' = host /\ (Gives \/ UNCHANGED <<pc, method, asset>>)
    BY DEF Launch, InstallerRuns, hostVars, attempt
  <2>2. installer' \in {installer, asset, NoAsset}
    BY DEF Launch, InstallerRuns
  <2> QED
    BY <2>1, <2>2 DEF InstallInv, Fitting, Fits, HostMethods, Gives
<1> QED
  BY <1>1, <1>2, <1>3 DEF InstallInv

(* A service that is dead is not the one moved aside; one that starts has   *)
(* its program in place, so that the one moved aside is left over.          *)
LEMMA RestartKeeps == InstallInv /\ (Dies \/ Startup) => InstallInv'
<1> SUFFICES ASSUME InstallInv, Dies \/ Startup PROVE InstallInv'
  OBVIOUS
<1>1. crashes' \in 0..MaxCrashes
  BY InstallConstants DEF InstallInv, InstallTypeOK, Dies, Startup
<1>2. InstallTypeOK'
  BY <1>1 DEF InstallInv, InstallTypeOK, Dies, Startup, Gives, hostVars, programs,
     service, attempt
<1>3. Checked' /\ Placed'
  BY DEF InstallInv, Checked, Placed, Dies, Startup, Gives, hostVars, programs,
     service, attempt, Whole
<1>4. Fitting'
  BY DEF InstallInv, Fitting, Fits, HostMethods, Dies, Startup, Gives, hostVars, attempt
<1> QED
  BY <1>2, <1>3, <1>4 DEF InstallInv

-----------------------------------------------------------------------------
(* Together *)

(* Every program, kind and asset is whole and fits at the start.            *)
LEMMA InstallStarts == InstallInit => InstallInv
<1> SUFFICES ASSUME InstallInit PROVE InstallInv
  OBVIOUS
<1>1. tries \in 0..MaxAttempts /\ crashes \in 0..MaxCrashes
  BY InstallConstants DEF InstallInit
<1>2. InstallTypeOK
  BY <1>1 DEF InstallInit, InstallTypeOK
<1>3. host.os \in DOMAIN Owners /\ host.owner \in Owners[host.os]
  BY DEF InstallInit
<1> QED
  BY <1>2, <1>3 DEF InstallInit, InstallInv, Checked, Placed, Fitting, Whole

(* Every step of the updater, or of another part, keeps the invariant.      *)
LEMMA InstallSteps == InstallInv /\ [InstallNext]_installVars => InstallInv'
<1> SUFFICES ASSUME InstallInv, [InstallNext]_installVars PROVE InstallInv'
  OBVIOUS
<1>1. CASE UNCHANGED installVars
  BY <1>1 DEF installVars, hostVars, programs, service, attempt, InstallInv,
     InstallTypeOK, Checked, Placed, Fitting, Fits, HostMethods
<1>2. CASE FetchSums \/ Download \/ Verify \/ Extract \/ Extracted \/ SelfCheck
             \/ Swap \/ MoveAside \/ Place
  BY <1>2, FilesAttempt, FitsAttempt DEF InstallInv
<1> QED
  BY <1>1, <1>2, StartsFitting, SelectsFitting, LaunchKeeps, RestartKeeps
     DEF InstallNext

(* The invariant is about what the property is about.                       *)
LEMMA InstallHolds == InstallInv => ProgramIsWhole
BY DEF InstallInv, Placed, Whole, Fitting, Fits, HostMethods, ProgramIsWhole
=============================================================================
