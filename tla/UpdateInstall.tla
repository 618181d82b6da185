--------------------------- MODULE UpdateInstall ---------------------------
(***************************************************************************)
(* What an update attempt does to the files of the host (updater.go: run,  *)
(* swapBinary, Startup; method.go, assets.go, sums.go, download.go,        *)
(* extract.go, plan.go).  SelfUpdate has the requests, reports and markers *)
(* around it.                                                              *)
(*                                                                         *)
(* Contents are "none" (no file), "part" (cut short), "current" (the       *)
(* version that runs), "wanted" (the one asked for) and "other".  host and *)
(* listing are chosen by Init and never change.  A path that is in use     *)
(* cannot be removed or replaced on Windows.                               *)
(***************************************************************************)
EXTENDS Naturals

CONSTANTS
    MaxAttempts,  \* bound on update requests
    MaxCrashes    \* bound on crashes of the service

ASSUME InstallConstants == {MaxAttempts, MaxCrashes} \subseteq Nat

VARIABLES
    host,      \* its OS, what the OS says installed the program, its architecture
    listing,   \* files that SHA256SUMS of the release lists
    (* Files *)
    exe,       \* the program
    exeNew,    \* exe.new
    exeOld,    \* exe.old, on Windows
    dir,       \* the download directory: empty, a .part, or a file verified
    (* The service *)
    running,   \* the program it runs, or "none"
    inOld,     \* its image is exe.old
    pc,        \* place in run and swapBinary
    method,    \* DetectMethod
    asset,     \* SelectAsset
    installer, \* the command launched, still to do its work
    (* Bookkeeping of the model *)
    tries, crashes

hostVars    == <<host, listing>>
programs    == <<exe, exeNew, exeOld>>
service     == <<running, inOld>>
attempt     == <<pc, method, asset>>
installVars == <<hostVars, programs, dir, service, attempt, installer, tries, crashes>>

Archives == {"linux-archive", "macos-archive", "windows-zip"}
NativeOf == [dpkg |-> "deb", rpm |-> "rpm", receipt |-> "macos-pkg", msi |-> "msi"]
ArchiveOf == [linux |-> "linux-archive", darwin |-> "macos-archive",
              windows |-> "windows-zip"]
Methods == Archives \cup {NativeOf[o] : o \in DOMAIN NativeOf}
Owners == [linux |-> {"dpkg", "rpm", "none"}, darwin |-> {"receipt", "none"},
           windows |-> {"msi", "none"}]

(* What the release pipeline builds: rpm file names carry a build number, the
   macOS package is for all architectures, Windows has amd64 only. *)
Asset(m, a, b) == [method |-> m, arch |-> a, build |-> b]
ReleaseOf(m, archs) ==
    CASE m = "macos-pkg" -> {Asset(m, "any", 1)}
      [] m \in {"msi", "windows-zip"} -> {Asset(m, a, 1) : a \in archs \cap {"amd64"}}
      [] m = "rpm" -> {Asset(m, a, b) : a \in archs, b \in 1..2}
      [] OTHER -> {Asset(m, a, 1) : a \in archs}
Release(ms, archs) == UNION {ReleaseOf(m, archs) : m \in ms}

NoAsset == Asset("none", "any", 0)

InstallInit ==
    /\ \E os \in DOMAIN Owners, arch \in {"amd64", "arm64", "386"} :
          \E owner \in Owners[os] : host = [os |-> os, owner |-> owner, arch |-> arch]
    /\ \E ms \in {Methods, Archives}, archs \in SUBSET {"amd64", "arm64"} :
          listing = Release(ms, archs)
    /\ exe = "current" /\ exeNew = "none" /\ exeOld = "none"
    /\ dir = "none"
    /\ running = "current" /\ inOld = FALSE
    /\ pc = "idle" /\ method = "none" /\ asset = NoAsset
    /\ installer = NoAsset
    /\ tries = 0 /\ crashes = 0

-----------------------------------------------------------------------------
(* The attempt *)

(* What the probes name as the owner; one that fails, or is missing, names none. *)
Probed == {host.owner, "none"}

(* The method of that owner, or the archive's *)
DetectMethod ==
    {IF owner = "none" THEN ArchiveOf[host.os] ELSE NativeOf[owner] : owner \in Probed}

StartAttempt(m) ==
    /\ running = "current" /\ pc = "idle"   \* CheckTarget: strictly forward
    /\ tries < MaxAttempts
    /\ tries' = tries + 1
    /\ m \in DetectMethod
    /\ method' = m
    /\ pc' = "sums"
    /\ UNCHANGED <<hostVars, programs, dir, service, asset, installer, crashes>>

(* finish with a failure *)
Gives == pc' = "idle" /\ method' = "none" /\ asset' = NoAsset

(* Of several builds of an rpm the first name. *)
SelectAsset(m, arch) ==
    {a \in listing :
        /\ a.method = m
        /\ a.arch \in {arch, "any"}
        /\ \A b \in listing : b.method = m /\ b.arch = a.arch => a.build <= b.build}

(* ParseSHA256SUMS: a list that is malformed or contradicts itself is not used,
   nor is one that cannot be fetched. *)
FetchSums ==
    /\ pc = "sums"
    /\ \/ pc' = "select" /\ UNCHANGED <<method, asset>>
       \/ Gives
    /\ UNCHANGED <<hostVars, programs, dir, service, installer, tries, crashes>>

Select ==
    /\ pc = "select"
    /\ IF SelectAsset(method, host.arch) = {}
       THEN Gives /\ UNCHANGED dir
       ELSE /\ asset' \in SelectAsset(method, host.arch)
            /\ pc' = "get"
            /\ dir' = "none"
            /\ UNCHANGED method
    /\ UNCHANGED <<hostVars, programs, service, installer, tries, crashes>>

(* FetchAsset: into a .part, which gets its name when its sum is right. *)
Download ==
    /\ pc = "get"
    /\ dir' = "part"
    /\ pc' = "verify"
    /\ UNCHANGED <<hostVars, programs, service, method, asset, installer, tries, crashes>>

Verify ==
    /\ pc = "verify"
    /\ \/ /\ dir' = "asset"
          /\ pc' = IF method \in Archives THEN "extract" ELSE "launch"
          /\ UNCHANGED <<method, asset>>
       \/ dir' = "none" /\ Gives
    /\ UNCHANGED <<hostVars, programs, service, installer, tries, crashes>>

(* MUTANT of Extract: swapped in before it is filled *)
ExtractSwapsAtOnce ==
    /\ pc = "extract"
    /\ exeNew' = "part" /\ pc' = "swap"
    /\ UNCHANGED <<hostVars, exe, exeOld, dir, service, method, asset, installer, tries,
                   crashes>>

(* ExtractBinary truncates exe.new and fills it with what the archive has; an
   archive it cannot open or that has no program leaves exe.new as it was. *)
Extract ==
    /\ pc = "extract"
    /\ \/ exeNew' = "part" /\ pc' = "extracting" /\ UNCHANGED <<method, asset>>
       \/ Gives /\ UNCHANGED exeNew
    /\ UNCHANGED <<hostVars, exe, exeOld, dir, service, installer, tries, crashes>>

Extracted ==
    /\ pc = "extracting"
    /\ \/ exeNew' \in {"wanted", "other"} /\ pc' = "check" /\ UNCHANGED <<method, asset>>
       \/ exeNew' = "none" /\ Gives
    /\ UNCHANGED <<hostVars, exe, exeOld, dir, service, installer, tries, crashes>>

(* MUTANT of Reports: it runs, whatever version it reports *)
ReportsAnything(program) == program \in {"wanted", "other"}

(* The self-check: it runs and reports the version asked for. *)
Reports(program) == program = "wanted"

SelfCheck ==
    /\ pc = "check"
    /\ IF Reports(exeNew)
       THEN pc' = "swap" /\ UNCHANGED <<exeNew, method, asset>>
       ELSE exeNew' = "none" /\ Gives
    /\ UNCHANGED <<hostVars, exe, exeOld, dir, service, installer, tries, crashes>>

(* ReplaceExecutable: one rename over the program, or, on Windows, the program
   moved aside and the new one put in its place. *)
Swap ==
    /\ pc = "swap" /\ host.os # "windows"
    /\ exeNew' = "none"
    /\ \/ exe' = exeNew /\ pc' = "launch" /\ UNCHANGED <<method, asset>>
       \/ Gives /\ UNCHANGED exe
    /\ UNCHANGED <<hostVars, exeOld, dir, service, installer, tries, crashes>>

MoveAside ==
    /\ pc = "swap" /\ host.os = "windows"
    /\ \/ /\ exe # "none" /\ ~inOld
          /\ exeOld' = exe
          /\ exe' = "none"
          /\ inOld' = TRUE
          /\ pc' = "place"
          /\ UNCHANGED <<exeNew, method, asset>>
       \/ /\ exeOld' = IF inOld THEN exeOld ELSE "none"
          /\ exeNew' = "none"
          /\ Gives
          /\ UNCHANGED <<exe, inOld>>
    /\ UNCHANGED <<hostVars, dir, running, installer, tries, crashes>>

Place ==
    /\ pc = "place"
    /\ exeNew' = "none"
    /\ \/ exe' = exeNew /\ pc' = "launch" /\ UNCHANGED <<exeOld, inOld, method, asset>>
       \/ exe' = exeOld /\ exeOld' = "none" /\ inOld' = FALSE /\ Gives
       \/ UNCHANGED <<exe, exeOld, inOld>> /\ Gives   \* restoring failed too
    /\ UNCHANGED <<hostVars, dir, running, installer, tries, crashes>>

(* The marker is written and the installer, or the restart, launched, or one of
   the two fails. *)
Launch ==
    /\ pc = "launch"
    /\ installer' \in {installer, asset}
    /\ Gives
    /\ UNCHANGED <<hostVars, programs, dir, service, tries, crashes>>

-----------------------------------------------------------------------------
(* Around it *)

(* The command launched: a package manager installs the file it was handed, if
   it is still there; both stop the service for its new program. *)
InstallerRuns ==
    /\ installer # NoAsset
    /\ installer' = NoAsset
    /\ \/ /\ installer.method \notin Archives => dir = "asset"
          /\ exe' = IF installer.method \in Archives THEN exe ELSE "wanted"
          /\ running' = "none" /\ inOld' = FALSE
          /\ Gives
       \/ UNCHANGED <<exe, service, attempt>>
    /\ UNCHANGED <<hostVars, exeNew, exeOld, dir, tries, crashes>>

Dies ==
    /\ running # "none"
    /\ crashes < MaxCrashes
    /\ crashes' = crashes + 1
    /\ running' = "none" /\ inOld' = FALSE
    /\ Gives
    /\ UNCHANGED <<hostVars, programs, dir, installer, tries>>

(* Startup removes the downloads and the previous program. *)
Startup ==
    /\ running = "none"
    /\ exe # "none"
    /\ running' = exe
    /\ dir' = "none"
    /\ exeOld' = "none"
    /\ UNCHANGED <<hostVars, exe, exeNew, inOld, attempt, installer, tries, crashes>>

InstallNext ==
    \/ \E m \in Methods : StartAttempt(m)
    \/ FetchSums
    \/ Select
    \/ Download
    \/ Verify
    \/ Extract
    \/ Extracted
    \/ SelfCheck
    \/ Swap
    \/ MoveAside
    \/ Place
    \/ Launch
    \/ InstallerRuns
    \/ Dies
    \/ Startup

-----------------------------------------------------------------------------
(* Properties *)

InstallTypeOK ==
    /\ {exe, exeOld, running} \subseteq {"none", "current", "wanted", "other"}
    /\ exeNew \in {"none", "part", "wanted", "other"}
    /\ dir \in {"none", "part", "asset"}
    /\ inOld \in BOOLEAN
    /\ pc \in {"idle", "sums", "select", "get", "verify", "extract", "extracting", "check", "swap",
               "place", "launch"}
    /\ {asset, installer} \subseteq listing \cup {NoAsset}
    /\ method \in Methods \cup {"none"}
    /\ tries \in 0..MaxAttempts /\ crashes \in 0..MaxCrashes

(* Wherever an attempt fails or the service dies, a whole program of the current
   or the wanted version is at exe; only on Windows, from the first rename on
   until the second or until the old one is put back, it is at exe.old instead,
   and no later attempt or startup takes that away.  A command is handed an asset
   of the host's own kind and architecture. *)
ProgramIsWhole ==
    /\ \/ exe \in {"current", "wanted"}
       \/ /\ host.os = "windows" /\ exe = "none"
          /\ exeOld \in {"current", "wanted"}
    /\ \A a \in {asset, installer} \ {NoAsset} :
          /\ a.method \in {NativeOf[o] : o \in Owners[host.os] \ {"none"}}
                              \cup {ArchiveOf[host.os]}
          /\ a.arch \in {host.arch, "any"}
=============================================================================
