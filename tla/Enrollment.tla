----------------------------- MODULE Enrollment -----------------------------
(***************************************************************************)
(* How the service gets its identity (main.go: waitForConfig; config.go:   *)
(* Load, SaveIdentity, SaveSettings, Mutate; agent.go: enrollWithRetry,    *)
(* enroll).  The operator puts a one-time token into agent.json; the       *)
(* server spends it on a new agent, whose identity goes to identity.json,  *)
(* which is written in place: a write that fails, or that a crash cuts     *)
(* short, leaves a file that Load refuses.                                 *)
(*                                                                         *)
(* The server makes one agent of each token, so the token names the agent. *)
(* A write that a crash cuts short is a torn write and then a crash.       *)
(***************************************************************************)
EXTENDS Naturals

CONSTANTS
    Tokens,     \* one-time tokens the operator can be given
    NoToken,    \* an empty enrollment_token, agent_id or agent_api_key
    MaxFaults   \* bound on failed writes, lost answers, failing sources and process ends

ASSUME EnrollmentConstants ==
    /\ NoToken \notin Tokens
    /\ MaxFaults \in Nat

VARIABLES
    (* Files *)
    settings,  \* agent.json: "unset" (no server_url), "torn", or its token
    disk,      \* identity.json
    torn,      \* it holds part of a write
    (* The process *)
    phase,     \* waitForConfig, enroll, its two writes, the loops of Run
    token,     \* State.Settings.EnrollmentToken
    identity,  \* State.Identity
    creds,     \* the identity of the HTTP client
    (* The server *)
    spent,     \* tokens it has made an agent of
    (* Bookkeeping of the model *)
    answered,  \* agents the process was told of
    givenUp,   \* of those, lost as no write had put them on disk in time
    faults

files    == <<settings, disk, torn>>
process  == <<phase, token, identity, creds>>
enrolled == <<answered, givenUp, spent>>
enrollVars == <<files, process, enrolled, faults>>

(* config.Identity: the agent, and what packages reports persist in it *)
NoIdentity == [agent |-> NoToken, list |-> {}, recent |-> FALSE]
New(t) == [NoIdentity EXCEPT !.agent = t]

EnrollInit ==
    /\ settings = "unset"
    /\ disk = NoIdentity
    /\ torn = FALSE
    /\ phase = "off"
    /\ token = NoToken
    /\ identity = NoIdentity
    /\ creds = NoToken
    /\ spent = {}
    /\ answered = {}
    /\ givenUp = {}
    /\ faults = 0

Fault == faults < MaxFaults /\ faults' = faults + 1

-----------------------------------------------------------------------------
(* The operator *)

(* A token is put into agent.json at any time, the service running or not, *)
(* enrolled or not.                                                        *)
Configure(t) ==
    /\ t \notin spent
    /\ settings # t
    /\ settings' = t
    /\ UNCHANGED <<disk, torn, process, enrolled, faults>>

(* After an identity was lost: remove a file that Load refuses, ask for a token *)
Repair(t) ==
    /\ \/ torn
       \/ phase = "enrolling" /\ settings \in spent \cup {NoToken}
    /\ t \notin spent
    /\ settings' = t
    /\ torn' = FALSE
    /\ UNCHANGED <<disk, process, enrolled, faults>>

-----------------------------------------------------------------------------
(* identity.json *)

(* saveIdentityLocked: whole, refused before the file was opened, or cut short *)
Writes(id) ==
    \/ disk' = id /\ torn' = FALSE /\ UNCHANGED faults
    \/ Fault /\ UNCHANGED <<disk, torn>>
    \/ Fault /\ disk' = NoIdentity /\ torn' = TRUE

(* The write went through, for the goroutine that asked for it. *)
Written == faults' = faults

-----------------------------------------------------------------------------
(* The service *)

Start ==
    /\ phase = "off"
    /\ phase' = "waiting"
    /\ UNCHANGED <<files, token, identity, creds, enrolled, faults>>

(* MUTANT of Enrolled: judged by the token that is left to use *)
EnrolledIfNoToken(id) == id.agent # NoToken /\ settings = NoToken

(* State.Enrolled *)
Enrolled(id) == id.agent # NoToken

(* Load: both files parse, and there is a server_url. *)
Loads == settings \notin {"unset", "torn"} /\ ~torn

(* waitForConfig, which looks again later when they do not, New and the head of Run *)
Configured ==
    /\ phase = "waiting"
    /\ Loads
    /\ token' = settings
    /\ identity' = disk
    /\ creds' = disk.agent
    /\ phase' = IF Enrolled(disk) THEN "running" ELSE "enrolling"
    /\ UNCHANGED <<files, enrolled, faults>>

(* One round of enrollWithRetry.  Without a token, or with one that is spent,
   nothing changes and the next round comes. *)
Enroll ==
    /\ phase = "enrolling"
    /\ token # NoToken
    /\ token \notin spent
    /\ spent' = spent \cup {token}
    /\ \/ /\ answered' = answered \cup {token}
          /\ identity' = New(token)
          /\ phase' = "saving"
          /\ UNCHANGED faults
       \/ /\ Fault   \* the answer is lost, and the token with it
          /\ UNCHANGED <<answered, identity, phase>>
    /\ UNCHANGED <<files, token, creds, givenUp>>

(* enrollWithRetry: after an error the next round asks again, with the same token. *)
AfterSave(saved) == IF saved THEN "clearing" ELSE "enrolling"

Save ==
    /\ phase = "saving"
    /\ Writes(identity)
    /\ phase' = AfterSave(Written)
    /\ givenUp' = IF Written THEN givenUp ELSE givenUp \cup {identity.agent}
    /\ UNCHANGED <<settings, token, identity, creds, answered, spent>>

(* SaveSettings writes what Load read, without the token. *)
WritesSettings ==
    \/ settings' = NoToken /\ UNCHANGED faults
    \/ Fault /\ settings' \in {settings, "torn"}

(* An error of it is logged; SetIdentity follows. *)
ClearToken ==
    /\ phase = "clearing"
    /\ token' = NoToken
    /\ WritesSettings
    /\ creds' = identity.agent
    /\ phase' = "running"
    /\ UNCHANGED <<disk, torn, identity, enrolled>>

(* The process has an identity that the file has not: it is being saved, or *)
(* a later write of it (a Mutate) was cut short.                           *)
Unsaved ==
    phase \in {"saving", "clearing", "running"} /\ disk.agent # identity.agent

(* A stop or a crash *)
Ends ==
    /\ phase # "off"
    /\ Fault
    /\ phase' = "off"
    /\ token' = NoToken
    /\ identity' = NoIdentity
    /\ creds' = NoToken
    /\ givenUp' = IF Unsaved THEN givenUp \cup {identity.agent} ELSE givenUp
    /\ UNCHANGED <<files, answered, spent>>

EnrollStep ==
    \/ \E t \in Tokens : Configure(t) \/ Repair(t)
    \/ Start
    \/ Configured
    \/ Enroll
    \/ Save
    \/ ClearToken

-----------------------------------------------------------------------------
(* Properties *)

IdentityType(lists) == [agent : Tokens \cup {NoToken}, list : lists, recent : BOOLEAN]

EnrollTypeOK(lists) ==
    /\ settings \in Tokens \cup {NoToken, "unset", "torn"}
    /\ {disk, identity} \subseteq IdentityType(lists)
    /\ torn \in BOOLEAN
    /\ phase \in {"off", "waiting", "enrolling", "saving", "clearing", "running"}
    /\ {token, creds} \subseteq Tokens \cup {NoToken}
    /\ givenUp \subseteq answered /\ answered \subseteq spent /\ spent \subseteq Tokens
    /\ faults \in 0..MaxFaults

(* An agent that was told its identity keeps it, unless its save failed or
   the process ended before it was on disk, or while it was not, as a later
   write of the file had been cut short.  In particular a write that fails is
   made up for by the next one, and the agent does not enroll a second time
   while it has an identity, whatever tokens agent.json is given and whether
   or not the spent one was cleared.  The loops of Run start as the agent that
   the server registered. *)
IdentityOutlivesToken ==
    /\ \A t \in answered \ givenUp :
          \/ disk.agent = t
          \/ phase \in {"saving", "running"} /\ identity.agent = t
    /\ phase = "running" => creds = identity.agent /\ creds \in answered
=============================================================================
