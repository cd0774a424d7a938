--------------------------- MODULE ServerLifecycle ---------------------------
(***************************************************************************)
(* The life of the Server process: server::start with its ordered          *)
(* infrastructure, the lease-bounded control loop of server::run and the   *)
(* teardown of server::shutdown, over a clock and over the license and     *)
(* lease documents found on disk.  Requests are those of ServerRequests;   *)
(* Communication has the threads that bring them in.                       *)
(***************************************************************************)
EXTENDS Integers, ServerRequests

CONSTANTS
  MaxTime,       \* bound: the clock stops there
  Limits,        \* max_connections values a document may name
  StartupModes,  \* project_startup_mode values of server.json, and "none"
  None           \* a document that is not loaded

ASSUME TimeAssumption == MaxTime \in Nat
ASSUME LimitsAssumption == Limits \subseteq Nat
ASSUME StartupAssumption == StartupModes \subseteq {"none", "load", "publish", "rebuild"}

Times == 0..MaxTime

\* The documents after parsing: server.license and server.lease.
Licenses == [expires : Times, limit : Limits]
Leases == [notBefore : Times, expires : Times, limit : Limits]

ASSUME NoneAssumption == None \notin Licenses \cup Leases

VARIABLES
  pc,        \* where start(), run() or shutdown() is
  startup,   \* configuration.project
  licenseFile, leaseFile,   \* the files on disk
  now,       \* system_clock
  license, identity, lease, authentication, mode,   \* server_context
  communications,  \* endpoints are up
  limit,     \* tcp_connection_gate::limit
  running, slot,
  started    \* start() has returned success

files == <<startup, licenseFile, leaseFile>>
infrastructure == <<license, identity, lease, authentication, mode, communications, limit>>
vars == <<pc, files, now, infrastructure, running, slot, started>>

StartSteps == {"license", "identity", "lease", "authentication", "communication", "project"}
RunSteps == {"check", "wait", "recheck"}
StopSteps == {"stop_communication", "stop_project", "stop_authentication", "stop_lease",
              "stop_identity", "stop_license"}

\* The type invariant.
TypeOK ==
  /\ pc \in StartSteps \cup RunSteps \cup StopSteps \cup {"failed", "stopped"}
  /\ startup \in StartupModes
  /\ licenseFile \in Licenses /\ leaseFile \in Leases
  /\ now \in Times
  /\ license \in Licenses \cup {None}
  /\ lease \in Leases \cup {None}
  /\ identity \in BOOLEAN /\ authentication \in BOOLEAN /\ communications \in BOOLEAN
  /\ mode \in Modes
  /\ limit \in Nat
  /\ running \in BOOLEAN
  /\ slot \in Slots
  /\ started \in BOOLEAN

\* server.json was loaded; a rejected configuration ends the process at once.
Init ==
  /\ pc = "license"
  /\ startup \in StartupModes
  /\ licenseFile \in Licenses /\ leaseFile \in Leases
  /\ now \in Times
  /\ license = None /\ lease = None
  /\ identity = FALSE /\ authentication = FALSE /\ communications = FALSE
  /\ mode = "full"
  /\ limit = 0
  /\ running = FALSE
  /\ slot = EmptySlot
  /\ started = FALSE

Tick ==
  /\ now < MaxTime
  /\ now' = now + 1
  /\ UNCHANGED <<pc, files, infrastructure, running, slot, started>>

-----------------------------------------------------------------------------
(***************************************************************************)
(* server::start                                                           *)
(***************************************************************************)

\* load_server_license accepts the document.
LicenseAccepted(doc, time) == doc.limit > 0 /\ time < doc.expires

\* load_server_lease accepts the document: it only narrows the license.
LeaseAccepted(doc, lic, time) ==
  /\ doc.limit > 0 /\ doc.limit <= lic.limit
  /\ doc.notBefore < doc.expires
  /\ doc.expires <= lic.expires
  /\ doc.notBefore <= time /\ time < doc.expires

LoadLicense ==
  /\ pc = "license"
  /\ \/ /\ LicenseAccepted(licenseFile, now)
        /\ license' = licenseFile /\ pc' = "identity"
     \/ license' = None /\ pc' = "failed"        \* rejected, or unreadable
  /\ UNCHANGED <<files, now, identity, lease, authentication, mode, communications, limit,
                 running, slot, started>>

\* identity.start(); a failure stops it and clears the license.
StartIdentity ==
  /\ pc = "identity"
  /\ \/ identity' = TRUE /\ pc' = "lease" /\ UNCHANGED license
     \/ identity' = FALSE /\ license' = None /\ pc' = "failed"
  /\ UNCHANGED <<files, now, lease, authentication, mode, communications, limit, running,
                 slot, started>>

LoadLease ==
  /\ pc = "lease"
  /\ \/ /\ LeaseAccepted(leaseFile, license, now)
        /\ lease' = leaseFile /\ pc' = "authentication"
        /\ UNCHANGED <<identity, license>>
     \/ /\ lease' = None /\ identity' = FALSE /\ license' = None
        /\ pc' = "failed"
  /\ UNCHANGED <<files, now, authentication, mode, communications, limit, running, slot,
                 started>>

\* Authentication decides the mode: its failure means DEMO, not a failed start.
StartAuthentication ==
  /\ pc = "authentication"
  /\ \/ authentication' = TRUE /\ mode' = "full"
     \/ authentication' = FALSE /\ mode' = "demo"
  /\ pc' = "communication"
  /\ UNCHANGED <<files, now, license, identity, lease, communications, limit, running, slot,
                 started>>

\* Mutant: the failure path keeps the Server identity and its token.
StartCommunication_KeepsIdentity ==
  /\ pc = "communication"
  /\ limit' = IF mode = "demo" THEN 1 ELSE lease.limit
  /\ \/ /\ communications' = TRUE /\ running' = TRUE
        /\ pc' = "project"
        /\ UNCHANGED <<authentication, identity>>
     \/ /\ communications' = FALSE
        /\ authentication' = FALSE
        /\ pc' = "failed"
        /\ UNCHANGED <<running, identity>>
  /\ UNCHANGED <<files, now, license, lease, mode, slot, started>>

\* communications.start(): the gate gets its limit, then every endpoint starts;
\* if one fails, the ones that did start are stopped.
StartCommunication ==
  /\ pc = "communication"
  /\ limit' = IF mode = "demo" THEN 1 ELSE lease.limit
  /\ \/ /\ communications' = TRUE /\ running' = TRUE
        /\ pc' = "project"
        /\ UNCHANGED <<authentication, identity>>
     \/ /\ communications' = FALSE
        /\ authentication' = FALSE /\ identity' = FALSE
        /\ pc' = "failed"
        /\ UNCHANGED running
  /\ UNCHANGED <<files, now, license, lease, mode, slot, started>>

\* The optional Project of server.json; a failure is a full shutdown().
StartProject ==
  /\ pc = "project"
  /\ \E out \in IF startup = "none" THEN {Outcome("success", slot)} ELSE Execute(startup, slot) :
       /\ slot' = out.slot
       /\ started' = (out.status = "success")
       /\ pc' = IF out.status = "success" THEN "check" ELSE "stop_communication"
       /\ running' = (out.status = "success")
  /\ UNCHANGED <<files, now, infrastructure>>

-----------------------------------------------------------------------------
(***************************************************************************)
(* server::run                                                             *)
(***************************************************************************)

LeaseValid == lease # None /\ lease.notBefore <= now /\ now < lease.expires

\* The lease check at the top of the loop, and the one after the pop.
CheckLease ==
  /\ pc \in {"check", "recheck"}
  /\ ~LeaseValid
  /\ running' = FALSE
  /\ pc' = "stop_communication"
  /\ UNCHANGED <<files, now, infrastructure, slot, started>>

EnterWait ==
  /\ pc = "check"
  /\ LeaseValid
  /\ pc' = "wait"
  /\ UNCHANGED <<files, now, infrastructure, running, slot, started>>

\* wait_pop_until: a message, or the deadline.
WaitEnds ==
  /\ pc = "wait"
  /\ \/ pc' = "recheck" /\ UNCHANGED running
     \/ now >= lease.expires /\ running' = FALSE /\ pc' = "stop_communication"
  /\ UNCHANGED <<files, now, infrastructure, slot, started>>

ExecuteOne(kind) ==
  /\ pc = "recheck"
  /\ LeaseValid
  /\ \E out \in ExecuteMessage(mode, kind, slot) : slot' = out.slot
  /\ running' = (kind # "shutdown")
  /\ pc' = IF kind = "shutdown" THEN "stop_communication" ELSE "check"
  /\ UNCHANGED <<files, now, infrastructure, started>>

-----------------------------------------------------------------------------
(***************************************************************************)
(* server::shutdown                                                        *)
(***************************************************************************)

\* Mutant: the lease is cleared before the endpoints stop.
StopCommunication_LeaseFirst ==
  /\ pc = "stop_communication"
  /\ IF lease # None
     THEN lease' = None /\ UNCHANGED <<pc, communications>>
     ELSE communications' = FALSE /\ pc' = "stop_project" /\ UNCHANGED lease
  /\ UNCHANGED <<files, now, license, identity, authentication, mode, limit, running, slot,
                 started>>

StopCommunication ==
  /\ pc = "stop_communication"
  /\ communications' = FALSE
  /\ pc' = "stop_project"
  /\ UNCHANGED <<files, now, license, identity, lease, authentication, mode, limit, running,
                 slot, started>>

StopProject ==
  /\ pc = "stop_project"
  /\ slot' = EmptySlot
  /\ pc' = "stop_authentication"
  /\ UNCHANGED <<files, now, infrastructure, running, started>>

StopAuthentication ==
  /\ pc = "stop_authentication"
  /\ authentication' = FALSE
  /\ pc' = "stop_lease"
  /\ UNCHANGED <<files, now, license, identity, lease, mode, communications, limit, running,
                 slot, started>>

StopLease ==
  /\ pc = "stop_lease"
  /\ lease' = None
  /\ pc' = "stop_identity"
  /\ UNCHANGED <<files, now, license, identity, authentication, mode, communications, limit,
                 running, slot, started>>

StopIdentity ==
  /\ pc = "stop_identity"
  /\ identity' = FALSE
  /\ pc' = "stop_license"
  /\ UNCHANGED <<files, now, license, lease, authentication, mode, communications, limit,
                 running, slot, started>>

\* shutdown() returns: to run(), or to the start() whose Project failed.
StopLicense ==
  /\ pc = "stop_license"
  /\ license' = None
  /\ pc' = IF started THEN "stopped" ELSE "failed"
  /\ UNCHANGED <<files, now, identity, lease, authentication, mode, communications, limit,
                 running, slot, started>>

Ended == pc \in {"failed", "stopped"} /\ UNCHANGED vars

Next ==
  \/ Tick
  \/ LoadLicense \/ StartIdentity \/ LoadLease \/ StartAuthentication
  \/ StartCommunication \/ StartProject
  \/ CheckLease \/ EnterWait \/ WaitEnds \/ \E kind \in RequestKinds : ExecuteOne(kind)
  \/ StopCommunication \/ StopProject \/ StopAuthentication \/ StopLease \/ StopIdentity
  \/ StopLicense \/ Ended

Spec == Init /\ [][Next]_vars

-----------------------------------------------------------------------------
(***************************************************************************)
(* Properties                                                              *)
(***************************************************************************)

\* A process that did not start, or has stopped, holds nothing that acts: no
\* endpoint, no credential, no Project, whichever step of start() failed.
FailsClosed ==
  pc \in {"failed", "stopped"} =>
    ~communications /\ ~authentication /\ ~identity /\ ~running /\ slot = EmptySlot

\* As long as endpoints are up, from the first accept in start() to the stop in
\* shutdown(), the license, the identity and the lease behind them are loaded,
\* and neither the connection limit nor the lease goes beyond the license.
ServesUnderLicense ==
  communications =>
    /\ license # None /\ lease # None /\ identity
    /\ limit <= license.limit /\ limit > 0
    /\ lease.expires <= license.expires

\* The Project pointer is null exactly when the Server reports UNLOADED.
SlotMeansState == slot.project <=> slot.state # "unloaded"

\* In DEMO mode the Runtime never executes: no sequence of permitted requests,
\* the startup Project included, reaches RUN or FREEZE.
DemoNeverRuns == mode = "demo" => slot.state \in {"unloaded", "loaded"}

=============================================================================
