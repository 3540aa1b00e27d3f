------------------------------ MODULE CstorBackup ------------------------------
(***************************************************************************)
(* The backup of several volumes by one process of the cStor plugin: calls *)
(* of CreateSnapshot (pkg/cstor/cstor.go), one after another, each with a  *)
(* checkBackupStatus goroutine (status.go) that polls the API server and   *)
(* may outlive its call.  All of them share one cloud connection:          *)
(* Conn.ExitServer and the server's port.  The server itself is taken as   *)
(* Transfer, which TransferServer implements.  When the backup has been    *)
(* made its snapshots may be deleted, again and again until it succeeds.   *)
(*                                                                         *)
(* The API server (maya-apiserver or CVC operator) and the agents in the   *)
(* cStor pools are outside the repository; they are modelled from the      *)
(* requests the plugin sends and the statuses it expects.                  *)
(***************************************************************************)
EXTENDS Integers

CONSTANTS
    Calls,     \* CreateSnapshot is called for the volumes 1..Calls
    NoContent, \* no object in the bucket
    Faults     \* sets of what may go wrong, see FaultKinds

(* "answer": the POST is executed but its answer is lost; "agent": an      *)
(* agent may fail while it sends; "late": an agent may start after the     *)
(* call it belongs to has returned; "delete": requests of DeleteSnapshot   *)
(* fail; the others name the step that fails.                              *)
FaultKinds == {"pvc", "post", "answer", "setup", "epoll", "agent", "late", "delete"}

ASSUME CallsAssumption == Calls \in Nat
ASSUME FaultsAssumption == Faults \subseteq SUBSET FaultKinds

VARIABLES
    faults,     \* the one of Faults that a behaviour is in
    phase, waiting, exitServer, object, result, \* of the current Upload, see Transfer
    bound,      \* a failed Upload has left its listening socket behind
    local,      \* Plugin.local: snapshots are not uploaded
    kind,       \* per volume: "single", or "base" or "incremental" of a schedule
    call,       \* the current call, 0 before the first
    step,       \* where it is
    ret,        \* what each call has returned: "none", "id", "error"
    pvcs,       \* volumes whose PVC is in the bucket
    bucket,     \* per call, the object under its file name
    api,        \* status of the CStorBackup resource, "none" without one
    bkpStatus,  \* Volume.backupStatus
    poll,       \* where the goroutine of a call is
    cleaned,    \* the snapshot a clean-up has deleted: "none", "own", "previous"
    agent,      \* what the agent of a volume does
    stream,     \* its connection: "none", "open", "fin", "taken"; "cut" by the server;
                \* "lost" when the server stops, or "missed" if it had ended by then
    to,         \* the call whose server it is connected to
    del         \* DeleteSnapshot: "none", "api", "object", and "done" for success

Volumes == 1..Calls
Final   == {"done", "failed"}
Objects == {NoContent} \cup [of : Volumes, whole : BOOLEAN]

Server == INSTANCE Transfer WITH Contents <- Objects

uploadVars == <<phase, waiting, object, result, bound>>
callVars   == <<faults, local, kind, call, step, ret, pvcs, bucket>>
pollVars   == <<bkpStatus, poll, cleaned>>
agentVars  == <<agent, stream, to>>
makeVars == <<uploadVars, exitServer, callVars, api, pollVars, agentVars>>
vars == <<makeVars, del>>

Init ==
    /\ faults \in Faults
    /\ phase = "returned" /\ waiting = FALSE /\ exitServer = FALSE
    /\ object = NoContent /\ result = "none" /\ bound = FALSE
    /\ local \in BOOLEAN
    /\ kind \in [Volumes -> {"single", "base", "incremental"}]
    /\ call = 0 /\ step = "idle"
    /\ ret       = [v \in Volumes |-> "none"]
    /\ pvcs      = {}
    /\ bucket    = [v \in Volumes |-> NoContent]
    /\ api       = [v \in Volumes |-> "none"]
    /\ bkpStatus = [v \in Volumes |-> "none"]
    /\ poll      = [v \in Volumes |-> "none"]
    /\ cleaned   = [v \in Volumes |-> "none"]
    /\ agent     = [v \in Volumes |-> "idle"]
    /\ stream    = [v \in Volumes |-> "none"]
    /\ to        = [v \in Volumes |-> 0]
    /\ del       = [v \in Volumes |-> "none"]
-------------------------------------------------------------------------------
(* CreateSnapshot                                                          *)

Returns(r) == ret' = [ret EXCEPT ![call] = r] /\ step' = "idle"

(* The first statement clears ExitServer.                                  *)
CreateSnapshot ==
    /\ step = "idle" /\ call < Calls
    /\ call' = call + 1
    /\ exitServer' = IF local THEN exitServer ELSE FALSE
    /\ step' = IF local THEN "post" ELSE "pvc"
    /\ UNCHANGED <<uploadVars, faults, local, kind, ret, pvcs, bucket, api, pollVars, agentVars>>

BackupPVC ==
    /\ step = "pvc"
    /\ \/ pvcs' = pvcs \cup {call} /\ step' = "post" /\ ret' = ret
       \/ "pvc" \in faults /\ Returns("error") /\ pvcs' = pvcs
    /\ UNCHANGED <<uploadVars, exitServer, faults, local, kind, call, bucket, api, pollVars, agentVars>>

(* sendBackupRequest; then the goroutine is started and Upload called.     *)
SendBackupRequest ==
    /\ step = "post"
    /\ \/ /\ api' = [api EXCEPT ![call] = "init"]
          /\ IF local
             THEN Returns("id") /\ UNCHANGED <<uploadVars, poll>>
             ELSE /\ step' = "upload" /\ ret' = ret
                  /\ poll' = [poll EXCEPT ![call] = "polling"]
                  /\ phase' = "starting" /\ waiting' = FALSE
                  /\ object' = NoContent /\ result' = "none" /\ bound' = bound
       \/ /\ \/ "post" \in faults /\ api' = api
             \/ "answer" \in faults /\ api' = [api EXCEPT ![call] = "init"]
          /\ Returns("error") /\ UNCHANGED <<uploadVars, poll>>
    /\ UNCHANGED <<exitServer, faults, local, kind, call, pvcs, bucket, bkpStatus, cleaned, agentVars>>

(* Variants: the status is returned; it is not looked at.                  *)
UploadReturnsStatus ==
    /\ step = "upload" /\ phase = "returned"
    /\ bucket' = [bucket EXCEPT ![call] = object]
    /\ Returns(bkpStatus[call])
    /\ UNCHANGED <<uploadVars, exitServer, faults, local, kind, call, pvcs, api, pollVars, agentVars>>

UploadReturnsOnTrue ==
    /\ step = "upload" /\ phase = "returned"
    /\ bucket' = [bucket EXCEPT ![call] = object]
    /\ IF result = "true" THEN Returns("id") ELSE Returns("error")
    /\ UNCHANGED <<uploadVars, exitServer, faults, local, kind, call, pvcs, api, pollVars, agentVars>>

UploadReturns ==
    /\ step = "upload" /\ phase = "returned"
    /\ bucket' = [bucket EXCEPT ![call] = object]
    /\ IF result = "true" /\ bkpStatus[call] = "done" THEN Returns("id") ELSE Returns("error")
    /\ UNCHANGED <<uploadVars, exitServer, faults, local, kind, call, pvcs, api, pollVars, agentVars>>
-------------------------------------------------------------------------------
(* Conn.Upload: the steps of Transfer, and what becomes of the streams     *)

ConnectedTo(k) == {v \in Volumes : to[v] = k /\ stream[v] \in {"open", "fin"}}

Unread(v) == \E u \in ConnectedTo(call) \ {v} : stream[u] = "fin"

UploadStep ==
    /\ step = "upload"
    /\ phase' = "failed" \/ bound' = bound
    /\ UNCHANGED <<callVars, api, pollVars>>

Listen ==
    /\ ~bound
    /\ UploadStep /\ Server!Listen
    /\ UNCHANGED agentVars

(* A stream that broke off is remembered by its agent, and then by the     *)
(* status it has reported.                                                 *)
Complete(v) == agent[v] # "broke" /\ api[v] # "failed"

(* The stream of v has ended and its writer is closed; or it is cut off: a *)
(* write or the close fails, the client is refused, or its hang-up is      *)
(* reported together with data that is not read yet.                       *)
Take(v) ==
    /\ phase = "serving"
    /\ UploadStep /\ Server!Take
    /\ v \in ConnectedTo(call)
    /\ \/ /\ stream[v] = "fin"
          /\ stream' = [stream EXCEPT ![v] = "taken"]
          /\ object' = [of |-> v, whole |-> Complete(v)]
       \/ /\ stream' = [stream EXCEPT ![v] = "cut"]
          /\ object' \in {[of |-> v, whole |-> FALSE], object}
    /\ waiting' = Unread(v)
    /\ UNCHANGED <<agent, to>>

(* disconnectAllClient closes the writer of a stream that is still there,  *)
(* perhaps after all its data, or leaves the client.                       *)
Disconnect(v) ==
    /\ phase = "closing"
    /\ UploadStep /\ Server!Take
    /\ v \in ConnectedTo(call)
    /\ object' \in {object} \cup [of : {v}, whole : {FALSE, Complete(v)}]
    /\ waiting' = waiting
    /\ stream' = [stream EXCEPT ![v] = IF @ = "fin" THEN "missed" ELSE "lost"]
    /\ UNCHANGED <<agent, to>>

TimeOut ==
    /\ UploadStep /\ Server!TimeOut
    /\ UNCHANGED agentVars

(* The time-out is over: ExitServer decides.                               *)
TestExit ==
    /\ UploadStep /\ (Server!Stay \/ Server!Close)
    /\ UNCHANGED agentVars

Return ==
    /\ UploadStep /\ Server!Return
    /\ ConnectedTo(call) = {}
    /\ waiting' = FALSE
    /\ UNCHANGED agentVars

LoseStreams ==
    stream' = [v \in Volumes |-> IF v \in ConnectedTo(call) THEN "lost" ELSE stream[v]]

(* Bind fails while another socket listens on the port.  Run's error       *)
(* returns close nothing.                                                  *)
Fail ==
    /\ \/ phase = "starting" /\ ("setup" \in faults \/ bound) /\ bound' = bound
       \/ phase = "serving" /\ "epoll" \in faults /\ bound' = TRUE
    /\ UploadStep /\ Server!Fail
    /\ UNCHANGED agentVars

ReturnFalse ==
    /\ UploadStep /\ Server!ReturnFalse
    /\ LoseStreams
    /\ UNCHANGED <<agent, to>>

Upload ==
    \/ Listen \/ TimeOut \/ TestExit \/ Return \/ Fail \/ ReturnFalse
    \/ \E v \in Volumes : Take(v) \/ Disconnect(v)
-------------------------------------------------------------------------------
(* checkBackupStatus                                                       *)

PollStep == UNCHANGED <<uploadVars, callVars, api, agentVars>>

(* Variant: a backup that has begun counts as completed.                   *)
CompletedOnceSeen(s) == s # "none"

Completed(s) == s \in Final

(* Variant: ExitServer is set before backupStatus.                         *)
PollStatusExitsFirst(k) ==
    /\ PollStep
    /\ poll[k] = "polling" /\ Completed(api[k])
    /\ exitServer' = TRUE
    /\ poll' = [poll EXCEPT ![k] = "cleanup"]
    /\ UNCHANGED <<bkpStatus, cleaned>>

(* A status has been fetched and is stored in the volume.                  *)
PollStatus(k) ==
    /\ PollStep
    /\ poll[k] = "polling"
    /\ bkpStatus' = [bkpStatus EXCEPT ![k] = api[k]]
    /\ poll' = [poll EXCEPT ![k] = IF Completed(api[k]) THEN "exit" ELSE "polling"]
    /\ UNCHANGED <<exitServer, cleaned>>

(* Variant: only a successful backup stops the server.                     *)
PollExitOnDone(k) ==
    /\ PollStep
    /\ poll[k] = "exit"
    /\ exitServer' = (exitServer \/ bkpStatus[k] = "done")
    /\ poll' = [poll EXCEPT ![k] = "cleanup"]
    /\ UNCHANGED <<bkpStatus, cleaned>>

PollExit(k) ==
    /\ PollStep
    /\ poll[k] = "exit"
    /\ exitServer' = TRUE
    /\ poll' = [poll EXCEPT ![k] = "cleanup"]
    /\ UNCHANGED <<bkpStatus, cleaned>>

(* cleanupCompletedBackup: which snapshot is deleted.                      *)
IsScheduled(k) == kind[k] # "single"

Targeted(k) ==
    CASE ~(IsScheduled(k) /\ bkpStatus[k] = "done") -> "own"
      [] IsScheduled(k) /\ bkpStatus[k] = "done" /\ kind[k] = "base" -> "none"
      [] OTHER -> "previous"

CleanupCompletedBackup(k) ==
    /\ PollStep
    /\ poll[k] = "cleanup"
    /\ poll' = [poll EXCEPT ![k] = "finished"]
    /\ cleaned' = [cleaned EXCEPT ![k] = Targeted(k)]
    /\ UNCHANGED <<exitServer, bkpStatus>>

CheckBackupStatus(k) == PollStatus(k) \/ PollExit(k) \/ CleanupCompletedBackup(k)
-------------------------------------------------------------------------------
(* The agents                                                              *)

AgentStep == UNCHANGED <<bound, phase, exitServer, object, result, callVars, pollVars>>

InTime(v) == v = call \/ "late" \in faults

AgentConnects(v) ==
    /\ AgentStep
    /\ api[v] = "init" /\ ~local /\ agent[v] = "idle" /\ InTime(v)
    /\ step = "upload" /\ phase \in {"serving", "leaving", "closing"}
    /\ agent'  = [agent EXCEPT ![v] = "sending"]
    /\ stream' = [stream EXCEPT ![v] = "open"]
    /\ to'     = [to EXCEPT ![v] = call]
    /\ UNCHANGED <<waiting, api>>

(* The whole snapshot has been sent, or the agent has failed half-way.     *)
AgentCloses(v) ==
    /\ agent[v] = "sending" /\ stream[v] = "open"
    /\ Server!Arrive
    /\ \/ agent' = [agent EXCEPT ![v] = "sent"]
       \/ "agent" \in faults /\ agent' = [agent EXCEPT ![v] = "broke"]
    /\ stream' = [stream EXCEPT ![v] = "fin"]
    /\ UNCHANGED <<bound, callVars, api, pollVars, to>>

AgentReports(v) ==
    /\ AgentStep
    /\ \/ agent[v] = "sent" /\ api' = [api EXCEPT ![v] = "done"]
       \/ /\ \/ agent[v] = "broke"
             \/ agent[v] = "sending" /\ stream[v] \in {"lost", "cut"}
          /\ api' = [api EXCEPT ![v] = "failed"]
    /\ agent' = [agent EXCEPT ![v] = "stopped"]
    /\ UNCHANGED <<waiting, stream, to>>

(* Nobody listens: the agent gives up.  While Upload is being set up it    *)
(* tries again; on a socket left behind it waits.                          *)
AgentGivesUp(v) ==
    /\ AgentStep
    /\ api[v] = "init" /\ ~local /\ agent[v] = "idle" /\ ~bound
    /\ step # "upload" \/ phase \in {"failed", "returned"} \/ v # call
    /\ agent' = [agent EXCEPT ![v] = "stopped"]
    /\ api' = [api EXCEPT ![v] = "failed"]
    /\ UNCHANGED <<waiting, stream, to>>

Agent(v) == AgentConnects(v) \/ AgentCloses(v) \/ AgentReports(v) \/ AgentGivesUp(v)
-------------------------------------------------------------------------------
(* DeleteSnapshot                                                          *)

Deletes(v, label) ==
    /\ del[v] = label
    /\ UNCHANGED <<uploadVars, exitServer, faults, local, kind, call, step, ret, pvcs>>
    /\ UNCHANGED <<pollVars, agentVars>>

DeleteStep(v, next) == del' = [del EXCEPT ![v] = next]

DeleteFails(v) == "delete" \in faults /\ DeleteStep(v, "none")

(* What velero holds is deleted when the backup has ended.  A getSnapInfo  *)
(* that does not find the PV leaves everything as it is.                   *)
DeleteSnapshot(v) ==
    /\ Deletes(v, "none") /\ ret[v] = "id"
    /\ call = Calls /\ step = "idle"
    /\ DeleteStep(v, "api")
    /\ UNCHANGED <<api, bucket>>

(* The request may be executed although it fails.                          *)
SendDeleteRequest(v) ==
    /\ Deletes(v, "api")
    /\ \/ DeleteStep(v, IF local THEN "done" ELSE "object") /\ api' = [api EXCEPT ![v] = "none"]
       \/ DeleteFails(v) /\ api' \in {api, [api EXCEPT ![v] = "none"]}
    /\ bucket' = bucket

Delete(v) ==
    /\ Deletes(v, "object")
    /\ \/ DeleteStep(v, "done") /\ bucket' = [bucket EXCEPT ![v] = NoContent]
       \/ DeleteFails(v) /\ bucket' = bucket
    /\ api' = api
-------------------------------------------------------------------------------
Call == CreateSnapshot \/ BackupPVC \/ SendBackupRequest \/ UploadReturns \/ Upload

Terminated ==
    /\ call = Calls /\ step = "idle"
    /\ \A v \in Volumes : poll[v] \in {"none", "finished"}
    /\ UNCHANGED vars

Next ==
    \/ (Call \/ \E v \in Volumes : CheckBackupStatus(v) \/ Agent(v)) /\ UNCHANGED del
    \/ \E v \in Volumes : DeleteSnapshot(v) \/ SendDeleteRequest(v) \/ Delete(v)
    \/ Terminated

Spec == Init /\ [][Next]_vars

(* The goroutines are scheduled, the API server answers, and an agent that *)
(* has a backup to send goes on with it.  That epoll fails in the end does *)
(* not count as scheduling: a server that is never stopped serves forever. *)
FairSpec ==
    /\ Spec
    /\ WF_makeVars(Call /\ ~(phase = "serving" /\ phase' = "failed"))
    /\ \A v \in Volumes : WF_makeVars(CheckBackupStatus(v)) /\ WF_makeVars(Agent(v))
-------------------------------------------------------------------------------
(* Properties                                                              *)

TypeOK ==
    /\ phase \in {"starting", "serving", "leaving", "closing", "failed", "returned"}
    /\ {waiting, exitServer, bound, local} \subseteq BOOLEAN
    /\ object \in Objects
    /\ result \in {"none", "true", "false"}
    /\ kind \in [Volumes -> {"single", "base", "incremental"}]
    /\ call \in 0..Calls
    /\ step \in {"idle", "pvc", "post", "upload"}
    /\ ret \in [Volumes -> {"none", "id", "error"}]
    /\ pvcs \in SUBSET Volumes
    /\ bucket \in [Volumes -> Objects]
    /\ api \in [Volumes -> {"none", "init", "done", "failed"}]
    /\ bkpStatus \in [Volumes -> {"none", "init", "done", "failed"}]
    /\ poll \in [Volumes -> {"none", "polling", "exit", "cleanup", "finished"}]
    /\ cleaned \in [Volumes -> {"none", "own", "previous"}]
    /\ agent \in [Volumes -> {"idle", "sending", "sent", "broke", "stopped"}]
    /\ stream \in [Volumes -> {"none", "open", "fin", "taken", "cut", "lost", "missed"}]
    /\ to \in [Volumes -> 0..Calls]
    /\ del \in [Volumes -> {"none", "api", "object", "done"}]

(* Nothing that fails leaves an agent or a goroutine at work when the call *)
(* it belongs to has returned.                                             *)
Orderly == faults \subseteq {"pvc", "post", "agent", "delete"}

(* A snapshot id that is returned for a remote backup names an object that *)
(* is the whole snapshot of that volume, with its PVC beside it, though    *)
(* the status that allows it races with the server that stores it; and so  *)
(* it remains until a deletion has succeeded, however many fail half-way.  *)
(* Nobody compares: the id is returned, too, when the server has cut the   *)
(* stream off, or has missed its end between a time-out and ExitServer.    *)
IdMeansObject ==
    \A v \in Volumes :
        Orderly /\ ret[v] = "id" /\ del[v] # "done" /\ ~local =>
            /\ v \in pvcs
            /\ bucket[v] = [of |-> v, whole |-> TRUE] \/ stream[v] \in {"cut", "missed"}

(* CreateSnapshot reads backupStatus when Upload has returned: it is       *)
(* final by then, so no completed backup is reported as an error.          *)
StatusIsFinal ==
    Orderly /\ step = "upload" /\ result = "true" => Completed(bkpStatus[call])

(* checkBackupStatus "wait[s] until backup completes" (status.go:27) and   *)
(* then sets ExitServer, which is shared by all calls and goroutines: a    *)
(* server stops only when the backup it serves is complete.                *)
StopsForOwnBackup ==
    [][phase = "leaving" /\ phase' = "closing" => api[call] \in Final]_vars

(* That is so as long as no goroutine outlives its call.                   *)
StopsWhenOrderly ==
    [][Orderly /\ phase = "leaving" /\ phase' = "closing" => api[call] \in Final]_vars

(* No snapshot is deleted under an agent that still sends it or the        *)
(* difference to it.                                                       *)
NothingCleanedInUse ==
    \A v \in Volumes : cleaned[v] # "none" => agent[v] = "stopped"

(* Every call returns.                                                     *)
CallsReturn == <>(\A v \in Volumes : ret[v] # "none")
===============================================================================
