------------------------------ MODULE CstorRestore ------------------------------
(***************************************************************************)
(* One call of the cStor plugin's CreateVolumeFromSnapshot                 *)
(* (pkg/cstor/cstor.go): the loop of restoreVolumeFromCloud over the       *)
(* snapshots of a schedule (pv_operation.go), with a checkRestoreStatus    *)
(* goroutine (status.go) and a Conn.Download for each of them.  The        *)
(* goroutines and the loop share Conn.ExitServer and the volume's          *)
(* restoreStatus, which nothing clears between two snapshots.  Download is *)
(* taken as Transfer.                                                      *)
(*                                                                         *)
(* The claim and the marking of the replicas are CstorProvision, step by   *)
(* step.  Snapshots are numbered as sort.Strings orders them.  The API     *)
(* server and the agents are outside the repository, as in CstorBackup.    *)
(***************************************************************************)
EXTENDS CstorProvision

CONSTANTS
    N,         \* snapshots of the schedule
    Target,    \* the snapshot that is asked for
    MayLack,   \* snapshots that may have no file, but a PVC's
    MayBePart  \* snapshots whose file may be part of the stream

(* "exists": FileExists may fail; "answer": the POST is executed but its   *)
(* answer is lost or not understood; the others name the step that fails.  *)
FaultKinds ==
    ProvisionFaultKinds \cup {"list", "exists", "post", "answer", "setup", "epoll", "agent"}

ASSUME TargetAssumption == N \in Nat /\ Target \in 1..N
ASSUME FaultsAssumption == Faults \subseteq SUBSET FaultKinds

VARIABLES
    phase, waiting, exitServer, result, \* of the current Download, see Transfer
    mode,          \* Plugin.local, restoreAllSnapshots and autoSetTargetIP
    files,         \* snapshot -> "whole", "part" or "absent" in the bucket
    snap,          \* the snapshot the loop is at
    step,          \* where the call is
    ret,           \* "none", "volume", "error", or "unmarked": a volume and an error
    restoreStatus, \* Volume.restoreStatus
    api,           \* snapshot -> status of its CStorRestore, "none" without one
    poll,          \* snapshot -> where its goroutine is
    agent,         \* snapshot -> what the agent does that receives it
    applied        \* snapshots the volume has received

Snapshots == 1..N
Final     == {"done", "failed"}

Server == INSTANCE Transfer WITH
    Contents <- {"nothing"}, NoContent <- "nothing", object <- "nothing"

downloadVars == <<phase, waiting, result>>
callVars == <<mode, files, snap, step, ret>>
pollVars == <<restoreStatus, poll>>
envVars  == <<api, agent, applied>>
dataVars == <<downloadVars, exitServer, callVars, pollVars, envVars>>
vars == <<provisionVars, dataVars>>

(* An increment is relative to the last backup before it that succeeded.   *)
Whole(S) == {k \in S : files[k] = "whole"}
Base(k)  == {j \in Whole(1..(k - 1)) : \A i \in Whole(1..(k - 1)) : i <= j}

(* Without restoreAllSnapshots the snapshots before have been restored one *)
(* by one, by calls before this one.                                       *)
Init ==
    /\ ProvisionInit
    /\ phase = "returned" /\ waiting = FALSE /\ exitServer = FALSE /\ result = "none"
    /\ mode \in [local : BOOLEAN, all : BOOLEAN, setTargetIP : BOOLEAN]
    /\ mode.local => ~mode.all /\ ~mode.setTargetIP /\ pvc = "absent" /\ namespace = "active"
    /\ files \in [Snapshots -> {"whole", "part", "absent"}]
    /\ \A k \in Snapshots : files[k] = "absent" => k \in MayLack
    /\ \A k \in Snapshots : files[k] = "part" => k \in MayBePart
    /\ snap = 0 /\ step = "pvc" /\ ret = "none"
    /\ restoreStatus = "none"
    /\ api   = [k \in Snapshots |-> "none"]
    /\ poll  = [k \in Snapshots |-> "none"]
    /\ agent = [k \in Snapshots |-> "idle"]
    /\ applied = IF mode.all THEN {} ELSE Whole(1..(Target - 1))
-------------------------------------------------------------------------------
(* CreateVolumeFromSnapshot                                                *)

CallStep == UNCHANGED <<provisionVars, mode, files>>
Returns(r) == ret' = r /\ step' = "returned"

(* getVolumeForRemoteRestore: createPVC.  A volume that is nil is used.    *)
CreateVolume ==
    /\ step = "pvc" /\ ~mode.local
    /\ \/ CreatesPVC /\ UNCHANGED <<step, ret>>
       \/ /\ UNCHANGED provisionVars
          /\ \/ at = "ready" /\ step' = "list" /\ ret' = ret
             \/ at = "failed" /\ Returns("error")
             \/ at = "nil" /\ step' = "panicked" /\ ret' = ret
    /\ UNCHANGED <<mode, files, downloadVars, exitServer, snap, pollVars, envVars>>

(* getVolumeForLocalRestore: the volume will be a clone.                   *)
CloneVolume ==
    /\ CallStep /\ step = "pvc" /\ mode.local
    /\ \/ step' = "local" /\ ret' = ret
       \/ "read" \in faults /\ Returns("error")
    /\ UNCHANGED <<downloadVars, exitServer, snap, pollVars, envVars>>

(* restoreVolumeFromLocal                                                  *)
RestoreVolumeFromLocal ==
    /\ CallStep /\ step = "local"
    /\ \/ restoreStatus' = "done" /\ step' = "status" /\ ret' = ret
       \/ "post" \in faults /\ Returns("error") /\ restoreStatus' = restoreStatus
    /\ UNCHANGED <<downloadVars, exitServer, snap, poll, envVars>>

(* The list has the target: its PVC has been read from the directory.      *)
GetSnapshotList ==
    /\ CallStep /\ step = "list"
    /\ \/ step' = "exists" /\ snap' = (IF mode.all THEN 1 ELSE Target) /\ ret' = ret
       \/ "list" \in faults /\ mode.all /\ Returns("error") /\ snap' = snap
    /\ UNCHANGED <<downloadVars, exitServer, pollVars, envVars>>

(* The loop goes on, or ends with the list.                                *)
NextSnapshot ==
    IF snap = N \/ ~mode.all
    THEN step' = "status" /\ snap' = snap
    ELSE step' = "exists" /\ snap' = snap + 1

(* A snapshot without a file is skipped, and one whose check failed; the   *)
(* loop breaks at the target only when it has been restored.               *)
FileExists ==
    /\ CallStep /\ step = "exists"
    /\ \/ files[snap] # "absent" /\ step' = "post" /\ snap' = snap
       \/ files[snap] = "absent" /\ NextSnapshot
       \/ "exists" \in faults /\ NextSnapshot
    /\ UNCHANGED <<downloadVars, exitServer, ret, pollVars, envVars>>

(* restoreSnapshotFromCloud, up to Download: ExitServer is cleared and     *)
(* sendRestoreRequest called.                                              *)
RequestWith(cleared) ==
    /\ CallStep /\ step = "post"
    /\ exitServer' = cleared
    /\ \/ /\ api'  = [api EXCEPT ![snap] = "init"]
          /\ poll' = [poll EXCEPT ![snap] = "polling"]
          /\ phase' = "starting" /\ waiting' = FALSE /\ result' = "none"
          /\ step' = "download" /\ ret' = ret
       \/ /\ \/ "post" \in faults /\ api' = api
             \/ "answer" \in faults /\ api' = [api EXCEPT ![snap] = "init"]
          /\ Returns("error")
          /\ UNCHANGED <<downloadVars, poll>>
    /\ UNCHANGED <<snap, restoreStatus, agent, applied>>

(* Variant: ExitServer keeps the value of the snapshot before.             *)
SendRestoreRequestOnly == RequestWith(exitServer)

SendRestoreRequest == RequestWith(FALSE)

DownloadReturns ==
    /\ CallStep /\ step = "download" /\ phase = "returned"
    /\ \/ ~(result = "true" /\ restoreStatus = "done") /\ Returns("error") /\ snap' = snap
       \/ /\ result = "true" /\ restoreStatus = "done" /\ ret' = ret
          /\ IF snap = Target THEN step' = "status" /\ snap' = snap ELSE NextSnapshot
    /\ UNCHANGED <<downloadVars, exitServer, pollVars, envVars>>

(* The status decides; then the replicas are marked, if they are to be.    *)
CheckStatus ==
    /\ CallStep /\ step = "status"
    /\ \/ restoreStatus # "done" /\ Returns("error")
       \/ restoreStatus = "done" /\ ~mode.setTargetIP /\ Returns("volume")
       \/ restoreStatus = "done" /\ mode.setTargetIP /\ step' = "mark" /\ ret' = ret
    /\ UNCHANGED <<downloadVars, exitServer, snap, pollVars, envVars>>

Mark ==
    /\ step = "mark"
    /\ \/ MarksCVRs /\ UNCHANGED <<step, ret>>
       \/ /\ UNCHANGED provisionVars
          /\ \/ at = "marked" /\ Returns("volume")
             \/ at = "failed" /\ Returns("unmarked")
             \/ at = "nil" /\ step' = "panicked" /\ ret' = ret
    /\ UNCHANGED <<mode, files, downloadVars, exitServer, snap, pollVars, envVars>>

DownloadStep == step = "download" /\ UNCHANGED <<provisionVars, callVars, pollVars, envVars>>

Download ==
    /\ DownloadStep
    /\ \/ Server!Listen \/ Server!TimeOut \/ Server!Stay \/ Server!Close
       \/ Server!Return \/ Server!ReturnFalse
       \/ phase = "starting" /\ "setup" \in faults /\ Server!Fail
       \/ phase = "serving" /\ "epoll" \in faults /\ Server!Fail

Call ==
    \/ CreateVolume \/ CloneVolume \/ RestoreVolumeFromLocal \/ GetSnapshotList \/ FileExists
    \/ SendRestoreRequest \/ DownloadReturns \/ CheckStatus \/ Mark \/ Download
-------------------------------------------------------------------------------
(* checkRestoreStatus                                                      *)

PollStep == UNCHANGED <<provisionVars, downloadVars, callVars, envVars>>

(* Variant: the server is stopped before the status is stored.             *)
PollStatusExitsFirst(k) ==
    /\ PollStep
    /\ poll[k] = "polling" /\ api[k] \in Final
    /\ exitServer' = TRUE
    /\ poll' = [poll EXCEPT ![k] = "exit"]
    /\ UNCHANGED restoreStatus

PollStatus(k) ==
    /\ PollStep
    /\ poll[k] = "polling"
    /\ restoreStatus' = api[k]
    /\ poll' = [poll EXCEPT ![k] = IF api[k] \in Final THEN "exit" ELSE "polling"]
    /\ UNCHANGED exitServer

(* Variant: a restore that failed does not stop the server.                *)
PollExitOnDone(k) ==
    /\ PollStep
    /\ poll[k] = "exit"
    /\ exitServer' = (exitServer \/ restoreStatus = "done")
    /\ poll' = [poll EXCEPT ![k] = "finished"]
    /\ UNCHANGED restoreStatus

PollExit(k) ==
    /\ PollStep
    /\ poll[k] = "exit"
    /\ exitServer' = TRUE
    /\ poll' = [poll EXCEPT ![k] = "finished"]
    /\ UNCHANGED restoreStatus

CheckRestoreStatus(k) == PollStatus(k) \/ PollExit(k)
-------------------------------------------------------------------------------
(* The agents                                                              *)

AgentStep == UNCHANGED <<provisionVars, phase, exitServer, result, callVars, pollVars>>

Serves(k) == step = "download" /\ phase \in {"serving", "leaving"} /\ snap = k

AgentConnects(k) ==
    /\ AgentStep
    /\ api[k] = "init" /\ agent[k] = "idle" /\ Serves(k)
    /\ agent' = [agent EXCEPT ![k] = "receiving"]
    /\ UNCHANGED <<waiting, api, applied>>

(* The stream has ended.  It is applied if it is whole and the volume has  *)
(* what it is relative to.                                                 *)
AgentReceives(k) ==
    /\ AgentStep
    /\ agent[k] = "receiving" /\ Serves(k)
    /\ \/ /\ files[k] = "whole" /\ Base(k) \subseteq applied
          /\ applied' = applied \cup {k}
          /\ agent' = [agent EXCEPT ![k] = "received"]
       \/ /\ files[k] # "whole" \/ ~(Base(k) \subseteq applied) \/ "agent" \in faults
          /\ applied' = applied
          /\ agent' = [agent EXCEPT ![k] = "broke"]
    /\ UNCHANGED <<waiting, api>>

(* The server stops while the agent receives, or does not listen.          *)
AgentReports(k) ==
    /\ AgentStep
    /\ \/ agent[k] = "received" /\ api' = [api EXCEPT ![k] = "done"]
       \/ /\ \/ agent[k] = "broke"
             \/ agent[k] = "receiving" /\ ~Serves(k)
             \/ /\ api[k] = "init" /\ agent[k] = "idle"
                /\ step # "download" \/ phase \in {"failed", "returned"}
          /\ api' = [api EXCEPT ![k] = "failed"]
    /\ agent' = [agent EXCEPT ![k] = "stopped"]
    /\ UNCHANGED <<waiting, applied>>

Agent(k) == AgentConnects(k) \/ AgentReceives(k) \/ AgentReports(k)
-------------------------------------------------------------------------------
Terminated ==
    /\ step \in {"returned", "panicked"}
    /\ \A k \in Snapshots : poll[k] \in {"none", "finished"}
    /\ UNCHANGED vars

Next ==
    \/ Call
    \/ \E k \in Snapshots : CheckRestoreStatus(k) \/ Agent(k)
    \/ Kubernetes /\ step \in {"pvc", "mark"} /\ ~mode.local /\ UNCHANGED dataVars
    \/ Terminated

Spec == Init /\ [][Next]_vars

(* The goroutines are scheduled, the API server answers, and an agent that *)
(* has a restore to do goes on with it.  That epoll fails in the end does  *)
(* not count as scheduling: a server that is never stopped serves forever. *)
FairSpec ==
    /\ Spec
    /\ WF_vars(Call /\ ~(phase = "serving" /\ phase' = "failed"))
    /\ \A k \in Snapshots : WF_vars(CheckRestoreStatus(k)) /\ WF_vars(Agent(k))
-------------------------------------------------------------------------------
(* Properties                                                              *)

(* A volume that is returned has received the snapshot that was asked for, *)
(* every one before it that has a file, in order, and none after it,       *)
(* although restoreStatus may still be that of another snapshot.  It takes *)
(* a target that has a file, which an id of CreateSnapshot stands for, and *)
(* a bucket that answers FileExists: otherwise the loop runs on past the   *)
(* target, or skips a snapshot.                                            *)
VolumeIsRestored ==
    /\ "exists" \notin faults /\ files[Target] # "absent"
    /\ ret \in {"volume", "unmarked"} /\ ~mode.local
    => applied = Whole(1..Target) /\ Target \in applied

(* When Download has returned, restoreStatus is that of the snapshot it    *)
(* was for.                                                                *)
StatusIsOwn ==
    step = "download" /\ result = "true" => restoreStatus = api[snap] /\ api[snap] \in Final

(* The call returns, whatever fails, though nobody may bind the claim or   *)
(* make the replicas.  It takes the claim not to be lost while it is       *)
(* waited for: then createPVC has no volume and no error to return; and    *)
(* replicas that have annotations.                                         *)
CallReturns == faults \cap {"lost", "bare"} = {} => <>(ret # "none")
===============================================================================
