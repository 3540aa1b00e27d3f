------------------------------- MODULE ZfsRestore -------------------------------
(***************************************************************************)
(* Restores of the ZFS plugin (doRestore in pkg/zfs/plugin/restore.go)     *)
(* beside the schedule of ZfsIncremental.  The streams of getSnapList are  *)
(* received one after another, each with a server, a doDownload goroutine  *)
(* and a ZFSRestore resource of its own (dataRestore); the ZFSVolume is    *)
(* created after the last.  What a restore that failed has left is met by  *)
(* the next one.  Download is taken as Transfer.                           *)
(*                                                                         *)
(* One volume in one namespace is restored.  The node agents are outside   *)
(* the repository: they are modelled from the resources they are given,    *)
(* and zfs receive from what the order of the streams relies on.           *)
(***************************************************************************)
EXTENDS ZfsIncremental

CONSTANT Attempts \* restores that are asked for

ASSUME AttemptsAssumption == Attempts \in Nat

VARIABLES
    attempts,   \* how many restores have been asked for
    target,     \* the backup of the last one
    at,         \* where its doRestore is
    todo,       \* the part of bkpList that is still to be restored
    pvExists,   \* the PV of the volume is in the cluster: the new one gets a new name
    err,        \* dataRestore will return an error
    phase, exitServer, result, \* of the current Download, see Transfer
    ready,      \* what Conn.ConnReady holds: "empty", "true" or "false"
    down,       \* doDownload: "running" or "finished"
    names,      \* backups with a ZFSRestore resource for the volume
    status,     \* the current one's: "init", "done" or "failed"
    agent,      \* what the agent does that has it
    late,       \* an agent of an earlier resource has yet to connect
    received,   \* the last backup the dataset has received, 0 without one
    zvol,       \* the ZFSVolume: "absent", "pending", "ready" or "failed"
    created,    \* the backup that the ZFSVolume is annotated with, 0 without one
    restored    \* the target of the volume that has been returned, 0 before

callVars    == <<attempts, target, at, todo, pvExists, err, created, restored>>
serverVars  == <<phase, exitServer, result, ready, down>>
clusterVars == <<names, status, agent, late, received, zvol>>
restoreVars == <<callVars, serverVars, clusterVars>>
zfsVars     == <<vars, restoreVars>>

(* The server is busy while an agent receives.                             *)
Server == INSTANCE Transfer WITH
    Contents <- {"nothing"}, NoContent <- "nothing", object <- "nothing",
    waiting <- agent = "receiving"

RestoreInit ==
    /\ Init
    /\ attempts = 0 /\ target = 0 /\ at = "idle" /\ todo = {} /\ err = FALSE
    /\ pvExists \in BOOLEAN
    /\ "restore" \notin env => ~pvExists
    /\ phase = "returned" /\ exitServer = FALSE /\ result = "none"
    /\ ready = "empty" /\ down = "finished"
    /\ names = {} /\ status = "init" /\ agent = "none" /\ late = FALSE
    /\ received = 0 /\ zvol = "absent" /\ created = 0 /\ restored = 0

First(S) == CHOOSE b \in S : \A x \in S : b <= x
-------------------------------------------------------------------------------
(* doRestore                                                               *)

DoRestore(b) ==
    /\ "restore" \in env /\ at = "idle" /\ attempts < Attempts
    /\ b \in kept
    /\ attempts' = attempts + 1 /\ target' = b /\ at' = "list"
    /\ UNCHANGED <<todo, pvExists, err, created, restored, serverVars, clusterVars>>

GetSnapList ==
    /\ at = "list"
    /\ \/ target \in dirs /\ todo' = SnapList(target) /\ at' = "volume"
       \/ todo' = todo /\ at' = "idle"
    /\ UNCHANGED <<attempts, target, pvExists, err, created, restored, serverVars, clusterVars>>

(* getZFSVolume: the description of the volume is in the bucket.           *)
GetZFSVolume == target \in dirs

(* buildZFSVolume is refused when there is a ZFSVolume, and fails with any *)
(* of its requests.  A new name has neither a dataset nor resources.       *)
BuildZFSVolume ==
    /\ at = "volume"
    /\ \/ /\ GetZFSVolume /\ zvol = "absent" /\ at' = "reset"
          /\ IF pvExists
             THEN names' = {} /\ received' = 0
             ELSE UNCHANGED <<names, received>>
       \/ at' = "idle" /\ UNCHANGED <<names, received>>
    /\ UNCHANGED <<attempts, target, todo, pvExists, err, created, restored>>
    /\ UNCHANGED <<serverVars, status, agent, late, zvol>>

(* dataRestore, for the first of todo: ConnStateReset and the goroutine.   *)
ConnStateReset ==
    /\ at = "reset"
    /\ phase' = "starting" /\ exitServer' = FALSE /\ result' = "none"
    /\ ready' = "empty" /\ down' = "running"
    /\ err' = FALSE /\ at' = "wait"
    /\ UNCHANGED <<attempts, target, todo, pvExists, created, restored, clusterVars>>

(* A channel that is closed holds FALSE for ever.                          *)
ConnReadyWait ==
    /\ at = "wait"
    /\ ready # "empty" \/ down = "finished"
    /\ ready' = "empty"
    /\ IF ready = "true" THEN at' = "start" /\ err' = err ELSE at' = "exit" /\ err' = TRUE
    /\ UNCHANGED <<attempts, target, todo, pvExists, created, restored>>
    /\ UNCHANGED <<phase, exitServer, result, down, clusterVars>>

(* The name of the resource must be free.  The request may be executed     *)
(* although it fails.                                                      *)
StartRestore ==
    /\ at = "start"
    /\ \/ /\ First(todo) \notin names
          /\ names' = names \cup {First(todo)}
          /\ status' = "init" /\ agent' = "idle" /\ late' = late
          /\ at' = "poll" /\ err' = err
       \/ /\ \/ names' = names /\ late' = late
             \/ "leftover" \in env /\ names' = names \cup {First(todo)} /\ late' = ~pvExists
          /\ at' = "exit" /\ err' = TRUE
          /\ UNCHANGED <<status, agent>>
    /\ UNCHANGED <<attempts, target, todo, pvExists, created, restored, serverVars, received, zvol>>

(* checkRestoreStatus: the status is final, or cannot be read; then the    *)
(* resource is deleted, and an error of that is ignored.  An agent that is *)
(* still at work does not learn of it.                                     *)
CheckStatusWith(failed, deleted) ==
    /\ at = "poll"
    /\ \/ status \in {"done", "failed"} /\ err' = failed
       \/ err' = TRUE
    /\ \/ names' = names \ deleted
       \/ "leftover" \in env /\ names' = names
    /\ late' = (late \/ (~pvExists /\ agent \in {"idle", "receiving"}))
    /\ agent' = "none" /\ at' = "exit"
    /\ UNCHANGED <<attempts, target, todo, pvExists, created, restored, serverVars, status, received, zvol>>

(* Variant: the poll ends without an error when the restore has failed.    *)
CheckAnyStatus == CheckStatusWith(FALSE, {First(todo)})

(* Variant: the resource is deleted only when the restore is done.         *)
CheckAndDeleteDone ==
    CheckStatusWith(status = "failed", IF status = "done" THEN {First(todo)} ELSE {})

CheckRestoreStatus == CheckStatusWith(status = "failed", {First(todo)})

(* The deferred function of dataRestore, and the loop of doRestore.        *)
ExitServer ==
    /\ at = "exit"
    /\ exitServer' = TRUE
    /\ at' = "join"
    /\ UNCHANGED <<attempts, target, todo, pvExists, err, created, restored>>
    /\ UNCHANGED <<phase, result, ready, down, clusterVars>>

DataRestoreReturns ==
    /\ at = "join" /\ down = "finished"
    /\ ready' = "empty"
    /\ IF err
       THEN at' = "idle" /\ todo' = todo
       ELSE /\ todo' = todo \ {First(todo)}
            /\ at' = IF todo' = {} THEN "create" ELSE "reset"
    /\ UNCHANGED <<attempts, target, pvExists, err, created, restored>>
    /\ UNCHANGED <<phase, exitServer, result, down, clusterVars>>

CreateZFSVolume ==
    /\ at = "create"
    /\ \/ /\ zvol = "absent" /\ zvol' = "pending" /\ created' = target
          /\ at' = "check" \/ ("leftover" \in env /\ at' = "idle")
       \/ UNCHANGED <<zvol, created>> /\ at' = "idle"
    /\ UNCHANGED <<attempts, target, todo, pvExists, err, restored, serverVars>>
    /\ UNCHANGED <<names, status, agent, late, received>>

(* The driver makes the volume ready from the dataset, or fails; or the    *)
(* ZFSVolume cannot be read.  Nobody deletes it then.                      *)
CheckVolCreation ==
    /\ at = "check"
    /\ (zvol = "ready" /\ restored' = target) \/ restored' = restored
    /\ at' = "idle"
    /\ UNCHANGED <<attempts, target, todo, pvExists, err, created, serverVars, clusterVars>>

(* The plugin's process ends.                                              *)
RestoreCrash ==
    /\ "leftover" \in env /\ at # "idle"
    /\ at' = "idle"
    /\ phase' = "returned" /\ down' = "finished" /\ ready' = "empty"
    /\ late' = (late \/ (~pvExists /\ agent \in {"idle", "receiving"}))
    /\ agent' = "none"
    /\ UNCHANGED <<attempts, target, todo, pvExists, err, created, restored>>
    /\ UNCHANGED <<exitServer, result, names, status, received, zvol>>

Caller ==
    \/ \E b \in Backups : DoRestore(b)
    \/ GetSnapList \/ BuildZFSVolume \/ ConnStateReset \/ ConnReadyWait \/ StartRestore
    \/ CheckRestoreStatus \/ ExitServer \/ DataRestoreReturns
    \/ CreateZFSVolume \/ CheckVolCreation \/ RestoreCrash
-------------------------------------------------------------------------------
(* doDownload                                                              *)

Running == down = "running" /\ UNCHANGED <<callVars, clusterVars>>

(* Run signals that it listens.                                            *)
Listen == Running /\ Server!Listen /\ ready' = "true" /\ down' = down

Download ==
    /\ Running
    /\ \/ Server!TimeOut \/ Server!Stay \/ Server!Close \/ Server!Return
       \/ Server!Fail \/ Server!ReturnFalse
    /\ UNCHANGED <<ready, down>>

(* A Download that failed is signalled, when there is room for it, and the *)
(* channel closed.                                                         *)
DoDownloadEnds ==
    /\ Running /\ phase = "returned"
    /\ down' = "finished"
    /\ \/ result = "true" /\ ready' = ready
       \/ result = "false" /\ ready = "empty" /\ ready' = "false"
    /\ UNCHANGED <<phase, exitServer, result>>

DoDownload == Listen \/ Download \/ DoDownloadEnds
-------------------------------------------------------------------------------
(* The agents and the driver                                               *)

ClusterStep == UNCHANGED <<callVars, serverVars, names>>

(* zfs receive takes an increment on what it is relative to, and a full    *)
(* stream in place of what there is, or not at all.                        *)
Receives(b) == data[b] \in {0, received} /\ received' = b

(* It has been accepted by the server.                                     *)
AgentConnects ==
    /\ ClusterStep
    /\ agent = "idle" /\ phase = "serving"
    /\ agent' = "receiving"
    /\ UNCHANGED <<status, late, received, zvol>>

AgentReceives ==
    /\ ClusterStep
    /\ agent = "receiving" /\ phase = "serving"
    /\ \/ Receives(First(todo)) /\ agent' = "received"
       \/ received' = received /\ agent' = "broke"
    /\ UNCHANGED <<status, late, zvol>>

AgentReports ==
    /\ ClusterStep
    /\ \/ agent = "received" /\ status' = "done"
       \/ agent = "broke" /\ status' = "failed"
       \/ /\ agent \in {"idle", "receiving"} /\ phase \notin {"serving", "leaving"}
          /\ status' = "failed"
    /\ agent' = "stopped"
    /\ UNCHANGED <<late, received, zvol>>

(* It asks for the stream of its own resource, and gets the current one.   *)
LateAgent ==
    /\ ClusterStep
    /\ late /\ late' = FALSE
    /\ \/ phase = "serving" /\ Receives(First(todo))
       \/ received' = received
    /\ UNCHANGED <<status, agent, zvol>>

Driver ==
    /\ ClusterStep
    /\ zvol = "pending"
    /\ zvol' \in {"ready", "failed"}
    /\ UNCHANGED <<status, agent, late, received>>

Cluster == AgentConnects \/ AgentReceives \/ AgentReports \/ LateAgent \/ Driver
-------------------------------------------------------------------------------
Terminated ==
    /\ at = "idle"
    /\ step = "panic" \/ (step = "idle" /\ n = N)
    /\ UNCHANGED zfsVars

RestoreNext ==
    \/ Next /\ UNCHANGED restoreVars
    \/ (Caller \/ DoDownload \/ Cluster) /\ UNCHANGED vars
    \/ Terminated

RestoreSpec == RestoreInit /\ [][RestoreNext]_zfsVars
-------------------------------------------------------------------------------
(* Properties                                                              *)

(* A ZFSVolume that has been made holds the backup that it is annotated    *)
(* with, neither an earlier nor a later one, though the groups may be cut  *)
(* wrong, earlier restores have failed and left a dataset, backups expire  *)
(* after they have been listed, and agents come late; and no later restore *)
(* changes it.  A volume that is returned is ready, and of the backup that *)
(* was asked for.                                                          *)
VolumeIsTarget ==
    /\ created # 0 => received = created
    /\ restored # 0 => restored = created /\ zvol = "ready"

(* A restore that fails before its last stream is received can be tried    *)
(* again: it leaves neither a ZFSVolume, which the next one would be       *)
(* refused for, nor a ZFSRestore resource, whose name the next one needs.  *)
(* It takes the clean-up requests to do what their answers say, and the    *)
(* plugin to live on.  One that fails later cannot: the ZFSVolume stays    *)
(* when the driver fails or cannot be asked, and all that is left to say   *)
(* of it is that its data is whole.                                        *)
CanBeRetried ==
    "leftover" \notin env /\ at = "idle" =>
        names = {} /\ (zvol = "absent" \/ received = created)
===============================================================================
