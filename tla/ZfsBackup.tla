------------------------------- MODULE ZfsBackup -------------------------------
(***************************************************************************)
(* One call of the ZFS plugin's CreateSnapshot (pkg/zfs/plugin/zfs.go and  *)
(* backup.go), composed with the transfer server it starts:                *)
(*                                                                         *)
(*   doBackup   the caller: uploads the volume's description, starts the   *)
(*              upload goroutine, waits for Conn.ConnReady, creates the    *)
(*              ZFSBackup resource, polls its status, sets ExitServer and  *)
(*              joins the goroutine                                        *)
(*   doUpload   the goroutine: Conn.Upload, that is TransferServer         *)
(*   agent      the ZFS-LocalPV node agent, outside this repository: it    *)
(*              sees the resource, sends the snapshot and sets the status  *)
(*                                                                         *)
(* The two goroutines share Conn.ConnReady, a channel of capacity one, and *)
(* Conn.ExitServer.                                                        *)
(***************************************************************************)
EXTENDS TransferServer, Sequences

CONSTANT ApiFaults   \* sets of what may go wrong outside the server, see ApiFaultKinds

(* "answer": the creation is executed, but its answer is lost; "overtake": *)
(* an agent that has restarted connects while the server still has its     *)
(* first connection; the others name the request or the party that fails.  *)
ApiFaultKinds == {"volume", "zfsvol", "size", "create", "answer", "get", "delete", "agent",
                  "crash", "overtake"}

ASSUME ApiFaultsAssumption == ApiFaults \subseteq SUBSET ApiFaultKinds
ASSUME BackupAssumption == OpType = "backup"

VARIABLES
    apiFaults,  \* the one of ApiFaults that a behaviour is in
    main,       \* where doBackup is
    err,        \* doBackup's result is an error
    ret,        \* what CreateSnapshot has returned: "none", "id", "error"
    zfsvol,     \* the bucket holds the volume's description
    overlooked, \* history: ExitServer was set between a time-out and TestExit, with
                \* something of the agent's connection to handle
    ready,      \* the values in Conn.ConnReady
    readyState, \* Conn.ConnReady: "nil", "open", "closed"
    up,         \* where doUpload is
    cr,         \* Status of the ZFSBackup resource, "none" or "deleted"
    agent,      \* what the node agent does
    conn        \* the agent's connection

callVars  == <<main, err, ret, zfsvol, overlooked>>
chanVars  == <<ready, readyState>>
agentVars == <<agent, conn>>
zfsVars   == <<callVars, chanVars, up, cr, agentVars>>
allVars   == <<apiFaults, vars, zfsVars>>

ZfsInit ==
    /\ Init
    /\ apiFaults \in ApiFaults
    /\ main = "start"
    /\ err  = FALSE
    /\ ret  = "none"
    /\ zfsvol = FALSE
    /\ overlooked = FALSE
    /\ ready  = <<>>
    /\ readyState = "nil"
    /\ up    = "idle"
    /\ cr    = "none"
    /\ agent = "idle"
    /\ conn  = Nil
-------------------------------------------------------------------------------
(* doBackup                                                                *)

Goto(label) == main' = label

(* The volume is read and its description written to the bucket; a return  *)
(* before the goroutine is started skips the deferred exit.                *)
Prepare ==
    /\ main = "start"
    /\ \/ Goto("reset") /\ zfsvol' = TRUE /\ UNCHANGED <<err, ret>>
       \/ /\ \/ "volume" \in apiFaults /\ zfsvol' = FALSE
             \/ "zfsvol" \in apiFaults /\ zfsvol' = FALSE
             \/ "size" \in apiFaults /\ zfsvol' = TRUE
          /\ Goto("returned") /\ err' = TRUE /\ ret' = "error"
    /\ UNCHANGED <<vars, overlooked, chanVars, up, cr, agentVars>>

(* ConnStateReset, and the goroutine is started.                           *)
StartUpload ==
    /\ main = "reset"
    /\ Goto("wait")
    /\ ready' = <<>> /\ readyState' = "open"
    /\ exitServer' = FALSE
    /\ up' = "running"
    /\ UNCHANGED <<peerVars, queue, edge, batch, pc, cur, listVars, state, clientVars,
                   object, listening, result, err, ret, zfsvol, overlooked, cr,
                   agentVars>>

(* Variant: the resource is created without waiting for the server.        *)
ConnReadyIgnored ==
    /\ main = "wait"
    /\ Goto("create")
    /\ UNCHANGED <<vars, err, ret, zfsvol, overlooked, chanVars, up, cr, agentVars>>

(* ConnReadyWait: a value, or false from the closed channel.               *)
ConnReadyWait ==
    /\ main = "wait"
    /\ \/ /\ ready # <<>>
          /\ ready' = Tail(ready)
          /\ IF Head(ready) THEN Goto("create") /\ err' = err ELSE Goto("exit") /\ err' = TRUE
       \/ /\ ready = <<>> /\ readyState = "closed"
          /\ ready' = ready
          /\ Goto("exit") /\ err' = TRUE
    /\ UNCHANGED <<vars, ret, zfsvol, overlooked, readyState, up, cr, agentVars>>

CreateBackup ==
    /\ main = "create"
    /\ \/ Goto("poll") /\ cr' = "init" /\ err' = err
       \/ "create" \in apiFaults /\ Goto("exit") /\ cr' = cr /\ err' = TRUE
       \/ "answer" \in apiFaults /\ Goto("exit") /\ cr' = "init" /\ err' = TRUE
    /\ UNCHANGED <<vars, ret, zfsvol, overlooked, chanVars, up, agentVars>>

(* checkBackupStatus: polls until the status is final or Get fails.        *)
PollSucceeds == cr = "done"
PollFails    == cr = "failed" \/ "get" \in apiFaults

(* Variant: a backup that failed is not deleted.                           *)
CheckBackupStatusOnly ==
    /\ main = "poll"
    /\ \/ PollSucceeds /\ err' = FALSE
       \/ PollFails /\ err' = TRUE
    /\ Goto("exit")
    /\ UNCHANGED <<vars, ret, zfsvol, overlooked, chanVars, up, cr, agentVars>>

CheckBackupStatus ==
    /\ main = "poll"
    /\ \/ PollSucceeds /\ Goto("exit") /\ err' = FALSE
       \/ PollFails /\ Goto("delete") /\ err' = TRUE
    /\ UNCHANGED <<vars, ret, zfsvol, overlooked, chanVars, up, cr, agentVars>>

(* deleteBackup; its error is ignored.                                     *)
DeleteBackup ==
    /\ main = "delete"
    /\ Goto("exit")
    /\ \/ cr' = "deleted"
       \/ "delete" \in apiFaults /\ cr' = cr
    /\ UNCHANGED <<vars, err, ret, zfsvol, overlooked, chanVars, up, agentVars>>

(* Variant: the server is not told to exit.                                *)
SetNothing ==
    /\ main = "exit"
    /\ Goto("join")
    /\ UNCHANGED <<vars, err, ret, zfsvol, overlooked, chanVars, up, cr, agentVars>>

(* Variant: the goroutine is not waited for.                               *)
JoinNothing ==
    /\ main = "join"
    /\ Goto("returned")
    /\ readyState' = "nil" /\ ready' = <<>>
    /\ ret' = IF err THEN "error" ELSE "id"
    /\ UNCHANGED <<vars, err, zfsvol, overlooked, up, cr, agentVars>>

(* The deferred function: ExitServer, wg.Wait, ConnReady = nil.            *)
SetExitServer ==
    /\ main = "exit"
    /\ Goto("join")
    /\ exitServer' = TRUE
    /\ overlooked' = (pc = "timedout" /\ conn \in Backlog \cup Open)
    /\ UNCHANGED <<peerVars, queue, edge, batch, pc, cur, listVars, state, clientVars,
                   object, listening, result, err, ret, zfsvol, chanVars, up, cr, agentVars>>

JoinUpload ==
    /\ main = "join"
    /\ up = "finished"
    /\ Goto("returned")
    /\ readyState' = "nil" /\ ready' = <<>>
    /\ ret' = IF err THEN "error" ELSE "id"
    /\ UNCHANGED <<vars, err, zfsvol, overlooked, up, cr, agentVars>>

DoBackup ==
    /\ \/ Prepare \/ StartUpload \/ ConnReadyWait \/ CreateBackup \/ CheckBackupStatus
       \/ DeleteBackup \/ SetExitServer \/ JoinUpload
    /\ UNCHANGED apiFaults
-------------------------------------------------------------------------------
(* doUpload                                                                *)

(* Variant: ConnReady is signalled again when epoll is set up.             *)
UploadSignalsTwice ==
    /\ up = "running"
    /\ Server
    /\ ready' = IF pc \in {"setup", "ready"} /\ pc' \in {"ready", "loop"}
                THEN Append(ready, TRUE) ELSE ready
    /\ UNCHANGED <<callVars, readyState, up, cr, agentVars>>

(* A step of Conn.Upload.  Run signals ConnReady when it listens.          *)
Upload ==
    /\ up = "running"
    /\ Server
    /\ ready' = IF pc = "setup" /\ pc' = "ready" THEN Append(ready, TRUE) ELSE ready
    /\ UNCHANGED <<callVars, readyState, up, cr, agentVars>>

UploadReturns ==
    /\ up = "running"
    /\ pc = "returned"
    /\ up' = IF result = "true" THEN "close" ELSE "signal"
    /\ UNCHANGED <<vars, callVars, chanVars, cr, agentVars>>

(* Upload has failed: false is sent, when the channel has room for it.     *)
SignalFalse ==
    /\ up = "signal"
    /\ ready = <<>>
    /\ ready' = <<FALSE>>
    /\ up' = "close"
    /\ UNCHANGED <<vars, callVars, readyState, cr, agentVars>>

CloseReady ==
    /\ up = "close"
    /\ readyState' = "closed"
    /\ up' = "finished"
    /\ UNCHANGED <<vars, callVars, ready, cr, agentVars>>

DoUpload ==
    /\ Upload \/ UploadReturns \/ SignalFalse \/ CloseReady
    /\ UNCHANGED apiFaults
-------------------------------------------------------------------------------
(* The node agent                                                          *)

SetStatus(s) == cr' = IF cr = "init" THEN s ELSE cr

(* Without "overtake" the server has ended the connection of an agent that *)
(* has crashed before it gets the next one.                                *)
AgentConnects(c) ==
    /\ cr = "init"
    /\ agent = "idle"
    /\ conn # Nil => sock[conn] \notin {"backlog", "open"} \/ "overtake" \in apiFaults
    /\ PeerConnect(c)
    /\ agent' = "sending" /\ conn' = c
    /\ UNCHANGED <<callVars, chanVars, up, cr>>

(* Nobody listens on the port.                                             *)
AgentIsRefused ==
    /\ cr = "init"
    /\ agent = "idle"
    /\ ~listening
    /\ agent' = "stopped"
    /\ SetStatus("failed")
    /\ UNCHANGED <<vars, callVars, chanVars, up, conn>>

AgentSends ==
    /\ agent = "sending"
    /\ PeerSend(conn)
    /\ UNCHANGED zfsVars

AgentCloses ==
    /\ agent = "sending"
    /\ sent[conn] = Chunks
    /\ PeerClose(conn)
    /\ agent' = "sent"
    /\ UNCHANGED <<callVars, chanVars, up, cr, conn>>

AgentReportsDone ==
    /\ agent = "sent"
    /\ agent' = "stopped"
    /\ SetStatus("done")
    /\ UNCHANGED <<vars, callVars, chanVars, up, conn>>

(* zfs send fails and the connection is closed early, or the server has    *)
(* dropped the connection.                                                 *)
AgentFails ==
    /\ agent = "sending"
    /\ \/ "agent" \in apiFaults /\ PeerClose(conn)
       \/ sock[conn] \in {"closed", "refused", "dropped"} /\ UNCHANGED vars
    /\ agent' = "stopped"
    /\ SetStatus("failed")
    /\ UNCHANGED <<callVars, chanVars, up, conn>>

(* The agent restarts, finds the resource in status Init and starts over.  *)
AgentRestarts ==
    /\ "crash" \in apiFaults
    /\ agent = "sending"
    /\ \E c \in Clients : peer[c] = "idle"
    /\ PeerReset(conn)
    /\ agent' = "idle"
    /\ UNCHANGED <<apiFaults, callVars, chanVars, up, cr, conn>>

AgentActs ==
    /\ \/ \E c \in Clients : AgentConnects(c)
       \/ AgentIsRefused \/ AgentSends \/ AgentCloses \/ AgentReportsDone \/ AgentFails
    /\ UNCHANGED apiFaults

Terminated == main = "returned" /\ UNCHANGED allVars

ZfsNext == DoBackup \/ DoUpload \/ AgentActs \/ AgentRestarts \/ Terminated

ZfsSpec == ZfsInit /\ [][ZfsNext]_allVars

(* The plugin's goroutines are scheduled, and an agent that has work goes  *)
(* on with it.                                                             *)
ZfsFairSpec ==
    /\ ZfsSpec
    /\ WF_allVars(DoBackup)
    /\ WF_allVars(DoUpload)
    /\ WF_allVars(AgentActs)
-------------------------------------------------------------------------------
(* Properties                                                              *)

ZfsTypeOK ==
    /\ TypeOK
    /\ main \in {"start", "reset", "wait", "create", "poll", "delete", "exit", "join", "returned"}
    /\ err \in BOOLEAN
    /\ ret \in {"none", "id", "error"}
    /\ zfsvol \in BOOLEAN
    /\ overlooked \in BOOLEAN
    /\ ready \in {<<>>, <<TRUE>>, <<FALSE>>}
    /\ readyState \in {"nil", "open", "closed"}
    /\ up \in {"idle", "running", "signal", "close", "finished"}
    /\ cr \in {"none", "init", "done", "failed", "deleted"}
    /\ agent \in {"idle", "sending", "sent", "stopped"}
    /\ conn \in Clients \cup {Nil}

(* A snapshot id is returned only for a backup whose whole stream is an    *)
(* object of the bucket: a Done status races with the server, which still  *)
(* has to read the rest and close the object, and the exit waits for that. *)
(* The code ignores five ways to lose it: the connection was refused after *)
(* the agent had written to it; the agent hung up before the rest was read *)
(* ("cut"); a write or the close of the object failed; epoll failed, and   *)
(* Upload returned false; or ExitServer was set in the moment between a    *)
(* time-out and the look at it.  "overtake" is an assumption on the agent. *)
IdMeansObject ==
    ret = "id" /\ "overtake" \notin apiFaults =>
        /\ zfsvol
        /\ \/ object = [by |-> conn, chunks |-> Chunks]
           \/ sock[conn] = "refused"
           \/ file[conn] \in {"cut", "broken", "lost"}
           \/ result = "false"
           \/ overlooked

(* doUpload uses *Conn.ConnReady, so doBackup sets it to nil only when     *)
(* doUpload is finished.                                                   *)
ReadyNotNil == up \in {"running", "signal", "close"} => readyState = "open"

(* The agent learns of the server's address when the server listens on it, *)
(* and is refused only by a server that has stopped.                       *)
AgentFindsServer == cr = "init" => listening \/ result # "none"

(* A resource left behind by a failed call would be taken for a backup by  *)
(* getPrevSnap: none is, unless its deletion fails or it was created and   *)
(* the answer was lost.                                                    *)
NoOrphanResource ==
    apiFaults \cap {"delete", "answer"} = {} /\ ret = "error" => cr \in {"none", "deleted"}

(* CreateSnapshot returns.                                                 *)
Returns == <>(ret # "none")
===============================================================================
