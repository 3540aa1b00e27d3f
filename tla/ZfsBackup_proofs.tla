---------------------------- MODULE ZfsBackup_proofs ----------------------------
(***************************************************************************)
(* Machine-checked proofs about ZfsBackup: CreateSnapshot of the ZFS       *)
(* plugin with its upload goroutine, the server and the node agent, for    *)
(* any number of connections, any bounds and any sets of faults.           *)
(*                                                                         *)
(* CallInv is about the two goroutines and the resource.  With it each     *)
(* step of the composition is a step of TransferServer or leaves it alone, *)
(* so that the server's own invariants hold here too; DeliverInv adds what *)
(* becomes of the stream of an agent that has sent all of it.              *)
(***************************************************************************)
EXTENDS ZfsBackup, TransferServer_listproofs

CallTypes ==
    /\ apiFaults \in ApiFaults
    /\ main \in {"start", "reset", "wait", "create", "poll", "delete", "exit", "join", "returned"}
    /\ err \in BOOLEAN
    /\ ret \in {"none", "id", "error"}
    /\ zfsvol \in BOOLEAN
    /\ overlooked \in BOOLEAN
    /\ ready \in {<<>>, <<TRUE>>, <<FALSE>>}
    /\ readyState \in {"nil", "open", "closed"}
    /\ up \in {"idle", "running", "signal", "close", "finished"}
    /\ cr \in {"none", "init", "done", "failed", "deleted"}
    /\ agent \in {"idle", "sending", "sent", "stopped"}
    /\ conn \in Clients \cup {Nil}
    /\ exitServer \in BOOLEAN

(* doUpload is started once, and doBackup returns after it.                *)
Goroutines ==
    /\ up = "idle" => main \in {"start", "reset", "returned"} /\ pc = "setup"
    /\ main \in {"start", "reset"} => up = "idle"
    /\ up \in {"signal", "close", "finished"} => pc = "returned"
    /\ main = "returned" => up \in {"idle", "finished"}
    /\ pc = "setup" => ready = <<>>
    /\ exitServer \/ overlooked => main \in {"join", "returned"}

Channel == ReadyNotNil /\ (up = "finished" /\ main # "returned" => readyState = "closed")

(* What doBackup knows where it is.                                        *)
Results ==
    /\ main \in {"start", "reset", "wait", "create", "poll"} => ~err
    /\ main = "delete" => err
    /\ main = "returned" <=> ret # "none"
    /\ ret = "id" => ~err /\ up = "finished"
    /\ ret = "error" => err
    /\ main \notin {"start", "returned"} \/ ret = "id" => zfsvol
    /\ main \in {"exit", "join", "returned"} /\ ~err => cr = "done"
    /\ main \in {"exit", "join", "returned"} /\ err /\ apiFaults \cap {"delete", "answer"} = {}
          => cr \in {"none", "deleted"}

(* An agent works on the resource of the call.                             *)
Resource ==
    /\ main \in {"start", "reset", "wait", "create"} => cr = "none"
    /\ main \in {"poll", "delete"} => cr # "none"
    /\ cr = "none" => agent = "idle" /\ conn = Nil
    /\ agent \in {"sending", "sent"} => conn # Nil
    /\ agent \in {"sending", "sent"} /\ ~err => cr = "init"

(* Run has told doBackup that it listens.                                  *)
Signalled == ready = <<TRUE>> \/ main = "create" \/ cr # "none"

Listened == pc # "setup" /\ (listening \/ result # "none")

CallInv == CallTypes /\ Goroutines /\ Channel /\ Results /\ Resource /\ (Signalled => Listened)

-------------------------------------------------------------------------------
(* What a step of the server, or of a peer, changes of what is shared.     *)
LEMMA ServerMoves ==
    ASSUME Server
    PROVE  /\ pc # "returned" /\ pc' # "setup"
           /\ exitServer' = exitServer
           /\ Listened => Listened'
           /\ pc = "setup" /\ pc' = "ready" => listening'
<1> USE DEF Listened, clientVars
<1>1. CASE Listen
  BY <1>1 DEF Listen
<1>2. CASE CreateEpoll \/ EpollWait \/ EpollTimeout \/ TestExit \/ EpollError \/ Return \/ ReturnFalse
  BY <1>2 DEF CreateEpoll, EpollWait, EpollTimeout, TestExit, EpollError, Return, ReturnFalse
<1>3. ASSUME NEW c \in Clients,
             \/ AcceptClient(c) \/ StartRead(c) \/ ReadChunk(c) \/ ReadReturns(c)
             \/ HandleWrite(c) \/ SendData(c) \/ HandleHup(c) \/ DisconnectClient(c)
      PROVE  /\ pc \in {"loop", "read", "send", "closing"} /\ pc' \in {"loop", "read", "send", "closing"}
             /\ UNCHANGED <<exitServer, listening, result>>
  BY <1>3 DEF AcceptClient, StartRead, ReadChunk, ReadReturns, HandleWrite, SendData, HandleHup, DisconnectClient
<1> QED BY <1>1, <1>2, <1>3 DEF Server

LEMMA PeerLeaves ==
    ASSUME NEW c \in Clients, Peer(c)
    PROVE  UNCHANGED <<pc, exitServer, listening, result, object>>
BY DEF Peer, PeerConnect, PeerSend, PeerReceive, PeerClose, PeerReset

LEMMA OneValue ==
    ASSUME NEW x, NEW y
    PROVE  /\ Append(<<>>, x) = <<x>>
           /\ Tail(<<x>>) = <<>> /\ Head(<<x>>) = x /\ <<x>> # <<>>
           /\ <<x>> = <<y>> => x = y
OBVIOUS

LEMMA ReadyValues ==
    /\ Append(<<>>, TRUE) = <<TRUE>>
    /\ Tail(<<TRUE>>) = <<>> /\ Head(<<TRUE>>) = TRUE
    /\ Tail(<<FALSE>>) = <<>> /\ Head(<<FALSE>>) = FALSE
    /\ <<TRUE>> # <<FALSE>> /\ <<TRUE>> # <<>> /\ <<FALSE>> # <<>>
<1>1. \A x : Append(<<>>, x) = <<x>> /\ Tail(<<x>>) = <<>> /\ Head(<<x>>) = x /\ <<x>> # <<>>
  BY OneValue
<1>2. <<TRUE>> = <<FALSE>> => TRUE = FALSE
  BY OneValue, Zenon
<1>3. TRUE # FALSE
  OBVIOUS
<1> QED BY <1>1, <1>2, <1>3, Zenon

LEMMA CallInit == ZfsInit => CallInv
BY ReadyValues DEF ZfsInit, Init, CallInv, CallTypes, Goroutines, Channel, ReadyNotNil, Results, Resource, Signalled

LEMMA CallBackup ==
    ASSUME CallInv, DoBackup
    PROVE  CallInv'
<1> USE ReadyValues DEF CallInv, CallTypes, Goroutines, Channel, ReadyNotNil, Results, Resource, Signalled,
                        Listened, Goto, DoBackup, vars, chanVars, agentVars
<1>1. CASE Prepare
  BY <1>1 DEF Prepare
<1>2. CASE StartUpload
  BY <1>2 DEF StartUpload
<1>3. CASE ConnReadyWait
  BY <1>3 DEF ConnReadyWait
<1>4. CASE CreateBackup
  BY <1>4 DEF CreateBackup
<1>5. CASE CheckBackupStatus
  <2>1. CallTypes'
    BY <1>5 DEF CheckBackupStatus
  <2>2. Goroutines' /\ Channel'
    BY <1>5 DEF CheckBackupStatus
  <2>3. Results' /\ Resource'
    BY <1>5 DEF CheckBackupStatus, PollSucceeds, PollFails
  <2>4. (Signalled => Listened)'
    BY <1>5 DEF CheckBackupStatus
  <2> QED BY <2>1, <2>2, <2>3, <2>4
<1>6. CASE DeleteBackup
  <2>1. CallTypes'
    BY <1>6 DEF DeleteBackup
  <2>2. Goroutines' /\ Channel'
    BY <1>6 DEF DeleteBackup
  <2>3. Results' /\ Resource'
    BY <1>6 DEF DeleteBackup
  <2>4. (Signalled => Listened)'
    BY <1>6 DEF DeleteBackup
  <2> QED BY <2>1, <2>2, <2>3, <2>4
<1>7. CASE SetExitServer
  <2>1. CallTypes'
    BY <1>7 DEF SetExitServer
  <2>2. Goroutines' /\ Channel'
    BY <1>7 DEF SetExitServer
  <2>3. Results' /\ Resource'
    BY <1>7 DEF SetExitServer
  <2>4. (Signalled => Listened)'
    BY <1>7 DEF SetExitServer
  <2> QED BY <2>1, <2>2, <2>3, <2>4
<1>8. CASE JoinUpload
  BY <1>8 DEF JoinUpload
<1> QED BY <1>1, <1>2, <1>3, <1>4, <1>5, <1>6, <1>7, <1>8

LEMMA CallUpload ==
    ASSUME CallInv, DoUpload
    PROVE  CallInv'
<1> USE ReadyValues DEF CallInv, CallTypes, Goroutines, Channel, ReadyNotNil, Results, Resource, Signalled,
                        DoUpload, callVars, chanVars, agentVars
<1>1. CASE Upload
  <2>1. /\ pc # "returned" /\ pc' # "setup" /\ exitServer' = exitServer
        /\ Listened => Listened'
        /\ pc = "setup" /\ pc' = "ready" => listening'
    BY <1>1, ServerMoves DEF Upload
  <2>2. CASE pc = "setup" /\ pc' = "ready"
    <3>1. ready' = <<TRUE>>
      BY <1>1, <2>2 DEF Upload
    <3> QED BY <1>1, <2>1, <2>2, <3>1 DEF Upload, Listened
  <2>3. CASE ~(pc = "setup" /\ pc' = "ready")
    <3>1. ready' = ready
      BY <1>1, <2>3 DEF Upload
    <3>2. UNCHANGED <<apiFaults, callVars, readyState, up, cr, agentVars>> /\ up = "running"
      BY <1>1 DEF Upload
    <3>3. CallTypes'
      BY <2>1, <3>1, <3>2
    <3>4. Goroutines' /\ Channel'
      BY <2>1, <3>1, <3>2
    <3>5. Results' /\ Resource' /\ (Signalled => Listened)'
      BY <2>1, <3>1, <3>2
    <3> QED BY <3>3, <3>4, <3>5
  <2> QED BY <2>2, <2>3
<1>2. CASE UploadReturns
  <2>1. CallTypes'
    BY <1>2 DEF UploadReturns, vars
  <2>2. Goroutines' /\ Channel'
    BY <1>2 DEF UploadReturns, vars
  <2>3. Results' /\ Resource' /\ (Signalled => Listened)'
    BY <1>2 DEF UploadReturns, vars, Listened
  <2> QED BY <2>1, <2>2, <2>3
<1>3. CASE SignalFalse
  <2>1. CallTypes'
    BY <1>3 DEF SignalFalse, vars
  <2>2. Goroutines' /\ Channel'
    BY <1>3 DEF SignalFalse, vars
  <2>3. Results' /\ Resource' /\ (Signalled => Listened)'
    BY <1>3 DEF SignalFalse, vars, Listened
  <2> QED BY <2>1, <2>2, <2>3
<1>4. CASE CloseReady
  <2>1. CallTypes'
    BY <1>4 DEF CloseReady, vars
  <2>2. Goroutines' /\ Channel'
    BY <1>4 DEF CloseReady, vars
  <2>3. Results' /\ Resource' /\ (Signalled => Listened)'
    BY <1>4 DEF CloseReady, vars, Listened
  <2> QED BY <2>1, <2>2, <2>3
<1> QED BY <1>1, <1>2, <1>3, <1>4

(* What the agent's steps have in common.                                  *)
AgentWorks ==
    /\ UNCHANGED <<pc, exitServer, listening, result>>
    /\ UNCHANGED <<apiFaults, main, err, ret, zfsvol, overlooked, ready, readyState, up>>
    /\ cr' = cr \/ (cr = "init" /\ cr' \in {"done", "failed"} /\ agent' = "stopped")
    /\ agent' \in {"idle", "sending", "sent", "stopped"}
    /\ conn' \in Clients \cup {Nil}
    /\ cr # "none"
    /\ agent' \in {"sending", "sent"} => conn' # Nil /\ (~err => cr' = "init")

LEMMA AgentStep ==
    ASSUME CallInv, AgentActs \/ AgentRestarts
    PROVE  AgentWorks
<1>0. conn \in Clients \cup {Nil} /\ agent \in {"idle", "sending", "sent", "stopped"} /\ Resource
  BY DEF CallInv, CallTypes
<1>1. apiFaults' = apiFaults
  BY DEF AgentActs, AgentRestarts
<1> USE <1>1 DEF AgentWorks, SetStatus, callVars, chanVars, agentVars, zfsVars, Resource
<1>2. ASSUME NEW c \in Clients, AgentConnects(c) PROVE AgentWorks
  <2>1. UNCHANGED <<pc, exitServer, listening, result>>
    BY <1>2, PeerLeaves DEF AgentConnects, Peer
  <2> QED BY <1>0, <1>2, <2>1, ClientsAssumption DEF AgentConnects
<1>3. CASE AgentIsRefused
  BY <1>0, <1>3 DEF AgentIsRefused, vars
<1>4. CASE AgentSends
  <2>1. UNCHANGED <<pc, exitServer, listening, result>>
    BY <1>0, <1>4, PeerLeaves DEF AgentSends, Peer
  <2> QED BY <1>0, <1>4, <2>1 DEF AgentSends
<1>5. CASE AgentCloses
  <2>1. UNCHANGED <<pc, exitServer, listening, result>>
    BY <1>0, <1>5, PeerLeaves DEF AgentCloses, Peer
  <2> QED BY <1>0, <1>5, <2>1 DEF AgentCloses
<1>6. CASE AgentReportsDone
  BY <1>0, <1>6 DEF AgentReportsDone, vars
<1>7. CASE AgentFails
  <2>1. UNCHANGED <<pc, exitServer, listening, result>>
    BY <1>0, <1>7, PeerLeaves DEF AgentFails, Peer, vars
  <2> QED BY <1>0, <1>7, <2>1 DEF AgentFails
<1>8. CASE AgentRestarts
  <2>1. UNCHANGED <<pc, exitServer, listening, result>>
    BY <1>0, <1>8, PeerLeaves DEF AgentRestarts, Peer
  <2> QED BY <1>0, <1>8, <2>1 DEF AgentRestarts
<1> QED BY <1>2, <1>3, <1>4, <1>5, <1>6, <1>7, <1>8 DEF AgentActs

LEMMA CallAgent ==
    ASSUME CallInv, AgentWorks
    PROVE  CallInv'
<1>1. CallTypes'
  <2>1. cr' \in {"none", "init", "done", "failed", "deleted"}
    BY DEF CallInv, CallTypes, AgentWorks
  <2>2. /\ apiFaults' = apiFaults /\ main' = main /\ err' = err /\ ret' = ret /\ zfsvol' = zfsvol
        /\ overlooked' = overlooked
        /\ ready' = ready /\ readyState' = readyState /\ up' = up /\ exitServer' = exitServer
    BY DEF AgentWorks
  <2>3. agent' \in {"idle", "sending", "sent", "stopped"} /\ conn' \in Clients \cup {Nil}
    BY DEF AgentWorks
  <2>4. CallTypes
    BY DEF CallInv
  <2>5. /\ apiFaults' \in ApiFaults /\ err' \in BOOLEAN /\ zfsvol' \in BOOLEAN
        /\ exitServer' \in BOOLEAN /\ overlooked' \in BOOLEAN
        /\ main' \in {"start", "reset", "wait", "create", "poll", "delete", "exit", "join", "returned"}
        /\ ret' \in {"none", "id", "error"}
    BY <2>2, <2>4, Zenon DEF CallTypes
  <2>6. /\ ready' \in {<<>>, <<TRUE>>, <<FALSE>>} /\ readyState' \in {"nil", "open", "closed"}
        /\ up' \in {"idle", "running", "signal", "close", "finished"}
    BY <2>2, <2>4, Zenon DEF CallTypes
  <2> QED BY <2>1, <2>3, <2>5, <2>6 DEF CallTypes
<1>2. Goroutines' /\ Channel'
  BY DEF CallInv, AgentWorks, Goroutines, Channel, ReadyNotNil
<1>3. Results'
  BY DEF CallInv, AgentWorks, Results
<1>4. Resource'
  BY DEF CallInv, AgentWorks, Resource
<1>5. (Signalled => Listened)'
  BY DEF CallInv, AgentWorks, Signalled, Listened
<1> QED BY <1>1, <1>2, <1>3, <1>4, <1>5 DEF CallInv

(* Every step of the composition is one of the server's, or leaves the     *)
(* server alone: ExitServer is not set yet when StartUpload resets it.     *)
LEMMA ServerStepped ==
    ASSUME CallInv, [ZfsNext]_allVars
    PROVE  [Next]_vars
<1>0. CallTypes /\ Resource /\ Goroutines
  BY DEF CallInv
<1>1. CASE Upload \/ SetExitServer \/ StartUpload
  <2>1. CASE Upload
    BY <2>1 DEF Upload, Next
  <2>2. CASE SetExitServer
    BY <1>0, <2>2 DEF SetExitServer, Goroutines, Next, RequestExit
  <2>3. CASE StartUpload
    <3>1. exitServer = FALSE /\ exitServer' = FALSE
      BY <1>0, <2>3, Zenon DEF StartUpload, Goroutines, CallTypes
    <3> QED BY <2>3, <3>1 DEF StartUpload, vars
  <2> QED BY <1>1, <2>1, <2>2, <2>3
<1>2. CASE AgentActs \/ AgentRestarts
  <2>1. UNCHANGED vars \/ \E c \in Clients : Peer(c)
    BY <1>0, <1>2 DEF AgentActs, AgentConnects, AgentIsRefused, AgentSends, AgentCloses, AgentReportsDone,
                      AgentFails, AgentRestarts, Peer, CallTypes, Resource
  <2> QED BY <2>1 DEF Next
<1>3. CASE \/ Prepare \/ ConnReadyWait \/ CreateBackup \/ CheckBackupStatus \/ DeleteBackup \/ JoinUpload
           \/ UploadReturns \/ SignalFalse \/ CloseReady \/ UNCHANGED allVars
  BY <1>3 DEF Prepare, ConnReadyWait, CreateBackup, CheckBackupStatus, DeleteBackup, JoinUpload,
              UploadReturns, SignalFalse, CloseReady, allVars
<1> QED BY <1>1, <1>2, <1>3 DEF ZfsNext, DoBackup, DoUpload, Terminated

LEMMA CallNext == CallInv /\ [ZfsNext]_allVars => CallInv'
<1> SUFFICES ASSUME CallInv, [ZfsNext]_allVars PROVE CallInv'
  OBVIOUS
<1>1. CASE DoBackup
  BY <1>1, CallBackup
<1>2. CASE DoUpload
  BY <1>2, CallUpload
<1>3. CASE AgentActs \/ AgentRestarts
  BY <1>3, AgentStep, CallAgent
<1>4. CASE UNCHANGED allVars
  <2>1. /\ UNCHANGED <<pc, exitServer, listening, result, apiFaults, main, err, ret, zfsvol>>
        /\ UNCHANGED <<overlooked, ready, readyState, up, cr, agent, conn>>
    BY <1>4 DEF allVars, vars, zfsVars, callVars, chanVars, agentVars
  <2>2. CallTypes'
    <3>1. ready' \in {<<>>, <<TRUE>>, <<FALSE>>}
      BY <2>1, Zenon DEF CallInv, CallTypes
    <3>2. /\ apiFaults' \in ApiFaults /\ err' \in BOOLEAN /\ zfsvol' \in BOOLEAN
        /\ exitServer' \in BOOLEAN /\ overlooked' \in BOOLEAN
          /\ main' \in {"start", "reset", "wait", "create", "poll", "delete", "exit", "join", "returned"}
      BY <2>1, Zenon DEF CallInv, CallTypes
    <3>3. /\ ret' \in {"none", "id", "error"}
          /\ readyState' \in {"nil", "open", "closed"}
          /\ up' \in {"idle", "running", "signal", "close", "finished"}
      BY <2>1, Zenon DEF CallInv, CallTypes
    <3>4. /\ cr' \in {"none", "init", "done", "failed", "deleted"}
          /\ agent' \in {"idle", "sending", "sent", "stopped"}
          /\ conn' \in Clients \cup {Nil}
      BY <2>1, Zenon DEF CallInv, CallTypes
    <3> QED BY <3>1, <3>2, <3>3, <3>4, Zenon DEF CallTypes
  <2>3. Goroutines' /\ Channel' /\ Results' /\ Resource'
    BY <2>1, Zenon DEF CallInv, Goroutines, Channel, ReadyNotNil, Results, Resource
  <2>4. (Signalled => Listened)'
    BY <2>1 DEF CallInv, Signalled, Listened
  <2> QED BY <2>2, <2>3, <2>4 DEF CallInv
<1> QED BY <1>1, <1>2, <1>3, <1>4 DEF ZfsNext, Terminated

LEMMA CallCorrect == ZfsSpec => []CallInv
BY CallInit, CallNext, PTL DEF ZfsSpec

(* The composition is a behaviour of the server: whatever is proved of     *)
(* TransferServer holds of the server inside CreateSnapshot.               *)
THEOREM BackupRunsServer == ZfsSpec => Spec
<1>1. ZfsInit => Init
  BY DEF ZfsInit
<1>2. CallInv /\ [ZfsNext]_allVars => [Next]_vars
  BY ServerStepped
<1> QED BY <1>1, <1>2, CallCorrect, PTL DEF ZfsSpec, Spec

(* CreateSnapshot gets from its Upload what Transfer promises: the server  *)
(* serves until doBackup sets ExitServer, and leaves its loop only by a    *)
(* time-out at which nothing that had arrived was unread.                  *)
THEOREM BackupKeepsPromise == ZfsSpec => KeepsPromise
BY BackupRunsServer, ServerKeepsPromise, PTL

(* Every variable of the composition keeps its type; the channel of        *)
(* capacity one never holds two values.                                    *)
THEOREM CallTypeCorrect == ZfsSpec => []ZfsTypeOK
<1>1. CallInv /\ TypeOK => ZfsTypeOK
  BY DEF CallInv, CallTypes, ZfsTypeOK
<1> QED BY <1>1, CallCorrect, BackupRunsServer, TypeCorrect, PTL

(* doBackup sets ConnReady to nil only when doUpload no longer uses it.    *)
THEOREM ReadyKept == ZfsSpec => []ReadyNotNil
<1>1. CallInv => ReadyNotNil
  BY DEF CallInv, Channel
<1> QED BY <1>1, CallCorrect, PTL

(* An agent that sees the resource finds a server that listens, or one     *)
(* that has stopped: the resource is created after ConnReady.              *)
THEOREM AgentIsExpected == ZfsSpec => []AgentFindsServer
<1>1. CallInv => AgentFindsServer
  BY DEF CallInv, Signalled, Listened, AgentFindsServer
<1> QED BY <1>1, CallCorrect, PTL

(* A failed call leaves no resource behind, unless its deletion fails, or  *)
(* the answer to its creation is lost.                                     *)
THEOREM NothingOrphaned == ZfsSpec => []NoOrphanResource
<1>1. CallInv => NoOrphanResource
  BY DEF CallInv, Results, NoOrphanResource
<1> QED BY <1>1, CallCorrect, PTL
-------------------------------------------------------------------------------
(* The stream of the agent.  Only restore clients leak, and a server that  *)
(* has stopped was told to, or has failed.                                 *)
Stopped ==
    /\ \A c \in Clients : sock[c] # "leaked"
    /\ pc = "closing" => exitServer
    /\ pc = "returned" => exitServer \/ result = "false"

(* Without "overtake" the agent has one connection the server may still    *)
(* work on, its last.                                                      *)
Alone ==
    "overtake" \notin apiFaults =>
        \A c \in Clients : sock[c] \in {"backlog", "open"} => c = conn

(* What an agent that has sent all of its stream finds of it: it is being  *)
(* served, it is the object, or it was lost in one of the known ways.      *)
Pending ==
    /\ sock[conn] \in {"backlog", "open"}
    /\ pc \in {"ready", "loop", "read", "send"} \/ (pc = "timedout" /\ ~exitServer)

Stored == sock[conn] = "closed" /\ object = [by |-> conn, chunks |-> Chunks]

Lost ==
    \/ sock[conn] = "refused"
    \/ sock[conn] = "closed" /\ file[conn] \in {"cut", "broken", "lost"}
    \/ pc = "failed"
    \/ result = "false"
    \/ overlooked

Delivered ==
    "overtake" \notin apiFaults /\ ~err /\ (agent = "sent" \/ cr = "done") =>
        /\ conn \in Clients /\ peer[conn] = "fin" /\ sent[conn] = Chunks
        /\ Pending \/ Stored \/ Lost

DeliverInv == CallInv /\ FlowInv /\ Stopped /\ Alone /\ Delivered

(* What the server does to connections that it has not accepted yet.       *)
LEMMA BacklogMoves ==
    ASSUME TypeOK, EventsAreLive, Server
    PROVE  /\ \A x \in Clients : sock'[x] \in {"backlog", "open"} => sock[x] \in {"backlog", "open"}
           /\ \A x \in Clients : sock'[x] = "leaked" => sock[x] = "leaked"
           /\ \A x \in Clients : sock[x] = "backlog" /\ pc # "closing" =>
                  sock'[x] \in {"backlog", "open", "refused"}
<1> USE DEF TypeOK, clientVars
<1>1. CASE Listen \/ CreateEpoll \/ EpollWait \/ EpollTimeout \/ TestExit \/ EpollError \/ ReturnFalse
  BY <1>1 DEF Listen, CreateEpoll, EpollWait, EpollTimeout, TestExit, EpollError, ReturnFalse
<1>2. CASE Return
  BY <1>2 DEF Return
<1>3. ASSUME NEW c \in Clients, AcceptClient(c)
      PROVE  /\ sock[c] = "backlog"
             /\ sock' \in {sock, [sock EXCEPT ![c] = "open"], [sock EXCEPT ![c] = "refused"]}
  BY <1>3, BackupAssumption DEF AcceptClient, Admit, AcceptFails, Refuse, Leak, Backlog
<1>4. ASSUME NEW c \in Clients, DisconnectClient(c)
      PROVE  pc = "closing" /\ sock' = [sock EXCEPT ![c] = "closed"]
  BY <1>4 DEF DisconnectClient, EndClient
<1>5. ASSUME NEW c \in Clients,
             \/ StartRead(c) \/ ReadChunk(c) \/ ReadReturns(c)
             \/ HandleWrite(c) \/ SendData(c) \/ HandleHup(c)
      PROVE  sock[c] = "open" /\ sock' \in {sock, [sock EXCEPT ![c] = "closed"]}
  BY <1>5 DEF StartRead, ReadChunk, ReadReturns, AfterEmptyRead, HandleWrite, SendData, HandleHup,
              EndClient, EventsAreLive, Open
<1> QED BY <1>1, <1>2, <1>3, <1>4, <1>5 DEF Server

(* What the server does to the phase.                                      *)
LEMMA ServerGoesOn ==
    ASSUME Server
    PROVE  /\ pc \in {"ready", "loop", "read", "send"} =>
                  pc' \in {"ready", "loop", "read", "send", "failed"} \/ EpollTimeout
           /\ pc = "timedout" => pc' \in {"loop", "closing"} /\ (pc' = "closing" => exitServer)
           /\ pc = "failed" => result' = "false"
           /\ result' = "false" => result = "false" \/ pc = "failed"
           /\ pc' = "closing" => exitServer \/ pc = "closing"
           /\ pc' = "returned" => result' = "false" \/ pc = "closing"
<1>1. CASE Listen \/ CreateEpoll \/ EpollWait \/ EpollTimeout \/ TestExit \/ EpollError \/ Return \/ ReturnFalse
  BY <1>1 DEF Listen, CreateEpoll, EpollWait, EpollTimeout, TestExit, EpollError, Return, ReturnFalse
<1>2. ASSUME NEW c \in Clients,
             \/ AcceptClient(c) \/ StartRead(c) \/ ReadChunk(c) \/ ReadReturns(c)
             \/ HandleWrite(c) \/ SendData(c) \/ HandleHup(c)
      PROVE  pc \in {"loop", "read", "send"} /\ pc' \in {"loop", "read", "send"} /\ result' = result
  BY <1>2 DEF AcceptClient, StartRead, ReadChunk, ReadReturns, HandleWrite, SendData, HandleHup
<1>3. ASSUME NEW c \in Clients, DisconnectClient(c)
      PROVE  pc = "closing" /\ pc' = "closing" /\ result' = result
  BY <1>3 DEF DisconnectClient
<1> QED BY <1>1, <1>2, <1>3 DEF Server

(* A step of neither the server nor the agent.                             *)
Talks ==
    /\ UNCHANGED <<peer, sock, sent, pc, object, file, result, agent, conn, apiFaults>>
    /\ overlooked => overlooked'
    /\ exitServer => exitServer'
    /\ exitServer' /\ ~exitServer => overlooked' \/ pc # "timedout" \/ conn \notin Backlog \cup Open
    /\ ~err' => ~err
    /\ cr' = "done" => cr = "done"

LEMMA TalkKinds ==
    ASSUME CallInv, [ZfsNext]_allVars
    PROVE  Talks \/ (Upload /\ UNCHANGED apiFaults) \/ AgentActs \/ AgentRestarts
<1> USE DEF Talks, Goto, peerVars, clientVars, callVars, chanVars, agentVars, vars
<1>0. exitServer \in BOOLEAN /\ overlooked \in BOOLEAN /\ Goroutines /\ Results /\ Resource
  BY DEF CallInv, CallTypes
<1>1. CASE Prepare /\ UNCHANGED apiFaults
  BY <1>0, <1>1 DEF Prepare, Results
<1>2. CASE StartUpload /\ UNCHANGED apiFaults
  BY <1>0, <1>2 DEF StartUpload, Goroutines, Resource
<1>3. CASE ConnReadyWait /\ UNCHANGED apiFaults
  BY <1>0, <1>3 DEF ConnReadyWait, Results
<1>4. CASE CreateBackup /\ UNCHANGED apiFaults
  BY <1>0, <1>4 DEF CreateBackup, Results
<1>5. CASE CheckBackupStatus /\ UNCHANGED apiFaults
  BY <1>0, <1>5 DEF CheckBackupStatus, PollSucceeds, PollFails, Results
<1>6. CASE DeleteBackup /\ UNCHANGED apiFaults
  BY <1>0, <1>6 DEF DeleteBackup, Resource
<1>7. CASE SetExitServer /\ UNCHANGED apiFaults
  BY <1>0, <1>7 DEF SetExitServer, Goroutines
<1>8. CASE JoinUpload /\ UNCHANGED apiFaults
  BY <1>0, <1>8 DEF JoinUpload
<1>9. CASE (UploadReturns \/ SignalFalse \/ CloseReady) /\ UNCHANGED apiFaults
  BY <1>0, <1>9 DEF UploadReturns, SignalFalse, CloseReady
<1>10. CASE UNCHANGED allVars
  BY <1>10 DEF allVars, zfsVars
<1> QED
  BY <1>1, <1>2, <1>3, <1>4, <1>5, <1>6, <1>7, <1>8, <1>9, <1>10
     DEF ZfsNext, DoBackup, DoUpload, Terminated

LEMMA StoppedNext ==
    ASSUME DeliverInv, [ZfsNext]_allVars
    PROVE  Stopped'
<1>0. CallInv /\ Stopped /\ TypeOK /\ EventsAreLive
  BY DEF DeliverInv, FlowInv, EventInv, TypeInv, Events
<1>1. CASE Talks
  BY <1>0, <1>1 DEF Talks, Stopped
<1>2. CASE Upload
  <2>1. Server /\ exitServer' = exitServer /\ pc # "returned"
    BY <1>2, ServerMoves DEF Upload
  <2> QED BY <1>0, <2>1, BacklogMoves, ServerGoesOn DEF Stopped
<1>3. CASE AgentActs \/ AgentRestarts
  <2>1. UNCHANGED <<pc, exitServer, result>>
    BY <1>0, <1>3, AgentStep DEF AgentWorks
  <2>2. \A x \in Clients : sock'[x] = sock[x] \/ sock'[x] = "backlog"
    BY <1>0, <1>3 DEF AgentActs, AgentConnects, AgentIsRefused, AgentSends, AgentCloses, AgentReportsDone,
                      AgentFails, AgentRestarts, PeerConnect, PeerSend, PeerClose, PeerReset, vars,
                      clientVars, TypeOK
  <2> QED BY <1>0, <2>1, <2>2 DEF Stopped
<1> QED BY <1>0, <1>1, <1>2, <1>3, TalkKinds

(* While the server serves, the stream of an agent that has sent it all is *)
(* read to its end, or lost in a known way.                                *)
LEMMA ServerDelivers ==
    ASSUME DeliverInv, Upload, UNCHANGED apiFaults, [Next]_vars
    PROVE  Delivered'
<1>0. /\ TypeOK /\ OpOK /\ EventsAreLive /\ EventInv /\ ListInv /\ Flow /\ FlowInv
      /\ Stopped /\ Alone /\ CallInv /\ Delivered
  BY DEF DeliverInv, FlowInv, EventInv, TypeInv, Events
<1>1. /\ Server /\ exitServer' = exitServer /\ pc # "returned"
      /\ UNCHANGED <<cr, err, agent, conn, overlooked>>
  BY ServerMoves DEF Upload, callVars, agentVars
<1> SUFFICES ASSUME "overtake" \notin apiFaults, ~err, agent = "sent" \/ cr = "done"
             PROVE  /\ conn \in Clients /\ peer'[conn] = "fin" /\ sent'[conn] = Chunks
                    /\ (Pending \/ Stored \/ Lost)'
  BY <1>1 DEF Delivered
<1>2. /\ conn \in Clients /\ peer[conn] = "fin" /\ sent[conn] = Chunks
      /\ Pending \/ Stored \/ Lost
  BY <1>0 DEF Delivered
<1>3. peer' = peer /\ sent' = sent
  BY <1>1 DEF Server, Listen, CreateEpoll, EpollWait, EpollTimeout, TestExit, EpollError, Return,
              ReturnFalse, AcceptClient, StartRead, ReadChunk, ReadReturns, HandleWrite, SendData,
              HandleHup, DisconnectClient, peerVars
<1> SUFFICES (Pending \/ Stored \/ Lost)'
  BY <1>2, <1>3
<1>4. CASE Carries
  <2>1. CASE Pending
    <3>1. ~EpollTimeout
      <4>1. SUFFICES ASSUME EpollTimeout PROVE FALSE
        OBVIOUS
      <4>2. NothingToDo
        BY <1>0, <4>1, QuietTimeout
      <4> QED BY <1>2, <2>1, <4>2 DEF NothingToDo, Pending, Backlog, Open
    <3>2. pc' \in {"ready", "loop", "read", "send", "failed"}
      BY <1>1, <2>1, <3>1, ServerGoesOn DEF Pending
    <3>3. sock'[conn] \in {"backlog", "open", "refused"}
      <4>1. CASE sock[conn] = "open"
        BY <1>2, <1>4, <4>1 DEF Carries
      <4>2. CASE sock[conn] = "backlog"
        BY <1>0, <1>1, <1>2, <2>1, <4>2, BacklogMoves DEF Pending
      <4> QED BY <2>1, <4>1, <4>2 DEF Pending
    <3> QED BY <1>1, <3>2, <3>3 DEF Pending, Lost
  <2>2. CASE Stored
    BY <1>1, <1>2, <1>4, <2>2 DEF Stored, Carries, Lost
  <2>3. CASE Lost
    BY <1>1, <1>2, <1>4, <2>3, ServerGoesOn DEF Lost, Carries, Closed
  <2> QED BY <1>2, <1>3, <2>1, <2>2, <2>3
<1>5. CASE Finished
  <2>1. PICK c \in Clients, eof \in BOOLEAN, mask \in Masks, how \in Ways : Finishes(c, eof, mask, how)
    BY <1>5 DEF Finished
  <2>2. c = conn /\ sock[conn] = "open" /\ result' = result
    BY <1>0, <2>1 DEF Alone, Finishes
  <2>3. sock'[conn] = "closed" /\ file'[conn] \in {how, "lost"}
    BY <1>0, <2>1, <2>2, FinishesCloses DEF TypeOK
  <2>4. CASE Lost
    BY <1>1, <2>2, <2>4, ServerGoesOn DEF Lost, Closed
  <2>5. CASE Pending
    <3>1. Reason(conn, eof, mask, how) /\ pc # "closing"
      BY <2>1, <2>2, <2>5 DEF Finishes, Pending
    <3>2. CASE file'[conn] = "lost" \/ how # "closed"
      BY <1>1, <2>3, <3>2 DEF Lost, Ways
    <3>3. CASE file'[conn] # "lost" /\ how = "closed"
      <4>1. queue[conn] = 0
        BY <3>1, <3>3, BackupAssumption DEF Reason
      <4>2. moved[conn] = Chunks
        BY <1>0, <1>2, <2>2, <4>1, BackupAssumption DEF Flow, AllCounted, TypeOK
      <4>3. object' = [by |-> conn, chunks |-> Chunks]
        BY <1>0, <1>2, <2>1, <2>2, <3>3, <4>2, BackupAssumption
           DEF Finishes, EndClient, Destroy, TypeOK
      <4> QED BY <1>1, <2>3, <4>3 DEF Stored
    <3> QED BY <3>2, <3>3
  <2> QED BY <1>2, <1>3, <2>2, <2>4, <2>5 DEF Stored
<1> QED BY <1>0, <1>4, <1>5, FlowKinds

(* The agent closes its connection when all of the stream is sent; the     *)
(* server still works on it then, unless it has failed.                    *)
LEMMA AgentDelivers ==
    ASSUME DeliverInv, AgentActs \/ AgentRestarts
    PROVE  Alone' /\ Delivered'
<1>0. /\ TypeOK /\ Stopped /\ Alone /\ CallInv /\ Delivered /\ Resource
      /\ agent \in {"idle", "sending", "sent", "stopped"}
  BY DEF DeliverInv, FlowInv, EventInv, TypeInv, CallInv, CallTypes
<1>1. AgentWorks /\ apiFaults' = apiFaults
  BY <1>0, AgentStep DEF AgentWorks
<1> USE DEF SetStatus, callVars, chanVars, zfsVars, clientVars, peerVars
<1>2. ASSUME NEW c \in Clients, AgentConnects(c) PROVE Alone' /\ Delivered'
  <2>1. sock' = [sock EXCEPT ![c] = "backlog"] /\ conn' = c /\ agent' = "sending" /\ cr' = "init"
    BY <1>2 DEF AgentConnects, PeerConnect
  <2>2. "overtake" \notin apiFaults => (conn # Nil => sock[conn] \notin {"backlog", "open"})
    BY <1>0, <1>2 DEF AgentConnects
  <2>3. "overtake" \notin apiFaults => \A x \in Clients : sock[x] \notin {"backlog", "open"}
    BY <1>0, <2>2, ClientsAssumption DEF Alone
  <2> QED BY <1>0, <1>1, <2>1, <2>3 DEF Alone, Delivered, TypeOK
<1>3. CASE AgentCloses
  <2>0. conn \in Clients /\ agent = "sending" /\ sent[conn] = Chunks /\ PeerClose(conn)
    BY <1>0, <1>3 DEF AgentCloses, Resource, CallInv, CallTypes
  <2>1. /\ UNCHANGED <<sock, sent, pc, object, file, result, exitServer, err, conn, cr, overlooked>>
        /\ agent' = "sent"
        /\ peer' = [peer EXCEPT ![conn] = "fin"]
    BY <1>1, <1>3 DEF AgentCloses, PeerClose, AgentWorks
  <2>2. Alone'
    BY <1>0, <1>1, <2>1 DEF Alone
  <2>3. ASSUME ~err
        PROVE  Pending \/ Lost
    <3>1. sock[conn] \in {"backlog", "open"}
      BY <1>0, <2>0 DEF PeerClose, Connected, Stopped
    <3>2. cr = "init" /\ pc # "setup"
      BY <1>0, <2>0, <2>3 DEF Resource, CallInv, Signalled, Listened
    <3>3. ~exitServer
      BY <1>0, <2>3, <3>2 DEF CallInv, Goroutines, Results
    <3>4. pc \in {"ready", "loop", "timedout", "read", "send", "closing", "failed", "returned"}
      BY <1>0, <3>2 DEF TypeOK
    <3> QED BY <1>0, <3>1, <3>3, <3>4 DEF Stopped, Pending, Lost
  <2>4. Delivered'
    BY <1>0, <1>1, <2>0, <2>1, <2>3 DEF Delivered, Pending, Stored, Lost, TypeOK
  <2> QED BY <2>2, <2>4
<1>4. CASE AgentSends
  <2>1. /\ UNCHANGED <<sock, err, conn, cr, agent>> /\ agent = "sending"
    BY <1>1, <1>4 DEF AgentSends, PeerSend, AgentWorks, agentVars
  <2>2. ~err => cr = "init"
    BY <1>0, <2>1 DEF Resource
  <2> QED BY <1>0, <1>1, <2>1, <2>2 DEF Alone, Delivered
<1>5. CASE AgentReportsDone
  <2>1. UNCHANGED <<vars, err, conn, overlooked>> /\ agent = "sent" /\ agent' = "stopped"
    BY <1>1, <1>5 DEF AgentReportsDone, AgentWorks
  <2> QED BY <1>0, <1>1, <2>1 DEF Alone, Delivered, Pending, Stored, Lost, vars
<1>6. CASE AgentIsRefused
  <2>1. UNCHANGED <<vars, err, conn, overlooked>> /\ cr = "init" /\ cr' = "failed" /\ agent' = "stopped"
    BY <1>1, <1>6 DEF AgentIsRefused, AgentWorks
  <2> QED BY <1>0, <1>1, <2>1 DEF Alone, Delivered, vars
<1>7. CASE AgentFails
  <2>1. UNCHANGED <<sock, err, conn>> /\ agent = "sending" /\ agent' = "stopped" /\ (cr = "init" => cr' = "failed")
    BY <1>1, <1>7 DEF AgentFails, AgentWorks, PeerClose, vars
  <2>2. ~err => cr = "init"
    BY <1>0, <2>1 DEF Resource
  <2> QED BY <1>0, <1>1, <2>1, <2>2 DEF Alone, Delivered
<1>8. CASE AgentRestarts
  <2>1. UNCHANGED <<sock, err, conn, cr>> /\ agent = "sending" /\ agent' = "idle"
    BY <1>1, <1>8 DEF AgentRestarts, AgentWorks, PeerReset
  <2>2. ~err => cr = "init"
    BY <1>0, <2>1 DEF Resource
  <2> QED BY <1>0, <1>1, <2>1, <2>2 DEF Alone, Delivered
<1> QED BY <1>2, <1>3, <1>4, <1>5, <1>6, <1>7, <1>8 DEF AgentActs

LEMMA DeliverNext ==
    ASSUME DeliverInv, [ZfsNext]_allVars
    PROVE  Stopped' /\ Alone' /\ Delivered'
<1>0. CallInv /\ TypeOK /\ EventsAreLive /\ Alone /\ Delivered /\ exitServer \in BOOLEAN
  BY DEF DeliverInv, FlowInv, EventInv, TypeInv, Events, CallInv, CallTypes
<1>1. Stopped'
  BY StoppedNext
<1>2. CASE Talks
  <2>1. Alone'
    BY <1>0, <1>2 DEF Talks, Alone
  <2>2. Stored' <=> Stored
    BY <1>2 DEF Talks, Stored
  <2>3. Lost => Lost'
    BY <1>2 DEF Talks, Lost
  <2>4. conn \in Clients /\ Pending => Pending' \/ Lost'
    BY <1>2 DEF Talks, Pending, Lost, Backlog, Open
  <2>5. Delivered'
    BY <1>0, <1>2, <2>2, <2>3, <2>4 DEF Talks, Delivered
  <2> QED BY <1>1, <2>1, <2>5
<1>3. CASE Upload /\ UNCHANGED apiFaults
  <2>1. [Next]_vars /\ Server /\ conn' = conn
    BY <1>3 DEF Upload, Next, agentVars
  <2>2. Alone'
    BY <1>0, <1>3, <2>1, BacklogMoves DEF Alone
  <2> QED BY <1>1, <1>3, <2>1, <2>2, ServerDelivers
<1>4. CASE AgentActs \/ AgentRestarts
  BY <1>1, <1>4, AgentDelivers
<1> QED BY <1>0, <1>2, <1>3, <1>4, TalkKinds

LEMMA DeliverCorrect == ZfsSpec => []DeliverInv
<1>1. ZfsInit => Stopped /\ Alone /\ Delivered
  BY DEF ZfsInit, Init, Stopped, Alone, Delivered
<1>2. /\ CallInv /\ FlowInv /\ Stopped /\ Alone /\ Delivered /\ [ZfsNext]_allVars
      => Stopped' /\ Alone' /\ Delivered'
  BY DeliverNext DEF DeliverInv
<1> QED BY <1>1, <1>2, CallCorrect, BackupRunsServer, FlowCorrect, PTL DEF ZfsSpec, DeliverInv

(* An id that CreateSnapshot returns stands for a whole stored object, or  *)
(* the stream was lost in one of the ways IdMeansObject lists.  In all     *)
(* others the status Done, which is polled while the server is still       *)
(* reading, does not end the transfer early: the exit follows a time-out   *)
(* with nothing to handle, and is waited for.                              *)
THEOREM IdStandsForObject == ZfsSpec => []IdMeansObject
<1>1. DeliverInv => IdMeansObject
  <2> SUFFICES ASSUME DeliverInv, ret = "id", "overtake" \notin apiFaults
               PROVE  zfsvol /\ (Stored \/ (Lost /\ pc # "failed"))
    BY DEF IdMeansObject, Stored, Lost
  <2>1. main = "returned" /\ ~err /\ up = "finished" /\ zfsvol /\ cr = "done" /\ pc = "returned"
    BY DEF DeliverInv, CallInv, Results, Goroutines
  <2>2. Pending \/ Stored \/ Lost
    BY <2>1 DEF DeliverInv, Delivered
  <2> QED BY <2>1, <2>2 DEF Pending
<1> QED BY <1>1, DeliverCorrect, PTL
===============================================================================
