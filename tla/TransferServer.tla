---------------------------- MODULE TransferServer ----------------------------
(***************************************************************************)
(* The TCP server of pkg/clouduploader that copies a snapshot between the  *)
(* storage agents ("clients") and one object of the bucket:                *)
(*                                                                         *)
(*   server.go        Server.Run, acceptClient, handleRead, handleWrite    *)
(*   server_utils.go  the client list, RecvData, SendData,                 *)
(*                    handleClientError, disconnectAllClient               *)
(*   operation.go     Conn.Upload and Conn.Download, which call Run        *)
(*   conn.go          Conn.Create and Conn.Destroy, the object's           *)
(*                    reader or writer                                     *)
(*                                                                         *)
(* One goroutine runs the server.  The peers, the kernel's sockets and     *)
(* epoll instance, and the bucket are its environment; they are modelled   *)
(* from the way the code uses them.  Data is counted in chunks of          *)
(* ReadBufferLen bytes.  A client is one TCP connection: an agent that     *)
(* connects again is another client.                                       *)
(***************************************************************************)
EXTENDS Integers, FiniteSets

CONSTANTS
    Clients,         \* the connections that may be made
    Nil,             \* the nil *Client
    Listener,        \* the listening socket, as epoll reports it
    OpType,          \* "backup" (OpBackup) or "restore" (OpRestore)
    Chunks,          \* a peer sends, or the object holds, at most this many chunks
    SockBuf,         \* chunks a socket buffer holds
    MaxClient,       \* listen(2) backlog
    MaxEpollEvents,  \* events one epoll_wait returns at most
    Faults           \* what may go wrong, see FaultKinds

(* "reset": a peer may reset its connection; "setup": the socket cannot be *)
(* made to listen; "commit": the writer cannot be closed; the others name  *)
(* the call that may fail.                                                 *)
FaultKinds == {"reset", "setup", "epoll", "accept", "create", "nodelay", "register",
               "write", "read", "commit", "delete"}

ASSUME ClientsAssumption ==
    /\ IsFiniteSet(Clients)
    /\ Nil \notin Clients
    /\ Listener \notin Clients
ASSUME OpTypeAssumption == OpType \in {"backup", "restore"}
ASSUME BoundsAssumption ==
    /\ Chunks \in Nat
    /\ SockBuf \in Nat \ {0}
    /\ MaxClient \in Nat
    /\ MaxEpollEvents \in Nat \ {0}
ASSUME FaultsAssumption == Faults \subseteq FaultKinds

VARIABLES
    peer,        \* the peer's half of a connection: "idle", "up", "fin", "rst"
    sock,        \* the server's half: "none", "backlog", "open", "closed";
                 \* "refused", "leaked" (acceptClient); "dropped" (at the return)
    queue,       \* chunks in the socket buffer, not yet read by the receiver
    sent,        \* chunks the peer has sent (backup)
    moved,       \* chunks the server has moved between socket and object
    edge,        \* edge-triggered readiness epoll has not reported yet
    batch,       \* mask of the undispatched events of the last epoll_wait
    pc,          \* where the server goroutine is
    cur,         \* the client handleRead or handleWrite works on
    first,       \* Server.FirstClient
    last,        \* Server.LastClient
    next,        \* Client.next
    state,       \* Server.state: the three counters
    status,      \* Client.status
    file,        \* Client.file: "none", "open", or how it was closed: "cut" (what
                 \* was left of the data is ignored), "broken" (after a failed
                 \* write), "lost" (the close failed) or just "closed"
    object,      \* what the bucket holds under Conn.file
    listening,   \* the listening descriptor is open
    exitServer,  \* Conn.ExitServer
    result       \* what Upload or Download has returned

peerVars   == <<peer, sent>>
listVars   == <<first, last, next>>
clientVars == <<sock, status, file, moved>>
vars == <<peerVars, queue, edge, batch, pc, cur, listVars, state, clientVars,
          object, listening, exitServer, result>>

NoObject == [by |-> Nil, chunks |-> 0]
Masks    == {"none", "in", "out", "hup"}

Open    == {c \in Clients : sock[c] = "open"}
Closed  == {c \in Clients : sock[c] = "closed"}
Backlog == {c \in Clients : sock[c] = "backlog"}

(* The clients a walk from FirstClient along next meets: those in every    *)
(* set that has FirstClient and is closed under next.                      *)
Listed ==
    {c \in Clients :
        \A S \in SUBSET Clients :
            (/\ first # Nil => first \in S
             /\ \A x \in S : next[x] # Nil => next[x] \in S) => c \in S}

Init ==
    /\ peer   = [c \in Clients |-> "idle"]
    /\ sock   = [c \in Clients |-> "none"]
    /\ queue  = [c \in Clients |-> 0]
    /\ sent   = [c \in Clients |-> 0]
    /\ moved  = [c \in Clients |-> 0]
    /\ edge   = [c \in Clients |-> FALSE]
    /\ batch  = [x \in Clients \cup {Listener} |-> "none"]
    /\ pc     = "setup"
    /\ cur    = Nil
    /\ first  = Nil
    /\ last   = Nil
    /\ next   = [c \in Clients |-> Nil]
    /\ state  = [successCount |-> 0, runningCount |-> 0, failedCount |-> 0]
    /\ status = [c \in Clients |-> "init"]
    /\ file   = [c \in Clients |-> "none"]
    /\ object = NoObject
    /\ listening  = FALSE
    /\ exitServer = FALSE
    /\ result     = "none"

-------------------------------------------------------------------------------
(* The environment: peers, and the plugin goroutine that ends the transfer *)

Connected(c) == peer[c] = "up" /\ sock[c] \in {"backlog", "open", "leaked"}

(* The kernel completes a handshake while the accept queue has room.       *)
PeerConnect(c) ==
    /\ listening
    /\ peer[c] = "idle"
    /\ Cardinality(Backlog) <= MaxClient
    /\ peer' = [peer EXCEPT ![c] = "up"]
    /\ sock' = [sock EXCEPT ![c] = "backlog"]
    /\ UNCHANGED <<sent, queue, edge, batch, pc, cur, listVars, state, status,
                   file, moved, object, listening, exitServer, result>>

PeerSend(c) ==
    /\ OpType = "backup"
    /\ Connected(c)
    /\ sent[c] < Chunks
    /\ queue[c] < SockBuf
    /\ sent'  = [sent EXCEPT ![c] = @ + 1]
    /\ queue' = [queue EXCEPT ![c] = @ + 1]
    /\ edge'  = [edge EXCEPT ![c] = TRUE]
    /\ UNCHANGED <<peer, batch, pc, cur, listVars, state, clientVars, object,
                   listening, exitServer, result>>

PeerReceive(c) ==
    /\ OpType = "restore"
    /\ peer[c] = "up"
    /\ queue[c] > 0
    /\ queue' = [queue EXCEPT ![c] = @ - 1]
    /\ UNCHANGED <<peerVars, edge, batch, pc, cur, listVars, state, clientVars,
                   object, listening, exitServer, result>>

(* Whenever it likes: epoll may report the FIN together with data that is  *)
(* not read yet, and a restore peer need not wait for the whole object.    *)
PeerClose(c) ==
    /\ Connected(c)
    /\ peer' = [peer EXCEPT ![c] = "fin"]
    /\ edge' = [edge EXCEPT ![c] = TRUE]
    /\ UNCHANGED <<sent, queue, batch, pc, cur, listVars, state, clientVars,
                   object, listening, exitServer, result>>

PeerReset(c) ==
    /\ "reset" \in Faults
    /\ Connected(c)
    /\ peer' = [peer EXCEPT ![c] = "rst"]
    /\ edge' = [edge EXCEPT ![c] = TRUE]
    /\ UNCHANGED <<sent, queue, batch, pc, cur, listVars, state, clientVars,
                   object, listening, exitServer, result>>

(* The backup or restore driver has seen a final status.                   *)
RequestExit ==
    /\ ~exitServer
    /\ exitServer' = TRUE
    /\ UNCHANGED <<peerVars, queue, edge, batch, pc, cur, listVars, state,
                   clientVars, object, listening, result>>
-------------------------------------------------------------------------------
(* The client list and the object                                          *)

(* Variant: the first client of an empty list is not counted.              *)
AppendCountsTail(c) ==
    /\ first' = IF first = Nil THEN c ELSE first
    /\ last'  = c
    /\ next'  = IF first = Nil THEN [next EXCEPT ![c] = Nil]
                ELSE [next EXCEPT ![c] = Nil, ![last] = c]
    /\ state' = [state EXCEPT !.runningCount = @ + IF first = Nil THEN 0 ELSE 1]

(* appendToClientList *)
AppendToClientList(c) ==
    /\ first' = IF first = Nil THEN c ELSE first
    /\ last'  = c
    /\ next'  = IF first = Nil THEN [next EXCEPT ![c] = Nil]
                ELSE [next EXCEPT ![c] = Nil, ![last] = c]
    /\ state' = [state EXCEPT !.runningCount = @ + 1]

(* removeFromClientList: does the walk find c, and the links afterwards.   *)
(* LastClient keeps its value.                                             *)
InList(c) == first # Nil /\ state.runningCount # 0 /\ c \in Listed

FirstWithout(c) == IF InList(c) /\ first = c THEN next[c] ELSE first

(* Variant: the predecessor is not relinked.                               *)
NextKept(c) == next

NextWithout(c) ==
    IF InList(c) /\ first # c
    THEN [x \in Clients |-> IF x \in Listed /\ next[x] = c THEN next[c] ELSE next[x]]
    ELSE next

LastWithout(c) == last

(* Variant: the object's writer is not closed.                             *)
DestroyLeaks(c, how) ==
    /\ file' = [file EXCEPT ![c] = how]
    /\ object' = object

(* Conn.Destroy: closing the writer commits what was written to it, unless *)
(* a write has failed; an error of the close is logged.                    *)
Destroy(c, how) ==
    \/ /\ file' = [file EXCEPT ![c] = how]
       /\ object' = IF OpType = "backup" /\ how # "broken"
                    THEN [by |-> c, chunks |-> moved[c]] ELSE object
    \/ /\ "commit" \in Faults /\ OpType = "backup" /\ how # "broken"
       /\ file' = [file EXCEPT ![c] = "lost"]
       /\ object' = object

(* Variant: every client that goes away is a success.                      *)
CountsAlways(c, eof, mask) == TRUE

(* Which counter a client that goes away is added to; eof says that its    *)
(* status has just been set to done.                                       *)
CountsAsSuccess(c, eof, mask) == eof \/ status[c] = "done" \/ mask = "hup"

(* handleClientError, and the body of disconnectAllClient's loop           *)
EndClient(c, eof, mask, how) ==
    /\ status' = [status EXCEPT ![c] = IF eof THEN "done" ELSE @]
    /\ state' = [successCount |-> state.successCount
                                    + IF CountsAsSuccess(c, eof, mask) THEN 1 ELSE 0,
                 failedCount  |-> state.failedCount
                                    + IF CountsAsSuccess(c, eof, mask) THEN 0 ELSE 1,
                 runningCount |-> state.runningCount - IF InList(c) THEN 1 ELSE 0]
    /\ sock'  = [sock EXCEPT ![c] = "closed"]
    /\ Destroy(c, how)
    /\ first' = FirstWithout(c)
    /\ next'  = NextWithout(c)
    /\ last'  = LastWithout(c)

(* A hang-up, or a read of the object that returns nothing, ends a client  *)
(* whether or not all of its data has been moved.                          *)
HowCut(c) ==
    IF (OpType = "backup" /\ queue[c] > 0) \/ (OpType = "restore" /\ moved[c] < Chunks)
    THEN "cut" ELSE "closed"
-------------------------------------------------------------------------------
(* Server.Run                                                              *)

(* socket, bind and listen; then ConnReady is signalled.                   *)
Listen ==
    /\ pc = "setup"
    /\ \/ pc' = "ready" /\ listening' = TRUE
       \/ "setup" \in Faults /\ pc' = "failed" /\ listening' = FALSE
    /\ UNCHANGED <<peerVars, queue, edge, batch, cur, listVars, state, clientVars,
                   object, exitServer, result>>

(* epoll_create and the registration of the listening socket *)
CreateEpoll ==
    /\ pc = "ready"
    /\ pc' \in {"loop"} \cup IF "epoll" \in Faults THEN {"failed"} ELSE {}
    /\ UNCHANGED <<peerVars, queue, edge, batch, cur, listVars, state, clientVars,
                   object, listening, exitServer, result>>

(* What epoll has to say of a client.  Backup clients are registered for   *)
(* EPOLLIN|EPOLLRDHUP|EPOLLHUP|EPOLLERR with EPOLLET, restore clients for  *)
(* EPOLLOUT|EPOLLRDHUP|EPOLLHUP|EPOLLERR.  The code compares the whole     *)
(* mask with EPOLLIN or EPOLLOUT, so "hup" is any mask with RDHUP, HUP or  *)
(* ERR in it, whatever else it has.                                        *)
(* Variant: a client that ended is not taken out of epoll.                 *)
WatchedForever(c) == sock[c] \in {"open", "closed"} /\ (OpType = "backup" => edge[c])

Watched(c) == sock[c] = "open" /\ (OpType = "backup" => edge[c])

(* Variant: EPOLLRDHUP, EPOLLHUP and EPOLLERR are not asked for.           *)
MaskNoHup(c) ==
    CASE Watched(c) /\ OpType = "backup"  /\ queue[c] > 0       -> "in"
      [] Watched(c) /\ OpType = "restore" /\ queue[c] < SockBuf -> "out"
      [] OTHER -> "none"

Mask(c) ==
    CASE ~Watched(c) -> "none"
      [] Watched(c) /\ peer[c] # "up" -> "hup"
      [] Watched(c) /\ peer[c] = "up" /\ OpType = "backup"  /\ queue[c] > 0       -> "in"
      [] Watched(c) /\ peer[c] = "up" /\ OpType = "restore" /\ queue[c] < SockBuf -> "out"
      [] OTHER -> "none"

(* Variant: the next connection is accepted when nobody is served.         *)
ReportableOneByOne ==
    {c \in Clients : Mask(c) # "none"} \cup
        IF Backlog # {} /\ Open = {} THEN {Listener} ELSE {}

Reportable ==
    {c \in Clients : Mask(c) # "none"} \cup IF Backlog # {} THEN {Listener} ELSE {}

Dispatching == \E x \in Clients \cup {Listener} : batch[x] # "none"

(* An epoll_wait that returns events: all there are, or MaxEpollEvents.    *)
EpollWait ==
    /\ pc = "loop"
    /\ ~Dispatching
    /\ \E S \in SUBSET Reportable :
        /\ S # {}
        /\ Cardinality(S) <= MaxEpollEvents
        /\ S = Reportable \/ Cardinality(S) = MaxEpollEvents
        /\ batch' = [x \in Clients \cup {Listener} |->
                        IF x \notin S THEN "none" ELSE IF x = Listener THEN "in" ELSE Mask(x)]
        /\ edge' = [c \in Clients |-> edge[c] /\ c \notin S]
    /\ UNCHANGED <<peerVars, queue, pc, cur, listVars, state, clientVars, object,
                   listening, exitServer, result>>

(* Variant: the flag is looked at after every epoll_wait.                  *)
EpollTimeoutAny ==
    /\ pc = "loop"
    /\ ~Dispatching
    /\ pc' = "timedout"
    /\ UNCHANGED <<peerVars, queue, edge, batch, cur, listVars, state, clientVars,
                   object, listening, exitServer, result>>

(* An epoll_wait that times out: it returns no event.                      *)
EpollTimeout ==
    /\ pc = "loop"
    /\ ~Dispatching
    /\ Reportable = {}
    /\ pc' = "timedout"
    /\ UNCHANGED <<peerVars, queue, edge, batch, cur, listVars, state, clientVars,
                   object, listening, exitServer, result>>

(* Variants: an idle server stops by itself; or it waits for its clients.  *)
TestExitIdle ==
    /\ pc = "timedout"
    /\ pc' = "closing"
    /\ UNCHANGED <<peerVars, queue, edge, batch, cur, listVars, state, clientVars,
                   object, listening, exitServer, result>>

TestExitWhenAlone ==
    /\ pc = "timedout"
    /\ pc' = IF exitServer /\ Open = {} THEN "closing" ELSE "loop"
    /\ UNCHANGED <<peerVars, queue, edge, batch, cur, listVars, state, clientVars,
                   object, listening, exitServer, result>>

(* ExitServer is read after the wait, and what has arrived since is not    *)
(* looked at.                                                              *)
TestExit ==
    /\ pc = "timedout"
    /\ pc' = IF exitServer THEN "closing" ELSE "loop"
    /\ UNCHANGED <<peerVars, queue, edge, batch, cur, listVars, state, clientVars,
                   object, listening, exitServer, result>>

EpollError ==
    /\ "epoll" \in Faults
    /\ pc = "loop"
    /\ ~Dispatching
    /\ pc' = "failed"
    /\ UNCHANGED <<peerVars, queue, edge, batch, cur, listVars, state, clientVars,
                   object, listening, exitServer, result>>

(* The kernel's readiness check when a descriptor is added to epoll *)
EdgeOnAdd(c) == edge' = [edge EXCEPT ![c] = queue[c] > 0 \/ peer[c] # "up"]

(* acceptClient's ways out.  SetNonblock is taken to succeed: when it      *)
(* fails and Close succeeds, the error that is logged is nil, and the      *)
(* plugin panics.                                                          *)
Admit(c) ==
    /\ sock' = [sock EXCEPT ![c] = "open"]
    /\ file' = [file EXCEPT ![c] = "open"]
    /\ status' = [status EXCEPT ![c] = "init"]
    /\ EdgeOnAdd(c)
    /\ AppendToClientList(c)
    /\ UNCHANGED moved

AcceptFails ==
    /\ "accept" \in Faults
    /\ UNCHANGED <<edge, listVars, state, clientVars>>

(* Conn.Create returns nil.                                                *)
CreateFails(c) ==
    /\ "create" \in Faults
    /\ file' = file

(* epoll_ctl fails: the descriptor is closed, the object's file is not.    *)
RegisterFails(c) ==
    /\ "register" \in Faults
    /\ file' = [file EXCEPT ![c] = "open"]

Refuse(c) ==
    /\ CreateFails(c) \/ RegisterFails(c)
    /\ sock' = [sock EXCEPT ![c] = "refused"]
    /\ UNCHANGED <<edge, listVars, state, status, moved>>

(* TCP_NODELAY fails: descriptor and reader stay open.                     *)
Leak(c) ==
    /\ OpType = "restore" /\ "nodelay" \in Faults
    /\ sock' = [sock EXCEPT ![c] = "leaked"]
    /\ file' = [file EXCEPT ![c] = "open"]
    /\ UNCHANGED <<edge, listVars, state, status, moved>>

AcceptClient(c) ==
    /\ pc = "loop"
    /\ batch[Listener] = "in"
    /\ c \in Backlog
    /\ Admit(c) \/ AcceptFails \/ Refuse(c) \/ Leak(c)
    /\ batch' = [batch EXCEPT ![Listener] = "none"]
    /\ UNCHANGED <<peerVars, queue, pc, cur, object, listening, exitServer, result>>

(* An event whose mask is exactly EPOLLIN: handleRead reads until EAGAIN.  *)
StartRead(c) ==
    /\ pc = "loop"
    /\ batch[c] = "in"
    /\ batch' = [batch EXCEPT ![c] = "none"]
    /\ pc' = "read"
    /\ cur' = c
    /\ UNCHANGED <<peerVars, queue, edge, listVars, state, clientVars, object,
                   listening, exitServer, result>>

(* Variant: handleRead reads one chunk instead of reading until EAGAIN.    *)
ReadOneChunk(c) ==
    /\ pc = "read" /\ cur = c
    /\ queue[c] > 0
    /\ queue' = [queue EXCEPT ![c] = @ - 1]
    /\ moved' = [moved EXCEPT ![c] = @ + 1]
    /\ pc' = "loop" /\ cur' = Nil
    /\ UNCHANGED <<listVars, state, sock, status, file, object>>
    /\ UNCHANGED <<peerVars, edge, batch, listening, exitServer, result>>

(* RecvData returns a chunk and it is written to the object's writer.      *)
ReadChunk(c) ==
    /\ pc = "read" /\ cur = c
    /\ queue[c] > 0
    /\ queue' = [queue EXCEPT ![c] = @ - 1]
    /\ \/ /\ moved' = [moved EXCEPT ![c] = @ + 1]
          /\ UNCHANGED <<pc, cur, listVars, state, sock, status, file, object>>
       \/ /\ "write" \in Faults
          /\ EndClient(c, FALSE, "in", "broken")
          /\ pc' = "loop" /\ cur' = Nil
          /\ moved' = moved
    /\ UNCHANGED <<peerVars, edge, batch, listening, exitServer, result>>

(* RecvData meets the end of the queue: EAGAIN, EOF or a read error.       *)
AfterEmptyRead(c) ==
    CASE peer[c] = "up"  -> UNCHANGED <<listVars, state, clientVars, object>>
      [] peer[c] = "fin" -> EndClient(c, TRUE, "in", "closed") /\ UNCHANGED moved
      [] OTHER           -> EndClient(c, FALSE, "in", "closed") /\ UNCHANGED moved

ReadReturns(c) ==
    /\ pc = "read" /\ cur = c
    /\ queue[c] = 0
    /\ AfterEmptyRead(c)
    /\ pc' = "loop" /\ cur' = Nil
    /\ UNCHANGED <<peerVars, queue, edge, batch, listening, exitServer, result>>

(* Variant: the end of the object is never taken.                          *)
HandleWriteOn(c) ==
    /\ pc = "loop"
    /\ batch[c] = "out"
    /\ batch' = [batch EXCEPT ![c] = "none"]
    /\ pc' = "send" /\ cur' = c
    /\ moved' = [moved EXCEPT ![c] = @ + 1]
    /\ UNCHANGED <<listVars, state, sock, status, file, object>>
    /\ UNCHANGED <<peerVars, queue, edge, listening, exitServer, result>>

(* An event whose mask is exactly EPOLLOUT: handleWrite reads one buffer   *)
(* of the object; no more data, or a failed read, ends the client as done. *)
HandleWrite(c) ==
    /\ pc = "loop"
    /\ batch[c] = "out"
    /\ batch' = [batch EXCEPT ![c] = "none"]
    /\ \/ /\ moved[c] < Chunks
          /\ pc' = "send" /\ cur' = c
          /\ moved' = [moved EXCEPT ![c] = @ + 1]
          /\ UNCHANGED <<listVars, state, sock, status, file, object>>
       \/ /\ moved[c] = Chunks \/ "read" \in Faults
          /\ EndClient(c, TRUE, "out", HowCut(c))
          /\ UNCHANGED <<pc, cur, moved>>
    /\ UNCHANGED <<peerVars, queue, edge, listening, exitServer, result>>

(* Variant: write(2) is retried on every error, not only on EAGAIN.        *)
SendDataRetries(c) ==
    /\ pc = "send" /\ cur = c
    /\ peer[c] # "rst"
    /\ queue[c] < SockBuf
    /\ queue' = [queue EXCEPT ![c] = @ + 1]
    /\ pc' = "loop" /\ cur' = Nil
    /\ UNCHANGED <<peerVars, edge, batch, listVars, state, clientVars, object,
                   listening, exitServer, result>>

(* SendData: write(2) until the chunk is in the socket, asleep on EAGAIN.  *)
(* A peer that has closed answers a write with a reset.                    *)
SendData(c) ==
    /\ pc = "send" /\ cur = c
    /\ \/ /\ peer[c] # "rst"
          /\ queue[c] < SockBuf
          /\ queue' = [queue EXCEPT ![c] = @ + 1]
          /\ UNCHANGED <<listVars, state, clientVars, object>>
       \/ /\ peer[c] # "up"
          /\ EndClient(c, FALSE, "out", "closed")
          /\ UNCHANGED <<queue, moved>>
    /\ pc' = "loop" /\ cur' = Nil
    /\ UNCHANGED <<peerVars, edge, batch, listening, exitServer, result>>

(* Any mask with RDHUP, HUP or ERR: handleClientError with a nil error.    *)
HandleHup(c) ==
    /\ pc = "loop"
    /\ batch[c] = "hup"
    /\ batch' = [batch EXCEPT ![c] = "none"]
    /\ EndClient(c, FALSE, "hup", HowCut(c))
    /\ UNCHANGED <<peerVars, queue, edge, pc, cur, moved, listening, exitServer, result>>

(* disconnectAllClient: the loop stops at the client that has no next.     *)
MoreToDisconnect == first # Nil /\ state.runningCount # 0 /\ next[first] # Nil

DisconnectClient(c) ==
    /\ pc = "closing"
    /\ c = first
    /\ MoreToDisconnect
    /\ EndClient(c, FALSE, "none", "closed")
    /\ UNCHANGED <<peerVars, queue, edge, batch, pc, cur, moved, listening,
                   exitServer, result>>

(* The descriptors of Run are closed; the kernel drops what is in the      *)
(* accept queue; Upload or Download returns true.                          *)
Return ==
    /\ pc = "closing"
    /\ ~MoreToDisconnect
    /\ pc' = "returned"
    /\ result' = "true"
    /\ listening' = FALSE
    /\ sock' = [c \in Clients |-> IF c \in Backlog THEN "dropped" ELSE sock[c]]
    /\ UNCHANGED <<peerVars, queue, edge, batch, cur, listVars, state, status, file,
                   moved, object, exitServer>>

(* Run has returned an error: Upload deletes the object, Download does not. *)
ReturnFalse ==
    /\ pc = "failed"
    /\ pc' = "returned"
    /\ result' = "false"
    /\ \/ OpType = "backup" /\ object' = NoObject
       \/ (OpType = "restore" \/ "delete" \in Faults) /\ object' = object
    /\ UNCHANGED <<peerVars, queue, edge, batch, cur, listVars, state, clientVars,
                   listening, exitServer>>
-------------------------------------------------------------------------------
Peer(c) ==
    \/ PeerConnect(c) \/ PeerSend(c) \/ PeerReceive(c) \/ PeerClose(c) \/ PeerReset(c)

Server ==
    \/ Listen \/ CreateEpoll \/ EpollWait \/ EpollTimeout \/ TestExit \/ EpollError
    \/ Return \/ ReturnFalse
    \/ \E c \in Clients :
        \/ AcceptClient(c) \/ StartRead(c) \/ ReadChunk(c) \/ ReadReturns(c)
        \/ HandleWrite(c) \/ SendData(c) \/ HandleHup(c) \/ DisconnectClient(c)

Next == Server \/ RequestExit \/ \E c \in Clients : Peer(c)

Spec == Init /\ [][Next]_vars

(* The goroutine of Run is always scheduled again; nothing is asked of the *)
(* peers, except that a restore peer reads what it is sent, and no error   *)
(* of epoll is waited for.                                                 *)
FairSpec ==
    /\ Spec
    /\ WF_vars(Server /\ ~EpollError)
    /\ \A c \in Clients : WF_vars(PeerReceive(c))
-------------------------------------------------------------------------------
(* Properties                                                              *)

(* Every variable keeps its type: counters and socket buffers stay in      *)
(* their bounds.                                                           *)
TypeOK ==
    /\ peer   \in [Clients -> {"idle", "up", "fin", "rst"}]
    /\ sock   \in [Clients -> {"none", "backlog", "open", "closed", "refused", "leaked",
                          "dropped"}]
    /\ queue  \in [Clients -> 0..SockBuf]
    /\ sent   \in [Clients -> 0..Chunks]
    /\ moved  \in [Clients -> 0..Chunks]
    /\ edge   \in [Clients -> BOOLEAN]
    /\ batch  \in [Clients \cup {Listener} -> Masks]
    /\ pc     \in {"setup", "ready", "loop", "timedout", "read", "send", "closing", "failed",
                 "returned"}
    /\ cur    \in Clients \cup {Nil}
    /\ first  \in Clients \cup {Nil}
    /\ last   \in Clients \cup {Nil}
    /\ next   \in [Clients -> Clients \cup {Nil}]
    /\ state  \in [successCount : Nat, runningCount : Int, failedCount : Nat]
    /\ status \in [Clients -> {"init", "done", "failed"}]
    /\ file   \in [Clients -> {"none", "open", "closed", "cut", "broken", "lost"}]
    /\ object \in [by : Clients \cup {Nil}, chunks : 0..Chunks]
    /\ listening  \in BOOLEAN
    /\ exitServer \in BOOLEAN
    /\ result \in {"none", "true", "false"}

(* Edge-triggered epoll reports a backup client once per arrival.  A       *)
(* client with unread data, or whose peer is gone, is therefore still to   *)
(* be reported, in the batch being dispatched, or being read by            *)
(* handleRead, which goes on until EAGAIN: the server never goes to sleep  *)
(* on it.                                                                  *)
NoLostWakeup ==
    OpType = "backup" =>
        \A c \in Open :
            queue[c] > 0 \/ peer[c] # "up" =>
                edge[c] \/ batch[c] # "none" \/ (pc = "read" /\ cur = c)

(* An event carries a *Client.  Every event still to be dispatched, and    *)
(* the client a handler works on, is a client whose descriptor and file    *)
(* are open: no handler uses a client that an earlier event of the same    *)
(* batch has ended, and accept is called only when it will not block.      *)
EventsAreLive ==
    /\ \A c \in Clients : batch[c] # "none" => sock[c] = "open" /\ file[c] = "open"
    /\ batch[Listener] # "none" => Backlog # {}
    /\ pc \in {"read", "send"} => cur \in Open /\ batch[cur] = "none"

(* The walk of removeFromClientList and disconnectAllClient meets only     *)
(* clients whose descriptor is open, although LastClient may point to a    *)
(* removed one: no descriptor is closed twice.                             *)
ListedAreOpen == Listed \subseteq Open

(* runningCount may exceed the number of connected clients, but it is      *)
(* never below it, so "runningCount == 0" in removeFromClientList and      *)
(* disconnectAllClient never skips a client that is still in the list.     *)
RunningCountCovers == state.runningCount >= Cardinality(Open)

(* Every client that goes away is counted, as a success or as a failure,   *)
(* and once.                                                               *)
CountedOnce == state.successCount + state.failedCount = Cardinality(Closed)

(* What the peer of c sent is in the object's writer, or the whole object  *)
(* has been handed to its socket.                                          *)
Whole(c) == IF OpType = "backup" THEN moved[c] = sent[c] ELSE moved[c] = Chunks

(* successCount counts no client whose transfer broke off on the server's  *)
(* side: at most those that were moved as a whole, those whose peer hung   *)
(* up while data was left (Run does not read it), or for whom a read of    *)
(* the object ended early, and those whose writer could not be closed.     *)
SuccessIsComplete ==
    state.successCount <=
        Cardinality({c \in Closed : Whole(c) \/ file[c] \in {"cut", "lost"}})

(* When Upload returns true, nobody failed and somebody succeeded, the     *)
(* bucket holds an object, unless the close of somebody's writer failed    *)
(* (Destroy only logs it); and the object is all that one of the peers     *)
(* sent, or all but what was unread when that peer hung up.                *)
UploadedWhole ==
    result = "true" /\ OpType = "backup" /\ state.failedCount = 0 /\ state.successCount > 0 =>
        /\ object = NoObject => \E c \in Clients : file[c] = "lost"
        /\ object # NoObject =>
               object.chunks = sent[object.by] \/ file[object.by] = "cut"

(* Run leaves its loop only on request, and only after an epoll_wait that  *)
(* found nothing to do: nobody in the accept queue, and no connected       *)
(* client that had sent something unread or closed its end.  What arrives  *)
(* between that wait and the look at ExitServer is not seen.               *)
ExitIsQuiet ==
    [][/\ pc = "loop" /\ pc' # "loop" /\ pc' \notin {"read", "send", "failed"} =>
            /\ pc' = "timedout"
            /\ Backlog = {}
            /\ \A c \in Open : peer[c] = "up" /\ (OpType = "backup" => queue[c] = 0)
       /\ pc # "closing" /\ pc' = "closing" => pc = "timedout" /\ exitServer]_vars

(* Once the driver sets ExitServer the server stops, although peers are    *)
(* still connected, reset or leave; only one that sends for ever keeps it  *)
(* from a time-out, and here each has at most Chunks to send.              *)
ExitEventually == exitServer ~> pc = "returned"

(* A peer that closes or resets its connection is noticed: its client is   *)
(* ended, unless the server stops first.                                   *)
GoneIsNoticed ==
    \A c \in Clients :
        (sock[c] = "open" /\ peer[c] # "up") ~>
            (sock[c] = "closed" \/ pc \in {"closing", "failed", "returned"})

(* A connection in the accept queue is not left there.                     *)
BacklogServed ==
    \A c \in Clients : sock[c] = "backlog" ~> sock[c] # "backlog"

(* Run, with Upload or Download around it, implements what Transfer        *)
(* promises.                                                               *)
Phase ==
    CASE pc = "setup" -> "starting"
      [] pc \in {"ready", "loop", "read", "send"} -> "serving"
      [] pc = "timedout" -> "leaving"
      [] OTHER -> pc

Waiting ==
    \/ Backlog # {}
    \/ \E c \in Open : peer[c] # "up" \/ (OpType = "backup" /\ queue[c] > 0)

Promise == INSTANCE Transfer WITH
    phase     <- Phase,
    waiting   <- Waiting,
    Contents  <- [by : Clients \cup {Nil}, chunks : 0..Chunks],
    NoContent <- NoObject

KeepsPromise == Promise!Spec

(* "successCount defines number of client completed operation              *)
(* successfully" (server.go:47): no more are counted than were transferred *)
(* as a whole.                                                             *)
SuccessExact == state.successCount <= Cardinality({c \in Closed : Whole(c)})
===============================================================================
