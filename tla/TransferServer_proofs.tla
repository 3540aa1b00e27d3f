------------------------- MODULE TransferServer_proofs -------------------------
(***************************************************************************)
(* Machine-checked proofs about TransferServer, for every set of clients,  *)
(* every bound and every set of faults.                                    *)
(*                                                                         *)
(* The argument has layers, each inductive together with those before it.  *)
(* TypeInv bounds the data; EventInv says which phase of the loop may meet *)
(* which event, and that the clients in the events are open; both together *)
(* show that every step is a step of Transfer.  The layers about the       *)
(* linked list, the counters and the data are in                           *)
(* TransferServer_listproofs.                                              *)
(***************************************************************************)
EXTENDS TransferServer, FiniteSetTheorems, TLAPS

(* A backup never writes a chunk to the object that the peer has not sent. *)
Conservation ==
    OpType = "backup" => \A c \in Clients : moved[c] + queue[c] <= sent[c]

(* A backup server meets only reads, a restore server only writes.         *)
OpOK ==
    /\ pc = "read" => OpType = "backup"
    /\ pc = "send" => OpType = "restore"
    /\ \A c \in Clients : batch[c] = "in"  => OpType = "backup"
    /\ \A c \in Clients : batch[c] = "out" => OpType = "restore"

TypeInv == TypeOK /\ Conservation /\ OpOK

OpenHasFile == \A c \in Clients : sock[c] = "open" => file[c] = "open"

(* Outside its loop the server has no undispatched events.                 *)
PhaseOK ==
    pc \notin {"loop", "read", "send"} =>
        \A x \in Clients \cup {Listener} : batch[x] = "none"

USE ClientsAssumption, OpTypeAssumption, BoundsAssumption

-------------------------------------------------------------------------------
(* Ending a client keeps the types of everything it changes.               *)
Sockets == {"none", "backlog", "open", "closed", "refused", "leaked", "dropped"}
Files   == {"none", "open", "closed", "cut", "broken", "lost"}
Ways    == {"closed", "cut", "broken"}

ClientTypes ==
    /\ status \in [Clients -> {"init", "done", "failed"}]
    /\ state \in [successCount : Nat, runningCount : Int, failedCount : Nat]
    /\ sock \in [Clients -> Sockets]
    /\ file \in [Clients -> Files]
    /\ object \in [by : Clients \cup {Nil}, chunks : 0..Chunks]
    /\ first \in Clients \cup {Nil}
    /\ last \in Clients \cup {Nil}
    /\ next \in [Clients -> Clients \cup {Nil}]

LEMMA EndClientType ==
    ASSUME TypeOK, NEW c \in Clients, NEW eof, NEW mask, NEW how \in Ways,
           EndClient(c, eof, mask, how)
    PROVE  ClientTypes'
<1> USE DEF TypeOK, EndClient, Ways
<1>1. status' \in [Clients -> {"init", "done", "failed"}]
  OBVIOUS
<1>2. state' \in [successCount : Nat, runningCount : Int, failedCount : Nat]
  <2>1. /\ state.successCount \in Nat
        /\ state.failedCount \in Nat
        /\ state.runningCount \in Int
    OBVIOUS
  <2> DEFINE s == state.successCount + IF CountsAsSuccess(c, eof, mask) THEN 1 ELSE 0
             f == state.failedCount + IF CountsAsSuccess(c, eof, mask) THEN 0 ELSE 1
             r == state.runningCount - IF InList(c) THEN 1 ELSE 0
  <2>2. s \in Nat /\ f \in Nat /\ r \in Int
    BY <2>1
  <2>3. state' = [successCount |-> s, failedCount |-> f, runningCount |-> r]
    OBVIOUS
  <2> QED BY <2>2, <2>3
<1>3. sock' \in [Clients -> Sockets]
  BY DEF Sockets
<1>4. file' \in [Clients -> Files]
  BY DEF Destroy, Files
<1>5. object' \in [by : Clients \cup {Nil}, chunks : 0..Chunks]
  BY DEF Destroy
<1>6. first' \in Clients \cup {Nil}
  BY DEF FirstWithout
<1>7. last' \in Clients \cup {Nil}
  BY DEF LastWithout
<1>8. next' \in [Clients -> Clients \cup {Nil}]
  <2>1. CASE InList(c) /\ first # c
    BY <2>1 DEF NextWithout
  <2>2. CASE ~(InList(c) /\ first # c)
    BY <2>2 DEF NextWithout
  <2> QED BY <2>1, <2>2
<1> QED BY <1>1, <1>2, <1>3, <1>4, <1>5, <1>6, <1>7, <1>8 DEF ClientTypes

LEMMA CutIsAWay == ASSUME NEW c PROVE HowCut(c) \in Ways
BY DEF HowCut, Ways

LEMMA TypeInit == Init => TypeInv
<1> SUFFICES ASSUME Init PROVE TypeInv
  OBVIOUS
<1> USE DEF Init
<1>1. state \in [successCount : Nat, runningCount : Int, failedCount : Nat]
  OBVIOUS
<1>2. object \in [by : Clients \cup {Nil}, chunks : 0..Chunks]
  BY DEF NoObject
<1>3. batch \in [Clients \cup {Listener} -> Masks]
  BY DEF Masks
<1>4. /\ OpOK
      /\ queue \in [Clients -> 0..SockBuf]
      /\ sent  \in [Clients -> 0..Chunks]
      /\ moved \in [Clients -> 0..Chunks]
      /\ Conservation
  BY DEF Conservation, OpOK
<1>5. /\ peer \in [Clients -> {"idle", "up", "fin", "rst"}]
      /\ sock \in [Clients -> Sockets]
      /\ edge \in [Clients -> BOOLEAN]
      /\ next \in [Clients -> Clients \cup {Nil}]
      /\ status \in [Clients -> {"init", "done", "failed"}]
      /\ file \in [Clients -> Files]
  BY DEF Sockets, Files
<1> QED BY <1>1, <1>2, <1>3, <1>4, <1>5 DEF TypeInv, TypeOK, Sockets, Files

LEMMA TypePeer ==
    ASSUME TypeInv, NEW c \in Clients, Peer(c)
    PROVE  TypeInv'
<1> USE DEF TypeInv, TypeOK, Conservation, OpOK, peerVars, listVars, clientVars
<1>1. CASE PeerConnect(c)
  BY <1>1 DEF PeerConnect
<1>2. CASE PeerSend(c)
  BY <1>2 DEF PeerSend
<1>3. CASE PeerReceive(c)
  BY <1>3 DEF PeerReceive
<1>4. CASE PeerClose(c)
  BY <1>4 DEF PeerClose
<1>5. CASE PeerReset(c)
  BY <1>5 DEF PeerReset
<1> QED BY <1>1, <1>2, <1>3, <1>4, <1>5 DEF Peer

(* What a wait that finds something reports.                               *)
LEMMA WaitReports ==
    ASSUME EpollWait
    PROVE  \E S \in SUBSET Reportable :
               /\ batch' = [x \in Clients \cup {Listener} |->
                               IF x \notin S THEN "none" ELSE IF x = Listener THEN "in" ELSE Mask(x)]
               /\ edge' = [c \in Clients |-> edge[c] /\ c \notin S]
BY DEF EpollWait

LEMMA TypeServer ==
    ASSUME TypeInv, Server
    PROVE  TypeInv'
<1>0. TypeOK
  BY DEF TypeInv, TypeOK
<1> USE DEF TypeInv, TypeOK, Conservation, OpOK, Sockets, Files, peerVars, listVars, clientVars
<1>1. CASE Listen
  BY <1>1 DEF Listen
<1>2. CASE CreateEpoll
  BY <1>2 DEF CreateEpoll
<1>3. CASE EpollWait
  <2>1. PICK S \in SUBSET Reportable :
          /\ batch' = [x \in Clients \cup {Listener} |->
                          IF x \notin S THEN "none" ELSE IF x = Listener THEN "in" ELSE Mask(x)]
          /\ edge' = [c \in Clients |-> edge[c] /\ c \notin S]
    BY Zenon, <1>3, WaitReports
  <2>2. \A c \in Clients : Mask(c) \in Masks
    BY DEF Mask, Masks
  <2>3. batch' \in [Clients \cup {Listener} -> Masks]
    BY <2>1, <2>2 DEF Masks
  <2>4. edge' \in [Clients -> BOOLEAN]
    BY <2>1
  <2>5. OpOK'
    <3>1. \A c \in Clients : Mask(c) = "in" => OpType = "backup"
      BY DEF Mask, Watched
    <3>2. \A c \in Clients : Mask(c) = "out" => OpType = "restore"
      BY DEF Mask, Watched
    <3>3. \A c \in Clients : batch'[c] \in {"none", Mask(c)}
      BY <2>1
    <3> QED BY <1>3, <3>1, <3>2, <3>3 DEF EpollWait
  <2> QED BY <1>3, <2>3, <2>4, <2>5 DEF EpollWait
<1>4. CASE EpollTimeout
  BY <1>4 DEF EpollTimeout
<1>16. CASE TestExit
  BY <1>16 DEF TestExit
<1>5. CASE EpollError
  BY <1>5 DEF EpollError
<1>6. CASE Return
  BY <1>6 DEF Return
<1>7. CASE ReturnFalse
  BY <1>7 DEF ReturnFalse, NoObject
<1>8. ASSUME NEW c \in Clients, AcceptClient(c)
      PROVE  TypeInv'
  <2> USE <1>8 DEF AcceptClient, Masks
  <2>1. CASE Admit(c)
    <3>1. next' \in [Clients -> Clients \cup {Nil}]
      BY <2>1 DEF Admit, AppendToClientList
    <3>2. state' \in [successCount : Nat, runningCount : Int, failedCount : Nat]
      BY <2>1 DEF Admit, AppendToClientList
    <3>3. edge' \in [Clients -> BOOLEAN]
      BY <2>1 DEF Admit, EdgeOnAdd
    <3>4. first' \in Clients \cup {Nil} /\ last' \in Clients \cup {Nil}
      BY <2>1 DEF Admit, AppendToClientList
    <3> QED BY <2>1, <3>1, <3>2, <3>3, <3>4 DEF Admit
  <2>2. CASE AcceptFails
    BY <2>2 DEF AcceptFails
  <2>3. CASE Refuse(c)
    BY <2>3 DEF Refuse, CreateFails, RegisterFails
  <2>4. CASE Leak(c)
    BY <2>4 DEF Leak
  <2> QED BY <2>1, <2>2, <2>3, <2>4
<1>9. ASSUME NEW c \in Clients, StartRead(c)
      PROVE  TypeInv'
  BY <1>9 DEF StartRead, Masks
<1>10. ASSUME NEW c \in Clients, ReadChunk(c)
       PROVE  TypeInv'
  <2>1. /\ queue[c] \in 1..SockBuf /\ queue' = [queue EXCEPT ![c] = @ - 1]
        /\ OpType = "backup"
    BY <1>10 DEF ReadChunk
  <2>2. CASE /\ moved' = [moved EXCEPT ![c] = @ + 1]
             /\ UNCHANGED <<pc, cur, listVars, state, sock, status, file, object>>
    BY <1>10, <2>1, <2>2 DEF ReadChunk
  <2>3. CASE /\ EndClient(c, FALSE, "in", "broken")
             /\ pc' = "loop" /\ cur' = Nil
             /\ moved' = moved
    <3>1. ClientTypes'
      BY <1>0, <2>3, EndClientType DEF Ways
    <3>2. moved' = moved /\ sent' = sent /\ queue' \in [Clients -> 0..SockBuf]
      BY <1>10, <2>1, <2>3 DEF ReadChunk
    <3>3. \A x \in Clients : queue'[x] <= queue[x]
      BY <2>1
    <3>4. Conservation'
      BY <3>2, <3>3
    <3> QED BY <1>10, <2>3, <3>1, <3>2, <3>4 DEF ReadChunk, ClientTypes
  <2> QED BY <1>10, <2>2, <2>3 DEF ReadChunk
<1>11. ASSUME NEW c \in Clients, ReadReturns(c)
       PROVE  TypeInv'
  <2>1. CASE UNCHANGED <<listVars, state, clientVars, object>>
    BY <1>11, <2>1 DEF ReadReturns
  <2>2. CASE /\ EndClient(c, TRUE, "in", "closed") \/ EndClient(c, FALSE, "in", "closed")
             /\ UNCHANGED moved
    <3>1. ClientTypes'
      BY <1>0, <2>2, EndClientType DEF Ways
    <3> QED BY <1>11, <2>2, <3>1 DEF ReadReturns, ClientTypes
  <2> QED BY <1>11, <2>1, <2>2 DEF ReadReturns, AfterEmptyRead
<1>12. ASSUME NEW c \in Clients, HandleWrite(c)
       PROVE  TypeInv'
  <2>1. OpType = "restore" /\ batch' = [batch EXCEPT ![c] = "none"]
    BY <1>12 DEF HandleWrite
  <2>2. CASE /\ moved[c] < Chunks
             /\ pc' = "send" /\ cur' = c
             /\ moved' = [moved EXCEPT ![c] = @ + 1]
             /\ UNCHANGED <<listVars, state, sock, status, file, object>>
    BY <1>12, <2>1, <2>2 DEF HandleWrite, Masks
  <2>3. CASE EndClient(c, TRUE, "out", HowCut(c)) /\ UNCHANGED <<pc, cur, moved>>
    <3>0. HowCut(c) \in Ways
      BY CutIsAWay
    <3>1. ClientTypes'
      BY <1>0, <2>3, <3>0, EndClientType
    <3> QED BY <1>12, <2>1, <2>3, <3>1 DEF HandleWrite, ClientTypes, Masks
  <2> QED BY <1>12, <2>2, <2>3 DEF HandleWrite
<1>13. ASSUME NEW c \in Clients, SendData(c)
       PROVE  TypeInv'
  <2>1. OpType = "restore"
    BY <1>13 DEF SendData
  <2>2. CASE /\ queue[c] < SockBuf
             /\ queue' = [queue EXCEPT ![c] = @ + 1]
             /\ UNCHANGED <<listVars, state, clientVars, object>>
    BY <1>13, <2>1, <2>2 DEF SendData
  <2>3. CASE EndClient(c, FALSE, "out", "closed") /\ UNCHANGED <<queue, moved>>
    <3>1. ClientTypes'
      BY <1>0, <2>3, EndClientType DEF Ways
    <3> QED BY <1>13, <2>1, <2>3, <3>1 DEF SendData, ClientTypes
  <2> QED BY <1>13, <2>2, <2>3 DEF SendData
<1>14. ASSUME NEW c \in Clients, HandleHup(c)
       PROVE  TypeInv'
  <2>0. HowCut(c) \in Ways /\ EndClient(c, FALSE, "hup", HowCut(c))
    BY <1>14, CutIsAWay DEF HandleHup
  <2>1. ClientTypes'
    BY <1>0, <2>0, EndClientType
  <2> QED BY <1>14, <2>1 DEF HandleHup, ClientTypes, Masks
<1>15. ASSUME NEW c \in Clients, DisconnectClient(c)
       PROVE  TypeInv'
  <2>0. EndClient(c, FALSE, "none", "closed")
    BY <1>15 DEF DisconnectClient
  <2>1. ClientTypes'
    BY <1>0, <2>0, EndClientType DEF Ways
  <2> QED BY <1>15, <2>1 DEF DisconnectClient, ClientTypes
<1> QED
  BY <1>1, <1>2, <1>3, <1>4, <1>5, <1>6, <1>7, <1>8, <1>9, <1>10, <1>11, <1>12,
     <1>13, <1>14, <1>15, <1>16 DEF Server

LEMMA TypeNext == TypeInv /\ [Next]_vars => TypeInv'
<1> SUFFICES ASSUME TypeInv, [Next]_vars PROVE TypeInv'
  OBVIOUS
<1>1. CASE Server
  BY <1>1, TypeServer
<1>2. CASE RequestExit
  BY <1>2 DEF RequestExit, TypeInv, TypeOK, Conservation, OpOK, peerVars, listVars, clientVars
<1>3. CASE \E c \in Clients : Peer(c)
  BY <1>3, TypePeer
<1>4. CASE UNCHANGED vars
  BY <1>4 DEF vars, TypeInv, TypeOK, Conservation, OpOK, peerVars, listVars, clientVars
<1> QED BY <1>1, <1>2, <1>3, <1>4 DEF Next

(* Type correctness: counters, queues and indices stay in their bounds     *)
(* whatever the peers, the kernel and the bucket do.                       *)
THEOREM TypeCorrect == Spec => []TypeOK
<1>1. TypeInv => TypeOK
  BY DEF TypeInv
<1> QED BY <1>1, TypeInit, TypeNext, PTL DEF Spec
-------------------------------------------------------------------------------
(* The second layer: events and wake-ups                                   *)

NotConnected == \A c \in Clients : peer[c] = "idle" => sock[c] \notin {"backlog", "open"}

Events == NotConnected /\ OpenHasFile /\ PhaseOK /\ EventsAreLive /\ NoLostWakeup

LEMMA EventInit == Init => Events
BY DEF Init, Events, NotConnected, OpenHasFile, PhaseOK, EventsAreLive, NoLostWakeup, Open

LEMMA EventPeer ==
    ASSUME TypeInv, Events, NEW c \in Clients, Peer(c)
    PROVE  Events'
<1> USE DEF TypeInv, TypeOK, Events, NotConnected, OpenHasFile, PhaseOK, EventsAreLive, NoLostWakeup, Open,
            Backlog, peerVars, listVars, clientVars
<1>1. CASE PeerConnect(c)
  BY <1>1 DEF PeerConnect
<1>2. CASE PeerSend(c)
  BY <1>2 DEF PeerSend
<1>3. CASE PeerReceive(c)
  BY <1>3 DEF PeerReceive
<1>4. CASE PeerClose(c)
  BY <1>4 DEF PeerClose
<1>5. CASE PeerReset(c)
  BY <1>5 DEF PeerReset
<1> QED BY <1>1, <1>2, <1>3, <1>4, <1>5 DEF Peer

(* What ending a client does to descriptors and files.                     *)
Closes(c) ==
    /\ sock' = [sock EXCEPT ![c] = "closed"]
    /\ \E h \in Ways \cup {"lost"} : file' = [file EXCEPT ![c] = h]

LEMMA EndClientCloses ==
    ASSUME NEW c \in Clients, NEW eof, NEW mask, NEW how \in Ways, EndClient(c, eof, mask, how)
    PROVE  Closes(c)
BY DEF EndClient, Destroy, Closes, Ways

LEMMA EventServer ==
    ASSUME TypeInv, Events, Server
    PROVE  Events'
<1> USE DEF TypeInv, TypeOK, OpOK, Events, NotConnected, OpenHasFile, PhaseOK, EventsAreLive, NoLostWakeup,
            Open, Backlog, peerVars, listVars, clientVars
<1>1. CASE Listen
  BY <1>1 DEF Listen
<1>2. CASE CreateEpoll
  BY <1>2 DEF CreateEpoll
<1>3. CASE EpollWait
  <2>1. PICK S \in SUBSET Reportable :
          /\ batch' = [x \in Clients \cup {Listener} |->
                          IF x \notin S THEN "none" ELSE IF x = Listener THEN "in" ELSE Mask(x)]
          /\ edge' = [c \in Clients |-> edge[c] /\ c \notin S]
    BY Zenon, <1>3, WaitReports
  <2>2. \A c \in Clients : Mask(c) # "none" => sock[c] = "open"
    BY DEF Mask, Watched
  <2>3. \A c \in Clients : c \in S => Mask(c) # "none"
    BY DEF Reportable
  <2>4. Listener \in S => Backlog # {}
    BY DEF Reportable
  <2>5. UNCHANGED <<sock, file, queue, peer, pc, cur>> /\ pc = "loop" /\ ~Dispatching
    BY <1>3 DEF EpollWait
  <2>6. NotConnected' /\ OpenHasFile' /\ PhaseOK'
    BY <2>5
  <2>7. EventsAreLive'
    BY <2>1, <2>2, <2>4, <2>5
  <2>8. NoLostWakeup'
    BY <2>1, <2>3, <2>5 DEF Dispatching
  <2> QED BY <2>6, <2>7, <2>8
<1>4. CASE EpollTimeout
  BY <1>4 DEF EpollTimeout, Dispatching
<1>16. CASE TestExit
  BY <1>16 DEF TestExit
<1>5. CASE EpollError
  BY <1>5 DEF EpollError, Dispatching
<1>6. CASE Return
  BY <1>6 DEF Return
<1>7. CASE ReturnFalse
  BY <1>7 DEF ReturnFalse
<1>8. ASSUME NEW c \in Clients, AcceptClient(c)
      PROVE  Events'
  <2>0. /\ pc = "loop" /\ sock[c] = "backlog"
        /\ batch' = [batch EXCEPT ![Listener] = "none"]
        /\ UNCHANGED <<peer, queue, pc, cur>>
    BY <1>8 DEF AcceptClient
  <2>1. CASE Admit(c)
    <3>1. /\ sock' = [sock EXCEPT ![c] = "open"]
          /\ file' = [file EXCEPT ![c] = "open"]
          /\ edge' = [edge EXCEPT ![c] = queue[c] > 0 \/ peer[c] # "up"]
      BY <2>1 DEF Admit, EdgeOnAdd
    <3>2. \A x \in Clients : batch'[x] = batch[x]
      BY <2>0
    <3>3. NotConnected' /\ OpenHasFile' /\ PhaseOK' /\ EventsAreLive'
      BY <2>0, <3>1, <3>2
    <3>4. \A q : [edge EXCEPT ![c] = q][c] = q /\ \A x \in Clients \ {c} : [edge EXCEPT ![c] = q][x] = edge[x]
      OBVIOUS
    <3>5. NoLostWakeup'
      <4> SUFFICES ASSUME OpType = "backup", NEW x \in Clients, sock'[x] = "open",
                          queue'[x] > 0 \/ peer'[x] # "up"
                   PROVE  edge'[x] \/ batch'[x] # "none" \/ (pc' = "read" /\ cur' = x)
        OBVIOUS
      <4>1. CASE x = c
        <5>1. edge'[c] = (queue[c] > 0 \/ peer[c] # "up")
          BY <3>1, <3>4
        <5> QED BY <2>0, <4>1, <5>1
      <4>2. CASE x # c
        <5>1. edge'[x] = edge[x]
          BY <3>1, <3>4, <4>2
        <5> QED BY <2>0, <3>1, <3>2, <4>2, <5>1
      <4> QED BY <4>1, <4>2
    <3> QED BY <3>3, <3>5
  <2>2. CASE AcceptFails
    BY <2>0, <2>2 DEF AcceptFails
  <2>3. CASE Refuse(c)
    BY <2>0, <2>3 DEF Refuse, CreateFails, RegisterFails
  <2>4. CASE Leak(c)
    BY <2>0, <2>4 DEF Leak
  <2> QED BY <1>8, <2>1, <2>2, <2>3, <2>4 DEF AcceptClient
<1>9. ASSUME NEW c \in Clients, StartRead(c)
      PROVE  Events'
  BY <1>9 DEF StartRead
<1>10. ASSUME NEW c \in Clients, ReadChunk(c)
       PROVE  Events'
  <2>1. /\ pc = "read" /\ cur = c
        /\ queue' = [queue EXCEPT ![c] = @ - 1]
        /\ UNCHANGED <<peer, edge, batch>>
    BY <1>10 DEF ReadChunk
  <2>2. CASE UNCHANGED <<pc, cur, sock, file>>
    BY <2>1, <2>2
  <2>3. CASE EndClient(c, FALSE, "in", "broken") /\ pc' = "loop"
    <3>1. Closes(c)
      BY <2>3, EndClientCloses DEF Ways
    <3> QED BY <2>1, <2>3, <3>1 DEF Closes, Ways
  <2> QED BY <1>10, <2>2, <2>3 DEF ReadChunk
<1>11. ASSUME NEW c \in Clients, ReadReturns(c)
       PROVE  Events'
  <2>1. /\ pc = "read" /\ cur = c /\ queue[c] = 0 /\ pc' = "loop"
        /\ UNCHANGED <<peer, queue, edge, batch>>
    BY <1>11 DEF ReadReturns
  <2>2. CASE peer[c] = "up" /\ UNCHANGED <<sock, file>>
    BY <2>1, <2>2
  <2>3. CASE EndClient(c, TRUE, "in", "closed") \/ EndClient(c, FALSE, "in", "closed")
    <3>1. Closes(c)
      BY <2>3, EndClientCloses DEF Ways
    <3> QED BY <2>1, <2>3, <3>1 DEF Closes, Ways
  <2> QED BY <1>11, <2>2, <2>3 DEF ReadReturns, AfterEmptyRead
<1>12. ASSUME NEW c \in Clients, HandleWrite(c)
       PROVE  Events'
  <2>1. /\ pc = "loop" /\ batch[c] = "out" /\ OpType = "restore"
        /\ batch' = [batch EXCEPT ![c] = "none"]
        /\ UNCHANGED <<peer, queue, edge>>
    BY <1>12 DEF HandleWrite
  <2>2. CASE pc' = "send" /\ cur' = c /\ UNCHANGED <<sock, file>>
    BY <2>1, <2>2
  <2>3. CASE EndClient(c, TRUE, "out", HowCut(c)) /\ UNCHANGED pc
    <3>0. HowCut(c) \in Ways
      BY CutIsAWay
    <3>1. Closes(c)
      BY <2>3, <3>0, EndClientCloses
    <3> QED BY <2>1, <2>3, <3>1 DEF Closes, Ways
  <2> QED BY <1>12, <2>2, <2>3 DEF HandleWrite
<1>13. ASSUME NEW c \in Clients, SendData(c)
       PROVE  Events'
  <2>1. /\ pc = "send" /\ cur = c /\ OpType = "restore" /\ pc' = "loop"
        /\ UNCHANGED <<peer, edge, batch>>
    BY <1>13 DEF SendData
  <2>2. CASE UNCHANGED <<sock, file>>
    BY <2>1, <2>2
  <2>3. CASE EndClient(c, FALSE, "out", "closed")
    <3>1. Closes(c)
      BY <2>3, EndClientCloses DEF Ways
    <3> QED BY <2>1, <2>3, <3>1 DEF Closes, Ways
  <2> QED BY <1>13, <2>2, <2>3 DEF SendData
<1>14. ASSUME NEW c \in Clients, HandleHup(c)
       PROVE  Events'
  <2>1. /\ pc = "loop" /\ batch' = [batch EXCEPT ![c] = "none"] /\ batch[c] # "none"
        /\ UNCHANGED <<peer, queue, edge, pc, cur>>
        /\ EndClient(c, FALSE, "hup", HowCut(c))
    BY <1>14 DEF HandleHup
  <2>2. Closes(c)
    BY <2>1, EndClientCloses, CutIsAWay
  <2> QED BY <2>1, <2>2 DEF Closes, Ways
<1>15. ASSUME NEW c \in Clients, DisconnectClient(c)
       PROVE  Events'
  <2>1. /\ pc = "closing" /\ UNCHANGED <<peer, queue, edge, batch, pc, cur>>
        /\ EndClient(c, FALSE, "none", "closed")
    BY <1>15 DEF DisconnectClient
  <2>2. Closes(c)
    BY <2>1, EndClientCloses DEF Ways
  <2> QED BY <2>1, <2>2 DEF Closes, Ways
<1> QED
  BY <1>1, <1>2, <1>3, <1>4, <1>5, <1>6, <1>7, <1>8, <1>9, <1>10, <1>11, <1>12,
     <1>13, <1>14, <1>15, <1>16 DEF Server

EventInv == TypeInv /\ Events

LEMMA EventNext == EventInv /\ [Next]_vars => EventInv'
<1> SUFFICES ASSUME EventInv, [Next]_vars PROVE EventInv'
  OBVIOUS
<1>1. TypeInv /\ TypeInv'
  BY TypeNext DEF EventInv
<1>2. Events'
  <2>1. CASE Server
    BY <2>1, EventServer DEF EventInv
  <2>2. CASE RequestExit
    BY <2>2 DEF EventInv, RequestExit, Events, NotConnected, OpenHasFile, PhaseOK, EventsAreLive,
                NoLostWakeup, Open, Backlog, peerVars, listVars, clientVars
  <2>3. CASE \E c \in Clients : Peer(c)
    BY <2>3, EventPeer DEF EventInv
  <2>4. CASE UNCHANGED vars
    BY <2>4 DEF vars, EventInv, Events, NotConnected, OpenHasFile, PhaseOK, EventsAreLive,
                NoLostWakeup, Open, Backlog, peerVars, listVars, clientVars
  <2> QED BY <2>1, <2>2, <2>3, <2>4 DEF Next
<1> QED BY <1>1, <1>2 DEF EventInv

LEMMA EventCorrect == Spec => []EventInv
<1>1. Init => EventInv
  BY TypeInit, EventInit DEF EventInv
<1> QED BY <1>1, EventNext, PTL DEF Spec

(* Edge-triggered epoll never puts the server to sleep on a client that    *)
(* has unread data or whose peer is gone.                                  *)
THEOREM WakeupsKept == Spec => []NoLostWakeup
<1>1. EventInv => NoLostWakeup
  BY DEF EventInv, Events
<1> QED BY <1>1, EventCorrect, PTL

(* No event of a batch refers to a client that has been ended.             *)
THEOREM EventsLive == Spec => []EventsAreLive
<1>1. EventInv => EventsAreLive
  BY DEF EventInv, Events
<1> QED BY <1>1, EventCorrect, PTL

(* At a time-out of epoll_wait there is nothing to accept, read or notice. *)
NothingToDo ==
    /\ Backlog = {}
    /\ \A c \in Open : peer[c] = "up" /\ (OpType = "backup" => queue[c] = 0)

LEMMA QuietTimeout ==
    ASSUME EventInv, EpollTimeout
    PROVE  NothingToDo
<1>1. Reportable = {} /\ ~Dispatching /\ pc = "loop"
  BY DEF EpollTimeout
<1>2. Backlog = {}
  BY <1>1 DEF Reportable
<1>3. ASSUME NEW c \in Open
      PROVE  peer[c] = "up" /\ (OpType = "backup" => queue[c] = 0)
  <2>1. Mask(c) = "none" /\ sock[c] = "open" /\ batch[c] = "none" /\ queue[c] \in Nat
    BY <1>1 DEF Reportable, Open, Dispatching, EventInv, TypeInv, TypeOK
  <2>2. OpType = "backup" /\ (queue[c] > 0 \/ peer[c] # "up") => edge[c]
    BY <1>1, <2>1 DEF EventInv, Events, NoLostWakeup
  <2> QED BY <2>1, <2>2 DEF Mask, Watched
<1> QED BY <1>2, <1>3 DEF NothingToDo

(* The loop is left by an error, by a handler, or by a time-out; and it is *)
(* a time-out that leads to the exit.                                      *)
LEMMA LoopLeft ==
    ASSUME Next, pc = "loop", pc' # "loop", pc' \notin {"read", "send", "failed"}
    PROVE  EpollTimeout
BY DEF Next, Server, Peer, Listen, CreateEpoll, EpollWait, EpollError, TestExit, Return,
       ReturnFalse, AcceptClient, StartRead, ReadChunk, ReadReturns, HandleWrite, SendData,
       HandleHup, DisconnectClient, RequestExit, PeerConnect, PeerSend, PeerReceive,
       PeerClose, PeerReset

LEMMA ClosingEntered ==
    ASSUME Next, pc # "closing", pc' = "closing"
    PROVE  TestExit
BY DEF Next, Server, Peer, Listen, CreateEpoll, EpollWait, EpollTimeout, EpollError, Return,
       ReturnFalse, AcceptClient, StartRead, ReadChunk, ReadReturns, HandleWrite, SendData,
       HandleHup, DisconnectClient, RequestExit, PeerConnect, PeerSend, PeerReceive,
       PeerClose, PeerReset

(* Run leaves its loop on request only, and only after an epoll_wait that  *)
(* found nothing to accept, read or notice.                                *)
THEOREM QuietExit == Spec => ExitIsQuiet
<1> DEFINE TimesOut == pc = "loop" /\ pc' # "loop" /\ pc' \notin {"read", "send", "failed"} =>
                           /\ pc' = "timedout"
                           /\ Backlog = {}
                           /\ \A c \in Open :
                                  peer[c] = "up" /\ (OpType = "backup" => queue[c] = 0)
           Leaves == pc # "closing" /\ pc' = "closing" => pc = "timedout" /\ exitServer
<1>1. EventInv /\ [Next]_vars => [TimesOut /\ Leaves]_vars
  <2> SUFFICES ASSUME EventInv, Next PROVE TimesOut /\ Leaves
    OBVIOUS
  <2>1. TimesOut
    BY LoopLeft, QuietTimeout DEF NothingToDo, EpollTimeout
  <2>2. Leaves
    BY ClosingEntered DEF TestExit
  <2> QED BY <2>1, <2>2
<1> QED BY <1>1, EventCorrect, PTL DEF Spec, ExitIsQuiet
-------------------------------------------------------------------------------
(* The refinement.  The server, with Upload or Download around it,         *)
(* implements Transfer; the mapping is Phase and Waiting.  Which client is *)
(* served, and how, is not visible there and stutters.                     *)
AbstractStep == [Promise!Next]_(Promise!transferVars)

LEMMA PhasesKept ==
    ASSUME pc' = pc
    PROVE  Phase' = Phase
BY DEF Phase

(* A peer's step is an arrival, or is not seen.                            *)
LEMMA PeerArrives ==
    ASSUME TypeInv, NEW c \in Clients, Peer(c)
    PROVE  AbstractStep
<1>1. UNCHANGED <<pc, exitServer, object, result>>
  BY DEF Peer, PeerConnect, PeerSend, PeerReceive, PeerClose, PeerReset
<1>2. Waiting => Waiting'
  <2> USE DEF Waiting, Backlog, Open, TypeInv, TypeOK
  <2>1. CASE PeerConnect(c)
    BY <2>1 DEF PeerConnect, peerVars
  <2>2. CASE PeerSend(c)
    BY <2>2 DEF PeerSend, clientVars
  <2>3. CASE PeerReceive(c)
    BY <2>3 DEF PeerReceive, peerVars, clientVars
  <2>4. CASE PeerClose(c)
    BY <2>4 DEF PeerClose, clientVars
  <2>5. CASE PeerReset(c)
    BY <2>5 DEF PeerReset, clientVars
  <2> QED BY <2>1, <2>2, <2>3, <2>4, <2>5 DEF Peer
<1>3. Phase' = Phase
  BY <1>1, PhasesKept
<1>4. CASE Waiting' = TRUE
  BY <1>1, <1>3, <1>4 DEF AbstractStep, Promise!Next, Promise!Arrive
<1>5. CASE Waiting' = FALSE /\ Waiting = FALSE
  BY <1>1, <1>3, <1>5 DEF AbstractStep, Promise!transferVars
<1>6. Waiting \in BOOLEAN /\ Waiting' \in BOOLEAN
  BY DEF Waiting
<1> QED BY <1>2, <1>4, <1>5, <1>6

(* A step of the loop while it serves, or while clients are disconnected.  *)
LEMMA LoopTakes ==
    ASSUME TypeOK', pc \in {"loop", "read", "send", "closing"}, Phase' = Phase,
           UNCHANGED <<exitServer, result>>
    PROVE  AbstractStep
<1>1. Phase \in {"serving", "closing"}
  BY DEF Phase
<1>2. object' \in [by : Clients \cup {Nil}, chunks : 0..Chunks]
  BY DEF TypeOK
<1>3. Waiting' \in BOOLEAN
  BY DEF Waiting
<1> QED BY <1>1, <1>2, <1>3 DEF AbstractStep, Promise!Next, Promise!Take

(* A wait times out with nothing to handle.                                *)
LEMMA NothingWaits ==
    ASSUME EventInv, EpollTimeout
    PROVE  ~Waiting
BY QuietTimeout DEF Waiting, NothingToDo

LEMMA ServerStep ==
    ASSUME EventInv, TypeOK', Server
    PROVE  AbstractStep
<1> USE DEF peerVars, clientVars
<1>1. CASE Listen
  <2>1. Waiting' = Waiting /\ UNCHANGED <<exitServer, object, result>>
    BY <1>1 DEF Listen, Waiting, Backlog, Open
  <2>2. CASE pc' = "ready"
    BY <1>1, <2>1, <2>2 DEF Listen, Phase, AbstractStep, Promise!Next, Promise!Listen
  <2>3. CASE pc' = "failed"
    BY <1>1, <2>1, <2>3 DEF Listen, Phase, AbstractStep, Promise!Next, Promise!Fail
  <2> QED BY <1>1, <2>2, <2>3 DEF Listen
<1>2. CASE CreateEpoll
  <2>1. Waiting' = Waiting /\ UNCHANGED <<exitServer, object, result>>
    BY <1>2 DEF CreateEpoll, Waiting, Backlog, Open
  <2>2. CASE pc' = "loop"
    BY <1>2, <2>1, <2>2 DEF CreateEpoll, Phase, AbstractStep, Promise!transferVars
  <2>3. CASE pc' = "failed"
    BY <1>2, <2>1, <2>3 DEF CreateEpoll, Phase, AbstractStep, Promise!Next, Promise!Fail
  <2> QED BY <1>2, <2>2, <2>3 DEF CreateEpoll
<1>3. CASE EpollWait
  <2>1. pc = "loop" /\ UNCHANGED <<pc, exitServer, result>>
    BY <1>3 DEF EpollWait
  <2> QED BY <2>1, PhasesKept, LoopTakes
<1>4. CASE EpollTimeout
  <2>1. Waiting' = Waiting /\ UNCHANGED <<exitServer, object, result>>
    BY <1>4 DEF EpollTimeout, Waiting, Backlog, Open
  <2>2. ~Waiting
    BY <1>4, NothingWaits
  <2>3. Phase = "serving" /\ Phase' = "leaving"
    BY <1>4 DEF EpollTimeout, Phase
  <2> QED BY <2>1, <2>2, <2>3 DEF AbstractStep, Promise!Next, Promise!TimeOut
<1>10. CASE TestExit
  <2>1. Waiting' = Waiting /\ UNCHANGED <<exitServer, object, result>>
    BY <1>10 DEF TestExit, Waiting, Backlog, Open
  <2>2. Phase = "leaving"
    BY <1>10 DEF TestExit, Phase
  <2>3. CASE exitServer
    <3>1. Phase' = "closing"
      BY <1>10, <2>3 DEF TestExit, Phase
    <3> QED BY <2>1, <2>2, <2>3, <3>1 DEF AbstractStep, Promise!Next, Promise!Close
  <2>4. CASE ~exitServer
    <3>1. Phase' = "serving"
      BY <1>10, <2>4 DEF TestExit, Phase
    <3> QED BY <2>1, <2>2, <2>4, <3>1 DEF AbstractStep, Promise!Next, Promise!Stay
  <2> QED BY <2>3, <2>4
<1>5. CASE EpollError
  <2>1. Waiting' = Waiting /\ UNCHANGED <<exitServer, object, result>>
    BY <1>5 DEF EpollError, Waiting, Backlog, Open
  <2>2. Phase = "serving" /\ Phase' = "failed"
    BY <1>5 DEF EpollError, Phase
  <2> QED BY <2>1, <2>2 DEF AbstractStep, Promise!Next, Promise!Fail
<1>6. CASE Return
  <2>1. Phase = "closing" /\ Phase' = "returned" /\ result' = "true" /\ UNCHANGED <<exitServer, object>>
    BY <1>6 DEF Return, Phase
  <2>2. Waiting' \in BOOLEAN
    BY DEF Waiting
  <2> QED BY <2>1, <2>2 DEF AbstractStep, Promise!Next, Promise!Return
<1>7. CASE ReturnFalse
  <2>1. Waiting' = Waiting /\ UNCHANGED exitServer
    BY <1>7 DEF ReturnFalse, Waiting, Backlog, Open
  <2>2. Phase = "failed" /\ Phase' = "returned" /\ result' = "false" /\ object' \in {NoObject, object}
    BY <1>7 DEF ReturnFalse, Phase
  <2> QED BY <2>1, <2>2 DEF AbstractStep, Promise!Next, Promise!ReturnFalse
<1>8. ASSUME NEW c \in Clients,
             \/ AcceptClient(c) \/ StartRead(c) \/ ReadChunk(c) \/ ReadReturns(c)
             \/ HandleWrite(c) \/ SendData(c) \/ HandleHup(c)
      PROVE  AbstractStep
  <2>1. pc \in {"loop", "read", "send"} /\ pc' \in {"loop", "read", "send"}
    BY <1>8 DEF AcceptClient, StartRead, ReadChunk, ReadReturns, HandleWrite, SendData, HandleHup
  <2>2. UNCHANGED <<exitServer, result>>
    BY <1>8 DEF AcceptClient, StartRead, ReadChunk, ReadReturns, HandleWrite, SendData, HandleHup
  <2>3. Phase' = Phase
    BY <2>1 DEF Phase
  <2> QED BY <2>1, <2>2, <2>3, LoopTakes
<1>9. ASSUME NEW c \in Clients, DisconnectClient(c)
      PROVE  AbstractStep
  <2>1. pc = "closing" /\ UNCHANGED <<pc, exitServer, result>>
    BY <1>9 DEF DisconnectClient
  <2> QED BY <2>1, PhasesKept, LoopTakes
<1> QED
  BY <1>1, <1>2, <1>3, <1>4, <1>5, <1>6, <1>7, <1>8, <1>9, <1>10 DEF Server

LEMMA NextStep == EventInv /\ EventInv' /\ [Next]_vars => AbstractStep
<1> SUFFICES ASSUME EventInv, EventInv', [Next]_vars
             PROVE  AbstractStep
  OBVIOUS
<1>1. TypeInv /\ TypeOK'
  BY DEF EventInv, TypeInv
<1>2. CASE Server
  BY <1>1, <1>2, ServerStep
<1>3. CASE RequestExit
  <2>1. UNCHANGED <<pc, object, result>> /\ exitServer' = TRUE /\ Waiting' = Waiting
    BY <1>3 DEF RequestExit, Waiting, Backlog, Open, peerVars, clientVars
  <2> QED BY <2>1, PhasesKept DEF AbstractStep, Promise!Next, Promise!RequestExit
<1>4. CASE \E c \in Clients : Peer(c)
  BY <1>1, <1>4, PeerArrives
<1>5. CASE UNCHANGED vars
  <2>1. UNCHANGED <<pc, exitServer, object, result>> /\ Waiting' = Waiting
    BY <1>5 DEF vars, Waiting, Backlog, Open, peerVars, clientVars
  <2> QED BY <2>1, PhasesKept DEF AbstractStep, Promise!transferVars
<1> QED BY <1>2, <1>3, <1>4, <1>5 DEF Next

LEMMA InitStarts == Init => Promise!Init
BY DEF Init, Promise!Init, Phase, Waiting, Backlog, Open

(* The server implements Transfer: it starts in a state of Transfer, and   *)
(* every step is one of Transfer's or is not seen.  In particular it stops *)
(* serving only on request, after a wait with nothing waiting, and the     *)
(* object changes only while it serves, closes or cleans up.               *)
THEOREM ServerKeepsPromise == Spec => KeepsPromise
<1>1. EventInv /\ EventInv' /\ [Next]_vars => [Promise!Next]_(Promise!transferVars)
  BY NextStep DEF AbstractStep
<1> QED BY <1>1, InitStarts, EventCorrect, PTL DEF Spec, KeepsPromise, Promise!Spec
===============================================================================
