----------------------- MODULE TransferServer_listproofs -----------------------
(***************************************************************************)
(* Machine-checked proofs about the client list of TransferServer, the     *)
(* three counters of ServerState and the data, on top of                   *)
(* TransferServer_proofs.                                                  *)
(*                                                                         *)
(* removeFromClientList does not repair LastClient, so the list may lose   *)
(* clients.  What holds nevertheless: the walk from FirstClient meets open *)
(* clients only, each once; runningCount never falls below the number of   *)
(* open clients; and each client is counted once when it ends.             *)
(*                                                                         *)
(* On top of the list, the data: Flow accounts for every chunk until the   *)
(* client ends, SuccessIsAccounted says how a client that is counted as a  *)
(* success may have ended, and Committed what the bucket holds.            *)
(***************************************************************************)
EXTENDS TransferServer_proofs

(* Only connections that were made have a server side.                     *)
IdleNone == \A c \in Clients : peer[c] = "idle" => sock[c] = "none"

(* No client is met twice: links do not merge, none leads back to the head. *)
Linear ==
    /\ \A x, y \in Listed : next[x] # Nil /\ next[x] = next[y] => x = y
    /\ \A x \in Listed : first # Nil => next[x] # first

ListInv == IdleNone /\ Linear /\ ListedAreOpen /\ RunningCountCovers /\ CountedOnce

(* The three things a step can do to the list and the counters.            *)
Keeps ==
    /\ UNCHANGED <<first, next, state>>
    /\ Open' = Open
    /\ Closed' = Closed
    /\ IdleNone'

Appends(c) ==
    /\ sock[c] = "backlog"
    /\ sock' = [sock EXCEPT ![c] = "open"]
    /\ AppendToClientList(c)
    /\ peer' = peer

Ends(c) ==
    /\ sock' = [sock EXCEPT ![c] = "closed"]
    /\ first' = FirstWithout(c)
    /\ next' = NextWithout(c)
    /\ state'.runningCount = state.runningCount - IF InList(c) THEN 1 ELSE 0
    /\ state'.successCount + state'.failedCount = state.successCount + state.failedCount + 1
    /\ peer' = peer

-------------------------------------------------------------------------------
(* The walk: it meets its head and what its members point to, and it stays *)
(* in every set that does as much.                                         *)
LEMMA ListedClosed ==
    ASSUME TypeOK
    PROVE  /\ Listed \subseteq Clients
           /\ first # Nil => first \in Listed
           /\ \A x \in Listed : next[x] # Nil => next[x] \in Listed
BY DEF TypeOK, Listed

LEMMA ListedLeast ==
    ASSUME NEW S \in SUBSET Clients,
           first # Nil => first \in S,
           \A x \in S : next[x] # Nil => next[x] \in S
    PROVE  Listed \subseteq S
BY DEF Listed

LEMMA ListedLeastPrime ==
    ASSUME NEW S \in SUBSET Clients,
           first' # Nil => first' \in S,
           \A x \in S : next'[x] # Nil => next'[x] \in S
    PROVE  Listed' \subseteq S
BY DEF Listed

LEMMA OpenFinite == IsFiniteSet(Open) /\ IsFiniteSet(Closed)
<1>1. Open \subseteq Clients /\ Closed \subseteq Clients
  BY DEF Open, Closed
<1> QED BY <1>1, FS_Subset, ClientsAssumption

(* A client in the list is found: runningCount is not zero.                *)
LEMMA ListedIsFound ==
    ASSUME TypeOK, ListInv, NEW c \in Listed
    PROVE  InList(c)
<1>1. c \in Open
  BY DEF ListInv, ListedAreOpen
<1>2. Cardinality(Open) \in Nat /\ Cardinality(Open) # 0
  BY <1>1, OpenFinite, FS_CardinalityType, FS_EmptySet
<1>3. state.runningCount # 0
  BY <1>2 DEF ListInv, RunningCountCovers, TypeOK
<1>4. first # Nil
  <2> SUFFICES ASSUME first = Nil PROVE FALSE
    OBVIOUS
  <2> DEFINE S == {}
  <2>0. S \in SUBSET Clients /\ first \notin S /\ \A x \in S : FALSE
    OBVIOUS
  <2> HIDE DEF S
  <2>1. Listed \subseteq S
    BY <2>0, ListedLeast
  <2> QED BY <2>0, <2>1
<1> QED BY <1>3, <1>4 DEF InList

-------------------------------------------------------------------------------
LEMMA AppendKeeps ==
    ASSUME TypeOK, ListInv, NEW c \in Clients, Appends(c)
    PROVE  ListInv'
<1> USE DEF TypeOK
<1>0. c \notin Open /\ c \notin Closed /\ c \notin Listed /\ Listed \subseteq Clients
  BY DEF Appends, ListInv, ListedAreOpen, Open, Closed, Listed
<1>1. Open' = Open \cup {c} /\ Closed' = Closed
  BY DEF Appends, Open, Closed
<1>2. next'[c] \in {Nil, c} /\ \A x \in Clients : x # c => next'[x] \in {next[x], c}
  BY DEF Appends, AppendToClientList
<1>3. Listed' \subseteq Listed \cup {c}
  <2> DEFINE S == Listed \cup {c}
  <2>1. first' # Nil => first' \in S
    BY ListedClosed DEF Appends, AppendToClientList
  <2>2. \A x \in S : next'[x] # Nil => next'[x] \in S
    BY <1>0, <1>2, ListedClosed
  <2>3. S \in SUBSET Clients
    BY <1>0
  <2> HIDE DEF S
  <2>4. Listed' \subseteq S
    BY <2>1, <2>2, <2>3, ListedLeastPrime
  <2> QED BY <2>4 DEF S
<1>4. ListedAreOpen'
  BY <1>1, <1>3 DEF ListInv, ListedAreOpen
<1>5. Linear'
  <2>1. CASE first = Nil
    <3>1. Listed' \subseteq {c}
      <4>1. first' = c /\ next'[c] = Nil
        BY <2>1 DEF Appends, AppendToClientList
      <4> DEFINE S == {c}
      <4>2. S \in SUBSET Clients /\ first' \in S /\ \A x \in S : next'[x] = Nil
        BY <4>1
      <4> HIDE DEF S
      <4>3. Listed' \subseteq S
        BY <4>2, ListedLeastPrime
      <4> QED BY <4>3 DEF S
    <3>2. next'[c] = Nil /\ first' = c
      BY <2>1 DEF Appends, AppendToClientList
    <3> QED BY <3>1, <3>2, ClientsAssumption DEF Linear
  <2>2. CASE first # Nil
    <3>1. first' = first /\ first \in Listed /\ next' = [next EXCEPT ![c] = Nil, ![last] = c]
      BY <2>2, ListedClosed DEF Appends, AppendToClientList
    <3>2. \A x \in Listed : next[x] # c
      BY <1>0, ListedClosed, ClientsAssumption
    <3>3. \A x \in Listed' : x # last => (x = c /\ next'[x] = Nil) \/ (x \in Listed /\ next'[x] = next[x])
      BY <1>0, <1>3, <3>1
    <3>4. last \in Clients => next'[last] = c
      BY <3>1
    <3>5. Listed' \subseteq Clients
      BY <1>0, <1>3
    <3>6. ASSUME NEW x \in Listed', NEW y \in Listed', next'[x] # Nil, next'[x] = next'[y]
          PROVE  x = y
      <4>1. CASE x = last /\ y = last
        BY <4>1
      <4>2. CASE x = last /\ y # last
        BY <1>0, <3>2, <3>3, <3>4, <3>5, <3>6, <4>2
      <4>3. CASE x # last /\ y = last
        BY <1>0, <3>2, <3>3, <3>4, <3>5, <3>6, <4>3
      <4>4. CASE x # last /\ y # last
        BY <3>3, <3>6, <4>4 DEF ListInv, Linear
      <4> QED BY <4>1, <4>2, <4>3, <4>4
    <3>7. ASSUME NEW x \in Listed'
          PROVE  next'[x] # first'
      <4>1. CASE x = last
        BY <1>0, <3>1, <3>4, <3>5, <4>1
      <4>2. CASE x # last
        BY <2>2, <3>1, <3>3, <4>2 DEF ListInv, Linear
      <4> QED BY <4>1, <4>2
    <3> QED BY <3>6, <3>7 DEF Linear
  <2> QED BY <2>1, <2>2
<1>6. RunningCountCovers'
  <2>1. Cardinality(Open') = Cardinality(Open) + 1 /\ Cardinality(Open) \in Nat
    BY <1>0, <1>1, OpenFinite, FS_AddElement, FS_CardinalityType
  <2>2. state'.runningCount = state.runningCount + 1
    BY DEF Appends, AppendToClientList
  <2> QED BY <2>1, <2>2 DEF ListInv, RunningCountCovers
<1>7. CountedOnce'
  <2>1. state'.successCount = state.successCount /\ state'.failedCount = state.failedCount
    BY DEF Appends, AppendToClientList
  <2> QED BY <1>1, <2>1 DEF ListInv, CountedOnce
<1>8. IdleNone'
  BY DEF Appends, ListInv, IdleNone
<1> QED BY <1>4, <1>5, <1>6, <1>7, <1>8 DEF ListInv

LEMMA EndKeeps ==
    ASSUME TypeOK, ListInv, NEW c \in Open, Ends(c)
    PROVE  ListInv'
<1>0. /\ c \in Clients /\ c \notin Closed /\ sock[c] = "open"
      /\ Open \subseteq Clients /\ Listed \subseteq Clients
  BY DEF Open, Closed, Listed
<1>1. Open' = Open \ {c} /\ Closed' = Closed \cup {c}
  BY <1>0 DEF Ends, Open, Closed, TypeOK
<1> DEFINE S == Listed \ {c}
<1>2. /\ Listed' \subseteq S
      /\ \A x \in S : next'[x] \in {next[x]} \cup (IF next[x] = c THEN {next[c]} ELSE {})
      /\ Linear'
  <2>0. S \in SUBSET Clients
    BY <1>0
  <2>1. CASE c \notin Listed
    <3>1. first' = first /\ next' = next
      BY <2>1 DEF Ends, FirstWithout, NextWithout, InList
    <3>2. Listed' = Listed
      BY <3>1 DEF Listed
    <3> QED BY <2>1, <3>1, <3>2 DEF ListInv, Linear
  <2>2. CASE c \in Listed /\ first = c
    <3>1. first' = next[c] /\ next' = next
      BY <2>2, ListedIsFound DEF Ends, FirstWithout, NextWithout
    <3>2. \A x \in Listed : next[x] # c
      BY <1>0, <2>2, ClientsAssumption DEF ListInv, Linear
    <3>3. \A x \in S : next'[x] # Nil => next'[x] \in S
      BY <3>1, <3>2, ListedClosed
    <3>4. first' # Nil => first' \in S
      BY <2>2, <3>1, <3>2, ListedClosed
    <3> HIDE DEF S
    <3>5. Listed' \subseteq S
      BY <2>0, <3>3, <3>4, ListedLeastPrime
    <3>6. Linear'
      BY <2>2, <3>1, <3>5 DEF S, ListInv, Linear
    <3> QED BY <3>1, <3>5, <3>6
  <2>3. CASE c \in Listed /\ first # c
    <3>1. /\ first' = first /\ first # Nil
          /\ next' = [x \in Clients |-> IF x \in Listed /\ next[x] = c THEN next[c] ELSE next[x]]
      BY <2>3, ListedIsFound DEF Ends, FirstWithout, NextWithout, InList
    <3>2. \A x \in S : \/ next[x] = c /\ next'[x] = next[c]
                       \/ next[x] # c /\ next'[x] = next[x]
      BY <1>0, <3>1
    <3>3. \A x \in S : next[x] = c => next[c] # c
      BY <1>0, <2>3, ClientsAssumption DEF ListInv, Linear
    <3>4. \A x \in S : next'[x] # Nil => next'[x] \in S
      BY <2>3, <3>2, <3>3, ListedClosed
    <3>5. first' \in S
      BY <2>3, <3>1, ListedClosed
    <3>6. \A x, y \in S : next'[x] # Nil /\ next'[x] = next'[y] => x = y
      BY <1>0, <2>3, <3>2, ClientsAssumption DEF ListInv, Linear
    <3>7. \A x \in S : next'[x] # first'
      BY <2>3, <3>1, <3>2 DEF ListInv, Linear
    <3> HIDE DEF S
    <3>8. Listed' \subseteq S
      BY <2>0, <3>4, <3>5, ListedLeastPrime
    <3> QED BY <3>2, <3>6, <3>7, <3>8 DEF Linear
  <2> QED BY <2>1, <2>2, <2>3
<1>3. ListedAreOpen'
  BY <1>1, <1>2 DEF ListInv, ListedAreOpen
<1>4. RunningCountCovers'
  <2>1. Cardinality(Open') = Cardinality(Open) - 1 /\ Cardinality(Open) \in Nat
    BY <1>1, OpenFinite, FS_RemoveElement, FS_CardinalityType
  <2>2. state'.runningCount >= state.runningCount - 1
    BY DEF Ends, TypeOK
  <2>3. state'.runningCount \in Int /\ state.runningCount \in Int
    BY DEF Ends, TypeOK
  <2> QED BY <2>1, <2>2, <2>3 DEF ListInv, RunningCountCovers
<1>5. CountedOnce'
  <2>1. Cardinality(Closed') = Cardinality(Closed) + 1
    BY <1>0, <1>1, OpenFinite, FS_AddElement
  <2> QED BY <2>1 DEF ListInv, CountedOnce, Ends
<1>6. IdleNone'
  BY <1>0 DEF Ends, ListInv, IdleNone, TypeOK
<1> QED BY <1>2, <1>3, <1>4, <1>5, <1>6 DEF ListInv

LEMMA KeepKeeps ==
    ASSUME ListInv, Keeps
    PROVE  ListInv'
<1>1. Listed' = Listed
  BY DEF Keeps, Listed
<1>2. Linear'
  BY <1>1 DEF Keeps, ListInv, Linear
<1>3. ListedAreOpen'
  BY <1>1 DEF Keeps, ListInv, ListedAreOpen
<1>4. RunningCountCovers' /\ CountedOnce'
  BY DEF Keeps, ListInv, RunningCountCovers, CountedOnce
<1> QED BY <1>2, <1>3, <1>4 DEF ListInv, Keeps
-------------------------------------------------------------------------------
(* Every step keeps the list, appends a client or ends an open one.        *)
LEMMA EndClientEnds ==
    ASSUME TypeOK, NEW c \in Clients, NEW eof, NEW mask, NEW how,
           EndClient(c, eof, mask, how), peer' = peer
    PROVE  Ends(c)
<1>1. /\ state.successCount \in Nat /\ state.failedCount \in Nat
  BY DEF TypeOK
<1>2. state'.runningCount = state.runningCount - IF InList(c) THEN 1 ELSE 0
  BY DEF EndClient
<1>3. state'.successCount + state'.failedCount = state.successCount + state.failedCount + 1
  <2>1. CASE CountsAsSuccess(c, eof, mask)
    BY <1>1, <2>1 DEF EndClient
  <2>2. CASE ~CountsAsSuccess(c, eof, mask)
    BY <1>1, <2>2 DEF EndClient
  <2> QED BY <2>1, <2>2
<1> QED BY <1>2, <1>3 DEF EndClient, Ends

LEMMA StepKinds ==
    ASSUME EventInv, ListInv, [Next]_vars
    PROVE  Keeps \/ (\E c \in Clients : Appends(c)) \/ (\E c \in Open : Ends(c))
<1>0. TypeOK /\ EventsAreLive /\ NotConnected /\ IdleNone
  BY DEF EventInv, TypeInv, Events, ListInv
<1> DEFINE Quiet == UNCHANGED <<first, next, state, sock, peer>>
<1>1. ASSUME Quiet PROVE Keeps
  BY <1>0, <1>1 DEF Keeps, Open, Closed, IdleNone
<1>2. ASSUME NEW c \in Clients, Peer(c) PROVE Keeps
  <2>1. CASE PeerConnect(c)
    BY <1>0, <2>1 DEF PeerConnect, Keeps, Open, Closed, IdleNone, TypeOK, listVars
  <2>2. CASE PeerSend(c)
    BY <1>1, <2>2 DEF PeerSend, listVars, clientVars
  <2>3. CASE PeerReceive(c)
    BY <1>1, <2>3 DEF PeerReceive, listVars, clientVars, peerVars
  <2>4. CASE PeerClose(c)
    BY <1>0, <2>4 DEF PeerClose, Keeps, Open, Closed, IdleNone, TypeOK, listVars, clientVars
  <2>5. CASE PeerReset(c)
    BY <1>0, <2>5 DEF PeerReset, Keeps, Open, Closed, IdleNone, TypeOK, listVars, clientVars
  <2> QED BY <1>2, <2>1, <2>2, <2>3, <2>4, <2>5 DEF Peer
<1>3. CASE Listen \/ CreateEpoll \/ EpollWait \/ EpollTimeout \/ TestExit \/ EpollError \/ ReturnFalse
  <2>1. Quiet
    BY <1>3 DEF Listen, CreateEpoll, EpollWait, EpollTimeout, TestExit, EpollError, ReturnFalse,
                listVars, clientVars, peerVars
  <2> QED BY <1>1, <2>1
<1>4. CASE Return
  BY <1>0, <1>4 DEF Return, Backlog, Keeps, Open, Closed, IdleNone, TypeOK, listVars, peerVars
<1>5. ASSUME NEW c \in Clients, AcceptClient(c)
      PROVE  Keeps \/ Appends(c)
  <2>1. sock[c] = "backlog" /\ peer' = peer
    BY <1>5 DEF AcceptClient, Backlog, peerVars
  <2>2. CASE Admit(c)
    BY <2>1, <2>2 DEF Admit, Appends
  <2>3. CASE AcceptFails
    BY <1>1, <2>1, <2>3 DEF AcceptFails, listVars, clientVars
  <2>4. CASE Refuse(c)
    BY <1>0, <2>1, <2>4 DEF Refuse, CreateFails, RegisterFails, Keeps, Open, Closed, IdleNone, TypeOK, listVars
  <2>5. CASE Leak(c)
    BY <1>0, <2>1, <2>5 DEF Leak, Keeps, Open, Closed, IdleNone, TypeOK, listVars
  <2> QED BY <1>5, <2>2, <2>3, <2>4, <2>5 DEF AcceptClient
<1>6. ASSUME NEW c \in Clients, StartRead(c) PROVE Keeps
  BY <1>1, <1>6 DEF StartRead, listVars, clientVars, peerVars
<1>7. ASSUME NEW c \in Clients, ReadChunk(c)
      PROVE  Keeps \/ (c \in Open /\ Ends(c))
  <2>1. c \in Open /\ peer' = peer
    BY <1>0, <1>7 DEF ReadChunk, EventsAreLive, peerVars
  <2>2. CASE UNCHANGED <<listVars, state, sock>>
    BY <1>1, <2>1, <2>2 DEF listVars
  <2>3. CASE EndClient(c, FALSE, "in", "broken")
    BY <1>0, <2>1, <2>3, EndClientEnds
  <2> QED BY <1>7, <2>2, <2>3 DEF ReadChunk
<1>8. ASSUME NEW c \in Clients, ReadReturns(c)
      PROVE  Keeps \/ (c \in Open /\ Ends(c))
  <2>1. c \in Open /\ peer' = peer
    BY <1>0, <1>8 DEF ReadReturns, EventsAreLive, peerVars
  <2>2. CASE UNCHANGED <<listVars, state, clientVars>>
    BY <1>1, <2>1, <2>2 DEF listVars, clientVars
  <2>3. CASE EndClient(c, TRUE, "in", "closed") \/ EndClient(c, FALSE, "in", "closed")
    BY <1>0, <2>1, <2>3, EndClientEnds
  <2> QED BY <1>8, <2>2, <2>3 DEF ReadReturns, AfterEmptyRead
<1>9. ASSUME NEW c \in Clients, HandleWrite(c)
      PROVE  Keeps \/ (c \in Open /\ Ends(c))
  <2>1. c \in Open /\ peer' = peer
    BY <1>0, <1>9 DEF HandleWrite, EventsAreLive, Open, peerVars
  <2>2. CASE UNCHANGED <<listVars, state, sock>>
    BY <1>1, <2>1, <2>2 DEF listVars
  <2>3. CASE EndClient(c, TRUE, "out", HowCut(c))
    BY <1>0, <2>1, <2>3, EndClientEnds
  <2> QED BY <1>9, <2>2, <2>3 DEF HandleWrite
<1>10. ASSUME NEW c \in Clients, SendData(c)
       PROVE  Keeps \/ (c \in Open /\ Ends(c))
  <2>1. c \in Open /\ peer' = peer
    BY <1>0, <1>10 DEF SendData, EventsAreLive, peerVars
  <2>2. CASE UNCHANGED <<listVars, state, clientVars>>
    BY <1>1, <2>1, <2>2 DEF listVars, clientVars
  <2>3. CASE EndClient(c, FALSE, "out", "closed")
    BY <1>0, <2>1, <2>3, EndClientEnds
  <2> QED BY <1>10, <2>2, <2>3 DEF SendData
<1>11. ASSUME NEW c \in Clients, HandleHup(c)
       PROVE  c \in Open /\ Ends(c)
  <2>1. c \in Open /\ peer' = peer /\ EndClient(c, FALSE, "hup", HowCut(c))
    BY <1>0, <1>11 DEF HandleHup, EventsAreLive, Open, peerVars
  <2> QED BY <1>0, <2>1, EndClientEnds
<1>12. ASSUME NEW c \in Clients, DisconnectClient(c)
       PROVE  c \in Open /\ Ends(c)
  <2>1. first \in Listed /\ c = first
    BY <1>0, <1>12, ListedClosed DEF DisconnectClient, MoreToDisconnect
  <2>2. c \in Open /\ peer' = peer /\ EndClient(c, FALSE, "none", "closed")
    BY <1>12, <2>1 DEF DisconnectClient, ListInv, ListedAreOpen, peerVars
  <2> QED BY <1>0, <2>2, EndClientEnds
<1>13. CASE RequestExit
  BY <1>1, <1>13 DEF RequestExit, listVars, clientVars, peerVars
<1>14. CASE UNCHANGED vars
  BY <1>1, <1>14 DEF vars, listVars, clientVars, peerVars
<1> QED
  BY <1>2, <1>3, <1>4, <1>5, <1>6, <1>7, <1>8, <1>9, <1>10, <1>11, <1>12, <1>13, <1>14
     DEF Next, Server

LEMMA ListInit == Init => ListInv
<1> SUFFICES ASSUME Init PROVE ListInv
  OBVIOUS
<1>1. Open = {} /\ Closed = {}
  BY DEF Init, Open, Closed
<1>2. Listed = {}
  <2> DEFINE S == {}
  <2>0. S \in SUBSET Clients /\ first = Nil /\ \A x \in S : FALSE
    BY DEF Init
  <2> HIDE DEF S
  <2>1. Listed \subseteq S
    BY <2>0, ListedLeast
  <2> QED BY <2>0, <2>1
<1>3. Cardinality(Open) = 0 /\ Cardinality(Closed) = 0
  BY <1>1, FS_EmptySet
<1>4. state.runningCount = 0 /\ state.successCount = 0 /\ state.failedCount = 0
  BY DEF Init
<1>5. IdleNone
  BY DEF Init, IdleNone
<1> QED BY <1>2, <1>3, <1>4, <1>5 DEF ListInv, Linear, ListedAreOpen, RunningCountCovers, CountedOnce

LEMMA ListCorrect == Spec => []ListInv
<1>1. EventInv /\ ListInv /\ [Next]_vars => ListInv'
  <2> SUFFICES ASSUME EventInv, ListInv, [Next]_vars PROVE ListInv'
    OBVIOUS
  <2>1. TypeOK
    BY DEF EventInv, TypeInv
  <2> QED BY <2>1, StepKinds, KeepKeeps, AppendKeeps, EndKeeps
<1> QED BY <1>1, ListInit, EventCorrect, PTL DEF Spec

(* The list never leads to a client that has been ended.                   *)
THEOREM ListSound == Spec => []ListedAreOpen
<1>1. ListInv => ListedAreOpen
  BY DEF ListInv
<1> QED BY <1>1, ListCorrect, PTL

(* The guard "runningCount == 0" never hides an open client.               *)
THEOREM RunningCountSound == Spec => []RunningCountCovers
<1>1. ListInv => RunningCountCovers
  BY DEF ListInv
<1> QED BY <1>1, ListCorrect, PTL

(* Each client that goes away is counted exactly once.                     *)
THEOREM CountsSound == Spec => []CountedOnce
<1>1. ListInv => CountedOnce
  BY DEF ListInv
<1> QED BY <1>1, ListCorrect, PTL
-------------------------------------------------------------------------------
(* The data.  Flow holds whatever goes wrong: what a peer of a backup sent *)
(* is in the socket or in the object's writer; only clients that have been *)
(* ended are done; and a result is the last thing there is.                *)
AllCounted ==
    OpType = "backup" =>
        \A c \in Clients :
            sock[c] \in {"none", "backlog", "open"} => moved[c] + queue[c] = sent[c]

DoneIsClosed == \A c \in Clients : status[c] = "done" => sock[c] = "closed"

ResultIsLast == pc # "returned" => result = "none"

Flow == AllCounted /\ DoneIsClosed /\ ResultIsLast

(* A step that ends no client.                                             *)
Carries ==
    /\ Closed' = Closed
    /\ state'.successCount = state.successCount
    /\ \A x \in Clients : sock[x] \in {"none", "backlog"} \/ sock'[x] = sock[x]
    /\ \A x \in Closed :
          moved'[x] = moved[x] /\ sent'[x] = sent[x] /\ file'[x] = file[x]
    /\ \A x \in Clients : status'[x] \in {status[x], "init"}
    /\ object' = object \/ result' = "false"
    /\ result = "false" => result' = "false"

(* A step that ends c, and what is known of c then: the end of its stream  *)
(* comes when its buffer is empty, the end of the object when all of it    *)
(* has been read or the rest is given up, a hang-up gives up what is left, *)
(* and a failed write is never the end of a stream.                        *)
Reason(c, eof, mask, how) ==
    /\ eof => mask # "hup"
    /\ eof /\ OpType = "backup" => queue[c] = 0
    /\ eof /\ OpType = "restore" => how = HowCut(c)
    /\ mask = "hup" => how = HowCut(c)
    /\ how = "broken" => ~eof /\ mask = "in"
    /\ how = "closed" /\ OpType = "backup" => queue[c] = 0 \/ pc = "closing"

Finishes(c, eof, mask, how) ==
    /\ sock[c] = "open"
    /\ EndClient(c, eof, mask, how)
    /\ Reason(c, eof, mask, how)
    /\ UNCHANGED <<peer, sent, moved, result>>

Finished == \E c \in Clients, eof \in BOOLEAN, mask \in Masks, how \in Ways :
                Finishes(c, eof, mask, how)

LEMMA FlowKinds ==
    ASSUME EventInv, ListInv, Flow, [Next]_vars
    PROVE  Carries \/ Finished
<1>0. TypeOK /\ OpOK /\ EventsAreLive /\ IdleNone
  BY DEF EventInv, TypeInv, Events, ListInv
<1> DEFINE Quiet == UNCHANGED <<state, sock, status, file, moved, sent, object, result>>
<1>1. ASSUME Quiet PROVE Carries
  BY <1>1 DEF Carries, Closed
<1>2. ASSUME NEW c \in Clients, Peer(c) PROVE Carries
  <2>1. CASE PeerConnect(c)
    BY <1>0, <2>1 DEF PeerConnect, Carries, Closed, TypeOK, IdleNone
  <2>2. CASE PeerSend(c)
    BY <1>0, <2>2 DEF PeerSend, Connected, Carries, Closed, TypeOK, clientVars
  <2>3. CASE PeerReceive(c) \/ PeerClose(c) \/ PeerReset(c)
    BY <1>1, <2>3 DEF PeerReceive, PeerClose, PeerReset, clientVars, peerVars
  <2> QED BY <1>2, <2>1, <2>2, <2>3 DEF Peer
<1>3. CASE Listen \/ CreateEpoll \/ EpollWait \/ EpollTimeout \/ TestExit \/ EpollError
  BY <1>1, <1>3 DEF Listen, CreateEpoll, EpollWait, EpollTimeout, TestExit, EpollError, clientVars, peerVars
<1>4. CASE Return
  <2>1. /\ result = "none" /\ UNCHANGED <<state, status, file, moved, sent, object>>
        /\ sock' = [c \in Clients |-> IF c \in Backlog THEN "dropped" ELSE sock[c]]
    BY <1>4 DEF Return, Flow, ResultIsLast, peerVars
  <2>2. \A x \in Clients : sock'[x] = sock[x] \/ (sock[x] = "backlog" /\ sock'[x] = "dropped")
    BY <2>1 DEF Backlog
  <2>3. Closed' = Closed
    BY <2>2 DEF Closed
  <2> QED BY <2>1, <2>2, <2>3 DEF Carries
<1>5. CASE ReturnFalse
  BY <1>5 DEF ReturnFalse, Carries, Closed, clientVars, peerVars
<1>6. ASSUME NEW c \in Clients, AcceptClient(c)
      PROVE  Carries
  <2>1. sock[c] = "backlog" /\ UNCHANGED <<object, result, sent>>
    BY <1>6 DEF AcceptClient, Backlog, peerVars
  <2>2. CASE Admit(c)
    <3>1. state'.successCount = state.successCount
      BY <2>2 DEF Admit, AppendToClientList
    <3>2. Closed' = Closed
      BY <1>0, <2>1, <2>2 DEF Admit, Closed, TypeOK
    <3>3. \A x \in Closed : x # c /\ file'[x] = file[x]
      BY <1>0, <2>1, <2>2 DEF Admit, Closed, TypeOK
    <3> QED BY <1>0, <2>1, <2>2, <3>1, <3>2, <3>3 DEF Admit, Carries, TypeOK
  <2>3. CASE AcceptFails
    BY <1>1, <2>1, <2>3 DEF AcceptFails, clientVars
  <2>4. CASE Refuse(c)
    BY <1>0, <2>1, <2>4 DEF Refuse, CreateFails, RegisterFails, Carries, Closed, TypeOK
  <2>5. CASE Leak(c)
    BY <1>0, <2>1, <2>5 DEF Leak, Carries, Closed, TypeOK
  <2> QED BY <1>6, <2>2, <2>3, <2>4, <2>5 DEF AcceptClient
<1>7. ASSUME NEW c \in Clients, StartRead(c) PROVE Carries
  BY <1>1, <1>7 DEF StartRead, clientVars, peerVars
<1>8. ASSUME NEW c \in Clients, ReadChunk(c)
      PROVE  Carries \/ Finished
  <2>1. sock[c] = "open" /\ UNCHANGED <<peer, sent, result>>
    BY <1>0, <1>8 DEF ReadChunk, EventsAreLive, Open, peerVars
  <2>2. CASE moved' = [moved EXCEPT ![c] = @ + 1] /\ UNCHANGED <<state, sock, status, file, object>>
    BY <1>0, <2>1, <2>2 DEF Carries, Closed, TypeOK
  <2>3. CASE EndClient(c, FALSE, "in", "broken") /\ moved' = moved
    <3>1. Finishes(c, FALSE, "in", "broken")
      BY <1>0, <1>8, <2>1, <2>3 DEF Finishes, Reason, ReadChunk, TypeOK
    <3> QED BY <3>1 DEF Finished, Masks, Ways
  <2> QED BY <1>8, <2>2, <2>3 DEF ReadChunk
<1>9. ASSUME NEW c \in Clients, ReadReturns(c)
      PROVE  Carries \/ Finished
  <2>1. sock[c] = "open" /\ queue[c] = 0 /\ OpType = "backup" /\ UNCHANGED <<peer, sent, result, queue>>
    BY <1>0, <1>9 DEF ReadReturns, EventsAreLive, Open, OpOK, peerVars
  <2>2. CASE UNCHANGED <<state, clientVars, object>>
    BY <1>1, <2>1, <2>2 DEF clientVars
  <2>3. CASE EndClient(c, TRUE, "in", "closed") /\ moved' = moved
    <3>1. Finishes(c, TRUE, "in", "closed")
      BY <2>1, <2>3 DEF Finishes, Reason
    <3> QED BY <3>1 DEF Finished, Masks, Ways
  <2>4. CASE EndClient(c, FALSE, "in", "closed") /\ moved' = moved
    <3>1. Finishes(c, FALSE, "in", "closed")
      BY <2>1, <2>4 DEF Finishes, Reason
    <3> QED BY <3>1 DEF Finished, Masks, Ways
  <2> QED BY <1>9, <2>2, <2>3, <2>4 DEF ReadReturns, AfterEmptyRead
<1>10. ASSUME NEW c \in Clients, HandleWrite(c)
       PROVE  Carries \/ Finished
  <2>1. sock[c] = "open" /\ OpType = "restore" /\ UNCHANGED <<peer, sent, result, queue>>
    BY <1>0, <1>10 DEF HandleWrite, EventsAreLive, OpOK, peerVars
  <2>2. CASE moved' = [moved EXCEPT ![c] = @ + 1] /\ UNCHANGED <<state, sock, status, file, object>>
    BY <1>0, <2>1, <2>2 DEF Carries, Closed, TypeOK
  <2>3. CASE EndClient(c, TRUE, "out", HowCut(c)) /\ moved' = moved
    <3>1. Finishes(c, TRUE, "out", HowCut(c))
      BY <2>1, <2>3, CutIsAWay, OpTypeAssumption DEF Finishes, Reason, Ways, HowCut
    <3> QED BY <3>1, CutIsAWay DEF Finished, Masks
  <2> QED BY <1>10, <2>2, <2>3 DEF HandleWrite
<1>11. ASSUME NEW c \in Clients, SendData(c)
       PROVE  Carries \/ Finished
  <2>1. sock[c] = "open" /\ OpType = "restore" /\ UNCHANGED <<peer, sent, result>>
    BY <1>0, <1>11 DEF SendData, EventsAreLive, Open, OpOK, peerVars
  <2>2. CASE UNCHANGED <<state, clientVars, object>>
    BY <1>1, <2>1, <2>2 DEF clientVars
  <2>3. CASE EndClient(c, FALSE, "out", "closed") /\ UNCHANGED <<queue, moved>>
    <3>1. Finishes(c, FALSE, "out", "closed")
      BY <2>1, <2>3 DEF Finishes, Reason
    <3> QED BY <3>1 DEF Finished, Masks, Ways
  <2> QED BY <1>11, <2>2, <2>3 DEF SendData
<1>12. ASSUME NEW c \in Clients, HandleHup(c)
       PROVE  Finished
  <2>1. HowCut(c) # "broken" /\ (HowCut(c) = "closed" /\ OpType = "backup" => queue[c] = 0)
    BY <1>0 DEF HowCut, TypeOK
  <2>2. Finishes(c, FALSE, "hup", HowCut(c))
    BY <1>0, <1>12, <2>1 DEF HandleHup, EventsAreLive, Finishes, Reason, peerVars
  <2> QED BY <2>2, CutIsAWay DEF Finished, Masks
<1>13. ASSUME NEW c \in Clients, DisconnectClient(c)
       PROVE  Finished
  <2>1. sock[c] = "open"
    BY <1>0, <1>13, ListedClosed DEF DisconnectClient, MoreToDisconnect, ListInv, ListedAreOpen, Open
  <2>2. Finishes(c, FALSE, "none", "closed")
    BY <1>13, <2>1 DEF DisconnectClient, Finishes, Reason, peerVars
  <2> QED BY <2>2 DEF Finished, Masks, Ways
<1>14. CASE RequestExit
  BY <1>1, <1>14 DEF RequestExit, clientVars, peerVars
<1>15. CASE UNCHANGED vars
  BY <1>1, <1>15 DEF vars, clientVars, peerVars
<1> QED
  BY <1>2, <1>3, <1>4, <1>5, <1>6, <1>7, <1>8, <1>9, <1>10, <1>11, <1>12, <1>13, <1>14, <1>15
     DEF Next, Server

(* Finishing leaves no trace on the other clients.                         *)
LEMMA FinishesCloses ==
    ASSUME TypeOK, NEW c \in Clients, NEW eof, NEW mask, NEW how, Finishes(c, eof, mask, how)
    PROVE  /\ sock' = [sock EXCEPT ![c] = "closed"]
           /\ Closed' = Closed \cup {c}
           /\ c \notin Closed
           /\ \A x \in Clients : x # c => status'[x] = status[x] /\ file'[x] = file[x]
           /\ file'[c] \in {how, "lost"}
<1>1. sock' = [sock EXCEPT ![c] = "closed"] /\ sock[c] = "open"
  BY DEF Finishes, EndClient
<1>2. status' = [status EXCEPT ![c] = IF eof THEN "done" ELSE @]
  BY DEF Finishes, EndClient
<1>3. \E h \in {how, "lost"} : file' = [file EXCEPT ![c] = h]
  BY DEF Finishes, EndClient, Destroy
<1> QED BY <1>1, <1>2, <1>3 DEF TypeOK, Closed

LEMMA CountedNext ==
    ASSUME EventInv, ListInv, Flow, [Next]_vars
    PROVE  AllCounted'
<1>0. TypeOK /\ OpOK /\ IdleNone
  BY DEF EventInv, TypeInv, ListInv
<1> SUFFICES ASSUME OpType = "backup"
             PROVE  AllCounted'
  BY DEF AllCounted
<1> USE DEF AllCounted, Flow, TypeOK, peerVars, clientVars
<1>1. ASSUME NEW c \in Clients, Peer(c) PROVE AllCounted'
  <2>1. CASE PeerConnect(c)
    BY <1>0, <2>1 DEF PeerConnect, IdleNone
  <2>2. CASE PeerSend(c)
    BY <1>0, <2>2 DEF PeerSend
  <2>3. CASE PeerReceive(c)
    BY <2>3 DEF PeerReceive
  <2>4. CASE PeerClose(c) \/ PeerReset(c)
    BY <2>4 DEF PeerClose, PeerReset
  <2> QED BY <1>1, <2>1, <2>2, <2>3, <2>4 DEF Peer
<1>2. CASE UNCHANGED <<sock, moved, queue, sent>>
  BY <1>2
<1>3. CASE Listen \/ CreateEpoll \/ EpollWait \/ EpollTimeout \/ TestExit \/ EpollError \/ ReturnFalse
             \/ RequestExit \/ UNCHANGED vars
  BY <1>2, <1>3 DEF Listen, CreateEpoll, EpollWait, EpollTimeout, TestExit, EpollError, ReturnFalse, RequestExit, vars
<1>4. CASE Return
  BY <1>0, <1>4 DEF Return
<1>5. ASSUME NEW c \in Clients, AcceptClient(c) PROVE AllCounted'
  BY <1>0, <1>5 DEF AcceptClient, Admit, AcceptFails, Refuse, Leak, Backlog
<1>6. ASSUME NEW c \in Clients, StartRead(c) PROVE AllCounted'
  BY <1>2, <1>6 DEF StartRead
<1>7. ASSUME NEW c \in Clients, ReadChunk(c) PROVE AllCounted'
  <2>1. sent' = sent /\ queue' = [queue EXCEPT ![c] = @ - 1]
    BY <1>7 DEF ReadChunk
  <2>2. CASE sock' = sock /\ moved' = [moved EXCEPT ![c] = @ + 1]
    BY <1>0, <2>1, <2>2
  <2>3. CASE EndClient(c, FALSE, "in", "broken") /\ moved' = moved
    <3>1. sock' = [sock EXCEPT ![c] = "closed"]
      BY <2>3 DEF EndClient
    <3> QED BY <1>0, <2>1, <2>3, <3>1
  <2> QED BY <1>7, <2>2, <2>3 DEF ReadChunk
<1>8. ASSUME NEW c \in Clients, ReadReturns(c) PROVE AllCounted'
  <2>1. UNCHANGED <<queue, moved, sent>>
    BY <1>8 DEF ReadReturns, AfterEmptyRead
  <2>2. sock' \in {sock, [sock EXCEPT ![c] = "closed"]}
    BY <1>8 DEF ReadReturns, AfterEmptyRead, EndClient
  <2> QED BY <1>0, <2>1, <2>2
<1>9. ASSUME NEW c \in Clients, HandleWrite(c) \/ SendData(c) PROVE FALSE
  BY <1>0, <1>9 DEF HandleWrite, SendData, OpOK
<1>10. ASSUME NEW c \in Clients, HandleHup(c) \/ DisconnectClient(c) PROVE AllCounted'
  BY <1>0, <1>10 DEF HandleHup, DisconnectClient, EndClient
<1> QED BY <1>1, <1>3, <1>4, <1>5, <1>6, <1>7, <1>8, <1>9, <1>10 DEF Next, Server

LEMMA ResultNext ==
    ASSUME ResultIsLast, [Next]_vars
    PROVE  ResultIsLast'
BY DEF ResultIsLast, Next, Server, Peer, Listen, CreateEpoll, EpollWait, EpollTimeout, TestExit,
       EpollError, Return, ReturnFalse, AcceptClient, StartRead, ReadChunk, ReadReturns,
       HandleWrite, SendData, HandleHup, DisconnectClient, RequestExit, PeerConnect, PeerSend,
       PeerReceive, PeerClose, PeerReset, vars

FlowInv == EventInv /\ ListInv /\ Flow

LEMMA FlowNext ==
    ASSUME FlowInv, [Next]_vars
    PROVE  Flow'
<1>0. TypeOK /\ EventInv /\ ListInv /\ Flow
  BY DEF FlowInv, EventInv, TypeInv
<1>1. DoneIsClosed'
  <2>1. CASE Carries
    BY <1>0, <2>1 DEF Carries, Flow, DoneIsClosed
  <2>2. CASE Finished
    <3>1. PICK c \in Clients, eof \in BOOLEAN, mask \in Masks, how \in Ways : Finishes(c, eof, mask, how)
      BY <2>2 DEF Finished
    <3>2. /\ sock' = [sock EXCEPT ![c] = "closed"]
          /\ \A x \in Clients : x # c => status'[x] = status[x]
      BY <1>0, <3>1, FinishesCloses
    <3> QED BY <1>0, <3>2 DEF Flow, DoneIsClosed, TypeOK
  <2> QED BY <1>0, <2>1, <2>2, FlowKinds
<1> QED BY <1>0, <1>1, CountedNext, ResultNext DEF Flow

LEMMA FlowCorrect == Spec => []FlowInv
<1>1. Init => Flow
  BY DEF Init, Flow, AllCounted, DoneIsClosed, ResultIsLast
<1>2. EventInv /\ ListInv /\ Flow /\ [Next]_vars => Flow'
  BY FlowNext DEF FlowInv
<1> QED BY <1>1, <1>2, EventCorrect, ListCorrect, PTL DEF Spec, FlowInv

-------------------------------------------------------------------------------
(* The counter of successes.  A client that is counted as a success met    *)
(* the end of its stream or of the object, or its peer hung up; all of its *)
(* data was moved by then, or what was left has been given up: "cut".      *)
Accounted(c) == Whole(c) \/ file[c] \in {"cut", "lost"}

LEMMA SuccessIsAccounted ==
    ASSUME FlowInv, NEW c \in Clients, NEW eof \in BOOLEAN, NEW mask \in Masks, NEW how \in Ways,
           Finishes(c, eof, mask, how),
           CountsAsSuccess(c, eof, mask)
    PROVE  how # "broken" /\ (Whole(c) \/ how = "cut")
<1>0. TypeOK /\ Flow /\ sock[c] = "open" /\ Reason(c, eof, mask, how)
  BY DEF FlowInv, EventInv, TypeInv, Finishes
<1>1. status[c] # "done"
  BY <1>0 DEF Flow, DoneIsClosed
<1>2. eof \/ mask = "hup"
  BY <1>1 DEF CountsAsSuccess
<1>3. how # "broken"
  BY <1>0, <1>2 DEF Reason
<1>4. CASE OpType = "backup"
  <2>1. queue[c] = 0 \/ how = "cut"
    BY <1>0, <1>2, <1>4 DEF Reason, HowCut, TypeOK
  <2> QED BY <1>0, <1>3, <1>4, <2>1 DEF Flow, AllCounted, Whole, TypeOK
<1>5. CASE OpType = "restore"
  <2>1. how = HowCut(c)
    BY <1>0, <1>2, <1>5 DEF Reason
  <2>2. moved[c] = Chunks \/ how = "cut"
    <3>1. moved[c] \in 0..Chunks
      BY <1>0 DEF TypeOK
    <3>2. moved[c] = Chunks \/ moved[c] < Chunks
      BY <3>1, BoundsAssumption
    <3> QED BY <1>5, <2>1, <3>2 DEF HowCut
  <2> QED BY <1>3, <1>5, <2>2 DEF Whole
<1> QED BY <1>4, <1>5, OpTypeAssumption

SuccessInv == FlowInv /\ SuccessIsComplete

LEMMA SuccessNext ==
    ASSUME SuccessInv, [Next]_vars
    PROVE  SuccessIsComplete'
<1> DEFINE W == {c \in Closed : Accounted(c)}
<1>0. /\ TypeOK /\ FlowInv /\ EventInv /\ ListInv /\ Flow
      /\ state.successCount <= Cardinality(W) /\ state.successCount \in Nat
  BY DEF SuccessInv, FlowInv, EventInv, TypeInv, SuccessIsComplete, Accounted, TypeOK
<1>1. IsFiniteSet(W) /\ Cardinality(W) \in Nat
  BY OpenFinite, FS_Subset, FS_CardinalityType
<1> SUFFICES state'.successCount <= Cardinality(W')
  BY DEF SuccessIsComplete, Accounted
<1>2. CASE Carries
  <2>1. W' = W
    BY <1>2 DEF Carries, Accounted, Whole
  <2> HIDE DEF W
  <2> QED BY <1>0, <1>2, <2>1 DEF Carries
<1>3. CASE Finished
  <2>1. PICK c \in Clients, eof \in BOOLEAN, mask \in Masks, how \in Ways : Finishes(c, eof, mask, how)
    BY <1>3 DEF Finished
  <2>2. /\ Closed' = Closed \cup {c} /\ c \notin Closed /\ moved' = moved /\ sent' = sent
        /\ \A x \in Closed : file'[x] = file[x]
        /\ file'[c] \in {how, "lost"}
    <3>1. Closed \subseteq Clients
      BY DEF Closed
    <3> QED BY <1>0, <2>1, <3>1, FinishesCloses DEF Finishes
  <2>3. state'.successCount = state.successCount + IF CountsAsSuccess(c, eof, mask) THEN 1 ELSE 0
    BY <2>1 DEF Finishes, EndClient
  <2>4. \A x : Whole(x)' <=> Whole(x)
    BY <2>2 DEF Whole
  <2>5. \A x \in Closed : Accounted(x)' <=> Accounted(x)
    BY <2>2, <2>4 DEF Accounted
  <2>6. CASE CountsAsSuccess(c, eof, mask)
    <3>1. Accounted(c)'
      BY <1>0, <2>1, <2>2, <2>4, <2>6, SuccessIsAccounted DEF Accounted
    <3>2. W' = W \cup {c} /\ c \notin W
      BY <2>2, <2>5, <3>1
    <3> HIDE DEF W
    <3>3. Cardinality(W') = Cardinality(W) + 1
      BY <1>1, <3>2, FS_AddElement
    <3>4. state'.successCount = state.successCount + 1
      BY <2>3, <2>6
    <3> QED BY <1>0, <1>1, <3>3, <3>4
  <2>7. CASE ~CountsAsSuccess(c, eof, mask)
    <3>1. W \subseteq W' /\ IsFiniteSet(W')
      <4>1. W \subseteq W' /\ W' \subseteq W \cup {c}
        BY <2>2, <2>5
      <4> HIDE DEF W
      <4>2. IsFiniteSet(W \cup {c})
        BY <1>1, FS_AddElement
      <4> QED BY <4>1, <4>2, FS_Subset
    <3> HIDE DEF W
    <3>2. Cardinality(W) <= Cardinality(W') /\ Cardinality(W') \in Nat
      BY <3>1, FS_Subset, FS_CardinalityType
    <3>3. state'.successCount = state.successCount
      BY <1>0, <2>3, <2>7
    <3> QED BY <1>0, <1>1, <3>2, <3>3
  <2> QED BY <2>6, <2>7
<1> QED BY <1>0, <1>2, <1>3, FlowKinds DEF SuccessInv

LEMMA SuccessCorrect == Spec => []SuccessInv
<1>1. Init => SuccessIsComplete
  <2> SUFFICES ASSUME Init PROVE SuccessIsComplete
    OBVIOUS
  <2>1. Closed = {} /\ state.successCount = 0
    BY DEF Init, Closed
  <2>2. {c \in Closed : Whole(c) \/ file[c] \in {"cut", "lost"}} = {}
    BY <2>1
  <2> QED BY <2>1, <2>2, FS_EmptySet DEF SuccessIsComplete
<1>2. FlowInv /\ SuccessIsComplete /\ [Next]_vars => SuccessIsComplete'
  BY SuccessNext DEF SuccessInv
<1> QED BY <1>1, <1>2, FlowCorrect, PTL DEF Spec, SuccessInv

(* Whatever fails and however peers leave, successCount counts only        *)
(* clients that were moved as a whole, or whose rest was given up at a     *)
(* hang-up or a failed read, or whose writer could not be closed.          *)
THEOREM SuccessesAreComplete == Spec => []SuccessIsComplete
<1>1. SuccessInv => SuccessIsComplete
  BY DEF SuccessInv
<1> QED BY <1>1, SuccessCorrect, PTL
-------------------------------------------------------------------------------
(* The object holds what the client whose writer was committed last moved. *)
Committed ==
    OpType = "backup" /\ result # "false" =>
        /\ state.successCount > 0 => object.by # Nil \/ \E c \in Closed : file[c] = "lost"
        /\ object.by = Nil => object = NoObject
        /\ object.by # Nil => /\ object.by \in Closed
                              /\ object.chunks = moved[object.by]
                              /\ file[object.by] # "lost"

LEMMA CommittedNext ==
    ASSUME SuccessInv, Committed, [Next]_vars
    PROVE  Committed'
<1>0. TypeOK /\ FlowInv /\ EventInv /\ ListInv /\ Flow
  BY DEF SuccessInv, FlowInv, EventInv, TypeInv
<1> SUFFICES ASSUME OpType = "backup", result' # "false"
             PROVE  Committed'
  BY DEF Committed
<1>1. CASE Carries
  <2>1. UNCHANGED <<object, Closed>> /\ result # "false" /\ state'.successCount = state.successCount
    BY <1>1 DEF Carries
  <2> QED BY <1>1, <2>1 DEF Carries, Committed, NoObject
<1>2. CASE Finished
  <2>1. PICK c \in Clients, eof \in BOOLEAN, mask \in Masks, how \in Ways : Finishes(c, eof, mask, how)
    BY <1>2 DEF Finished
  <2>2. /\ Closed' = Closed \cup {c} /\ c \notin Closed /\ moved' = moved /\ result' = result
        /\ \A x \in Closed : file'[x] = file[x]
    <3>1. Closed \subseteq Clients
      BY DEF Closed
    <3> QED BY <1>0, <2>1, <3>1, FinishesCloses DEF Finishes
  <2>3. state'.successCount = state.successCount + IF CountsAsSuccess(c, eof, mask) THEN 1 ELSE 0
    BY <2>1 DEF Finishes, EndClient
  <2>4. Committed
    OBVIOUS
  <2>5. CASE how # "broken" /\ file'[c] = how /\ object' = [by |-> c, chunks |-> moved[c]]
    BY <2>2, <2>5, ClientsAssumption DEF Committed, Ways
  <2>6. CASE how # "broken" /\ file'[c] = "lost" /\ object' = object
    BY <2>2, <2>4, <2>6 DEF Committed, NoObject
  <2>7. CASE how = "broken" /\ object' = object
    <3>1. ~CountsAsSuccess(c, eof, mask)
      BY <1>0, <2>1, <2>7, SuccessIsAccounted
    <3>2. state'.successCount = state.successCount
      BY <1>0, <2>3, <3>1 DEF TypeOK
    <3> QED BY <2>2, <2>4, <2>7, <3>2 DEF Committed, NoObject
  <2>8. \/ how # "broken" /\ file'[c] = how /\ object' = [by |-> c, chunks |-> moved[c]]
        \/ how # "broken" /\ file'[c] = "lost" /\ object' = object
        \/ how = "broken" /\ object' = object
    BY <1>0, <2>1 DEF Finishes, EndClient, Destroy, TypeOK
  <2> QED BY <2>5, <2>6, <2>7, <2>8
<1> QED BY <1>0, <1>1, <1>2, FlowKinds

(* With no failures counted every client that ended is a success, so all   *)
(* of them are accounted for, and so is the object's writer.               *)
LEMMA AllSucceeded ==
    ASSUME SuccessInv, state.failedCount = 0, NEW c \in Closed
    PROVE  Accounted(c)
<1> DEFINE W == {x \in Closed : Accounted(x)}
<1>0. /\ TypeOK /\ state.successCount <= Cardinality(W)
      /\ state.successCount + state.failedCount = Cardinality(Closed)
  BY DEF SuccessInv, FlowInv, EventInv, TypeInv, SuccessIsComplete, Accounted, ListInv, CountedOnce
<1>1. W \subseteq Closed /\ IsFiniteSet(Closed)
  BY OpenFinite
<1> HIDE DEF W
<1>2. IsFiniteSet(W) /\ Cardinality(W) <= Cardinality(Closed) /\ Cardinality(W) \in Nat /\ Cardinality(Closed) \in Nat
  BY <1>1, FS_Subset, FS_CardinalityType
<1>3. Cardinality(W) = Cardinality(Closed)
  BY <1>0, <1>2 DEF TypeOK
<1>4. W = Closed
  BY <1>1, <1>3, FS_Subset
<1> QED BY <1>4 DEF W

(* When Upload returns true with a success and no failure, the bucket      *)
(* holds all that one of the peers sent, or all but what was unread when   *)
(* it hung up; and it holds an object unless the close of a writer failed. *)
THEOREM UploadIsWhole == Spec => []UploadedWhole
<1>1. Init => Committed
  BY DEF Init, Committed, NoObject
<1>2. SuccessInv /\ Committed /\ [Next]_vars => Committed'
  BY CommittedNext
<1>3. SuccessInv /\ Committed => UploadedWhole
  <2> SUFFICES ASSUME SuccessInv, Committed, result = "true", OpType = "backup",
                      state.failedCount = 0, state.successCount > 0
               PROVE  /\ object = NoObject => \E c \in Clients : file[c] = "lost"
                      /\ object # NoObject =>
                             object.chunks = sent[object.by] \/ file[object.by] = "cut"
    BY DEF UploadedWhole
  <2>1. CASE object = NoObject
    BY <2>1 DEF Committed, NoObject, Closed
  <2>2. CASE object # NoObject
    <3>1. object.by \in Closed /\ object.chunks = moved[object.by] /\ file[object.by] # "lost"
      BY <2>2 DEF Committed
    <3>2. Accounted(object.by)
      BY <3>1, AllSucceeded
    <3> QED BY <2>2, <3>1, <3>2 DEF Accounted, Whole
  <2> QED BY <2>1, <2>2
<1> QED BY <1>1, <1>2, <1>3, SuccessCorrect, PTL DEF Spec
===============================================================================
