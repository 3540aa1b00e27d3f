--------------------------- MODULE CstorBackup_proofs ---------------------------
(***************************************************************************)
(* Machine-checked proofs about CstorBackup, for any number of volumes and *)
(* any set of faults.                                                      *)
(*                                                                         *)
(* PollInv relates the goroutine of a call, the status it has stored and   *)
(* the agent it has seen stop; it holds whatever fails.  OrderInv is about *)
(* the faults that leave nobody at work when a call has returned: then     *)
(* only the goroutine of the current call stops its server, and the stream *)
(* of the volume is in the object before the server stops.                 *)
(***************************************************************************)
EXTENDS CstorBackup, TLAPS

Past == {"exit", "cleanup", "finished"}

(* A backup is being made: nothing has been deleted yet.                   *)
Making == call < Calls \/ step # "idle"

CallIsOfVolume == step # "idle" => call \in Volumes

(* The resource and the goroutine of a call are made by its request.       *)
MadeByRequest ==
    \A v \in Volumes :
        poll[v] # "none" \/ api[v] # "none" =>
            v <= call /\ (v = call => step \notin {"pvc", "post"})

(* An agent starts with a resource, and has stopped when the status of it  *)
(* is final.                                                               *)
AgentHasResource == Making => \A v \in Volumes : agent[v] # "idle" => api[v] # "none"

FinalIsStopped == \A v \in Volumes : api[v] \in Final => agent[v] = "stopped"

StreamHasAgent ==
    \A v \in Volumes :
        /\ stream[v] = "open" => agent[v] = "sending" /\ to[v] # 0
        /\ agent[v] = "idle" => stream[v] = "none"

(* What a goroutine has stored when it stops polling.                      *)
PastIsFinal == \A v \in Volumes : poll[v] \in Past => agent[v] = "stopped" /\ bkpStatus[v] \in Final

StoredIsCurrent == Making => \A v \in Volumes : poll[v] \in Past => api[v] = bkpStatus[v]

CleanedIsFinished == \A v \in Volumes : cleaned[v] # "none" => poll[v] = "finished"

DeletedAtEnd == Making => \A v \in Volumes : del[v] = "none"

PvcComesFirst == step \in {"post", "upload"} /\ ~local => call \in pvcs

PollInv ==
    /\ TypeOK /\ CallIsOfVolume /\ MadeByRequest
    /\ AgentHasResource /\ FinalIsStopped /\ StreamHasAgent
    /\ PastIsFinal /\ StoredIsCurrent /\ CleanedIsFinished
    /\ DeletedAtEnd /\ PvcComesFirst

(* Upload ends by itself only.                                             *)
NoFailure ==
    /\ ~bound /\ phase # "failed"
    /\ step = "upload" /\ phase = "returned" => result = "true"

(* Whoever belongs to another call has nothing left to do with the server. *)
Current(v) == v = call /\ step = "upload"

OthersAreQuiet ==
    \A v \in Volumes :
        /\ poll[v] \in {"none", "cleanup", "finished"} \/ Current(v)
        /\ agent[v] \in {"idle", "stopped"} \/ Current(v)
        /\ to[v] \in {0, v}

(* The server is stopped by the goroutine of its own call.                 *)
StoppedByOwn ==
    /\ step \in {"pvc", "post"} /\ ~local => ~exitServer
    /\ step = "upload" =>
          /\ exitServer => poll[call] \in {"cleanup", "finished"}
          /\ phase = "closing" \/ result = "true" => exitServer
          /\ phase = "starting" => agent[call] = "idle"

(* What has been sent is waited for, or is the object.                     *)
SentArrives ==
    step = "upload" /\ (agent[call] = "sent" \/ api[call] = "done") =>
        \/ /\ stream[call] = "fin" /\ to[call] = call
           /\ (waiting /\ phase \in {"serving", "leaving"}) \/ phase = "closing"
        \/ stream[call] = "taken" /\ object = [of |-> call, whole |-> TRUE]
        \/ stream[call] \in {"cut", "missed"}

OrderParts ==
    /\ NoFailure /\ OthersAreQuiet /\ StoppedByOwn /\ SentArrives
    /\ IdMeansObject

OrderInv == Orderly => OrderParts

-------------------------------------------------------------------------------
LEMMA PollStarts == Init => PollInv
<1> SUFFICES ASSUME Init PROVE PollInv
  OBVIOUS
<1>1. TypeOK
  <2>1. {waiting, exitServer, bound, local} \subseteq BOOLEAN
    BY DEF Init
  <2>2. call \in 0..Calls /\ to \in [Volumes -> 0..Calls]
    BY CallsAssumption DEF Init
  <2>3. object \in Objects /\ bucket \in [Volumes -> Objects]
    BY DEF Init, Objects
  <2> QED BY <2>1, <2>2, <2>3 DEF Init, TypeOK
<1>2. CallIsOfVolume /\ MadeByRequest /\ AgentHasResource /\ PvcComesFirst /\ DeletedAtEnd
  BY DEF Init, CallIsOfVolume, MadeByRequest, AgentHasResource, PvcComesFirst, DeletedAtEnd
<1>3. FinalIsStopped /\ StreamHasAgent /\ PastIsFinal /\ StoredIsCurrent /\ CleanedIsFinished
  BY DEF Init, FinalIsStopped, StreamHasAgent, PastIsFinal, StoredIsCurrent, CleanedIsFinished, Past, Final
<1> QED BY <1>1, <1>2, <1>3 DEF PollInv

-------------------------------------------------------------------------------
(* Types, one group of actions after another.                              *)

LEMMA CallTypes ==
    ASSUME TypeOK, CallIsOfVolume, CreateSnapshot \/ BackupPVC \/ SendBackupRequest \/ UploadReturns,
           UNCHANGED del
    PROVE  TypeOK' /\ CallIsOfVolume'
<1> USE CallsAssumption DEF TypeOK, CallIsOfVolume, Returns, Volumes
<1>1. CASE CreateSnapshot
  <2>1. exitServer' \in BOOLEAN
    BY <1>1 DEF CreateSnapshot
  <2>2. call' \in 0..Calls /\ call' \in Volumes
    BY <1>1 DEF CreateSnapshot
  <2>3. step' \in {"pvc", "post"}
    BY <1>1 DEF CreateSnapshot
  <2> QED BY <1>1, <2>1, <2>2, <2>3 DEF CreateSnapshot, uploadVars, pollVars, agentVars, Objects
<1>2. CASE BackupPVC
  <2>1. UNCHANGED <<phase, waiting, object, result, bound, exitServer, local, kind, call, bucket, api,
                    bkpStatus, poll, cleaned, agent, stream, to>>
    BY <1>2 DEF BackupPVC, uploadVars, pollVars, agentVars
  <2>2. /\ pvcs' \in SUBSET Volumes /\ step' \in {"idle", "post"}
        /\ ret' \in [Volumes -> {"none", "id", "error"}]
    <3>1. ret \in [Volumes -> {"none", "id", "error"}] /\ pvcs \in SUBSET Volumes /\ call \in Volumes
      BY <1>2 DEF BackupPVC
    <3>2. \/ pvcs' = pvcs \cup {call} /\ step' = "post" /\ ret' = ret
          \/ pvcs' = pvcs /\ step' = "idle" /\ ret' = [ret EXCEPT ![call] = "error"]
      BY <1>2 DEF BackupPVC
    <3> HIDE DEF TypeOK, Volumes
    <3> QED BY <3>1, <3>2
  <2>3. step # "idle"
    BY <1>2 DEF BackupPVC
  <2> QED BY <2>1, <2>2, <2>3 DEF Objects
<1>3. CASE SendBackupRequest
  <2>1. /\ UNCHANGED <<exitServer, local, kind, call, pvcs, bucket, bkpStatus, cleaned, agent, stream, to>>
        /\ step' \in {"idle", "upload"}
        /\ ret' \in [Volumes -> {"none", "id", "error"}]
    <3>1. UNCHANGED <<exitServer, local, kind, call, pvcs, bucket, bkpStatus, cleaned, agent, stream, to>>
      BY <1>3 DEF SendBackupRequest, agentVars
    <3>2. ret \in [Volumes -> {"none", "id", "error"}]
      OBVIOUS
    <3>3. /\ step' \in {"idle", "upload"}
          /\ ret' = ret \/ ret' = [ret EXCEPT ![call] = "id"] \/ ret' = [ret EXCEPT ![call] = "error"]
      BY <1>3 DEF SendBackupRequest
    <3> HIDE DEF TypeOK, Volumes
    <3> QED BY <3>1, <3>2, <3>3
  <2>2. /\ api' \in [Volumes -> {"none", "init", "done", "failed"}]
        /\ poll' \in [Volumes -> {"none", "polling", "exit", "cleanup", "finished"}]
    BY <1>3 DEF SendBackupRequest
  <2>3. /\ phase' \in {"starting", "serving", "leaving", "closing", "failed", "returned"}
        /\ {waiting', bound'} \subseteq BOOLEAN /\ object' \in Objects
        /\ result' \in {"none", "true", "false"}
    <3>1. \/ UNCHANGED uploadVars
          \/ /\ phase' = "starting" /\ waiting' = FALSE
             /\ object' = NoContent /\ result' = "none" /\ bound' = bound
      BY <1>3 DEF SendBackupRequest
    <3>2. /\ phase \in {"starting", "serving", "leaving", "closing", "failed", "returned"}
          /\ waiting \in BOOLEAN /\ bound \in BOOLEAN /\ object \in Objects
          /\ result \in {"none", "true", "false"}
      OBVIOUS
    <3>3. NoContent \in Objects
      BY DEF Objects
    <3> HIDE DEF TypeOK
    <3> QED BY <3>1, <3>2, <3>3 DEF uploadVars
  <2> QED BY <1>3, <2>1, <2>2, <2>3 DEF SendBackupRequest, Objects
<1>4. CASE UploadReturns
  <2>1. UNCHANGED <<phase, waiting, object, result, bound, exitServer, local, kind, call, pvcs, api,
                    bkpStatus, poll, cleaned, agent, stream, to>>
    BY <1>4 DEF UploadReturns, uploadVars, pollVars, agentVars
  <2>2. /\ step' = "idle" /\ bucket' = [bucket EXCEPT ![call] = object]
        /\ ret' = [ret EXCEPT ![call] = "id"] \/ ret' = [ret EXCEPT ![call] = "error"]
    BY <1>4 DEF UploadReturns
  <2>3. ret' \in [Volumes -> {"none", "id", "error"}] /\ bucket' \in [Volumes -> Objects]
    <3>1. ret \in [Volumes -> {"none", "id", "error"}] /\ bucket \in [Volumes -> Objects] /\ object \in Objects
      OBVIOUS
    <3> HIDE DEF TypeOK, Volumes
    <3> QED BY <2>2, <3>1
  <2> QED BY <2>1, <2>2, <2>3
<1> QED BY <1>1, <1>2, <1>3, <1>4

(* The server ends streams, and begins none.                               *)
LEMMA StreamMoves ==
    ASSUME TypeOK, Upload
    PROVE  /\ stream' \in [Volumes -> {"none", "open", "fin", "taken", "cut", "lost", "missed"}]
           /\ \A v \in Volumes :
                 stream'[v] = stream[v] \/ (stream[v] \in {"open", "fin"} /\ stream'[v] # "open")
           /\ to' = to
<1> USE DEF TypeOK, agentVars
<1>1. CASE Listen \/ TimeOut \/ TestExit \/ Return \/ Fail
  BY <1>1 DEF Listen, TimeOut, TestExit, Return, Fail
<1>2. CASE ReturnFalse
  BY <1>2 DEF ReturnFalse, LoseStreams, ConnectedTo
<1>3. ASSUME NEW v \in Volumes, Take(v) \/ Disconnect(v)
      PROVE  /\ stream[v] \in {"open", "fin"} /\ to' = to
             /\ \E s \in {"taken", "cut", "lost", "missed"} : stream' = [stream EXCEPT ![v] = s]
  BY <1>3 DEF Take, Disconnect, ConnectedTo
<1> QED BY <1>1, <1>2, <1>3 DEF Upload

LEMMA UploadTypes ==
    ASSUME TypeOK, CallIsOfVolume, Upload, UNCHANGED del
    PROVE  TypeOK' /\ CallIsOfVolume'
<1>1. UNCHANGED <<callVars, api, pollVars, exitServer, agent>>
  BY DEF Upload, UploadStep, Listen, TimeOut, TestExit, Return, Fail, ReturnFalse, Take, Disconnect, agentVars,
     Server!Listen, Server!TimeOut, Server!Stay, Server!Close, Server!Return, Server!Fail, Server!ReturnFalse, Server!Take
<1>2. /\ phase' \in {"starting", "serving", "leaving", "closing", "failed", "returned"}
      /\ result' \in {"none", "true", "false"}
      /\ waiting' \in BOOLEAN
  BY DEF TypeOK, Upload, UploadStep, Listen, TimeOut, TestExit, Return, Fail, ReturnFalse, Take, Disconnect, agentVars,
     Server!Listen, Server!TimeOut, Server!Stay, Server!Close, Server!Return, Server!Fail, Server!ReturnFalse, Server!Take
<1>3. bound' \in BOOLEAN
  BY DEF TypeOK, Upload, UploadStep, Listen, TimeOut, TestExit, Return, Fail, ReturnFalse, Take, Disconnect,
     Server!Listen, Server!TimeOut, Server!Stay, Server!Close, Server!Return, Server!Fail, Server!ReturnFalse, Server!Take
<1>4. object' \in Objects
  BY DEF TypeOK, Upload, Listen, TimeOut, TestExit, Return, Fail, ReturnFalse, Take, Disconnect, Objects,
     Server!Listen, Server!TimeOut, Server!Stay, Server!Close, Server!Return, Server!Fail, Server!ReturnFalse, Server!Take
<1>5. stream' \in [Volumes -> {"none", "open", "fin", "taken", "cut", "lost", "missed"}] /\ to' = to
  BY StreamMoves
<1> QED BY <1>1, <1>2, <1>3, <1>4, <1>5 DEF TypeOK, CallIsOfVolume, callVars, pollVars, Objects, Volumes

LEMMA PollTypes ==
    ASSUME TypeOK, CallIsOfVolume, NEW k \in Volumes, CheckBackupStatus(k), UNCHANGED del
    PROVE  TypeOK' /\ CallIsOfVolume'
<1> USE DEF TypeOK, CallIsOfVolume, PollStep, uploadVars, callVars, agentVars, Objects, Volumes
<1>1. CASE PollStatus(k)
  BY <1>1 DEF PollStatus
<1>2. CASE PollExit(k)
  BY <1>2 DEF PollExit
<1>3. CASE CleanupCompletedBackup(k)
  <2>1. Targeted(k) \in {"none", "own", "previous"}
    BY DEF Targeted
  <2> QED BY <1>3, <2>1 DEF CleanupCompletedBackup
<1> QED BY <1>1, <1>2, <1>3 DEF CheckBackupStatus

LEMMA AgentTypes ==
    ASSUME TypeOK, CallIsOfVolume, NEW v \in Volumes, Agent(v), UNCHANGED del
    PROVE  TypeOK' /\ CallIsOfVolume'
<1> USE DEF TypeOK, CallIsOfVolume, AgentStep, callVars, pollVars, Objects, Volumes
<1>1. CASE AgentConnects(v)
  BY <1>1 DEF AgentConnects
<1>2. CASE AgentCloses(v)
  BY <1>2 DEF AgentCloses, Server!Arrive
<1>3. CASE AgentReports(v)
  BY <1>3 DEF AgentReports
<1>4. CASE AgentGivesUp(v)
  BY <1>4 DEF AgentGivesUp
<1> QED BY <1>1, <1>2, <1>3, <1>4 DEF Agent

LEMMA DeleteTypes ==
    ASSUME TypeOK, CallIsOfVolume, NEW v \in Volumes,
           DeleteSnapshot(v) \/ SendDeleteRequest(v) \/ Delete(v)
    PROVE  TypeOK' /\ CallIsOfVolume'
<1> USE DEF TypeOK, CallIsOfVolume, Deletes, DeleteStep, DeleteFails, uploadVars, pollVars, agentVars, Objects,
            Volumes
<1>1. CASE DeleteSnapshot(v)
  BY <1>1 DEF DeleteSnapshot
<1>2. CASE SendDeleteRequest(v)
  BY <1>2 DEF SendDeleteRequest
<1>3. CASE Delete(v)
  BY <1>3 DEF Delete
<1> QED BY <1>1, <1>2, <1>3

LEMMA TypeStep == TypeOK /\ CallIsOfVolume /\ [Next]_vars => TypeOK' /\ CallIsOfVolume'
<1>1. TypeOK /\ CallIsOfVolume /\ UNCHANGED vars => TypeOK' /\ CallIsOfVolume'
  BY DEF TypeOK, CallIsOfVolume, vars, makeVars, uploadVars, callVars, pollVars, agentVars, Objects, Volumes
<1> QED BY <1>1, CallTypes, UploadTypes, PollTypes, AgentTypes, DeleteTypes DEF Next, Call, Terminated

-------------------------------------------------------------------------------
(* What holds whatever fails.                                              *)

PollParts ==
    /\ MadeByRequest /\ AgentHasResource /\ FinalIsStopped /\ StreamHasAgent
    /\ PastIsFinal /\ StoredIsCurrent /\ CleanedIsFinished
    /\ DeletedAtEnd /\ PvcComesFirst

(* The call itself: it only makes the resource and the goroutine.          *)
LEMMA CallKeepsPoll ==
    ASSUME PollInv, CreateSnapshot \/ BackupPVC \/ SendBackupRequest \/ UploadReturns, UNCHANGED del
    PROVE  PollParts'
<1>0. TypeOK /\ CallIsOfVolume /\ call \in Int /\ call <= Calls
  BY CallsAssumption DEF PollInv, TypeOK
<1>1. CASE CreateSnapshot
  <2>1. /\ step = "idle" /\ call < Calls /\ call' = call + 1
        /\ step' = (IF local THEN "post" ELSE "pvc")
        /\ UNCHANGED <<local, pvcs, api, bkpStatus, poll, cleaned, agent, stream, to, del>>
    BY <1>1 DEF CreateSnapshot, pollVars, agentVars
  <2>2. MadeByRequest'
    BY <1>0, <2>1, CallsAssumption DEF PollInv, MadeByRequest, Volumes
  <2> QED BY <2>1, <2>2 DEF PollInv, PollParts, AgentHasResource, FinalIsStopped, StreamHasAgent, PastIsFinal,
       StoredIsCurrent, CleanedIsFinished, DeletedAtEnd, PvcComesFirst, Making
<1>2. CASE BackupPVC
  <2>1. /\ step = "pvc" /\ call' = call
        /\ (step' = "post" /\ pvcs' = pvcs \cup {call}) \/ (step' = "idle" /\ pvcs' = pvcs)
        /\ UNCHANGED <<local, api, bkpStatus, poll, cleaned, agent, stream, to, del>>
    BY <1>2 DEF BackupPVC, Returns, pollVars, agentVars
  <2>2. MadeByRequest'
    BY <2>1 DEF PollInv, MadeByRequest
  <2> QED BY <2>1, <2>2 DEF PollInv, PollParts, AgentHasResource, FinalIsStopped, StreamHasAgent, PastIsFinal,
       StoredIsCurrent, CleanedIsFinished, DeletedAtEnd, PvcComesFirst, Making
<1>3. CASE SendBackupRequest
  <2>1. /\ step = "post" /\ call' = call /\ call \in Volumes
        /\ step' \in {"idle", "upload"} /\ (step' = "upload" => ~local)
        /\ UNCHANGED <<local, pvcs, bkpStatus, cleaned, agent, stream, to, del>>
    BY <1>0, <1>3 DEF SendBackupRequest, Returns, agentVars, CallIsOfVolume
  <2>2. api' = api \/ api' = [api EXCEPT ![call] = "init"]
    BY <1>3 DEF SendBackupRequest
  <2>3. poll' = poll \/ poll' = [poll EXCEPT ![call] = "polling"]
    BY <1>3 DEF SendBackupRequest
  <2>4. poll[call] = "none" /\ api[call] = "none" /\ cleaned[call] = "none" /\ agent[call] = "idle"
    BY <2>1 DEF PollInv, MadeByRequest, CleanedIsFinished, AgentHasResource, Making
  <2>5. \A v \in Volumes :
          /\ v # call => api'[v] = api[v] /\ poll'[v] = poll[v]
          /\ api'[call] \in {"none", "init"} /\ poll'[call] \in {"none", "polling"}
    BY <1>0, <2>1, <2>2, <2>3, <2>4 DEF TypeOK
  <2>6. MadeByRequest'
    BY <1>0, <2>1, <2>5 DEF PollInv, MadeByRequest
  <2>7. AgentHasResource' /\ DeletedAtEnd' /\ StreamHasAgent' /\ PvcComesFirst'
    BY <2>1, <2>4, <2>5 DEF PollInv, AgentHasResource, DeletedAtEnd, StreamHasAgent, PvcComesFirst, Making
  <2>8. FinalIsStopped' /\ PastIsFinal' /\ CleanedIsFinished'
    BY <2>1, <2>4, <2>5 DEF PollInv, FinalIsStopped, PastIsFinal, CleanedIsFinished, Past, Final
  <2>9. StoredIsCurrent'
    BY <2>1, <2>5 DEF PollInv, StoredIsCurrent, Past, Making
  <2> QED BY <2>6, <2>7, <2>8, <2>9 DEF PollParts
<1>4. CASE UploadReturns
  <2>1. /\ step = "upload" /\ step' = "idle" /\ call' = call
        /\ UNCHANGED <<local, pvcs, api, bkpStatus, poll, cleaned, agent, stream, to, del>>
    BY <1>4 DEF UploadReturns, Returns, pollVars, agentVars
  <2>2. MadeByRequest'
    BY <2>1 DEF PollInv, MadeByRequest
  <2> QED BY <2>1, <2>2 DEF PollInv, PollParts, AgentHasResource, FinalIsStopped, StreamHasAgent, PastIsFinal,
       StoredIsCurrent, CleanedIsFinished, DeletedAtEnd, PvcComesFirst, Making
<1> QED BY <1>1, <1>2, <1>3, <1>4

(* The server moves streams on, none back to open.                         *)
LEMMA UploadKeepsPoll ==
    ASSUME PollInv, Upload, UNCHANGED del
    PROVE  PollParts'
<1>1. UNCHANGED <<callVars, api, pollVars, agent, to, del>>
  BY DEF Upload, UploadStep, Listen, TimeOut, TestExit, Return, Fail, ReturnFalse, Take, Disconnect, agentVars
<1>2. \A v \in Volumes :
        stream'[v] = stream[v] \/ (stream[v] \in {"open", "fin"} /\ stream'[v] # "open")
  BY StreamMoves DEF PollInv
<1> QED BY <1>1, <1>2 DEF PollInv, PollParts, MadeByRequest, AgentHasResource, FinalIsStopped, StreamHasAgent,
     PastIsFinal, StoredIsCurrent, CleanedIsFinished, DeletedAtEnd, PvcComesFirst, Making, callVars, pollVars

(* A goroutine stores what it has read before it goes on.                  *)
LEMMA GoroutineKeepsPoll ==
    ASSUME PollInv, NEW k \in Volumes, CheckBackupStatus(k), UNCHANGED del
    PROVE  PollParts'
<1>1. /\ UNCHANGED <<callVars, api, agent, stream, to, del>>
      /\ poll[k] # "none" /\ k <= call /\ (k = call => step \notin {"pvc", "post"})
  BY DEF CheckBackupStatus, PollStatus, PollExit, CleanupCompletedBackup, PollStep, agentVars, PollInv, MadeByRequest
<1>2. \A v \in Volumes : v # k =>
        poll'[v] = poll[v] /\ bkpStatus'[v] = bkpStatus[v] /\ cleaned'[v] = cleaned[v]
  BY DEF CheckBackupStatus, PollStatus, PollExit, CleanupCompletedBackup, PollInv, TypeOK
<1>3. /\ poll'[k] \in Past => agent[k] = "stopped" /\ bkpStatus'[k] \in Final /\ (Making => api[k] = bkpStatus'[k])
      /\ cleaned'[k] # "none" => poll'[k] = "finished"
  <2>1. CASE PollStatus(k)
    BY <2>1 DEF PollStatus, Completed, Past, PollInv, TypeOK, FinalIsStopped, CleanedIsFinished
  <2>2. CASE PollExit(k)
    BY <2>2 DEF PollExit, Past, PollInv, TypeOK, PastIsFinal, StoredIsCurrent, CleanedIsFinished
  <2>3. CASE CleanupCompletedBackup(k)
    BY <2>3 DEF CleanupCompletedBackup, Past, PollInv, TypeOK, PastIsFinal, StoredIsCurrent, CleanedIsFinished
  <2> QED BY <2>1, <2>2, <2>3 DEF CheckBackupStatus
<1>4. MadeByRequest' /\ AgentHasResource' /\ DeletedAtEnd' /\ StreamHasAgent' /\ PvcComesFirst' /\ FinalIsStopped'
  BY <1>1, <1>2 DEF PollInv, MadeByRequest, AgentHasResource, DeletedAtEnd, StreamHasAgent, PvcComesFirst,
     FinalIsStopped, Making, callVars
<1>5. PastIsFinal' /\ StoredIsCurrent' /\ CleanedIsFinished'
  BY <1>1, <1>2, <1>3 DEF PollInv, PastIsFinal, StoredIsCurrent, CleanedIsFinished, Making, callVars
<1> QED BY <1>4, <1>5 DEF PollParts

(* An agent that is at work has a resource whose status is not final.      *)
LEMMA AgentKeepsPoll ==
    ASSUME PollInv, NEW a \in Volumes, Agent(a), UNCHANGED del
    PROVE  PollParts'
<1>1. UNCHANGED <<callVars, pollVars, del>> /\ agent[a] # "stopped"
  BY DEF Agent, AgentConnects, AgentCloses, AgentReports, AgentGivesUp, AgentStep
<1>2. \A v \in Volumes : v # a => agent'[v] = agent[v] /\ stream'[v] = stream[v] /\ api'[v] = api[v] /\ to'[v] = to[v]
  BY DEF Agent, AgentConnects, AgentCloses, AgentReports, AgentGivesUp, PollInv, TypeOK
<1>3. /\ api'[a] = api[a] \/ (api'[a] \in Final /\ agent'[a] = "stopped")
      /\ stream'[a] = "open" => agent'[a] = "sending" /\ to'[a] # 0
      /\ agent'[a] # "idle"
      /\ agent[a] = "idle" => api[a] = "init"
  BY CallsAssumption DEF CallIsOfVolume, Volumes, Agent, AgentConnects, AgentCloses, AgentReports, AgentGivesUp, PollInv, TypeOK, StreamHasAgent, Final
<1>4. Making => api[a] # "none"
  BY <1>3 DEF PollInv, AgentHasResource
<1>5. api[a] \notin Final /\ poll[a] \notin Past
  BY <1>1 DEF PollInv, FinalIsStopped, PastIsFinal
<1>6. ~Making => a <= call /\ step = "idle"
  BY CallsAssumption DEF Making, PollInv, TypeOK, Volumes
<1>7. AgentHasResource' /\ FinalIsStopped' /\ StreamHasAgent'
  BY <1>1, <1>2, <1>3, <1>4, <1>5 DEF PollInv, AgentHasResource, FinalIsStopped, StreamHasAgent, Making, callVars, Final
<1>8. PastIsFinal' /\ StoredIsCurrent'
  BY <1>1, <1>2, <1>5 DEF PollInv, PastIsFinal, StoredIsCurrent, Making, callVars, pollVars
<1>9. CleanedIsFinished' /\ DeletedAtEnd' /\ PvcComesFirst'
  BY <1>1 DEF PollInv, CleanedIsFinished, DeletedAtEnd, PvcComesFirst, Making, callVars, pollVars
<1>10. MadeByRequest'
  <2>1. a <= call /\ (a = call => step \notin {"pvc", "post"})
    BY <1>4, <1>6 DEF PollInv, MadeByRequest
  <2> QED BY <1>1, <1>2, <2>1 DEF PollInv, MadeByRequest, callVars, pollVars
<1> QED BY <1>7, <1>8, <1>9, <1>10 DEF PollParts

(* Deletion begins when the backup has ended.                              *)
LEMMA DeletionKeepsPoll ==
    ASSUME PollInv, NEW d \in Volumes, DeleteSnapshot(d) \/ SendDeleteRequest(d) \/ Delete(d)
    PROVE  PollParts'
<1>1. UNCHANGED <<local, call, step, pvcs, pollVars, agent, stream, to>>
  BY DEF DeleteSnapshot, SendDeleteRequest, Delete, Deletes, pollVars, agentVars
<1>2. ~Making
  <2>1. CASE DeleteSnapshot(d)
    BY <2>1, CallsAssumption DEF DeleteSnapshot, Making
  <2>2. CASE del[d] # "none"
    BY <2>2 DEF PollInv, DeletedAtEnd
  <2> QED BY <2>1, <2>2 DEF SendDeleteRequest, Delete, Deletes
<1>3. \A v \in Volumes : api'[v] \in {"none", api[v]}
  BY DEF DeleteSnapshot, SendDeleteRequest, Delete, DeleteFails, PollInv, TypeOK
<1>4. MadeByRequest' /\ FinalIsStopped' /\ PastIsFinal' /\ CleanedIsFinished' /\ StreamHasAgent'
  BY <1>1, <1>3 DEF PollInv, MadeByRequest, FinalIsStopped, PastIsFinal, CleanedIsFinished, StreamHasAgent,
     pollVars, Final
<1>5. AgentHasResource' /\ StoredIsCurrent' /\ DeletedAtEnd' /\ PvcComesFirst'
  BY <1>1, <1>2 DEF PollInv, AgentHasResource, StoredIsCurrent, DeletedAtEnd, PvcComesFirst, Making
<1> QED BY <1>4, <1>5 DEF PollParts

LEMMA PollInductive == PollInv /\ [Next]_vars => PollInv'
<1> SUFFICES ASSUME PollInv, [Next]_vars PROVE PollParts'
  BY TypeStep DEF PollInv, PollParts
<1>1. CASE UNCHANGED vars
  BY <1>1 DEF PollInv, PollParts, MadeByRequest, AgentHasResource, FinalIsStopped, StreamHasAgent, PastIsFinal,
     StoredIsCurrent, CleanedIsFinished, DeletedAtEnd, PvcComesFirst, Making,
     vars, makeVars, callVars, pollVars, agentVars
<1> QED BY <1>1, CallKeepsPoll, UploadKeepsPoll, GoroutineKeepsPoll, AgentKeepsPoll, DeletionKeepsPoll
     DEF Next, Call, Terminated

LEMMA PollCorrect == Spec => []PollInv
BY PollStarts, PollInductive, PTL DEF Spec

(* The types of a backup.                                                  *)
THEOREM TypeCorrect == Spec => []TypeOK
BY PollCorrect, PTL DEF PollInv

(* Nothing is deleted under an agent that still sends it, whatever fails.  *)
THEOREM CleanedIsUnused == Spec => []NothingCleanedInUse
<1>1. PollInv => NothingCleanedInUse
  BY DEF PollInv, PastIsFinal, CleanedIsFinished, Past, NothingCleanedInUse
<1> QED BY <1>1, PollCorrect, PTL

-------------------------------------------------------------------------------
(* What holds when a call leaves nobody at work.                           *)

LEMMA OrderStarts == Init => OrderInv
BY DEF Init, OrderInv, OrderParts, NoFailure, OthersAreQuiet, StoppedByOwn, SentArrives, IdMeansObject

(* When its server has returned, the goroutine of a call has seen the      *)
(* agent stop, and stored the status it reported.                          *)
LEMMA OwnHasEnded ==
    ASSUME PollInv, OrderParts, step = "upload", phase = "closing" \/ phase = "returned"
    PROVE  /\ call \in Volumes /\ exitServer /\ poll[call] \in {"cleanup", "finished"}
           /\ agent[call] = "stopped" /\ stream[call] # "open"
           /\ bkpStatus[call] \in Final /\ api[call] = bkpStatus[call]
<1>1. call \in Volumes
  BY DEF PollInv, CallIsOfVolume
<1>2. exitServer /\ poll[call] \in {"cleanup", "finished"}
  BY DEF OrderParts, NoFailure, StoppedByOwn
<1> QED BY <1>1, <1>2 DEF PollInv, PastIsFinal, StoredIsCurrent, StreamHasAgent, Past, Making

LEMMA CallKeepsOrder ==
    ASSUME PollInv, Orderly, OrderParts,
           CreateSnapshot \/ BackupPVC \/ SendBackupRequest \/ UploadReturns, UNCHANGED del
    PROVE  OrderParts'
<1>0. TypeOK /\ CallIsOfVolume /\ MadeByRequest /\ PvcComesFirst
  BY DEF PollInv
<1>1. CASE CreateSnapshot
  <2>1. /\ step = "idle" /\ step' = (IF local THEN "post" ELSE "pvc")
        /\ exitServer' = (IF local THEN exitServer ELSE FALSE)
        /\ UNCHANGED <<uploadVars, faults, local, ret, pvcs, bucket, poll, agent, stream, to, del>>
    BY <1>1 DEF CreateSnapshot, pollVars, agentVars
  <2> QED BY <2>1 DEF OrderParts, NoFailure, OthersAreQuiet, Current, StoppedByOwn, SentArrives, IdMeansObject,
       Orderly, uploadVars
<1>2. CASE BackupPVC
  <2>1. /\ step = "pvc" /\ call' = call /\ call \in Volumes
        /\ (step' = "post" /\ pvcs' = pvcs \cup {call} /\ ret' = ret)
             \/ (step' = "idle" /\ pvcs' = pvcs /\ ret' = [ret EXCEPT ![call] = "error"])
        /\ UNCHANGED <<uploadVars, exitServer, faults, local, bucket, poll, agent, stream, to, del>>
    BY <1>0, <1>2 DEF BackupPVC, Returns, pollVars, agentVars, CallIsOfVolume
  <2>2. IdMeansObject'
    BY <1>0, <2>1 DEF OrderParts, IdMeansObject, TypeOK, Orderly
  <2> QED BY <2>1, <2>2 DEF OrderParts, NoFailure, OthersAreQuiet, Current, StoppedByOwn, SentArrives, uploadVars
<1>3. CASE SendBackupRequest
  <2>1. /\ step = "post" /\ call' = call /\ call \in Volumes
        /\ UNCHANGED <<exitServer, faults, local, pvcs, bucket, agent, to, stream, del>>
    BY <1>0, <1>3 DEF SendBackupRequest, pollVars, agentVars, CallIsOfVolume
  <2>2. agent[call] = "idle" /\ api[call] = "none" /\ poll[call] = "none"
    BY <1>0, <2>1 DEF PollInv, MadeByRequest, AgentHasResource, Making
  <2>3. CASE step' = "upload"
    <3>1. /\ ~local /\ phase' = "starting" /\ result' = "none" /\ UNCHANGED <<bound, ret>>
          /\ poll' = [poll EXCEPT ![call] = "polling"] /\ api' = [api EXCEPT ![call] = "init"]
      BY <1>3, <2>3 DEF SendBackupRequest, Returns
    <3>2. NoFailure' /\ SentArrives' /\ IdMeansObject'
      BY <1>0, <2>1, <2>2, <2>3, <3>1 DEF OrderParts, NoFailure, SentArrives, IdMeansObject, TypeOK, Orderly
    <3>3. OthersAreQuiet'
      <4>1. \A v \in Volumes : poll'[v] = poll[v] \/ v = call
        BY <1>0, <3>1 DEF TypeOK
      <4> QED BY <2>1, <2>3, <4>1 DEF OrderParts, OthersAreQuiet, Current
    <3>4. StoppedByOwn'
      BY <2>1, <2>2, <2>3, <3>1 DEF OrderParts, StoppedByOwn
    <3> QED BY <3>2, <3>3, <3>4 DEF OrderParts
  <2>4. CASE step' # "upload"
    <3>1. /\ step' = "idle" /\ UNCHANGED <<uploadVars, poll>>
          /\ ret' = [ret EXCEPT ![call] = "error"] \/ (local /\ ret' = [ret EXCEPT ![call] = "id"])
      BY <1>3, <2>4 DEF SendBackupRequest, Returns
    <3>2. IdMeansObject'
      BY <1>0, <2>1, <3>1 DEF OrderParts, IdMeansObject, TypeOK, Orderly
    <3> QED BY <2>1, <3>1, <3>2 DEF OrderParts, NoFailure, OthersAreQuiet, Current, StoppedByOwn, SentArrives,
         uploadVars
  <2> QED BY <2>3, <2>4
<1>4. CASE UploadReturns
  <2>1. /\ step = "upload" /\ phase = "returned" /\ step' = "idle" /\ call' = call
        /\ bucket' = [bucket EXCEPT ![call] = object]
        /\ ret' = [ret EXCEPT ![call] = IF result = "true" /\ bkpStatus[call] = "done" THEN "id" ELSE "error"]
        /\ UNCHANGED <<uploadVars, exitServer, faults, local, pvcs, poll, agent, stream, to, del>>
    BY <1>4 DEF UploadReturns, Returns, pollVars, agentVars
  <2>2. /\ call \in Volumes /\ poll[call] \in {"cleanup", "finished"} /\ agent[call] = "stopped"
        /\ api[call] = bkpStatus[call]
    BY <2>1, OwnHasEnded
  <2>3. bkpStatus[call] = "done" =>
          object = [of |-> call, whole |-> TRUE] \/ stream[call] \in {"cut", "missed"}
    BY <2>1, <2>2 DEF OrderParts, SentArrives
  <2>4. IdMeansObject'
    <3>1. \A v \in Volumes : v # call => bucket'[v] = bucket[v] /\ ret'[v] = ret[v]
      BY <1>0, <2>1 DEF TypeOK
    <3>2. ret'[call] = "id" => bkpStatus[call] = "done"
      BY <1>0, <2>1, <2>2 DEF TypeOK
    <3>3. bucket'[call] = object
      BY <1>0, <2>1, <2>2 DEF TypeOK
    <3>4. ~local => call \in pvcs
      BY <1>0, <2>1 DEF PvcComesFirst
    <3> QED BY <2>1, <2>3, <3>1, <3>2, <3>3, <3>4 DEF OrderParts, IdMeansObject, Orderly
  <2> QED BY <2>1, <2>2, <2>4 DEF OrderParts, NoFailure, OthersAreQuiet, Current, StoppedByOwn, SentArrives,
       uploadVars
<1> QED BY <1>1, <1>2, <1>3, <1>4

(* Only the volume of the call is connected to its server.                 *)
LEMMA OwnConnection ==
    ASSUME PollInv, OrderParts, step = "upload"
    PROVE  ConnectedTo(call) \subseteq {call}
BY DEF PollInv, CallIsOfVolume, OrderParts, OthersAreQuiet, ConnectedTo, Volumes

LEMMA UploadKeepsOrder ==
    ASSUME PollInv, Orderly, OrderParts, Upload, UNCHANGED del
    PROVE  OrderParts'
<1>0. /\ TypeOK /\ step = "upload" /\ call \in Volumes
      /\ NoFailure /\ StoppedByOwn /\ SentArrives
  BY DEF PollInv, CallIsOfVolume, OrderParts, Upload, UploadStep, Listen, TimeOut, TestExit, Return, Fail, ReturnFalse,
     Take, Disconnect
<1>1. UNCHANGED <<callVars, api, pollVars, exitServer, agent, to, del>>
  BY DEF Upload, UploadStep, Listen, TimeOut, TestExit, Return, Fail, ReturnFalse, Take, Disconnect, agentVars,
     Server!Listen, Server!TimeOut, Server!Stay, Server!Close, Server!Return, Server!Fail, Server!ReturnFalse, Server!Take
<1>2. OthersAreQuiet' /\ IdMeansObject'
  <2>1. \A v \in Volumes : stream[v] \in {"cut", "missed"} => stream'[v] = stream[v]
    BY <1>0, StreamMoves
  <2> QED BY <1>1, <2>1 DEF OrderParts, OthersAreQuiet, Current, IdMeansObject, Orderly, callVars, pollVars
<1>3. SUFFICES NoFailure' /\ StoppedByOwn' /\ SentArrives'
  BY <1>2 DEF OrderParts
<1>4. UNCHANGED <<step, call, local, poll>>
  BY <1>1 DEF callVars, pollVars
<1> USE <1>0, <1>1, <1>4 DEF NoFailure, StoppedByOwn, SentArrives
<1>5. CASE Listen
  BY <1>5 DEF Listen, Server!Listen, UploadStep, agentVars
<1>6. CASE TimeOut \/ TestExit
  <2>1. UNCHANGED <<bound, object, result, waiting, stream>>
    BY <1>6 DEF TimeOut, TestExit, Server!TimeOut, Server!Stay, Server!Close, UploadStep, agentVars
  <2>2. \/ phase = "serving" /\ ~waiting /\ phase' = "leaving"
        \/ phase = "leaving" /\ phase' = "serving"
        \/ phase = "leaving" /\ exitServer /\ phase' = "closing"
    BY <1>6 DEF TimeOut, TestExit, Server!TimeOut, Server!Stay, Server!Close
  <2> QED BY <2>1, <2>2
<1>7. CASE Return
  <2>1. /\ phase = "closing" /\ phase' = "returned" /\ result' = "true"
        /\ UNCHANGED <<object, bound, stream>>
    BY <1>7 DEF Return, Server!Return, UploadStep, agentVars
  <2>2. stream[call] # "fin" \/ to[call] # call
    BY <1>7 DEF Return, ConnectedTo
  <2> QED BY <2>1, <2>2
<1>8. CASE Fail
  BY <1>8 DEF Fail, Orderly
<1>9. CASE ReturnFalse
  BY <1>9 DEF ReturnFalse, Server!ReturnFalse
<1>10. ASSUME NEW v \in Volumes, Take(v) PROVE NoFailure' /\ StoppedByOwn' /\ SentArrives'
  <2>1. v = call /\ UNCHANGED <<phase, bound, result>>
    BY <1>10, OwnConnection DEF Take, UploadStep, Server!Take
  <2>2. CASE stream'[v] = "cut"
    BY <2>1, <2>2
  <2>3. CASE stream'[v] # "cut"
    <3>1. stream'[v] = "taken" /\ object' = [of |-> v, whole |-> Complete(v)]
      BY <1>10, <2>3 DEF Take, TypeOK
    <3>2. agent[call] = "sent" \/ api[call] = "done" => Complete(call)
      BY DEF PollInv, FinalIsStopped, Final, Complete
    <3>3. Complete(call) \in BOOLEAN
      BY DEF Complete
    <3> QED BY <2>1, <3>1, <3>2, <3>3
  <2> QED BY <2>2, <2>3
<1>11. ASSUME NEW v \in Volumes, Disconnect(v) PROVE NoFailure' /\ StoppedByOwn' /\ SentArrives'
  <2>1. v = call /\ phase = "closing" /\ UNCHANGED <<phase, bound, result>>
    BY <1>11, OwnConnection DEF Disconnect, UploadStep, Server!Take
  <2>2. stream[v] = "fin"
    BY <1>11, <2>1, OwnHasEnded DEF Disconnect, ConnectedTo
  <2>3. stream'[v] = "missed"
    BY <1>11, <2>2 DEF Disconnect, TypeOK
  <2> QED BY <2>1, <2>3
<1> QED BY <1>5, <1>6, <1>7, <1>8, <1>9, <1>10, <1>11 DEF Upload

(* A goroutine that can stop a server is that of the current call.         *)
LEMMA GoroutineKeepsOrder ==
    ASSUME PollInv, Orderly, OrderParts, NEW k \in Volumes, CheckBackupStatus(k), UNCHANGED del
    PROVE  OrderParts'
<1>0. TypeOK /\ MadeByRequest
  BY DEF PollInv
<1>1. UNCHANGED <<uploadVars, callVars, api, agentVars, del>> /\ poll[k] # "none"
  BY DEF CheckBackupStatus, PollStatus, PollExit, CleanupCompletedBackup, PollStep
<1>2. NoFailure' /\ SentArrives' /\ IdMeansObject'
  BY <1>1 DEF OrderParts, NoFailure, SentArrives, IdMeansObject, Orderly, uploadVars, callVars, agentVars
<1>3. UNCHANGED <<step, call, local, agent, to, phase, result>>
  BY <1>1 DEF uploadVars, callVars, agentVars
<1>4. CASE PollStatus(k)
  <2>1. /\ poll[k] = "polling" /\ exitServer' = exitServer
        /\ \A v \in Volumes : v # k => poll'[v] = poll[v]
    BY <1>0, <1>4 DEF PollStatus, TypeOK
  <2>2. Current(k)
    BY <2>1 DEF OrderParts, OthersAreQuiet
  <2>3. OthersAreQuiet'
    BY <1>3, <2>1, <2>2 DEF OrderParts, OthersAreQuiet, Current
  <2>4. StoppedByOwn'
    BY <1>3, <2>1, <2>2 DEF OrderParts, StoppedByOwn, Current
  <2> QED BY <1>2, <2>3, <2>4 DEF OrderParts
<1>5. CASE PollExit(k)
  <2>1. /\ poll[k] = "exit" /\ exitServer' = TRUE /\ poll' = [poll EXCEPT ![k] = "cleanup"]
    BY <1>5 DEF PollExit
  <2>2. Current(k)
    BY <2>1 DEF OrderParts, OthersAreQuiet
  <2>3. OthersAreQuiet'
    BY <1>0, <1>3, <2>1, <2>2 DEF OrderParts, OthersAreQuiet, Current, TypeOK
  <2>4. StoppedByOwn'
    BY <1>0, <1>3, <2>1, <2>2 DEF OrderParts, StoppedByOwn, Current, TypeOK
  <2> QED BY <1>2, <2>3, <2>4 DEF OrderParts
<1>6. CASE CleanupCompletedBackup(k)
  <2>1. /\ poll[k] = "cleanup" /\ exitServer' = exitServer /\ poll' = [poll EXCEPT ![k] = "finished"]
    BY <1>6 DEF CleanupCompletedBackup
  <2>2. \A v \in Volumes : poll'[v] = poll[v] \/ (poll[v] = "cleanup" /\ poll'[v] = "finished")
    BY <1>0, <2>1 DEF TypeOK
  <2>3. OthersAreQuiet'
    BY <1>3, <2>2 DEF OrderParts, OthersAreQuiet, Current
  <2>4. StoppedByOwn'
    BY <1>3, <2>1, <2>2 DEF OrderParts, StoppedByOwn, PollInv, CallIsOfVolume
  <2> QED BY <1>2, <2>3, <2>4 DEF OrderParts
<1> QED BY <1>4, <1>5, <1>6 DEF CheckBackupStatus

(* What an agent has sent waits to be taken.                               *)
LEMMA AgentKeepsOrder ==
    ASSUME PollInv, Orderly, OrderParts, NEW a \in Volumes, Agent(a), UNCHANGED del
    PROVE  OrderParts'
<1>0. TypeOK /\ NoFailure /\ OthersAreQuiet /\ StoppedByOwn /\ SentArrives
  BY DEF PollInv, OrderParts
<1>1. UNCHANGED <<bound, phase, exitServer, object, result, callVars, pollVars, del>>
  BY DEF Agent, AgentConnects, AgentCloses, AgentReports, AgentGivesUp, AgentStep, Server!Arrive
<1>2. UNCHANGED <<step, call, local, poll>>
  BY <1>1 DEF callVars, pollVars
<1>3. NoFailure' /\ IdMeansObject'
  <2>1. \A v \in Volumes : stream[v] \in {"cut", "missed"} => stream'[v] = stream[v]
    BY <1>0 DEF Agent, AgentConnects, AgentCloses, AgentReports, AgentGivesUp, TypeOK, PollInv, StreamHasAgent
  <2> QED BY <1>0, <1>1, <2>1 DEF OrderParts, NoFailure, IdMeansObject, Orderly, callVars
<1>4. CASE AgentConnects(a)
  <2>1. /\ a = call /\ step = "upload" /\ phase \in {"serving", "leaving", "closing"} /\ agent[a] = "idle" /\ api[a] = "init"
        /\ agent' = [agent EXCEPT ![a] = "sending"] /\ to' = [to EXCEPT ![a] = call] /\ api' = api
    BY <1>4 DEF AgentConnects, InTime, Orderly
  <2>2. OthersAreQuiet'
    BY <1>0, <1>2, <2>1 DEF OthersAreQuiet, Current, TypeOK
  <2>3. StoppedByOwn' /\ SentArrives'
    BY <1>0, <1>1, <1>2, <2>1 DEF StoppedByOwn, SentArrives, TypeOK
  <2> QED BY <1>3, <2>2, <2>3 DEF OrderParts
<1>5. CASE AgentCloses(a)
  <2>1. /\ agent[a] = "sending" /\ agent'[a] \in {"sent", "broke"} /\ waiting' = TRUE /\ to[a] = a
        /\ \A v \in Volumes : v # a => agent'[v] = agent[v]
        /\ stream'[a] = "fin" /\ UNCHANGED <<api, to>>
    BY <1>0, <1>5 DEF AgentCloses, Server!Arrive, TypeOK, PollInv, StreamHasAgent, OthersAreQuiet
  <2>2. a = call /\ step = "upload"
    BY <1>0, <2>1 DEF OthersAreQuiet, Current
  <2>3. phase \in {"serving", "leaving"}
    <3>1. phase # "starting" /\ phase # "failed"
      BY <1>0, <2>1, <2>2 DEF NoFailure, StoppedByOwn
    <3>2. phase # "closing" /\ phase # "returned"
      BY <2>1, <2>2, OwnHasEnded
    <3> QED BY <1>0, <3>1, <3>2 DEF TypeOK
  <2>4. OthersAreQuiet'
    BY <1>0, <1>2, <2>1, <2>2 DEF OthersAreQuiet, Current
  <2>5. StoppedByOwn' /\ SentArrives'
    BY <1>0, <1>1, <1>2, <2>1, <2>2, <2>3 DEF StoppedByOwn, SentArrives
  <2> QED BY <1>3, <2>4, <2>5 DEF OrderParts
<1>6. CASE AgentReports(a)
  <2>1. /\ agent[a] # "idle" /\ agent' = [agent EXCEPT ![a] = "stopped"]
        /\ api' = [api EXCEPT ![a] = "failed"] \/ (agent[a] = "sent" /\ api' = [api EXCEPT ![a] = "done"])
        /\ UNCHANGED <<waiting, stream, to>>
    BY <1>6 DEF AgentReports
  <2>2. OthersAreQuiet'
    BY <1>0, <1>2, <2>1 DEF OthersAreQuiet, Current, TypeOK
  <2>3. StoppedByOwn'
    BY <1>0, <1>1, <1>2, <2>1 DEF StoppedByOwn, TypeOK, PollInv, CallIsOfVolume
  <2>4. SentArrives'
    BY <1>0, <1>1, <1>2, <2>1 DEF SentArrives, TypeOK, PollInv, CallIsOfVolume
  <2> QED BY <1>3, <2>2, <2>3, <2>4 DEF OrderParts
<1>7. CASE AgentGivesUp(a)
  <2>1. /\ step # "upload" \/ phase \in {"failed", "returned"} \/ a # call
        /\ agent' = [agent EXCEPT ![a] = "stopped"] /\ api' = [api EXCEPT ![a] = "failed"]
        /\ UNCHANGED <<waiting, stream, to>>
    BY <1>7 DEF AgentGivesUp
  <2>2. OthersAreQuiet'
    BY <1>0, <1>2, <2>1 DEF OthersAreQuiet, Current, TypeOK
  <2>3. StoppedByOwn'
    BY <1>0, <1>1, <1>2, <2>1 DEF StoppedByOwn, TypeOK, PollInv, CallIsOfVolume
  <2>4. SentArrives'
    BY <1>0, <1>1, <1>2, <2>1 DEF SentArrives, TypeOK, PollInv, CallIsOfVolume
  <2> QED BY <1>3, <2>2, <2>3, <2>4 DEF OrderParts
<1> QED BY <1>4, <1>5, <1>6, <1>7 DEF Agent

(* The object is deleted in the step that says so.                         *)
LEMMA DeletionKeepsOrder ==
    ASSUME PollInv, Orderly, OrderParts, NEW d \in Volumes,
           DeleteSnapshot(d) \/ SendDeleteRequest(d) \/ Delete(d)
    PROVE  OrderParts'
<1>0. TypeOK
  BY DEF PollInv
<1>1. UNCHANGED <<uploadVars, exitServer, faults, local, call, step, ret, pvcs, pollVars, agentVars>>
  BY DEF DeleteSnapshot, SendDeleteRequest, Delete, Deletes
<1>2. step # "upload"
  <2>1. CASE DeleteSnapshot(d)
    BY <2>1 DEF DeleteSnapshot
  <2>2. CASE del[d] # "none"
    BY <2>2 DEF PollInv, DeletedAtEnd, Making
  <2> QED BY <2>1, <2>2 DEF SendDeleteRequest, Delete, Deletes
<1>3. \A v \in Volumes : del'[v] # "done" => del[v] # "done" /\ bucket'[v] = bucket[v]
  <2>1. CASE DeleteSnapshot(d)
    BY <1>0, <2>1 DEF DeleteSnapshot, Deletes, DeleteStep, TypeOK
  <2>2. CASE SendDeleteRequest(d)
    BY <1>0, <2>2 DEF SendDeleteRequest, Deletes, DeleteStep, DeleteFails, TypeOK
  <2>3. CASE Delete(d)
    BY <1>0, <2>3 DEF Delete, Deletes, DeleteStep, DeleteFails, TypeOK
  <2> QED BY <2>1, <2>2, <2>3
<1>4. IdMeansObject'
  BY <1>1, <1>3 DEF OrderParts, IdMeansObject, Orderly, agentVars
<1> QED BY <1>1, <1>2, <1>4 DEF OrderParts, NoFailure, OthersAreQuiet, Current, StoppedByOwn, SentArrives,
     uploadVars, pollVars, agentVars

LEMMA OrderCorrect == Spec => []OrderInv
<1>1. PollInv /\ OrderInv /\ [Next]_vars => OrderInv'
  <2> SUFFICES ASSUME PollInv, OrderInv, [Next]_vars, Orderly' PROVE OrderParts'
    BY DEF OrderInv
  <2>1. Orderly
    BY DEF Orderly, Next, Call, Terminated, CreateSnapshot, BackupPVC, SendBackupRequest, UploadReturns, Upload,
       UploadStep, Listen, TimeOut, TestExit, Return, Fail, ReturnFalse, Take, Disconnect, CheckBackupStatus, PollStatus,
       PollExit, CleanupCompletedBackup, PollStep, Agent, AgentConnects, AgentCloses, AgentReports,
       AgentGivesUp, AgentStep, DeleteSnapshot, SendDeleteRequest, Delete, Deletes, vars, makeVars, callVars
  <2>2. OrderParts
    BY <2>1 DEF OrderInv
  <2>3. CASE UNCHANGED vars
    BY <2>1, <2>2, <2>3 DEF OrderParts, NoFailure, OthersAreQuiet, Current, StoppedByOwn, SentArrives,
       IdMeansObject, Orderly, vars, makeVars, uploadVars, callVars, pollVars, agentVars
  <2> QED BY <2>1, <2>2, <2>3, CallKeepsOrder, UploadKeepsOrder, GoroutineKeepsOrder, AgentKeepsOrder,
       DeletionKeepsOrder DEF Next, Call, Terminated
<1> QED BY <1>1, OrderStarts, PollCorrect, PTL DEF Spec

(* A status that allows an id is final when it is read.                    *)
THEOREM StatusIsRead == Spec => []StatusIsFinal
<1>1. PollInv /\ OrderInv => StatusIsFinal
  BY DEF PollInv, CallIsOfVolume, PastIsFinal, OrderInv, OrderParts, StoppedByOwn, StatusIsFinal, Completed, Past
<1> QED BY <1>1, PollCorrect, OrderCorrect, PTL

(* An id names the whole snapshot of its volume, until it is deleted.      *)
THEOREM IdNamesObject == Spec => []IdMeansObject
<1>1. OrderInv => IdMeansObject
  BY DEF OrderInv, OrderParts, IdMeansObject
<1> QED BY <1>1, OrderCorrect, PTL

(* A server stops only when the backup it serves is complete.              *)
THEOREM StopsWhenComplete == Spec => StopsWhenOrderly
<1>1. ASSUME PollInv, OrderInv, [Next]_vars, Orderly, phase = "leaving", phase' = "closing"
      PROVE  api[call] \in Final
  <2>1. exitServer /\ step = "upload"
    BY <1>1 DEF Next, Call, Terminated, CreateSnapshot, BackupPVC, SendBackupRequest, UploadReturns, Upload,
       UploadStep, Listen, TimeOut, TestExit, Return, Fail, ReturnFalse, Take, Disconnect, CheckBackupStatus, PollStatus,
       PollExit, CleanupCompletedBackup, PollStep, Agent, AgentConnects, AgentCloses, AgentReports,
       AgentGivesUp, AgentStep, DeleteSnapshot, SendDeleteRequest, Delete, Deletes, vars, makeVars, uploadVars,
       Server!Listen, Server!TimeOut, Server!Stay, Server!Close, Server!Return, Server!Fail, Server!ReturnFalse, Server!Take, Server!Arrive
  <2>2. poll[call] \in Past /\ call \in Volumes
    BY <1>1, <2>1 DEF OrderInv, OrderParts, StoppedByOwn, Past, PollInv, CallIsOfVolume
  <2> QED BY <1>1, <2>1, <2>2 DEF PollInv, PastIsFinal, StoredIsCurrent, Making
<1> QED BY <1>1, PollCorrect, OrderCorrect, PTL DEF Spec, StopsWhenOrderly

-------------------------------------------------------------------------------
(* The calls and their Uploads                                             *)

(* No Upload runs outside the step of the call that waits for it.          *)
UploadIsAwaited == step # "upload" => phase = "returned"

LEMMA CallAwaits ==
    ASSUME UploadIsAwaited, CreateSnapshot \/ BackupPVC \/ SendBackupRequest \/ UploadReturns
    PROVE  /\ UploadIsAwaited'
           /\ \/ Server!Begin \/ Server!Clear
              \/ UNCHANGED Server!transferVars
<1> USE DEF UploadIsAwaited, Server!transferVars, uploadVars
<1>1. CASE CreateSnapshot
  BY <1>1 DEF CreateSnapshot, Server!Clear
<1>2. CASE BackupPVC
  BY <1>2 DEF BackupPVC, Returns
<1>3. CASE SendBackupRequest
  BY <1>3 DEF SendBackupRequest, Returns, Server!Begin
<1>4. CASE UploadReturns
  BY <1>4 DEF UploadReturns, Returns
<1> QED BY <1>1, <1>2, <1>3, <1>4

LEMMA UploadAwaits ==
    ASSUME UploadIsAwaited, Upload
    PROVE  UploadIsAwaited' /\ Server!Next
<1>1. step = "upload" /\ step' = step
  BY DEF Upload, UploadStep, Listen, TimeOut, TestExit, Return, Fail, ReturnFalse, Take, Disconnect, callVars
<1>2. Server!Next
  BY DEF Upload, Listen, TimeOut, TestExit, Return, Fail, ReturnFalse, Take, Disconnect, Server!Next
<1> QED BY <1>1, <1>2 DEF UploadIsAwaited

LEMMA OthersAwait ==
    ASSUME UploadIsAwaited, NEW v \in Volumes,
           \/ CheckBackupStatus(v) \/ Agent(v)
           \/ DeleteSnapshot(v) \/ SendDeleteRequest(v) \/ Delete(v)
    PROVE  /\ UploadIsAwaited'
           /\ Server!Next \/ UNCHANGED Server!transferVars
<1> USE DEF UploadIsAwaited, Server!transferVars, uploadVars, callVars
<1>1. CASE CheckBackupStatus(v)
  BY <1>1 DEF CheckBackupStatus, PollStep, PollStatus, PollExit, CleanupCompletedBackup, Server!Next,
     Server!RequestExit
<1>2. CASE Agent(v)
  <2>1. CASE AgentCloses(v)
    BY <2>1 DEF AgentCloses, Server!Next, Server!Arrive
  <2>2. CASE AgentConnects(v) \/ AgentReports(v) \/ AgentGivesUp(v)
    BY <2>2 DEF AgentStep, AgentConnects, AgentReports, AgentGivesUp
  <2> QED BY <1>2, <2>1, <2>2 DEF Agent
<1>3. CASE DeleteSnapshot(v) \/ SendDeleteRequest(v) \/ Delete(v)
  BY <1>3 DEF DeleteSnapshot, SendDeleteRequest, Delete, Deletes
<1> QED BY <1>1, <1>2, <1>3

(* Whatever fails, and although goroutines and agents of earlier calls may *)
(* still be at work on the connection that all calls share, its server     *)
(* makes one transfer after another, each as Transfer has it: no call      *)
(* begins an Upload or clears ExitServer while one is running.             *)
THEOREM UploadsAreSeries == Spec => Server!Series
<1>1. Init => UploadIsAwaited /\ phase = "returned" /\ ~exitServer /\ result = "none"
  BY DEF Init, UploadIsAwaited
<1>2. UploadIsAwaited /\ [Next]_vars =>
        /\ UploadIsAwaited'
        /\ [Server!Next \/ Server!Begin \/ Server!Clear \/ Server!Leave]_(Server!transferVars)
  <2> SUFFICES ASSUME UploadIsAwaited, [Next]_vars
               PROVE  /\ UploadIsAwaited'
                      /\ [Server!Next \/ Server!Begin \/ Server!Clear \/ Server!Leave]_(Server!transferVars)
    OBVIOUS
  <2>1. CASE UNCHANGED vars
    BY <2>1 DEF UploadIsAwaited, Server!transferVars, vars, makeVars, uploadVars, callVars
  <2> QED BY <2>1, CallAwaits, UploadAwaits, OthersAwait DEF Next, Call, Terminated
<1> QED BY <1>1, <1>2, PTL DEF Spec, Server!Series
===============================================================================
