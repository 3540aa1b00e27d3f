-------------------------- MODULE CstorRestore_proofs --------------------------
(***************************************************************************)
(* Machine-checked proofs about CstorRestore and the CstorProvision in it, *)
(* for any number of snapshots and replicas, any length of the waits and   *)
(* any set of faults.                                                      *)
(*                                                                         *)
(* There are three layers.  ProvisionInv is about the claim and the        *)
(* replicas, and needs nothing of the data.  PollInv says which goroutine  *)
(* may still run, so that nobody but the goroutine of a snapshot stops its *)
(* server.  LoopInv builds on it: what the volume has received follows the *)
(* loop over the snapshots.                                                *)
(***************************************************************************)
EXTENDS CstorRestore, TLAPS

(* From the first wait for the replicas on, each of them exists.           *)
ReplicasExist ==
    at \in {"annotation", "ready", "valid", "list", "mark", "marked"} =>
        \A r \in Replicas : replica[r] # "none"

(* A replica that is not listed any more is marked, or has been refused.   *)
EachIsMarked == at = "mark" => errs \/ Replicas \subseteq listed \cup marked

(* A claim that is as it was read is bound: whoever binds or loses it      *)
(* changes it.                                                             *)
FreshIsBound == fresh => pvc = "bound"

ClaimHasNamespace ==
    pvc # "absent" =>
        namespace = "active" \/ (namespace = "terminating" /\ "namespace" \in faults)

OwnIsNewest ==
    /\ inProgress \in {{Own}, {1, Own}, {Own, 3}}
    /\ 3 \in inProgress => "newer" \in faults
    /\ at \notin {"download", "failed"} => target = Own \/ "newer" \in faults

ProvisionTypes ==
    /\ replica \in [Replicas -> {"none", "offline", "valid"}]
    /\ listed \in SUBSET Replicas
    /\ marked \in SUBSET Replicas
    /\ errs \in BOOLEAN /\ fresh \in BOOLEAN /\ annotated \in BOOLEAN

ProvisionInv ==
    /\ ProvisionTypes
    /\ ReplicasExist
    /\ EachIsMarked
    /\ AllAreMarked
    /\ FreshIsBound
    /\ ClaimHasNamespace
    /\ OwnIsNewest
    /\ ReadyToReceive

PollTypes ==
    /\ poll  \in [Snapshots -> {"none", "polling", "exit", "finished"}]
    /\ api   \in [Snapshots -> {"none", "init", "done", "failed"}]
    /\ agent \in [Snapshots -> {"idle", "receiving", "received", "broke", "stopped"}]
    /\ snap  \in 0..N
    /\ step \in {"exists", "post", "download"} => snap \in Snapshots
    /\ step = "local" => mode.local
    /\ {waiting, exitServer} \subseteq BOOLEAN
    /\ mode \in [local : BOOLEAN, all : BOOLEAN, setTargetIP : BOOLEAN]
    /\ files \in [Snapshots -> {"whole", "part", "absent"}]

(* Until the call has returned only the goroutine of the snapshot that is  *)
(* being received may be at work.                                          *)
OthersAreQuiet ==
    step # "returned" =>
        /\ ret = "none"
        /\ \A k \in Snapshots : poll[k] \in {"none", "finished"} \/ (step = "download" /\ k = snap)

(* A status that is final stays: its agent has stopped.                    *)
FinalIsStopped == \A k \in Snapshots : api[k] \in Final => agent[k] = "stopped"

(* The server is stopped by its own goroutine, which has stored a status.  *)
StoppedByOwn ==
    step = "download" =>
        /\ poll[snap] # "none"
        /\ poll[snap] \in {"exit", "finished"} => restoreStatus = api[snap] /\ api[snap] \in Final
        /\ exitServer => poll[snap] = "finished"
        /\ phase = "closing" \/ result = "true" => exitServer

PollInv ==
    /\ PollTypes
    /\ OthersAreQuiet
    /\ FinalIsStopped
    /\ StoppedByOwn

FirstOfLoop == IF mode.all THEN 1 ELSE Target

(* Snapshots that the loop has not reached are left alone.                 *)
NotReached ==
    CASE step \in {"pvc", "list"}     -> Snapshots
      [] step \in {"exists", "post"}  -> snap..N
      [] step = "download"            -> (snap + 1)..N
      [] OTHER                        -> {}

NotReachedIsIdle == \A k \in NotReached : agent[k] = "idle" /\ api[k] = "none"

(* The loop does not run past the target.                                  *)
LoopIsInList ==
    step \in {"exists", "post", "download"} => snap <= Target /\ (~mode.all => snap = Target)

(* What the volume has received is what the loop has passed.               *)
ReceivedIsPassed ==
    /\ step \in {"pvc", "list"} => applied = Whole(1..(FirstOfLoop - 1))
    /\ step \in {"exists", "post"} => applied = Whole(1..(snap - 1))
    /\ step = "download" =>
           /\ applied \in {Whole(1..(snap - 1)), Whole(1..snap)}
           /\ agent[snap] = "received" \/ api[snap] = "done" =>
                  applied = Whole(1..snap) /\ files[snap] = "whole"
    /\ step \in {"status", "mark"} \/ ret \in {"volume", "unmarked"} =>
           applied = Whole(1..Target) /\ Target \in applied

Answered == "exists" \notin faults /\ files[Target] # "absent" /\ ~mode.local

LoopInv == Answered => NotReachedIsIdle /\ LoopIsInList /\ ReceivedIsPassed

-------------------------------------------------------------------------------
(* The claim and the replicas                                              *)

LEMMA ProvisionStarts == Init => ProvisionInv
<1> SUFFICES ASSUME ProvisionInit PROVE ProvisionInv
  BY DEF Init
<1>1. ProvisionTypes
  BY DEF ProvisionInit, ProvisionTypes
<1>2. OwnIsNewest
  BY DEF ProvisionInit, OwnIsNewest
<1>3. /\ ReplicasExist /\ EachIsMarked /\ AllAreMarked
      /\ FreshIsBound /\ ClaimHasNamespace /\ ReadyToReceive
  BY DEF ProvisionInit, ReplicasExist, EachIsMarked, AllAreMarked, FreshIsBound,
         ClaimHasNamespace, ReadyToReceive
<1> QED BY <1>1, <1>2, <1>3 DEF ProvisionInv

(* What the rest of the restore does leaves the claim and the replicas.    *)
LEMMA ProvisionSteps ==
    [Next]_vars => CreatesPVC \/ MarksCVRs \/ Kubernetes \/ UNCHANGED provisionVars
<1> SUFFICES ASSUME [Next]_vars
             PROVE  CreatesPVC \/ MarksCVRs \/ Kubernetes \/ UNCHANGED provisionVars
  OBVIOUS
<1>1. CASE Call
  BY <1>1 DEF Call, CreateVolume, CloneVolume, RestoreVolumeFromLocal, GetSnapshotList,
     FileExists, SendRestoreRequest, RequestWith, DownloadReturns, CheckStatus, Mark,
     Download, CallStep, DownloadStep
<1>2. CASE \E k \in Snapshots : CheckRestoreStatus(k) \/ Agent(k)
  BY <1>2 DEF CheckRestoreStatus, PollStatus, PollExit, PollStep, Agent, AgentConnects,
     AgentReceives, AgentReports, AgentStep
<1>3. CASE Kubernetes
  BY <1>3
<1>4. CASE Terminated \/ UNCHANGED vars
  BY <1>4 DEF Terminated, vars
<1> QED BY <1>1, <1>2, <1>3, <1>4 DEF Next

(* The newest of the restores in progress is this one, or was created      *)
(* later.                                                                  *)
LEMMA NewestIsOwn ==
    ASSUME OwnIsNewest
    PROVE  NewestRestore(inProgress) = Own \/ "newer" \in faults
<1>1. CASE 3 \in inProgress
  BY <1>1 DEF OwnIsNewest
<1>2. CASE inProgress \in {{Own}, {1, Own}}
  <2>1. /\ Own \in inProgress
        /\ \A r \in inProgress : r \in Int /\ r <= Own
    BY <1>2 DEF Own
  <2>2. \A r \in inProgress : (\A x \in inProgress : x <= r) => r = Own
    BY <2>1 DEF Own
  <2> QED BY <2>1, <2>2 DEF NewestRestore
<1> QED BY <1>1, <1>2 DEF OwnIsNewest

LEMMA CreatesPVCKeeps ==
    ASSUME ProvisionInv, CreatesPVC
    PROVE  ProvisionInv'
<1> USE DEF ProvisionInv, ProvisionTypes, ReplicasExist, EachIsMarked, AllAreMarked,
            FreshIsBound, ClaimHasNamespace, OwnIsNewest, ReadyToReceive,
            At, Goto, Fails, claimVars, markVars
<1>1. CASE GetRestoreNamespace
  <2>1. target' = NewestRestore(inProgress) => target' = Own \/ "newer" \in faults
    BY NewestIsOwn
  <2> QED BY <1>1, <2>1 DEF GetRestoreNamespace
<1>2. CASE CheckNamespace
  BY <1>2 DEF CheckNamespace, Wait
<1>3. CASE CreateNamespace
  BY <1>3 DEF CreateNamespace
<1>4. CASE GetVolumeFromPVC
  <2>1. (fresh' = TRUE /\ pvc = "bound") \/ fresh' = fresh
    BY <1>4 DEF GetVolumeFromPVC
  <2>2. fresh' \in BOOLEAN
    BY <2>1
  <2>3. FreshIsBound'
    BY <1>4, <2>1 DEF GetVolumeFromPVC
  <2>4. ProvisionTypes'
    BY <1>4, <2>2 DEF GetVolumeFromPVC
  <2>5. ReplicasExist' /\ EachIsMarked' /\ AllAreMarked' /\ ClaimHasNamespace' /\ OwnIsNewest'
    BY <1>4 DEF GetVolumeFromPVC
  <2>6. ReadyToReceive'
    BY <1>4 DEF GetVolumeFromPVC
  <2> QED BY <2>3, <2>4, <2>5, <2>6
<1>5. CASE CreatePVC
  BY <1>5 DEF CreatePVC
<1>6. CASE WaitForPVC
  <2>1. /\ (fresh' = TRUE /\ pvc' = "bound") \/ (fresh' = fresh /\ pvc' = pvc) \/ fresh' = FALSE
        /\ annotated' \in {annotated, FALSE} /\ pvc' \in {pvc, "absent"}
        /\ at' \notin {"ready", "mark", "marked", "annotation", "valid", "list", "download"}
    BY <1>6 DEF WaitForPVC, Wait, GivePVCUp
  <2>2. UNCHANGED <<target, namespace, replica, listed, marked, errs, faults, inProgress>>
    BY <1>6 DEF WaitForPVC
  <2>3. fresh' \in BOOLEAN /\ annotated' \in BOOLEAN
    BY <2>1
  <2>4. FreshIsBound'
    BY <2>1, <2>2
  <2>5. ProvisionTypes'
    BY <2>2, <2>3
  <2>6. ReplicasExist' /\ EachIsMarked' /\ AllAreMarked' /\ ClaimHasNamespace' /\ ReadyToReceive'
    BY <2>1, <2>2
  <2>7. OwnIsNewest'
    BY <1>6, <2>1, <2>2 DEF WaitForPVC
  <2> QED BY <2>4, <2>5, <2>6, <2>7
<1>7. CASE GetPV
  BY <1>7 DEF GetPV
<1>8. CASE WaitForAllCVRs("replicas", "annotation")
  BY <1>8 DEF WaitForAllCVRs, AllAreValid, Wait
<1>9. CASE RemovePVCAnnotationKey
  BY <1>9 DEF RemovePVCAnnotationKey
<1> QED BY <1>1, <1>2, <1>3, <1>4, <1>5, <1>6, <1>7, <1>8, <1>9 DEF CreatesPVC

LEMMA MarksCVRsKeeps ==
    ASSUME ProvisionInv, MarksCVRs
    PROVE  ProvisionInv'
<1> USE DEF ProvisionInv, ProvisionTypes, ReplicasExist, EachIsMarked, AllAreMarked,
            FreshIsBound, ClaimHasNamespace, OwnIsNewest, ReadyToReceive,
            At, Goto, Fails, claimVars, markVars
<1>1. CASE MarkCVRs
  BY <1>1 DEF MarkCVRs
<1>2. CASE WaitForAllCVRs("valid", "list")
  BY <1>2 DEF WaitForAllCVRs, AllAreValid, Wait
<1>3. CASE ListCVRs
  BY <1>3 DEF ListCVRs
<1>4. CASE \E r \in Replicas : UpdateCVR(r)
  <2>1. PICK r \in Replicas : UpdateCVR(r)
    BY <1>4
  <2>2. /\ at = "mark" /\ listed' = listed \ {r}
        /\ \/ at' = at /\ marked' = marked \cup {r} /\ errs' = errs
           \/ at' = at /\ marked' = marked /\ errs' = TRUE
           \/ at' = "nil" /\ UNCHANGED <<marked, errs>>
    BY <2>1 DEF UpdateCVR
  <2>3. UNCHANGED <<target, namespace, pvc, annotated, fresh, replica, faults, inProgress>>
    BY <2>1 DEF UpdateCVR
  <2>4. ProvisionTypes'
    BY <2>2, <2>3
  <2>5. EachIsMarked'
    BY <2>2, <2>3
  <2> QED BY <2>2, <2>3, <2>4, <2>5
<1>5. CASE MarkingEnds
  BY <1>5 DEF MarkingEnds
<1> QED BY <1>1, <1>2, <1>3, <1>4, <1>5 DEF MarksCVRs

LEMMA KubernetesKeeps ==
    ASSUME ProvisionInv, Kubernetes
    PROVE  ProvisionInv'
<1> USE DEF ProvisionInv, ProvisionTypes, ReplicasExist, EachIsMarked, AllAreMarked,
            FreshIsBound, ClaimHasNamespace, OwnIsNewest, ReadyToReceive,
            Others, claimVars, markVars
<1>1. CASE Namespaces
  BY <1>1 DEF Namespaces
<1>2. CASE Claims
  <2>1. /\ fresh' = FALSE /\ annotated' \in {annotated, FALSE}
        /\ pvc' = "absent" \/ pvc # "absent"
    BY <1>2 DEF Claims
  <2>2. /\ at \notin {"ready", "valid", "list", "mark", "marked"}
        /\ UNCHANGED <<faults, inProgress, target, at, namespace, replica, markVars>>
    BY <1>2 DEF Claims, AtClaim
  <2>3. ProvisionTypes'
    BY <2>1, <2>2
  <2>4. (FreshIsBound /\ ClaimHasNamespace /\ ReadyToReceive)'
    BY <2>1, <2>2
  <2>5. (ReplicasExist /\ EachIsMarked /\ AllAreMarked /\ OwnIsNewest)'
    BY <2>2
  <2> QED BY <2>3, <2>4, <2>5
<1>3. CASE \E r \in Replicas : ReplicaChanges(r)
  BY <1>3 DEF ReplicaChanges
<1> QED BY <1>1, <1>2, <1>3 DEF Kubernetes

LEMMA ProvisionCorrect == Spec => []ProvisionInv
<1>1. ProvisionInv /\ UNCHANGED provisionVars => ProvisionInv'
  BY DEF provisionVars, claimVars, markVars, ProvisionInv, ProvisionTypes, ReplicasExist,
     EachIsMarked, AllAreMarked, FreshIsBound, ClaimHasNamespace, OwnIsNewest, ReadyToReceive
<1>2. ProvisionInv /\ [Next]_vars => ProvisionInv'
  BY <1>1, ProvisionSteps, CreatesPVCKeeps, MarksCVRsKeeps, KubernetesKeeps
<1> QED BY <1>2, ProvisionStarts, PTL DEF Spec

(* A volume that createPVC returns is ready to receive: whatever happens   *)
(* to the claim, its namespace and the replicas while createPVC waits.     *)
THEOREM VolumeIsReady == Spec => []ReadyToReceive
<1>1. ProvisionInv => ReadyToReceive
  BY DEF ProvisionInv
<1> QED BY <1>1, ProvisionCorrect, PTL

(* markCVRsAsRestoreCompleted succeeds only when it has marked every       *)
(* replica, though they are listed first and then updated one by one.      *)
THEOREM MarkedIsAll == Spec => []AllAreMarked
<1>1. ProvisionInv => AllAreMarked
  BY DEF ProvisionInv
<1> QED BY <1>1, ProvisionCorrect, PTL

-------------------------------------------------------------------------------
(* The goroutines                                                          *)

LEMMA PollStarts == Init => PollInv
<1> SUFFICES ASSUME Init PROVE PollInv
  OBVIOUS
<1>1. PollTypes
  <2>1. /\ mode \in [local : BOOLEAN, all : BOOLEAN, setTargetIP : BOOLEAN]
        /\ files \in [Snapshots -> {"whole", "part", "absent"}]
        /\ {waiting, exitServer} \subseteq BOOLEAN
    BY DEF Init
  <2>2. /\ poll  \in [Snapshots -> {"none", "polling", "exit", "finished"}]
        /\ api   \in [Snapshots -> {"none", "init", "done", "failed"}]
        /\ agent \in [Snapshots -> {"idle", "receiving", "received", "broke", "stopped"}]
    BY DEF Init
  <2>3. snap \in 0..N /\ step = "pvc"
    BY TargetAssumption DEF Init
  <2> QED BY <2>1, <2>2, <2>3 DEF PollTypes
<1>2. OthersAreQuiet /\ FinalIsStopped /\ StoppedByOwn
  BY DEF Init, OthersAreQuiet, FinalIsStopped, StoppedByOwn, Final
<1> QED BY <1>1, <1>2 DEF PollInv

(* The call outside of Download.                                           *)
LEMMA CallKeepsPolls ==
    ASSUME PollInv,
           CreateVolume \/ CloneVolume \/ RestoreVolumeFromLocal \/ GetSnapshotList
             \/ FileExists \/ SendRestoreRequest \/ DownloadReturns \/ CheckStatus \/ Mark
    PROVE  PollInv'
<1> USE TargetAssumption
    DEF PollInv, PollTypes, OthersAreQuiet, FinalIsStopped, StoppedByOwn, Final, Snapshots,
        CallStep, Returns, downloadVars, pollVars, envVars
<1>1. CASE CreateVolume
  BY <1>1 DEF CreateVolume
<1>2. CASE CloneVolume
  BY <1>2 DEF CloneVolume
<1>3. CASE RestoreVolumeFromLocal
  BY <1>3 DEF RestoreVolumeFromLocal
<1>4. CASE GetSnapshotList
  BY <1>4 DEF GetSnapshotList
<1>5. CASE FileExists
  BY <1>5 DEF FileExists, NextSnapshot
<1>6. CASE SendRestoreRequest
  <2>1. PollTypes'
    BY <1>6 DEF SendRestoreRequest, RequestWith
  <2>2. OthersAreQuiet' /\ FinalIsStopped'
    BY <1>6 DEF SendRestoreRequest, RequestWith
  <2>3. StoppedByOwn'
    BY <1>6 DEF SendRestoreRequest, RequestWith
  <2> QED BY <2>1, <2>2, <2>3
<1>7. CASE DownloadReturns
  <2>1. result = "true" => \A k \in Snapshots : poll[k] \in {"none", "finished"}
    BY <1>7 DEF DownloadReturns
  <2> QED BY <1>7, <2>1 DEF DownloadReturns, NextSnapshot
<1>8. CASE CheckStatus
  BY <1>8 DEF CheckStatus
<1>9. CASE Mark
  BY <1>9 DEF Mark
<1> QED BY <1>1, <1>2, <1>3, <1>4, <1>5, <1>6, <1>7, <1>8, <1>9

LEMMA DownloadKeepsPolls ==
    ASSUME PollInv, Download
    PROVE  PollInv'
<1>1. UNCHANGED <<provisionVars, callVars, pollVars, envVars>> /\ step = "download"
  BY DEF Download, DownloadStep
<1>2. /\ exitServer' = exitServer /\ waiting' \in BOOLEAN
      /\ phase' = "closing" \/ result' = "true" => exitServer \/ phase = "closing" \/ result = "true"
  BY DEF Download, PollInv, PollTypes, Server!Listen, Server!TimeOut, Server!Stay, Server!Close, Server!Return,
     Server!ReturnFalse, Server!Fail
<1> QED BY <1>1, <1>2 DEF PollInv, PollTypes, OthersAreQuiet, FinalIsStopped, StoppedByOwn,
     callVars, pollVars, envVars

LEMMA GoroutineKeepsPolls ==
    ASSUME PollInv, NEW k \in Snapshots, CheckRestoreStatus(k)
    PROVE  PollInv'
<1> USE DEF PollInv, PollTypes, OthersAreQuiet, FinalIsStopped, StoppedByOwn, Final, PollStep,
            downloadVars, callVars, envVars
<1>1. CASE PollStatus(k)
  BY <1>1 DEF PollStatus
<1>2. CASE PollExit(k)
  BY <1>2 DEF PollExit
<1> QED BY <1>1, <1>2 DEF CheckRestoreStatus

LEMMA AgentKeepsPolls ==
    ASSUME PollInv, NEW k \in Snapshots, Agent(k)
    PROVE  PollInv'
<1> USE DEF PollInv, PollTypes, OthersAreQuiet, FinalIsStopped, StoppedByOwn, Final, AgentStep,
            callVars, pollVars
<1>1. CASE AgentConnects(k)
  BY <1>1 DEF AgentConnects
<1>2. CASE AgentReceives(k)
  BY <1>2 DEF AgentReceives
<1>3. CASE AgentReports(k)
  BY <1>3 DEF AgentReports
<1> QED BY <1>1, <1>2, <1>3 DEF Agent

LEMMA PollCorrect == Spec => []PollInv
<1>1. ASSUME PollInv, UNCHANGED dataVars PROVE PollInv'
  BY <1>1 DEF dataVars, downloadVars, callVars, envVars, pollVars,
     PollInv, PollTypes, OthersAreQuiet, FinalIsStopped, StoppedByOwn
<1>2. PollInv /\ [Next]_vars => PollInv'
  BY <1>1, CallKeepsPolls, DownloadKeepsPolls, GoroutineKeepsPolls, AgentKeepsPolls
     DEF Next, Call, Terminated, vars
<1> QED BY <1>2, PollStarts, PTL DEF Spec

(* When Download has returned, the status that is read is that of its own  *)
(* snapshot and final, though nothing clears restoreStatus or stops the    *)
(* goroutines of earlier snapshots.                                        *)
THEOREM StatusIsOfSnapshot == Spec => []StatusIsOwn
<1>1. PollInv => StatusIsOwn
  BY DEF PollInv, StoppedByOwn, StatusIsOwn
<1> QED BY <1>1, PollCorrect, PTL

-------------------------------------------------------------------------------
(* The loop                                                                *)

LEMMA NextWhole ==
    ASSUME NEW k \in Snapshots
    PROVE  Whole(1..k) = IF files[k] = "whole" THEN Whole(1..(k - 1)) \cup {k}
                                               ELSE Whole(1..(k - 1))
<1>1. 1..k = (1..(k - 1)) \cup {k} /\ k \notin 1..(k - 1)
  BY TargetAssumption DEF Snapshots
<1> QED BY <1>1 DEF Whole

LEMMA LoopStarts == Init => LoopInv
<1> SUFFICES ASSUME Init, Answered PROVE NotReachedIsIdle /\ LoopIsInList /\ ReceivedIsPassed
  BY DEF LoopInv
<1>1. NotReachedIsIdle /\ LoopIsInList
  BY DEF Init, NotReachedIsIdle, NotReached, LoopIsInList
<1>2. applied = Whole(1..(FirstOfLoop - 1))
  BY TargetAssumption DEF Init, FirstOfLoop, Whole
<1>3. ReceivedIsPassed
  BY <1>2 DEF Init, ReceivedIsPassed
<1> QED BY <1>1, <1>3

(* The steps of the call that come before the loop or after it.            *)
LEMMA OutsideKeepsLoop ==
    ASSUME PollInv, LoopInv,
           CreateVolume \/ CloneVolume \/ RestoreVolumeFromLocal \/ GetSnapshotList
             \/ CheckStatus \/ Mark
    PROVE  LoopInv'
<1> SUFFICES ASSUME Answered' PROVE (NotReachedIsIdle /\ LoopIsInList /\ ReceivedIsPassed)'
  BY DEF LoopInv
<1>0. UNCHANGED <<mode, files, api, agent, applied>>
  BY DEF CreateVolume, CloneVolume, RestoreVolumeFromLocal, GetSnapshotList, CheckStatus, Mark,
     CallStep, envVars
<1>1. UNCHANGED faults
  BY DEF CreateVolume, CloneVolume, RestoreVolumeFromLocal, GetSnapshotList, CheckStatus, Mark,
     CallStep, provisionVars, CreatesPVC, GetRestoreNamespace, CheckNamespace, CreateNamespace,
     GetVolumeFromPVC, CreatePVC, WaitForPVC, GetPV, WaitForAllCVRs, RemovePVCAnnotationKey,
     MarksCVRs, MarkCVRs, ListCVRs, UpdateCVR, MarkingEnds, At
<1>2. Answered /\ NotReachedIsIdle /\ LoopIsInList /\ ReceivedIsPassed
  BY <1>0, <1>1 DEF Answered, LoopInv
<1> USE TargetAssumption, <1>0, <1>1, <1>2
    DEF NotReachedIsIdle, NotReached, LoopIsInList, ReceivedIsPassed, FirstOfLoop, Whole,
        Snapshots, Returns, PollInv, PollTypes
<1>3. CASE CreateVolume
  BY <1>3 DEF CreateVolume
<1>4. CASE CloneVolume \/ RestoreVolumeFromLocal
  BY <1>4 DEF CloneVolume, RestoreVolumeFromLocal, Answered
<1>5. CASE GetSnapshotList
  <2>1. /\ step = "list"
        /\ \/ step' = "exists" /\ snap' = FirstOfLoop /\ ret' = ret
           \/ step' = "returned" /\ ret' = "error"
        /\ ret = "none"
    BY <1>5 DEF GetSnapshotList, OthersAreQuiet
  <2>2. CASE step' = "returned"
    BY <2>1, <2>2
  <2>3. CASE step' = "exists"
    <3>1. FirstOfLoop \in Snapshots /\ FirstOfLoop <= Target
      OBVIOUS
    <3>2. NotReachedIsIdle'
      BY <2>1, <2>3, <3>1
    <3>3. applied = Whole(1..(FirstOfLoop - 1)) /\ ret' \notin {"volume", "unmarked"}
      BY <2>1
    <3>4. ReceivedIsPassed'
      BY <2>1, <2>3, <3>3
    <3> QED BY <2>1, <2>3, <3>1, <3>2, <3>4
  <2> QED BY <2>1, <2>2, <2>3
<1>6. CASE CheckStatus
  BY <1>6 DEF CheckStatus
<1>7. CASE Mark
  BY <1>7 DEF Mark
<1> QED BY <1>3, <1>4, <1>5, <1>6, <1>7

(* The loop, Download and what decides about it.                           *)
LEMMA CallKeepsLoop ==
    ASSUME PollInv, LoopInv, FileExists \/ SendRestoreRequest \/ DownloadReturns \/ Download
    PROVE  LoopInv'
<1> SUFFICES ASSUME Answered' PROVE (NotReachedIsIdle /\ LoopIsInList /\ ReceivedIsPassed)'
  BY DEF LoopInv
<1>1. UNCHANGED <<mode, files, faults>>
  BY DEF FileExists, SendRestoreRequest, RequestWith, DownloadReturns, Download, CallStep,
     DownloadStep, provisionVars, callVars
<1>2. Answered /\ NotReachedIsIdle /\ LoopIsInList /\ ReceivedIsPassed
  BY <1>1 DEF Answered, LoopInv
<1>3. \A S : Whole(S)' = Whole(S)
  BY <1>1 DEF Whole
<1> USE TargetAssumption, <1>1, <1>2, <1>3
    DEF NotReachedIsIdle, NotReached, LoopIsInList, ReceivedIsPassed, Snapshots, Returns,
        PollInv, PollTypes, envVars
(* Passing a snapshot that is not the target.                              *)
<1>4. ASSUME NextSnapshot, step \in {"exists", "download"}, snap # Target, ret' = ret, envVars' = envVars,
             applied = Whole(1..snap)
      PROVE  (NotReachedIsIdle /\ LoopIsInList /\ ReceivedIsPassed)'
  <2>1. snap < Target /\ mode.all /\ Target <= N /\ snap + 1 \in Snapshots
    BY <1>4
  <2>2. step' = "exists" /\ snap' = snap + 1
    BY <1>4, <2>1 DEF NextSnapshot
  <2>3. NotReachedIsIdle' /\ LoopIsInList'
    BY <1>4, <2>1, <2>2
  <2>4. snap' - 1 = snap /\ ret' = "none"
    BY <1>4, <2>1, <2>2 DEF OthersAreQuiet
  <2>5. ReceivedIsPassed'
    BY <1>4, <2>2, <2>4 DEF Whole
  <2> QED BY <2>3, <2>5
<1>5. CASE FileExists
  <2>1. /\ step = "exists" /\ ret' = ret /\ envVars' = envVars
        /\ \/ files[snap] # "absent" /\ step' = "post" /\ snap' = snap
           \/ files[snap] = "absent" /\ NextSnapshot
    BY <1>5 DEF FileExists, Answered
  <2>2. CASE files[snap] # "absent" /\ step' = "post" /\ snap' = snap
    <3>1. NotReachedIsIdle' /\ LoopIsInList'
      BY <2>1, <2>2
    <3>2. ret' = "none"
      BY <2>1 DEF OthersAreQuiet
    <3>3. ReceivedIsPassed'
      BY <2>1, <2>2, <3>2 DEF Whole
    <3> QED BY <3>1, <3>3
  <2>3. CASE files[snap] = "absent" /\ NextSnapshot
    <3>1. snap # Target
      BY <2>3 DEF Answered
    <3>2. applied = Whole(1..snap)
      BY <2>1, <2>3, NextWhole
    <3> QED BY <1>4, <2>1, <2>3, <3>1, <3>2
  <2> QED BY <2>1, <2>2, <2>3
<1>6. CASE SendRestoreRequest
  <2>1. /\ step = "post" /\ UNCHANGED <<snap, agent, applied>>
        /\ \/ step' = "download" /\ api' = [api EXCEPT ![snap] = "init"] /\ ret' = ret
           \/ step' = "returned" /\ ret' = "error"
    BY <1>6 DEF SendRestoreRequest, RequestWith
  <2>2. CASE step' = "returned"
    BY <2>1, <2>2
  <2>3. CASE step' = "download"
    <3>1. api'[snap] = "init" /\ agent[snap] = "idle" /\ \A k \in (snap + 1)..N : api'[k] = api[k]
      BY <2>1, <2>3
    <3>2. NotReachedIsIdle' /\ LoopIsInList'
      BY <2>1, <2>3, <3>1
    <3>3. ret' = "none"
      BY <2>1, <2>3 DEF OthersAreQuiet
    <3>4. ReceivedIsPassed'
      BY <2>1, <2>3, <3>1, <3>3 DEF Whole
    <3> QED BY <3>2, <3>4
  <2> QED BY <2>1, <2>2, <2>3
<1>7. CASE DownloadReturns
  <2>1. /\ step = "download" /\ envVars' = envVars
        /\ \/ step' = "returned" /\ ret' = "error"
           \/ /\ result = "true" /\ restoreStatus = "done" /\ ret' = ret
              /\ IF snap = Target THEN step' = "status" /\ snap' = snap ELSE NextSnapshot
    BY <1>7 DEF DownloadReturns
  <2>2. CASE step' = "returned" /\ ret' = "error"
    BY <2>1, <2>2
  <2>3. CASE /\ result = "true" /\ restoreStatus = "done" /\ ret' = ret
             /\ IF snap = Target THEN step' = "status" /\ snap' = snap ELSE NextSnapshot
    <3>1. api[snap] = "done"
      BY <2>1, <2>3 DEF StoppedByOwn
    <3>2. applied = Whole(1..snap) /\ files[snap] = "whole"
      BY <2>1, <3>1
    <3>3. CASE snap = Target
      <4>1. Target \in applied
        BY <3>2, <3>3 DEF Whole
      <4>2. step' = "status" /\ UNCHANGED applied
        BY <2>1, <2>3, <3>3
      <4>3. NotReachedIsIdle' /\ LoopIsInList'
        BY <4>2
      <4>4. ReceivedIsPassed'
        BY <3>2, <3>3, <4>1, <4>2 DEF Whole
      <4> QED BY <4>3, <4>4
    <3>4. CASE snap # Target
      BY <1>4, <2>1, <2>3, <3>2, <3>4
    <3> QED BY <3>3, <3>4
  <2> QED BY <2>1, <2>2, <2>3
<1>8. CASE Download
  <2>1. UNCHANGED <<step, snap, ret, api, agent, applied>>
    BY <1>8 DEF Download, DownloadStep, callVars
  <2>2. NotReachedIsIdle' /\ LoopIsInList'
    BY <2>1
  <2>3. ReceivedIsPassed'
    BY <2>1 DEF Whole, FirstOfLoop
  <2> QED BY <2>2, <2>3
<1> QED BY <1>5, <1>6, <1>7, <1>8

(* Only the agent of the current snapshot receives, and what it receives   *)
(* is that snapshot.                                                       *)
LEMMA AgentKeepsLoop ==
    ASSUME PollInv, LoopInv, NEW k \in Snapshots, Agent(k)
    PROVE  LoopInv'
<1> SUFFICES ASSUME Answered' PROVE (NotReachedIsIdle /\ LoopIsInList /\ ReceivedIsPassed)'
  BY DEF LoopInv
<1>1. UNCHANGED <<mode, files, faults, step, snap, ret>>
  BY DEF Agent, AgentConnects, AgentReceives, AgentReports, AgentStep, provisionVars, callVars
<1>2. Answered /\ NotReachedIsIdle /\ LoopIsInList /\ ReceivedIsPassed
  BY <1>1 DEF Answered, LoopInv
<1>3. \A S : Whole(S)' = Whole(S)
  BY <1>1 DEF Whole
<1>4. NotReached' = NotReached
  BY <1>1 DEF NotReached
<1>5. NotReached \subseteq Snapshots
  BY TargetAssumption DEF NotReached, PollInv, PollTypes, Snapshots
<1> USE <1>1, <1>2, <1>3, <1>4
    DEF NotReachedIsIdle, LoopIsInList, ReceivedIsPassed, PollInv, PollTypes
<1>6. CASE AgentConnects(k)
  <2>1. /\ api' = api /\ applied' = applied /\ api[k] = "init"
        /\ agent' = [agent EXCEPT ![k] = "receiving"]
    BY <1>6 DEF AgentConnects
  <2>2. NotReachedIsIdle' /\ LoopIsInList'
    BY <2>1
  <2>3. ReceivedIsPassed'
    BY <2>1 DEF Whole, FirstOfLoop
  <2> QED BY <2>2, <2>3
<1>7. CASE AgentReceives(k)
  <2>1. /\ step = "download" /\ snap = k /\ api' = api /\ agent[k] = "receiving"
        /\ \/ /\ files[k] = "whole" /\ applied' = applied \cup {k}
              /\ agent' = [agent EXCEPT ![k] = "received"]
           \/ /\ applied' = applied
              /\ agent' = [agent EXCEPT ![k] = "broke"]
    BY <1>7 DEF AgentReceives, Serves
  <2>2. k \notin NotReached
    BY <2>1
  <2>3. NotReachedIsIdle' /\ LoopIsInList'
    BY <1>5, <2>1, <2>2
  <2>4. api[k] # "done" /\ api' = api /\ ret = "none"
    BY <2>1 DEF FinalIsStopped, Final, OthersAreQuiet
  <2>5. CASE applied' = applied /\ agent' = [agent EXCEPT ![k] = "broke"]
    BY <2>1, <2>4, <2>5 DEF Whole
  <2>6. CASE /\ files[k] = "whole" /\ applied' = applied \cup {k}
             /\ agent' = [agent EXCEPT ![k] = "received"]
    <3>1. Whole(1..k) = Whole(1..(k - 1)) \cup {k}
      BY <2>6, NextWhole
    <3>2. applied' = Whole(1..k)
      BY <2>1, <2>6, <3>1
    <3>3. ReceivedIsPassed'
      BY <2>1, <2>4, <2>6, <3>2 DEF Whole
    <3> QED BY <2>3, <3>3
  <2> QED BY <2>1, <2>5, <2>6
<1>8. CASE AgentReports(k)
  <2>1. /\ applied' = applied /\ agent' = [agent EXCEPT ![k] = "stopped"]
        /\ \/ agent[k] = "received" /\ api' = [api EXCEPT ![k] = "done"]
           \/ (agent[k] # "idle" \/ api[k] = "init") /\ api' = [api EXCEPT ![k] = "failed"]
    BY <1>8 DEF AgentReports
  <2>2. k \notin NotReached
    BY <1>8 DEF AgentReports
  <2>3. NotReachedIsIdle' /\ LoopIsInList'
    BY <1>5, <2>1, <2>2
  <2>4. ReceivedIsPassed'
    BY <2>1 DEF Whole, FirstOfLoop
  <2> QED BY <2>3, <2>4
<1> QED BY <1>6, <1>7, <1>8 DEF Agent

LEMMA OthersKeepLoop ==
    ASSUME LoopInv, UNCHANGED <<faults, callVars, envVars>>
    PROVE  LoopInv'
BY DEF LoopInv, Answered, NotReachedIsIdle, NotReached, LoopIsInList, ReceivedIsPassed,
   FirstOfLoop, Whole, callVars, envVars

LEMMA LoopCorrect == Spec => []LoopInv
<1>1. ASSUME PollInv, LoopInv, [Next]_vars PROVE LoopInv'
  <2>1. CASE Call
    BY <1>1, <2>1, OutsideKeepsLoop, CallKeepsLoop DEF Call
  <2>2. CASE \E k \in Snapshots : CheckRestoreStatus(k)
    BY <1>1, <2>2, OthersKeepLoop DEF CheckRestoreStatus, PollStatus, PollExit, PollStep, provisionVars
  <2>3. CASE \E k \in Snapshots : Agent(k)
    BY <1>1, <2>3, AgentKeepsLoop
  <2>4. CASE Kubernetes /\ UNCHANGED dataVars
    BY <1>1, <2>4, OthersKeepLoop DEF Kubernetes, Namespaces, Claims, ReplicaChanges, Others, dataVars
  <2>5. CASE UNCHANGED vars
    BY <1>1, <2>5, OthersKeepLoop DEF vars, provisionVars, dataVars
  <2> QED BY <1>1, <2>1, <2>2, <2>3, <2>4, <2>5 DEF Next, Terminated
<1>2. LoopInv /\ PollInv /\ [Next]_vars => LoopInv'
  BY <1>1
<1> QED BY <1>2, LoopStarts, PollCorrect, PTL DEF Spec

(* A volume that is returned has received exactly the stored snapshots up  *)
(* to the one that was asked for, in order, for any schedule with any      *)
(* missing and partial files.                                              *)
THEOREM RestoredIsWhole == Spec => []VolumeIsRestored
<1>1. LoopInv => VolumeIsRestored
  BY DEF LoopInv, Answered, ReceivedIsPassed, VolumeIsRestored
<1> QED BY <1>1, LoopCorrect, PTL

-------------------------------------------------------------------------------
(* The snapshots and their Downloads                                       *)

(* No Download runs outside the step of the call that waits for it.        *)
DownloadIsAwaited == step # "download" => phase = "returned"

LEMMA CallAwaits ==
    ASSUME DownloadIsAwaited, Call
    PROVE  /\ DownloadIsAwaited'
           /\ \/ Server!Next \/ Server!Begin \/ Server!Clear
              \/ UNCHANGED Server!transferVars
<1> USE DEF DownloadIsAwaited, Server!transferVars, downloadVars, Returns
<1>1. CASE CreateVolume
  BY <1>1 DEF CreateVolume
<1>2. CASE CloneVolume \/ RestoreVolumeFromLocal
  BY <1>2 DEF CloneVolume, RestoreVolumeFromLocal
<1>3. CASE GetSnapshotList
  BY <1>3 DEF GetSnapshotList
<1>4. CASE FileExists
  BY <1>4 DEF FileExists, NextSnapshot
<1>5. CASE SendRestoreRequest
  <2>1. step = "post" /\ exitServer' = FALSE
    BY <1>5 DEF SendRestoreRequest, RequestWith
  <2>2. \/ phase' = "starting" /\ waiting' = FALSE /\ result' = "none" /\ step' = "download"
        \/ UNCHANGED downloadVars /\ step' = "returned"
    BY <1>5 DEF SendRestoreRequest, RequestWith
  <2> QED BY <2>1, <2>2 DEF Server!Begin, Server!Clear
<1>6. CASE DownloadReturns
  BY <1>6 DEF DownloadReturns
<1>7. CASE CheckStatus \/ Mark
  BY <1>7 DEF CheckStatus, Mark
<1>8. CASE Download
  <2>1. step = "download" /\ step' = step
    BY <1>8 DEF Download, DownloadStep, callVars
  <2>2. Server!Next
    BY <1>8 DEF Download, Server!Next
  <2> QED BY <2>1, <2>2
<1> QED BY <1>1, <1>2, <1>3, <1>4, <1>5, <1>6, <1>7, <1>8 DEF Call

LEMMA OthersAwait ==
    ASSUME DownloadIsAwaited, NEW k \in Snapshots, CheckRestoreStatus(k) \/ Agent(k)
    PROVE  /\ DownloadIsAwaited'
           /\ Server!Next \/ UNCHANGED Server!transferVars
<1> USE DEF DownloadIsAwaited, Server!transferVars, downloadVars, callVars
<1>1. CASE CheckRestoreStatus(k)
  BY <1>1 DEF CheckRestoreStatus, PollStep, PollStatus, PollExit, Server!Next, Server!RequestExit
<1>2. CASE Agent(k)
  BY <1>2 DEF Agent, AgentStep, AgentConnects, AgentReceives, AgentReports
<1> QED BY <1>1, <1>2

(* Whatever fails, and although the goroutine of a snapshot may be at work *)
(* when the next one is asked for, the server of the connection makes one  *)
(* transfer after another, each as Transfer has it: no snapshot's Download *)
(* begins, and ExitServer is not cleared, while one is running.            *)
THEOREM DownloadsAreSeries == Spec => Server!Series
<1>1. Init => DownloadIsAwaited /\ phase = "returned" /\ ~exitServer /\ result = "none"
  BY DEF Init, DownloadIsAwaited
<1>2. DownloadIsAwaited /\ [Next]_vars =>
        /\ DownloadIsAwaited'
        /\ [Server!Next \/ Server!Begin \/ Server!Clear \/ Server!Leave]_(Server!transferVars)
  <2> SUFFICES ASSUME DownloadIsAwaited, [Next]_vars
               PROVE  /\ DownloadIsAwaited'
                      /\ [Server!Next \/ Server!Begin \/ Server!Clear \/ Server!Leave]_(Server!transferVars)
    OBVIOUS
  <2>1. CASE UNCHANGED dataVars \/ UNCHANGED vars
    BY <2>1 DEF DownloadIsAwaited, Server!transferVars, vars, dataVars, downloadVars, callVars
  <2> QED BY <2>1, CallAwaits, OthersAwait DEF Next, Terminated
<1> QED BY <1>1, <1>2, PTL DEF Spec, Server!Series
===============================================================================
