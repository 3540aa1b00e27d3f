----------------------------- MODULE CstorProvision -----------------------------
(***************************************************************************)
(* What a cStor restore asks of Kubernetes: before the data, createPVC     *)
(* (pkg/cstor/pvc_operation.go), which makes or finds the claim and waits  *)
(* for the replicas of its volume; after the data,                         *)
(* markCVRsAsRestoreCompleted (cvr_operation.go).  Every wait is a loop    *)
(* with a counter, so it ends although nothing happens.                    *)
(*                                                                         *)
(* The claim and the namespace may be what an earlier restore, that        *)
(* failed, has left.  Controllers and users act between any two steps.     *)
(***************************************************************************)
EXTENDS Integers

CONSTANTS
    Replicas,  \* the replicas of the volume, ReplicationFactor of them
    WaitCount, \* stands for PVCWaitCount, CVRWaitCount and NamespaceCreateTimeout
    Faults     \* sets of what may go wrong, see ProvisionFaultKinds

(* "read", "update": a call of the API server fails; "lost": the claim is  *)
(* lost, or cannot be read, while it is waited for; "touch": others write  *)
(* to the claim and the replicas; "offline": replicas go offline;          *)
(* "namespace": others create or delete the namespace; "newer": a restore  *)
(* that was created later has been left in progress; "bare": replicas have *)
(* no annotations.                                                         *)
ProvisionFaultKinds ==
    {"read", "update", "lost", "touch", "offline", "namespace", "newer", "bare"}

ASSUME WaitAssumption == WaitCount \in Nat \ {0}

VARIABLES
    faults,     \* the one of Faults that a behaviour is in
    inProgress, \* velero's restores of this backup in phase InProgress
    target,     \* the one whose namespace mapping is used, 0 before
    at,         \* where createPVC or the marking is
    polls,      \* how often the current loop has waited
    namespace,  \* "absent", "active" or "terminating"
    pvc,        \* the claim: "absent", "pending", "bound" or "lost"
    annotated,  \* it has the annotation PVCreatedByKey
    fresh,      \* it has not changed since it was read
    replica,    \* replica -> "none", "offline" or "valid"
    listed,     \* replicas that are still to be marked
    changed,    \* replicas that have changed since they were listed
    marked,     \* replicas that are annotated as restored
    errs        \* an update of a replica has failed

claimVars   == <<namespace, pvc, annotated, fresh>>
markVars    == <<listed, changed, marked, errs>>
provisionVars == <<faults, inProgress, target, at, polls, claimVars, replica, markVars>>

(* Restores are numbered as they were created; this is the second of them. *)
Own == 2

ProvisionInit ==
    /\ faults \in Faults
    /\ inProgress \in {{Own}, {1, Own}, {Own, 3}}
    /\ 3 \in inProgress => "newer" \in faults
    /\ target = 0 /\ at = "download" /\ polls = 0
    /\ namespace \in {"absent", "active", "terminating"}
    /\ pvc \in {"absent", "pending", "bound", "lost"} /\ annotated \in BOOLEAN
    /\ pvc = "absent" => ~annotated
    /\ pvc # "absent" => namespace = "active"
    /\ fresh = FALSE
    /\ replica \in [Replicas -> {"none", "valid"}]
    /\ pvc # "bound" => \A r \in Replicas : replica[r] = "none"
    /\ listed = {} /\ changed = {} /\ marked = {} /\ errs = FALSE
-------------------------------------------------------------------------------
(* createPVC                                                               *)

At(label) == at = label /\ UNCHANGED <<faults, inProgress>>
Goto(label) == at' = label /\ polls' = 0
Fails(kind) == kind \in faults /\ Goto("failed")

(* The loop waits, or is given up.                                         *)
Wait ==
    IF polls + 1 < WaitCount THEN polls' = polls + 1 /\ at' = at ELSE Goto("failed")

(* Variant: the list of restores is not reversed.                          *)
OldestRestore(S) == CHOOSE r \in S : \A x \in S : r <= x

NewestRestore(S) == CHOOSE r \in S : \A x \in S : x <= r

(* downloadPVC, and GetRestoreNamespace for the namespace it was in.       *)
GetRestoreNamespace ==
    /\ At("download")
    /\ \/ target' = NewestRestore(inProgress) /\ Goto("namespace")
       \/ target' = target /\ Fails("read")
    /\ UNCHANGED <<claimVars, replica, markVars>>

(* EnsureNamespaceOrCreate: a namespace that is being deleted is waited    *)
(* for, to be created again.                                               *)
CheckNamespace ==
    /\ At("namespace")
    /\ \/ namespace = "active" /\ Goto("lookup")
       \/ namespace = "absent" /\ Goto("create_namespace")
       \/ namespace = "terminating" /\ Wait
       \/ Fails("read")
    /\ UNCHANGED <<target, claimVars, replica, markVars>>

CreateNamespace ==
    /\ At("create_namespace")
    /\ IF namespace = "absent"
       THEN namespace' = "active" /\ Goto("lookup")
       ELSE namespace' = namespace /\ Goto("failed")
    /\ UNCHANGED <<target, pvc, annotated, fresh, replica, markVars>>

(* getVolumeFromPVC takes a claim that is there, unless it is lost or has  *)
(* no volume yet.                                                          *)
GetVolumeFromPVC ==
    /\ At("lookup")
    /\ \/ pvc = "absent" /\ Goto("create") /\ fresh' = fresh
       \/ pvc = "bound" /\ Goto("pv") /\ fresh' = TRUE
       \/ pvc \in {"pending", "lost"} /\ Goto("failed") /\ fresh' = fresh
       \/ Fails("read") /\ fresh' = fresh
    /\ UNCHANGED <<target, namespace, pvc, annotated, replica, markVars>>

CreatePVC ==
    /\ At("create")
    /\ IF pvc = "absent" /\ namespace = "active"
       THEN pvc' = "pending" /\ annotated' = TRUE /\ Goto("bind")
       ELSE UNCHANGED <<pvc, annotated>> /\ Goto("failed")
    /\ UNCHANGED <<target, namespace, fresh, replica, markVars>>

(* A claim that is lost, or cannot be read, is deleted.  The error is made *)
(* from that of the deletion: when it succeeds there is neither a volume   *)
(* nor an error.                                                           *)
GivePVCUp ==
    /\ "lost" \in faults /\ pvc # "absent"
    /\ \/ pvc' = "absent" /\ annotated' = FALSE /\ Goto("nil")
       \/ Fails("update") /\ UNCHANGED <<pvc, annotated>>
    /\ fresh' = FALSE

WaitForPVC ==
    /\ At("bind")
    /\ \/ pvc = "bound" /\ Goto("pv") /\ fresh' = TRUE /\ UNCHANGED <<pvc, annotated>>
       \/ pvc = "pending" /\ Wait /\ UNCHANGED <<pvc, annotated, fresh>>
       \/ pvc = "absent" /\ Goto("failed") /\ UNCHANGED <<pvc, annotated, fresh>>
       \/ GivePVCUp
    /\ UNCHANGED <<target, namespace, replica, markVars>>

(* getPV, and getCVRCount for the number of replicas.                      *)
GetPV ==
    /\ At("pv")
    /\ Goto("replicas") \/ Fails("read")
    /\ UNCHANGED <<target, claimVars, replica, markVars>>

(* Variant: the list is not compared with the number of replicas.          *)
ListedAreValid == \A r \in Replicas : replica[r] \in {"none", "valid"}

AllAreValid == \A r \in Replicas : replica[r] = "valid"

(* waitForAllCVRs.                                                         *)
WaitForAllCVRs(label, then) ==
    /\ At(label)
    /\ \/ AllAreValid /\ Goto(then)
       \/ ~AllAreValid /\ Wait
       \/ Fails("read")
    /\ UNCHANGED <<target, claimVars, replica, markVars>>

(* removePVCAnnotationKey writes the claim as it was read before the wait: *)
(* the API server refuses it when it has changed.  A claim that is bound   *)
(* has annotations.                                                        *)
RemovePVCAnnotationKey ==
    /\ At("annotation")
    /\ \/ fresh /\ annotated' = FALSE /\ Goto("ready")
       \/ ~fresh /\ annotated' = annotated /\ Goto("failed")
       \/ Fails("update") /\ annotated' = annotated
    /\ UNCHANGED <<target, namespace, pvc, fresh, replica, markVars>>

CreatesPVC ==
    \/ GetRestoreNamespace \/ CheckNamespace \/ CreateNamespace \/ GetVolumeFromPVC
    \/ CreatePVC \/ WaitForPVC \/ GetPV
    \/ WaitForAllCVRs("replicas", "annotation")
    \/ RemovePVCAnnotationKey
-------------------------------------------------------------------------------
(* markCVRsAsRestoreCompleted                                              *)

MarkCVRs ==
    /\ At("ready")
    /\ Goto("valid") \/ Fails("read")
    /\ UNCHANGED <<target, claimVars, replica, markVars>>

ListCVRs ==
    /\ At("list")
    /\ \/ listed' = {r \in Replicas : replica[r] # "none"} /\ Goto("mark")
       \/ Fails("read") /\ listed' = listed
    /\ changed' = {}
    /\ UNCHANGED <<target, claimVars, replica, marked, errs>>

(* Variant: an update that fails is only logged.                           *)
UpdateLogged(r) ==
    /\ At("mark") /\ r \in listed
    /\ listed' = listed \ {r}
    /\ marked' = IF r \in changed THEN marked ELSE marked \cup {r}
    /\ UNCHANGED <<target, at, polls, claimVars, replica, changed, errs>>

(* Update refuses a replica that has changed; the others are still marked. *)
(* The map of a replica without annotations is nil, and it is written to.  *)
UpdateCVR(r) ==
    /\ At("mark") /\ r \in listed
    /\ listed' = listed \ {r}
    /\ \/ UNCHANGED <<at, polls>> /\ r \notin changed /\ marked' = marked \cup {r} /\ errs' = errs
       \/ /\ UNCHANGED <<at, polls, marked>> /\ errs' = TRUE
          /\ r \in changed \/ "update" \in faults
       \/ "bare" \in faults /\ Goto("nil") /\ UNCHANGED <<marked, errs>>
    /\ UNCHANGED <<target, claimVars, replica, changed>>

MarkingEnds ==
    /\ At("mark") /\ listed = {}
    /\ Goto(IF errs THEN "failed" ELSE "marked")
    /\ UNCHANGED <<target, claimVars, replica, markVars>>

MarksCVRs ==
    \/ MarkCVRs \/ WaitForAllCVRs("valid", "list") \/ ListCVRs
    \/ (\E r \in Replicas : UpdateCVR(r)) \/ MarkingEnds
-------------------------------------------------------------------------------
(* Kubernetes, its controllers and other users.  What they do is followed  *)
(* while the plugin is at work on what they change.                        *)

Others == UNCHANGED <<faults, inProgress, target, at, polls>>

AtClaim ==
    at \in {"namespace", "create_namespace", "lookup", "create", "bind", "pv", "replicas", "annotation"}

Namespaces ==
    /\ Others /\ AtClaim
    /\ \/ namespace = "terminating" /\ pvc = "absent" /\ namespace' = "absent"
       \/ "namespace" \in faults /\ namespace = "active" /\ namespace' = "terminating"
       \/ "namespace" \in faults /\ namespace = "absent" /\ namespace' = "active"
    /\ UNCHANGED <<pvc, annotated, fresh, replica, markVars>>

Claims ==
    /\ Others /\ AtClaim
    /\ \/ pvc = "pending" /\ pvc' = "bound" /\ annotated' = annotated
       \/ "lost" \in faults /\ pvc \in {"pending", "bound"} /\ pvc' = "lost" /\ annotated' = annotated
       \/ "touch" \in faults /\ fresh /\ UNCHANGED <<pvc, annotated>>
       \/ namespace = "terminating" /\ pvc # "absent" /\ pvc' = "absent" /\ annotated' = FALSE
    /\ fresh' = FALSE
    /\ UNCHANGED <<namespace, replica, markVars>>

ReplicaChanges(r) ==
    /\ Others
    /\ at \in {"replicas", "annotation", "valid", "list", "mark"} /\ pvc = "bound"
    /\ \/ replica[r] \in {"none", "offline"} /\ replica' = [replica EXCEPT ![r] = "valid"]
       \/ replica[r] = "none" /\ replica' = [replica EXCEPT ![r] = "offline"]
       \/ "offline" \in faults /\ replica[r] = "valid" /\ replica' = [replica EXCEPT ![r] = "offline"]
       \/ "touch" \in faults /\ r \in listed \ changed /\ replica' = replica
    /\ changed' = IF at = "mark" THEN changed \cup {r} ELSE changed
    /\ UNCHANGED <<claimVars, listed, marked, errs>>

Kubernetes == Namespaces \/ Claims \/ \E r \in Replicas : ReplicaChanges(r)
-------------------------------------------------------------------------------
(* Properties                                                              *)

(* When createPVC returns a volume, whether it has made the claim or found *)
(* one that an earlier restore left half-way, the claim is bound in the    *)
(* namespace this restore maps to, the annotation that keeps the API       *)
(* server from setting target addresses is gone, and every replica exists, *)
(* though others may delete the claim with its namespace at any time.  The *)
(* namespace takes velero's restores to run in the order of creation; it   *)
(* may be on its way out if others have deleted it.                        *)
ReadyToReceive ==
    at = "ready" =>
        /\ pvc = "bound" /\ ~annotated
        /\ namespace = "active" \/ (namespace = "terminating" /\ "namespace" \in faults)
        /\ target = Own \/ "newer" \in faults
        /\ \A r \in Replicas : replica[r] # "none"

(* When the marking succeeds every replica is marked, although replicas    *)
(* are listed, and then updated one by one, while their controller writes  *)
(* to them.                                                                *)
AllAreMarked == at = "marked" => marked = Replicas
===============================================================================
