----------------------------- MODULE ZfsIncremental -----------------------------
(***************************************************************************)
(* The incremental backups of one volume under one schedule in the ZFS     *)
(* plugin: which snapshot a new backup is relative to (getPrevSnap in      *)
(* pkg/zfs/plugin/backup.go) and which backups a restore puts together     *)
(* (getSnapList and doRestore in restore.go, over                          *)
(* Conn.GetSnapListFromCloud).                                             *)
(*                                                                         *)
(* Backups are numbered in the order of their timestamps, which is the     *)
(* order of sort.Strings on their names.  Two records are kept of them and *)
(* counted separately: the ZFSBackup resources in the cluster, and the     *)
(* directories of the bucket.                                              *)
(***************************************************************************)
EXTENDS Integers, FiniteSets

CONSTANTS
    N,            \* backups the schedule makes
    incremental,  \* incrBackupCount
    Envs          \* each a set of things that may happen to backups, see EnvKinds

(* "fail": a transfer may fail; "undeleted": deleting the resource of a    *)
(* failed backup may fail; "crash": the plugin may stop during a backup;   *)
(* "expire": velero deletes the oldest backup; "retire": the oldest group  *)
(* of backups, a full one and those relative to it, is deleted as a whole; *)
(* "restore": backups are restored; "leftover": in a restore requests may  *)
(* be executed and still fail, or not clean up, and the plugin may stop.   *)
EnvKinds == {"fail", "undeleted", "crash", "expire", "retire", "restore", "leftover"}

ASSUME NAssumption == N \in Nat
ASSUME IncrementalAssumption == incremental \in Nat \ {0}
ASSUME EnvsAssumption == Envs \subseteq SUBSET EnvKinds

VARIABLES
    env,      \* the one of Envs that a behaviour is in
    n,        \* number of the current backup, 0 before the first
    step,     \* where its doBackup is: "idle", "create", "poll", "panic"
    crs,      \* ZFSBackup resources: backup -> "none", "init", "done", "failed"
    prevSnap, \* Spec.PrevSnapName of a resource, 0 when empty
    dirs,     \* backups with a file of the volume in the bucket
    data,     \* backup -> what its object is relative to, NoData without one
    kept      \* backups whose snapshot id velero holds

vars == <<env, n, step, crs, prevSnap, dirs, data, kept>>

Backups == 1..N
NoData  == -1

Init ==
    /\ env  \in Envs
    /\ n    = 0
    /\ step = "idle"
    /\ crs  = [b \in Backups |-> "none"]
    /\ prevSnap = [b \in Backups |-> 0]
    /\ dirs = {}
    /\ data = [b \in Backups |-> NoData]
    /\ kept = {}

Resources == {b \in Backups : crs[b] # "none"}
Done      == {b \in Backups : crs[b] = "done"}

count == incremental + 1

Last(S) == CHOOSE b \in S : \A x \in S : x <= b
-------------------------------------------------------------------------------
(* doBackup                                                                *)

(* uploadZFSVolume: from here on the bucket lists the backup's directory.  *)
Describe ==
    /\ step = "idle" /\ n < N
    /\ n' = n + 1
    /\ dirs' = dirs \cup {n + 1}
    /\ step' = "create"
    /\ UNCHANGED <<crs, prevSnap, data, kept>>

(* The server does not get ready: the call fails before the resource.      *)
NotReady ==
    /\ "fail" \in env
    /\ step = "create"
    /\ step' = "idle"
    /\ UNCHANGED <<n, crs, prevSnap, dirs, data, kept>>

(* getPrevSnap: a full backup when the resources fill whole groups, else   *)
(* the last resource in status Done.  backups[size-1] needs one.           *)
(*                                                                         *)
(* Variant: the full backup is not counted in its group.                   *)
NeedsFullShort == Cardinality(Resources) % incremental = 0

NeedsFull == Cardinality(Resources) % count = 0

PrevDefined == NeedsFull \/ Done # {}

(* Variant: the last resource in any status.                               *)
GetPrevSnapAny == IF NeedsFull THEN 0 ELSE Last(Resources)

GetPrevSnap == IF NeedsFull THEN 0 ELSE Last(Done)

CreateBackup ==
    /\ step = "create"
    /\ IF PrevDefined
       THEN /\ step' = "poll"
            /\ crs' = [crs EXCEPT ![n] = "init"]
            /\ prevSnap' = [prevSnap EXCEPT ![n] = GetPrevSnap]
       ELSE /\ step' = "panic"
            /\ UNCHANGED <<crs, prevSnap>>
    /\ UNCHANGED <<n, dirs, data, kept>>

(* The agent has sent the stream and reported Done.                        *)
Succeed ==
    /\ step = "poll"
    /\ step' = "idle"
    /\ crs'  = [crs EXCEPT ![n] = "done"]
    /\ data' = [data EXCEPT ![n] = prevSnap[n]]
    /\ kept' = kept \cup {n}
    /\ UNCHANGED <<n, prevSnap, dirs>>

(* Variant: the resource of a failed backup stays.                         *)
FailKeepsResource ==
    /\ "fail" \in env
    /\ step = "poll"
    /\ step' = "idle"
    /\ crs' = [crs EXCEPT ![n] = "failed"]
    /\ UNCHANGED <<n, prevSnap, dirs, data, kept>>

(* checkBackupStatus has an error: deleteBackup, whose error is ignored.   *)
Fail ==
    /\ "fail" \in env
    /\ step = "poll"
    /\ step' = "idle"
    /\ \/ crs' = [crs EXCEPT ![n] = "none"]
       \/ "undeleted" \in env /\ crs' = [crs EXCEPT ![n] = "failed"]
    /\ UNCHANGED <<n, prevSnap, dirs, data, kept>>

(* The plugin's process ends before velero has the snapshot id: the agent  *)
(* never starts, loses its server, or has just finished.                   *)
Crash ==
    /\ "crash" \in env
    /\ step \in {"create", "poll"}
    /\ step' = "idle"
    /\ \/ step = "create" /\ UNCHANGED <<crs, data>>
       \/ step = "poll" /\ data' = data /\ \E s \in {"init", "failed"} : crs' = [crs EXCEPT ![n] = s]
       \/ step = "poll" /\ crs' = [crs EXCEPT ![n] = "done"] /\ data' = [data EXCEPT ![n] = prevSnap[n]]
    /\ UNCHANGED <<n, prevSnap, dirs, kept>>
-------------------------------------------------------------------------------
(* Expiry: DeleteSnapshot deletes the resource, velero the directory       *)

Forget(S) ==
    /\ crs'  = [b \in Backups |-> IF b \in S THEN "none" ELSE crs[b]]
    /\ data' = [b \in Backups |-> IF b \in S THEN NoData ELSE data[b]]
    /\ dirs' = dirs \ S
    /\ kept' = kept \ S
    /\ UNCHANGED <<n, step, prevSnap>>

Expire(b) ==
    /\ "expire" \in env
    /\ step = "idle"
    /\ b \in kept
    /\ \A x \in kept : b <= x
    /\ Forget({b})

(* The oldest group, complete and followed by another one.                 *)
Group(b) == (b - 1) \div count

Retire(b) ==
    /\ "retire" \in env
    /\ step = "idle"
    /\ b \in kept
    /\ \A x \in kept : b <= x
    /\ \E x \in kept : Group(x) > Group(b)
    /\ Forget({x \in Backups : Group(x) = Group(b)})

Next ==
    /\ \/ Describe \/ NotReady \/ CreateBackup \/ Succeed \/ Fail \/ Crash
       \/ \E b \in Backups : Expire(b) \/ Retire(b)
    /\ env' = env

Spec == Init /\ [][Next]_vars
-------------------------------------------------------------------------------
(* Restore                                                                 *)

(* The position of a backup in the sorted list of directories, from zero.  *)
Index(b) == Cardinality({x \in dirs : x < b})

(* getSnapList: the list from the full backup's index to the backup's own. *)
FullIndex(b) == (Index(b) \div count) * count

SnapList(b) ==
    LET full == FullIndex(b) IN {x \in dirs : x <= b /\ Index(x) >= full}

(* doRestore can receive the streams one after another: the first is a     *)
(* full one, and each other one is relative to the one before.             *)
Restorable(b) ==
    LET list == SnapList(b) IN
    \A x \in list :
        IF \A y \in list : x <= y
        THEN data[x] = 0
        ELSE data[x] = Last({y \in list : y < x})
-------------------------------------------------------------------------------
(* Properties                                                              *)

(* "to get the closest full snapshot index for the backup"                 *)
(* (restore.go:317): the list of getSnapList starts at the full backup its *)
(* target goes back to, and every backup velero holds can be restored by   *)
(* doRestore, though the groups were cut by counting resources and are cut *)
(* again by counting directories.                                          *)
AllRestorable == \A b \in kept : Restorable(b)

(* That is so as long as backups neither fail nor expire one by one.       *)
RestorableUndisturbed ==
    env \subseteq {"retire", "restore", "leftover"} => AllRestorable

(* An incremental stream is relative to a backup whose own stream is in    *)
(* the bucket, after any failures and restarts of the plugin, as long as   *)
(* nothing is deleted.                                                     *)
DeltaHasBase ==
    env \cap {"expire", "retire"} = {} =>
        \A b \in Backups : data[b] > 0 => data[data[b]] # NoData

(* getPrevSnap takes the last element of the list of successful backups,   *)
(* which panics when there is none.  Failures and expiry do not empty the  *)
(* list within a group; a restart of the plugin or a resource that could   *)
(* not be deleted can.                                                     *)
NeverPanics == env \cap {"undeleted", "crash"} = {} => step # "panic"
===============================================================================
