----------------------------- MODULE SnapshotNames -----------------------------
(***************************************************************************)
(* The names under which both plugins keep the snapshots of a volume: the  *)
(* snapshot ids velero holds, the schedule found in a backup's name, the   *)
(* files in the bucket and the list of a schedule's backups that           *)
(* Conn.GetSnapListFromCloud finds there again by prefixes                 *)
(* (pkg/zfs/utils/utils.go, pkg/cstor/cstor.go and pv_operation.go,        *)
(* pkg/clouduploader/operation.go).                                        *)
(*                                                                         *)
(* A name is a sequence of tokens.  What the code looks for in a string is *)
(* a token: the separators, and the timestamps velero appends to a         *)
(* schedule's name.                                                        *)
(***************************************************************************)
EXTENDS Integers, Sequences, FiniteSets, SequencesExt

CONSTANTS
    Setups, \* each a plugin, "zfs" or "cstor", the names of the velero schedules
            \* that include the volume and of the backups made without one
    TokenOrder, \* the tokens, in the order in which sort.Strings has them
    Rounds  \* backups a schedule makes

Stamps == <<"20240101000000", "20240102000000", "20240103000000">>

Rank(token) == CHOOSE i \in DOMAIN TokenOrder : TokenOrder[i] = token

volume == <<"pvc">>

ASSUME SetupsAssumption ==
    \A s \in Setups :
        /\ s.plugin \in {"zfs", "cstor"}
        /\ \A name \in s.schedules \cup s.singles : name \in Seq(Range(TokenOrder)) /\ name # <<>>

ASSUME TokensAssumption ==
    /\ TokenOrder \in Seq(STRING)
    /\ {"-", ".", "pvc", "-velero-bkp-"} \cup Range(Stamps) \subseteq Range(TokenOrder)

(* What both plugins take for granted: nobody gives a backup a name with   *)
(* the separator of the cStor ids in it, or with a timestamp at its end,   *)
(* and no schedule is named after a volume, whose names are generated.     *)
ASSUME NamesAssumption ==
    \A s \in Setups :
        /\ s.plugin = "cstor" =>
               \A name \in s.schedules \cup s.singles : "-velero-bkp-" \notin Range(name)
        /\ s.plugin = "zfs" =>
               \A name \in s.schedules : Range(name) \cap Range(volume) = {}
        /\ \A name \in s.singles : Last(name) \notin Range(Stamps)
ASSUME RoundsAssumption == Rounds \in 0..Len(Stamps)

VARIABLES setup,   \* the one of Setups that a behaviour is in
          backups, \* the backups made: name, schedule (<<>> without one), id
          target   \* the one a restore is asked for, <<>> before

vars == <<setup, backups, target>>
-------------------------------------------------------------------------------
(* strings                                                                 *)

Cuts(s, sep) == {0, Len(s) + 1} \cup {i \in 1..Len(s) : s[i] = sep}

Below(S, i) == Cardinality({j \in S : j < i})

Cut(S, k) == CHOOSE i \in S : Below(S, i) = k

(* strings.Split: what is between one cut and the next.                    *)
Split(s, sep) ==
    LET cuts == Cuts(s, sep)
    IN  [k \in 1..(Cardinality(cuts) - 1) |-> SubSeq(s, Cut(cuts, k - 1) + 1, Cut(cuts, k) - 1)]

HasStamp(s) == Len(s) = 1 /\ s[1] \in Range(Stamps)

Less(s, u) ==
    \/ IsStrictPrefix(s, u)
    \/ \E i \in 1..Len(s) :
        /\ i <= Len(u)
        /\ SubSeq(s, 1, i - 1) = SubSeq(u, 1, i - 1)
        /\ Rank(s[i]) < Rank(u[i])
-------------------------------------------------------------------------------
(* The ids                                                                 *)

(* GetScheduleName and getScheduleName: the name up to its timestamp.      *)
WithoutStamp(name, otherwise) ==
    LET parts == Split(name, "-") IN
    IF Len(parts) >= 2 /\ HasStamp(Last(parts))
    THEN SubSeq(name, 1, Len(name) - 2)
    ELSE otherwise

GetScheduleName(name) ==
    IF setup.plugin = "zfs" THEN WithoutStamp(name, <<>>) ELSE WithoutStamp(name, name)

(* Ids of the ZFS plugin had no schedule once.                             *)
GenerateSnapshotID(schedule, name, old) ==
    CASE setup.plugin = "cstor"       -> volume \o <<"-velero-bkp-">> \o name
      [] setup.plugin = "zfs" /\ old  -> volume \o <<".">> \o name
      [] setup.plugin = "zfs" /\ ~old -> volume \o <<".">> \o schedule \o <<".">> \o name

NoInfo == <<>>

(* Variant: ids without a schedule are not known any more.                 *)
GetInfoFromSnapshotIDNew(id) ==
    LET parts == Split(id, IF setup.plugin = "zfs" THEN "." ELSE "-velero-bkp-") IN
    CASE setup.plugin = "cstor" /\ Len(parts) = 2 -> <<parts[1], GetScheduleName(parts[2]), parts[2]>>
      [] setup.plugin = "zfs" /\ Len(parts) = 3   -> parts
      [] OTHER -> NoInfo

(* Volume, schedule and backup of an id.  In the cStor plugin, the caller  *)
(* asks getScheduleName for the schedule.                                  *)
GetInfoFromSnapshotID(id) ==
    LET parts == Split(id, IF setup.plugin = "zfs" THEN "." ELSE "-velero-bkp-") IN
    CASE Len(parts) = 2 -> <<parts[1], GetScheduleName(parts[2]), parts[2]>>
      [] setup.plugin = "zfs" /\ Len(parts) = 3 -> parts
      [] OTHER -> NoInfo
-------------------------------------------------------------------------------
(* The bucket                                                              *)

(* GenerateRemoteFileWithSchd and GenerateRemoteFilename: the file in the  *)
(* directory that has the backup's name.                                   *)
RemoteFile(b) ==
    (IF setup.plugin = "zfs" /\ b.schedule # <<>> THEN b.schedule \o <<"-">> ELSE <<>>)
        \o volume \o <<"-">> \o b.name

(* GetFileNameWithSchd, or the snapshotTag.                                *)
FileName(schedule) ==
    IF setup.plugin = "zfs" THEN schedule \o <<"-">> \o volume ELSE volume

(* GetSnapListFromCloud: the directories with the prefix that have a file  *)
(* with the prefix.                                                        *)
GetSnapListFromCloud(schedule) ==
    {b.name : b \in {x \in backups :
                        IsPrefix(schedule, x.name) /\ IsPrefix(FileName(schedule), RemoteFile(x))}}

(* Variant: the list is not cut at the backup that is asked for.           *)
ToRestoreAll(info) == GetSnapListFromCloud(info[2])

(* The list of a restore, up to the backup that is asked for: getSnapList, *)
(* before it drops whole groups, and restoreVolumeFromCloud.               *)
ToRestore(info) ==
    IF setup.plugin = "zfs" /\ info[2] = <<>>
    THEN {info[3]}
    ELSE {s \in GetSnapListFromCloud(info[2]) : s = info[3] \/ Less(s, info[3])}
-------------------------------------------------------------------------------
Init == setup \in Setups /\ backups = {} /\ target = NoInfo

Backup(schedule, name, old) ==
    backups' = backups \cup
        {[name |-> name, schedule |-> schedule, id |-> GenerateSnapshotID(schedule, name, old)]}

Made(schedule) == {b \in backups : b.schedule = schedule}

ScheduledBackup(schedule) ==
    /\ Cardinality(Made(schedule)) < Rounds
    /\ \E old \in BOOLEAN :
        Backup(schedule, schedule \o <<"-", Stamps[Cardinality(Made(schedule)) + 1]>>, old)
    /\ UNCHANGED target

SingleBackup(name) ==
    /\ \A b \in backups : b.name # name
    /\ \E old \in BOOLEAN : Backup(<<>>, name, old)
    /\ UNCHANGED target

Restore(b) ==
    /\ target # b.id
    /\ target' = b.id
    /\ UNCHANGED backups

Next ==
    /\ \/ \E s \in setup.schedules : ScheduledBackup(s)
       \/ \E name \in setup.singles : SingleBackup(name)
       \/ \E b \in backups : Restore(b)
    /\ setup' = setup

Spec == Init /\ [][Next]_vars
-------------------------------------------------------------------------------
(* Properties                                                              *)

(* The schedule a backup counts to: its own name when it has none.         *)
ScheduleOf(b) == IF b.schedule = <<>> /\ setup.plugin = "cstor" THEN b.name ELSE b.schedule

(* The ZFS plugin splits its ids at dots, which velero allows in names.    *)
Undotted(b) == setup.plugin = "zfs" => "." \notin Range(b.name)

(* "GetInfoFromSnapshotID return backup, schdname and volume id from the   *)
(* given snapshotID" (utils.go:60), of new ids and of old ones, when the   *)
(* name of the backup has no dot.                                          *)
IdsAreRead ==
    \A b \in backups :
        Undotted(b) => GetInfoFromSnapshotID(b.id) = <<volume, ScheduleOf(b), b.name>>

(* Names of schedules that begin alike are told apart by the ZFS plugin    *)
(* only, whose files begin with the schedule's name.                       *)
ToldApart ==
    setup.plugin = "cstor" =>
        \A s, u \in setup.schedules \cup setup.singles : s # u => ~IsPrefix(s, u)

(* "GetSnapListFromCloud gets the list of a snapshot for the given backup  *)
(* name" (operation.go:244): a restore puts together the snapshots of the  *)
(* schedule up to the one it is asked for, and those of no other backup    *)
(* whose name begins alike.                                                *)
RestoresOwnSchedule ==
    \A b \in backups :
        ToldApart /\ Undotted(b) /\ b.id = target =>
            ToRestore(GetInfoFromSnapshotID(target)) =
                {x.name : x \in {y \in backups :
                                    ScheduleOf(y) = ScheduleOf(b) /\ (y = b \/
                                        (b.schedule # <<>> /\ Less(y.name, b.name)))}}
===============================================================================
