# A TLA+ model of the OpenEBS velero-plugin

The repository is a velero plugin with two storage back ends, cStor and
ZFS-LocalPV. A backup asks the storage for a snapshot; a storage agent then
opens a TCP connection to the plugin and sends the snapshot, which the plugin
copies into an object of a bucket. A restore goes the other way.

This directory models that program: modules (`*.tla`), their instances for TLC
(`MC*.tla` and `*.cfg`), proofs for TLAPS (`*_proofs.tla`,
`*_listproofs.tla`), and `PROJECT.json`, which maps definitions to source lines
and lists runs, mutants, hazards, findings and theorems.

## 1. The system

| component | source | state | operations | interacts with |
|---|---|---|---|---|
| transfer server | `pkg/clouduploader/server.go`, `server_utils.go` | descriptors, epoll registrations, the client list (`FirstClient`, `LastClient`, `next`), three counters, per client a status and an object reader or writer | `Run`, `acceptClient`, `handleRead`, `handleWrite`, `SendData`, `RecvData`, `handleClientError`, `disconnectAllClient` | peers over TCP; the bucket; `Conn.ExitServer`, which another goroutine sets |
| cloud connection | `conn.go`, `operation.go` | one `Conn` for all volumes: `ExitServer`, `ConnReady`, `file`, `partSize` | `Upload`, `Download`, `Create`, `Destroy`, `Delete`, `GetSnapListFromCloud`, `ConnReadyWait` | called by the plugins, runs the server |
| cStor backup | `pkg/cstor/cstor.go`, `status.go`, `api_service.go` | `volumes`, `backupStatus`, a polling goroutine per call | `CreateSnapshot`, `backupPVC`, `sendBackupRequest`, `checkBackupStatus`, `cleanupCompletedBackup` | REST server, agents in the pools, `Conn` |
| cStor restore | `pv_operation.go`, `status.go` | `restoreStatus`, a goroutine per snapshot | `CreateVolumeFromSnapshot`, `restoreVolumeFromCloud`, `checkRestoreStatus` | the same |
| cStor provisioning | `pvc_operation.go`, `cvr_operation.go`, `pkg/velero/restore.go` | PVCs, PVs, namespaces, replicas in Kubernetes | `createPVC`, `EnsureNamespaceOrCreate`, `removePVCAnnotationKey`, `waitForAllCVRs`, `markCVRsAsRestoreCompleted` | Kubernetes, its controllers and other users |
| cStor deletion | `cstor.go` | backups and objects | `DeleteSnapshot` | REST server, bucket |
| set-up of both plugins | `cstor.go`, `zfs.go` | addresses, the configuration | `Init`, `GetVolumeID`, `SetVolumeID` | not modelled |
| ZFS backup | `pkg/zfs/plugin/backup.go`, `zfs.go` | `ZFSBackup` resources, `incremental` | `CreateSnapshot` (`doBackup`, `doUpload`, `createBackup`, `getPrevSnap`, `checkBackupStatus`), `DeleteSnapshot` | Kubernetes, node agent, `Conn` |
| ZFS restore | `restore.go` | `ZFSRestore` resources, `ZFSVolume` | `getSnapList`, `doRestore`, `dataRestore`, `doDownload`, `buildZFSVolume`, `createZFSVolume`, `checkVolCreation` | the same |
| ids and names | `pkg/zfs/utils/utils.go`, `cstor.go`, `operation.go` | none | `GenerateSnapshotID`, `GetInfoFromSnapshotID`, schedule names, file names, listing by prefix | used by all |
| velero helpers | `pkg/velero` | velero's restores | `GetRestoreNamespace`, `GetTargetNode` | called by both restores |
| entry points, tests | `pkg/snapshot`, `velero-blockstore-openebs`, `tests` | none | delegation | not modelled |

What is hard in it:

* one goroutine serves all connections with edge-triggered epoll, and another
  one asks it to stop: a report that is forgotten hangs a backup, an exit at
  the wrong moment truncates an object;
* the client list is a hand-made singly linked list whose `LastClient` is not
  repaired when the last client leaves;
* `doBackup` and `doUpload` wait for each other through a channel, a flag and a
  wait group, and share a channel pointer that is set to nil at the end;
* in cStor every call starts a goroutine that may outlive it and that sets the
  one `ExitServer` flag of the next call;
* increments are grouped by counting Kubernetes resources when they are made
  and by counting directories of the bucket when they are restored;
* Kubernetes is shared: a claim, a namespace or a replica is read, and written
  later, while its controller and users write to it too;
* what a failed restore has left (a claim, a dataset, a resource) is what the next
  one finds;
* a call fails half-way: an API answer is lost, an agent dies, the bucket does
  not answer, the plugin restarts.

What should make it right: an id that `CreateSnapshot` returns stands for a whole
stored object; a volume that a restore returns holds exactly the snapshots it
should; an increment has its base; every call comes back; the server stops when
told and never before everything it was sent is read. The code does not quite keep
the first and the last of these: section 5 says where, and the properties name each
exception.

The full list of hazards, each at its line, with the properties that cover it,
is `"hazards"` in `PROJECT.json`.

## 2. The modules

### TransferServer, and Transfer, its promise

`TransferServer` is the core. The goroutine of `Server.Run` is the action
`Server`; `pc` says where it is: `setup` (socket, bind, listen), `ready`
(`ConnReady` signalled), `loop` (the `for` of `Run`, also while it dispatches
events), `timedout` (between an `epoll_wait` that returned nothing and the look at
`ExitServer`), `read` and `send` (inside `handleRead`, `SendData`), `closing`
(`disconnectAllClient`), `failed` and `returned` (`Upload` and `Download` around
`Run`).

| code | TLA+ |
|---|---|
| `EpollWait` and the `for` over events | `EpollWait` fills `batch`, one event per entry; one action per event takes it out |
| `nevents == 0 && ExitServer` | `EpollTimeout`, then `TestExit`: peers and the other goroutine run in between |
| `acceptClient` and its error returns | `AcceptClient`: `Admit`, `AcceptFails`, `Refuse`, `Leak` |
| `event == EPOLLIN` / `EPOLLOUT` / anything else | `StartRead` / `HandleWrite` / `HandleHup`, chosen by `Mask` |
| `handleRead`, `RecvData` | `StartRead`, `ReadChunk` until the queue is empty, `ReadReturns` |
| `handleWrite`, `SendData` | `HandleWrite`, `SendData` |
| `handleClientError`, `removeFromClientList`, `Destroy` | `EndClient`, with `FirstWithout`, `NextWithout`, `LastWithout`, `Destroy` |
| `disconnectAllClient` | `DisconnectClient` and `MoreToDisconnect` |
| `Upload`, `Download` after `Run` | `Return`, `ReturnFalse` |

Peers, kernel and bucket are the environment (`PeerConnect`, `PeerSend`, ...),
modelled from the calls the code makes. `Faults` names the calls that may fail.
Data is counted in read buffers ("chunks").

Modelling decisions worth knowing:

* `edge[c]` is the readiness an edge-triggered registration has still to
  report. Restore clients are level-triggered, as `acceptClient` registers them.
* `epoll_wait` returns any `MaxEpollEvents` of the ready descriptors. The events of
  one batch may be handled in any order.
* What a peer has sent is at once in the server's socket; a peer that resets or
  closes leaves what it has sent there.
* `SendData` retries on `EAGAIN` without a bound; in the model it waits for room.
* A peer may hang up at any time, so epoll may report its FIN in the same event as
  data that is not read yet. That is no fault but a common outcome of a real
  network, possible in every run; section 5 says what the code makes of it. The same
  goes for an early hang-up of a restore peer.
* `file[c]` says how a client's reader or writer was closed: `cut` when data was left
  at a hang-up, `broken` after a failed write, `lost` when the close itself failed.
  The properties use it to name what may be missing from an object.

`Transfer` is the abstract specification: `Upload` or `Download` serves until it
is told to exit, leaves its loop only by a wait at which nothing that had arrived
was unread (`TimeOut`), decides after that wait whether to go on (`Stay`, `Close`),
and touches the object at no other time. `Phase` and `Waiting` are the refinement mapping;
`KeepsPromise` is `Transfer`'s specification under it. `ZfsRestore` and the cStor modules
take the server as `Transfer`. They make several transfers over one connection, which
`Series` describes: `Begin` starts the next when the one before has returned, and
`Clear` clears `ExitServer` between two.

### The modules above it

* `ZfsBackup` EXTENDS `TransferServer`: one `CreateSnapshot` of the ZFS plugin
  with its goroutine and the node agent, step by step. `main` is where `doBackup`
  is, `up` where `doUpload` is, `ready` and `readyState` are `Conn.ConnReady`, `cr`
  is the `ZFSBackup` resource. A step of `doUpload` is a step of the server, not of
  its abstraction.
* `ZfsIncremental`: a schedule's backups. `crs` are the resources, `dirs` the
  directories; `NeedsFull` and `GetPrevSnap` are `getPrevSnap`, `SnapList` is
  `getSnapList`. Backups fail, the plugin restarts, backups expire. A restart is
  `Crash`: the call is lost at any of its points while the agent may still finish.
* `ZfsRestore` EXTENDS `ZfsIncremental`: restores beside the schedule, one after
  another, each over the `SnapList` of its target. `at` is where `doRestore` and
  `dataRestore` are, `down` is the `doDownload` goroutine, `names` are the
  `ZFSRestore` resources, `received` is what the dataset holds, `created` the backup
  that the `ZFSVolume` is annotated with, `late` an agent of an
  earlier resource that has yet to connect. It takes `Download` as `Transfer`.
* `CstorBackup`: calls one after another in one process, each with its
  `checkBackupStatus` goroutine. `PollStatus`, `PollExit` and
  `CleanupCompletedBackup` are separate steps, since the code writes the status
  and the flag without a lock. The agents are modelled from the requests. `Take`
  stores a stream that has ended, or cuts it off (a hang-up before the rest was read, a
  failed write or close); a stream whose end the exit did not see is `missed`.
  `DeleteSnapshot` deletes what a call has made, resource first, and may be repeated.
* `CstorProvision`: what a cStor restore asks of Kubernetes. `at` is where
  `createPVC`, and later `markCVRsAsRestoreCompleted`, is; each loop that waits
  counts `polls`. `Kubernetes` is everybody else: the provisioner that binds the
  claim, the controller of the replicas, users. `fresh` and `changed` are the resource
  versions: an update of what has changed since it was read is refused. Others may
  delete the namespace at any time, and the claim goes with it.
* `CstorRestore` EXTENDS `CstorProvision`: `createPVC`, then `restoreVolumeFromCloud`
  over the snapshots of a schedule, some without a file, some with part of one, with
  a goroutine per snapshot, then the marking.
* `PartSize`: the part size that `Upload` calculates and keeps in `Conn`.
* `SnapshotNames`: ids, schedule names, file names and listings, over names that
  are sequences of tokens. `Split` cuts a name where `strings.Split` does; the order of
  the tokens is a constant, `TokenOrder`.

These modules choose in `Init` one set of faults from a constant set of them, and
keep it: one run then covers an orderly world and a disorderly one, and a
property that needs the former says so in its guard (`Orderly`,
`env \subseteq {"retire"}`, `"exists" \notin faults`). Such a guard is a result: it
names what the code relies on.

`MC*` modules add only symmetry and the values of constants. Definitions marked
"Variant" in the modules are plausible mistakes; `"mutants"` in `PROJECT.json` pairs
each checked property with one that breaks it.

## 3. The runs

| run | bounds | what it shows |
|---|---|---|
| `server_backup` | 3 clients, 2 chunks, buffer of 2, symmetry; 3.4 million states | `NoLostWakeup`, `ListedAreOpen`, `RunningCountCovers`, `SuccessIsComplete`, `UploadedWhole`, `ExitIsQuiet`, `KeepsPromise`, with hang-ups at any time and failing set-up, epoll, accept, create, register, write, commit and delete |
| `server_live` | 2 clients, 1 chunk, one event per `epoll_wait`; with resets and hang-ups at any time | `EventsAreLive`, `CountedOnce`; under fairness `ExitEventually`, `GoneIsNoticed`, `BacklogServed` |
| `server_restore` | 2 clients, 2 chunks, buffer of 1; peers reset or hang up early, reads of the object fail | `TypeOK`, `SuccessIsComplete`; under fairness `ExitEventually` |
| `zfs_backup` | 2 connections of the agent, 2 chunks; two sets of faults | `ZfsTypeOK`, `IdMeansObject`, `ReadyNotNil`, `AgentFindsServer`, `NoOrphanResource`; under fairness `Returns` |
| `zfs_groups` | 7 backups in groups of 3, 2 restores; five environments; 8.5 million states | `RestorableUndisturbed`, `DeltaHasBase`, `NeverPanics`, `VolumeIsTarget`, `CanBeRetried` |
| `cstor_backup` | 2 calls, every kind of backup, local or remote; deletions; two sets of faults; 730 thousand states | `TypeOK`, `IdMeansObject`, `StatusIsFinal`, `NothingCleanedInUse`, `StopsWhenOrderly`; under fairness `CallsReturn` |
| `cstor_restore` | 4 snapshots, the third is asked for, any of the first three may lack its file; 2 replicas, 2 polls a wait; two sets of faults; 436 thousand states | `ReadyToReceive`, `AllAreMarked`, `VolumeIsRestored`, `StatusIsOwn`; under fairness `CallReturns` |
| `part_size` | 4 parts at most, volumes of up to 30 bytes | `FirstUploadFits` |
| `names` | three sites, two backups a schedule | `IdsAreRead`, `RestoresOwnSchedule` |
| `server_coalesced` | 2 clients, 2 chunks, no faults | violated: `SuccessExact` |
| `zfs_groups_failed` | 4 backups in groups of 2 | violated: `AllRestorable` |
| `cstor_stale_goroutine` | 2 calls | violated: `StopsForOwnBackup` |

Why the bounds are enough. Three clients are the fewest for a stale `LastClient`
to be followed by another append. Two chunks let data arrive
while the previous chunk is read; a buffer of two holds more than one read takes,
and a buffer of one makes `SendData` block. `MaxClient = 1` fills
the accept queue; `MaxEpollEvents` of one or two leaves events for the next
call. Two cStor calls are the fewest for a goroutine to outlive its own. Seven
backups in groups of three give two groups that retire and a third that has
begun. Two restores are the fewest for one to meet what another has left. The five
environments of `zfs_groups` are: expiry of whole groups with restores; restores that
leave things behind and crash; failed backups with restores; and two of
the schedule alone, with restarts and with expiry one by one. Restores with all kinds
of failure at once are left to the proofs, for their time. Two replicas are the fewest for one to be marked and the other
refused, or for a list to be short of one; two polls let a wait go on once and be
given up. A target before the last snapshot makes the loop of a restore overrun. The
parts of `PartSize` are few so that every remainder occurs. `Chunks`, `Clients`,
`Calls`, `N`, `Attempts`, `WaitCount`, `Uploads` and `Rounds` are the only caps on counters.

Deadlock. `ZfsBackup`, `ZfsRestore`, `CstorBackup` and `CstorRestore` are checked for it,
with a `Terminated` step for the return. The runs of `TransferServer`, `PartSize` and
`SnapshotNames`, and the counterexample of `ZfsIncremental` alone, switch the check off: there a behaviour
ends because the peers, the schedule or the names are used up.

Fairness. `FairSpec` asks for weak fairness of the server goroutine as a whole,
because Go schedules it again and `epoll_wait` has a time-out; of the goroutines of
the plugins, for the same reason; and of an agent that has work, and of the API
server behind a poll: without that the code polls for ever, by design. An
`epoll_wait` that fails in the end is no part of that fairness: a server that is
never stopped serves for ever, and shows as a counterexample. Nothing is asked of
Kubernetes in `CstorProvision`, where every wait counts its polls: `CallReturns`
holds though nobody binds the claim. A restore peer reads what it is sent:
`SendData` retries without a bound, so a peer that neither reads nor closes holds
the server. Nothing is asked of a backup peer. `"accept"` is left out of the
liveness runs: an accept that fails for ever (no descriptors left) reports the
listener again and again, and the server never sees the time-out at which it would
exit. A peer has at most `Chunks` to send; one that sent for ever would keep
`epoll_wait` from timing out, and the server from its exit, in the code as well.
`CallReturns` excludes the two faults that make the plugin panic (`"lost"`, `"bare"`).

## 4. The proofs

Every invariant and action property that a passing run checks is a theorem.
The theorems hold for every value of the constants that meets the named
assumptions of the modules (`ClientsAssumption`: finitely many connections;
`BoundsAssumption`; `FaultsAssumption`: any subset of the faults; ...). Only
`StreamsAreSeries` has a hypothesis beyond that. Where a property itself has a guard on
the faults (`Orderly`, `"overtake"`, `"leftover"`, ...) so has its theorem, and section 5
says what each excluded fault does.

| module | theorems | invariants they rest on |
|---|---|---|
| `TransferServer_proofs` | `TypeCorrect`, `WakeupsKept`, `EventsLive`, `QuietExit`, `ServerKeepsPromise` | `TypeInv`, `EventInv` |
| `TransferServer_listproofs` | `ListSound`, `RunningCountSound`, `CountsSound`, `SuccessesAreComplete`, `UploadIsWhole` | `ListInv`, `FlowInv`, `SuccessInv`, `Committed` |
| `ZfsBackup_proofs` | `BackupRunsServer`, `BackupKeepsPromise`, `CallTypeCorrect`, `ReadyKept`, `AgentIsExpected`, `NothingOrphaned`, `IdStandsForObject` | `CallInv`, `DeliverInv` |
| `ZfsRestore_proofs`, on `ZfsIncremental` | `IncrementHasBase`, `PrevSnapIsFound`, `GroupsAreRestorable` | `BaseInv`, `Settled`, `Grouped` |
| `ZfsRestore_proofs`, on `ZfsRestore` | `RestoredIsTarget`, `FailedIsRetried`, `ScheduleBesideRestores`, `StreamsAreSeries` | `StreamInv`, `LeftInv` |
| `CstorBackup_proofs` | `TypeCorrect`, `CleanedIsUnused`, `StatusIsRead`, `IdNamesObject`, `StopsWhenComplete`, `UploadsAreSeries` | `PollInv`, `OrderInv`, `UploadIsAwaited` |
| `CstorRestore_proofs` | `VolumeIsReady`, `MarkedIsAll`, `StatusIsOfSnapshot`, `RestoredIsWhole`, `DownloadsAreSeries` | `ProvisionInv`, `PollInv`, `LoopInv`, `DownloadIsAwaited` |
| `PartSize_proofs` | `FirstFits` | `TypeInv` |
| `SnapshotNames_proofs` | `IdsRead`, `OwnScheduleRestored` | `NamesInv` |

### The server

The type invariant is not inductive: `moved <= Chunks` needs
*conservation* (what was sent is queued or moved), and the client handlers need
the client they work on, so `TypeInv` is `TypeOK`, `Conservation` and `OpOK`.
`NoLostWakeup` alone is not inductive either: a client must not be read while it
is in the batch, and only open clients may have events. `EventInv` adds
`NotConnected` (a peer that has not connected has no data), `OpenHasFile`,
`PhaseOK` (where `pc` is decides whether there may be a batch), `EventsAreLive` and
`NoLostWakeup`; each action has a step, each part it may disturb a step below it.
`ExitIsQuiet` follows with `QuietTimeout`: nothing reportable, and no wake-up lost,
means nothing unread. It is about the time-out; what comes between that and the look
at `ExitServer` is left open, in `Transfer` as well. `ServerKeepsPromise` uses it again:
every step is a step of `Transfer` or a stutter, under `Phase` and `Waiting`.

The list. The walk along `next` is defined as the least set that holds `FirstClient`
and is closed under `next`, so no induction is needed: to show that the list stays
inside a set it is enough that the set is closed. `ListInv` is the three
properties with `Linear` (links of listed clients do not merge, and none leads back
to the head) and `IdleNone`. They need each other: a listed client is found when it
is removed only because `runningCount` is not zero, and `runningCount` does not fall
below the open clients only because the list has nobody but them. A stale
`LastClient` survives: linking behind a closed client disturbs only a chain that is
not walked.

The data. Every step ends no client (`Carries`) or one (`Finishes`), for a `Reason`;
`Flow` accounts for each chunk of a connection until it ends. All three hold under all
faults. A `Reason` says what an end implies: the end of a stream comes with an empty
buffer, the end of an object when it has been read or `HowCut` marks the client, and a
failed write is no end of a stream. So a client that counts as a success was moved as
a whole, or is marked `cut` or `lost` (`SuccessIsAccounted`). `SuccessIsComplete` counts,
so the proof compares cardinalities of sets of clients. `Committed` says whose stream
the object is, and with no failure counted all the clients that ended are accounted
for (`AllSucceeded`), which is `UploadIsWhole`.

### The ZFS plugin

`BackupRunsServer` says that the composition of `ZfsBackup` is a behaviour of
`TransferServer`: `ZfsSpec => Spec`. It needs `CallInv`: `ExitServer` is clear when
`doUpload` clears it, and is set once. With it every theorem above
holds inside `CreateSnapshot`, `ServerKeepsPromise` among them (`BackupKeepsPromise`),
and the proofs about `ZfsBackup` begin from the server's
invariants. `CallInv` says where the two goroutines may be with respect to each other
(`Goroutines`), what the channel holds (`Channel`), and what has been decided when
(`Results`, `Resource`).

`IdStandsForObject` follows a stream from the agent to the object: `Stopped` (the server
stops only when told to, or by failing), `Alone` (only the agent's current connection is
open) and `Delivered` (an agent that has sent everything is being served, or its stream
is the object, or it is lost in a way that `IdMeansObject` names). `Pending` is where the
exit matters: a stream that arrives while the server is in `timedout` is still waited
for if `ExitServer` is not set yet. The variable `overlooked` remembers that it was set in
that moment; it is history only, and no step depends on it. The one hypothesis is on
the agent (no `"overtake"`). None of the exceptions can be dropped: TLC finds a
behaviour for each.

`ZfsIncremental`. `getPrevSnap` takes the last of a finite set, whose existence would
need an induction; instead the invariant carries it (`HasLast`): while nothing
is deleted each new backup is the last one. `DoneHasData` and `PrevIsDone` connect
the resources with the bucket. `PrevSnapIsFound` needs `Settled`: only the current
backup has a resource that is not Done. `GroupsAreRestorable` needs `Grouped`: what
velero keeps is what follows a whole number of groups; the arithmetic of the cuts, of
the counting of resources and of the counting of directories, is in the lemmas before it.

`ZfsRestore`. `ScheduleBesideRestores` brings the three to `RestoreSpec`, whose steps
are steps of the schedule or leave it alone. `StreamInv`: what the dataset has
received, followed by what is still to do, is the list of the target, the server is
closed between downloads, and a volume that was returned stays. The list is taken in
order of a least element, which `FirstIsLeast` gets from the well-foundedness of the
naturals. `VolumeStays`: a `ZFSVolume` exists only with all of its data, and nothing is
received beside it. `LeftInv`: what a restore may leave when deletions do what they
answer.

### The cStor plugin

`CstorBackup`. `PollInv` relates the goroutine of a call, the status it has stored and
the agent it has seen stop, and holds whatever fails. `OrderInv` is about the faults
that leave nobody at work when a call has returned (`Orderly`): `OthersAreQuiet` is why
only the goroutine of the current call sets `ExitServer`, and `SentArrives` why the
stream is in the object before the server stops, unless it was cut off or its end came
after the last time-out. The guard is in the properties.

`CstorRestore`. Three layers. `ProvisionInv` is about the claim and the replicas
and needs nothing of the data; `FreshIsBound` is the heart of it: a claim that is as it
was read is bound, since whoever binds or loses it changes it, and every other
update is refused. `PollInv` says which goroutines may still run, so that nobody but
that of a snapshot stops its server. `LoopInv` says that the volume has received
what the loop has passed, and that the loop has not touched what it has not reached.

`PartSize`. The arithmetic of `FirstFits` is `CalculatedHolds`, where the slack of
every part makes up for the remainder of the division.

### Transfers over one connection

`ServerKeepsPromise` is one side of a contract: the server is a `Transfer`. The other is
that the plugins use it as one, with a single `Conn` for all their volumes.
`BackupKeepsPromise` composes the two for an upload of the ZFS plugin, step by step. The
other three callers take the server as `Transfer`, and are shown to make a `Series`
of them. `UploadsAreSeries` and `DownloadsAreSeries` need no hypothesis about faults:
`UploadIsAwaited` (`DownloadIsAwaited`) says that no transfer runs unless the call
waits for it, and the goroutines of earlier calls do nothing to the server but set
`ExitServer`, which a `Transfer` allows at any time. What that does to the data is
what `OrderInv` and `PollInv` are for. `StreamsAreSeries` needs `StreamInv`, since
`dataRestore` and `doDownload` are two goroutines and the flag is cleared by one
while the other has returned. Its hypothesis `CleansUp` excludes the fault
`"leftover"` for one reason: with it the process may end in a download, and the next
one begins with a connection of its own.

### Names

`Split` is defined by counting cuts, not by recursion. `CutsFinite` and
`BelowGrows` make `Cut` the place of a cut in their order; `SplitInTwo` and
`SplitInThree` say that a join of two or three parts without the separator is split
into them again, and `LastPart` what the last part of a split is, which is where the
timestamp of a schedule is looked for (`StampIsTaken`, `NoStampToTake`).
`NamesInv` says how each backup got its name and id. `IdsRead` is then a split for each
kind of id. `OwnScheduleRestored` compares prefixes: two ZFS schedules with the same file
prefix are the same because neither has the volume's name in it
(`FileOfOneSchedule`), and a file of a single backup has no such prefix (`PlainFile`). In
the cStor plugin every file has the same name, and only the directory tells
schedules apart, hence `ToldApart` in the property.

`TokensAssumption` and `NamesAssumption` are what the proofs take of names. Each clause
of the second is a case the code does not handle, listed in section 5.

### Only model-checked

* The liveness properties (`ExitEventually`, `GoneIsNoticed`, `BacklogServed`, `Returns`,
  `CallsReturn`, `CallReturns`): they rest on fairness, and TLAPS does not reach
  `ENABLED` here.
* The three properties that are violated, which are TLC's counterexamples.

## 5. Where the code and its comments part

Three are runs of their own:

* `server_coalesced`: "successCount defines number of client completed operation
  successfully". `Run` compares the whole mask with `EPOLLIN`, so data that is reported
  together with `EPOLLRDHUP` is dropped, and the nil error counts the client as a
  success. An agent that sends its last data and closes can meet this on any network:
  the object then lacks its end. What does hold is `SuccessIsComplete`: no other data
  is lost in a success but by a failed read or close.
* `zfs_groups_failed`: a failed backup has left its directory in the bucket and
  lost its resource. From then on restores cut the list at another place than
  backups did, and start at an increment. Expiry one by one (`"expire"`) does the same.
* `cstor_stale_goroutine`: the goroutine of a failed `Upload` goes on polling, and
  its `ExitServer = true` stops the server of the next volume.

The others are the boundaries that guards and fault sets draw. Adding the fault,
or dropping the guard, gives the counterexample:

* The exit is check-then-use: `Run` waits at `server.go:299` and reads `ExitServer` at
  `:310`. A connection or data that arrives in between is never handled when the flag
  is set in between, too. `ExitIsQuiet` and `Transfer` speak of the time-out only, and
  `IdMeansObject` of both plugins names the case (`overlooked`, `"missed"`). Dropping that
  disjunct gives the counterexample: `Done` is polled, and an id returned, for a stream
  whose end nobody has read.
* A peer that goes away early, also by a reset, is noticed as a hang-up, whose nil error
  is a success. So is a failed read of the object, which `handleWrite` takes for its
  end. `SuccessIsComplete` and `UploadedWhole` count both apart as `"cut"`.
* A failed write is counted as a failure, and a failed close only logged; nobody reads
  `failedCount`, and `Upload` returns true. So does it when the agent's only connection
  was refused. These, a coalesced FIN and an `Upload` that returns false are the ways in
  which `CreateSnapshot` of the ZFS plugin returns an id without its whole object.
* The same happens in cStor: the agent's status is all that `CreateSnapshot` looks at,
  and a stream that the server has cut off leaves a truncated object under an id.
* `runningCount` is not the "number of client connected to server": a client linked
  behind a removed `LastClient` is not found again, and the counter stays too high.
  What does hold is `RunningCountCovers`.
* `disconnectAllClient` stops before the last client of the list, whose
  descriptor and object stay open (`MoreToDisconnect`).
* `MaxClient` is the accept queue's length, not "max number of connection a server
  can accept".
* `"late"` breaks `IdMeansObject` of `CstorBackup`: all volumes share one port, and
  an agent that is late for its own call is taken for that of the next one.
* `Targeted`: a base backup that failed is cleaned up, though "if current backup is
  base backup [...] it will not perform any clean-up".
* `"exists"` breaks `VolumeIsRestored`: a `FileExists` that fails skips the snapshot,
  or lets the loop run on past the target. So does a target that has no file
  itself, which the property excludes.
* `"crash"` or `"undeleted"` breaks `NeverPanics`: `getPrevSnap` indexes an empty list.
* `"lost"` breaks `CallReturns`: when a claim is lost, or cannot be read, and its
  deletion succeeds, `createPVC` wraps a nil error. It returns neither a volume nor an
  error, and the caller uses the volume. `"bare"` does, too: the annotations of a replica
  that has none are a nil map, and marking it panics.
* `"newer"` weakens `ReadyToReceive`: `GetRestoreNamespace` takes the mapping of the
  newest restore in progress, whichever this call is for.
* `createZFSVolume` has no clean-up. When the driver sets `Failed`, or the `ZFSVolume` cannot
  be read in `checkVolCreation`, the restore is reported as failed, and the `ZFSVolume`
  makes `buildZFSVolume` refuse every later one. This needs no fault set; `CanBeRetried`
  is about restores that fail before. `"leftover"` breaks it for those: a `ZFSRestore`
  whose deletion failed, or that was created by a request that failed, stays, as does
  what a process that ends has begun. `VolumeIsTarget` still holds.
* `"answer"` breaks `NoOrphanResource`: a `ZFSBackup` whose creation was executed but not
  answered is not deleted.
* `"namespace"` weakens `ReadyToReceive`: others may delete the namespace during the waits,
  and only the claim is looked at again.
* A pair of requests of `DeleteSnapshot` can be repeated as long as the API server
  accepts the deletion of a resource that is gone; the model takes it to.
* the part size of the first volume is kept for all later ones of a `Conn`.
* `ToldApart`: the cStor plugin restores snapshots of the schedule `a-1` with those
  of `a`. `Undotted`: the ZFS plugin cannot read the id of a backup with a dot.
* `NamesAssumption`: the cStor plugin cannot read the id of a backup that has
  `-velero-bkp-` in its name; a single backup whose name ends in a timestamp is
  counted to a schedule; files of a ZFS schedule that is named after a volume begin
  like those of other schedules.

## 6. Not modelled

Cloud client set-up (`Init` of `conn.go`), address look-ups and the plain `Read`,
`Write` and `Delete` of an object: pure I/O, whose failures are faults of the
callers. Entry points, tests and scripts: no state. Logging and message texts.
The set-up of the plugins (`Init`, `GetVolumeID`, `SetVolumeID`, the look-up of
addresses) is one pass over configuration and Kubernetes objects: nothing is kept
that a later step could find changed. What the REST server, the agents, the
provisioner and the ZFS driver do inside is external; which base an increment of cStor
is taken from is decided there, so a schedule of cStor is not modelled as that
of ZFS is. `ZfsRestore` has one volume in one namespace, and does not tell nodes apart.
Backups without a schedule are full backups of their own and are left out of
`ZfsIncremental`. Node agents that restart in the middle of a transfer are not
modelled beyond the connections they lose. `SetNonblock` is taken to succeed in
`acceptClient`: when it fails, `err` is overwritten by the result of `Close`, and
`err.Error()` on a nil error panics, which ends the plugin.

## 7. Plan

Done: `TransferServer`, `Transfer`, `ZfsBackup`, `ZfsIncremental`, `ZfsRestore`,
`CstorBackup` with deletions, `CstorProvision`, `CstorRestore`, `PartSize`,
`SnapshotNames`; proofs of every checked invariant and action property, and that
each plugin uses the server as a series of transfers.

Next, in this order:

1. Several restores in one cStor process, with the goroutines of earlier ones.
2. Liveness of a ZFS restore.
3. A node agent that restarts in the middle of a transfer and connects again while
   the server still holds its old connection.
