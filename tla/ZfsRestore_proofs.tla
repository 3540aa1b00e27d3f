--------------------------- MODULE ZfsRestore_proofs ---------------------------
(***************************************************************************)
(* Machine-checked proofs about ZfsIncremental and ZfsRestore, for any     *)
(* number of backups and restores, any size of the groups and any          *)
(* environment.                                                            *)
(*                                                                         *)
(* First the schedule: DeltaHasBase, NeverPanics and RestorableUndisturbed,*)
(* each from an invariant of its own that holds in the environments its    *)
(* property is about.  Then its restores: StreamInv follows one stream     *)
(* from its server to its status, and says that nobody can touch the       *)
(* dataset while no server is open; LeftInv is about what is left behind,  *)
(* in a world that cleans up.                                              *)
(***************************************************************************)
EXTENDS ZfsRestore, FiniteSetTheorems, WellFoundedInduction, TLAPS

TypeInv ==
    /\ n \in 0..N
    /\ step \in {"idle", "create", "poll", "panic"}
    /\ step # "idle" => n \in Backups
    /\ crs \in [Backups -> {"none", "init", "done", "failed"}]

SnapType ==
    /\ prevSnap \in [Backups -> 0..N]
    /\ data \in [Backups -> {NoData} \cup 0..N]

(* Nothing is deleted.                                                     *)
Kept == env \cap {"expire", "retire"} = {}

(* Resources are made in the order of their numbers, so the list of the    *)
(* successful ones has a last element, which getPrevSnap takes.            *)
InOrder == \A b \in Backups : crs[b] # "none" => b <= n

NotYetDone == step \in {"create", "poll"} => n \notin Done

HasLast == Done # {} => \E b \in Done : \A x \in Done : x <= b

(* A resource is Done when its stream is in the bucket, and the resource   *)
(* of the current backup names a Done one, or none.                        *)
DoneHasData == \A b \in Done : data[b] # NoData

PrevIsDone == step = "poll" => prevSnap[n] = 0 \/ prevSnap[n] \in Done

Based == \A b \in Backups : data[b] > 0 => data[b] \in Backups /\ data[data[b]] # NoData

Growing == SnapType /\ InOrder /\ NotYetDone /\ HasLast /\ DoneHasData /\ PrevIsDone /\ Based

BaseInv == TypeInv /\ (Kept => Growing)

LEMMA LastIsDone ==
    ASSUME HasLast, Done # {}
    PROVE  Last(Done) \in Done
BY DEF Last, HasLast

LEMMA PrevSnapIsDone ==
    ASSUME HasLast, PrevDefined
    PROVE  GetPrevSnap = 0 \/ GetPrevSnap \in Done
BY LastIsDone DEF PrevDefined, GetPrevSnap

LEMMA BaseInit == Init => BaseInv
<1> SUFFICES ASSUME Init PROVE BaseInv
  OBVIOUS
<1>1. TypeInv
  BY NAssumption, EnvsAssumption DEF Init, TypeInv
<1>2. Done = {}
  BY DEF Init, Done
<1>3. SnapType /\ InOrder /\ NotYetDone /\ PrevIsDone
  BY NAssumption DEF Init, SnapType, InOrder, NotYetDone, PrevIsDone, Backups, NoData
<1>4. HasLast /\ DoneHasData
  BY <1>2 DEF HasLast, DoneHasData
<1>5. Based
  BY DEF Init, Based, NoData
<1> QED BY <1>1, <1>3, <1>4, <1>5 DEF BaseInv, Growing

LEMMA TypeStep == TypeInv /\ [Next]_vars => TypeInv'
<1> SUFFICES ASSUME TypeInv, [Next]_vars PROVE TypeInv'
  OBVIOUS
<1> USE NAssumption DEF TypeInv, Backups
<1>1. CASE Describe
  BY <1>1 DEF Describe
<1>2. CASE NotReady
  BY <1>2 DEF NotReady
<1>3. CASE CreateBackup
  BY <1>3 DEF CreateBackup
<1>4. CASE Succeed
  BY <1>4 DEF Succeed
<1>5. CASE Fail
  BY <1>5 DEF Fail
<1>6. CASE Crash
  BY <1>6 DEF Crash
<1>7. ASSUME NEW b \in Backups, Expire(b) \/ Retire(b) PROVE TypeInv'
  BY <1>7 DEF Expire, Retire, Forget
<1>8. CASE UNCHANGED vars
  BY <1>8 DEF vars
<1> QED BY <1>1, <1>2, <1>3, <1>4, <1>5, <1>6, <1>7, <1>8 DEF Next

(* A step that adds no successful backup.                                  *)
LEMMA SameDone ==
    ASSUME TypeInv, Growing, Done' = Done, UNCHANGED <<prevSnap, data>>,
           n' = n, step' \in {"idle", "panic"} \/ UNCHANGED step,
           \A b \in Backups : crs'[b] # "none" => crs[b] # "none" \/ b = n
    PROVE  Growing'
<1>1. SnapType' /\ InOrder'
  BY NAssumption DEF Growing, SnapType, InOrder, TypeInv, Backups
<1>2. NotYetDone' /\ HasLast' /\ DoneHasData' /\ PrevIsDone'
  BY DEF Growing, NotYetDone, HasLast, DoneHasData, PrevIsDone
<1>3. Based'
  BY DEF Growing, Based
<1> QED BY <1>1, <1>2, <1>3 DEF Growing

(* The current backup succeeds: its stream is relative to prevSnap.        *)
LEMMA OneMoreDone ==
    ASSUME TypeInv, Growing, step = "poll", step' = "idle",
           crs' = [crs EXCEPT ![n] = "done"],
           data' = [data EXCEPT ![n] = prevSnap[n]],
           UNCHANGED <<n, prevSnap>>
    PROVE  Growing'
<1>1. n \in Backups /\ n \in Nat
  BY NAssumption DEF TypeInv, Backups
<1>2. Done' = Done \cup {n}
  BY <1>1 DEF Done, TypeInv
<1>3. prevSnap[n] \in 0..N
  BY <1>1 DEF Growing, SnapType
<1>4. SnapType' /\ InOrder'
  BY <1>1, <1>3, NAssumption DEF Growing, SnapType, InOrder, TypeInv, Backups
<1>5. NotYetDone' /\ PrevIsDone'
  BY DEF NotYetDone, PrevIsDone
<1>6. \A x \in Done : x <= n
  BY DEF Growing, InOrder, Done
<1>7. HasLast'
  BY <1>1, <1>2, <1>6 DEF HasLast
<1>8. DoneHasData'
  BY <1>1, <1>2, <1>3 DEF Growing, DoneHasData, SnapType, Done, NoData, Backups
<1>9. Based'
  <2> SUFFICES ASSUME NEW b \in Backups, data'[b] > 0
               PROVE  data'[b] \in Backups /\ data'[data'[b]] # NoData
    BY DEF Based
  <2>1. \A x \in Backups : data[x] # NoData => data'[x] # NoData
    BY <1>1, <1>3 DEF Growing, SnapType, NoData
  <2>2. CASE b = n
    <3>1. data'[b] = prevSnap[n]
      BY <1>1, <2>2 DEF Growing, SnapType
    <3>2. prevSnap[n] \in Done
      BY <3>1 DEF Growing, PrevIsDone
    <3> QED BY <2>1, <3>1, <3>2 DEF Growing, DoneHasData, Done
  <2>3. CASE b # n
    <3>1. data'[b] = data[b]
      BY <2>3 DEF Growing, SnapType
    <3> QED BY <2>1, <3>1 DEF Growing, Based
  <2> QED BY <2>2, <2>3
<1> QED BY <1>4, <1>5, <1>7, <1>8, <1>9 DEF Growing

LEMMA CreateBackupGrows ==
    ASSUME TypeInv, Growing, CreateBackup
    PROVE  Growing'
<1>1. n \in Backups /\ n' = n
  BY DEF TypeInv, CreateBackup
<1>2. CASE PrevDefined
  <2>1. /\ step' = "poll"
        /\ crs' = [crs EXCEPT ![n] = "init"]
        /\ prevSnap' = [prevSnap EXCEPT ![n] = GetPrevSnap]
        /\ data' = data
    BY <1>2 DEF CreateBackup
  <2>2. Done' = Done /\ n \notin Done
    BY <1>1, <2>1 DEF Growing, NotYetDone, CreateBackup, Done, TypeInv
  <2>3. GetPrevSnap = 0 \/ GetPrevSnap \in Done
    BY <1>2, PrevSnapIsDone DEF Growing
  <2>4. GetPrevSnap \in 0..N
    BY <2>3, NAssumption DEF Done, Backups
  <2>5. SnapType'
    BY <1>1, <2>1, <2>4 DEF Growing, SnapType
  <2>6. InOrder'
    BY <1>1, <2>1, NAssumption DEF Growing, InOrder, TypeInv, Backups
  <2>7. NotYetDone' /\ HasLast' /\ DoneHasData' /\ Based'
    BY <1>1, <2>1, <2>2 DEF Growing, NotYetDone, HasLast, DoneHasData, Based
  <2>8. PrevIsDone'
    BY <1>1, <2>1, <2>2, <2>3 DEF Growing, PrevIsDone, SnapType
  <2> QED BY <2>5, <2>6, <2>7, <2>8 DEF Growing
<1>3. CASE ~PrevDefined
  <2>1. step' = "panic" /\ UNCHANGED <<n, crs, prevSnap, data>>
    BY <1>3 DEF CreateBackup
  <2> QED BY <2>1, SameDone DEF Done
<1> QED BY <1>2, <1>3

LEMMA BaseStep == BaseInv /\ [Next]_vars => BaseInv'
<1> SUFFICES ASSUME BaseInv, [Next]_vars, Kept' PROVE Growing'
  BY TypeStep DEF BaseInv
<1>1. Kept
  BY DEF Kept, Next, vars
<1>2. TypeInv /\ Growing
  BY <1>1 DEF BaseInv
<1>3. CASE Describe
  <2>1. n' = n + 1 /\ step' = "create" /\ UNCHANGED <<crs, prevSnap, data>> /\ n \in Nat
    BY <1>2, <1>3, NAssumption DEF Describe, TypeInv
  <2>2. Done' = Done
    BY <2>1 DEF Done
  <2>3. SnapType' /\ InOrder'
    BY <1>2, <2>1 DEF Growing, SnapType, InOrder, Backups
  <2>4. NotYetDone'
    BY <1>2, <2>1, <2>2 DEF Growing, InOrder, NotYetDone, Done
  <2>5. HasLast' /\ DoneHasData' /\ PrevIsDone' /\ Based'
    BY <1>2, <2>1, <2>2 DEF Growing, HasLast, DoneHasData, PrevIsDone, Based
  <2> QED BY <2>3, <2>4, <2>5 DEF Growing
<1>4. CASE NotReady
  BY <1>2, <1>4, SameDone DEF NotReady, Done
<1>5. CASE CreateBackup
  BY <1>2, <1>5, CreateBackupGrows
<1>6. CASE Succeed
  BY <1>2, <1>6, OneMoreDone DEF Succeed
<1>7. ASSUME step \in {"create", "poll"}, step' = "idle", n' = n,
             UNCHANGED <<prevSnap, data>>,
             NEW s \in {"none", "init", "failed"},
             crs' = [crs EXCEPT ![n] = s]
      PROVE  Growing'
  <2>1. n \in Backups /\ n \notin Done
    BY <1>2, <1>7 DEF TypeInv, Growing, NotYetDone
  <2>2. Done' = Done
    BY <1>2, <1>7, <2>1 DEF Done, TypeInv
  <2>3. \A b \in Backups : crs'[b] # "none" => crs[b] # "none" \/ b = n
    BY <1>2, <1>7 DEF TypeInv
  <2> QED BY <1>2, <1>7, <2>2, <2>3, SameDone
<1>8. CASE Fail
  BY <1>7, <1>8 DEF Fail
<1>9. CASE Crash
  <2>1. CASE step = "create" /\ UNCHANGED <<crs, data>>
    BY <1>2, <1>9, <2>1, SameDone DEF Crash, Done
  <2>2. CASE step = "poll" /\ data' = data /\ \E s \in {"init", "failed"} : crs' = [crs EXCEPT ![n] = s]
    BY <1>7, <1>9, <2>2 DEF Crash
  <2>3. CASE /\ step = "poll" /\ crs' = [crs EXCEPT ![n] = "done"]
             /\ data' = [data EXCEPT ![n] = prevSnap[n]]
    BY <1>2, <1>9, <2>3, OneMoreDone DEF Crash
  <2> QED BY <1>9, <2>1, <2>2, <2>3 DEF Crash
<1>10. ASSUME NEW b \in Backups, Expire(b) \/ Retire(b) PROVE FALSE
  BY <1>1, <1>10 DEF Expire, Retire, Kept
<1>11. CASE UNCHANGED vars
  BY <1>2, <1>11, SameDone DEF vars, Done
<1> QED
  BY <1>3, <1>4, <1>5, <1>6, <1>8, <1>9, <1>10, <1>11 DEF Next

(* Whatever fails and whenever the plugin restarts, an increment is        *)
(* relative to a backup whose stream is in the bucket.                     *)
THEOREM IncrementHasBase == Spec => []DeltaHasBase
<1>1. BaseInv => DeltaHasBase
  BY DEF BaseInv, Growing, Based, Kept, DeltaHasBase
<1> QED BY <1>1, BaseInit, BaseStep, PTL DEF Spec

-------------------------------------------------------------------------------
(* Resources are deleted when their backup fails, and the plugin lives on. *)
Deletes == env \cap {"undeleted", "crash"} = {}

(* Only the current backup has a resource that is not Done.                *)
Settled ==
    /\ step # "panic"
    /\ \A b \in Backups : crs[b] \in {"none", "done"} \/ (step = "poll" /\ b = n)

(* Without a successful backup there is no resource, and the next one is a *)
(* full backup.                                                            *)
LEMMA SettledIsDefined ==
    ASSUME Settled, step = "create"
    PROVE  PrevDefined
<1>1. CASE Done = {}
  <2>1. Resources = {}
    BY <1>1 DEF Settled, Resources, Done
  <2>2. Cardinality(Resources) = 0
    BY <2>1, FS_EmptySet
  <2>3. 0 % count = 0
    BY IncrementalAssumption DEF count
  <2> QED BY <2>2, <2>3 DEF PrevDefined, NeedsFull
<1> QED BY <1>1 DEF PrevDefined

LEMMA SettledStep ==
    ASSUME TypeInv, Settled, Deletes, [Next]_vars
    PROVE  Settled'
<1> USE DEF Settled, TypeInv, Deletes, Backups
<1>1. CASE Describe
  BY <1>1 DEF Describe
<1>2. CASE NotReady
  BY <1>2 DEF NotReady
<1>3. CASE CreateBackup
  BY <1>3, SettledIsDefined DEF CreateBackup
<1>4. CASE Succeed
  BY <1>4 DEF Succeed
<1>5. CASE Fail
  BY <1>5 DEF Fail
<1>6. CASE Crash
  BY <1>6 DEF Crash
<1>7. ASSUME NEW b \in Backups, Expire(b) \/ Retire(b) PROVE Settled'
  BY <1>7 DEF Expire, Retire, Forget
<1>8. CASE UNCHANGED vars
  BY <1>8 DEF vars
<1> QED BY <1>1, <1>2, <1>3, <1>4, <1>5, <1>6, <1>7, <1>8 DEF Next

(* getPrevSnap finds a successful backup whenever it looks for one, as     *)
(* long as resources of failed backups are deleted and the plugin is not   *)
(* restarted, though backups fail and expire.                              *)
THEOREM PrevSnapIsFound == Spec => []NeverPanics
<1> DEFINE Inv == Deletes => Settled
<1>1. Init => Inv
  BY DEF Init, Settled
<1>2. TypeInv /\ Inv /\ [Next]_vars => Inv'
  BY SettledStep DEF Deletes, Next, vars
<1>3. Inv => NeverPanics
  BY DEF Settled, Deletes, NeverPanics
<1>4. Spec => []TypeInv
  BY BaseInit, TypeStep, PTL DEF Spec, BaseInv
<1> QED BY <1>1, <1>2, <1>3, <1>4, PTL DEF Spec

-------------------------------------------------------------------------------
(* Groups: what getPrevSnap and getSnapList compute from the number of     *)
(* resources and of directories.                                           *)

LEMMA DivMod ==
    ASSUME NEW c \in Nat \ {0}, NEW a \in Nat
    PROVE  /\ a \div c \in Nat /\ a % c \in Nat
           /\ a % c < c /\ a = (a \div c) * c + (a % c)
OBVIOUS

LEMMA DivModUnique ==
    ASSUME NEW c \in Nat \ {0}, NEW q \in Nat, NEW r \in Nat, r < c
    PROVE  (q * c + r) \div c = q /\ (q * c + r) % c = r
<1> DEFINE a == q * c + r
           p == a \div c
           s == a % c
<1>1. a \in Nat
  OBVIOUS
<1>2. p \in Nat /\ s \in Nat /\ s < c /\ a = p * c + s
  BY <1>1, DivMod
<1>3. q * c + r = p * c + s
  BY <1>2
<1> HIDE DEF a, p, s
<1>4. \A x \in Nat, y \in Nat : x + 1 <= y => x * c + c <= y * c
  <2> SUFFICES ASSUME NEW x \in Nat, NEW y \in Nat, x + 1 <= y PROVE x * c + c <= y * c
    OBVIOUS
  <2>1. PICK d \in Nat : y = (x + 1) + d
    <3>1. y - (x + 1) \in Nat /\ y = (x + 1) + (y - (x + 1))
      OBVIOUS
    <3> QED BY <3>1
  <2>2. y * c = x * c + c + d * c /\ d * c \in Nat
    BY <2>1
  <2> QED BY <2>2
<1>5. ~ (q + 1 <= p) /\ ~ (p + 1 <= q)
  <2>1. p * c \in Nat /\ q * c \in Nat
    BY <1>2
  <2>2. CASE q + 1 <= p
    BY <1>2, <1>3, <1>4, <2>1, <2>2
  <2>3. CASE p + 1 <= q
    BY <1>2, <1>3, <1>4, <2>1, <2>3
  <2> QED BY <2>2, <2>3
<1>6. p = q
  BY <1>2, <1>5
<1>7. s = r
  BY <1>2, <1>3, <1>6
<1> QED BY <1>6, <1>7 DEF a, p, s

LEMMA CountIsPositive == count \in Nat \ {0}
BY IncrementalAssumption DEF count

(* The position of a backup in its group does not depend on the groups     *)
(* before it.                                                              *)
LEMMA PositionFromCut ==
    ASSUME NEW k \in Nat, NEW a \in Nat, k * count <= a
    PROVE  (a - k * count) % count = a % count
<1> DEFINE q == a \div count
           r == a % count
<1>1. q \in Nat /\ r \in Nat /\ r < count /\ a = q * count + r
  BY CountIsPositive, DivMod
<1> HIDE DEF q, r
<1>2. k <= q
  <2> SUFFICES ASSUME q + 1 <= k PROVE FALSE
    BY <1>1
  <2>1. PICK d \in Nat : k = (q + 1) + d
    <3>1. k - (q + 1) \in Nat /\ k = (q + 1) + (k - (q + 1))
      BY <1>1
    <3> QED BY <3>1
  <2>2. k * count = q * count + count + d * count /\ d * count \in Nat
    BY <1>1, <2>1, CountIsPositive
  <2> QED BY <1>1, <2>2, CountIsPositive
<1>3. PICK d \in Nat : q = k + d
  <2>1. q - k \in Nat /\ q = k + (q - k)
    BY <1>1, <1>2
  <2> QED BY <2>1
<1>4. a - k * count = d * count + r
  BY <1>1, <1>3, CountIsPositive
<1>5. (d * count + r) % count = r
  BY <1>1, CountIsPositive, DivModUnique
<1> QED BY <1>4, <1>5 DEF r

-------------------------------------------------------------------------------
(* Backups neither fail nor expire one by one.                             *)
Undisturbed == env \subseteq {"retire", "restore", "leftover"}

(* The last of the backups before b, unless b starts a group.              *)
PrevOf(b) == IF (b - 1) % count = 0 THEN 0 ELSE b - 1

(* After lo: what has a resource, a directory and an object is what velero *)
(* holds, and the current backup has what its step has reached.            *)
HeldAfter(lo) ==
    /\ lo \in Nat /\ lo <= n
    /\ step = "idle" => kept = (lo + 1)..n
    /\ step # "idle" => lo < n /\ kept = (lo + 1)..(n - 1)
    /\ dirs = (lo + 1)..n
    /\ Done = kept
    /\ Resources = IF step = "poll" THEN kept \cup {n} ELSE kept

DataFollow ==
    /\ prevSnap \in [Backups -> Int] /\ data \in [Backups -> Int]
    /\ step = "poll" => prevSnap[n] = PrevOf(n)
    /\ \A b \in kept : data[b] = PrevOf(b)

(* Whole groups have been retired, and the rest follow one another.        *)
Grouped ==
    /\ step # "panic"
    /\ DataFollow
    /\ \E k \in Nat : HeldAfter(k * count)

LEMMA LastOfInterval ==
    ASSUME NEW a \in Int, NEW b \in Int, a <= b
    PROVE  Last(a..b) = b
BY DEF Last

LEMMA CutIsNat ==
    ASSUME NEW k \in Nat
    PROVE  k * count \in Nat /\ (k + 1) * count = k * count + count
BY CountIsPositive

(* getPrevSnap counts the resources since the cut.                         *)
LEMMA PrevSnapFollows ==
    ASSUME TypeInv, NEW k \in Nat, HeldAfter(k * count), step = "create"
    PROVE  PrevDefined /\ GetPrevSnap = PrevOf(n)
<1> DEFINE lo == k * count
<1>1. lo \in Nat /\ n \in Nat /\ lo <= n - 1
  BY CutIsNat, NAssumption DEF HeldAfter, TypeInv
<1>2. Resources = (lo + 1)..(n - 1) /\ Done = (lo + 1)..(n - 1)
  BY DEF HeldAfter
<1>3. Cardinality(Resources) = (n - 1) - lo
  <2> HIDE DEF lo
  <2>1. Cardinality((lo + 1)..(n - 1)) = IF lo + 1 > n - 1 THEN 0 ELSE (n - 1) - (lo + 1) + 1
    BY <1>1, FS_Interval
  <2> QED BY <1>1, <1>2, <2>1
<1>4. NeedsFull <=> (n - 1) % count = 0
  BY <1>1, <1>3, PositionFromCut DEF NeedsFull
<1>5. CASE (n - 1) % count = 0
  BY <1>4, <1>5 DEF PrevDefined, GetPrevSnap, PrevOf
<1>6. CASE (n - 1) % count # 0
  <2>1. n - 1 # lo
    <3>1. lo % count = 0
      BY DivModUnique, CountIsPositive
    <3> QED BY <1>6, <3>1
  <2> HIDE DEF lo
  <2>2. lo + 1 <= n - 1 /\ n - 1 \in Done
    BY <1>1, <1>2, <2>1
  <2>3. Last(Done) = n - 1
    BY <1>1, <1>2, <2>2, LastOfInterval
  <2> QED BY <1>4, <1>6, <2>2, <2>3 DEF PrevDefined, GetPrevSnap, PrevOf
<1> QED BY <1>5, <1>6

(* The backups of the group after the cut.                                 *)
LEMMA GroupAfterCut ==
    ASSUME NEW k \in Nat, NEW b \in Nat \ {0}, Group(b) = k
    PROVE  k * count + 1 <= b /\ b <= (k + 1) * count
<1>1. b - 1 \in Nat
  OBVIOUS
<1>2. (b - 1) % count < count /\ (b - 1) % count \in Nat /\ b - 1 = k * count + ((b - 1) % count)
  BY <1>1, DivMod, CountIsPositive DEF Group
<1> QED BY <1>2, CutIsNat, CountIsPositive

LEMMA CutIsGroup ==
    ASSUME NEW k \in Nat, NEW b \in Int, k * count + 1 <= b, b <= (k + 1) * count
    PROVE  Group(b) = k
<1> DEFINE r == (b - 1) - k * count
<1>1. r \in Nat /\ r < count /\ b - 1 = k * count + r
  BY CutIsNat, CountIsPositive
<1> HIDE DEF r
<1> QED BY <1>1, DivModUnique, CountIsPositive DEF Group

LEMMA DescribeGroups ==
    ASSUME TypeInv, DataFollow, NEW lo \in Nat, HeldAfter(lo), Describe
    PROVE  DataFollow' /\ HeldAfter(lo)'
<1>1. /\ step = "idle" /\ step' = "create" /\ n' = n + 1 /\ n \in Nat
      /\ dirs' = dirs \cup {n + 1} /\ UNCHANGED <<crs, prevSnap, data, kept>>
  BY NAssumption DEF Describe, TypeInv
<1>2. Done' = Done /\ Resources' = Resources
  BY <1>1 DEF Done, Resources
<1>3. HeldAfter(lo)'
  BY <1>1, <1>2 DEF HeldAfter
<1>4. DataFollow'
  BY <1>1 DEF DataFollow, PrevOf
<1> QED BY <1>3, <1>4

LEMMA CreateBackupGroups ==
    ASSUME TypeInv, DataFollow, NEW k \in Nat, HeldAfter(k * count), CreateBackup
    PROVE  step' # "panic" /\ DataFollow' /\ HeldAfter(k * count)'
<1>1. PrevDefined /\ GetPrevSnap = PrevOf(n) /\ n \in Backups /\ n \in Nat
  BY PrevSnapFollows, NAssumption DEF CreateBackup, TypeInv
<1>2. /\ step = "create" /\ step' = "poll" /\ UNCHANGED <<n, dirs, data, kept>>
      /\ crs' = [crs EXCEPT ![n] = "init"] /\ prevSnap' = [prevSnap EXCEPT ![n] = PrevOf(n)]
  BY <1>1 DEF CreateBackup
<1>3. PrevOf(n) \in Int /\ PrevOf(n)' = PrevOf(n)
  BY <1>1, <1>2 DEF PrevOf
<1>4. DataFollow'
  <2>1. prevSnap' \in [Backups -> Int] /\ prevSnap'[n] = PrevOf(n)
    BY <1>1, <1>2, <1>3 DEF DataFollow
  <2> QED BY <1>2, <1>3, <2>1 DEF DataFollow, PrevOf
<1>5. n \notin Resources /\ Resources = kept /\ Done = kept
  BY <1>1, <1>2 DEF HeldAfter
<1>6. Done' = Done /\ Resources' = Resources \cup {n}
  BY <1>1, <1>2, <1>5 DEF Done, Resources, TypeInv
<1>7. HeldAfter(k * count)'
  BY <1>2, <1>5, <1>6 DEF HeldAfter
<1> QED BY <1>2, <1>4, <1>7

LEMMA SucceedGroups ==
    ASSUME TypeInv, DataFollow, NEW lo \in Nat, HeldAfter(lo), Succeed
    PROVE  DataFollow' /\ HeldAfter(lo)'
<1>1. /\ step = "poll" /\ step' = "idle" /\ UNCHANGED <<n, prevSnap, dirs>>
      /\ crs' = [crs EXCEPT ![n] = "done"] /\ data' = [data EXCEPT ![n] = prevSnap[n]]
      /\ kept' = kept \cup {n}
      /\ n \in Backups /\ n \in Nat
  BY NAssumption DEF Succeed, TypeInv
<1>2. Done' = Done \cup {n} /\ Resources' = Resources \cup {n}
  BY <1>1 DEF Done, Resources, TypeInv
<1>3. HeldAfter(lo)'
  <2>1. lo < n /\ kept = (lo + 1)..(n - 1) /\ Done = kept /\ Resources = kept \cup {n}
    BY <1>1 DEF HeldAfter
  <2>2. kept' = (lo + 1)..n
    BY <1>1, <2>1
  <2> QED BY <1>1, <1>2, <2>1, <2>2 DEF HeldAfter
<1>4. DataFollow'
  BY <1>1 DEF DataFollow, PrevOf
<1> QED BY <1>3, <1>4

(* The group that is retired is the one after the cut.                     *)
LEMMA RetireGroups ==
    ASSUME TypeInv, DataFollow, NEW k \in Nat, HeldAfter(k * count),
           NEW b \in Backups, Retire(b)
    PROVE  DataFollow' /\ HeldAfter((k + 1) * count)'
<1> DEFINE lo == k * count
           hi == (k + 1) * count
<1>1. lo \in Nat /\ hi \in Nat /\ lo < hi /\ n \in Nat /\ n <= N
  BY CutIsNat, CountIsPositive, NAssumption DEF TypeInv, Backups
<1>2. /\ step = "idle" /\ UNCHANGED <<n, step, prevSnap>>
      /\ kept = (lo + 1)..n /\ dirs = (lo + 1)..n /\ Done = kept /\ Resources = kept
      /\ b \in kept /\ \A x \in kept : b <= x
  BY DEF Retire, Forget, HeldAfter
<1>3. b = lo + 1
  <2> HIDE DEF lo
  <2>1. lo + 1 \in kept /\ b >= lo + 1
    BY <1>1, <1>2
  <2> QED BY <1>1, <1>2, <2>1
<1>4. Group(b) = k
  <2>1. lo + 1 <= hi
    BY <1>1
  <2> QED BY <1>1, <1>3, <2>1, CutIsGroup
<1> DEFINE G == {x \in Backups : Group(x) = k}
<1>5. G = {x \in Backups : lo + 1 <= x /\ x <= hi}
  BY <1>1, GroupAfterCut, CutIsGroup, NAssumption DEF Backups
<1>6. hi < n
  <2>1. PICK x \in kept : Group(x) > k
    BY <1>4 DEF Retire
  <2>2. ~ (x <= hi)
    <3>1. x \in Int /\ lo + 1 <= x
      BY <1>1, <1>2
    <3>2. x <= hi => Group(x) = k
      BY <3>1, CutIsGroup
    <3> QED BY <2>1, <3>2
  <2> HIDE DEF lo, hi
  <2> QED BY <1>1, <1>2, <2>2
<1>7. /\ crs'  = [x \in Backups |-> IF x \in G THEN "none" ELSE crs[x]]
      /\ data' = [x \in Backups |-> IF x \in G THEN NoData ELSE data[x]]
      /\ dirs' = dirs \ G /\ kept' = kept \ G
  BY <1>4 DEF Retire, Forget
<1> HIDE DEF lo, hi, G
<1>8. kept' = (hi + 1)..n /\ dirs' = (hi + 1)..n
  <2>1. G = (lo + 1)..hi
    <3>1. \A x \in (lo + 1)..hi : x \in Backups /\ lo + 1 <= x /\ x <= hi
      BY <1>1, <1>6, NAssumption DEF Backups
    <3>2. \A x \in Backups : lo + 1 <= x /\ x <= hi => x \in (lo + 1)..hi
      BY <1>1, NAssumption DEF Backups
    <3> QED BY <1>5, <3>1, <3>2
  <2>2. ((lo + 1)..n) \ ((lo + 1)..hi) = (hi + 1)..n
    BY <1>1, <1>6
  <2> QED BY <1>2, <1>7, <2>1, <2>2
<1>9. Done' = Done \ G /\ Resources' = Resources \ G
  BY <1>7 DEF Done, Resources
<1>10. HeldAfter(hi)'
  BY <1>1, <1>2, <1>6, <1>7, <1>8, <1>9 DEF HeldAfter
<1>11. DataFollow'
  <2>1. prevSnap' \in [Backups -> Int] /\ data' \in [Backups -> Int]
    BY <1>2, <1>7 DEF DataFollow, NoData
  <2>2. kept \subseteq Backups
    <3>1. \A x \in (lo + 1)..n : x \in Backups
      BY <1>1, NAssumption DEF Backups
    <3> QED BY <1>2, <3>1
  <2>3. \A x \in kept' : data'[x] = PrevOf(x)
    <3> TAKE x \in kept'
    <3>1. x \in kept /\ x \notin G /\ x \in Backups
      BY <1>7, <2>2
    <3>2. data'[x] = data[x]
      BY <1>7, <3>1
    <3> QED BY <3>1, <3>2 DEF DataFollow
  <2> QED BY <1>2, <2>1, <2>3 DEF DataFollow, PrevOf
<1> QED BY <1>10, <1>11 DEF hi

LEMMA GroupsStep ==
    ASSUME TypeInv, Grouped, Undisturbed, [Next]_vars
    PROVE  Grouped'
<1>1. PICK k \in Nat : HeldAfter(k * count)
  BY DEF Grouped
<1>2. k * count \in Nat /\ k + 1 \in Nat /\ DataFollow /\ step # "panic"
  BY CutIsNat DEF Grouped
<1>3. \A j \in Nat : step' # "panic" /\ DataFollow' /\ HeldAfter(j * count)' => Grouped'
  BY DEF Grouped
<1>4. CASE Describe
  <2>1. step' # "panic"
    BY <1>4 DEF Describe
  <2> QED BY <1>1, <1>2, <1>3, <1>4, <2>1, DescribeGroups
<1>5. CASE CreateBackup
  BY <1>1, <1>2, <1>3, <1>5, CreateBackupGroups
<1>6. CASE Succeed
  <2>1. step' # "panic"
    BY <1>6 DEF Succeed
  <2> QED BY <1>1, <1>2, <1>3, <1>6, <2>1, SucceedGroups
<1>7. ASSUME NEW b \in Backups, Retire(b) PROVE Grouped'
  <2>1. step' # "panic"
    BY <1>2, <1>7 DEF Retire, Forget
  <2>2. DataFollow' /\ HeldAfter((k + 1) * count)'
    BY <1>1, <1>2, <1>7, RetireGroups
  <2> QED BY <1>2, <1>3, <2>1, <2>2
<1>8. CASE NotReady \/ Fail \/ Crash \/ \E b \in Backups : Expire(b)
  BY <1>8 DEF NotReady, Fail, Crash, Expire, Undisturbed
<1>9. CASE UNCHANGED vars
  <2>1. HeldAfter(k * count)'
    BY <1>1, <1>9 DEF HeldAfter, Done, Resources, vars
  <2>2. step' # "panic" /\ DataFollow'
    BY <1>2, <1>9 DEF DataFollow, PrevOf, vars
  <2> QED BY <1>3, <2>1, <2>2
<1> QED BY <1>4, <1>5, <1>6, <1>7, <1>8, <1>9 DEF Next

(* A directory's place in the sorted list is its distance from the cut.    *)
LEMMA IndexFromCut ==
    ASSUME NEW lo \in Nat, n \in Nat, dirs = (lo + 1)..n, NEW x \in dirs
    PROVE  Index(x) = (x - 1) - lo
<1>1. {y \in dirs : y < x} = (lo + 1)..(x - 1)
  OBVIOUS
<1>2. Cardinality((lo + 1)..(x - 1)) = IF lo + 1 > x - 1 THEN 0 ELSE (x - 1) - (lo + 1) + 1
  BY FS_Interval
<1>3. x \in Int /\ lo + 1 <= x
  OBVIOUS
<1>4. Cardinality((lo + 1)..(x - 1)) = (x - 1) - lo
  BY <1>2, <1>3
<1> QED BY <1>1, <1>4 DEF Index

(* getSnapList: the directories from the full backup of the group on.      *)
LEMMA SnapListIsGroup ==
    ASSUME NEW k \in Nat, n \in Nat, dirs = (k * count + 1)..n, NEW b \in dirs
    PROVE  SnapList(b) = (b - ((b - 1) % count))..b
<1> DEFINE lo == k * count
           r == (b - 1) % count
           q == Index(b) \div count
<1>1. lo \in Nat /\ b \in Nat /\ lo + 1 <= b /\ b <= n
  BY CutIsNat
<1>2. \A x \in dirs : Index(x) = (x - 1) - lo
  BY CutIsNat, IndexFromCut
<1>3. Index(b) \in Nat /\ Index(b) % count = r
  BY <1>1, <1>2, PositionFromCut
<1>4. q \in Nat /\ r \in Nat /\ Index(b) = q * count + r /\ FullIndex(b) = q * count
  BY <1>3, DivMod, CountIsPositive DEF FullIndex
<1>5. q * count \in Nat
  BY <1>4, CountIsPositive
<1>6. FullIndex(b) = (b - 1) - lo - r /\ lo + 1 <= b - r
  <2> HIDE DEF lo, r, q
  <2>1. Index(b) = (b - 1) - lo
    BY <1>2
  <2> QED BY <1>1, <1>4, <1>5, <2>1
<1>7. SnapList(b) = {x \in dirs : x <= b /\ Index(x) >= FullIndex(b)}
  BY DEF SnapList
<1>8. dirs = (lo + 1)..n
  OBVIOUS
<1> HIDE DEF lo, r, q
<1>9. \A x \in dirs : x <= b /\ Index(x) >= FullIndex(b) <=> x \in (b - r)..b
  BY <1>1, <1>2, <1>4, <1>6, <1>8
<1>10. (b - r)..b \subseteq dirs
  <2>1. \A x \in (b - r)..b : x \in (lo + 1)..n
    BY <1>1, <1>4, <1>6
  <2> QED BY <1>8, <2>1
<1>11. SnapList(b) = (b - r)..b
  BY <1>7, <1>9, <1>10
<1> QED BY <1>11 DEF r

(* Within a group each stream is relative to the one before.               *)
LEMMA GroupedIsRestorable ==
    ASSUME TypeInv, Grouped, NEW b \in kept
    PROVE  Restorable(b)
<1>1. PICK k \in Nat : HeldAfter(k * count)
  BY DEF Grouped
<1> DEFINE lo == k * count
           r == (b - 1) % count
           q == (b - 1) \div count
<1>2. lo \in Nat /\ n \in Nat
  BY CutIsNat, NAssumption DEF TypeInv
<1>3. /\ dirs = (lo + 1)..n
      /\ kept = (lo + 1)..n \/ kept = (lo + 1)..(n - 1)
  BY <1>1 DEF HeldAfter
<1>4. b \in dirs /\ b \in Nat \ {0} /\ \A x \in dirs : x <= b => x \in kept
  <2> HIDE DEF lo
  <2> QED BY <1>2, <1>3
<1>5. SnapList(b) = (b - r)..b
  BY <1>2, <1>3, <1>4, SnapListIsGroup
<1>6. q \in Nat /\ r \in Nat /\ r < count /\ b - 1 = q * count + r /\ q * count \in Nat
  <2>1. b - 1 \in Nat
    BY <1>4
  <2>2. q \in Nat /\ r \in Nat /\ r < count /\ b - 1 = q * count + r
    BY <2>1, DivMod, CountIsPositive
  <2> QED BY <2>2, CountIsPositive
<1>7. ASSUME NEW x \in (b - r)..b
      PROVE  data[x] = IF x = b - r THEN 0 ELSE x - 1
  <2> DEFINE j == x - (b - r)
  <2>1. j \in Nat /\ j < count /\ x - 1 = q * count + j
    <3> HIDE DEF q, r
    <3> QED BY <1>4, <1>6, CountIsPositive
  <2>2. (x - 1) % count = j
    <3> HIDE DEF q, r, j
    <3> QED BY <1>6, <2>1, DivModUnique, CountIsPositive
  <2>3. j = 0 <=> x = b - r
    BY <1>4, <1>6
  <2>4. x \in kept
    <3>1. x \in SnapList(b)
      BY <1>5
    <3> QED BY <1>4, <3>1 DEF SnapList
  <2>5. data[x] = PrevOf(x)
    BY <2>4 DEF Grouped, DataFollow
  <2> QED BY <2>2, <2>3, <2>5 DEF PrevOf
<1> HIDE DEF lo, r, q
<1>8. ASSUME NEW x \in (b - r)..b
      PROVE  IF \A y \in (b - r)..b : x <= y
             THEN data[x] = 0
             ELSE data[x] = Last({y \in (b - r)..b : y < x})
  <2>1. b - r \in (b - r)..b /\ x >= b - r /\ x \in Int
    BY <1>4, <1>6
  <2>2. CASE x = b - r
    BY <1>7, <2>1, <2>2
  <2>3. CASE x # b - r
    <3>1. {y \in (b - r)..b : y < x} = (b - r)..(x - 1)
      BY <1>4, <1>6, <2>1
    <3>2. Last((b - r)..(x - 1)) = x - 1
      BY <1>4, <1>6, <2>1, <2>3, LastOfInterval
    <3>3. ~ (x <= b - r) /\ data[x] = x - 1
      BY <1>4, <1>6, <1>7, <2>1, <2>3
    <3> QED BY <2>1, <3>1, <3>2, <3>3
  <2> QED BY <2>2, <2>3
<1> QED BY <1>5, <1>8 DEF Restorable

(* Every backup that velero holds can be put together from its directories *)
(* by getSnapList, although the groups are cut once by counting resources  *)
(* and once by counting directories, and whole groups expire.              *)
THEOREM GroupsAreRestorable == Spec => []RestorableUndisturbed
<1> DEFINE Inv == Undisturbed => Grouped
<1>1. Init => Inv
  <2> SUFFICES ASSUME Init PROVE Grouped
    OBVIOUS
  <2>1. Done = {} /\ Resources = {} /\ 1..0 = {}
    BY DEF Init, Done, Resources
  <2>2. HeldAfter(0)
    BY <2>1 DEF Init, HeldAfter
  <2>3. 0 * count = 0
    BY CountIsPositive
  <2>4. DataFollow
    BY DEF Init, DataFollow, NoData
  <2> QED BY <2>2, <2>3, <2>4 DEF Grouped, Init
<1>2. TypeInv /\ Inv /\ [Next]_vars => Inv'
  BY GroupsStep DEF Undisturbed, Next, vars
<1>3. TypeInv /\ Inv => RestorableUndisturbed
  BY GroupedIsRestorable DEF Undisturbed, AllRestorable, RestorableUndisturbed
<1>4. Spec => []TypeInv
  BY BaseInit, TypeStep, PTL DEF Spec, BaseInv
<1> QED BY <1>1, <1>2, <1>3, <1>4, PTL DEF Spec

-------------------------------------------------------------------------------
(* The restores                                                            *)

Streaming == {"reset", "wait", "start", "poll", "exit", "join"}

RestoreTypes ==
    /\ todo \in SUBSET Nat
    /\ dirs \in SUBSET Backups
    /\ at \in {"idle", "list", "volume", "create", "check"} \cup Streaming
    /\ at # "idle" => target \in Backups
    /\ down \in {"running", "finished"}
    /\ zvol \in {"absent", "pending", "ready", "failed"}

(* The target is the last of the list.                                     *)
TargetIsLast ==
    at \in {"volume"} \cup Streaming => target \in todo /\ \A x \in todo : x <= target

(* Without a running Download there is no server.                          *)
ServerIsClosed ==
    /\ at \in {"idle", "list", "volume", "reset", "create", "check"} => down = "finished"
    /\ down = "finished" => phase = "returned"

(* A stream without an error has been received.                            *)
StreamIsReceived ==
    /\ agent # "none" => at = "poll"
    /\ at = "poll" /\ (agent = "received" \/ status = "done") => received = First(todo)
    /\ at \in {"wait", "start", "poll"} => err = FALSE
    /\ at \in {"exit", "join"} /\ ~err => received = First(todo)
    /\ at \in {"create", "check"} => received = target

(* A ZFSVolume is made when all is received, and nothing is received while *)
(* there is one.                                                           *)
VolumeStays ==
    /\ zvol # "absent" <=> created # 0
    /\ created # 0 => received = created /\ at \in {"idle", "list", "volume", "check"}
    /\ at = "check" => created = target
    /\ restored # 0 => restored = created /\ zvol = "ready"

(* An agent that the server has accepted is served before the next wait.   *)
NoneServed == phase = "leaving" => agent # "receiving"

StreamInv ==
    /\ RestoreTypes
    /\ TargetIsLast
    /\ ServerIsClosed
    /\ StreamIsReceived
    /\ VolumeStays
    /\ NoneServed

(* Requests do what their answers say.                                     *)
CleansUp == "leftover" \notin env

LeftInv ==
    CleansUp =>
        /\ at # "poll" => names = {}
        /\ at = "poll" => names \subseteq {First(todo)}

-------------------------------------------------------------------------------
(* Every non-empty set of naturals has a least element, which First takes. *)
LEMMA FirstIsLeast ==
    ASSUME NEW S \in SUBSET Nat, S # {}
    PROVE  First(S) \in S /\ \A x \in S : First(S) <= x
<1> DEFINE R == {ss \in Nat \X Nat : ss[1] < ss[2]}
<1>0. IsWellFoundedOn(R, Nat)
  BY NatLessThanWellFounded DEF OpToRel
<1>1. PICK b \in S : \A x \in S : ~ (<<x, b>> \in R)
  <2> HIDE DEF R
  <2> QED BY <1>0, WFMin
<1>2. \A x \in S : b <= x
  <2> SUFFICES ASSUME NEW x \in S, x < b PROVE FALSE
    OBVIOUS
  <2>1. <<x, b>> \in R
    OBVIOUS
  <2> QED BY <1>1, <2>1
<1> QED BY <1>2 DEF First

(* Integer division: the full backup's index is not above the backup's.    *)
LEMMA FullIndexBelow ==
    ASSUME NEW b \in Backups, dirs \in SUBSET Backups
    PROVE  Index(b) >= FullIndex(b)
<1>1. Index(b) \in Nat
  <2>1. IsFiniteSet(Backups)
    BY NAssumption, FS_Interval DEF Backups
  <2>2. IsFiniteSet({x \in dirs : x < b})
    BY <2>1, FS_Subset
  <2> QED BY <2>2, FS_CardinalityType DEF Index
<1>2. count \in Nat \ {0}
  BY IncrementalAssumption DEF count
<1>3. \A i \in Nat, c \in Nat \ {0} : i >= (i \div c) * c
  OBVIOUS
<1> QED BY <1>1, <1>2, <1>3 DEF FullIndex

(* The list that a restore goes through ends with its target.              *)
LEMMA ListEndsWithTarget ==
    ASSUME target \in dirs, dirs \in SUBSET Backups
    PROVE  /\ SnapList(target) \in SUBSET Nat
           /\ target \in SnapList(target)
           /\ \A x \in SnapList(target) : x <= target
<1>1. target \in Backups /\ target <= target /\ Backups \subseteq Nat
  BY NAssumption DEF Backups
<1>2. Index(target) >= FullIndex(target)
  BY <1>1, FullIndexBelow
<1> QED BY <1>1, <1>2 DEF SnapList

-------------------------------------------------------------------------------
(* The restore is an addition to the schedule.                             *)
LEMMA ScheduleSteps == [RestoreNext]_zfsVars => [Next]_vars
BY DEF RestoreNext, Terminated, zfsVars

LEMMA ScheduleIsKept == RestoreSpec => Spec
<1>1. RestoreInit => Init
  BY DEF RestoreInit
<1> QED BY <1>1, ScheduleSteps, PTL DEF RestoreSpec, Spec

LEMMA StreamStarts == RestoreInit => StreamInv
<1> SUFFICES ASSUME RestoreInit PROVE StreamInv
  OBVIOUS
<1>1. RestoreTypes
  BY DEF RestoreInit, Init, RestoreTypes
<1>2. TargetIsLast /\ ServerIsClosed /\ StreamIsReceived /\ VolumeStays /\ NoneServed
  BY DEF RestoreInit, TargetIsLast, Streaming, ServerIsClosed, StreamIsReceived, VolumeStays, NoneServed
<1> QED BY <1>1, <1>2 DEF StreamInv

(* A stream has been received without an error: the target is still to     *)
(* come, or was this one.                                                  *)
LEMMA NextStream ==
    ASSUME StreamInv, at = "join"
    PROVE  IF todo \ {First(todo)} = {}
           THEN First(todo) = target
           ELSE /\ target \in todo \ {First(todo)}
                /\ \A x \in todo \ {First(todo)} : x <= target
<1>1. /\ todo \in SUBSET Nat /\ target \in todo
      /\ \A x \in todo : x <= target
  BY DEF StreamInv, RestoreTypes, TargetIsLast, Streaming
<1>2. First(todo) \in todo /\ \A x \in todo : First(todo) <= x
  BY <1>1, FirstIsLeast
<1>3. CASE First(todo) = target
  <2>1. \A x \in todo : x = target
    BY <1>1, <1>2, <1>3
  <2> QED BY <1>3, <2>1
<1>4. CASE First(todo) # target
  BY <1>1, <1>4
<1> QED BY <1>3, <1>4

LEMMA CallerKeepsStream ==
    ASSUME StreamInv, Caller, UNCHANGED vars
    PROVE  StreamInv'
<1> USE DEF StreamInv, RestoreTypes, Streaming, TargetIsLast, ServerIsClosed, StreamIsReceived,
            VolumeStays, NoneServed, serverVars, clusterVars, vars
<1>1. CASE \E b \in Backups : DoRestore(b)
  BY <1>1 DEF DoRestore
<1>2. CASE GetSnapList
  <2>1. CASE at' = "volume"
    <3>1. target \in dirs /\ todo' = SnapList(target)
      BY <1>2, <2>1 DEF GetSnapList
    <3>2. /\ todo' \in SUBSET Nat /\ target \in todo'
          /\ \A x \in todo' : x <= target
      BY <3>1, ListEndsWithTarget
    <3> HIDE DEF First
    <3> QED BY <1>2, <2>1, <3>2 DEF GetSnapList
  <2>2. CASE at' = "idle"
    BY <1>2, <2>2 DEF GetSnapList
  <2> QED BY <1>2, <2>1, <2>2 DEF GetSnapList
<1>3. CASE BuildZFSVolume
  BY <1>3 DEF BuildZFSVolume
<1>4. CASE ConnStateReset
  BY <1>4 DEF ConnStateReset
<1>5. CASE ConnReadyWait
  BY <1>5 DEF ConnReadyWait
<1>6. CASE StartRestore
  <2>1. /\ at = "start"
        /\ UNCHANGED <<target, todo, created, restored, zvol, received, down, phase, dirs>>
    BY <1>6 DEF StartRestore
  <2>2. \/ at' = "poll" /\ err' = err /\ status' = "init" /\ agent' = "idle"
        \/ at' = "exit" /\ err' = TRUE /\ agent' = agent
    BY <1>6 DEF StartRestore
  <2>3. err = FALSE
    BY <2>1
  <2>4. First(todo)' = First(todo)
    BY <2>1 DEF First
  <2> HIDE DEF First
  <2>5. RestoreTypes' /\ TargetIsLast'
    BY <2>1, <2>2
  <2>6. ServerIsClosed' /\ StreamIsReceived'
    BY <2>1, <2>2, <2>3, <2>4
  <2>7. VolumeStays' /\ NoneServed'
    BY <2>1, <2>2
  <2> QED BY <2>5, <2>6, <2>7
<1>7. CASE CheckRestoreStatus
  BY <1>7 DEF CheckRestoreStatus, CheckStatusWith
<1>8. CASE ExitServer
  BY <1>8 DEF ExitServer
<1>9. CASE DataRestoreReturns
  <2>1. UNCHANGED <<target, err, received, status, agent, zvol, created, restored, down, phase, dirs>>
    BY <1>9 DEF DataRestoreReturns
  <2>2. CASE err
    BY <1>9, <2>1, <2>2 DEF DataRestoreReturns
  <2>3. CASE ~err
    <3>1. /\ at = "join" /\ down = "finished" /\ todo' = todo \ {First(todo)}
          /\ at' = IF todo' = {} THEN "create" ELSE "reset"
          /\ received = First(todo)
      BY <1>9, <2>3 DEF DataRestoreReturns
    <3>2. /\ todo' = {} => received = target
          /\ todo' # {} => target \in todo' /\ \A x \in todo' : x <= target
      BY <3>1, NextStream
    <3> QED BY <2>1, <3>1, <3>2
  <2> QED BY <2>2, <2>3
<1>10. CASE CreateZFSVolume
  <2>1. target # 0
    BY <1>10, NAssumption DEF CreateZFSVolume, Backups
  <2>2. UNCHANGED <<todo, target, err, received, status, agent, restored, down, phase, dirs>>
    BY <1>10 DEF CreateZFSVolume
  <2>3. /\ at = "create"
        /\ \/ zvol = "absent" /\ zvol' = "pending" /\ created' = target /\ at' \in {"check", "idle"}
           \/ UNCHANGED <<zvol, created>> /\ at' = "idle"
    BY <1>10 DEF CreateZFSVolume
  <2>4. created = 0 /\ restored = 0
    BY <2>3
  <2> QED BY <2>1, <2>2, <2>3, <2>4
<1>11. CASE CheckVolCreation
  BY <1>11 DEF CheckVolCreation
<1>12. CASE RestoreCrash
  BY <1>12 DEF RestoreCrash
<1> QED BY <1>1, <1>2, <1>3, <1>4, <1>5, <1>6, <1>7, <1>8, <1>9, <1>10, <1>11, <1>12 DEF Caller

LEMMA DownloadKeepsStream ==
    ASSUME StreamInv, DoDownload, UNCHANGED vars
    PROVE  StreamInv'
<1>1. /\ UNCHANGED <<callVars, clusterVars>> /\ down = "running"
      /\ down' = "finished" => phase' = "returned"
      /\ down' \in {"running", "finished"}
      /\ phase' = "leaving" => phase = "leaving" \/ agent # "receiving"
  BY DEF DoDownload, Listen, Download, DoDownloadEnds, Running, Server!Listen, Server!TimeOut,
     Server!Stay, Server!Close, Server!Return, Server!Fail, Server!ReturnFalse
<1> QED BY <1>1 DEF StreamInv, RestoreTypes, Streaming, TargetIsLast, ServerIsClosed,
     StreamIsReceived, VolumeStays, NoneServed, callVars, clusterVars, vars

LEMMA ClusterKeepsStream ==
    ASSUME StreamInv, Cluster, UNCHANGED vars
    PROVE  StreamInv'
<1> USE DEF StreamInv, RestoreTypes, Streaming, TargetIsLast, ServerIsClosed, StreamIsReceived,
            VolumeStays, NoneServed, ClusterStep, Receives, callVars, serverVars, vars
<1>1. CASE AgentConnects
  BY <1>1 DEF AgentConnects
<1>2. CASE AgentReceives
  BY <1>2 DEF AgentReceives
<1>3. CASE AgentReports
  BY <1>3 DEF AgentReports
<1>4. CASE LateAgent
  BY <1>4 DEF LateAgent
<1>5. CASE Driver
  BY <1>5 DEF Driver
<1> QED BY <1>1, <1>2, <1>3, <1>4, <1>5 DEF Cluster

LEMMA ScheduleKeepsStream ==
    ASSUME StreamInv, TypeInv, [Next]_vars, UNCHANGED restoreVars
    PROVE  StreamInv'
<1>1. dirs' \in SUBSET Backups
  <2>1. dirs \in SUBSET Backups /\ n \in 0..N
    BY DEF StreamInv, RestoreTypes, TypeInv
  <2>2. CASE Describe
    <3>1. n + 1 \in Backups /\ dirs' = dirs \cup {n + 1}
      BY <2>1, <2>2, NAssumption DEF Describe, Backups
    <3> QED BY <2>1, <3>1
  <2>3. CASE NotReady \/ CreateBackup \/ Succeed \/ Fail \/ Crash \/ UNCHANGED vars
    BY <2>1, <2>3 DEF NotReady, CreateBackup, Succeed, Fail, Crash, vars, Backups
  <2>4. ASSUME NEW b \in Backups, Expire(b) \/ Retire(b) PROVE dirs' \subseteq dirs
    BY <2>4 DEF Expire, Retire, Forget
  <2> QED BY <2>1, <2>2, <2>3, <2>4 DEF Next, Backups
<1> QED BY <1>1 DEF StreamInv, RestoreTypes, Streaming, TargetIsLast, ServerIsClosed,
     StreamIsReceived, VolumeStays, NoneServed, restoreVars, callVars, serverVars, clusterVars

LEMMA StreamCorrect == RestoreSpec => []StreamInv
<1>1. StreamInv /\ TypeInv /\ [RestoreNext]_zfsVars => StreamInv'
  BY CallerKeepsStream, DownloadKeepsStream, ClusterKeepsStream, ScheduleKeepsStream
     DEF RestoreNext, Terminated, zfsVars
<1>2. Spec => []TypeInv
  BY BaseInit, TypeStep, PTL DEF Spec, BaseInv
<1> QED BY <1>1, <1>2, StreamStarts, ScheduleIsKept, PTL DEF RestoreSpec

(* A ZFSVolume, returned or not, holds the backup that was asked for, and  *)
(* goes on holding it: earlier restores that failed, agents that come late and  *)
(* expiry do not change that.                                              *)
THEOREM RestoredIsTarget == RestoreSpec => []VolumeIsTarget
<1>1. StreamInv => VolumeIsTarget
  BY DEF StreamInv, VolumeStays, VolumeIsTarget
<1> QED BY <1>1, StreamCorrect, PTL

-------------------------------------------------------------------------------
LEMMA LeftStarts == RestoreInit => LeftInv
BY DEF RestoreInit, LeftInv

(* StartRestore makes the only resource, and CheckRestoreStatus deletes it *)
(* before the restore goes on.                                             *)
LEMMA CallerLeaves ==
    ASSUME StreamInv, LeftInv, CleansUp, Caller
    PROVE  LeftInv'
<1> DEFINE F == First(todo)
<1>0. /\ at # "poll" => names = {}
      /\ at = "poll" => names \subseteq {F}
  BY DEF LeftInv
<1>1. todo' = todo => First(todo)' = F
  BY DEF First
<1> HIDE DEF F
<1> USE <1>0 DEF LeftInv, CleansUp, serverVars, clusterVars
<1>2. CASE \E b \in Backups : DoRestore(b)
  BY <1>2 DEF DoRestore
<1>3. CASE GetSnapList \/ BuildZFSVolume
  BY <1>3 DEF GetSnapList, BuildZFSVolume
<1>4. CASE ConnStateReset \/ ConnReadyWait \/ ExitServer \/ DataRestoreReturns
  BY <1>4 DEF ConnStateReset, ConnReadyWait, ExitServer, DataRestoreReturns
<1>5. CASE StartRestore
  <2>1. /\ todo' = todo /\ at = "start"
        /\ \/ at' = "poll" /\ names' = names \cup {First(todo)}
           \/ at' = "exit" /\ (names' = names \/ "leftover" \in env)
    BY <1>5 DEF StartRestore
  <2>2. F = First(todo)
    BY DEF F
  <2> QED BY <1>1, <2>1, <2>2
<1>6. CASE CheckRestoreStatus
  <2>1. /\ at = "poll" /\ at' = "exit"
        /\ names' = names \ {First(todo)} \/ "leftover" \in env
    BY <1>6 DEF CheckRestoreStatus, CheckStatusWith
  <2>2. F = First(todo)
    BY DEF F
  <2> QED BY <2>1, <2>2
<1>7. CASE CreateZFSVolume
  BY <1>7 DEF CreateZFSVolume
<1>8. CASE CheckVolCreation
  BY <1>8 DEF CheckVolCreation
<1>9. CASE RestoreCrash
  BY <1>9 DEF RestoreCrash
<1> QED BY <1>2, <1>3, <1>4, <1>5, <1>6, <1>7, <1>8, <1>9 DEF Caller

LEMMA OthersLeave ==
    ASSUME LeftInv, CleansUp, [RestoreNext]_zfsVars, ~ Caller
    PROVE  LeftInv'
<1>1. UNCHANGED <<at, todo, names>>
  BY DEF RestoreNext, Terminated, zfsVars, restoreVars, callVars, clusterVars, DoDownload, Listen, Download,
     DoDownloadEnds, Running, Cluster, AgentConnects, AgentReceives, AgentReports, LateAgent, Driver, ClusterStep
<1>2. First(todo)' = First(todo)
  BY <1>1 DEF First
<1> HIDE DEF First
<1>3. env' = env
  BY DEF RestoreNext, Terminated, zfsVars, vars, Next
<1> QED BY <1>1, <1>2, <1>3 DEF LeftInv, CleansUp

LEMMA LeftCorrect == RestoreSpec => []LeftInv
<1>1. StreamInv /\ LeftInv /\ [RestoreNext]_zfsVars => LeftInv'
  <2> SUFFICES ASSUME StreamInv, LeftInv, [RestoreNext]_zfsVars PROVE LeftInv'
    OBVIOUS
  <2>1. env' = env
    BY DEF RestoreNext, Terminated, zfsVars, vars, Next
  <2>2. CASE CleansUp
    BY <2>2, CallerLeaves, OthersLeave
  <2>3. CASE ~ CleansUp
    BY <2>1, <2>3 DEF CleansUp, LeftInv
  <2> QED BY <2>2, <2>3
<1> QED BY <1>1, LeftStarts, StreamCorrect, PTL DEF RestoreSpec

(* A restore that fails can be tried again: with a cluster that executes   *)
(* what it is asked for there is no resource in the way, and no ZFSVolume  *)
(* but one that the driver was given after every stream had been received. *)
THEOREM FailedIsRetried == RestoreSpec => []CanBeRetried
<1>1. StreamInv /\ LeftInv => CanBeRetried
  BY DEF StreamInv, VolumeStays, LeftInv, CleansUp, CanBeRetried
<1> QED BY <1>1, StreamCorrect, LeftCorrect, PTL

(* What is proved of the schedule alone stays true while backups are       *)
(* restored.                                                               *)
THEOREM ScheduleBesideRestores ==
    RestoreSpec => [](DeltaHasBase /\ NeverPanics /\ RestorableUndisturbed)
BY ScheduleIsKept, IncrementHasBase, PrevSnapIsFound, GroupsAreRestorable, PTL

-------------------------------------------------------------------------------
(* The streams and their Downloads                                         *)

SeriesStep == Server!Next \/ Server!Begin \/ Server!Clear \/ Server!Leave

LEMMA CallerMakesSeries ==
    ASSUME StreamInv, CleansUp, Caller
    PROVE  [SeriesStep]_(Server!transferVars)
<1> USE DEF SeriesStep, Server!transferVars, serverVars, clusterVars, callVars
<1>1. CASE \E b \in Backups : DoRestore(b)
  BY <1>1 DEF DoRestore
<1>2. CASE GetSnapList \/ BuildZFSVolume \/ ConnReadyWait
  BY <1>2 DEF GetSnapList, BuildZFSVolume, ConnReadyWait
<1>3. CASE ConnStateReset
  <2>1. phase = "returned" /\ agent = "none"
    BY <1>3 DEF ConnStateReset, StreamInv, ServerIsClosed, StreamIsReceived
  <2> QED BY <1>3, <2>1 DEF ConnStateReset, Server!Begin
<1>4. CASE StartRestore
  <2>1. agent = "none"
    BY <1>4 DEF StartRestore, StreamInv, StreamIsReceived
  <2> QED BY <1>4, <2>1 DEF StartRestore
<1>5. CASE CheckRestoreStatus
  <2>1. UNCHANGED <<phase, exitServer, result>> /\ agent' = "none"
    BY <1>5 DEF CheckRestoreStatus, CheckStatusWith
  <2>2. CASE phase \in {"serving", "closing"}
    BY <2>1, <2>2 DEF Server!Next, Server!Take
  <2>3. CASE phase \notin {"serving", "leaving", "closing"}
    BY <2>1, <2>3 DEF Server!Leave
  <2>4. CASE phase = "leaving"
    BY <2>1, <2>4 DEF StreamInv, NoneServed
  <2> QED BY <2>2, <2>3, <2>4
<1>6. CASE ExitServer
  BY <1>6 DEF ExitServer, Server!Next, Server!RequestExit
<1>7. CASE DataRestoreReturns \/ CreateZFSVolume \/ CheckVolCreation
  BY <1>7 DEF DataRestoreReturns, CreateZFSVolume, CheckVolCreation
<1>8. CASE RestoreCrash
  BY <1>8 DEF RestoreCrash, CleansUp
<1> QED BY <1>1, <1>2, <1>3, <1>4, <1>5, <1>6, <1>7, <1>8 DEF Caller

LEMMA ServerMakesSeries ==
    ASSUME DoDownload
    PROVE  [SeriesStep]_(Server!transferVars)
<1>1. CASE Listen
  BY <1>1 DEF Listen, SeriesStep, Server!Next
<1>2. CASE Download
  BY <1>2 DEF Download, SeriesStep, Server!Next
<1>3. CASE DoDownloadEnds
  BY <1>3 DEF DoDownloadEnds, Running, clusterVars, Server!transferVars
<1> QED BY <1>1, <1>2, <1>3 DEF DoDownload

LEMMA ClusterMakesSeries ==
    ASSUME StreamInv, Cluster
    PROVE  [SeriesStep]_(Server!transferVars)
<1> USE DEF SeriesStep, Server!transferVars, ClusterStep, serverVars
<1>1. CASE AgentConnects
  BY <1>1 DEF AgentConnects, Server!Next, Server!Arrive
<1>2. CASE AgentReceives
  BY <1>2 DEF AgentReceives, Server!Next, Server!Take
<1>3. CASE AgentReports
  <2>1. UNCHANGED <<phase, exitServer, result>> /\ agent' = "stopped"
    BY <1>3 DEF AgentReports
  <2>2. CASE phase \in {"serving", "closing"}
    BY <2>1, <2>2 DEF Server!Next, Server!Take
  <2>3. CASE phase \notin {"serving", "leaving", "closing"}
    BY <2>1, <2>3 DEF Server!Leave
  <2>4. CASE phase = "leaving"
    BY <2>1, <2>4 DEF StreamInv, NoneServed
  <2> QED BY <2>2, <2>3, <2>4
<1>4. CASE LateAgent \/ Driver
  BY <1>4 DEF LateAgent, Driver
<1> QED BY <1>1, <1>2, <1>3, <1>4 DEF Cluster

(* As long as its process lives, the plugin makes one Download after       *)
(* another over its connection, each as Transfer has it: dataRestore is    *)
(* left only when its Download has returned, also when the stream before   *)
(* has failed and its agent still receives.                                *)
THEOREM StreamsAreSeries == RestoreSpec /\ []CleansUp => Server!Series
<1>1. RestoreInit => phase = "returned" /\ ~exitServer /\ result = "none"
  BY DEF RestoreInit
<1>2. StreamInv /\ CleansUp /\ [RestoreNext]_zfsVars => [SeriesStep]_(Server!transferVars)
  <2> SUFFICES ASSUME StreamInv, CleansUp, [RestoreNext]_zfsVars
               PROVE  [SeriesStep]_(Server!transferVars)
    OBVIOUS
  <2>1. CASE UNCHANGED restoreVars \/ UNCHANGED zfsVars
    BY <2>1 DEF Server!transferVars, zfsVars, restoreVars, serverVars, clusterVars
  <2> QED BY <2>1, CallerMakesSeries, ServerMakesSeries, ClusterMakesSeries DEF RestoreNext, Terminated
<1> QED BY <1>1, <1>2, StreamCorrect, PTL DEF RestoreSpec, SeriesStep, Server!Series
===============================================================================
