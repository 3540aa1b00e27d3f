----------------------------- MODULE PartSize_proofs -----------------------------
(* FirstUploadFits for every volume size, and every limit of S3.           *)
EXTENDS PartSize, TLAPS

TypeInv ==
    /\ configured \in Nat
    /\ uploads \in Nat
    /\ fileSize \in Nat
    /\ bufferSize \in Nat
    /\ partSize \in Nat
    /\ uploads = 0 => partSize = configured

(* The size that Upload calculates holds the volume and its metadata in    *)
(* MaxUploadParts parts: the slack of Metadata bytes a part makes up for   *)
(* the remainder of the division.                                          *)
LEMMA CalculatedHolds ==
    ASSUME NEW size \in Nat
    PROVE  /\ Calculated(size) \in Nat
           /\ size + Metadata <= Calculated(size) * MaxUploadParts
<1> DEFINE q == size \div MaxUploadParts
           r == size % MaxUploadParts
<1> USE PartsAssumption
<1>1. /\ q \in Nat /\ r \in Nat
      /\ size = MaxUploadParts * q + r
      /\ r <= MaxUploadParts - 1
  OBVIOUS
<1>2. Calculated(size) \in Nat /\ q + Metadata <= Calculated(size)
  BY <1>1 DEF Calculated, AtLeastMin
<1>3. MaxUploadParts - 1 + Metadata <= Metadata * MaxUploadParts
  <2>1. (MaxUploadParts - 1) * (Metadata - 1) >= 0
    OBVIOUS
  <2>2. (MaxUploadParts - 1) * (Metadata - 1)
            = Metadata * MaxUploadParts - MaxUploadParts - Metadata + 1
    OBVIOUS
  <2> QED BY <2>1, <2>2
<1>4. (q + Metadata) * MaxUploadParts = MaxUploadParts * q + Metadata * MaxUploadParts
  BY <1>1
<1>5. size + Metadata <= (q + Metadata) * MaxUploadParts
  BY <1>1, <1>3, <1>4
<1>6. (q + Metadata) * MaxUploadParts <= Calculated(size) * MaxUploadParts
  <2> HIDE DEF q
  <2>1. \A a, b, m \in Nat : a <= b => a * m <= b * m
    OBVIOUS
  <2> QED BY <1>1, <1>2, <2>1
<1> QED BY <1>1, <1>2, <1>5, <1>6

LEMMA PartTypes == Spec => []TypeInv
<1>1. Init => TypeInv
  BY PartsAssumption DEF Init, TypeInv
<1>2. TypeInv /\ [Next]_vars => TypeInv'
  <2> SUFFICES ASSUME TypeInv, [Next]_vars PROVE TypeInv'
    OBVIOUS
  <2>1. CASE Next
    <3>1. PICK size \in Sizes : Upload(size)
      BY <2>1 DEF Next
    <3>2. size \in Nat
      BY PartsAssumption
    <3>3. Calculated(size) \in Nat
      BY <3>2, CalculatedHolds
    <3> QED BY <3>1, <3>2, <3>3 DEF Upload, TypeInv
  <2>2. CASE UNCHANGED vars
    BY <2>2 DEF vars, TypeInv
  <2> QED BY <2>1, <2>2
<1> QED BY <1>1, <1>2, PTL DEF Spec

(* The first upload of a connection, whose part size is not configured,    *)
(* fits into MaxUploadParts parts together with the metadata.              *)
THEOREM FirstFits == Spec => []FirstUploadFits
<1>1. Init => FirstUploadFits
  BY DEF Init, FirstUploadFits
<1>2. TypeInv /\ FirstUploadFits /\ [Next]_vars => FirstUploadFits'
  <2> SUFFICES ASSUME TypeInv, FirstUploadFits, [Next]_vars,
                      configured' = 0, uploads' = 1
               PROVE  Fits(fileSize + Metadata)'
    BY DEF FirstUploadFits
  <2>1. CASE Next
    <3>1. PICK size \in Sizes : Upload(size)
      BY <2>1 DEF Next
    <3>2. size \in Nat
      BY PartsAssumption
    <3>3. uploads = 0 /\ partSize = 0
      BY <3>1 DEF Upload, TypeInv
    <3>4. bufferSize' = Calculated(size) /\ fileSize' = size
      BY <3>1, <3>3 DEF Upload
    <3> QED BY <3>2, <3>4, CalculatedHolds DEF Fits
  <2>2. CASE UNCHANGED vars
    BY <2>2 DEF vars, FirstUploadFits, Fits
  <2> QED BY <2>1, <2>2
<1> QED BY <1>1, <1>2, PartTypes, PTL DEF Spec
===============================================================================
