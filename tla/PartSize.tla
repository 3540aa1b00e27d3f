-------------------------------- MODULE PartSize --------------------------------
(***************************************************************************)
(* The size of the parts in which Conn.Upload writes an object to S3       *)
(* (operation.go, and getPartSize and setupAWS in conn.go).  The bucket    *)
(* takes at most MaxUploadParts parts of an object.  The size is a field   *)
(* of Conn, which serves all the volumes of a backup.                      *)
(***************************************************************************)
EXTENDS Integers

CONSTANTS
    MaxUploadParts,    \* of the S3 upload manager
    MinUploadPartSize, \* of the S3 upload manager
    Metadata,          \* the slack of a part, 100 bytes
    Sizes,             \* of volumes
    Uploads            \* volumes of a backup

ASSUME PartsAssumption ==
    /\ MaxUploadParts \in Nat \ {0}
    /\ MinUploadPartSize \in Nat \ {0}
    /\ Metadata \in Nat \ {0}
    /\ Sizes \subseteq Nat
    /\ Uploads \in Nat

VARIABLES
    configured, \* multiPartChunkSize, 0 when it is not set
    partSize,   \* Conn.partSize
    bufferSize, \* BufferSize of the last writer Create has made
    fileSize,   \* of the last upload
    uploads     \* uploads so far

vars == <<configured, partSize, bufferSize, fileSize, uploads>>

Init ==
    /\ configured \in {0} \cup {s \in Sizes : s >= MinUploadPartSize}
    /\ partSize = configured
    /\ bufferSize = 0 /\ fileSize = 0 /\ uploads = 0

AtLeastMin(part) == IF part < MinUploadPartSize THEN MinUploadPartSize ELSE part

(* Variant: no slack for the rounding.                                     *)
CalculatedExactly(size) == AtLeastMin(size \div MaxUploadParts)

Calculated(size) == AtLeastMin(size \div MaxUploadParts + Metadata)

Upload(size) ==
    /\ uploads < Uploads
    /\ partSize'   = IF partSize = 0 THEN Calculated(size) ELSE partSize
    /\ bufferSize' = partSize'
    /\ fileSize'   = size
    /\ uploads'    = uploads + 1
    /\ UNCHANGED configured

Next == \E size \in Sizes : Upload(size)

Spec == Init /\ [][Next]_vars
-------------------------------------------------------------------------------
(* MaxUploadParts parts are enough for that many bytes.                    *)
Fits(bytes) == bytes <= bufferSize * MaxUploadParts

(* The first upload fits into the parts there are, though both the part    *)
(* size and the number of parts are rounded, with room for the metadata    *)
(* of the snapshot that the size of the volume leaves out.  A later upload *)
(* keeps the part size of the first one, whatever its own size.            *)
FirstUploadFits == configured = 0 /\ uploads = 1 => Fits(fileSize + Metadata)
===============================================================================
