SPECIFICATION Spec
CONSTANTS
    MaxUploadParts = 4
    MinUploadPartSize = 3
    Metadata = 1
    Sizes <- SmallSizes
    Uploads = 2
INVARIANTS
    FirstUploadFits
CHECK_DEADLOCK FALSE
