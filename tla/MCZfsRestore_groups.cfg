SPECIFICATION RestoreSpec
CONSTANTS
    N = 7
    incremental = 2
    Attempts = 2
    Envs = {{"retire", "restore"}, {"restore", "leftover"}, {"fail", "restore"}, {"fail", "undeleted", "crash"}, {"fail", "expire", "retire"}}
INVARIANTS
    RestorableUndisturbed
    DeltaHasBase
    NeverPanics
    VolumeIsTarget
    CanBeRetried
