SPECIFICATION Spec
CONSTANTS
    Calls = 2
    NoContent = NoContent
    Faults = {{"setup"}}
PROPERTIES
    StopsForOwnBackup
