SPECIFICATION Spec
CONSTANTS
    Path <- MCPath
    LongPath <- MCLongPath
    Fqn <- MCFqn
    Stamp <- MCStamp
    Cli = {cli}
    Web = {web}
    MaxVersions = 3
    MaxPulls = 2
INVARIANTS
    VersionsKept
    NotEmptied
CHECK_DEADLOCK FALSE
