SPECIFICATION Spec
CONSTANTS
    Path <- MCPath
    Dir <- MCDir
    SkipName <- MCSkipName
    RootLists <- MCRootLists
    Archive <- MCArchive
    MaxSize = 2
    MaxChanges = 2
    Warning = 1
    Hard = 2
    ErrorCap = 1
INVARIANTS
    TypeOK
    QuietIsExact
    AlarmIsRaised
    AlarmIsEarned
CHECK_DEADLOCK FALSE
