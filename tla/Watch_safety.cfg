\* One edit of each kind that matters fits in MaxEdits; a shutdown may be sent
\* at any moment.  The process ends and the user stops: no deadlock check.
SPECIFICATION Spec
CONSTANTS
    a = a  b = b  r1 = r1  r2 = r2  composer = composer  lock = lock
    empty = empty  v1 = v1  php7 = php7  php8 = php8
    Files = {a, b}
    Roots = {r1, r2}
    RootOf <- MCRootOf
    Settings = {php7, php8}
    Bytes = {empty, v1}
    Empty = empty
    Absent = Absent
    Denied = Denied
    Manifests = {composer, lock}
    Layouts <- MCLayouts
    InitialDisks <- MCInitialDisks
    InitialPaths <- MCInitialPaths
    Poison = {empty}
    MayRefuse = {r2}
    Shutdown = Shutdown
    NoPicture = NoPicture
    WholePass = WholePass
    MaxEdits = 2
INVARIANTS
    TypeOK
    NoSilentStaleness
    NoSilentDrift
    DepartedStaysDeparted
    VfsMirrorsAnalyzedSet
    PictureIsCurrent
    BlindRootsAreReported
    ShutdownIsNotForgotten
    GracefulExitSavesThePicture
    LoopInvariant
PROPERTIES
    RespawnAfterRediscoveryIsLossless
    RespawnNeedsACause
    NoRecoverableBlindSpot
    ImplementsPicture
CHECK_DEADLOCK FALSE
