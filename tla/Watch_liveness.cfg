\* Under FairSpec.  The user stops after MaxEdits edits, so the loop must come to rest.
SPECIFICATION FairSpec
CONSTANTS
    a = a  b = b  r1 = r1  r2 = r2  composer = composer  lock = lock
    empty = empty  v1 = v1  php7 = php7  php8 = php8
    Files = {a, b}
    Roots = {r1, r2}
    RootOf <- MCRootOf
    Settings = {php7, php8}
    Bytes = {empty, v1}
    Empty = empty
    Absent = Absent
    Denied = Denied
    Manifests = {composer, lock}
    Layouts <- MCTwoLayouts
    InitialDisks <- MCInitialDisks
    InitialPaths <- MCNoLockfile
    Poison = {empty}
    MayRefuse = {r2}
    Shutdown = Shutdown
    NoPicture = NoPicture
    WholePass = WholePass
    MaxEdits = 2
PROPERTIES
    EditsAreShown
    ShutdownIsAnswered
CHECK_DEADLOCK FALSE
