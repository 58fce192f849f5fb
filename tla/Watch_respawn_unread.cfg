SPECIFICATION Spec
CONSTANTS
    a = a  b = b  r1 = r1  r2 = r2  composer = composer  lock = lock
    empty = empty  v1 = v1  php7 = php7  php8 = php8
    Files = {a, b}
    Roots = {r1, r2}
    RootOf <- MCOneRoot
    Settings = {php7, php8}
    Bytes = {empty, v1}
    Empty = empty
    Absent = Absent
    Denied = Denied
    Manifests = {composer, lock}
    Layouts <- MCOneLayout
    InitialDisks <- MCInitialDisks
    InitialPaths <- MCNoLockfile
    Poison = {empty}
    MayRefuse = {}
    Shutdown = Shutdown
    NoPicture = NoPicture
    WholePass = WholePass
    MaxEdits = 3
PROPERTY
    RespawnDropsNothingUnread
CHECK_DEADLOCK FALSE
