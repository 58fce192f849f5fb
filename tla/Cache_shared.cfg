\* Two processes over one directory: each may sweep the temporary of the other,
\* and replace the packs under it.
SPECIFICATION Spec
CONSTANTS
    caller = caller  crash = crash  lib = lib  moved = moved  other = other
    narrow = narrow  wide = wide  lax = lax  strict = strict  b1 = b1
    p = p  q = q
    Files = {1, 2}
    Reported = {1}
    Texts = {caller, crash, lib, moved, other}
    NoText = NoText
    Declares <- MCDeclares
    Consults <- MCConsults
    TypedConsults <- MCConsults
    Poison = {crash}
    Panicked = Panicked
    Ranges = {narrow, wide}
    Stubs <- MCStubs
    Configs = {lax, strict}
    Builds = {b1}
    Procs = {p, q}
    Build <- MCSameBuild
    PackOrder <- MCTwoPacks
    InitialProjects <- MCInitialProjects
    Edits <- MCSharedEdits
    FaultKinds = {"kill", "write"}
    NoProject = NoProject
    NoOutcome = NoOutcome
    NoPack = NoPack
    Damaged = Damaged
    MaxEdits = 1
    MaxFaults = 1
INVARIANTS
    AnsweredPacksAreOnDisk
PROPERTIES
    ImplementsColdCheck
