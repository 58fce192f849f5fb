\* One process, nobody else in the directory, one write that fails,
\* edits of the PHP range and the rules only.
SPECIFICATION Spec
CONSTANTS
    caller = caller  crash = crash  lib = lib  moved = moved  other = other
    narrow = narrow  wide = wide  lax = lax  strict = strict  b1 = b1
    p = p  q = q
    Files = {1, 2}
    Reported = {1}
    Texts = {caller, crash, lib, moved, other}
    NoText = NoText
    Declares <- MCDeclares
    Consults <- MCConsults
    TypedConsults <- MCConsults
    Poison = {crash}
    Panicked = Panicked
    Ranges = {narrow, wide}
    Stubs <- MCStubs
    Configs = {lax, strict}
    Builds = {b1}
    Procs = {p}
    Build <- MCOneBuild
    PackOrder <- MCAllPacks
    InitialProjects <- MCInitialProjects
    Edits <- MCSettingsEdits
    FaultKinds = {"write"}
    NoProject = NoProject
    NoOutcome = NoOutcome
    NoPack = NoPack
    Damaged = Damaged
    MaxEdits = 2
    MaxFaults = 1
INVARIANTS
    UnchangedIsOnDisk
