SPECIFICATION Spec
CONSTANTS
    Newline = "nl"
    Blank = {"nl"}
    DirectivesIn <- MCDirectivesIn
    Nodes <- MCNodes
    Known <- MCKnown
    Inactive <- MCInactive
    Files = {1, 2}
    Tokens <- MCTokens
    Untyped <- MCUntyped
    Typed <- MCTyped
    Facts <- MCFacts
    Suggestions <- MCSuggestions
    TopLevel = "top"
    InitialDisks <- MCInitialDisks
    Bom = "bom"
    Malformed = "raw"
    Replacement = "fffd"
    EditsOf <- MCEditsOf
    NoText = NoText
    NoBaseline = NoBaseline
    Partial = Partial
    MaxRuns = 2
    MaxEdits = 1
    MaxFaults = 1
INVARIANTS
    WarmReportsAreCold
    UnusedIsRemovable
    BaselineHidesOnlyRecorded
    BaselineSurvivesMoves
    PlanIsGreedy
    VerdictIsHonest
PROPERTIES
    OnlyWholeFixesLand
CHECK_DEADLOCK FALSE
