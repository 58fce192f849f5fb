SPECIFICATION Spec
CONSTANTS
    Newline = "nl"
    Blank = {"nl"}
    DirectivesIn <- MCDirectivesIn
    Nodes <- MCNodes
    Known <- MCKnown
    Inactive <- MCInactive
    Files = {1, 2}
    Tokens <- MCTokens
    Untyped <- MCUntyped
    Typed <- MCTyped
    Facts <- MCFacts
    Suggestions <- MCSuggestions
    TopLevel = "top"
    InitialDisks <- MCMarkedDisks
    Bom = "bom"
    Malformed = "raw"
    Replacement = "fffd"
    EditsOf <- MCEditsOf
    NoText = NoText
    NoBaseline = NoBaseline
    Partial = Partial
    MaxRuns = 1
    MaxEdits = 0
    MaxFaults = 0
PROPERTIES
    FixesKeepOtherBytes
CHECK_DEADLOCK FALSE
