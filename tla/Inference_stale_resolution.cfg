SPECIFICATION Spec
CONSTANTS
    f = f  g = g  h = h  s = s  A = A  B = B  T = T  S = S  m = m  n = n  Int = Int
    int = int  throws = throws  documented = documented
    callsF = callsF  callsG = callsG  callsBoth = callsBoth  callsB = callsB
    wraps = wraps  chains = chains  drops = drops  nests = nests  asksG = asksG
    plainA = plainA  mutualA = mutualA  documentsM = documentsM  usesT = usesT  adaptsT = adaptsT  closesB = closesB  heir = heir
    overrides = overrides  traitM = traitM  traitNests = traitNests  traitRec = traitRec
    traitSelf = traitSelf  traitN = traitN  usesH = usesH  usesBoth = usesBoth
    Keys = {f, g, h, A, B, T}
    Names = {m, n}
    Texts <- MCTexts
    NoText = NoText
    ClassOf <- MCClassOf
    FunctionOf <- MCFunctionOf
    StubParents <- MCStubParents
    StubMethods <- MCStubMethods
    StubFunctions <- MCStubFunctions
    EnumParents <- MCEnumParents
    NoKey = NoKey
    NoEntry = NoEntry
    NoTable = NoTable
    Mixed = Mixed  Null = Null  Self = Self  Static = Static
    Undeclared = Undeclared
    This = This
    DepthCap = 4
    Budget = 2
    EngineLimit = 3
    InitialPrograms <- ShadowedPrograms
    Edits <- Shadowing
    MaxRuns = 2
INVARIANT
    AnswersAreLeast
CHECK_DEADLOCK FALSE
