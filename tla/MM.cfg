SPECIFICATION MCSpec
CONSTANTS
    w = w
    p = p
    fw = fw
    ep = ep
    ax = ax
    mp = mp
    both = both
    None = None
    Sentences = {w, p}
    Assertions = {ax, mp, both}
    Wanted = {p, w}
    Hypotheses = {fw, ep}
    Pairs = {"xy", "yz"}
    Statement <- MCStatement
    Floats <- MCFloats
    Esses <- MCEsses
    Thesis <- MCThesis
    Imposed <- MCImposed
    MaxProof = 4
    MaxSaved = 2
    MaxCheckpoints = 2
    MaxTrees = 4
    Constants = {"w", "t", "P"}
    Variables = {"x", "y"}
    FirstTypes <- TypesOfXY
    Statements <- ReadStatements
    MaxNamed = 3
    Codes <- ReadCodes
    MaxLength = 4
    MaxLabels = 5
    MaxRead = 4
    ProofLib <- SmallLib
    Context <- SmallContext
    MaxSteps = 7
    MaxStack = 4
    Width = 9
    MaxDigits = 4
    TreeVars = {"x", "y", "z", "u"}
    TypeOfVar <- VarTypes
    TypeOfTerm <- TermTypes
    Trees <- SomeTrees
    MaxPairs = 2
    Grammars <- SomeGrammars
    MaxTokens = 5
    TokConsts = {"c"}
    TokVars = {"x", "y"}
    MaxTempl = 4
    MaxSent = 4
    Allocators = {one, other}
    Refreshable <- SomeRefreshable
    HypNames = {"hypothesis.0"}
    MaxTemps = 3
    MaxFrames = 2
    Items <- SomeItems
    Files <- SomeFiles
    MaxItems = 3
    Phrases <- SomePhrases
    Openings <- SomeOpenings
    KnownSymbols <- SomeSymbols
    MaxPhrases = 2
    EditorLib <- SomeEditorLib
    Implies = 6
    ModusPonens = 9
    EditorVars = {"p", "q", "r"}
    Formulas <- SomeFormulas
    Tautologies = {12}
    AntidistPairs <- PairsExcluded
    Temporaries <- SomeTemporaries
    MaxTreeSteps = 4
INVARIANTS StacksAgree DistsComplete StackDescribed
INVARIANTS TheoremsDerivable ProofsWritten MatchingRight SyntaxExact TemporariesOwned
PROPERTIES ImplementsCheckpoints
SYMMETRY Symmetric
CHECK_DEADLOCK FALSE
