SPECIFICATION Spec
CONSTANTS
    restart_first = 1
    max_learnts <- LearntsLimit
    Wffs <- SomeWffs
    Formals <- SomeFormals
    Formulas <- SomeFormulas
    NdTerms <- SomeTerms
    MaxAnts = 3
    MaxProof = 4
    TreeVars = {"ph", "ps", "x", "y", "n1", "n2", "n3", "n4"}
    TypeOfVar <- VarTypes
    TypeOfTerm <- TermTypes
    TbAsses <- SomeAsses
    TbOrder <- SomeOrder
    TbVars <- SomeVars
    TempVars <- SomeTemps
    ImpLabel = "wi"
    Askable <- SomeAskable
    Renaming <- SomeRenaming
    MaxAsked = 2
    MaxVisits = 6
    Z3Problems <- SomeProblems
    Rewrites <- SomeRewrites
    InLibrary <- KnownRewrites
    Tautologies <- SomeTautologies
    MaxSteps = 3
    TermVars = {"X", "Y"}
    Axioms <- SomeAxioms
    LiteralTrees <- SomeLiteralTrees
    FotTerms <- SomeFotTerms
    Substs <- SomeSubsts
    WrongTrees <- SomeWrongTrees
    MaxLines = 4
    SetVars <- SomeSetVars
    WffVars = {"ph", "ps"}
    MaxDepth = 2
    Library <- SomeStatements
    Syntax <- SomeSyntax
    Relations <- SomeRelations
    MaxHeight = 2
INVARIANTS SolverRight
INVARIANTS ToolboxRight SearchSound
INVARIANTS Z3Right RefutationsHold DefinitionsUnfold
INVARIANTS ChecksSound ConversionExact
CHECK_DEADLOCK FALSE
