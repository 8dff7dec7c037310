SPECIFICATION Spec
CONSTANTS
    Docs <- MCDocs
    NameOf <- MCNameOf
    Pieces <- MCPieces
    Crashes = 1
INVARIANTS
    TypeOK
    FormsDecide
    FixesUsable
    ControlsComplete
    ControlsOnce
    VariablesFaithful
    RulesResolve
    Inductive
PROPERTY
    ImplementsForms
CHECK_DEADLOCK FALSE
