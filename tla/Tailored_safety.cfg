SPECIFICATION Spec
CONSTANTS
    Objects = {"p1", "p2", "r1"}
    Profiles <- MCProfiles
    Rules <- MCRules
    Variables <- MCVariables
    BundleOf <- MCBundleOf
    IdOf <- MCIdOf
    TypeOf <- MCTypeOf
    Offered <- MCOffered
    Texts <- MCTexts
    Numerals <- MCNumerals
    Truths <- MCTruths
    Specs <- Outputs
    ContentLag = TRUE
    MaxUid = 1
    MaxTp = 1
    Budget <- ApiCrashEdit
INVARIANTS
    TypeOK
    OutputAnnounced
    RulesOnce
    ValuesAccepted
    OutputMatchesSpec
    Inductive
PROPERTIES
    StateOfThisSpec
    OwnersStay
    ImplementsTailored
CHECK_DEADLOCK FALSE
