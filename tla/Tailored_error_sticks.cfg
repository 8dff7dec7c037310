SPECIFICATION FairSpec
CONSTANTS
    Objects = {"p1", "r1"}
    Profiles <- MCProfiles
    Rules <- MCRules
    Variables <- MCVariables
    BundleOf <- MCBundleOf
    IdOf <- MCIdOf
    TypeOf <- MCTypeOf
    Offered <- MCOffered
    Texts <- MCTexts
    Numerals <- MCNumerals
    Truths <- MCTruths
    Specs <- PlainOnly
    ContentLag = FALSE
    MaxUid = 2
    MaxTp = 1
    Budget <- NoFaults
PROPERTY
    ErrorIsCurrent
CHECK_DEADLOCK FALSE
