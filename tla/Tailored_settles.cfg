SPECIFICATION FairSpec
CONSTANTS
    Objects = {"p1", "r1"}
    Profiles <- MCProfiles
    Rules <- MCRules
    Variables <- MCVariables
    BundleOf <- MCBundleOf
    IdOf <- MCIdOf
    TypeOf <- MCTypeOf
    Offered <- MCOffered
    Texts <- MCTexts
    Numerals <- MCNumerals
    Truths <- MCTruths
    Specs <- PlainOrOrphan
    ContentLag = FALSE
    MaxUid = 2
    MaxTp = 2
    Budget <- LateAndRemove
INVARIANT
    OutputAnnounced
PROPERTIES
    EventuallySettled
    EventuallyReady
    OutputsCollected
CHECK_DEADLOCK FALSE
