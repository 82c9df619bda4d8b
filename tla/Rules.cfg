SPECIFICATION Spec
CONSTANTS
    RuleSets <- MCRuleSets
    Uploads <- MCUploads
    Lists <- MCLists
    Amounts = {"a"}
    Tickets <- MCTickets
    MaxPatches = 2
    MaxResults = 2
    Null = Null
    Archive <- MCArchive
INVARIANTS
    ChecksFollowTheRules
    ImportsNeedNoRepair
    FiguresAreExact
PROPERTY
    UpdatesNeverTakeBack
CHECK_DEADLOCK FALSE
