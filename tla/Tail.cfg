\* One rule set whose first prize is won by the last two digits.
SPECIFICATION Spec
CONSTANTS
    RuleSets <- TailRuleSets
    Uploads <- MCUploads
    Lists <- MCLists
    Amounts = {"a"}
    Tickets <- MCTickets
    MaxPatches = 1
    MaxResults = 1
    Null = Null
    Archive = {}
INVARIANT
    ObservationsHaveOneLength
CHECK_DEADLOCK FALSE
