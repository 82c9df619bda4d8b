SPECIFICATION Spec
CONSTANTS
    Lotteries <- MCLotteries
    Draws <- MCDraws
    Revisions = {1, 2}
    Contents <- MCContents
    LotteryOf <- MCLotteryOf
    Nothing = Nothing
    Rules <- MCRules
    RuleLottery <- MCRuleLottery
    Tickets <- MCTickets
    WellFormed <- MCWellFormed
    Accepted <- MCAccepted
    DrawOrder <- MCDrawOrder
    Slots = {1, 2, 3}
    MaxRequests <- MCMaxRequests
    MaxChanges = 2
    Pages = {"result"}
    Linked = {"b"}
INVARIANT OnePageOneRevision
CHECK_DEADLOCK FALSE
