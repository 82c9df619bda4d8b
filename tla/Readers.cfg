SPECIFICATION FairSpec
CONSTANTS
    Lotteries <- MCLotteries
    Draws <- MCDraws
    Revisions = {1, 2}
    Contents <- MCContents
    LotteryOf <- MCLotteryOf
    Nothing = Nothing
    Rules <- MCRules
    RuleLottery <- MCRuleLottery
    Tickets <- MCTickets
    WellFormed <- MCWellFormed
    Accepted <- MCAccepted
    DrawOrder <- MCDrawOrder
    Slots = {1, 2, 3}
    MaxRequests <- MCMaxRequests
    MaxChanges = 2
    Pages = {"home", "check", "search", "result"}
    Linked = {"b"}
INVARIANTS
    TypeOK
    OutcomeIsOfShownTicket
    VerdictOfShownRevision
    ChecksFitTheirDraw
PROPERTIES
    AnswersAreOfOneMoment
    FormComesBack
CHECK_DEADLOCK FALSE
