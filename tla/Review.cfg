\* Editing and review: one draft, two publishers with pages of any age.
CONSTANTS
    Nil = Nil
    l1 = l1
    Lotteries = {l1}
    Draws = {d1}
    Rules = {u1}
    Revisions = {r1}
    Batches = {b1}
    Admins = {bob, carol}
    Publishers = {bob, carol}
    LotteryOf <- MCLotteryOf
    RuleLottery <- MCRuleLottery
    CompilableRules = {u1}
    Dates = {day1}
    DrawDates = {day1}
    Payloads = {full, part, broken}
    PublishablePayloads = {full, part}
    CompletePayloads = {full}
    AllowSelfReview = FALSE
    MaxRevisionVersion = 6
    MaxDrawVersion = 5
SPECIFICATION Spec
SYMMETRY InterchangeablePeople
INVARIANTS
    TypeOK
    ReviewCoversContent
    FourEyes
PROPERTIES
    ReviewedAsSeen
    PublishedAsSeen
    SuspendedAsSeen
