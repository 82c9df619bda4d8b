\* A draft is given dates the draw table refuses.
CONSTANTS
    Nil = Nil
    l1 = l1
    Lotteries = {l1}
    Draws = {d1}
    Rules = {u1}
    Revisions = {r1}
    Batches = {b1}
    Admins = {bob}
    Publishers = {bob}
    LotteryOf <- MCLotteryOf
    RuleLottery <- MCRuleLottery
    CompilableRules = {u1}
    Dates = {day1, instantOnly}
    DrawDates = {day1}
    Payloads = {full}
    PublishablePayloads = {full}
    CompletePayloads = {full}
    AllowSelfReview = TRUE
    MaxRevisionVersion = 3
    MaxDrawVersion = 4
SPECIFICATION Spec
SYMMETRY Interchangeable
INVARIANTS
    ReviewedSnapshotFitsDraw
