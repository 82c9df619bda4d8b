\* Results of one draw, complete or partial, of one date or another, published one after another,
\* withheld or left behind while the draw is patched and the rule revoked.
CONSTANTS
    Nil = Nil
    l1 = l1
    Lotteries = {l1}
    Draws = {d1}
    Rules = {u1}
    Revisions = {r1, r2, r3}
    Batches = {b1, b2}
    Admins = {bob}
    Publishers = {bob}
    LotteryOf <- MCLotteryOf
    RuleLottery <- MCRuleLottery
    CompilableRules = {u1}
    Dates = {day1, day2}
    DrawDates = {day1, day2}
    Payloads = {full, part}
    PublishablePayloads = {full, part}
    CompletePayloads = {full}
    AllowSelfReview = TRUE
    MaxRevisionVersion = 3
    MaxDrawVersion = 5
SPECIFICATION Spec
SYMMETRY Interchangeable
INVARIANTS
    PublicationsFormAChain
    NumbersAreUnique
    ReadersSeeTheLedger
    CurrentIsPublished
    PublishedDrawKeepsReviewedDates
PROPERTIES
    ImplementsLedger
    NoSilentDowngrade
    StaleIsForever
    DatasetVersionTracksEligible
