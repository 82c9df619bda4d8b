\* Two calls at a time, every operation, three requests on the wire under one key.
CONSTANTS
    Nil = Nil
    l1 = l1
    d1 = d1
    u1 = u1
    u2 = u2
    r1 = r1
    r2 = r2
    b1 = b1
    carol = carol
    day1 = day1
    full = full
    Lotteries = {l1}
    Draws = {d1}
    Rules = {u1, u2}
    Revisions = {r1, r2, r3}
    Batches = {b1}
    Admins = {carol}
    Publishers = {carol}
    LotteryOf <- MCLotteryOf
    RuleLottery <- MCRuleLottery
    CompilableRules = {u1, u2}
    Dates = {day1}
    DrawDates = {day1}
    Payloads = {full}
    PublishablePayloads = {full}
    CompletePayloads = {full}
    AllowSelfReview = TRUE
    MaxRevisionVersion = 9
    MaxDrawVersion = 9
    Calls = {c1, c2}
    Keys = {k1}
    Operations = {"patch", "reopen", "review", "publish", "suspend", "resume", "correct", "patchDraw", "approve", "revoke", "createDraft"}
    Starts <- MCStarts
    PatchPhases = {"CANCELLED"}
    MaxSent = 3
SPECIFICATION Spec
SYMMETRY Interchangeable
INVARIANTS
    OneKeyOneRequest
PROPERTIES
    HandlersAreAtomic
    DoneIsNeverRefused
