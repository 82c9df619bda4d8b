--------------------------- MODULE MCPublishingTx ---------------------------
(* Instances of PublishingTx for TLC.  They begin with rows Publishing can *)
(* reach: an approved and a drafted rule, a batch that is ready, and a     *)
(* draw that has no result but two reviewed imports for it, or one that    *)
(* has a result and no open revision.                                      *)
EXTENDS PublishingTx, TLC

CONSTANTS l1, d1, u1, u2, r1, r2, b1, carol, day1, full

MCLotteryOf == [d \in Draws |-> l1]
MCRuleLottery == [u \in Rules |-> l1]

Imported(no, workflow) ==
    LET hash == <<u1, day1, full>>
        ready == workflow # "DRAFT"
    IN  [workflow |-> workflow, draw |-> d1, rule |-> u1, no |-> no, basedOn |-> Nil,
         kind |-> "INITIAL", dates |-> day1, payload |-> full, contentHash |-> hash,
         reviewedHash |-> IF ready THEN hash ELSE Nil,
         reviewedBy |-> IF ready THEN carol ELSE Nil,
         publishedBy |-> IF workflow = "PUBLISHED" THEN carol ELSE Nil,
         lastEditedBy |-> carol,
         editVersion |-> IF ready THEN 2 ELSE 1]

Absent == [workflow |-> "ABSENT", draw |-> Nil, rule |-> Nil, no |-> 0, basedOn |-> Nil,
           kind |-> Nil, dates |-> Nil, payload |-> Nil, contentHash |-> Nil,
           reviewedHash |-> Nil, reviewedBy |-> Nil, publishedBy |-> Nil,
           lastEditedBy |-> Nil, editVersion |-> 1]

Begins(first, second, trail) ==
    [rule |-> [u \in Rules |-> IF u = u1 THEN "APPROVED" ELSE "DRAFT"],
     draw |-> [d \in Draws |->
        [phase |-> IF trail = <<>> THEN "SCHEDULED" ELSE "HELD", visibility |-> "ACTIVE",
         dates |-> day1, current |-> IF trail = <<>> THEN Nil ELSE r1,
         nextNo |-> IF trail = <<>> THEN 3 ELSE 2, editVersion |-> 3]],
     rev |-> [r \in Revisions |->
        CASE r = r1 -> first [] r = r2 -> second [] OTHER -> Absent],
     batch |-> [b \in Batches |->
        [status |-> "PREVIEW_READY", draw |-> d1, rule |-> u1,
         kind |-> IF trail = <<>> THEN "INITIAL" ELSE "UPDATE",
         payload |-> full, created |-> Nil]],
     published |-> [d \in Draws |-> trail]]

Unpublished == Begins(Imported(1, "READY"), Imported(2, "READY"), <<>>)
Published == Begins([Imported(1, "PUBLISHED") EXCEPT !.editVersion = 3], Absent, <<r1>>)

MCStarts == {Unpublished, Published}
MCUnpublished == {Unpublished}

Interchangeable == Permutations(Keys) \cup Permutations(Calls)
=============================================================================
