-------------------------- MODULE PublishingProofs --------------------------
(***************************************************************************)
(* Theorems about Publishing, for every set of draws, revisions, rules and *)
(* administrators.                                                         *)
(***************************************************************************)
EXTENDS Publishing, TLAPS

-----------------------------------------------------------------------------
(* The records that stand for rows not inserted yet are of their types.    *)

(* The records that stand for rows not inserted have the types of rows.    *)
LEMMA InitialRows ==
    /\ NoDraw \in Draw
    /\ NoRevision \in Revision
    /\ NoBatch \in Batch
    /\ NoPage \in Page
  BY DEF NoDraw, NoRevision, NoBatch, NoPage, Draw, Revision, Batch, Page,
         Workflow, Reviewed

(* Init has the types.                                                     *)
LEMMA InitType == Init => TypeOK
  BY InitialRows DEF Init, TypeOK, RuleStates

(* Fields of the right types keep a draw row a draw row.                   *)
LEMMA DrawPatched ==
    ASSUME NEW row \in Draw, NEW phase \in Phases \cup {"ABSENT"},
           NEW dates \in Dates \cup {Nil}
    PROVE  [row EXCEPT !.phase = phase, !.dates = dates, !.editVersion = @ + 1] \in Draw
<1>1. row.editVersion + 1 \in Nat
  BY DEF Draw
<1> QED
  BY <1>1 DEF Draw

(* The page of a row that exists is a page.                                *)
LEMMA PageType ==
    ASSUME TypeOK, RowsAreWhole
    PROVE  /\ \A d \in Draws : DrawPage(d) \in Page
           /\ \A r \in Revisions : rev[r].workflow # "ABSENT" => RevisionPage(r) \in Page
<1>1. ASSUME NEW d \in Draws PROVE DrawPage(d) \in Page
  <2>1. draw[d] \in Draw
    BY DEF TypeOK
  <2> QED
    BY <2>1, InitialRows DEF DrawPage, NoPage, Page, Draw
<1>2. ASSUME NEW r \in Revisions, rev[r].workflow # "ABSENT"
      PROVE  RevisionPage(r) \in Page
  <2>1. rev[r] \in Revision /\ rev[r].draw \in Draws
    BY <1>2 DEF TypeOK, RowsAreWhole
  <2>2. DrawPage(rev[r].draw) \in Page
    BY <1>1, <2>1
  <2> QED
    BY <2>1, <2>2 DEF RevisionPage, Page, Revision
<1> QED
  BY <1>1, <1>2

(* A request answered leaves every administrator with a page.              *)
LEMMA AnsweredType ==
    ASSUME TypeOK, NEW a \in Admins, Answered(a)
    PROVE  seen' \in [Admins -> Page]
  BY InitialRows DEF TypeOK, Answered

-----------------------------------------------------------------------------
(* Type correctness, one step per handler.                                 *)

(* createDraw, patchDraw and the rule handlers keep the types.             *)
LEMMA CatalogueType ==
    ASSUME TypeOK, RowsAreWhole, CatalogueStep
    PROVE  TypeOK'
<1> USE DEF TypeOK
<1>1. ASSUME NEW d \in Draws, NEW phase \in Phases, NEW dates \in Dates,
             CreateDraw(d, phase, dates)
      PROVE  TypeOK'
  <2>1. [draw[d] EXCEPT !.phase = phase, !.dates = dates] \in Draw
    BY DEF Draw
  <2> QED
    BY <1>1, <2>1 DEF CreateDraw
<1>2. ASSUME NEW a \in Admins, NEW d \in Draws, NEW phase \in Phases \cup {Nil},
             NEW dates \in DrawDates \cup {Nil}, PatchDraw(a, d, phase, dates)
      PROVE  TypeOK'
  <2> DEFINE row == [draw[d] EXCEPT !.phase = IF phase = Nil THEN @ ELSE phase,
                                    !.dates = IF dates = Nil THEN @ ELSE dates,
                                    !.editVersion = @ + 1]
  <2>1. draw[d] \in Draw
    OBVIOUS
  <2>2. row \in Draw
    <3>1. DrawDates \subseteq Dates
      BY CatalogueAssumption
    <3>2. (IF phase = Nil THEN draw[d].phase ELSE phase) \in Phases \cup {"ABSENT"}
      BY <2>1 DEF Draw
    <3>3. (IF dates = Nil THEN draw[d].dates ELSE dates) \in Dates \cup {Nil}
      BY <2>1, <3>1 DEF Draw
    <3> QED
      BY <2>1, <3>2, <3>3, DrawPatched
  <2>3. draw' = [draw EXCEPT ![d] = row]
    BY <1>2 DEF PatchDraw
  <2>4. draw' \in [Draws -> Draw]
    BY <2>2, <2>3
  <2> QED
    BY <1>2, <2>4, AnsweredType DEF PatchDraw
<1>3. ASSUME NEW u \in Rules, CreateRule(u)
      PROVE  TypeOK'
  BY <1>3 DEF CreateRule, RuleStates
<1>4. ASSUME NEW a \in Admins, NEW u \in Rules, ApproveRule(a, u)
      PROVE  TypeOK'
  BY <1>4 DEF ApproveRule, RuleStates
<1>5. ASSUME NEW a \in Admins, NEW u \in Rules, RevokeRule(a, u)
      PROVE  TypeOK'
  <2>1. RuleLottery[u] \in Lotteries
    BY CatalogueAssumption
  <2>2. dataset' \in [Lotteries -> Nat]
    BY <1>5, <2>1 DEF RevokeRule
  <2>3. rule' \in [Rules -> RuleStates]
    BY <1>5 DEF RevokeRule, RuleStates
  <2> QED
    BY <1>5, <2>2, <2>3 DEF RevokeRule
<1> QED
  BY <1>1, <1>2, <1>3, <1>4, <1>5 DEF CatalogueStep

(* A draft just made is numbered and based by its draw, and not reviewed.  *)
LEMMA NewDraftFields ==
    ASSUME NEW a, NEW d, NEW u, NEW kind, NEW dates, NEW payload
    PROVE  LET row == NewDraft(a, d, u, kind, dates, payload)
           IN  /\ row.workflow = "DRAFT"
               /\ row.draw = d /\ row.no = draw[d].nextNo /\ row.basedOn = draw[d].current
               /\ row.rule = u /\ row.kind = kind /\ row.dates = dates /\ row.payload = payload
  BY DEF NewDraft, NoRevision

(* The row a draft starts as is a revision row.                            *)
LEMMA NewDraftType ==
    ASSUME TypeOK, NEW a \in Admins, NEW d \in Draws, NEW u \in Rules,
           NEW kind \in Kinds, NEW dates \in Dates, NEW payload \in Payloads
    PROVE  NewDraft(a, d, u, kind, dates, payload) \in Revision
<1>1. draw[d].nextNo \in Nat /\ draw[d].current \in Revisions \cup {Nil}
  BY DEF TypeOK, Draw
<1>2. <<u, dates, payload>> \in Hashes
  BY DEF Hashes
<1> QED
  BY <1>1, <1>2 DEF NewDraft, NoRevision, Revision, Workflow

(* Inserting a draft keeps the types of revisions and draws.               *)
LEMMA InsertDraftType ==
    ASSUME TypeOK, NEW r \in Revisions, NEW d \in Draws, NEW row \in Revision,
           InsertDraft(r, d, row)
    PROVE  rev' \in [Revisions -> Revision] /\ draw' \in [Draws -> Draw]
<1>1. rev' \in [Revisions -> Revision]
  BY DEF TypeOK, InsertDraft
<1> DEFINE new == [draw[d] EXCEPT !.nextNo = @ + 1, !.editVersion = @ + 1]
<1>2. draw[d] \in Draw
  BY DEF TypeOK
<1>3. draw[d].nextNo + 1 \in Nat /\ draw[d].editVersion + 1 \in Nat
  BY <1>2 DEF Draw
<1>4. new \in Draw
  BY <1>2, <1>3 DEF Draw
<1>5. draw' = [draw EXCEPT ![d] = new]
  BY DEF InsertDraft
<1> QED
  BY <1>1, <1>4, <1>5 DEF TypeOK

(* preview and createDraft keep the types.                                 *)
LEMMA ImportType ==
    ASSUME TypeOK, RowsAreWhole, ImportStep
    PROVE  TypeOK'
<1>1. ASSUME NEW b \in Batches, NEW d \in Draws, NEW u \in Rules, NEW kind \in Kinds,
             NEW payload \in Payloads, Preview(b, d, u, kind, payload)
      PROVE  TypeOK'
  <2>1. batch' \in [Batches -> Batch]
    BY <1>1, InitialRows DEF Preview, TypeOK, Batch
  <2> QED
    BY <1>1, <2>1 DEF Preview, TypeOK
<1>2. ASSUME NEW a \in Admins, NEW b \in Batches, NEW r \in Revisions, CreateDraft(a, b, r)
      PROVE  TypeOK'
  <2> DEFINE d == batch[b].draw
             u == batch[b].rule
             row == NewDraft(a, d, u, batch[b].kind, draw[d].dates, batch[b].payload)
  <2>1. /\ d \in Draws /\ u \in Rules /\ batch[b].kind \in Kinds
        /\ batch[b].payload \in Payloads /\ draw[d].phase # "ABSENT"
    BY <1>2 DEF CreateDraft, RowsAreWhole
  <2>2. draw[d].dates \in Dates
    BY <2>1 DEF RowsAreWhole
  <2>3. row \in Revision
    BY <2>1, <2>2, NewDraftType
  <2>4. InsertDraft(r, d, row)
    BY <1>2 DEF CreateDraft
  <2>5. rev' \in [Revisions -> Revision] /\ draw' \in [Draws -> Draw]
    BY <2>1, <2>3, <2>4, InsertDraftType
  <2>6. batch' \in [Batches -> Batch]
    <3> DEFINE done == [batch[b] EXCEPT !.status = "DRAFT_CREATED", !.created = r]
    <3>1. batch[b] \in Batch
      BY DEF TypeOK
    <3>2. done \in Batch
      BY <3>1 DEF Batch
    <3>3. batch' = [batch EXCEPT ![b] = done]
      BY <1>2 DEF CreateDraft
    <3> QED
      BY <3>2, <3>3 DEF TypeOK
  <2> QED
    BY <1>2, <2>5, <2>6 DEF CreateDraft, TypeOK
<1> QED
  BY <1>1, <1>2 DEF ImportStep

(* The rows that edits, reviews and publications write.                    *)
LEMMA RowTypes ==
    ASSUME NEW row \in Revision, NEW a \in Admins
    PROVE  /\ \A w \in Workflow : [row EXCEPT !.workflow = w] \in Revision
           /\ \A dates \in Dates, payload \in Payloads :
                 [row EXCEPT !.dates = dates, !.payload = payload] \in Revision
           /\ Edited(a, row) \in Revision
           /\ Hash(row) \in Hashes => Rehashed(row) \in Revision
           /\ Retired(row) \in Revision
<1>1. row.editVersion + 1 \in Nat
  BY DEF Revision
<1>2. "SUPERSEDED" \in Workflow
  BY DEF Workflow, Reviewed
<1>3. \A w \in Workflow : [row EXCEPT !.workflow = w] \in Revision
  BY DEF Revision
<1>4. \A dates \in Dates, payload \in Payloads :
         [row EXCEPT !.dates = dates, !.payload = payload] \in Revision
  BY DEF Revision
<1>5. Edited(a, row) \in Revision
  BY <1>1 DEF Edited, Revision
<1>6. Hash(row) \in Hashes => Rehashed(row) \in Revision
  BY DEF Rehashed, Revision
<1>7. Retired(row) \in Revision
  BY <1>2, <1>3 DEF Retired
<1> QED
  BY <1>3, <1>4, <1>5, <1>6, <1>7

(* patch keeps the types.                                                  *)
LEMMA PatchType ==
    ASSUME TypeOK, RowsAreWhole, NEW a \in Admins, NEW r \in Revisions,
           NEW dates \in Dates, NEW payload \in Payloads, Patch(a, r, dates, payload)
    PROVE  TypeOK'
<1> DEFINE given == [rev[r] EXCEPT !.dates = dates, !.payload = payload]
<1>1. rev[r] \in Revision /\ rev[r].rule \in Rules
  BY DEF TypeOK, RowsAreWhole, Patch, Editable
<1>2. given \in Revision
  BY <1>1, RowTypes
<1>3. Edited(a, given) \in Revision
  BY <1>2, RowTypes
<1>4. Hash(Edited(a, given)) \in Hashes
  <2>1. Hash(Edited(a, given)) = <<rev[r].rule, dates, payload>>
    BY <1>1 DEF Hash, Edited, Revision
  <2> QED
    BY <1>1, <2>1 DEF Hashes
<1>5. Rehashed(Edited(a, given)) \in Revision
  BY <1>3, <1>4, RowTypes
<1>6. rev' \in [Revisions -> Revision]
  BY <1>5 DEF Patch, TypeOK
<1> QED
  BY <1>6, AnsweredType DEF Patch, TypeOK

(* reopen keeps the types.                                                 *)
LEMMA ReopenType ==
    ASSUME TypeOK, NEW a \in Admins, NEW r \in Revisions, Reopen(a, r)
    PROVE  TypeOK'
<1>1. rev[r] \in Revision /\ "DRAFT" \in Workflow
  BY DEF TypeOK, Workflow
<1>2. Edited(a, [rev[r] EXCEPT !.workflow = "DRAFT"]) \in Revision
  BY <1>1, RowTypes
<1>3. rev' \in [Revisions -> Revision]
  BY <1>2 DEF Reopen, TypeOK
<1> QED
  BY <1>3, AnsweredType DEF Reopen, TypeOK

(* review keeps the types.                                                 *)
LEMMA ReviewType ==
    ASSUME TypeOK, NEW a \in Admins, NEW r \in Revisions, NEW flag \in BOOLEAN,
           Review(a, r, flag)
    PROVE  TypeOK'
<1> DEFINE row == [rev[r] EXCEPT !.workflow = "READY", !.reviewedHash = rev[r].contentHash,
                                 !.reviewedBy = a, !.editVersion = @ + 1]
<1>1. rev[r] \in Revision /\ "READY" \in Workflow
  BY DEF TypeOK, Workflow, Reviewed
<1>2. rev[r].editVersion + 1 \in Nat /\ rev[r].contentHash \in Hashes \cup {Nil}
  BY <1>1 DEF Revision
<1>3. row \in Revision
  BY <1>1, <1>2 DEF Revision
<1>4. rev' = [rev EXCEPT ![r] = row]
  BY DEF Review
<1>5. rev' \in [Revisions -> Revision]
  BY <1>3, <1>4 DEF TypeOK
<1> QED
  BY <1>5, AnsweredType DEF Review, TypeOK

(* publish keeps the types.                                                *)
LEMMA PublishType ==
    ASSUME TypeOK, RowsAreWhole, NEW a \in Admins, NEW r \in Revisions, NEW flag \in BOOLEAN,
           Publish(a, r, flag)
    PROVE  TypeOK'
<1> DEFINE d == rev[r].draw
           row == [rev[r] EXCEPT !.workflow = "PUBLISHED", !.publishedBy = a,
                                 !.editVersion = @ + 1]
<1>1. rev[r] \in Revision /\ "PUBLISHED" \in Workflow
  BY DEF TypeOK, Workflow, Reviewed
<1>2. d \in Draws /\ rev[r].dates \in Dates
  BY DEF RowsAreWhole, Publish, MayPublish
<1>3. row \in Revision
  <2>1. rev[r].editVersion + 1 \in Nat
    BY <1>1 DEF Revision
  <2> QED
    BY <1>1, <2>1 DEF Revision
<1>4. rev' \in [Revisions -> Revision]
  <2>1. \A x \in Revisions : Retired(rev[x]) \in Revision /\ rev[x] \in Revision
    BY RowTypes DEF TypeOK
  <2> QED
    BY <1>3, <2>1 DEF Publish
<1>5. PublishedDraw(r, flag) \in Draw
  <2>1. draw[d] \in Draw
    BY <1>2 DEF TypeOK
  <2>2. draw[d].editVersion + 1 \in Nat /\ "HELD" \in Phases
    BY <2>1 DEF Draw, Phases
  <2>3. (IF flag THEN "ACTIVE" ELSE draw[d].visibility) \in {"ACTIVE", "SUSPENDED"}
    BY <2>1 DEF Draw
  <2> QED
    BY <1>2, <2>1, <2>2, <2>3 DEF PublishedDraw, Draw
<1>6. draw' \in [Draws -> Draw]
  BY <1>5 DEF Publish, TypeOK
<1>7. dataset' \in [Lotteries -> Nat]
  <2>1. LotteryOf[d] \in Lotteries
    BY <1>2, CatalogueAssumption
  <2> QED
    BY <2>1 DEF Publish, TypeOK
<1>8. published' \in [Draws -> Seq(Revisions)]
  <2>1. Append(published[d], r) \in Seq(Revisions)
    BY <1>2 DEF TypeOK
  <2> QED
    BY <2>1 DEF Publish, TypeOK
<1> QED
  BY <1>4, <1>6, <1>7, <1>8, AnsweredType DEF Publish, TypeOK

(* suspend and resume keep the types.                                      *)
LEMMA SetVisibilityType ==
    ASSUME TypeOK, NEW a \in Admins, NEW d \in Draws,
           NEW target \in {"ACTIVE", "SUSPENDED"}, SetVisibility(a, d, target)
    PROVE  TypeOK'
<1> DEFINE row == [draw[d] EXCEPT !.visibility = target, !.editVersion = @ + 1]
<1>1. draw[d] \in Draw
  BY DEF TypeOK
<1>2. row \in Draw
  <2>1. draw[d].editVersion + 1 \in Nat
    BY <1>1 DEF Draw
  <2> QED
    BY <1>1, <2>1 DEF Draw
<1>3. draw' = [draw EXCEPT ![d] = row]
  BY DEF SetVisibility
<1>4. draw' \in [Draws -> Draw]
  BY <1>2, <1>3 DEF TypeOK
<1>5. dataset' \in [Lotteries -> Nat]
  <2>1. LotteryOf[d] \in Lotteries
    BY CatalogueAssumption
  <2> QED
    BY <2>1 DEF SetVisibility, TypeOK
<1> QED
  BY <1>4, <1>5, AnsweredType DEF SetVisibility, TypeOK

(* createCorrection keeps the types.                                       *)
LEMMA CorrectionType ==
    ASSUME TypeOK, RowsAreWhole, CurrentIsPublished,
           NEW a \in Admins, NEW d \in Draws, NEW r \in Revisions, CreateCorrection(a, d, r)
    PROVE  TypeOK'
<1> DEFINE current == rev[draw[d].current]
           row == NewDraft(a, d, current.rule, "CORRECTION", current.dates, current.payload)
<1>1. draw[d].current \in Revisions
  BY DEF CreateCorrection, TypeOK, Draw
<1>2. current.workflow = "PUBLISHED"
  BY DEF CreateCorrection, CurrentIsPublished
<1>3. current.rule \in Rules /\ current.dates \in Dates /\ current.payload \in Payloads
  BY <1>1, <1>2 DEF RowsAreWhole
<1>4. row \in Revision
  BY <1>3, NewDraftType DEF Kinds
<1>5. InsertDraft(r, d, row)
  BY DEF CreateCorrection
<1>6. rev' \in [Revisions -> Revision] /\ draw' \in [Draws -> Draw]
  BY <1>4, <1>5, InsertDraftType
<1> QED
  BY <1>6 DEF CreateCorrection, TypeOK

(* Loading a page keeps the types.                                         *)
LEMMA PageStepType ==
    ASSUME TypeOK, RowsAreWhole, PageStep
    PROVE  TypeOK'
  BY PageType DEF PageStep, LoadDraw, LoadRevision, TypeOK

(* Every handler of PublishingService keeps the types.                     *)
LEMMA RevisionType ==
    ASSUME TypeOK, RowsAreWhole, CurrentIsPublished, RevisionStep
    PROVE  TypeOK'
  BY CorrectionType, PatchType, ReopenType, ReviewType, PublishType, SetVisibilityType
     DEF RevisionStep

(* Every step of the pipeline, and every stuttering step, keeps the types. *)
LEMMA StepType ==
    ASSUME TypeOK, RowsAreWhole, CurrentIsPublished, [Next]_vars
    PROVE  TypeOK'
<1>1. CASE UNCHANGED vars
  BY <1>1 DEF vars, TypeOK
<1> QED
  BY <1>1, CatalogueType, ImportType, RevisionType, PageStepType DEF Next

-----------------------------------------------------------------------------
(* What a step can do to one revision row, and to one draw row.  The       *)
(* invariants below follow from these two lemmas without looking at the    *)
(* handlers again.                                                         *)

Publishing == \E a \in Admins, r \in Revisions, flag \in BOOLEAN : Publish(a, r, flag)

IsInserted(r) ==
    /\ rev[r].workflow = "ABSENT"
    /\ \E a \in Admins, d \in Draws, u \in Rules, kind \in Kinds,
          dates \in Dates, payload \in Payloads :
          /\ draw[d].phase # "ABSENT"
          /\ rev'[r] = NewDraft(a, d, u, kind, dates, payload)
          /\ draw'[d].nextNo = draw[d].nextNo + 1
          /\ \A x \in Revisions : x # r => rev'[x] = rev[x]

IsPatched(r) ==
    /\ rev[r].workflow = "DRAFT"
    /\ \E a \in Admins, dates \in Dates, payload \in Payloads :
          rev'[r] = Rehashed(Edited(a, [rev[r] EXCEPT !.dates = dates, !.payload = payload]))

IsReopened(r) ==
    /\ rev[r].workflow = "READY"
    /\ \E a \in Admins : rev'[r] = Edited(a, [rev[r] EXCEPT !.workflow = "DRAFT"])

IsReviewed(r) ==
    /\ rev[r].workflow = "DRAFT"
    /\ rev[r].payload \in PublishablePayloads
    /\ \E a \in Publishers :
          /\ AllowSelfReview \/ rev[r].lastEditedBy # a
          /\ rev'[r] = [rev[r] EXCEPT !.workflow = "READY",
                                     !.reviewedHash = rev[r].contentHash,
                                     !.reviewedBy = a, !.editVersion = @ + 1]

IsPublished(r) ==
    /\ rev[r].workflow = "READY"
    /\ rev[r].basedOn = draw[rev[r].draw].current
    /\ draw'[rev[r].draw].current = r
    /\ \E a \in Publishers :
          rev'[r] = [rev[r] EXCEPT !.workflow = "PUBLISHED", !.publishedBy = a,
                                   !.editVersion = @ + 1]

IsRetired(r) ==
    /\ rev[r].workflow = "PUBLISHED"
    /\ rev'[r] = [rev[r] EXCEPT !.workflow = "SUPERSEDED"]

(* Both ways of making a draft insert one row and change no other.         *)
LEMMA DraftInserts ==
    ASSUME TypeOK, RowsAreWhole, CurrentIsPublished, NEW r \in Revisions, NEW a \in Admins,
           \/ \E b \in Batches : CreateDraft(a, b, r)
           \/ \E d \in Draws : CreateCorrection(a, d, r)
    PROVE  /\ IsInserted(r)
           /\ \A x \in Revisions : x # r => rev'[x] = rev[x]
<1>1. ASSUME NEW b \in Batches, CreateDraft(a, b, r)
      PROVE  IsInserted(r)
  <2> DEFINE d == batch[b].draw
             row == NewDraft(a, d, batch[b].rule, batch[b].kind, draw[d].dates,
                             batch[b].payload)
  <2>1. /\ d \in Draws /\ batch[b].rule \in Rules /\ batch[b].kind \in Kinds
        /\ batch[b].payload \in Payloads /\ draw[d].phase # "ABSENT"
    BY <1>1 DEF CreateDraft, RowsAreWhole
  <2>2. draw[d].dates \in Dates
    BY <2>1 DEF RowsAreWhole
  <2>3. InsertDraft(r, d, row)
    BY <1>1 DEF CreateDraft
  <2>4. /\ rev[r].workflow = "ABSENT" /\ rev'[r] = row
        /\ \A x \in Revisions : x # r => rev'[x] = rev[x]
    BY <2>3 DEF InsertDraft, TypeOK
  <2>5. draw'[d].nextNo = draw[d].nextNo + 1
    BY <2>1, <2>3 DEF InsertDraft, TypeOK, Draw
  <2> QED
    BY <2>1, <2>2, <2>4, <2>5 DEF IsInserted
<1>2. ASSUME NEW d \in Draws, CreateCorrection(a, d, r)
      PROVE  IsInserted(r)
  <2> DEFINE current == rev[draw[d].current]
             row == NewDraft(a, d, current.rule, "CORRECTION", current.dates, current.payload)
  <2>1. /\ draw[d].current \in Revisions /\ current.workflow = "PUBLISHED"
        /\ current.draw = d
    BY <1>2 DEF CreateCorrection, CurrentIsPublished, TypeOK, Draw
  <2>2. /\ current.rule \in Rules /\ current.dates \in Dates
        /\ current.payload \in Payloads /\ draw[d].phase # "ABSENT"
    BY <2>1 DEF RowsAreWhole
  <2>3. InsertDraft(r, d, row)
    BY <1>2 DEF CreateCorrection
  <2>4. /\ rev[r].workflow = "ABSENT" /\ rev'[r] = row
        /\ \A x \in Revisions : x # r => rev'[x] = rev[x]
    BY <2>3 DEF InsertDraft, TypeOK
  <2>5. draw'[d].nextNo = draw[d].nextNo + 1
    BY <2>3 DEF InsertDraft, TypeOK, Draw
  <2> QED
    BY <2>2, <2>4, <2>5 DEF IsInserted, Kinds
<1> QED
  BY <1>1, <1>2 DEF IsInserted

(* A revision row changes in one of six ways, each by its handler.         *)
LEMMA RevisionRows ==
    ASSUME TypeOK, RowsAreWhole, CurrentIsPublished, [Next]_vars, NEW r \in Revisions
    PROVE  \/ rev'[r] = rev[r]
           \/ IsInserted(r)
           \/ IsPatched(r) \/ IsReopened(r) \/ IsReviewed(r)
           \/ Publishing /\ (IsPublished(r) \/ IsRetired(r))
<1>2. CASE CatalogueStep \/ PageStep \/ UNCHANGED vars
  BY <1>2 DEF CatalogueStep, PageStep, vars, CreateDraw, PatchDraw, CreateRule,
              ApproveRule, RevokeRule, LoadDraw, LoadRevision
<1>3. CASE ImportStep
  BY <1>3, DraftInserts DEF ImportStep, Preview
<1>4. ASSUME NEW a \in Admins, NEW d \in Draws, NEW x \in Revisions, CreateCorrection(a, d, x)
      PROVE  rev'[r] = rev[r] \/ IsInserted(r)
  BY <1>4, DraftInserts
<1>5. ASSUME NEW a \in Admins, NEW x \in Revisions, NEW dates \in Dates,
             NEW payload \in Payloads, Patch(a, x, dates, payload)
      PROVE  rev'[r] = rev[r] \/ IsPatched(r)
  BY <1>5 DEF Patch, Editable, IsPatched, TypeOK
<1>6. ASSUME NEW a \in Admins, NEW x \in Revisions, Reopen(a, x)
      PROVE  rev'[r] = rev[r] \/ IsReopened(r)
  BY <1>6 DEF Reopen, IsReopened, TypeOK
<1>7. ASSUME NEW a \in Admins, NEW x \in Revisions, NEW flag \in BOOLEAN, Review(a, x, flag)
      PROVE  rev'[r] = rev[r] \/ IsReviewed(r)
  BY <1>7 DEF Review, MayReview, Publishable, IsReviewed, TypeOK
<1>8. ASSUME NEW a \in Admins, NEW x \in Revisions, NEW flag \in BOOLEAN, Publish(a, x, flag)
      PROVE  rev'[r] = rev[r] \/ IsPublished(r) \/ IsRetired(r)
  <2> DEFINE d == rev[x].draw
  <2>1. d \in Draws
    BY <1>8 DEF Publish, MayPublish, RowsAreWhole
  <2>2. CASE r = x
    <3>1. draw'[d].current = r
      BY <1>8, <2>1, <2>2 DEF Publish, PublishedDraw, TypeOK, Draw
    <3>2. rev'[r] = [rev[r] EXCEPT !.workflow = "PUBLISHED", !.publishedBy = a,
                                   !.editVersion = @ + 1]
      BY <1>8, <2>2 DEF Publish
    <3> QED
      BY <1>8, <2>2, <3>1, <3>2 DEF Publish, MayPublish, ReplacesExpected, IsPublished
  <2>3. CASE r # x /\ r = draw[d].current
    BY <1>8, <2>3 DEF Publish, Retired, IsRetired
  <2>4. CASE r # x /\ r # draw[d].current
    BY <1>8, <2>4 DEF Publish
  <2> QED
    BY <2>2, <2>3, <2>4
<1>9. ASSUME NEW a \in Admins, NEW d \in Draws, NEW target \in {"ACTIVE", "SUSPENDED"},
             SetVisibility(a, d, target)
      PROVE  rev'[r] = rev[r]
  BY <1>9 DEF SetVisibility
<1>10. CASE RevisionStep
  BY <1>4, <1>5, <1>6, <1>7, <1>8, <1>9, <1>10 DEF RevisionStep, Publishing
<1> QED
  BY <1>2, <1>3, <1>10 DEF Next

DrawStays(d) ==
    /\ draw'[d].phase = "ABSENT" => draw[d].phase = "ABSENT" /\ draw'[d] = draw[d]
    /\ draw'[d].phase # "ABSENT" => draw'[d].dates \in Dates
    /\ draw'[d].nextNo >= draw[d].nextNo
    /\ \/ draw'[d].current = draw[d].current
       \/ /\ Publishing
          /\ draw'[d].current \in Revisions
          /\ rev[draw'[d].current].draw = d
          /\ IsPublished(draw'[d].current)

(* Every step keeps what DrawStays says of every draw.                     *)
LEMMA DrawRows ==
    ASSUME TypeOK, RowsAreWhole, CurrentIsPublished, [Next]_vars, NEW d \in Draws
    PROVE  DrawStays(d)
<1>1. draw[d] \in Draw /\ draw[d].nextNo >= draw[d].nextNo
  BY DEF TypeOK, Draw
<1>2. draw[d].phase # "ABSENT" => draw[d].dates \in Dates
  BY DEF RowsAreWhole
<1>3. CASE UNCHANGED draw
  BY <1>1, <1>2, <1>3 DEF DrawStays
<1>4. ASSUME NEW x \in Draws, NEW phase \in Phases, NEW dates \in Dates,
             CreateDraw(x, phase, dates)
      PROVE  DrawStays(d)
  BY <1>1, <1>2, <1>4 DEF CreateDraw, DrawStays, TypeOK, Draw, Phases
<1>5. ASSUME NEW a \in Admins, NEW x \in Draws, NEW phase \in Phases \cup {Nil},
             NEW dates \in DrawDates \cup {Nil}, PatchDraw(a, x, phase, dates)
      PROVE  DrawStays(d)
  <2>1. draw[x].phase # "ABSENT" /\ draw[x].dates \in Dates
    BY <1>5, IdentifierAssumption DEF PatchDraw, EditsDraw, RowsAreWhole
  <2>2. DrawDates \subseteq Dates
    BY CatalogueAssumption
  <2>3. CASE x = d
    <3>1. /\ draw'[d].phase = IF phase = Nil THEN draw[d].phase ELSE phase
          /\ draw'[d].dates = IF dates = Nil THEN draw[d].dates ELSE dates
          /\ draw'[d].nextNo = draw[d].nextNo
          /\ draw'[d].current = draw[d].current
      BY <1>1, <1>5, <2>3 DEF PatchDraw, TypeOK, Draw
    <3>2. draw'[d].phase # "ABSENT"
      BY <2>1, <2>3, <3>1 DEF Phases
    <3> QED
      BY <1>1, <2>1, <2>2, <2>3, <3>1, <3>2 DEF DrawStays
  <2>4. CASE x # d
    BY <1>1, <1>2, <1>5, <2>4 DEF PatchDraw, DrawStays, TypeOK
  <2> QED
    BY <2>3, <2>4
<1>6. ASSUME NEW a \in Admins, NEW x \in Draws, NEW target \in {"ACTIVE", "SUSPENDED"},
             SetVisibility(a, x, target)
      PROVE  DrawStays(d)
  <2>1. draw[x].phase # "ABSENT" /\ draw[x].dates \in Dates
    BY <1>6, IdentifierAssumption DEF SetVisibility, EditsDraw, RowsAreWhole
  <2> QED
    BY <1>1, <1>2, <1>6, <2>1 DEF SetVisibility, DrawStays, TypeOK, Draw
<1>7. ASSUME NEW r \in Revisions, NEW x \in Draws, NEW row, draw[x].phase # "ABSENT",
             InsertDraft(r, x, row)
      PROVE  DrawStays(d)
  <2>1. draw'[d] = draw[d] \/ draw'[d] = [draw[d] EXCEPT !.nextNo = @ + 1, !.editVersion = @ + 1]
    BY <1>7 DEF InsertDraft, TypeOK
  <2>2. draw[d].nextNo \in Nat /\ draw[d].nextNo + 1 >= draw[d].nextNo
    BY <1>1 DEF Draw
  <2>3. CASE draw'[d] = draw[d]
    BY <1>1, <1>2, <2>3 DEF DrawStays
  <2>4. CASE d = x /\ draw'[d] = [draw[d] EXCEPT !.nextNo = @ + 1, !.editVersion = @ + 1]
    <3>1. /\ draw'[d].phase = draw[d].phase /\ draw'[d].dates = draw[d].dates
          /\ draw'[d].nextNo = draw[d].nextNo + 1 /\ draw'[d].current = draw[d].current
      BY <1>1, <2>4 DEF Draw
    <3> QED
      BY <1>2, <1>7, <2>2, <2>4, <3>1 DEF DrawStays
  <2>5. d # x => draw'[d] = draw[d]
    BY <1>7 DEF InsertDraft, TypeOK
  <2> QED
    BY <2>1, <2>3, <2>4, <2>5
<1>8. ASSUME NEW a \in Admins, NEW b \in Batches, NEW r \in Revisions, CreateDraft(a, b, r)
      PROVE  DrawStays(d)
  BY <1>7, <1>8 DEF CreateDraft, RowsAreWhole
<1>9. ASSUME NEW a \in Admins, NEW x \in Draws, NEW r \in Revisions, CreateCorrection(a, x, r)
      PROVE  DrawStays(d)
  <2>1. draw[x].phase # "ABSENT"
    <3>1. draw[x].current \in Revisions
      BY <1>9 DEF CreateCorrection, TypeOK, Draw
    <3>2. rev[draw[x].current].draw = x /\ rev[draw[x].current].workflow = "PUBLISHED"
      BY <1>9 DEF CreateCorrection, CurrentIsPublished
    <3> QED
      BY <3>1, <3>2 DEF RowsAreWhole
  <2> QED
    BY <1>7, <1>9, <2>1 DEF CreateCorrection
<1>10. ASSUME NEW a \in Admins, NEW r \in Revisions, NEW flag \in BOOLEAN, Publish(a, r, flag)
       PROVE  DrawStays(d)
  <2> DEFINE x == rev[r].draw
  <2>1. x \in Draws /\ draw[x] \in Draw /\ rev[r].dates \in Dates
    BY <1>10 DEF Publish, MayPublish, RowsAreWhole, TypeOK
  <2>2. CASE d # x
    BY <1>1, <1>2, <1>10, <2>2 DEF Publish, DrawStays, TypeOK
  <2>3. CASE d = x
    <3>1. draw'[d] = PublishedDraw(r, flag)
      BY <1>10, <2>1, <2>3 DEF Publish, TypeOK
    <3>2. /\ draw'[d].phase = "HELD" /\ draw'[d].dates = rev[r].dates
          /\ draw'[d].nextNo = draw[d].nextNo /\ draw'[d].current = r
      BY <2>1, <2>3, <3>1 DEF PublishedDraw, Draw
    <3>3. rev'[r] = [rev[r] EXCEPT !.workflow = "PUBLISHED", !.publishedBy = a,
                                   !.editVersion = @ + 1]
      BY <1>10 DEF Publish
    <3>4. IsPublished(r)
      BY <1>10, <2>3, <3>2, <3>3 DEF Publish, MayPublish, ReplacesExpected, IsPublished
    <3> QED
      BY <1>1, <1>10, <2>1, <2>3, <3>2, <3>4 DEF DrawStays, Publishing
  <2> QED
    BY <2>2, <2>3
<1>11. CASE CatalogueStep
  BY <1>3, <1>4, <1>5, <1>11 DEF CatalogueStep, CreateRule, ApproveRule, RevokeRule
<1>12. CASE ImportStep
  BY <1>3, <1>8, <1>12 DEF ImportStep, Preview
<1>13. CASE RevisionStep
  BY <1>3, <1>6, <1>9, <1>10, <1>13 DEF RevisionStep, Patch, Reopen, Review
<1>14. CASE PageStep \/ UNCHANGED vars
  BY <1>3, <1>14 DEF PageStep, LoadDraw, LoadRevision, vars
<1> QED
  BY <1>11, <1>12, <1>13, <1>14 DEF Next

-----------------------------------------------------------------------------
(* The invariant.  TypeOK and CurrentIsPublished need RowsAreWhole (a row  *)
(* that is used names rows that exist), which needs them in turn; the      *)
(* review invariants follow row by row.                                    *)

Inv ==
    /\ TypeOK
    /\ RowsAreWhole
    /\ CurrentIsPublished
    /\ ReviewCoversContent
    /\ FourEyes

(* Init satisfies the invariant.                                           *)
LEMMA InitInv == Init => Inv
  BY InitType DEF Init, Inv, RowsAreWhole, CurrentIsPublished, ReviewCoversContent,
                  FourEyes, NoDraw, NoRevision, NoBatch, NoPage, Reviewed

(* Rows stay whole.                                                        *)
LEMMA RevisionStaysWhole ==
    ASSUME TypeOK, RowsAreWhole, CurrentIsPublished, [Next]_vars, NEW r \in Revisions,
           rev'[r].workflow # "ABSENT"
    PROVE  /\ rev'[r].draw \in Draws /\ rev'[r].rule \in Rules
           /\ rev'[r].dates \in Dates /\ rev'[r].payload \in Payloads
           /\ rev'[r].kind \in Kinds
           /\ rev'[r].contentHash = <<rev'[r].rule, rev'[r].dates, rev'[r].payload>>
           /\ draw[rev'[r].draw].phase # "ABSENT"
<1>1. rev[r] \in Revision
  BY DEF TypeOK
<1>2. rev[r].workflow # "ABSENT" =>
         /\ rev[r].draw \in Draws /\ rev[r].rule \in Rules
         /\ rev[r].dates \in Dates /\ rev[r].payload \in Payloads
         /\ rev[r].kind \in Kinds
         /\ rev[r].contentHash = <<rev[r].rule, rev[r].dates, rev[r].payload>>
         /\ draw[rev[r].draw].phase # "ABSENT"
  BY DEF RowsAreWhole, Hash
<1>3. CASE rev'[r] = rev[r]
  BY <1>2, <1>3
<1>4. CASE IsInserted(r)
  BY <1>4 DEF IsInserted, NewDraft, NoRevision
<1>5. CASE IsPatched(r)
  BY <1>1, <1>2, <1>5 DEF IsPatched, Rehashed, Edited, Hash, Revision
<1>6. CASE IsReopened(r)
  BY <1>1, <1>2, <1>6 DEF IsReopened, Edited, Revision
<1>7. CASE IsReviewed(r)
  BY <1>1, <1>2, <1>7 DEF IsReviewed, Revision
<1>8. CASE IsPublished(r)
  BY <1>1, <1>2, <1>8 DEF IsPublished, Revision
<1>9. CASE IsRetired(r)
  BY <1>1, <1>2, <1>9 DEF IsRetired, Revision
<1> QED
  BY <1>3, <1>4, <1>5, <1>6, <1>7, <1>8, <1>9, RevisionRows

(* What no handler of PublishingService touches, and the pages it leaves.  *)
LEMMA RevisionKeeps ==
    ASSUME RevisionStep
    PROVE  UNCHANGED <<rule, batch>> /\ (UNCHANGED seen \/ \E a \in Admins : Answered(a))
<1>1. ASSUME NEW a \in Admins, NEW d \in Draws, NEW r \in Revisions, CreateCorrection(a, d, r)
      PROVE  UNCHANGED <<rule, batch, seen>>
  BY <1>1 DEF CreateCorrection
<1>2. ASSUME NEW a \in Admins, NEW r \in Revisions, NEW dates \in Dates,
             NEW payload \in Payloads, Patch(a, r, dates, payload)
      PROVE  UNCHANGED <<rule, batch>> /\ Answered(a)
  BY <1>2 DEF Patch
<1>3. ASSUME NEW a \in Admins, NEW r \in Revisions, Reopen(a, r)
      PROVE  UNCHANGED <<rule, batch>> /\ Answered(a)
  BY <1>3 DEF Reopen
<1>4. ASSUME NEW a \in Admins, NEW r \in Revisions, NEW flag \in BOOLEAN, Review(a, r, flag)
      PROVE  UNCHANGED <<rule, batch>> /\ Answered(a)
  BY <1>4 DEF Review
<1>5. ASSUME NEW a \in Admins, NEW r \in Revisions, NEW flag \in BOOLEAN, Publish(a, r, flag)
      PROVE  UNCHANGED <<rule, batch>> /\ Answered(a)
  BY <1>5 DEF Publish
<1>6. ASSUME NEW a \in Admins, NEW d \in Draws, NEW target \in {"ACTIVE", "SUSPENDED"},
             SetVisibility(a, d, target)
      PROVE  UNCHANGED <<rule, batch>> /\ Answered(a)
  BY <1>6 DEF SetVisibility
<1> QED
  BY <1>1, <1>2, <1>3, <1>4, <1>5, <1>6 DEF RevisionStep

(* A batch that is ready keeps naming rows that exist.                     *)
LEMMA BatchesStay ==
    ASSUME TypeOK, [Next]_vars, NEW b \in Batches, batch'[b].status = "PREVIEW_READY"
    PROVE  \/ batch'[b] = batch[b]
           \/ /\ batch'[b].draw \in Draws /\ batch'[b].rule \in Rules
              /\ batch'[b].kind \in Kinds /\ batch'[b].payload \in Payloads
              /\ draw[batch'[b].draw].phase # "ABSENT"
<1>1. CASE UNCHANGED batch
  BY <1>1
<1>2. ASSUME NEW x \in Batches, NEW d \in Draws, NEW u \in Rules, NEW kind \in Kinds,
             NEW payload \in Payloads, Preview(x, d, u, kind, payload), x = b
      PROVE  /\ batch'[b].draw \in Draws /\ batch'[b].rule \in Rules
             /\ batch'[b].kind \in Kinds /\ batch'[b].payload \in Payloads
             /\ draw[batch'[b].draw].phase # "ABSENT"
  <2>1. CASE ValidImport(d, u, kind, payload)
    <3>1. batch'[b] = [status |-> "PREVIEW_READY", draw |-> d, rule |-> u,
                       kind |-> kind, payload |-> payload, created |-> Nil]
      BY <1>2, <2>1 DEF Preview, TypeOK
    <3> QED
      BY <2>1, <3>1 DEF ValidImport
  <2>2. CASE ~ValidImport(d, u, kind, payload)
    BY <1>2, <2>2 DEF Preview, TypeOK, NoBatch
  <2> QED
    BY <2>1, <2>2
<1>3. ASSUME NEW x \in Batches, NEW d \in Draws, NEW u \in Rules, NEW kind \in Kinds,
             NEW payload \in Payloads, Preview(x, d, u, kind, payload), x # b
      PROVE  batch'[b] = batch[b]
  BY <1>3 DEF Preview, TypeOK
<1>4. ASSUME NEW a \in Admins, NEW x \in Batches, NEW r \in Revisions, CreateDraft(a, x, r)
      PROVE  batch'[b] = batch[b]
  BY <1>4 DEF CreateDraft, TypeOK, Batch
<1>5. CASE ImportStep
  BY <1>2, <1>3, <1>4, <1>5 DEF ImportStep
<1>6. CASE CatalogueStep \/ RevisionStep \/ PageStep \/ UNCHANGED vars
  <2>1. CatalogueStep => UNCHANGED batch
    BY DEF CatalogueStep, CreateDraw, PatchDraw, CreateRule, ApproveRule, RevokeRule
  <2>2. PageStep \/ UNCHANGED vars => UNCHANGED batch
    BY DEF PageStep, LoadDraw, LoadRevision, vars
  <2>3. RevisionStep => UNCHANGED batch
    BY RevisionKeeps
  <2> QED
    BY <1>1, <1>6, <2>1, <2>2, <2>3
<1> QED
  BY <1>5, <1>6 DEF Next

(* A page keeps being about a draw that exists.                            *)
LEMMA PagesStay ==
    ASSUME TypeOK, RowsAreWhole, [Next]_vars, NEW a \in Admins, seen'[a].draw # Nil
    PROVE  \/ seen'[a] = seen[a]
           \/ seen'[a].draw \in Draws /\ draw[seen'[a].draw].phase # "ABSENT"
<1>1. ASSUME NEW x \in Admins, Answered(x)
      PROVE  seen'[a] = seen[a]
  BY <1>1 DEF Answered, NoPage, TypeOK
<1>2. ASSUME NEW x \in Admins, NEW d \in Draws, LoadDraw(x, d)
      PROVE  seen'[a] = seen[a] \/ (seen'[a].draw \in Draws /\ draw[seen'[a].draw].phase # "ABSENT")
  BY <1>2 DEF LoadDraw, DrawPage, NoPage, TypeOK
<1>3. ASSUME NEW x \in Admins, NEW r \in Revisions, LoadRevision(x, r)
      PROVE  seen'[a] = seen[a] \/ (seen'[a].draw \in Draws /\ draw[seen'[a].draw].phase # "ABSENT")
  <2>1. rev[r].draw \in Draws /\ draw[rev[r].draw].phase # "ABSENT"
    BY <1>3 DEF LoadRevision, RowsAreWhole
  <2>2. RevisionPage(r).draw = rev[r].draw
    BY DEF RevisionPage, DrawPage, NoPage
  <2> QED
    BY <1>3, <2>1, <2>2 DEF LoadRevision, TypeOK
<1>4. CASE UNCHANGED seen
  BY <1>4
<1>5. CASE CatalogueStep \/ ImportStep \/ UNCHANGED vars
  BY <1>1, <1>4, <1>5 DEF CatalogueStep, ImportStep, vars, CreateDraw, PatchDraw,
     CreateRule, ApproveRule, RevokeRule, Preview, CreateDraft
<1>6. CASE RevisionStep
  BY <1>1, <1>4, <1>6, RevisionKeeps
<1>7. CASE PageStep
  BY <1>2, <1>3, <1>7 DEF PageStep
<1> QED
  BY <1>5, <1>6, <1>7 DEF Next

(* Every step keeps every row whole.                                       *)
LEMMA StepWhole ==
    ASSUME TypeOK, RowsAreWhole, CurrentIsPublished, [Next]_vars
    PROVE  RowsAreWhole'
<1>1. \A d \in Draws : draw[d].phase # "ABSENT" => draw'[d].phase # "ABSENT"
  BY DrawRows DEF DrawStays
<1>2. ASSUME NEW d \in Draws
      PROVE  IF draw'[d].phase = "ABSENT" THEN draw'[d] = NoDraw ELSE draw'[d].dates \in Dates
  BY DrawRows DEF DrawStays, RowsAreWhole
<1>3. ASSUME NEW r \in Revisions, rev'[r].workflow = "ABSENT"
      PROVE  rev'[r] = NoRevision
  <2>1. rev[r] \in Revision
    BY DEF TypeOK
  <2>2. ~IsInserted(r)
    BY <1>3, NewDraftFields DEF IsInserted
  <2>3. ~IsPatched(r) /\ ~IsReopened(r)
    BY <1>3, <2>1 DEF IsPatched, IsReopened, Rehashed, Edited, Revision
  <2>4. ~IsReviewed(r) /\ ~IsPublished(r) /\ ~IsRetired(r)
    BY <1>3, <2>1 DEF IsReviewed, IsPublished, IsRetired, Revision
  <2>5. rev'[r] = rev[r]
    BY <2>2, <2>3, <2>4, RevisionRows
  <2> QED
    BY <1>3, <2>5 DEF RowsAreWhole
<1>4. ASSUME NEW r \in Revisions, rev'[r].workflow # "ABSENT"
      PROVE  /\ rev'[r].draw \in Draws /\ rev'[r].rule \in Rules
             /\ rev'[r].dates \in Dates /\ rev'[r].payload \in Payloads
             /\ rev'[r].kind \in Kinds
             /\ rev'[r].contentHash = <<rev'[r].rule, rev'[r].dates, rev'[r].payload>>
             /\ draw'[rev'[r].draw].phase # "ABSENT"
  BY <1>1, <1>4, RevisionStaysWhole
<1>5. ASSUME NEW b \in Batches, batch'[b].status = "PREVIEW_READY"
      PROVE  /\ batch'[b].draw \in Draws /\ batch'[b].rule \in Rules
             /\ batch'[b].kind \in Kinds /\ batch'[b].payload \in Payloads
             /\ draw'[batch'[b].draw].phase # "ABSENT"
  BY <1>1, <1>5, BatchesStay DEF RowsAreWhole
<1>6. ASSUME NEW a \in Admins, seen'[a].draw # Nil
      PROVE  draw'[seen'[a].draw].phase # "ABSENT"
  BY <1>1, <1>6, PagesStay DEF RowsAreWhole, TypeOK, Page
<1> QED
  BY <1>2, <1>3, <1>4, <1>5, <1>6 DEF RowsAreWhole, Hash

(* The pointer and the workflow keep agreeing: only publish moves either,  *)
(* and it moves both.                                                      *)
LEMMA StepCurrent ==
    ASSUME TypeOK, RowsAreWhole, CurrentIsPublished, [Next]_vars
    PROVE  CurrentIsPublished'
<1>1. CASE Publishing
  <2>1. PICK a \in Admins, r \in Revisions, flag \in BOOLEAN : Publish(a, r, flag)
    BY <1>1 DEF Publishing
  <2> DEFINE d == rev[r].draw
             old == draw[d].current
  <2>2. /\ rev[r] \in Revision /\ rev[r].workflow = "READY"
        /\ d \in Draws /\ draw[d] \in Draw
    BY <2>1 DEF Publish, MayPublish, RowsAreWhole, TypeOK
  <2>3. /\ draw'[d].current = r
        /\ \A x \in Draws : x # d => draw'[x] = draw[x]
    BY <2>1, <2>2 DEF Publish, PublishedDraw, TypeOK, Draw
  <2>4. rev'[r].workflow = "PUBLISHED" /\ rev'[r].draw = d
    BY <2>1, <2>2 DEF Publish, Revision
  <2>5. \A x \in Revisions : x # r /\ x # old => rev'[x] = rev[x]
    BY <2>1 DEF Publish
  <2>6. old \in Revisions /\ old # r => rev'[old].workflow # "PUBLISHED"
    <3>1. old \in Revisions /\ old # r => rev'[old] = Retired(rev[old]) /\ rev[old] \in Revision
      BY <2>1 DEF Publish, TypeOK
    <3> QED
      BY <3>1 DEF Retired, Revision
  <2>7. ASSUME NEW x \in Draws, draw'[x].current # Nil
        PROVE  /\ rev'[draw'[x].current].draw = x
               /\ rev'[draw'[x].current].workflow = "PUBLISHED"
    <3>1. CASE x = d
      BY <2>3, <2>4, <3>1
    <3>2. CASE x # d
      <4> DEFINE c == draw[x].current
      <4>1. draw'[x].current = c /\ c \in Revisions
        BY <2>3, <2>7, <3>2 DEF TypeOK, Draw
      <4>2. rev[c].draw = x /\ rev[c].workflow = "PUBLISHED"
        BY <2>7, <4>1 DEF CurrentIsPublished
      <4>3. c # r
        BY <2>2, <4>2
      <4>4. c # old
        <5>1. c # Nil
          BY <4>1, IdentifierAssumption
        <5>2. old = c => rev[c].draw = d
          BY <2>2, <5>1 DEF CurrentIsPublished
        <5> QED
          BY <3>2, <4>2, <5>2
      <4> QED
        BY <2>5, <4>1, <4>2, <4>3, <4>4
    <3> QED
      BY <3>1, <3>2
  <2>8. ASSUME NEW x \in Revisions, rev'[x].workflow = "PUBLISHED"
        PROVE  rev'[x].draw \in Draws /\ draw'[rev'[x].draw].current = x
    <3>1. CASE x = r
      BY <2>2, <2>3, <2>4, <3>1
    <3>2. CASE x # r
      <4>1. x # old
        BY <2>6, <2>8, <3>2
      <4>2. rev'[x] = rev[x]
        BY <2>5, <3>2, <4>1
      <4>3. rev[x].draw \in Draws /\ draw[rev[x].draw].current = x
        BY <2>8, <4>2 DEF CurrentIsPublished
      <4>4. rev[x].draw # d
        BY <4>1, <4>3
      <4> QED
        BY <2>3, <4>2, <4>3, <4>4
    <3> QED
      BY <3>1, <3>2
  <2> QED
    BY <2>7, <2>8 DEF CurrentIsPublished
<1>2. CASE ~Publishing
  <2>2. ASSUME NEW d \in Draws
        PROVE  draw'[d].current = draw[d].current
    BY <1>2, DrawRows DEF DrawStays
  <2>3. ASSUME NEW r \in Revisions
        PROVE  /\ rev[r].workflow = "PUBLISHED" => rev'[r] = rev[r]
               /\ rev'[r].workflow = "PUBLISHED" => rev'[r] = rev[r]
    <3>1. rev[r] \in Revision
      BY DEF TypeOK
    <3>2. IsInserted(r) => rev[r].workflow # "PUBLISHED" /\ rev'[r].workflow # "PUBLISHED"
      BY NewDraftFields DEF IsInserted
    <3>3. IsPatched(r) \/ IsReopened(r) \/ IsReviewed(r)
            => rev[r].workflow # "PUBLISHED" /\ rev'[r].workflow # "PUBLISHED"
      BY <3>1 DEF IsPatched, IsReopened, IsReviewed, Rehashed, Edited, Revision
    <3> QED
      BY <1>2, <3>2, <3>3, RevisionRows
  <2>4. \A d \in Draws : draw[d].current \in Revisions \cup {Nil}
    BY DEF TypeOK, Draw
  <2> QED
    BY <2>2, <2>3, <2>4 DEF CurrentIsPublished
<1> QED
  BY <1>1, <1>2

(* A row that is READY or public after a step was so before it, with the   *)
(* same content, review and editor, or has just been reviewed.             *)
LEMMA ReviewedRows ==
    ASSUME TypeOK, RowsAreWhole, CurrentIsPublished, [Next]_vars, NEW r \in Revisions,
           rev'[r].workflow \in Reviewed
    PROVE  \/ IsReviewed(r)
           \/ /\ rev[r].workflow \in Reviewed
              /\ rev'[r].rule = rev[r].rule /\ rev'[r].dates = rev[r].dates
              /\ rev'[r].payload = rev[r].payload
              /\ rev'[r].reviewedHash = rev[r].reviewedHash
              /\ rev'[r].reviewedBy = rev[r].reviewedBy
              /\ rev'[r].lastEditedBy = rev[r].lastEditedBy
<1>1. rev[r] \in Revision
  BY DEF TypeOK
<1>2. ~IsInserted(r)
  BY NewDraftFields DEF IsInserted, Reviewed
<1>3. ~IsPatched(r)
  BY <1>1 DEF IsPatched, Rehashed, Edited, Revision, Reviewed
<1>4. ~IsReopened(r)
  BY <1>1 DEF IsReopened, Edited, Revision, Reviewed
<1>5. CASE IsPublished(r)
  BY <1>1, <1>5 DEF IsPublished, Revision, Reviewed
<1>6. CASE IsRetired(r)
  BY <1>1, <1>6 DEF IsRetired, Revision, Reviewed
<1> QED
  BY <1>2, <1>3, <1>4, <1>5, <1>6, RevisionRows

(* Every step keeps the review invariants, row by row.                     *)
LEMMA StepReview ==
    ASSUME TypeOK, RowsAreWhole, CurrentIsPublished, ReviewCoversContent, FourEyes, [Next]_vars
    PROVE  ReviewCoversContent' /\ FourEyes'
<1> SUFFICES ASSUME NEW r \in Revisions, rev'[r].workflow \in Reviewed
             PROVE  /\ rev'[r].reviewedHash = <<rev'[r].rule, rev'[r].dates, rev'[r].payload>>
                    /\ rev'[r].reviewedBy \in Publishers
                    /\ rev'[r].payload \in PublishablePayloads
                    /\ ~AllowSelfReview => rev'[r].reviewedBy # rev'[r].lastEditedBy
  BY DEF ReviewCoversContent, FourEyes, Hash
<1>1. rev[r] \in Revision
  BY DEF TypeOK
<1>2. CASE IsReviewed(r)
  <2>1. PICK a \in Publishers :
          /\ AllowSelfReview \/ rev[r].lastEditedBy # a
          /\ rev'[r] = [rev[r] EXCEPT !.workflow = "READY",
                                     !.reviewedHash = rev[r].contentHash,
                                     !.reviewedBy = a, !.editVersion = @ + 1]
    BY <1>2 DEF IsReviewed
  <2>2. /\ rev'[r].rule = rev[r].rule /\ rev'[r].dates = rev[r].dates
        /\ rev'[r].payload = rev[r].payload /\ rev'[r].lastEditedBy = rev[r].lastEditedBy
        /\ rev'[r].reviewedHash = rev[r].contentHash /\ rev'[r].reviewedBy = a
    BY <1>1, <2>1 DEF Revision
  <2>3. rev[r].contentHash = <<rev[r].rule, rev[r].dates, rev[r].payload>>
    BY <1>2 DEF IsReviewed, RowsAreWhole, Hash
  <2>4. rev[r].payload \in PublishablePayloads
    BY <1>2 DEF IsReviewed
  <2> QED
    BY <2>1, <2>2, <2>3, <2>4
<1>3. CASE ~IsReviewed(r)
  <2>1. /\ rev[r].workflow \in Reviewed
        /\ rev'[r].rule = rev[r].rule /\ rev'[r].dates = rev[r].dates
        /\ rev'[r].payload = rev[r].payload
        /\ rev'[r].reviewedHash = rev[r].reviewedHash
        /\ rev'[r].reviewedBy = rev[r].reviewedBy
        /\ rev'[r].lastEditedBy = rev[r].lastEditedBy
    BY <1>3, ReviewedRows
  <2> QED
    BY <2>1 DEF ReviewCoversContent, FourEyes, Hash
<1> QED
  BY <1>2, <1>3

(* Every step keeps the invariant.                                         *)
LEMMA StepInv == Inv /\ [Next]_vars => Inv'
  BY StepType, StepWhole, StepCurrent, StepReview DEF Inv

(* Inv holds in every reachable state.                                     *)
THEOREM Invariance == Spec => []Inv
  BY InitInv, StepInv, PTL DEF Spec

(* The rows have their types, whatever the sets of identifiers.            *)
THEOREM TypeCorrect == Spec => []TypeOK
<1>1. Inv => TypeOK
  BY DEF Inv
<1> QED
  BY <1>1, Invariance, PTL

(* The draw's pointer and the workflow of its revisions always agree:      *)
(* publish moves both or neither, whatever else is going on.               *)
THEOREM PointerAgrees == Spec => []CurrentIsPublished
<1>1. Inv => CurrentIsPublished
  BY DEF Inv
<1> QED
  BY <1>1, Invariance, PTL

(* Nothing edited after its review is ever READY or public.                *)
THEOREM ReviewedContentOnly == Spec => []ReviewCoversContent
<1>1. Inv => ReviewCoversContent
  BY DEF Inv
<1> QED
  BY <1>1, Invariance, PTL

(* Without ALLOW_SELF_REVIEW no one's last edit is reviewed by themselves. *)
THEOREM FourEyesAlways == Spec => []FourEyes
<1>1. Inv => FourEyes
  BY DEF Inv
<1> QED
  BY <1>1, Invariance, PTL

-----------------------------------------------------------------------------
(* Numbers and the chain of publications.                                  *)

(* A revision's identity never changes (the first guard of the trigger on  *)
(* result_revision); only insertion gives a row one.                       *)
LEMMA IdentityStays ==
    ASSUME TypeOK, RowsAreWhole, CurrentIsPublished, [Next]_vars, NEW r \in Revisions,
           ~IsInserted(r)
    PROVE  /\ rev'[r].draw = rev[r].draw /\ rev'[r].no = rev[r].no
           /\ rev'[r].basedOn = rev[r].basedOn /\ rev'[r].kind = rev[r].kind
           /\ rev'[r].rule = rev[r].rule
<1>1. rev[r] \in Revision
  BY DEF TypeOK
<1>2. CASE IsPatched(r)
  BY <1>1, <1>2 DEF IsPatched, Rehashed, Edited, Revision
<1>3. CASE IsReopened(r)
  BY <1>1, <1>3 DEF IsReopened, Edited, Revision
<1>4. CASE IsReviewed(r)
  BY <1>1, <1>4 DEF IsReviewed, Revision
<1>5. CASE IsPublished(r)
  BY <1>1, <1>5 DEF IsPublished, Revision
<1>6. CASE IsRetired(r)
  BY <1>1, <1>6 DEF IsRetired, Revision
<1> QED
  BY <1>2, <1>3, <1>4, <1>5, <1>6, RevisionRows

(* No draft has a number at first.                                         *)
LEMMA InitNumbers == Init => NumbersAreUnique
  BY DEF Init, NumbersAreUnique, NoRevision

(* A draft takes the draw's next number and moves it on.                   *)
LEMMA StepNumbers ==
    ASSUME TypeOK, RowsAreWhole, CurrentIsPublished, NumbersAreUnique, [Next]_vars
    PROVE  NumbersAreUnique'
<1>1. \A d \in Draws : /\ draw'[d].nextNo >= draw[d].nextNo
                        /\ draw[d].nextNo \in Nat /\ draw'[d].nextNo \in Nat
  BY DrawRows, StepType DEF DrawStays, TypeOK, Draw
<1>2. \A r \in Revisions : rev[r].no \in Nat /\ rev[r].draw \in Draws \cup {Nil}
  BY DEF TypeOK, Revision
<1>3. CASE \E r \in Revisions : IsInserted(r)
  <2>1. PICK r \in Revisions : IsInserted(r)
    BY <1>3
  <2>2. PICK d \in Draws :
          /\ rev'[r].draw = d /\ rev'[r].no = draw[d].nextNo
          /\ draw'[d].nextNo = draw[d].nextNo + 1
    BY <2>1, NewDraftFields DEF IsInserted
  <2>3. \A x \in Revisions : x # r => rev'[x] = rev[x]
    BY <2>1 DEF IsInserted
  <2>4. ASSUME NEW x \in Revisions, rev'[x].draw # Nil
        PROVE  rev'[x].no < draw'[rev'[x].draw].nextNo
    BY <1>1, <1>2, <2>2, <2>3, <2>4 DEF NumbersAreUnique
  <2>5. ASSUME NEW x \in Revisions, x # r, rev'[x].draw = d
        PROVE  rev'[x].no < rev'[r].no
    BY <1>1, <1>2, <2>2, <2>3, <2>5, IdentifierAssumption DEF NumbersAreUnique
  <2>6. \A x \in Revisions : rev'[x].no \in Nat
    BY <1>1, <1>2, <2>2, <2>3
  <2>7. ASSUME NEW x \in Revisions, NEW y \in Revisions, x # y,
               rev'[x].draw # Nil, rev'[x].draw = rev'[y].draw
        PROVE  rev'[x].no # rev'[y].no
    <3>1. CASE x # r /\ y # r
      BY <2>3, <2>7, <3>1 DEF NumbersAreUnique
    <3>2. CASE x = r \/ y = r
      BY <2>2, <2>5, <2>6, <2>7, <3>2
    <3> QED
      BY <3>1, <3>2
  <2> QED
    BY <2>4, <2>7 DEF NumbersAreUnique
<1>4. CASE \A r \in Revisions : ~IsInserted(r)
  <2>1. \A r \in Revisions : rev'[r].draw = rev[r].draw /\ rev'[r].no = rev[r].no
    BY <1>4, IdentityStays
  <2> QED
    BY <1>1, <1>2, <2>1 DEF NumbersAreUnique
<1> QED
  BY <1>3, <1>4

(* Revision numbers are never handed out twice, so the unique constraint   *)
(* on (draw_id, revision_no) never refuses a draft.                        *)
THEOREM NumbersNeverRepeat == Spec => []NumbersAreUnique
<1>1. Inv /\ NumbersAreUnique /\ [Next]_vars => NumbersAreUnique'
  BY StepNumbers DEF Inv
<1> QED
  BY <1>1, InitNumbers, Invariance, PTL DEF Spec

(* A draft is made from an earlier revision of its own draw.               *)
BaseIsEarlier ==
    \A r \in Revisions : rev[r].basedOn # Nil =>
        /\ rev[r].basedOn \in Revisions
        /\ rev[rev[r].basedOn].draw = rev[r].draw
        /\ rev[rev[r].basedOn].no < rev[r].no

(* A draft's base is the draw's current revision, numbered before it.      *)
LEMMA StepBase ==
    ASSUME TypeOK, RowsAreWhole, CurrentIsPublished, NumbersAreUnique, BaseIsEarlier,
           [Next]_vars
    PROVE  BaseIsEarlier'
<1> SUFFICES ASSUME NEW r \in Revisions, rev'[r].basedOn # Nil
             PROVE  /\ rev'[r].basedOn \in Revisions
                    /\ rev'[rev'[r].basedOn].draw = rev'[r].draw
                    /\ rev'[rev'[r].basedOn].no < rev'[r].no
  BY DEF BaseIsEarlier
<1>1. ASSUME NEW x \in Revisions, rev[x].draw # Nil
      PROVE  rev'[x].draw = rev[x].draw /\ rev'[x].no = rev[x].no
  <2>1. ~IsInserted(x)
    BY <1>1 DEF IsInserted, RowsAreWhole, NoRevision
  <2> QED
    BY <2>1, IdentityStays
<1>2. CASE IsInserted(r)
  <2>1. PICK d \in Draws :
          /\ rev'[r].draw = d /\ rev'[r].no = draw[d].nextNo
          /\ rev'[r].basedOn = draw[d].current
    BY <1>2, NewDraftFields DEF IsInserted
  <2>2. draw[d].current \in Revisions /\ rev[draw[d].current].draw = d
    BY <2>1 DEF CurrentIsPublished, TypeOK, Draw
  <2>3. d # Nil
    BY IdentifierAssumption
  <2>4. rev[draw[d].current].no < draw[d].nextNo
    BY <2>2, <2>3 DEF NumbersAreUnique
  <2> QED
    BY <1>1, <2>1, <2>2, <2>3, <2>4
<1>3. CASE ~IsInserted(r)
  <2>1. /\ rev'[r].basedOn = rev[r].basedOn /\ rev'[r].draw = rev[r].draw
        /\ rev'[r].no = rev[r].no
    BY <1>3, IdentityStays
  <2>2. rev[r].draw # Nil
    BY <2>1, IdentifierAssumption DEF RowsAreWhole, NoRevision
  <2> QED
    BY <1>1, <2>1, <2>2 DEF BaseIsEarlier
<1> QED
  BY <1>2, <1>3

(* Nothing is published at first.                                          *)
LEMMA InitChain == Init => PublicationsFormAChain /\ BaseIsEarlier
  BY DEF Init, PublicationsFormAChain, BaseIsEarlier, NoDraw, NoRevision

(* A row that has been published changes only by being retired.            *)
LEMMA PublishedRowsStay ==
    ASSUME TypeOK, RowsAreWhole, CurrentIsPublished, [Next]_vars, NEW r \in Revisions,
           rev[r].workflow \in {"PUBLISHED", "SUPERSEDED"}
    PROVE  rev'[r] = rev[r] \/ (Publishing /\ IsRetired(r))
  BY RevisionRows DEF IsInserted, IsPatched, IsReopened, IsReviewed, IsPublished

(* Only publish writes DRAW_RESULT_PUBLISHED to the audit trail.           *)
LEMMA TrailStays ==
    ASSUME [Next]_vars, ~Publishing
    PROVE  published' = published
<1>1. CatalogueStep => published' = published
  BY DEF CatalogueStep, CreateDraw, PatchDraw, CreateRule, ApproveRule, RevokeRule
<1>2. ImportStep => published' = published
  BY DEF ImportStep, Preview, CreateDraft
<1>3. PageStep \/ UNCHANGED vars => published' = published
  BY DEF PageStep, LoadDraw, LoadRevision, vars
<1>4. RevisionStep => published' = published
  <2>1. \A a \in Admins, d \in Draws, r \in Revisions : CreateCorrection(a, d, r) => published' = published
    BY DEF CreateCorrection
  <2>2. \A a \in Admins, r \in Revisions : Reopen(a, r) => published' = published
    BY DEF Reopen
  <2>3. \A a \in Admins, r \in Revisions, flag \in BOOLEAN : Review(a, r, flag) => published' = published
    BY DEF Review
  <2>4. \A a \in Admins, r \in Revisions, dates \in Dates, payload \in Payloads :
           Patch(a, r, dates, payload) => published' = published
    BY DEF Patch
  <2>5. \A a \in Admins, d \in Draws, target \in {"ACTIVE", "SUSPENDED"} :
           SetVisibility(a, d, target) => published' = published
    BY DEF SetVisibility
  <2> QED
    BY <2>1, <2>2, <2>3, <2>4, <2>5 DEF RevisionStep, Publishing
<1> QED
  BY <1>1, <1>2, <1>3, <1>4 DEF Next

(* One draw's publications, from its trail, its pointer and the rows.      *)
ChainOf(d, p, current, row) ==
    /\ current = IF Len(p) = 0 THEN Nil ELSE p[Len(p)]
    /\ \A i \in 1..Len(p) :
         /\ row[p[i]].draw = d
         /\ row[p[i]].basedOn = IF i = 1 THEN Nil ELSE p[i - 1]
         /\ row[p[i]].workflow = IF i = Len(p) THEN "PUBLISHED" ELSE "SUPERSEDED"
         /\ i > 1 => row[p[i - 1]].no < row[p[i]].no

(* The chain, draw by draw.                                                *)
LEMMA ChainByDraw ==
    /\ PublicationsFormAChain <=> \A d \in Draws : ChainOf(d, published[d], draw[d].current, rev)
    /\ PublicationsFormAChain' <=> \A d \in Draws : ChainOf(d, published'[d], draw'[d].current, rev')
  BY DEF PublicationsFormAChain, ChainOf

(* What publish does to the trail, the pointer and the rows: revision r of *)
(* draw d takes the place of old.                                          *)
Replaces(a, r, d, old) ==
    /\ d \in Draws /\ rev[r].workflow = "READY" /\ rev[r].basedOn = old
    /\ published' = [published EXCEPT ![d] = Append(published[d], r)]
    /\ draw'[d].current = r
    /\ \A x \in Draws : x # d => draw'[x] = draw[x]
    /\ rev'[r] = [rev[r] EXCEPT !.workflow = "PUBLISHED", !.publishedBy = a,
                               !.editVersion = @ + 1]
    /\ old \in Revisions =>
          /\ rev[old].draw = d
          /\ rev'[old] = [rev[old] EXCEPT !.workflow = "SUPERSEDED"]
    /\ \A x \in Revisions : x # r /\ x # old => rev'[x] = rev[x]

(* Publish replaces the current revision of the draw.                      *)
LEMMA PublishEffect ==
    ASSUME TypeOK, RowsAreWhole, CurrentIsPublished,
           NEW a \in Admins, NEW r \in Revisions, NEW flag \in BOOLEAN, Publish(a, r, flag)
    PROVE  Replaces(a, r, rev[r].draw, draw[rev[r].draw].current)
<1> DEFINE d == rev[r].draw
           old == draw[d].current
<1>1. d \in Draws /\ rev[r].workflow = "READY" /\ rev[r].basedOn = old
  BY DEF Publish, MayPublish, ReplacesExpected, RowsAreWhole
<1>2. published' = [published EXCEPT ![d] = Append(published[d], r)]
  BY DEF Publish
<1>3. draw'[d].current = r /\ \A x \in Draws : x # d => draw'[x] = draw[x]
  BY <1>1 DEF Publish, PublishedDraw, TypeOK, Draw
<1>4. rev'[r] = [rev[r] EXCEPT !.workflow = "PUBLISHED", !.publishedBy = a,
                              !.editVersion = @ + 1]
  BY DEF Publish
<1>5. \A x \in Revisions : x # r /\ x # old => rev'[x] = rev[x]
  BY DEF Publish
<1>6. ASSUME old \in Revisions
      PROVE  rev[old].draw = d /\ rev'[old] = [rev[old] EXCEPT !.workflow = "SUPERSEDED"]
  <2>1. rev[old].draw = d /\ rev[old].workflow = "PUBLISHED"
    BY <1>1, <1>6, IdentifierAssumption DEF CurrentIsPublished
  <2>2. old # r
    BY <1>1, <2>1
  <2> QED
    BY <1>6, <2>1, <2>2 DEF Publish, Retired
<1> QED
  BY <1>1, <1>2, <1>3, <1>4, <1>5, <1>6 DEF Replaces

(* Every step keeps the chains; publish adds one link to one of them.      *)
LEMMA StepChain ==
    ASSUME TypeOK, RowsAreWhole, CurrentIsPublished, BaseIsEarlier, PublicationsFormAChain,
           [Next]_vars
    PROVE  PublicationsFormAChain'
<1> SUFFICES ASSUME NEW d \in Draws
             PROVE  ChainOf(d, published'[d], draw'[d].current, rev')
  BY ChainByDraw
<1> DEFINE p == published[d]
           n == Len(p)
<1>1. p \in Seq(Revisions) /\ n \in Nat /\ \A i \in 1..n : p[i] \in Revisions
  BY DEF TypeOK
<1>2. /\ draw[d].current = IF n = 0 THEN Nil ELSE p[n]
      /\ \A i \in 1..n :
           /\ rev[p[i]].draw = d
           /\ rev[p[i]].basedOn = IF i = 1 THEN Nil ELSE p[i - 1]
           /\ rev[p[i]].workflow = IF i = n THEN "PUBLISHED" ELSE "SUPERSEDED"
           /\ i > 1 => rev[p[i - 1]].no < rev[p[i]].no
  BY ChainByDraw DEF ChainOf
<1>3. CASE ~Publishing
  <2>1. published' = published
    BY <1>3, TrailStays
  <2>2. draw'[d].current = draw[d].current
    BY <1>3, DrawRows DEF DrawStays
  <2>3. \A i \in 1..n : rev'[p[i]] = rev[p[i]]
    BY <1>1, <1>2, <1>3, PublishedRowsStay
  <2>4. \A i \in 1..n : i > 1 => i - 1 \in 1..n
    BY <1>1
  <2> QED
    BY <1>1, <1>2, <2>1, <2>2, <2>3, <2>4 DEF ChainOf
<1>4. ASSUME NEW a \in Admins, NEW r \in Revisions, NEW flag \in BOOLEAN, Publish(a, r, flag)
      PROVE  ChainOf(d, published'[d], draw'[d].current, rev')
  <2> DEFINE e == rev[r].draw
             old == draw[e].current
  <2>0. e = rev[r].draw /\ old = draw[e].current
    OBVIOUS
  <2> HIDE DEF e, old
  <2>1. Replaces(a, r, e, old)
    BY <1>4, <2>0, PublishEffect
  <2>2. CASE d # e
    <3>1. published'[d] = p /\ draw'[d].current = draw[d].current
      BY <2>1, <2>2 DEF Replaces, TypeOK
    <3>2. \A i \in 1..n : rev'[p[i]] = rev[p[i]]
      BY <1>1, <1>2, <2>1, <2>2 DEF Replaces
    <3>3. \A i \in 1..n : i > 1 => i - 1 \in 1..n
      BY <1>1
    <3> QED
      BY <1>1, <1>2, <3>1, <3>2, <3>3 DEF ChainOf
  <2>3. CASE d = e
    <3> DEFINE q == Append(p, r)
    <3>1. /\ published'[d] = q /\ Len(q) = n + 1 /\ q[n + 1] = r
          /\ \A i \in 1..n : q[i] = p[i]
      BY <1>1, <2>1, <2>3 DEF Replaces, TypeOK
    <3> HIDE DEF q
    <3>2. /\ rev'[r].draw = d /\ rev'[r].workflow = "PUBLISHED"
          /\ rev'[r].basedOn = old /\ rev'[r].no = rev[r].no
      <4>1. rev[r] \in Revision
        BY DEF TypeOK
      <4> QED
        BY <2>0, <2>1, <2>3, <4>1 DEF Replaces, Revision
    <3>3. old = IF n = 0 THEN Nil ELSE p[n]
      BY <1>2, <2>0, <2>3
    <3>4. ASSUME NEW i \in 1..n, i < n
          PROVE  rev'[p[i]] = rev[p[i]]
      BY <1>1, <1>2, <2>1, <3>3, <3>4 DEF Replaces
    <3>5. ASSUME n > 0
          PROVE  /\ rev'[p[n]].draw = rev[p[n]].draw /\ rev'[p[n]].no = rev[p[n]].no
                 /\ rev'[p[n]].basedOn = rev[p[n]].basedOn
                 /\ rev'[p[n]].workflow = "SUPERSEDED"
                 /\ rev[p[n]].no < rev[r].no
      <4>1. old = p[n] /\ p[n] \in Revisions
        BY <1>1, <3>3, <3>5
      <4>2. rev[p[n]] \in Revision
        BY <4>1 DEF TypeOK
      <4>3. rev[p[n]].no < rev[r].no
        BY <2>1, <4>1, IdentifierAssumption DEF Replaces, BaseIsEarlier
      <4> QED
        BY <2>1, <4>1, <4>2, <4>3 DEF Replaces, Revision
    <3>6. ASSUME NEW i \in 1..(n + 1)
          PROVE  /\ rev'[q[i]].draw = d
                 /\ rev'[q[i]].basedOn = IF i = 1 THEN Nil ELSE q[i - 1]
                 /\ rev'[q[i]].workflow = IF i = n + 1 THEN "PUBLISHED" ELSE "SUPERSEDED"
                 /\ i > 1 => rev'[q[i - 1]].no < rev'[q[i]].no
      <4>1. CASE i < n
        <5>1. i \in 1..n /\ (i > 1 => i - 1 \in 1..n /\ i - 1 < n)
          BY <1>1, <4>1
        <5>2. /\ q[i] = p[i] /\ rev'[q[i]] = rev[p[i]]
              /\ i > 1 => q[i - 1] = p[i - 1] /\ rev'[q[i - 1]] = rev[p[i - 1]]
          BY <3>1, <3>4, <4>1, <5>1
        <5> QED
          BY <1>1, <1>2, <4>1, <5>1, <5>2
      <4>2. CASE i = n
        <5>1. n > 0 /\ i \in 1..n /\ (i > 1 => i - 1 \in 1..n /\ i - 1 < n)
          BY <1>1, <4>2
        <5>2. q[i] = p[n] /\ (i > 1 => q[i - 1] = p[i - 1] /\ rev'[q[i - 1]] = rev[p[i - 1]])
          BY <3>1, <3>4, <4>2, <5>1
        <5>3. /\ rev[p[n]].draw = d /\ rev[p[n]].basedOn = IF n = 1 THEN Nil ELSE p[n - 1]
              /\ n > 1 => rev[p[n - 1]].no < rev[p[n]].no
          BY <1>2, <4>2, <5>1
        <5>4. i > 1 => q[i - 1] = p[n - 1] /\ rev'[q[i - 1]].no = rev[p[n - 1]].no
          BY <4>2, <5>2
        <5>5. i > 1 => rev'[q[i - 1]].no < rev'[q[i]].no
          BY <3>5, <4>2, <5>1, <5>2, <5>3, <5>4
        <5>6. rev'[q[i]].draw = d /\ rev'[q[i]].workflow = "SUPERSEDED" /\ i # n + 1
          BY <1>1, <3>5, <4>2, <5>1, <5>2, <5>3
        <5>7. rev'[q[i]].basedOn = IF i = 1 THEN Nil ELSE q[i - 1]
          <6>1. rev'[q[i]].basedOn = rev[p[n]].basedOn
            BY <3>5, <5>1, <5>2
          <6>2. i # 1 => i > 1
            BY <5>1
          <6> QED
            BY <4>2, <5>3, <5>4, <6>1, <6>2
        <5> QED
          BY <5>5, <5>6, <5>7
      <4>3. CASE i = n + 1
        <5>1. i > 1 => n > 0 /\ n \in 1..n /\ i - 1 = n
          BY <1>1, <4>3
        <5> QED
          BY <1>1, <3>1, <3>2, <3>3, <3>5, <4>3, <5>1
      <4> QED
        BY <1>1, <4>1, <4>2, <4>3
    <3> QED
      BY <1>1, <2>1, <2>3, <3>1, <3>6 DEF Replaces, ChainOf
  <2> QED
    BY <2>2, <2>3
<1> QED
  BY <1>3, <1>4 DEF Publishing

(* The publications of a draw form one chain, whatever drafts, reviews,    *)
(* suspensions and patches come between them: two drafts made from one     *)
(* result can never both be published.                                     *)
THEOREM PublicationsAreAChain == Spec => []PublicationsFormAChain
<1> DEFINE J == NumbersAreUnique /\ BaseIsEarlier /\ PublicationsFormAChain
<1>1. Init => J
  BY InitNumbers, InitChain
<1>2. Inv /\ J /\ [Next]_vars => J'
  <2> SUFFICES ASSUME Inv, J, [Next]_vars
               PROVE  J'
    OBVIOUS
  <2>1. TypeOK /\ RowsAreWhole /\ CurrentIsPublished
    BY DEF Inv
  <2>2. NumbersAreUnique'
    BY <2>1, StepNumbers
  <2>3. BaseIsEarlier'
    BY <2>1, StepBase
  <2>4. PublicationsFormAChain'
    BY <2>1, StepChain
  <2> QED
    BY <2>2, <2>3, <2>4
<1>3. J => PublicationsFormAChain
  OBVIOUS
<1> HIDE DEF J
<1> QED
  BY <1>1, <1>2, <1>3, Invariance, PTL DEF Spec

-----------------------------------------------------------------------------
(* Drafts left behind.                                                     *)

(* What a draft is based on has been published.                            *)
BaseWasPublished ==
    \A r \in Revisions : rev[r].basedOn # Nil =>
        /\ rev[r].basedOn \in Revisions
        /\ rev[rev[r].basedOn].workflow \in {"PUBLISHED", "SUPERSEDED"}

(* A published row stays published or is superseded.                       *)
LEMMA StepBasePublished ==
    ASSUME TypeOK, RowsAreWhole, CurrentIsPublished, BaseWasPublished, [Next]_vars
    PROVE  BaseWasPublished'
<1> SUFFICES ASSUME NEW r \in Revisions, rev'[r].basedOn # Nil
             PROVE  /\ rev'[r].basedOn \in Revisions
                    /\ rev'[rev'[r].basedOn].workflow \in {"PUBLISHED", "SUPERSEDED"}
  BY DEF BaseWasPublished
<1>1. ASSUME NEW x \in Revisions, rev[x].workflow \in {"PUBLISHED", "SUPERSEDED"}
      PROVE  rev'[x].workflow \in {"PUBLISHED", "SUPERSEDED"}
  <2>1. rev[x] \in Revision
    BY DEF TypeOK
  <2>2. rev'[x] = rev[x] \/ rev'[x] = [rev[x] EXCEPT !.workflow = "SUPERSEDED"]
    BY <1>1, PublishedRowsStay DEF IsRetired
  <2> QED
    BY <1>1, <2>1, <2>2 DEF Revision
<1>2. /\ rev'[r].basedOn \in Revisions
      /\ rev[rev'[r].basedOn].workflow \in {"PUBLISHED", "SUPERSEDED"}
  <2>1. CASE IsInserted(r)
    <3>1. PICK d \in Draws : rev'[r].basedOn = draw[d].current
      BY <2>1, NewDraftFields DEF IsInserted
    <3> QED
      BY <3>1 DEF CurrentIsPublished, TypeOK, Draw
  <2>2. CASE ~IsInserted(r)
    BY <2>2, IdentityStays DEF BaseWasPublished
  <2> QED
    BY <2>1, <2>2
<1> QED
  BY <1>1, <1>2

(* An open draft whose base has been replaced stays so.                    *)
LEMMA StepStale ==
    ASSUME TypeOK, RowsAreWhole, CurrentIsPublished, BaseWasPublished, [Next]_vars,
           NEW r \in Revisions, Stale(r)
    PROVE  Stale(r)'
<1> DEFINE d == rev[r].draw
<1>1. /\ d \in Draws /\ rev[r] \in Revision
      /\ rev[r].workflow \in {"DRAFT", "READY"} /\ rev[r].basedOn # draw[d].current
  BY DEF Stale, RowsAreWhole, TypeOK
<1>2. ~IsInserted(r) /\ ~IsPublished(r) /\ ~IsRetired(r)
  BY <1>1 DEF IsInserted, IsPublished, IsRetired
<1>3. rev'[r].workflow \in {"DRAFT", "READY"}
  <2>1. CASE IsPatched(r)
    BY <1>1, <2>1 DEF IsPatched, Rehashed, Edited, Revision
  <2>2. CASE IsReopened(r)
    BY <1>1, <2>2 DEF IsReopened, Edited, Revision
  <2>3. CASE IsReviewed(r)
    BY <1>1, <2>3 DEF IsReviewed, Revision
  <2> QED
    BY <1>1, <1>2, <2>1, <2>2, <2>3, RevisionRows
<1>4. rev'[r].draw = d /\ rev'[r].basedOn = rev[r].basedOn
  BY <1>2, IdentityStays
<1>5. rev[r].basedOn # draw'[d].current
  <2>1. CASE draw'[d].current = draw[d].current
    BY <1>1, <2>1
  <2>2. CASE draw'[d].current \in Revisions /\ IsPublished(draw'[d].current)
    <3>1. rev[draw'[d].current].workflow = "READY" /\ draw'[d].current # Nil
      BY <2>2, IdentifierAssumption DEF IsPublished
    <3> QED
      BY <3>1 DEF BaseWasPublished
  <2> QED
    BY <1>1, <2>1, <2>2, DrawRows DEF DrawStays
<1> QED
  BY <1>3, <1>4, <1>5 DEF Stale

(* A draft whose base has been replaced can never be published: the draw's *)
(* pointer never returns to an earlier revision.                           *)
THEOREM LeftBehindForGood == Spec => StaleIsForever
<1> DEFINE Keeps == \A r \in Revisions : Stale(r) => Stale(r)'
<1>1. Init => BaseWasPublished
  BY DEF Init, BaseWasPublished, NoRevision
<1>2. Inv /\ BaseWasPublished /\ [Next]_vars => BaseWasPublished'
  BY StepBasePublished DEF Inv
<1>3. Inv /\ BaseWasPublished /\ [Next]_vars => [Keeps]_vars
  BY StepStale DEF Inv
<1> QED
  BY <1>1, <1>2, <1>3, Invariance, PTL DEF Spec, StaleIsForever

=============================================================================
