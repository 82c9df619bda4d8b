----------------------------- MODULE Publishing -----------------------------
(***************************************************************************)
(* The publication pipeline of the BhagyaRekha API: lottery draws, rule    *)
(* versions, import batches and result revisions, and the handlers of      *)
(* PublishingService, ImportsService and AdminCatalogService that change   *)
(* them.                                                                   *)
(*                                                                         *)
(* Every handler is one PostgreSQL transaction that takes its row locks    *)
(* before it reads what it decides on, so here it is one action.  What     *)
(* makes the pipeline hard is outside the transaction: an administrator    *)
(* decides on a page loaded earlier and sends back the edit version that   *)
(* page showed, while others edit, publish, suspend and revoke.  The       *)
(* variable seen is that page.                                             *)
(*                                                                         *)
(* A result's data (completeness, categories, amounts, entries, evidence)  *)
(* is a member of Payloads; its dates are a member of Dates.               *)
(*                                                                         *)
(* An operator whose comment begins with "Mutation of" is a plausible bug  *)
(* in the operator that follows it.  No action uses one: each shows that   *)
(* some property notices the bug.                                          *)
(***************************************************************************)
EXTENDS Naturals, Sequences, FiniteSets

CONSTANTS
    Lotteries, Draws, Rules, Revisions, Batches,  \* identifiers
    Admins,                \* signed-in administrators (each at least EDITOR)
    Publishers,            \* those with the PUBLISHER role
    LotteryOf,             \* the lottery of each draw
    RuleLottery,           \* the lottery of each rule version
    CompilableRules,       \* the rule versions compileRuleSet accepts
    Dates,                 \* the dates and instants a snapshot can carry
    DrawDates,             \* those the CHECK constraints of the draw table accept
    Payloads,              \* the data a revision can carry
    PublishablePayloads,   \* those the publication invariants accept
    CompletePayloads,      \* those whose completeness is COMPLETE
    AllowSelfReview,       \* the ALLOW_SELF_REVIEW setting
    MaxRevisionVersion,    \* bound: edit versions of revisions stop here
    MaxDrawVersion,        \* bound: edit versions of draws stop here
    Nil

ASSUME IdentifierAssumption ==
    /\ Nil \notin Lotteries \cup Draws \cup Rules \cup Revisions
    /\ Nil \notin Batches \cup Admins \cup Dates \cup Payloads
    /\ Nil \notin Rules \X Dates \X Payloads

ASSUME CatalogueAssumption ==
    /\ Publishers \subseteq Admins
    /\ LotteryOf \in [Draws -> Lotteries]
    /\ RuleLottery \in [Rules -> Lotteries]
    /\ CompilableRules \subseteq Rules
    /\ DrawDates \subseteq Dates
    /\ PublishablePayloads \subseteq Payloads
    /\ CompletePayloads \subseteq Payloads
    /\ AllowSelfReview \in BOOLEAN
    /\ MaxRevisionVersion \in Nat /\ MaxDrawVersion \in Nat

VARIABLES
    rule,        \* rule[u]: the state of a rule version
    draw,        \* draw[d]: the draw row
    rev,         \* rev[r]: the result_revision row and the rows below it
    batch,       \* batch[b]: the import_batch row
    dataset,     \* dataset[l]: lottery.dataset_version
    published,   \* published[d]: the DRAW_RESULT_PUBLISHED audit trail
    seen         \* seen[a]: the page an administrator last loaded

vars == <<rule, draw, rev, batch, dataset, published, seen>>

-----------------------------------------------------------------------------
(* Types, and the records that stand for rows not inserted yet.            *)

Phases == {"SCHEDULED", "POSTPONED", "HELD", "CANCELLED"}
Kinds == {"INITIAL", "UPDATE", "CORRECTION"}
RuleStates == {"ABSENT", "DRAFT", "APPROVED", "REVOKED"}
Reviewed == {"READY", "PUBLISHED", "SUPERSEDED"}
Workflow == {"ABSENT", "DRAFT"} \cup Reviewed
Hashes == Rules \X Dates \X Payloads

Draw == [phase: Phases \cup {"ABSENT"}, visibility: {"ACTIVE", "SUSPENDED"},
         dates: Dates \cup {Nil}, current: Revisions \cup {Nil},
         nextNo: Nat, editVersion: Nat]

Revision == [workflow: Workflow, draw: Draws \cup {Nil}, rule: Rules \cup {Nil},
             no: Nat, basedOn: Revisions \cup {Nil}, kind: Kinds \cup {Nil},
             dates: Dates \cup {Nil}, payload: Payloads \cup {Nil},
             contentHash: Hashes \cup {Nil}, reviewedHash: Hashes \cup {Nil},
             reviewedBy: Admins \cup {Nil}, publishedBy: Admins \cup {Nil},
             lastEditedBy: Admins \cup {Nil}, editVersion: Nat]

Batch == [status: {"ABSENT", "VALIDATION_FAILED", "PREVIEW_READY", "DRAFT_CREATED"},
          draw: Draws \cup {Nil}, rule: Rules \cup {Nil}, kind: Kinds \cup {Nil},
          payload: Payloads \cup {Nil}, created: Revisions \cup {Nil}]

Page == [draw: Draws \cup {Nil}, drawVersion: Nat, current: Revisions \cup {Nil},
         revision: Revisions \cup {Nil}, revisionVersion: Nat,
         hash: Hashes \cup {Nil}]

NoDraw == [phase |-> "ABSENT", visibility |-> "ACTIVE", dates |-> Nil,
           current |-> Nil, nextNo |-> 1, editVersion |-> 1]

NoRevision == [workflow |-> "ABSENT", draw |-> Nil, rule |-> Nil, no |-> 0,
               basedOn |-> Nil, kind |-> Nil, dates |-> Nil, payload |-> Nil,
               contentHash |-> Nil, reviewedHash |-> Nil, reviewedBy |-> Nil,
               publishedBy |-> Nil, lastEditedBy |-> Nil, editVersion |-> 1]

NoBatch == [status |-> "ABSENT", draw |-> Nil, rule |-> Nil, kind |-> Nil,
            payload |-> Nil, created |-> Nil]

NoPage == [draw |-> Nil, drawVersion |-> 0, current |-> Nil,
           revision |-> Nil, revisionVersion |-> 0, hash |-> Nil]

TypeOK ==
    /\ rule \in [Rules -> RuleStates]
    /\ draw \in [Draws -> Draw]
    /\ rev \in [Revisions -> Revision]
    /\ batch \in [Batches -> Batch]
    /\ dataset \in [Lotteries -> Nat]
    /\ published \in [Draws -> Seq(Revisions)]
    /\ seen \in [Admins -> Page]

Init ==
    /\ rule = [u \in Rules |-> "ABSENT"]
    /\ draw = [d \in Draws |-> NoDraw]
    /\ rev = [r \in Revisions |-> NoRevision]
    /\ batch = [b \in Batches |-> NoBatch]
    /\ dataset = [l \in Lotteries |-> 0]
    /\ published = [d \in Draws |-> <<>>]
    /\ seen = [a \in Admins |-> NoPage]

-----------------------------------------------------------------------------
(* Pages: GET /admin/revisions/:id and GET /admin/draws.                   *)

DrawPage(d) ==
    [NoPage EXCEPT !.draw = d, !.drawVersion = draw[d].editVersion,
                   !.current = draw[d].current]

RevisionPage(r) ==
    [DrawPage(rev[r].draw) EXCEPT !.revision = r,
                                  !.revisionVersion = rev[r].editVersion,
                                  !.hash = rev[r].contentHash]

LoadDraw(a, d) ==
    /\ draw[d].phase # "ABSENT"
    /\ seen' = [seen EXCEPT ![a] = DrawPage(d)]
    /\ UNCHANGED <<rule, draw, rev, batch, dataset, published>>

LoadRevision(a, r) ==
    /\ rev[r].workflow # "ABSENT"
    /\ seen' = [seen EXCEPT ![a] = RevisionPage(r)]
    /\ UNCHANGED <<rule, draw, rev, batch, dataset, published>>

(* A request answered leaves the page to be loaded again.                  *)
Answered(a) == seen' = [seen EXCEPT ![a] = NoPage]

(* If-Match / expectedEditVersion: the version on the page is still that   *)
(* of the row.                                                             *)
(*                                                                         *)
(* Mutation of RevisionMatches: the page only has to be about the row.     *)
RevisionOlder(a, r) == seen[a].revisionVersion <= rev[r].editVersion
RevisionMatches(a, r) == seen[a].revisionVersion = rev[r].editVersion

(* Mutation of DrawMatches: the same.                                      *)
DrawOlder(a, d) == seen[a].drawVersion <= draw[d].editVersion
DrawMatches(a, d) == seen[a].drawVersion = draw[d].editVersion

(* The last conjunct of each is the bound.                                 *)
EditsRevision(a, r) ==
    /\ seen[a].revision = r
    /\ RevisionMatches(a, r)
    /\ rev[r].editVersion < MaxRevisionVersion

EditsDraw(a, d) ==
    /\ seen[a].draw = d
    /\ DrawMatches(a, d)
    /\ draw[d].editVersion < MaxDrawVersion

-----------------------------------------------------------------------------
(* Catalogue: draws and rule versions (AdminCatalogService).               *)

CreateDraw(d, phase, dates) ==
    /\ draw[d].phase = "ABSENT"
    /\ dates \in DrawDates
    /\ draw' = [draw EXCEPT ![d].phase = phase, ![d].dates = dates]
    /\ UNCHANGED <<rule, rev, batch, dataset, published, seen>>

(* phase and dates are Nil when the body leaves them out.                  *)
(*                                                                         *)
(* Mutation of MayPatchDraw: a published draw may be given other dates.    *)
MayMoveDraw(d, phase, dates) ==
    draw[d].current # Nil => phase # "CANCELLED"
MayPatchDraw(d, phase, dates) ==
    draw[d].current # Nil => dates = Nil /\ phase # "CANCELLED"

PatchDraw(a, d, phase, dates) ==
    /\ EditsDraw(a, d)
    /\ MayPatchDraw(d, phase, dates)
    /\ draw' = [draw EXCEPT
                   ![d].phase = IF phase = Nil THEN @ ELSE phase,
                   ![d].dates = IF dates = Nil THEN @ ELSE dates,
                   ![d].editVersion = @ + 1]
    /\ Answered(a)
    /\ UNCHANGED <<rule, rev, batch, dataset, published>>

CreateRule(u) ==
    /\ rule[u] = "ABSENT"
    /\ rule' = [rule EXCEPT ![u] = "DRAFT"]
    /\ UNCHANGED <<draw, rev, batch, dataset, published, seen>>

ApproveRule(a, u) ==
    /\ a \in Publishers
    /\ rule[u] = "DRAFT"
    /\ u \in CompilableRules
    /\ rule' = [rule EXCEPT ![u] = "APPROVED"]
    /\ UNCHANGED <<draw, rev, batch, dataset, published, seen>>

(* Mutation of RevokeRule: the dataset version stays.                      *)
RevokeRuleQuietly(a, u) ==
    /\ a \in Publishers
    /\ rule[u] = "APPROVED"
    /\ rule' = [rule EXCEPT ![u] = "REVOKED"]
    /\ UNCHANGED <<draw, rev, batch, dataset, published, seen>>

RevokeRule(a, u) ==
    /\ a \in Publishers
    /\ rule[u] = "APPROVED"
    /\ rule' = [rule EXCEPT ![u] = "REVOKED"]
    /\ dataset' = [dataset EXCEPT ![RuleLottery[u]] = @ + 1]
    /\ UNCHANGED <<draw, rev, batch, published, seen>>

-----------------------------------------------------------------------------
(* Imports: a validated preview, and the draft made from it.               *)

(* validateImport: the rule is approved and compiles, the kind agrees with *)
(* the draw, and the rows satisfy every category's manifest.               *)
ValidImport(d, u, kind, payload) ==
    /\ draw[d].phase # "ABSENT"
    /\ rule[u] = "APPROVED" /\ u \in CompilableRules
    /\ RuleLottery[u] = LotteryOf[d]
    /\ (kind = "INITIAL") <=> (draw[d].current = Nil)
    /\ payload \in PublishablePayloads

Preview(b, d, u, kind, payload) ==
    /\ batch[b].status = "ABSENT"
    /\ batch' = [batch EXCEPT ![b] =
                    IF ValidImport(d, u, kind, payload)
                    THEN [status |-> "PREVIEW_READY", draw |-> d, rule |-> u,
                          kind |-> kind, payload |-> payload, created |-> Nil]
                    ELSE [NoBatch EXCEPT !.status = "VALIDATION_FAILED"]]
    /\ UNCHANGED <<rule, draw, rev, dataset, published, seen>>

Hash(x) == <<x.rule, x.dates, x.payload>>

(* The row a draft starts as; both ways of making one number it from the   *)
(* draw and base it on the draw's current revision.                        *)
NewDraft(a, d, u, kind, dates, payload) ==
    [NoRevision EXCEPT !.workflow = "DRAFT", !.draw = d, !.rule = u,
                       !.no = draw[d].nextNo, !.basedOn = draw[d].current,
                       !.kind = kind, !.dates = dates, !.payload = payload,
                       !.contentHash = <<u, dates, payload>>,
                       !.lastEditedBy = a]

(* Mutation of InsertDraft: the number is not taken.                       *)
InsertSameNumber(r, d, row) ==
    /\ rev[r].workflow = "ABSENT"
    /\ draw[d].editVersion < MaxDrawVersion
    /\ rev' = [rev EXCEPT ![r] = row]
    /\ draw' = [draw EXCEPT ![d].editVersion = @ + 1]

InsertDraft(r, d, row) ==
    /\ rev[r].workflow = "ABSENT"
    /\ draw[d].editVersion < MaxDrawVersion
    /\ rev' = [rev EXCEPT ![r] = row]
    /\ draw' = [draw EXCEPT ![d].nextNo = @ + 1, ![d].editVersion = @ + 1]

(* The batch row is locked: a second call finds createdRevisionId set and  *)
(* returns it, changing nothing.                                           *)
KindStillFits(b) ==
    (batch[b].kind = "INITIAL") <=> (draw[batch[b].draw].current = Nil)

CreateDraft(a, b, r) ==
    LET d == batch[b].draw
        u == batch[b].rule
    IN  /\ batch[b].status = "PREVIEW_READY"
        /\ rule[u] = "APPROVED"
        /\ KindStillFits(b)
        /\ InsertDraft(r, d, NewDraft(a, d, u, batch[b].kind, draw[d].dates,
                                      batch[b].payload))
        /\ batch' = [batch EXCEPT ![b].status = "DRAFT_CREATED", ![b].created = r]
        /\ UNCHANGED <<rule, dataset, published, seen>>

-----------------------------------------------------------------------------
(* Revisions (PublishingService).                                          *)

Open(d) == {r \in Revisions : rev[r].draw = d /\ rev[r].workflow \in {"DRAFT", "READY"}}

CreateCorrection(a, d, r) ==
    LET current == rev[draw[d].current]
    IN  /\ draw[d].current # Nil
        /\ Open(d) = {}
        /\ InsertDraft(r, d, NewDraft(a, d, current.rule, "CORRECTION",
                                      current.dates, current.payload))
        /\ UNCHANGED <<rule, batch, dataset, published, seen>>

(* What an edit clears and stamps; what the stored hash becomes.           *)
Edited(a, row) ==
    [row EXCEPT !.reviewedHash = Nil, !.reviewedBy = Nil, !.lastEditedBy = a,
                !.editVersion = @ + 1]

(* Mutation of Rehashed: the rule version is left out of the hash.         *)
RehashedWithoutRule(row) == [row EXCEPT !.contentHash = <<row.dates, row.payload>>]
Rehashed(row) == [row EXCEPT !.contentHash = Hash(row)]

(* Mutation of Editable: a reviewed draft can be edited in place.          *)
EditableInPlace(r) == rev[r].workflow \in {"DRAFT", "READY"}
Editable(r) == rev[r].workflow = "DRAFT"

Patch(a, r, dates, payload) ==
    /\ EditsRevision(a, r)
    /\ Editable(r)
    /\ rev[r].rule \in CompilableRules
    /\ rev' = [rev EXCEPT ![r] = Rehashed(Edited(a,
                  [rev[r] EXCEPT !.dates = dates, !.payload = payload]))]
    /\ Answered(a)
    /\ UNCHANGED <<rule, draw, batch, dataset, published>>

Reopen(a, r) ==
    /\ EditsRevision(a, r)
    /\ rev[r].workflow = "READY"
    /\ rev' = [rev EXCEPT ![r] = Edited(a, [rev[r] EXCEPT !.workflow = "DRAFT"])]
    /\ Answered(a)
    /\ UNCHANGED <<rule, draw, batch, dataset, published>>

(* assertPublishable: an approved, compilable rule and acceptable data.    *)
(*                                                                         *)
(* Mutation of Publishable: a rule revoked since is not noticed.           *)
PublishableData(r) ==
    /\ rev[r].rule \in CompilableRules
    /\ rev[r].payload \in PublishablePayloads
Publishable(r) ==
    /\ rule[rev[r].rule] = "APPROVED"
    /\ rev[r].rule \in CompilableRules
    /\ rev[r].payload \in PublishablePayloads

(* The last editor reviews only where the setting allows it and on an      *)
(* explicit confirmation.                                                  *)
(*                                                                         *)
(* Mutation of MayReview: the setting is not consulted.                    *)
MayReviewConfirmed(a, r, confirmed) ==
    rev[r].lastEditedBy = a => confirmed
MayReview(a, r, confirmed) ==
    rev[r].lastEditedBy = a => AllowSelfReview /\ confirmed

Review(a, r, confirmed) ==
    /\ a \in Publishers
    /\ EditsRevision(a, r)
    /\ rev[r].workflow = "DRAFT"
    /\ Hash(rev[r]) = rev[r].contentHash
    /\ MayReview(a, r, confirmed)
    /\ Publishable(r)
    /\ rev' = [rev EXCEPT ![r] = [rev[r] EXCEPT !.workflow = "READY",
                                               !.reviewedHash = rev[r].contentHash,
                                               !.reviewedBy = a,
                                               !.editVersion = @ + 1]]
    /\ Answered(a)
    /\ UNCHANGED <<rule, draw, batch, dataset, published>>

(* The publisher's expectedCurrentRevisionId, the draw's pointer and the   *)
(* revision's base are one and the same.                                   *)
(*                                                                         *)
(* Mutation of ReplacesExpected: the base is not compared.                 *)
ReplacesSeen(a, r) == seen[a].current = draw[rev[r].draw].current
ReplacesExpected(a, r) ==
    /\ seen[a].current = draw[rev[r].draw].current
    /\ rev[r].basedOn = draw[rev[r].draw].current

ReviewStands(r) ==
    /\ rev[r].reviewedHash = rev[r].contentHash
    /\ Hash(rev[r]) = rev[r].contentHash

(* A complete result is followed by a partial one only as a correction.    *)
(*                                                                         *)
(* Mutation of Downgrades: the kind is compared the wrong way round.       *)
DowngradesCorrections(r) ==
    /\ rev[r].basedOn # Nil
    /\ rev[rev[r].basedOn].payload \in CompletePayloads
    /\ rev[r].payload \notin CompletePayloads
    /\ rev[r].kind = "CORRECTION"
Downgrades(r) ==
    /\ rev[r].basedOn # Nil
    /\ rev[rev[r].basedOn].payload \in CompletePayloads
    /\ rev[r].payload \notin CompletePayloads
    /\ rev[r].kind # "CORRECTION"

MayPublish(a, r, reactivate) ==
    LET d == rev[r].draw
    IN  /\ ReplacesExpected(a, r)
        /\ rev[r].workflow = "READY"
        /\ ReviewStands(r)
        /\ Publishable(r)
        /\ draw[d].visibility = "SUSPENDED" => reactivate
        /\ draw[d].phase # "CANCELLED"
        /\ ~Downgrades(r)

(* The draw row after publication.  The CHECK constraints of the table may *)
(* still refuse the snapshot's dates, which rolls the transaction back.    *)
(*                                                                         *)
(* Mutation of PublishedDraw: reactivate is checked but not applied.       *)
PublishedDrawSuspended(r, reactivate) ==
    [draw[rev[r].draw] EXCEPT
        !.current = r, !.dates = rev[r].dates, !.phase = "HELD",
        !.editVersion = @ + 1]
PublishedDraw(r, reactivate) ==
    [draw[rev[r].draw] EXCEPT
        !.current = r, !.dates = rev[r].dates, !.phase = "HELD",
        !.visibility = IF reactivate THEN "ACTIVE" ELSE @,
        !.editVersion = @ + 1]

(* Mutation of Retired: the replaced revision stays PUBLISHED.             *)
RetiredNot(row) == row
Retired(row) ==
    IF row.workflow = "PUBLISHED" THEN [row EXCEPT !.workflow = "SUPERSEDED"] ELSE row

Publish(a, r, reactivate) ==
    LET d == rev[r].draw
        old == draw[d].current
    IN  /\ a \in Publishers
        /\ EditsRevision(a, r)
        /\ draw[d].editVersion < MaxDrawVersion
        /\ MayPublish(a, r, reactivate)
        /\ rev[r].dates \in DrawDates
        /\ rev' = [x \in Revisions |->
                     CASE x = r -> [rev[r] EXCEPT !.workflow = "PUBLISHED",
                                                  !.publishedBy = a,
                                                  !.editVersion = @ + 1]
                       [] x # r /\ x = old -> Retired(rev[x])
                       [] OTHER -> rev[x]]
        /\ draw' = [draw EXCEPT ![d] = PublishedDraw(r, reactivate)]
        /\ dataset' = [dataset EXCEPT ![LotteryOf[d]] = @ + 1]
        /\ published' = [published EXCEPT ![d] = Append(@, r)]
        /\ Answered(a)
        /\ UNCHANGED <<rule, batch>>

SetVisibility(a, d, target) ==
    /\ a \in Publishers
    /\ EditsDraw(a, d)
    /\ draw[d].visibility # target
    /\ draw' = [draw EXCEPT ![d].visibility = target, ![d].editVersion = @ + 1]
    /\ dataset' = [dataset EXCEPT ![LotteryOf[d]] = @ + 1]
    /\ Answered(a)
    /\ UNCHANGED <<rule, rev, batch, published>>

-----------------------------------------------------------------------------
CatalogueStep ==
    \/ \E d \in Draws, phase \in Phases, dates \in Dates : CreateDraw(d, phase, dates)
    \/ \E a \in Admins, d \in Draws, phase \in Phases \cup {Nil},
          dates \in DrawDates \cup {Nil} : PatchDraw(a, d, phase, dates)
    \/ \E u \in Rules : CreateRule(u)
    \/ \E a \in Admins, u \in Rules : ApproveRule(a, u) \/ RevokeRule(a, u)

ImportStep ==
    \/ \E b \in Batches, d \in Draws, u \in Rules, kind \in Kinds,
          payload \in Payloads : Preview(b, d, u, kind, payload)
    \/ \E a \in Admins, b \in Batches, r \in Revisions : CreateDraft(a, b, r)

RevisionStep ==
    \E a \in Admins :
        \/ \E d \in Draws, r \in Revisions : CreateCorrection(a, d, r)
        \/ \E r \in Revisions :
              \/ \E dates \in Dates, payload \in Payloads : Patch(a, r, dates, payload)
              \/ Reopen(a, r)
              \/ \E flag \in BOOLEAN : Review(a, r, flag) \/ Publish(a, r, flag)
        \/ \E d \in Draws, target \in {"ACTIVE", "SUSPENDED"} : SetVisibility(a, d, target)

PageStep ==
    \E a \in Admins :
        \/ \E d \in Draws : LoadDraw(a, d)
        \/ \E r \in Revisions : LoadRevision(a, r)

Next == CatalogueStep \/ ImportStep \/ RevisionStep \/ PageStep

Spec == Init /\ [][Next]_vars

-----------------------------------------------------------------------------
(* What the public side makes of the rows.                                 *)

(* payloadVisible: the result the read endpoints expose for a draw.        *)
(*                                                                         *)
(* Mutation of PublicResult: suspension is not looked at.                  *)
PublicResultSuspended(d) ==
    LET r == draw[d].current
    IN  IF r # Nil /\ draw[d].phase # "CANCELLED" /\ rev[r].workflow = "PUBLISHED"
        THEN [revision |-> r, content |-> Hash(rev[r])]
        ELSE Nil

PublicResult(d) ==
    LET r == draw[d].current
    IN  IF /\ r # Nil
           /\ draw[d].visibility = "ACTIVE"
           /\ draw[d].phase # "CANCELLED"
           /\ rev[r].workflow = "PUBLISHED"
        THEN [revision |-> r, content |-> Hash(rev[r])]
        ELSE Nil

(* selectEligible: the draws of a lottery that its statistics count, with  *)
(* the revision each is counted by and the dates it is found under.        *)
Eligible(l) ==
    {<<d, draw[d].current, draw[d].dates>> : d \in
        {x \in Draws : /\ LotteryOf[x] = l
                       /\ PublicResult(x) # Nil
                       /\ rule[rev[draw[x].current].rule] = "APPROVED"}}

(* The ledger of published results that the audit trail and the rows form. *)
EntriesOf(d) ==
    [i \in 1..Len(published[d]) |->
        [revision |-> published[d][i], content |-> Hash(rev[published[d][i]])]]

Withheld == [d \in Draws |-> draw[d].visibility = "SUSPENDED"]

Ledger == INSTANCE ResultLedger WITH
    Contents <- Hashes,
    Nothing <- Nil,
    ledger <- [d \in Draws |-> EntriesOf(d)],
    withheld <- Withheld,
    version <- dataset

-----------------------------------------------------------------------------
(* Safety.                                                                 *)

(* A row that exists is whole, and the hash stored with a revision is that *)
(* of its rows at every moment, not only when it is compared; a row not    *)
(* inserted yet holds nothing.  A batch that is still ready, and a page,   *)
(* are about a draw that exists.                                           *)
RowsAreWhole ==
    /\ \A d \in Draws :
          IF draw[d].phase = "ABSENT" THEN draw[d] = NoDraw ELSE draw[d].dates \in Dates
    /\ \A r \in Revisions :
          IF rev[r].workflow = "ABSENT"
          THEN rev[r] = NoRevision
          ELSE /\ rev[r].draw \in Draws /\ rev[r].rule \in Rules
               /\ rev[r].dates \in Dates /\ rev[r].payload \in Payloads
               /\ rev[r].kind \in Kinds
               /\ rev[r].contentHash = Hash(rev[r])
               /\ draw[rev[r].draw].phase # "ABSENT"
    /\ \A b \in Batches : batch[b].status = "PREVIEW_READY" =>
          /\ batch[b].draw \in Draws /\ batch[b].rule \in Rules
          /\ batch[b].kind \in Kinds /\ batch[b].payload \in Payloads
          /\ draw[batch[b].draw].phase # "ABSENT"
    /\ \A a \in Admins : seen[a].draw # Nil => draw[seen[a].draw].phase # "ABSENT"

(* The pointer and the workflow agree: a draw's current revision is a      *)
(* PUBLISHED revision of that draw, and every PUBLISHED revision is the    *)
(* current one of its draw (publish moves the pointer and supersedes the   *)
(* old revision in one transaction).                                       *)
CurrentIsPublished ==
    /\ \A d \in Draws : draw[d].current # Nil =>
          /\ rev[draw[d].current].draw = d
          /\ rev[draw[d].current].workflow = "PUBLISHED"
    /\ \A r \in Revisions : rev[r].workflow = "PUBLISHED" =>
          /\ rev[r].draw \in Draws
          /\ draw[rev[r].draw].current = r

(* From READY on, the reviewed hash is the hash of the rows as they are:   *)
(* nothing edited after its review is ever READY or public (patch and      *)
(* reopen clear the review, READY rows cannot be patched).                 *)
ReviewCoversContent ==
    \A r \in Revisions : rev[r].workflow \in Reviewed =>
        /\ rev[r].reviewedHash = Hash(rev[r])
        /\ rev[r].reviewedBy \in Publishers
        /\ rev[r].payload \in PublishablePayloads

(* Four eyes: unless ALLOW_SELF_REVIEW is set, whoever reviewed a READY or *)
(* public revision is not the last to have edited or reopened it.          *)
FourEyes ==
    ~AllowSelfReview =>
        \A r \in Revisions : rev[r].workflow \in Reviewed =>
            rev[r].reviewedBy # rev[r].lastEditedBy

(* The publications of a draw form one chain: no revision twice, each      *)
(* based on the one before, numbers increasing, all superseded but the     *)
(* last, which is the draw's current revision.  Two drafts made from the   *)
(* same base can never both be published.                                  *)
PublicationsFormAChain ==
    \A d \in Draws :
        LET p == published[d]
            n == Len(p)
        IN  /\ draw[d].current = IF n = 0 THEN Nil ELSE p[n]
            /\ \A i \in 1..n :
                 /\ rev[p[i]].draw = d
                 /\ rev[p[i]].basedOn = IF i = 1 THEN Nil ELSE p[i - 1]
                 /\ rev[p[i]].workflow = IF i = n THEN "PUBLISHED" ELSE "SUPERSEDED"
                 /\ i > 1 => rev[p[i - 1]].no < rev[p[i]].no

(* Revision numbers are never handed out twice for a draw, by either way   *)
(* of making a draft (unique (draw_id, revision_no)).                      *)
NumbersAreUnique ==
    \A r, s \in Revisions :
        /\ rev[r].draw # Nil => rev[r].no < draw[rev[r].draw].nextNo
        /\ (r # s /\ rev[r].draw # Nil /\ rev[r].draw = rev[s].draw)
              => rev[r].no # rev[s].no

(* Once a draw has a published result its dates are the reviewed dates of  *)
(* that result, and it is not cancelled, however it is patched.            *)
PublishedDrawKeepsReviewedDates ==
    \A d \in Draws : draw[d].current # Nil =>
        /\ draw[d].dates = rev[draw[d].current].dates
        /\ draw[d].phase # "CANCELLED"

(* The read side shows exactly what the ledger shows: withheld draws show  *)
(* nothing, the others their last published result.                        *)
ReadersSeeTheLedger == \A d \in Draws : PublicResult(d) = Ledger!Shown(d)

-----------------------------------------------------------------------------
(* What a step may do.                                                     *)

(* An open draft whose base is no longer the draw's current revision.      *)
Stale(r) ==
    /\ rev[r].workflow \in {"DRAFT", "READY"}
    /\ rev[r].basedOn # draw[rev[r].draw].current

(* A draft left behind stays behind: the pointer never comes back to an    *)
(* earlier revision, so a draft made from one can never be published over  *)
(* what has been published since.                                          *)
StaleIsForever == [][\A r \in Revisions : Stale(r) => Stale(r)']_vars

(* The administrator whose request a step answers.                         *)
Acted(a) == seen[a] # NoPage /\ seen'[a] = NoPage

(* A reviewer approves exactly the content on the page they loaded: an     *)
(* edit in between changes the edit version and the review is refused.     *)
ReviewedAsSeen ==
    [][\A r \in Revisions :
         rev[r].workflow = "DRAFT" /\ rev'[r].workflow = "READY" =>
            /\ seen[rev'[r].reviewedBy].revision = r
            /\ seen[rev'[r].reviewedBy].hash = Hash(rev'[r])]_vars

(* A publisher replaces exactly the result their page showed as current,   *)
(* with exactly the content it showed, under a rule approved at that       *)
(* moment, and leaves the draw visible.                                    *)
PublishedAsSeen ==
    [][\A d \in Draws : draw'[d].current # draw[d].current =>
         LET r == draw'[d].current
             p == rev'[r].publishedBy
         IN  /\ seen[p].revision = r
             /\ seen[p].hash = Hash(rev'[r])
             /\ seen[p].current = draw[d].current
             /\ rule[rev[r].rule] = "APPROVED"
             /\ draw'[d].visibility = "ACTIVE"]_vars

(* A publisher suspends or resumes the result their page showed: a         *)
(* publication in between changes the draw's edit version.                 *)
SuspendedAsSeen ==
    [][\A d \in Draws :
         draw'[d].visibility # draw[d].visibility /\ draw'[d].current = draw[d].current =>
            \E a \in Publishers : /\ Acted(a)
                                  /\ seen[a].draw = d
                                  /\ seen[a].current = draw[d].current]_vars

(* Whenever the statistics of a lottery could count something else, its    *)
(* dataset version is another one; versions never go back.                 *)
DatasetVersionTracksEligible ==
    [][\A l \in Lotteries :
         /\ dataset'[l] >= dataset[l]
         /\ Eligible(l)' # Eligible(l) => dataset'[l] > dataset[l]]_vars

(* A complete result is followed by a partial one only by a revision that  *)
(* says it is a correction.                                                *)
NoSilentDowngrade ==
    [][\A d \in Draws :
         LET old == draw[d].current
             new == draw'[d].current
         IN  /\ old # Nil /\ new # old
             /\ rev[old].payload \in CompletePayloads
             /\ rev'[new].payload \notin CompletePayloads
             => rev'[new].kind = "CORRECTION"]_vars

(* The pipeline implements the ledger it promises: publish enters, suspend *)
(* and resume withhold and release, revocation disqualifies, and no other  *)
(* handler changes anything a reader sees.                                 *)
ImplementsLedger == Ledger!LedgerSpec

-----------------------------------------------------------------------------
(* What the repository says of draws and their handlers do not keep.       *)

(* A revision that passed review carries dates its draw can take on: the   *)
(* rule REQUIRED_WITH_INSTANT of the draw handlers and the CHECK on draw.  *)
(* patch accepts a snapshot with an actual instant and no actual date.     *)
ReviewedSnapshotFitsDraw ==
    \A r \in Revisions : rev[r].workflow = "READY" => rev[r].dates \in DrawDates

=============================================================================
