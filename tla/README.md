# BhagyaRekha: a verification development

TLA+ models of the BhagyaRekha result platform (an API that publishes lottery
results after review, and its web pages), the TLC runs that check them on small
instances, and theorems about them that TLAPS checks for every instance.
`PROJECT.json` is the index: components, runs, the source lines behind every
definition, findings, hazards, theorems.

Contents: [the system](#the-system) · [the modules](#the-modules) ·
[the runs](#the-runs) · [what the code does not keep](#what-the-code-does-not-keep) ·
[the proofs](#the-proofs) · [limits](#limits) · [the plan](#the-plan)

## The system

A pnpm monorepo: a NestJS API over PostgreSQL (`src/apps/api`), a Next.js site
(`src/apps/web`), and shared packages (`src/packages/domain`, pure algorithms;
`src/packages/contracts`, the request and answer schemas).

| Component | State it keeps | Operations | What makes it correct |
|---|---|---|---|
| Publishing pipeline (`modules/publishing`) | `result_revision` and the rows below it, `draw.current_revision_id`, `lottery.dataset_version`, audit events | patch, reopen, review, publish, suspend, resume, create correction | what is public was reviewed as it is, by somebody else; publications form a chain; readers see the last one |
| Draws and rule versions (`modules/admin-catalog`) | `lottery`, `draw`, `rule_version` | create, patch draw; create, approve, revoke rule | published draws keep their reviewed dates; the dataset version follows what statistics count |
| Imports (`modules/imports`) | `import_batch` | preview, create draft | one draft per batch, from a preview that still fits |
| Idempotency (`modules/audit/idempotency.service.ts`) | `admin_idempotency` | run once per actor, operation and key | a retry is answered, never run again; nothing recorded that was not done |
| Public reads (`modules/results`, `history`, `statistics`, `ticket-check`) | none | list, detail, result, latest, search, check, each in one REPEATABLE READ transaction | only what is visible, from one moment |
| Sessions and login (`modules/auth`, `AdminSessionProvider`) | `admin_session`, `admin_user`, counters in memory, the cookie, a session in the memory of each tab | login, resolve, revoke | no session outlives its end, none in use is lost, guesses are bounded |
| Deployment mode (`modules/deployment-mode`, `cli`, `fixtures`) | `deployment_metadata` | initialise, check at start, seed | demo and live never share a database |
| Admin pages (`web/components/admin`) | React state: a copy of a revision, a form, a dialog | load, edit, review, publish | decisions are made on what is shown |
| Public pages (`web/app`, `web/components/check`, `history`) | React state | open a page, search, check a ticket | what is shown is of the ticket, draw and revision it is shown with |
| Domain package | none | compile rules, normalise and evaluate tickets, descriptive statistics | agree with their definitions, whatever is published |
| Health, static pages | none | report, render | (pure input and output) |

**How they interact.** Administrators load a revision or a draw, look at it, and send
a mutation with the *edit version* their page shows (`If-Match`, or
`expectedEditVersion`), publish also with the current revision it showed. The API runs
a mutation as one READ COMMITTED transaction that locks the lottery, the draw and the
revision before reading what it decides on, and writes its audit event in it. Every
such request first passes the session of its cookie and the CSRF token its tab holds.
Readers follow `draw.current_revision_id`. Clients keep statistics by
`lottery.dataset_version`.

**What is hard.** Pages are old when they are acted on; several administrators
work on the drafts of one draw; a rule is revoked under a reviewed draft; the
draw is patched, suspended and resumed meanwhile; copies reach the page out of
order, half old and half new, or not at all; answers are lost after the change was
made. Visitors type and choose while answers to earlier choices are on their way
and results are corrected. Rule sets, imports, edits and reviews are judged by
four pieces of code that must agree with a fifth, the checker. `hazards` in
`PROJECT.json` lists each at its line, with the properties that would notice it
going wrong, or the reason why there is none.

## The modules

    ResultLedger   <-- implemented by --   Publishing   <-- MCPublishing
                                              ^    ^
                                              |   PublishingProofs <-- LedgerProofs
                         handlers and guards, | one instance per call
                                              |
           PublishingTxProofs --> PublishingTx <-- MCPublishingTx
    RevisionPage <-- MCRevisionPage        AdminSession <-- MCAdminSession
        ^                                      ^
    RevisionPageProofs                     AdminSessionProofs

    ResultLedger <-- PublicReads <-- PublicPages <-- MCPublicPages
                                         ^-- PublicPagesProofs
    TicketRules <-- Statistics <-- MCStatistics
         ^              ^
    TicketRulesProofs <-- StatisticsProofs

In the chains at the bottom, and from a module of proofs to what it is about, each module
EXTENDS the one it points to.

### Publishing

The tables and the handlers that change them. A handler is one action, because
its transaction takes its locks before it reads what it decides on; what lies
*outside* the transaction is kept: `seen[a]` is the page an administrator last
loaded, and every mutation with an edit version uses the one on that page,
however old it is.

| Variable | Code |
|---|---|
| `rule` | `rule_version.state` |
| `draw` | the `draw` row: phase, visibility, dates, current revision, next number, edit version |
| `rev` | the `result_revision` row and the categories, entries and evidence below it (`payload`) |
| `batch` | the `import_batch` row |
| `dataset` | `lottery.dataset_version` |
| `published` | the `DRAW_RESULT_PUBLISHED` audit events of a draw, in order |
| `seen` | the page an administrator has open |

| Action | Handler |
|---|---|
| `CreateDraw`, `PatchDraw` | `AdminCatalogService.createDraw`, `patchDraw` |
| `CreateRule`, `ApproveRule`, `RevokeRule` | `createRule`, `approveRule`, `revokeRule` |
| `Preview`, `CreateDraft` | `ImportsService.preview` (with `validateImport`), `createDraft` |
| `CreateCorrection` | `PublishingService.createCorrection` |
| `Patch`, `Reopen`, `Review`, `Publish`, `SetVisibility` | `patch`, `reopen`, `review`, `publish`, `setVisibility` |
| `LoadDraw`, `LoadRevision` | `GET /admin/draws`, `GET /admin/revisions/:id` |

Data is abstracted to what the handlers distinguish. A result's categories,
amounts, entries, evidence and completeness are one member of `Payloads`, of
which some satisfy the publication invariants (`PublishablePayloads`) and some are
COMPLETE; a snapshot of dates is a member of `Dates`, of which some satisfy the
CHECK constraints of the draw table (`DrawDates`). The content hash is the triple
of what it covers, so it is exact where SHA-256 is practically so. Roles:
`Publishers` is a subset of `Admins`, every one at least an EDITOR.

### ResultLedger

What the pipeline promises its readers, in four operations: a result *enters* the
append-only ledger of its draw (which also releases it), a draw is *withheld* and
*released*, and a lottery's data is *disqualified*; each advances the version of
the lottery. `Publishing` is shown to implement it under
`ledger[d] <- the published revisions with their content`,
`withheld[d] <- visibility = SUSPENDED`, `version <- dataset`. It says more than
any single invariant: an entry, once made, is never altered, for the content in
the mapping is read from the rows as they are now.

### PublishingTx

The transactions inside the eleven mutations that `Publishing` takes as single
steps: `patch`, `reopen`, `review`, `publish`, `suspend`, `resume`, create
correction (`correct`), `patchDraw`, `approve`, `revoke`, `createDraft`.

| Variable | Code |
|---|---|
| `rule`, `draw`, `rev`, `batch`, `dataset`, `published` | the committed rows, as in `Publishing` |
| `sent` | requests, each with the page it was made from; delivered any number of times, at any time |
| `record` | `admin_idempotency`: the requests carried out under a key |
| `tx[c]` | a call of the API: its request, how many locks of its plan it holds, the rows it has read |

| Action | Statements |
|---|---|
| `Send`, `Begin` | `adminRequest`; the controller calls the service, a transaction begins |
| `Lock` | the next lock of `Plan`: `pg_advisory_xact_lock`, then `SELECT ... FOR UPDATE` of batch, lottery, draw, revision or rule; a row is read as it is locked |
| `Replay`, `KeyConflict`, `StartWork` | what `IdempotencyService.run` finds under its key |
| `Accept`, `Refuse` | the guards, on the rows as read, and the reads without a lock (rule version, current revision, open drafts) |
| `Commit` | the writes, from the rows as read, and the record of the key |
| `Break` | a connection lost, `statement_timeout`, a restart: rollback at any statement |

The guards are those of `Publishing`, instantiated per call on the rows as that
call knows them (`View(c)`); what a commit writes is spelled out column by column
from the stale or fresh row the call holds. `HandlersAreAtomic` then says that
such a commit *is* a handler step of `Publishing` on the committed rows
(`Handlers(c)`), which is what entitles `Publishing` to its atomic actions.

A behaviour begins in one of `Starts`, rows of which `Sound` holds: they are those of a
state of `Publishing` (its types, whole rows, pointers that agree), and the rule of a
revision or of a batch is a rule of the lottery of its draw, which `preview` sees to.

"All public-data/rule mutations acquire the affected lottery row first", says the
low-level design (5.3); `patchDraw` locks the draw alone, and the model has it so.
It is harmless as the handlers stand: the lock of the draw is enough for
`HandlersAreAtomic`, and nobody waits for ever (`EveryCallEnds`), which would not
survive a repair that took the lottery after the draw.

What is assumed of PostgreSQL: READ COMMITTED (the code sets no other level for
mutations), a `FOR UPDATE` that waits and then reads the row as last committed,
an `UPDATE` that waits for a lock holder, locks kept to the end of the
transaction, and waiters served in order. Reads without a lock are put at one
moment, the decision. Left out: the KEY SHARE locks of foreign keys (on rows the
transactions already hold or that are locked after their lottery), advisory locks
that collide in `hashtext` (they make strangers wait, in the same place of the
order), and `createDraw`, `createRule`, `preview` and the reads, which change or
lock nothing these transactions decide on. `createCorrection` has no key: a late
duplicate of its request may create a second correction once the first is
published. That is what the code does, and the model lets it.

### RevisionPage

One administrator's page of one revision (`RevisionDetail.tsx`), the GET and the
mutations behind it, and `Elsewhere` for everybody else.

| Variable | Code |
|---|---|
| `row` | the revision: edit version, state, manifest, entries |
| `replay` | the `admin_idempotency` row of its publication |
| `page` | `rev`, the edit form, the dialog and its key, the failure banner |
| `loads` | calls of `load()` in flight, each with as much of the answer as the API has read |
| `request` | the mutation in flight; `busy` |
| `table` | `entries`, and the effect that fetches them |

`RevisionReadService.get` runs several statements outside a transaction, so a load
reads the row's head first and the rows below it later (`ReadLoad` twice), and
others may save in between. Loads are delivered in any order or lost. A mutation
is carried out (`Accept…`), refused (`Refuse`), or answered from its record
(`Replay`); its answer is delivered, or lost before or after it was carried out
(`Lost`). The patch answer is read after its transaction (`ReadAnswer`).
`opened`, `base` and `saw` in requests and forms are history: no guard reads them.

### AdminSession

Administrators' sessions from the tabs of one browser to the rows of the table,
with the login throttle. A request runs through the statements of
`AdminSessionService` one at a time.

| Variable | Code |
|---|---|
| `now` | the clock of the API, in ticks no longer than the write interval |
| `user` | `admin_user`: `disabled`, `auth_version` |
| `session` | `admin_session` rows |
| `bucket` | the buckets of `LoginThrottle`, per account and per address |
| `cookie` | the one session cookie of the browser |
| `tab` | `AdminSessionProvider` and `LoginForm` of each tab, which keep the session and its CSRF token in memory |
| `call` | requests under way, with what they have read |
| `used`, `ended` | history: last use of a session; sessions revoked or left behind by `auth_version`. `shows` in `call` is history too: the session the tab showed when it sent the request |

| Action | Code |
|---|---|
| `Reload`, `SubmitLogin`, `SubmitLogout`, `Act` | mounting the provider, `LoginForm.submit`, `logout`, any guarded request |
| `BeginLogin`, `FailLogin`, `OpenSession` | `login`: throttle and account; failure counted; session opened. The password is verified in between |
| `ReadSession`, `ReadUser`, `WriteSeen` | the three statements of `resolve`; the last two go on to `CsrfGuard` (`Admit`) |
| `Revoke` | the statement of a sign-out's handler |
| `Deliver`, `Lose` | an answer sets the cookie and reaches its tab, or a connection breaks |
| `Tick`, `SetDisabled`, `BumpAuth` | the clock; an operator at the database |

`Delay` bounds how long the server may work on a request. It lets `KeptWhileUsed`
say by how much a session's idle time may fall short: the write interval or that
delay, whichever is longer.

`ActsForWhomItShows` compares what is carried out with `shows`, which no guard reads.
That a tab sends the token of the session it shows (`Token`), and that the guard
compares it with the cookie's (`CsrfMatches`), are the two halves of why it holds; its
mutant is a token kept where all tabs have it, which the guard would let through.

### TicketRules and Statistics

`Publishing` takes a result's content as one value. `TicketRules` takes it apart:
one draw, one rule version, and the pieces of code that judge manifest rows and
entries, in the order in which a result meets them.

| Definition | Code |
|---|---|
| `Compiles` | `compileRuleSet`: repetitions, suffixes, series, exclusions, first prizes |
| `ValidImport` | `validateImport` on the rows of every category |
| `EntryFits`, `PatchCategory`, `ReplaceEntries`, `PatchCompleteness` | `patch` (which, unlike the import, does not look at first digits) |
| `Publishable` | `assertPublishable`, at review and at publication |
| `InDomain`, `Candidates`, `LookedUp`, `Evaluate` | the ticket check: domain, lookup by candidate numbers, `evaluateTicket` |

The reference definition of a check is two lines (`Expected`, and the best of
`Winners`): it looks at every entry and knows neither candidates nor exclusions.
`ChecksFollowTheRules` compares the two for every ticket and every result that a
sequence of imports, edits, reviews and publications produces. `excludedBy` turns
out never to change a verdict: compilation lets a category be excluded only by one
of higher priority, which wins anyway.

`Statistics` adds `selectEligible`, over the draw of `TicketRules` and an archive of
draws that are eligible, cancelled, withheld and of a revoked rule, and the
descriptive figures: pairs of equal numbers, position counts, and the runs of
consecutive digits, in the code a loop with a length and a direction, against three
neighbouring digits that rise or fall by one.

### PublicReads and PublicPages

`PublicReads` EXTENDS `ResultLedger`: what administrators do in it are the operations
of the ledger, which `Publishing` implements, with cancelled draws and revoked rules
beside it. A reader sees a revision only through the draw's pointer; that this shows
the ledger is what `ReadersSeeTheLedger` checks in `chain`.

| Variable | Code |
|---|---|
| `ledger`, `withheld`, `version`, `cancelled`, `revoked` | the rows readers read |
| `call` | requests under way: what they ask, what their first statement saw, what the page showed when it asked |

| Definition | Code |
|---|---|
| `DrawList`, `DrawDetail`, `Result`, `Latest` | `ResultReadService.listDraws`, `getDraw`, `getResult`, `latest` |
| `Search`, `Check` | `HistoryService.search`; `TicketCheckService.check` with its refusals in their order |
| `Begin`, `Finish`, `Fail` | the first statement in `withReadSnapshot`; the later ones and the answer; a failure |
| `Publish`, `Suspend`, `Resume`, `Revoke`, `Recall` | what administrators do meanwhile |

An answer is computed from two views of the tables: the one the first statement
saw, and the one later statements see. REPEATABLE READ makes them equal
(`SeenLater`), which is what `AnswersAreOfOneMoment` rests on.

`PublicPages` has the pages that put several answers together:

| Variable | Code |
|---|---|
| `open` | the page the browser has open |
| `checker` | `TicketChecker`: lottery, draws, draw, detail, ticket, outcome |
| `search` | `HistoryNumberSearch` |
| `page` | the page of one result (`getDraw`, then `getResult`), or the home page (`getLatest`, then `getDraw`, and the form made from it) |

| Action | Code |
|---|---|
| `ChooseLottery`, `ChooseDraw`, `TypeTicket` | `onLotteryChange`, `onDrawChange`, the inputs; each clears or aborts the outcome (`Invalidated`) |
| `Submit`, `CheckAgain` | `submit`; `onCheckAgain`, a new detail and a new check at once |
| `DeliverDraws`, `DeliverDetail`, `DeliverCheck` | answers to calls that were not aborted |
| `EditSearch`, `SubmitSearch`, `TurnPage`, `DeliverSearch` | `HistoryNumberSearch` |
| `OpenResult`, `DeliverHead`, `DeliverResult` | `ResultPage` |
| `OpenHome`, `DeliverLatest`, `DeliverHome` | `HomePage`; without the detail of the latest draw it has a card and no form |

The form of the home page shows its draw in place of the selects as long as it has the
draw's detail (`fixedDraw && detail`, `TicketChecker.tsx:239`). When "check again" fails
to load the detail, the selects come back, and another lottery or draw may be chosen:
`Selecting` is that condition. A form whose format allows no series would blank the
series before it is sent (`:148`); there is no such format, for `rules.ts:42` and the
CHECK `rule_version_domains_chk` ask for at least one, and the model leaves it out.

### MC modules

`MCPublishing`, `MCPublishingTx`, `MCRevisionPage`, `MCAdminSession`, `MCStatistics`
and `MCPublicPages` give functions, data and symmetry sets to the configurations.
`MCPublishingTx` also gives the rows to begin with, states `Publishing` reaches, with a
batch that is ready, an approved and a drafted rule: a draw without a result and two
reviewed imports, or a draw with a result and no open revision. Revisions, batches and rules are interchangeable always, administrators
where all are publishers, and the tabs and requests of a browser; parts, values and
lists of a manifest are data. The runs with liveness use no symmetry.

## The runs

| Run | Instance | Shows |
|---|---|---|
| `review` | 1 draft, 2 publishers, 3 payloads (one unpublishable), self-review off, 5 edits | `TypeOK`, `ReviewCoversContent`, `FourEyes`; `ReviewedAsSeen`, `PublishedAsSeen`, `SuspendedAsSeen` |
| `chain` | 3 revisions of 1 draw, 2 imports and corrections, complete and partial, 2 dates | `PublicationsFormAChain`, `NumbersAreUnique`, `ReadersSeeTheLedger`, `CurrentIsPublished`, `PublishedDrawKeepsReviewedDates`; `ImplementsLedger`, `NoSilentDowngrade`, `StaleIsForever`, `DatasetVersionTracksEligible` |
| `page` | 4 versions, 2 values, 2 lists of entries, 1 load in flight besides the mutation | `FreshPageIsExact`, `FreshTableIsExact`; `DecidedAsShown`, `OwnFormLosesNothing`, `PublishedStays` |
| `tx_handlers` | 2 calls at once, all 11 operations, 3 revisions, 3 requests from pages of any age, 1 key, both starts | `OneKeyOneRequest`; `HandlersAreAtomic`, `DoneIsNeverRefused` |
| `tx_ends` | 2 calls, 4 operations with different chains of locks, 2 requests | `EveryCallEnds` |
| `sessions` | 2 tabs, 1 account, 2 sessions, 4 requests, 2 at a time, idle end 3, absolute end 4 | `TypeOK`, `GuessesBounded`; `EndedStaysOut`, `LetInWhileLive`, `KeptWhileUsed`, `ActsForWhomItShows` |
| `readers` | 4 pages, 2 draws, 2 rules of different ticket formats, 3 requests (8 of the home page), 2 changes by administrators | `TypeOK`, `OutcomeIsOfShownTicket`, `VerdictOfShownRevision`, `ChecksFitTheirDraw`; `AnswersAreOfOneMoment`, `FormComesBack` |
| `rules` | 4 rule sets (series, suffix, exclusions up and down, two first prizes), all imports of up to 2 of 6 entries, 2 edits, 2 publications, 7 tickets | `ChecksFollowTheRules`, `ImportsNeedNoRepair`, `FiguresAreExact`; `UpdatesNeverTakeBack` |
| `snapshot`, `lost_update`, `mixed_page`, `tail_figures` | small instances | one statement of the repository each, violated |

**Why the bounds are enough.** `MaxRevisionVersion` and `MaxDrawVersion` stop edit
versions. A lost review needs a review, a reopening, an edit and a review again, four
versions of one revision: `review` allows six. In a race two drafts are made from one
base, one is published and the other is left behind; a third, made after that,
corrects the published one. `chain` has the three revisions and the draw versions for
it, and no more: no draw is published a third time there, which the theorems about
chains and numbers cover. One load in flight is enough for copies that overtake each
other, for the answer to a mutation carries a copy too; the theorem about
`FreshPageIsExact` holds for any number of loads. Two calls at once suffice for the
transactions: a lost update, a stale guard or two calls that wait for each other need
no more, and a cycle of three would need three different orders of locks, where the
handlers have one and `patchDraw` a single lock; three requests let the second call
meet rows that a third has prepared (a suspension before a resumption, a reopening
before an edit), and one key is enough for two requests to share it. The two starts
let two publications, or two corrections, compete; a third revision is for the draft
or the correction that is made. A copy of a
request costs no request, for deliveries are free. Every property of a passing run is
violated, under the same bounds, by a plausible fault in the code: the operators whose
comment begins with "Mutation of" are those faults. One draw and one lottery suffice
for TLC because no handler relates two draws except through `dataset`, and the
theorems hold for any number of each.

For a session to come back from its end it takes a request that read it before: two
requests at a time and one account suffice, and four requests allow a sign-in, two
uses and a sign-out in any order around two ends that differ by one tick. A page of
the public site meets three answers: two that race, and a third for a later choice;
two changes of the database are a publication and its correction, or its
withdrawal. The home page shows its selects only after five requests (two to render
it, a check, and a check again whose detail fails); eight let a new lottery, draw and
check follow. The two draws have one lottery, so that one can be taken for the other,
and may have results under rules of different ticket formats, so that it matters.
Two entries are enough for a category that loses to another, and for one that a
lookup by candidates misses; four digits are the fewest in which a run of three can
begin where another ended.

What one run cannot show another does. With the one revision of `review` a publication
replaces nothing, so that the part of `PublishedAsSeen` about the replaced result is
exercised by its theorem (`PublicationsAreAsSeen`), for any number of revisions. A
publication is one step of `Publishing`: `CurrentIsPublished` and `ReadersSeeTheLedger`
notice a statement of it that is forgotten, and that its statements are not seen apart
is `HandlersAreAtomic`, in `tx_handlers`. The inputs of the ticket check are locked
while a check is under way, so `OutcomeIsOfShownTicket` is less about answers that come
late than about edits after them, and about check-agains, which a shown outcome allows.

**Deadlock** is checked in the runs of `Publishing`, `PublishingTx` and
`RevisionPage`: pages can always be loaded again, and requests delivered again. The
other models stop when their clock, requests, changes or publications are used up,
and their configurations say so. That calls do not wait for each other is not left to
TLC's deadlock check, which new requests would hide, but is `EveryCallEnds`.

**Fairness.** `EveryCallEnds` assumes that the database answers every statement
(weak fairness of the steps that cannot wait) and serves those who wait for a lock
in the order they came (strong fairness of `Lock` and `Commit`), as PostgreSQL's
lock queues do. Nothing is assumed of `Begin` and `Send`, nor of `Break`: neither
the deadlock detector nor `statement_timeout` is counted on to end a wait.

`FormComesBack` assumes that a request to the API is answered or fails, and that an
answer that has arrived is taken (`Fairness` of `PublicPages`). The client's `fetch`
has no timeout of its own (`client-api.ts`); a browser gives up a connection in the
end, which is a failure like any other. Nothing is assumed of visitors or
administrators.

## What the code does not keep

Four statements of the repository are violated by what the code does, each in a run
whose trace shows it.

- **`snapshot`**: `patch` accepts a snapshot with an actual instant and no actual
  date, review passes it, and the CHECK `draw_actual_requires_date_chk` refuses
  it when it is published. A reviewed revision cannot be published until it is
  reopened and edited.
- **`lost_update`**: a save refused with 409 offers a reload. The reload brings the
  newest edit version and leaves the form as it was; the next save sends the old
  values with the new version, and every category somebody else changed is put
  back. `OwnFormLosesNothing` is what remains true: a form opened on the version
  it is sent with loses nothing.
- **`mixed_page`**: the page of a result asks for the draw, then for the result, and
  does not name the revision of the first in the second (`page.tsx:184`), although
  the API would refuse the mixture with RESULT_CHANGED and the page has a notice for
  it. A correction in between puts one revision's heading and first prize above
  another's numbers.
- **`tail_figures`**: `compileRuleSet` lets first prizes be matched by suffix, as
  long as all of them are. The numbers observed are then as long as the suffix,
  `computeDescriptiveStatistics` throws, and the lottery has no statistics for any
  period with such a draw.

Seen while reading, without a run:

- A published draw can be patched back to SCHEDULED or POSTPONED: `patchDraw`
  refuses its dates and CANCELLED only, where publish sets HELD because "A published
  result implies the draw took place" (`publishing.service.ts:207`).
- A draft overtaken by another publication should be rebased or discarded
  (`publishing.service.ts:188`, `:264`; low-level design 5.3); no operation does
  either, and while it is open `createCorrection` refuses. `StaleIsForever` is the
  other side of it, and a theorem.
- A request that fails on the network is reported with "Nothing was changed."
  (`en.ts:464`), also when only its answer was lost. For `logout` the answer is not
  even looked at: the tab shows nobody signed in, while a sign-out refused for its
  CSRF token leaves the session of the cookie alive.
- `ImportAdmin` does not guard against late answers: draws and rules of a lottery
  chosen earlier are offered under the one chosen now (`:60`), and a page of an
  earlier preview replaces a newer one (`:149`).
- `HistoryNumberSearch` turns pages with the inputs as they are by then.
- `patch` accepts full numbers whose first digit the rule does not allow, which
  `validateImport` refuses; no valid ticket has them.
- A result labelled PARTIAL in which every category is COMPLETE can be published,
  although `enums.ts:49` describes PARTIAL as "at least one configured category is
  not complete".
- `preview` saves its batch and its audit event as two statements outside a
  transaction; a failure in between leaves a batch without a trace in the audit log.
- `seed-demo` says "Idempotently" (`:42`), but suspends again a fixture draw that
  was resumed, without advancing any version.

## The proofs

| Module | Theorem | States |
|---|---|---|
| `PublishingProofs` | `TypeCorrect` | `TypeOK` |
| | `PointerAgrees` | `CurrentIsPublished` |
| | `ReviewedContentOnly` | `ReviewCoversContent` |
| | `FourEyesAlways` | `FourEyes` |
| | `NumbersNeverRepeat` | `NumbersAreUnique` |
| | `PublicationsAreAChain` | `PublicationsFormAChain` |
| | `LeftBehindForGood` | `StaleIsForever` |
| `PublishingTxProofs` | `CommitsAreHandlers` | `HandlersAreAtomic` |
| | `TxInvariant` | its invariant, `TxInv` |
| | `KeysStandForOne` | `OneKeyOneRequest` |
| | `DoneStaysDone` | `DoneIsNeverRefused` |
| `LedgerProofs` | `PipelineImplementsLedger` | `ImplementsLedger` |
| | `ReviewedDatesStand` | `PublishedDrawKeepsReviewedDates` |
| | `ReadersAreShownTheLedger` | `ReadersSeeTheLedger` |
| | `VersionsTellResultsApart` | `DatasetVersionTracksEligible` |
| | `ReviewsAreAsSeen` | `ReviewedAsSeen` |
| | `PublicationsAreAsSeen` | `PublishedAsSeen` |
| | `SuspensionsAreAsSeen` | `SuspendedAsSeen` |
| | `DowngradesAreCorrections` | `NoSilentDowngrade` |
| `AdminSessionProofs` | `TypeCorrect` | `TypeOK` |
| | `EndedStayOut` | `EndedStaysOut` |
| | `LetInOnlyWhileLive` | `LetInWhileLive` |
| | `SessionsInUseAreKept` | `KeptWhileUsed` |
| | `ActorIsShown` | `ActsForWhomItShows` |
| | `ThrottleHolds` | `GuessesBounded` |
| `RevisionPageProofs` | `PagesAreExact` | `FreshPageIsExact` |
| | `TablesAreExact` | `FreshTableIsExact` |
| | `DecisionsAreAsShown` | `DecidedAsShown` |
| | `OwnFormsLoseNothing` | `OwnFormLosesNothing` |
| | `PublishedForGood` | `PublishedStays` |
| `PublicPagesProofs` | `PagesAreTyped` | `TypeOK` |
| | `OutcomesAreOfTheForm` | `OutcomeIsOfShownTicket` |
| | `VerdictsAreOfTheRevision` | `VerdictOfShownRevision` |
| | `ChecksAreOfTheirDraw` | `ChecksFitTheirDraw` |
| | `AnswersNameOneMoment` | `AnswersAreOfOneMoment` |
| | `PagesInvariant` | their invariant, `PagesInv` |
| `TicketRulesProofs` | `ChecksAreCorrect` | `ChecksFollowTheRules` |
| | `ImportsAreReviewable` | `ImportsNeedNoRepair` |
| | `AnswersOnlyImprove` | `UpdatesNeverTakeBack` |
| | `RulesInvariant` | their invariant, `RulesInv` |
| `StatisticsProofs` | `FiguresAreCorrect` | `FiguresAreExact` |
| | `EntriesAreListed` | what the figures are made of |

Every invariant and every action property of a passing run is the statement of a
theorem; liveness is not.

**What is assumed of the constants**, and evaluated by TLC in every run of the module
that says it:

| Module | Assumption | Says |
|---|---|---|
| `Publishing`, `RevisionPage` | `IdentifierAssumption`, `CatalogueAssumption`, `NilAssumption`, `BoundAssumption` | `Nil` is not an identifier, a date, a content or the key of a record; functions have their types; bounds are numbers |
| `PublishingTx` | `IdentifierAssumption`, `CatalogueAssumption`, `RequestAssumption` | the same of its constants; requests name operations and phases there are |
| `AdminSession` | `LivesAssumption`, `KeysAssumption`, `NoneAssumption` | times, limits and bounds are numbers, the idle time and the limits not 0, the requests at once finitely many; the key of the address is no account; no row is `None` |
| `PublicReads`, `PublicPages` | `ReadsAssumption`, `LinkedAssumption`, `RequestsAssumption` | draws have a lottery and an order; at least three requests may be under way, all that a page ever has; links name draws; bounds are numbers |
| `TicketRules` | `RuleSetsAssumption`, `EntriesAssumption` | codes are not `Null`, priorities are numbers; lists of entries are finite and of digits |
| `Statistics` | `ArchiveAssumption` | the archive is finite, of other draws, and its results of digits |

`RowsAreWhole`, which no run lists, is part of the invariant that `TypeCorrect` and its
neighbours rest on.

**Publishing.** The steps are first described row by row: `RevisionRows` says that a
step leaves a revision as it is, or inserts, patches, reopens, reviews, publishes
or retires it, and `DrawRows` does the same for draws. Everything else is a case
split on that. `Inv` is `TypeOK`, `RowsAreWhole`, `CurrentIsPublished`,
`ReviewCoversContent` and `FourEyes` together: a retired revision is the one the
pointer names, so types need `CurrentIsPublished`; the pointer needs rows that are
whole; review coverage needs the stored hash to be that of the rows, which is
`RowsAreWhole`. `NumbersAreUnique` and `BaseIsEarlier` (a base is numbered before
what is based on it) are then inductive relative to `Inv`, and give the chain.
`StaleIsForever` needs `BaseWasPublished`: what a draft is based on was published,
and a published revision is not published again, so the pointer cannot return.

**The keys.** Neither property is inductive. `KeysInv` adds that a call at work on a
keyed request holds the lock of its key and has found no record under it
(`WorkersFoundNothing`), and that no two calls hold one key (`KeysAreExclusive`).
Only a call at work makes a record, so the record of a key cannot appear while
another works under it; and a refusal comes from a call at work, so its request
has not been carried out. Nothing is said of the shape of rows and requests
(`TxShape` quantifies over it): the argument is the lock's, for any handler.

**The transactions.** `TxInv` is the argument for the locks, written down. A call that
has passed a lock of its plan holds it, and nobody else does (a plan is a sequence of
different locks, in the order of `Plan`; a commit or a break gives all of them back).
Rows change only in commits, and a commit changes only rows that are locked by its
call: so what a call has read of a row it holds is what is committed, until it ends
(the rows of a call under way are as it knows them). What a decision reads *without*
a lock (the rule version of a revision, the open drafts of a draw, the current
revision) changes only under a lock the call holds, the lottery's or the draw's; this
is where `Sound` is needed, for the rule must be one of the lottery that is locked, and
it is why `patchDraw`, which locks the draw alone, does no harm. So a decision still has
its grounds when it is committed, and `CommitIsAStep` maps each of the eleven commits
to its handler: guard by guard, and column by column.

**The refinement.** `SoundIsInvariant` collects what the mapping needs; `StepMaps`
shows each step to be a step of the ledger or a stutter. The substance is
`EnteredHashStays`: rows in the audit trail are PUBLISHED or SUPERSEDED, and no
step changes what their hash covers.

**Decisions.** Nobody decides on a row they have locked, but on a page.
`PagesAreHonest` says of every page that it is no newer than its rows, and exact if it
is as new: true because every handler that moves a pointer or changes content advances
the edit version (`DrawVersions`, `RevisionVersions`; `publish` retires a revision
without advancing its version, and changes nothing a page says of it). A request that
passes the comparison of versions is then about what its page showed. What is left is
that only `review` makes a revision READY, only `publish` moves a pointer and, where
it stays, only `setVisibility` withholds a draw.

**Readers.** A draw keeps its dates and stays out of CANCELLED until another revision
brings its own (`DatesMove`), and a published revision keeps what it has. With the
chain, the row a reader follows is then the last of the audit trail. The dataset
version is about three rows in two tables: `RulesFit` says that revisions, and
previews that are ready, name rules of their own lottery that are approved or revoked;
so none becomes approved a second time, and the lottery whose version `revokeRule`
advances is the one whose statistics lose a draw. `ResultMoves` and `RuleMoves` cover
the rest: what a step leaves uncounted or counts anew, it announces.

**Sessions.** `EndedIsEnded`: what has ended is revoked, or behind the auth_version of
its account, which only grows; a request that read a row after its end read one that
was behind, so the account, read next, refuses it. `EndsFollowUses`: no idle end is
later than the idle time after a use, and a request at work began before both ends.
`UsesAreKept` is the converse: the time of last use in a row lags behind the last use
by no more than the write interval, or the time a request takes, as two writes may
arrive in the wrong order; what a request read of that time still stands, or was
overwritten by a request that began not long before. For the throttle, a login begins
only while the count is below the limit, and a failure turns one login being verified
into one counted; so the count and the logins being verified together stay within the
limit and the number of requests at once. Whom a tab acts for is a matter of tokens
(`TokensFit`): an unsafe request on its way or at work carries the token of the session
its tab showed when it was sent, whatever the tab shows by now. `CsrfGuard` lets it pass
only if that is the session of its cookie, and the cookie names the session that
`Revoke` ends. No other step revokes one (`OnlyRevokeRevokes`): a use that is written
late changes two other columns.

**The page.** `PageInv` says of every copy of the revision, shown, on its way or half
read, that it is no newer than the row and, if its head is as new as the row, equal
to it (`GoodCopy`), and of a request still on its way that it is as good as the copy
it was made from. The order of the reads is what makes it inductive: a manifest is
read after the head, so a copy whose head is up to date has the newest manifest. A table of entries is fetched by an effect of its own: it is exact
once its fetch has come back, because a version that is newly shown starts a fetch of
its own in place of the one before (`TablesAreExact`). For `OwnFormsLoseNothing` a form
is what its page showed, apart from what was typed over, and the page was exact at the
version it is sent with. `PublishedForGood` needs the record of the key, `KeptInvariant`:
a publication that has been carried out is never carried out again.

**The pages of visitors.** Every property there is about two answers that race.
`PagesInv` has three parts. *One of a kind*: at most one request of each kind is under
way that the page still waits for (the two requests of a two-step page are one kind). *It belongs to the form*:
the request that is waited for was sent with what is in the form now, or, for the
two-step pages, with what the first answer showed. *Answers are honest*: what is on
the page is what the whole database said at a moment between the request and the
answer, for the later statements of a read see what its first one saw. That there is
always a free slot for a request is a counting argument (a page has at most three,
`ReadsAssumption`); that `latest` is the first of the draws in order needs a least
element of a set of numbers, for which `WellFoundedInduction` is used.

**Rules and checks.** `RulesInv`: what is ready or public, and what was imported and not
edited since, passes the publication checks under approved rules, which compile
(`ValidIsPublishable` is what makes the two validators one). Compiled rules are well
ranked: codes and priorities name one category each, and exclusions point to higher
priorities. So the best match is excluded by none (`AwardIsBest`), and `excludedBy` never
decides. The candidates by which entries are looked up contain the number of every entry
that can match (`LookupMissesNothing`). Together (`EvaluatedAsItIs`) they say what the
evaluator answers about *any* publishable result, of which `ChecksAreCorrect` and
`AnswersOnlyImprove` are two uses.

**Figures.** Sums and the loop over digits are recursive functions, and what they compute
for every input takes induction. The induction theorems of the library have an operator
as parameter, which the provers cannot instantiate; `NaturalSets` and `SubsetsOfFinite`
say the same of sets, from the existence of a least counterexample, and can be cited.
With them: the recursive functions exist (`SumExists`, `RunsExist`), the sizes of
disjoint parts add up to that of their union (`SizesAddUp`), n things make n(n-1)/2 pairs
(`PairsCounted`), and the loop is in a run of at least two exactly where the digits step
by one, in the direction of the step (`RunsAreOfTheStep`), so that a run of three is found
if and only if it is there (`RunsAreFound`).

**Model-checked only**: `EveryCallEnds` and `FormComesBack`, for liveness under fairness is
outside what the prover does; and the four properties of `snapshot`, `lost_update`,
`mixed_page` and `tail_figures`, which are violated. The inductive invariants themselves
are not listed in a run where they quantify over all shapes a row can have (`RulesInv`,
`TxInv`), which TLC cannot enumerate; their proofs stand alone.

## Limits

- A handler of `Publishing` is one step. That rests on the locks it takes, which
  `CommitsAreHandlers` proves for any number of calls, given what is assumed of
  PostgreSQL above; `createDraw`, `createRule` and `preview` are not among them.
- The audit trail is modelled as far as readers of a draw's history see it (the
  publications); the text of audit events is not.
- `createLottery` and `patchLottery` change nothing the properties relate; the list of
  lotteries and the pending draw of `latest` show no result.
- `AdminSession`: the cookie's own lifetime, the password hash and the roles are left
  out; one reading of the clock and the statement after it are one step; restarts,
  which empty the throttle, are not modelled.
- `PublicReads`: a page of a search holds one match, dates are one more choice of
  draws, the entries of a category are a set. `PublicPages`: the address of the check
  page names a draw of `Linked`.
- `TicketRules`: one draft at a time, with all of its rows; who may do what, and when,
  is `Publishing`. CSV and JSON parsing is abstracted to the rows it yields.
- The reason of a correction is not covered by the content hash, and not modelled.
- In `RevisionPage` the page is not left while a mutation is in flight, the
  category and page of the entries table stay, and a review or a publication may be
  refused for reasons outside the module (the rule, the draw).

## The plan

All but the last are done.

1. `Publishing`, `ResultLedger` and their proofs.
2. `RevisionPage` and its proofs.
3. `PublishingTx`, with the idempotency records, and the proofs about its keys.
4. `AdminSession`, with the login throttle.
5. `PublicReads` and `PublicPages`: readers' transactions and the pages over them.
6. `TicketRules` and `Statistics`: the domain package under the pipeline.
7. The proofs about decisions, readers and sessions.
8. The proofs about transactions, visitors' pages, rules and figures.
9. Still open: the order of the locks as an invariant of `PublishingTx` (no two calls wait
   for each other, the safety part of `EveryCallEnds`); the refinement of the ledger by the
   transactions, composed from `CommitsAreHandlers` and `PipelineImplementsLedger`.

**Not modelled**: the import and catalogue forms of the administrators, which follow
the protocol of `RevisionDetail` without its dialogs (the late answers of
`ImportAdmin` are described above); start-up, seeding and the command line tools,
which run once before requests are served; health and the pages that render one
answer.
