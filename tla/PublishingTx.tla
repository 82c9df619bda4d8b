---------------------------- MODULE PublishingTx ----------------------------
(***************************************************************************)
(* The transactions inside the handlers that Publishing takes as one step. *)
(*                                                                         *)
(* A request lies on the wire for any time, and may be delivered again by  *)
(* whoever got no answer.  Each delivery is one call of the API: one       *)
(* PostgreSQL transaction, READ COMMITTED, that locks a key and rows one   *)
(* after another, reads each row as it locks it, looks at other rows       *)
(* without a lock, decides, and writes.  It may be broken off anywhere (a  *)
(* lost connection, statement_timeout, a restart of the API), which rolls  *)
(* it back.  Nothing it writes is seen before it commits.                  *)
(*                                                                         *)
(* What the module asks: do these locks make every call one handler step   *)
(* of Publishing, taken on the page its request was sent from?  Do calls   *)
(* wait for each other for ever?  Is a request with an Idempotency-Key     *)
(* carried out once, and answered the same from then on?                   *)
(*                                                                         *)
(* An operator whose comment begins with "Mutation of" is a plausible bug  *)
(* in the operator that follows it, as in Publishing.                      *)
(***************************************************************************)
EXTENDS Naturals, Sequences, FiniteSets

CONSTANTS
    Lotteries, Draws, Rules, Revisions, Batches, Admins, Publishers,
    LotteryOf, RuleLottery, CompilableRules, Dates, DrawDates, Payloads,
    PublishablePayloads, CompletePayloads, AllowSelfReview,
    MaxRevisionVersion, MaxDrawVersion, Nil,     \* as in Publishing
    Calls,             \* the calls the API has under way at most
    Keys,              \* values of the Idempotency-Key header
    Operations,        \* the operations that are requested, a subset of AllOperations
    Starts,            \* rows to begin with: [rule, draw, rev, batch, published]
    PatchPhases,       \* the phases a patch of a draw asks for
    MaxSent            \* bound: requests sent

VARIABLES
    rule, draw, rev, batch, dataset, published,  \* committed rows, as in Publishing
    sent,              \* the requests sent so far
    record,            \* the requests admin_idempotency remembers
    tx                 \* tx[c]: the transaction of a call

rows == <<rule, draw, rev, batch, dataset, published>>
vars == <<rows, sent, record, tx>>

OnRevision == {"patch", "reopen", "review", "publish"}
OnDraw == {"suspend", "resume", "correct", "patchDraw"}
OnRule == {"approve", "revoke"}
Keyed == {"publish", "suspend", "resume", "approve", "revoke"}
AllOperations == OnRevision \cup OnDraw \cup OnRule \cup {"createDraft"}

(* The page of a request that names no version.                            *)
Unseen == [draw |-> Nil, drawVersion |-> 0, current |-> Nil,
           revision |-> Nil, revisionVersion |-> 0, hash |-> Nil]

ASSUME IdentifierAssumption ==
    Nil \notin Draws \cup Rules \cup Revisions

ASSUME CatalogueAssumption ==
    /\ Publishers \subseteq Admins
    /\ LotteryOf \in [Draws -> Lotteries] /\ RuleLottery \in [Rules -> Lotteries]

ASSUME RequestAssumption ==
    /\ Operations \subseteq AllOperations
    /\ PatchPhases \subseteq {"SCHEDULED", "POSTPONED", "HELD", "CANCELLED"}

Idle == [step |-> "idle", req |-> Nil, held |-> 0,
         draw |-> Nil, rev |-> Nil, rule |-> Nil, batch |-> Nil]

-----------------------------------------------------------------------------
(* What a call reads.                                                      *)

Req(c) == tx[c].req

DrawOf(q) ==
    CASE q.op \in OnRevision -> rev[q.id].draw
      [] q.op \in OnDraw -> q.id
      [] q.op = "createDraft" -> batch[q.id].draw
      [] OTHER -> Nil

LotteryFor(q) == IF q.op \in OnRule THEN RuleLottery[q.id] ELSE LotteryOf[DrawOf(q)]

(* The page the request of a call was sent from, as Publishing's seen.     *)
Asked(c) ==
    [a \in Admins |-> IF tx[c].step # "idle" /\ Req(c).actor = a
                      THEN Req(c).page ELSE Unseen]

(* The rows as a call knows them: as it read those it has locked, as last  *)
(* committed the others.                                                   *)
Known(table, row, id) == IF row = Nil THEN table ELSE [table EXCEPT ![id] = row]

KnownDraw(c) == Known(draw, tx[c].draw, DrawOf(Req(c)))[DrawOf(Req(c))]
KnownRev(c) == Known(rev, tx[c].rev, Req(c).id)[Req(c).id]

(* The handlers of Publishing on the committed rows, and their guards on   *)
(* what a call knows.                                                      *)
Handlers(c) == INSTANCE Publishing WITH seen <- Asked(c)

View(c) == INSTANCE Publishing WITH
    seen <- Asked(c),
    draw <- Known(draw, tx[c].draw, DrawOf(Req(c))),
    rev <- Known(rev, tx[c].rev, Req(c).id),
    rule <- Known(rule, tx[c].rule, Req(c).id),
    batch <- Known(batch, tx[c].batch, Req(c).id)

-----------------------------------------------------------------------------
(* Locks.                                                                  *)

Scope(q) == <<q.actor, q.op, q.key>>

(* Every lock a call takes, kind by kind in the one order all handlers     *)
(* keep: the key (pg_advisory_xact_lock), the batch, the lottery, the      *)
(* draw, the revision or the rule (SELECT ... FOR UPDATE).                 *)
(*                                                                         *)
(* Mutation of KeyLock: the record is looked up without it.                *)
NoKeyLock(q) == <<>>
KeyLock(q) == IF q.op \in Keyed THEN << <<"key", Scope(q)>> >> ELSE <<>>

BatchLock(q) == IF q.op = "createDraft" THEN << <<"batch", q.id>> >> ELSE <<>>

Lottery(q) == <<"lottery", LotteryFor(q)>>
LotteryLock(q) == IF q.op = "patchDraw" THEN <<>> ELSE <<Lottery(q)>>

(* Mutation of DrawLock: changing a revision reads the draw without it.    *)
DrawLockOnDraws(q) ==
    IF q.op \in OnDraw \cup {"createDraft"} THEN << <<"draw", DrawOf(q)>> >> ELSE <<>>
DrawLock(q) == IF q.op \in OnRule THEN <<>> ELSE << <<"draw", DrawOf(q)>> >>

OwnLock(q) ==
    IF q.op \in OnRevision THEN << <<"revision", q.id>> >>
    ELSE IF q.op \in OnRule THEN << <<"rule", q.id>> >> ELSE <<>>

(* Mutation of Plan: a patch of a draw locks the lottery too, at the end.  *)
PlanLotteryLast(q) ==
    IF q.op = "patchDraw" THEN DrawLock(q) \o <<Lottery(q)>>
    ELSE KeyLock(q) \o BatchLock(q) \o LotteryLock(q) \o DrawLock(q) \o OwnLock(q)
Plan(q) == KeyLock(q) \o BatchLock(q) \o LotteryLock(q) \o DrawLock(q) \o OwnLock(q)

Holds(c, x) ==
    /\ tx[c].step # "idle"
    /\ \E i \in 1..tx[c].held : Plan(Req(c))[i] = x

Free(x) == \A c \in Calls : ~Holds(c, x)

NextLock(c) == Plan(Req(c))[tx[c].held + 1]

-----------------------------------------------------------------------------
(* Requests.  The page is loaded when the request is sent; the request     *)
(* itself arrives whenever, so that the page grows old on the wire.        *)

Body(flags, phases, days, payloads) ==
    [flag : flags, phase : phases, dates : days, payload : payloads]

Bodies(op) ==
    CASE op \in {"publish", "review"} -> Body(BOOLEAN, {Nil}, {Nil}, {Nil})
      [] op = "patchDraw" ->
             Body({FALSE}, PatchPhases \cup {Nil}, DrawDates \cup {Nil}, {Nil})
      [] op = "patch" -> Body({FALSE}, {Nil}, Dates, Payloads)
      [] OTHER -> Body({FALSE}, {Nil}, {Nil}, {Nil})

(* approve, revoke, correct and createDraft are sent without a version.    *)
PageOf(op, id) ==
    CASE op \in OnDraw \ {"correct"} ->
           [Unseen EXCEPT !.draw = id, !.drawVersion = draw[id].editVersion,
                          !.current = draw[id].current]
      [] op \in OnRevision ->
           LET d == rev[id].draw
           IN  [draw |-> d, drawVersion |-> draw[d].editVersion,
                current |-> draw[d].current, revision |-> id,
                revisionVersion |-> rev[id].editVersion, hash |-> rev[id].contentHash]
      [] OTHER -> Unseen

Exists(op, id) ==
    \/ op \in OnRevision /\ id \in Revisions /\ rev[id].workflow # "ABSENT"
    \/ op \in OnDraw /\ id \in Draws /\ draw[id].phase # "ABSENT"
    \/ op \in OnRule /\ id \in Rules /\ rule[id] # "ABSENT"
    \/ op = "createDraft" /\ id \in Batches /\ batch[id].draw # Nil

(* SessionGuard and RolesGuard let the others pass as editors.             *)
Allowed(a, op) == op \in Keyed \cup {"review"} => a \in Publishers

Send(a, op, id) ==
    /\ Cardinality(sent) < MaxSent
    /\ op \in Operations /\ Allowed(a, op) /\ Exists(op, id)
    /\ \E body \in Bodies(op), key \in (IF op \in Keyed THEN Keys ELSE {Nil}) :
          sent' = sent \cup {[actor |-> a, op |-> op, id |-> id, body |-> body,
                              page |-> PageOf(op, id), key |-> key]}
    /\ UNCHANGED <<rows, record, tx>>

-----------------------------------------------------------------------------
(* A call, up to its decision.                                             *)

(* A request is delivered; nothing is known of earlier deliveries.         *)
Begin(c, q) ==
    /\ tx[c].step = "idle"
    /\ tx' = [tx EXCEPT ![c] =
                 [Idle EXCEPT !.step = IF q.op \in Keyed THEN "begun" ELSE "locking",
                              !.req = q]]
    /\ UNCHANGED <<rows, sent, record>>

Ends(c) ==
    /\ tx' = [tx EXCEPT ![c] = Idle]
    /\ UNCHANGED <<rows, sent, record>>

(* createDraft answers as soon as it has the batch: the draft made from it *)
(* before, or that none can be made.                                       *)
EndsEarly(c) ==
    Req(c).op = "createDraft" /\ tx[c].held = 1 /\ tx[c].batch.status # "PREVIEW_READY"

MayLock(c) ==
    /\ tx[c].step \in {"begun", "locking"}
    /\ tx[c].held < IF tx[c].step = "begun" THEN Len(KeyLock(Req(c))) ELSE Len(Plan(Req(c)))
    /\ ~EndsEarly(c)

(* A row is read as it is locked: SELECT ... FOR UPDATE waits, then sees   *)
(* what was committed last.                                                *)
AfterLock(c, x) ==
    [step |-> tx[c].step, req |-> Req(c), held |-> tx[c].held + 1,
     draw |-> IF x[1] = "draw" THEN draw[x[2]] ELSE tx[c].draw,
     rev |-> IF x[1] = "revision" THEN rev[x[2]] ELSE tx[c].rev,
     rule |-> IF x[1] = "rule" THEN rule[x[2]] ELSE tx[c].rule,
     batch |-> IF x[1] = "batch" THEN batch[x[2]] ELSE tx[c].batch]

Lock(c) ==
    /\ MayLock(c)
    /\ Free(NextLock(c))
    /\ tx' = [tx EXCEPT ![c] = AfterLock(c, NextLock(c))]
    /\ UNCHANGED <<rows, sent, record>>

(* IdempotencyService.run looks for the key once it has its lock.          *)
Looks(c) == tx[c].step = "begun" /\ tx[c].held = Len(KeyLock(Req(c)))

(* Mutation of Recorded: the request is part of what is looked for.        *)
RecordedSame(q) == record \cap {q}
Recorded(q) == {p \in record : Scope(p) = Scope(q)}

Replay(c) == Looks(c) /\ Req(c) \in Recorded(Req(c)) /\ Ends(c)

KeyConflict(c) ==
    /\ Looks(c)
    /\ Recorded(Req(c)) # {} /\ Req(c) \notin Recorded(Req(c))
    /\ Ends(c)

StartWork(c) ==
    /\ Looks(c)
    /\ Recorded(Req(c)) = {}
    /\ tx' = [tx EXCEPT ![c].step = "locking"]
    /\ UNCHANGED <<rows, sent, record>>

(* The guards of the handlers, on the rows as the call knows them.  What   *)
(* it reads without a lock of its own (the rule version, the revision that *)
(* is current, open drafts) it reads now.                                  *)
Accepts(c) ==
    LET q == Req(c)
        a == q.actor
    IN  \/ /\ q.op = "patch"
           /\ View(c)!EditsRevision(a, q.id) /\ View(c)!Editable(q.id)
           /\ tx[c].rev.rule \in CompilableRules
        \/ /\ q.op = "reopen"
           /\ View(c)!EditsRevision(a, q.id) /\ tx[c].rev.workflow = "READY"
        \/ /\ q.op = "review"
           /\ View(c)!EditsRevision(a, q.id) /\ tx[c].rev.workflow = "DRAFT"
           /\ View(c)!Hash(tx[c].rev) = tx[c].rev.contentHash
           /\ View(c)!MayReview(a, q.id, q.body.flag) /\ View(c)!Publishable(q.id)
        \/ /\ q.op = "publish"
           /\ View(c)!EditsRevision(a, q.id)
           /\ View(c)!MayPublish(a, q.id, q.body.flag)
           /\ tx[c].rev.dates \in DrawDates
           /\ KnownDraw(c).editVersion < MaxDrawVersion     \* bound
        \/ /\ q.op \in {"suspend", "resume"}
           /\ View(c)!EditsDraw(a, q.id)
           /\ tx[c].draw.visibility = IF q.op = "suspend" THEN "ACTIVE" ELSE "SUSPENDED"
        \/ /\ q.op = "patchDraw"
           /\ View(c)!EditsDraw(a, q.id)
           /\ View(c)!MayPatchDraw(q.id, q.body.phase, q.body.dates)
        \/ /\ q.op = "correct"
           /\ tx[c].draw.current # Nil /\ View(c)!Open(q.id) = {}
           /\ KnownDraw(c).editVersion < MaxDrawVersion     \* bound
        \/ q.op = "approve" /\ tx[c].rule = "DRAFT" /\ q.id \in CompilableRules
        \/ q.op = "revoke" /\ tx[c].rule = "APPROVED"
        \/ /\ q.op = "createDraft"
           /\ rule[tx[c].batch.rule] = "APPROVED" /\ View(c)!KindStillFits(q.id)
           /\ KnownDraw(c).editVersion < MaxDrawVersion     \* bound

(* All locks are held, or the call ends before it takes the rest.          *)
Decides(c) ==
    tx[c].step = "locking" /\ (tx[c].held = Len(Plan(Req(c))) \/ EndsEarly(c))

Accept(c) ==
    /\ Decides(c) /\ ~EndsEarly(c)
    /\ Accepts(c)
    /\ tx' = [tx EXCEPT ![c].step = "decided"]
    /\ UNCHANGED <<rows, sent, record>>

Refuse(c) ==
    /\ Decides(c)
    /\ EndsEarly(c) \/ ~Accepts(c)
    /\ Ends(c)

(* Between any two statements.                                             *)
Break(c) == tx[c].step # "idle" /\ Ends(c)

-----------------------------------------------------------------------------
(* A call's writes, from the rows as it knows them.                        *)

Bumped(l) == dataset' = [dataset EXCEPT ![l] = @ + 1]

(* save writes every column back in which the row read and the row stored  *)
(* differ: the whole row as it was read, and what the body changes.        *)
WritePatch(c) ==
    LET q == Req(c)
    IN  /\ rev' = [rev EXCEPT ![q.id] = View(c)!Rehashed(View(c)!Edited(q.actor,
                     [KnownRev(c) EXCEPT !.dates = q.body.dates,
                                         !.payload = q.body.payload]))]
        /\ UNCHANGED <<rule, draw, batch, dataset, published>>

WriteReopen(c) ==
    LET q == Req(c)
    IN  /\ rev' = [rev EXCEPT ![q.id].workflow = "DRAFT",
                              ![q.id].reviewedHash = Nil, ![q.id].reviewedBy = Nil,
                              ![q.id].lastEditedBy = q.actor,
                              ![q.id].editVersion = KnownRev(c).editVersion + 1]
        /\ UNCHANGED <<rule, draw, batch, dataset, published>>

WriteReview(c) ==
    LET q == Req(c)
    IN  /\ rev' = [rev EXCEPT ![q.id].workflow = "READY",
                              ![q.id].reviewedHash = KnownRev(c).contentHash,
                              ![q.id].reviewedBy = q.actor,
                              ![q.id].editVersion = KnownRev(c).editVersion + 1]
        /\ UNCHANGED <<rule, draw, batch, dataset, published>>

WritePublish(c) ==
    LET q == Req(c)
        d == DrawOf(q)
        r == q.id
        old == KnownDraw(c).current
    IN  /\ rev' = [x \in Revisions |->
              CASE x = r -> [rev[r] EXCEPT !.workflow = "PUBLISHED",
                                           !.publishedBy = q.actor,
                                           !.editVersion = KnownRev(c).editVersion + 1]
                [] x # r /\ x = old -> Handlers(c)!Retired(rev[x])
                [] OTHER -> rev[x]]
        /\ draw' = [draw EXCEPT ![d] = [@ EXCEPT
              !.current = r, !.dates = KnownRev(c).dates, !.phase = "HELD",
              !.visibility = IF q.body.flag THEN "ACTIVE" ELSE KnownDraw(c).visibility,
              !.editVersion = KnownDraw(c).editVersion + 1]]
        /\ Bumped(LotteryFor(q))
        /\ published' = [published EXCEPT ![d] = Append(@, r)]
        /\ UNCHANGED <<rule, batch>>

WriteVisibility(c, target) ==
    LET q == Req(c)
    IN  /\ draw' = [draw EXCEPT ![q.id].visibility = target,
                                ![q.id].editVersion = KnownDraw(c).editVersion + 1]
        /\ Bumped(LotteryFor(q))
        /\ UNCHANGED <<rule, rev, batch, published>>

WritePatchDraw(c) ==
    LET q == Req(c)
    IN  /\ draw' = [draw EXCEPT ![q.id] = [KnownDraw(c) EXCEPT
                      !.phase = IF q.body.phase = Nil THEN @ ELSE q.body.phase,
                      !.dates = IF q.body.dates = Nil THEN @ ELSE q.body.dates,
                      !.editVersion = @ + 1]]
        /\ UNCHANGED <<rule, rev, batch, dataset, published>>

WriteRule(c, state) ==
    /\ rule' = [rule EXCEPT ![Req(c).id] = state]
    /\ IF state = "REVOKED" THEN Bumped(LotteryFor(Req(c))) ELSE UNCHANGED dataset
    /\ UNCHANGED <<draw, rev, batch, published>>

(* Both ways of inserting a draft: the row, and the number it takes.       *)
InsertDraft(c, row) ==
    LET d == DrawOf(Req(c))
    IN  /\ \E r \in Revisions : rev[r].workflow = "ABSENT" /\ rev' = [rev EXCEPT ![r] = row]
        /\ draw' = [draw EXCEPT ![d].nextNo = KnownDraw(c).nextNo + 1,
                                ![d].editVersion = KnownDraw(c).editVersion + 1]

WriteCorrection(c) ==
    LET q == Req(c)
        current == rev[KnownDraw(c).current]
    IN  /\ InsertDraft(c, View(c)!NewDraft(q.actor, q.id, current.rule, "CORRECTION",
                                           current.dates, current.payload))
        /\ UNCHANGED <<rule, batch, dataset, published>>

WriteDraft(c) ==
    LET q == Req(c)
        b == tx[c].batch
    IN  /\ InsertDraft(c, View(c)!NewDraft(q.actor, b.draw, b.rule, b.kind,
                                           KnownDraw(c).dates, b.payload))
        /\ \E r \in Revisions :
              /\ rev'[r] # rev[r]
              /\ batch' = [batch EXCEPT ![q.id].status = "DRAFT_CREATED",
                                        ![q.id].created = r]
        /\ UNCHANGED <<rule, dataset, published>>

Writes(c) ==
    \/ Req(c).op = "patch" /\ WritePatch(c)
    \/ Req(c).op = "reopen" /\ WriteReopen(c)
    \/ Req(c).op = "review" /\ WriteReview(c)
    \/ Req(c).op = "publish" /\ WritePublish(c)
    \/ Req(c).op = "suspend" /\ WriteVisibility(c, "SUSPENDED")
    \/ Req(c).op = "resume" /\ WriteVisibility(c, "ACTIVE")
    \/ Req(c).op = "patchDraw" /\ WritePatchDraw(c)
    \/ Req(c).op = "approve" /\ WriteRule(c, "APPROVED")
    \/ Req(c).op = "revoke" /\ WriteRule(c, "REVOKED")
    \/ Req(c).op = "correct" /\ WriteCorrection(c)
    \/ Req(c).op = "createDraft" /\ WriteDraft(c)

(* An UPDATE waits for whoever else holds the row.                         *)
Updates(c) ==
    LET q == Req(c)
        d == <<"draw", DrawOf(q)>>
    IN  CASE q.op \in OnRevision \ {"publish"} -> {<<"revision", q.id>>}
          [] q.op = "publish" -> {<<"revision", q.id>>, <<"revision", KnownDraw(c).current>>,
                                  d, Lottery(q)}
          [] q.op \in {"suspend", "resume"} -> {d, Lottery(q)}
          [] q.op \in {"patchDraw", "correct"} -> {d}
          [] q.op = "createDraft" -> {d, <<"batch", q.id>>}
          [] q.op = "approve" -> {<<"rule", q.id>>}
          [] q.op = "revoke" -> {<<"rule", q.id>>, Lottery(q)}

Commit(c) ==
    /\ tx[c].step = "decided"
    /\ \A x \in Updates(c), e \in Calls \ {c} : ~Holds(e, x)
    /\ Writes(c)
    /\ record' = IF Req(c).op \in Keyed THEN record \cup {Req(c)} ELSE record
    /\ tx' = [tx EXCEPT ![c] = Idle]
    /\ UNCHANGED sent

-----------------------------------------------------------------------------
(* The rows to begin with are those of Publishing in some state of it; the *)
(* rule of a revision, and of a batch, is a rule of their lottery, as the  *)
(* import has seen to.                                                     *)
Pipeline == INSTANCE Publishing WITH seen <- [a \in Admins |-> Unseen]

Sound ==
    /\ Pipeline!TypeOK /\ Pipeline!RowsAreWhole /\ Pipeline!CurrentIsPublished
    /\ \A r \in Revisions : rev[r].workflow # "ABSENT" =>
           RuleLottery[rev[r].rule] = LotteryOf[rev[r].draw]
    /\ \A b \in Batches : batch[b].draw # Nil =>
           /\ batch[b].draw \in Draws /\ batch[b].rule \in Rules
           /\ RuleLottery[batch[b].rule] = LotteryOf[batch[b].draw]

Init ==
    /\ \E s \in Starts :
          /\ rule = s.rule /\ draw = s.draw /\ rev = s.rev /\ batch = s.batch
          /\ published = s.published
    /\ dataset = [l \in Lotteries |-> 0]
    /\ Sound
    /\ sent = {} /\ record = {}
    /\ tx = [c \in Calls |-> Idle]

Next ==
    \/ \E a \in Admins, op \in Operations :
          \E id \in Revisions \cup Draws \cup Rules \cup Batches : Send(a, op, id)
    \/ \E c \in Calls :
          \/ \E q \in sent : Begin(c, q)
          \/ Lock(c) \/ Replay(c) \/ KeyConflict(c) \/ StartWork(c)
          \/ Accept(c) \/ Refuse(c) \/ Commit(c) \/ Break(c)

Spec == Init /\ [][Next]_vars

(* The database answers every statement in the end, and serves those who   *)
(* wait for a lock in the order they came.  Nothing is assumed of          *)
(* deliveries, nor that a transaction is ever broken off: PostgreSQL's     *)
(* deadlock detection is not counted on.                                   *)
FairSpec ==
    /\ Spec
    /\ \A c \in Calls :
          /\ WF_vars(Replay(c) \/ KeyConflict(c) \/ StartWork(c) \/ Accept(c) \/ Refuse(c))
          /\ SF_vars(Lock(c)) /\ SF_vars(Commit(c))

-----------------------------------------------------------------------------
(* What the transactions promise.                                          *)

(* Whatever the interleaving, a transaction that changes rows is, at the   *)
(* moment it commits, one step of a handler of Publishing on the page its  *)
(* request was sent from: no guard it checked has ceased to hold, and no   *)
(* column it writes back has changed since it was read.                    *)
HandlersAreAtomic ==
    [][rows' # rows =>
         \E c \in Calls : tx[c].step = "decided" /\ Handlers(c)!Next]_vars

(* An Idempotency-Key stands for one request: of two requests of an        *)
(* administrator for one operation under one key, one is carried out       *)
(* (IdempotencyService.run).                                               *)
OneKeyOneRequest ==
    \A p, q \in record : Scope(p) = Scope(q) => p = q

(* A keyed request that has been carried out is never refused to whoever   *)
(* repeats it: a copy that waited behind the first gets the first answer,  *)
(* not a conflict with what the first has changed.                         *)
DoneIsNeverRefused ==
    [][\A c \in Calls : Refuse(c) => Req(c) \notin record]_vars

(* No set of calls waits for itself: every call that begins ends, though   *)
(* nobody breaks it off.                                                   *)
EveryCallEnds ==
    \A c \in Calls : tx[c].step # "idle" ~> tx[c].step = "idle"

=============================================================================
