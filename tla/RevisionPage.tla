---------------------------- MODULE RevisionPage ----------------------------
(***************************************************************************)
(* An administrator's page of one result revision (RevisionDetail.tsx) and *)
(* the part of the API it talks to.  The page shows a copy of the          *)
(* revision, opens an edit form or a dialog on it, and sends requests that *)
(* carry the edit version of the copy.  Copies arrive late, out of order,  *)
(* or not at all; the API answers a GET with several statements outside a  *)
(* transaction, so a copy can be older at its head than in its rows; an    *)
(* answer can be lost after the change was made.  Everyone else, on pages  *)
(* like this one, is the action Elsewhere: any change the API accepts.     *)
(*                                                                         *)
(* A revision's manifest (state and amount of every category, and the      *)
(* completeness, which the form sends along) is a function from Parts to   *)
(* Values; its winning entries are a member of Lists.                      *)
(*                                                                         *)
(* An operator whose comment begins with "Mutation of" is a plausible bug  *)
(* in the operator that follows it; no action uses one.                    *)
(***************************************************************************)
EXTENDS Naturals, FiniteSets

CONSTANTS
    Parts,         \* the parts of a manifest that the edit form sends
    Values,        \* what a part can be
    Lists,         \* what the winning entries can be
    MaxVersion,    \* bound: edit versions stop here
    MaxLoads,      \* bound: GETs of the revision in flight at once
    MaxDialogs,    \* bound: publish dialogs opened
    Nil

ASSUME NilAssumption ==
    /\ Nil \notin Lists
    /\ Nil \notin [Parts -> Values]
    /\ Nil \notin [key : Nat, version : Nat]

ASSUME BoundAssumption == MaxVersion \in Nat /\ MaxLoads \in Nat /\ MaxDialogs \in Nat

VARIABLES
    row,        \* the result_revision row, its manifest and its entries
    replay,     \* the admin_idempotency row of its publication, or Nil
    page,       \* the React state of the page
    loads,      \* its GETs of the revision in flight
    request,    \* its mutation in flight, or Nil
    table       \* its table of entries, and the fetch for it

vars == <<row, replay, page, loads, request, table>>

-----------------------------------------------------------------------------
Manifest == [Parts -> Values]
States == {"DRAFT", "READY", "PUBLISHED", "SUPERSEDED"}
Ops == {"save", "reopen", "review", "publish"}
Keys == 0..MaxDialogs      \* 0: a key used elsewhere

Heads == [version : Nat, state : States]
Copies == [head : Heads \cup {Nil}, manifest : Manifest \cup {Nil}]
NoCopy == [head |-> Nil, manifest |-> Nil]

(* A form holds the manifest it was opened on and the one typed so far;    *)
(* opened is the edit version shown when it was opened (a history field).  *)
Forms == [base : Manifest, typed : Manifest, opened : Nat]

(* key is used by publish only; base, opened and saw are history: what the *)
(* form was opened on, and the manifest the page showed when it sent.      *)
Requests == [op : Ops, version : Nat, key : Keys, typed : Manifest \cup {Nil},
             base : Manifest \cup {Nil}, opened : Nat, list : Lists \cup {Nil},
             saw : Manifest, status : {"sent", "done", "refused"}, answer : Copies]

Pages == [shown : Copies, form : Forms \cup {Nil},
          dialog : {"none", "review", "publish"}, dialogs : 0..MaxDialogs,
          conflict : BOOLEAN, dialogConflict : BOOLEAN]

Tables == [list : Lists \cup {Nil}, fetch : {"idle", "asked", "read", "failed"},
           coming : Lists \cup {Nil}]

NewPage == [shown |-> NoCopy, form |-> Nil, dialog |-> "none", dialogs |-> 0,
            conflict |-> FALSE, dialogConflict |-> FALSE]

NewTable == [list |-> Nil, fetch |-> "idle", coming |-> Nil]

TypeOK ==
    /\ row \in [version : Nat, state : States, manifest : Manifest, list : Lists]
    /\ replay \in [key : Keys, version : Nat] \cup {Nil}
    /\ page \in Pages
    /\ loads \in SUBSET Copies
    /\ request \in Requests \cup {Nil}
    /\ table \in Tables

(* Mounting the page loads the revision.                                   *)
Init ==
    /\ row \in [version : {1}, state : {"DRAFT"}, manifest : Manifest, list : Lists]
    /\ replay = Nil
    /\ page = NewPage
    /\ loads = {NoCopy}
    /\ request = Nil
    /\ table = NewTable

Shows == page.shown # NoCopy
Shown == page.shown.head
Busy == request # Nil

(* The page behind an open dialog takes no clicks.                         *)
Clickable == Shows /\ ~Busy /\ page.dialog = "none"

-----------------------------------------------------------------------------
(* RevisionReadService.get: the head is read before the rows below it.     *)

RowHead == [version |-> row.version, state |-> row.state]

MayReadHead(q) == q.head = Nil

(* Mutation of MayReadManifest: the reads are made in any order.           *)
MayReadManifestFirst(q) == q.manifest = Nil
MayReadManifest(q) == q.manifest = Nil /\ q.head # Nil

(* The copies that the next read of q can leave.                           *)
AfterRead(q) ==
    (IF MayReadHead(q) THEN {[q EXCEPT !.head = RowHead]} ELSE {}) \cup
    (IF MayReadManifest(q) THEN {[q EXCEPT !.manifest = row.manifest]} ELSE {})

Whole(q) == q.head # Nil /\ q.manifest # Nil

StartLoad ==
    /\ Cardinality(loads) < MaxLoads
    /\ loads' = loads \cup {NoCopy}

ReadLoad(q) ==
    /\ \E new \in AfterRead(q) : loads' = (loads \ {q}) \cup {new}
    /\ UNCHANGED <<row, replay, page, request, table>>

(* The effect on [revisionId, entriesCategory, entriesPage, editVersion]:  *)
(* a page that shows another edit version cancels its fetch of the entries *)
(* and starts a new one; the table keeps the old entries until it is done. *)
(*                                                                         *)
(* Mutation of Refetches: the entries are fetched once.                    *)
RefetchesOnce(copy) == ~Shows
Refetches(copy) == ~Shows \/ copy.head.version # Shown.version

Fetching(copy) ==
    table' = IF Refetches(copy)
             THEN [table EXCEPT !.fetch = "asked", !.coming = Nil]
             ELSE table

DeliverLoad(q) ==
    /\ Whole(q)
    /\ loads' = loads \ {q}
    /\ page' = [page EXCEPT !.shown = q]
    /\ Fetching(q)
    /\ UNCHANGED <<row, replay, request>>

LoseLoad(q) ==
    /\ loads' = loads \ {q}
    /\ page' = [page EXCEPT !.conflict = FALSE]
    /\ UNCHANGED <<row, replay, request, table>>

ReadTable ==
    /\ table.fetch = "asked"
    /\ table' = [table EXCEPT !.fetch = "read", !.coming = row.list]
    /\ UNCHANGED <<row, replay, page, loads, request>>

DeliverTable ==
    /\ table.fetch = "read"
    /\ table' = [list |-> table.coming, fetch |-> "idle", coming |-> Nil]
    /\ UNCHANGED <<row, replay, page, loads, request>>

(* An answer that is not ok is passed over in silence.                     *)
LoseTable ==
    /\ table.fetch \in {"asked", "read"}
    /\ table' = [table EXCEPT !.fetch = "failed", !.coming = Nil]
    /\ UNCHANGED <<row, replay, page, loads, request>>

-----------------------------------------------------------------------------
(* What an administrator does on the page.                                 *)

(* Leaving and coming back; not while a mutation is in flight.             *)
OpenPage ==
    /\ ~Busy
    /\ page' = [NewPage EXCEPT !.dialogs = page.dialogs]
    /\ loads' = {NoCopy}
    /\ table' = NewTable
    /\ UNCHANGED <<row, replay, request>>

(* The banner of a 409 offers a reload.  It leaves an open form as it is.  *)
Reload ==
    /\ \/ page.dialog = "none" /\ page.conflict
       \/ page.dialog = "publish" /\ page.dialogConflict
    /\ StartLoad
    /\ UNCHANGED <<row, replay, page, request, table>>

StartEdit ==
    /\ Clickable
    /\ Shown.state = "DRAFT"
    /\ page.form = Nil
    /\ page' = [page EXCEPT !.form = [base |-> page.shown.manifest,
                                      typed |-> page.shown.manifest,
                                      opened |-> Shown.version]]
    /\ UNCHANGED <<row, replay, loads, request, table>>

Type(part, value) ==
    /\ page.form # Nil /\ page.dialog = "none"
    /\ page' = [page EXCEPT !.form.typed[part] = value]
    /\ UNCHANGED <<row, replay, loads, request, table>>

CancelEdit ==
    /\ page.form # Nil /\ page.dialog = "none"
    /\ page' = [page EXCEPT !.form = Nil]
    /\ UNCHANGED <<row, replay, loads, request, table>>

(* Every request carries the edit version now shown.                       *)
Request(op) ==
    [op |-> op, version |-> Shown.version, key |-> page.dialogs,
     typed |-> Nil, base |-> Nil, opened |-> 0, list |-> Nil,
     saw |-> page.shown.manifest, status |-> "sent", answer |-> NoCopy]

(* list is Nil when no entries are replaced.                               *)
Save(list) ==
    /\ Clickable
    /\ page.form # Nil
    /\ request' = [Request("save") EXCEPT !.typed = page.form.typed, !.base = page.form.base,
                                           !.opened = page.form.opened, !.list = list]
    /\ page' = [page EXCEPT !.conflict = FALSE]
    /\ UNCHANGED <<row, replay, loads, table>>

Reopen ==
    /\ Clickable
    /\ Shown.state = "READY"
    /\ request' = Request("reopen")
    /\ UNCHANGED <<row, replay, page, loads, table>>

OpenReview ==
    /\ Clickable
    /\ Shown.state = "DRAFT"
    /\ page' = [page EXCEPT !.dialog = "review", !.dialogConflict = FALSE]
    /\ UNCHANGED <<row, replay, loads, request, table>>

(* A publish dialog has one idempotency key for as long as it is open.     *)
OpenPublish ==
    /\ Clickable
    /\ Shown.state = "READY"
    /\ page.dialogs < MaxDialogs
    /\ page' = [page EXCEPT !.dialog = "publish", !.dialogConflict = FALSE,
                            !.dialogs = @ + 1]
    /\ UNCHANGED <<row, replay, loads, request, table>>

CloseDialog ==
    /\ page.dialog # "none"
    /\ page' = [page EXCEPT !.dialog = "none"]
    /\ UNCHANGED <<row, replay, loads, request, table>>

Confirm ==
    /\ page.dialog # "none"
    /\ ~Busy
    /\ request' = Request(page.dialog)
    /\ UNCHANGED <<row, replay, page, loads, table>>

-----------------------------------------------------------------------------
(* The API's side of a mutation (PublishingService, IdempotencyService).   *)

Sent(op) == Busy /\ request.op = op /\ request.status = "sent"

(* Mutation of VersionMatches: an older version will do.                   *)
VersionOlder(q) == q.version <= row.version
VersionMatches(q) == q.version = row.version

(* A publication already recorded under the key is not run again.          *)
Recorded(q) == replay # Nil /\ q.op = "publish" /\ replay.key = q.key

StateFor(op) == IF op \in {"reopen", "publish"} THEN "READY" ELSE "DRAFT"

(* Mutation of Accepts: the state of the row is not looked at.             *)
AcceptsAnyState(q) ==
    /\ VersionMatches(q)
    /\ ~Recorded(q)
Accepts(q) ==
    /\ VersionMatches(q)
    /\ row.state = StateFor(q.op)
    /\ ~Recorded(q)

(* The last conjunct is the bound.                                         *)
Accepting(op) ==
    /\ Sent(op)
    /\ Accepts(request)
    /\ row.version < MaxVersion
    /\ request' = [request EXCEPT !.status = "done"]
    /\ UNCHANGED <<page, loads, table>>

SavedList(q) == IF q.list = Nil THEN row.list ELSE q.list

AcceptSave ==
    /\ Accepting("save")
    /\ row' = [row EXCEPT !.version = @ + 1, !.manifest = request.typed,
                          !.list = SavedList(request)]
    /\ UNCHANGED replay

AcceptReopen ==
    /\ Accepting("reopen")
    /\ row' = [row EXCEPT !.version = @ + 1, !.state = "DRAFT"]
    /\ UNCHANGED replay

AcceptReview ==
    /\ Accepting("review")
    /\ row' = [row EXCEPT !.version = @ + 1, !.state = "READY"]
    /\ UNCHANGED replay

AcceptPublish ==
    /\ Accepting("publish")
    /\ row' = [row EXCEPT !.version = @ + 1, !.state = "PUBLISHED"]
    /\ replay' = [key |-> request.key, version |-> request.version]

(* The same key with the same request is answered as it was the first time.*)
Replay ==
    /\ Sent("publish")
    /\ Recorded(request) /\ replay.version = request.version
    /\ request' = [request EXCEPT !.status = "done"]
    /\ UNCHANGED <<row, replay, page, loads, table>>

(* Answers 409.  Review and publish have grounds beyond this module: the   *)
(* rule, the draw, its current revision.                                   *)
Refuse ==
    /\ Busy /\ request.status = "sent"
    /\ IF Recorded(request)
       THEN replay.version # request.version
       ELSE ~Accepts(request) \/ request.op \in {"review", "publish"}
    /\ request' = [request EXCEPT !.status = "refused"]
    /\ UNCHANGED <<row, replay, page, loads, table>>

(* A save, reopen, review or publication from anywhere else.               *)
Elsewhere ==
    /\ row.version < MaxVersion
    /\ \/ \E manifest \in Manifest, list \in Lists :
             /\ row.state = "DRAFT"
             /\ row' = [row EXCEPT !.version = @ + 1, !.manifest = manifest, !.list = list]
             /\ UNCHANGED replay
       \/ \E state \in {"DRAFT", "READY"} \ {row.state} :
             /\ row.state \in {"DRAFT", "READY"}
             /\ row' = [row EXCEPT !.version = @ + 1, !.state = state]
             /\ UNCHANGED replay
       \/ /\ row.state = "READY"
          /\ row' = [row EXCEPT !.version = @ + 1, !.state = "PUBLISHED"]
          /\ replay' = [key |-> 0, version |-> row.version]
    /\ UNCHANGED <<page, loads, request, table>>

(* Another revision of the draw is published.                              *)
Supersede ==
    /\ row.state = "PUBLISHED"
    /\ row' = [row EXCEPT !.state = "SUPERSEDED"]
    /\ UNCHANGED <<replay, page, loads, request, table>>

(* The answer to a save is read after its transaction has committed.       *)
ReadAnswer ==
    /\ Busy /\ request.op = "save" /\ request.status = "done"
    /\ \E new \in AfterRead(request.answer) :
          request' = [request EXCEPT !.answer = new]
    /\ UNCHANGED <<row, replay, page, loads, table>>

-----------------------------------------------------------------------------
(* The page gets its answer.                                               *)

(* A saved form is closed, the answer shown and the revision loaded again. *)
Saved ==
    /\ Busy /\ request.op = "save" /\ Whole(request.answer)
    /\ page' = [page EXCEPT !.shown = request.answer, !.form = Nil]
    /\ Fetching(request.answer)
    /\ StartLoad
    /\ request' = Nil
    /\ UNCHANGED <<row, replay>>

Done ==
    /\ Busy /\ request.op # "save" /\ request.status = "done"
    /\ page' = IF request.op = "reopen" THEN page
               ELSE [page EXCEPT !.dialog = "none"]
    /\ StartLoad
    /\ request' = Nil
    /\ UNCHANGED <<row, replay, table>>

(* The banner with the reload: on the page, or in the dialog.              *)
Failed(conflict) ==
    /\ page' = IF request.op \in {"save", "reopen"}
               THEN [page EXCEPT !.conflict = conflict]
               ELSE [page EXCEPT !.dialogConflict = conflict]
    /\ request' = Nil
    /\ UNCHANGED <<row, replay, loads, table>>

Refused == Busy /\ request.status = "refused" /\ Failed(TRUE)

(* Lost on the way there or back, or refused for its own sake (400, 403):  *)
(* the page cannot tell whether the change was made.                       *)
Lost == Busy /\ request.status # "refused" /\ Failed(FALSE)

-----------------------------------------------------------------------------
LoadStep ==
    \/ \E q \in loads : ReadLoad(q) \/ DeliverLoad(q) \/ LoseLoad(q)
    \/ ReadTable \/ DeliverTable \/ LoseTable

ClickStep ==
    \/ OpenPage \/ Reload \/ StartEdit \/ CancelEdit \/ Reopen
    \/ \E part \in Parts, value \in Values : Type(part, value)
    \/ \E list \in Lists \cup {Nil} : Save(list)
    \/ OpenReview \/ OpenPublish \/ CloseDialog \/ Confirm

ServeStep ==
    \/ AcceptSave \/ AcceptReopen \/ AcceptReview \/ AcceptPublish
    \/ Replay \/ Refuse \/ ReadAnswer

AnswerStep == Saved \/ Done \/ Refused \/ Lost

Next ==
    \/ LoadStep \/ ClickStep \/ ServeStep \/ AnswerStep
    \/ Elsewhere \/ Supersede

Spec == Init /\ [][Next]_vars

-----------------------------------------------------------------------------
(* Safety.                                                                 *)

(* A page whose edit version is still that of the row shows the manifest   *)
(* and the state of the row, although its copy was put together from       *)
(* several reads, with saves between them: the head is read first, so a    *)
(* mixed copy carries a version already overtaken.                         *)
FreshPageIsExact ==
    Shows /\ Shown.version = row.version =>
        /\ page.shown.manifest = row.manifest
        /\ Shown.state = row.state \/ row.state = "SUPERSEDED"

(* And, once its fetch has come back, the entries of the row: every other  *)
(* version shown fetches them anew and cancels the fetch before.           *)
FreshTableIsExact ==
    Shows /\ Shown.version = row.version /\ table.fetch = "idle" => table.list = row.list

-----------------------------------------------------------------------------
(* What a step may do.                                                     *)

Accepted ==
    /\ Busy /\ request.status = "sent"
    /\ request' = [request EXCEPT !.status = "done"]

(* What the page reviews or publishes has the manifest it showed when its  *)
(* dialog was confirmed, whatever arrived while that was open.             *)
DecidedAsShown ==
    [][Accepted /\ row'.state # row.state =>
          request.saw = row'.manifest]_vars

(* A save through a form opened on the version it is sent with changes no  *)
(* part that was not typed over: what others saved in between is refused   *)
(* before it is lost.                                                      *)
OwnFormLosesNothing ==
    [][Accepted /\ request.op = "save" /\ request.opened = request.version =>
          \A part \in Parts : row'.manifest[part] # row.manifest[part] =>
              request.typed[part] # request.base[part]]_vars

(* What is published is published once: a dialog confirmed again after its *)
(* answer was lost is answered from the record, and a published row keeps  *)
(* its content and its version for good.                                   *)
PublishedStays ==
    [][row.state \in {"PUBLISHED", "SUPERSEDED"} =>
          /\ row' = row \/ row' = [row EXCEPT !.state = "SUPERSEDED"]
          /\ replay # Nil /\ replay' = replay]_vars

-----------------------------------------------------------------------------
(* What the repository says and the page does not keep.                    *)

(* Optimistic concurrency: a save changes no part its form did not change. *)
(* After a 409 the banner's reload brings the newest edit version under a  *)
(* form that still holds the old manifest; the next save is accepted and   *)
(* puts the old values back over what others saved.                        *)
NoLostUpdate ==
    [][Accepted /\ request.op = "save" =>
          \A part \in Parts : row'.manifest[part] # row.manifest[part] =>
              request.typed[part] # request.base[part]]_vars

=============================================================================
