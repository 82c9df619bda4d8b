-------------------------- MODULE RevisionPageProofs --------------------------
(***************************************************************************)
(* Theorems about RevisionPage: a page that is not out of date is exact,   *)
(* its entries included; what it reviews or publishes is what it shows;    *)
(* its own form takes nothing back; and what is published stays.           *)
(***************************************************************************)
EXTENDS RevisionPage, TLAPS

(* What holds of every copy of the revision, on the page, on its way there *)
(* or half read: it is no newer than the row, and if its head is as new as *)
(* the row then whatever else it has is the row's.                         *)
GoodCopy(c) ==
    /\ c.manifest # Nil => c.head # Nil
    /\ c.head # Nil =>
          /\ c.head.version <= row.version
          /\ c.head.version = row.version =>
                /\ c.head.state = row.state \/ row.state = "SUPERSEDED"
                /\ c.manifest # Nil => c.manifest = row.manifest

GoodRequest(q) ==
    /\ GoodCopy(q.answer)
    /\ q.op = "save" => q.typed \in Manifest
    /\ q.status = "sent" =>
          /\ q.version <= row.version
          /\ q.version = row.version => q.saw = row.manifest

(* The inductive invariant: every copy is good, a page shows whole copies  *)
(* only, and a request still on its way is as good as the copy it was made *)
(* from.                                                                   *)
PageInv ==
    /\ TypeOK
    /\ GoodCopy(page.shown) /\ (Shows => Whole(page.shown))
    /\ page.dialog # "none" \/ page.form # Nil => Shows
    /\ \A q \in loads : GoodCopy(q)
    /\ request # Nil => GoodRequest(request)

(* A copy with nothing in it is good.                                      *)
LEMMA NoCopyIsGood == GoodCopy(NoCopy) /\ NoCopy \in Copies /\ ~Whole(NoCopy)
  BY DEF GoodCopy, NoCopy, Copies, Whole

(* The next read of a good copy leaves a good copy.                        *)
LEMMA ReadIsGood ==
    ASSUME TypeOK, NEW q \in Copies, GoodCopy(q), NEW new \in AfterRead(q)
    PROVE  new \in Copies /\ GoodCopy(new)
<1>1. RowHead \in Heads /\ row.manifest \in Manifest /\ RowHead.version = row.version
      /\ RowHead.state = row.state /\ row.version \in Nat
  BY DEF TypeOK, RowHead, Heads
<1>2. CASE q.head = Nil /\ new = [q EXCEPT !.head = RowHead]
  BY <1>1, <1>2 DEF GoodCopy, Copies
<1>3. CASE q.manifest = Nil /\ q.head # Nil /\ new = [q EXCEPT !.manifest = row.manifest]
  BY <1>1, <1>3 DEF GoodCopy, Copies
<1> QED
  BY <1>2, <1>3 DEF AfterRead, MayReadHead, MayReadManifest

(* The row moves on to a new version, or is superseded.                    *)
RowMoves ==
    /\ row'.version \in Nat
    /\ \/ row'.version > row.version
       \/ row' = [row EXCEPT !.state = "SUPERSEDED"]

(* Good copies stay good when the row moves.                               *)
LEMMA CopiesStayGood ==
    ASSUME TypeOK, RowMoves, NEW q \in Copies, GoodCopy(q)
    PROVE  GoodCopy(q)'
<1>1. row.version \in Nat /\ (q.head # Nil => q.head.version \in Nat)
  BY DEF TypeOK, Copies, Heads
<1>2. CASE row'.version > row.version
  BY <1>1, <1>2 DEF RowMoves, GoodCopy
<1>3. CASE row' = [row EXCEPT !.state = "SUPERSEDED"]
  <2>1. row'.version = row.version /\ row'.state = "SUPERSEDED" /\ row'.manifest = row.manifest
    BY <1>3 DEF TypeOK
  <2> QED
    BY <2>1 DEF GoodCopy
<1> QED
  BY <1>2, <1>3 DEF RowMoves

(* Good requests stay good when the row moves.                             *)
LEMMA RequestsStayGood ==
    ASSUME TypeOK, RowMoves, NEW q \in Requests, GoodRequest(q)
    PROVE  GoodRequest(q)'
<1>1. row.version \in Nat /\ q.version \in Nat /\ q.answer \in Copies
  BY DEF TypeOK, Requests
<1>2. GoodCopy(q.answer)'
  BY <1>1, CopiesStayGood DEF GoodRequest
<1>3. q.status = "sent" => /\ q.version <= row'.version
                           /\ q.version = row'.version => q.saw = row'.manifest
  <2>1. CASE row'.version > row.version
    BY <1>1, <2>1 DEF RowMoves, GoodRequest
  <2>2. CASE row' = [row EXCEPT !.state = "SUPERSEDED"]
    <3>1. row'.version = row.version /\ row'.manifest = row.manifest
      BY <2>2 DEF TypeOK
    <3> QED
      BY <3>1 DEF GoodRequest
  <2> QED
    BY <2>1, <2>2 DEF RowMoves
<1> QED
  BY <1>2, <1>3 DEF GoodRequest

-----------------------------------------------------------------------------
(* Loads and fetches.                                                      *)

(* Reads, deliveries and losses of copies keep the invariant.              *)
LEMMA LoadKeeps ==
    ASSUME PageInv, LoadStep
    PROVE  PageInv'
<1>1. CASE \E q \in loads : ReadLoad(q)
  <2>0. PICK q \in loads : ReadLoad(q)
    BY <1>1
  <2>1. PICK new \in AfterRead(q) :
          /\ loads' = (loads \ {q}) \cup {new}
          /\ UNCHANGED <<row, replay, page, request, table>>
    BY <2>0 DEF ReadLoad
  <2>2. q \in Copies /\ GoodCopy(q)
    BY DEF PageInv, TypeOK
  <2>3. new \in Copies /\ GoodCopy(new)
    BY <2>2, ReadIsGood DEF PageInv
  <2> QED
    BY <2>1, <2>3 DEF PageInv, TypeOK, GoodCopy, GoodRequest, Shows, Whole
<1>2. CASE \E q \in loads : DeliverLoad(q)
  <2>1. PICK q \in loads : DeliverLoad(q)
    BY <1>2
  <2>2. q \in Copies /\ GoodCopy(q) /\ Whole(q)
    BY <2>1 DEF PageInv, TypeOK, DeliverLoad
  <2>3. page' \in Pages /\ page'.shown = q /\ page'.dialog = page.dialog
        /\ page'.form = page.form
    BY <2>1, <2>2 DEF DeliverLoad, PageInv, TypeOK, Pages
  <2>4. q # NoCopy
    BY <2>2, NoCopyIsGood
  <2>5. table' \in Tables
    BY <2>1 DEF DeliverLoad, Fetching, PageInv, TypeOK, Tables
  <2>6. TypeOK'
    BY <2>1, <2>3, <2>5 DEF DeliverLoad, PageInv, TypeOK
  <2> QED
    BY <2>1, <2>2, <2>3, <2>4, <2>6 DEF DeliverLoad, PageInv, GoodCopy, GoodRequest, Shows, Whole
<1>3. CASE \E q \in loads : LoseLoad(q)
  <2>1. /\ page' \in Pages /\ page'.shown = page.shown /\ page'.dialog = page.dialog
        /\ page'.form = page.form
    BY <1>3 DEF LoseLoad, PageInv, TypeOK, Pages
  <2> QED
    BY <1>3, <2>1 DEF LoseLoad, PageInv, TypeOK, GoodCopy, GoodRequest, Shows, Whole
<1>4. CASE ReadTable \/ DeliverTable \/ LoseTable
  <2>0. table \in Tables /\ row.list \in Lists /\ Tables = [list : Lists \cup {Nil},
             fetch : {"idle", "asked", "read", "failed"}, coming : Lists \cup {Nil}]
    BY DEF PageInv, TypeOK, Tables
  <2>1. table' \in Tables
    <3>1. CASE ReadTable
      BY <2>0, <3>1 DEF ReadTable
    <3>2. CASE DeliverTable
      BY <2>0, <3>2 DEF DeliverTable
    <3>3. CASE LoseTable
      BY <2>0, <3>3 DEF LoseTable
    <3> QED
      BY <1>4, <3>1, <3>2, <3>3
  <2> QED
    BY <1>4, <2>1 DEF ReadTable, DeliverTable, LoseTable, PageInv, TypeOK, GoodCopy,
                      GoodRequest, Shows, Whole
<1> QED
  BY <1>1, <1>2, <1>3, <1>4 DEF LoadStep

-----------------------------------------------------------------------------
(* Clicks.                                                                 *)

(* A request is made from the copy shown, so it is as good as that copy.   *)
LEMMA RequestIsGood ==
    ASSUME PageInv, Shows, NEW op \in Ops
    PROVE  /\ [Request(op) EXCEPT !.saw = @] = Request(op)
           /\ Request(op) \in Requests
           /\ op # "save" => GoodRequest(Request(op))
           /\ \A form \in Forms, list \in Lists \cup {Nil} :
                 LET q == [Request(op) EXCEPT !.typed = form.typed, !.base = form.base,
                                              !.opened = form.opened, !.list = list]
                 IN  q \in Requests /\ GoodRequest(q)
<1>1. /\ page.shown \in Copies /\ page.shown.head \in Heads
      /\ page.shown.manifest \in Manifest /\ page.shown.manifest # Nil
      /\ Shown.version \in Nat /\ Shown = page.shown.head
      /\ page.shown.head # Nil
  BY DEF PageInv, TypeOK, Pages, Whole, Copies, Heads, Shown
<1>2. /\ Shown.version <= row.version
      /\ Shown.version = row.version => page.shown.manifest = row.manifest
  BY <1>1 DEF PageInv, GoodCopy
<1>3. page.dialogs \in Keys
  BY DEF PageInv, TypeOK, Pages, Keys
<1>4. Request(op) \in Requests
  BY <1>1, <1>3, NoCopyIsGood DEF Request, Requests
<1>5. op # "save" => GoodRequest(Request(op))
  BY <1>2, NoCopyIsGood DEF Request, GoodRequest
<1>6. ASSUME NEW form \in Forms, NEW list \in Lists \cup {Nil}
      PROVE  LET q == [Request(op) EXCEPT !.typed = form.typed, !.base = form.base,
                                          !.opened = form.opened, !.list = list]
             IN  q \in Requests /\ GoodRequest(q)
  <2> DEFINE q == [Request(op) EXCEPT !.typed = form.typed, !.base = form.base,
                                      !.opened = form.opened, !.list = list]
  <2>1. /\ form.typed \in Manifest /\ form.base \in Manifest /\ form.opened \in Nat
    BY DEF Forms
  <2>2. q \in Requests
    BY <1>4, <2>1 DEF Requests
  <2>3. /\ q.answer = NoCopy /\ q.typed = form.typed /\ q.version = Shown.version
        /\ q.saw = page.shown.manifest
    BY DEF Request
  <2> QED
    BY <1>2, <2>1, <2>2, <2>3, NoCopyIsGood DEF GoodRequest
<1> QED
  BY <1>4, <1>5, <1>6 DEF Request

(* Nothing but the page's own state changes, and its copy stays.           *)
LEMMA PageOnly ==
    ASSUME PageInv, page' \in Pages, page'.shown = page.shown,
           page'.dialog # "none" \/ page'.form # Nil => Shows,
           UNCHANGED <<row, replay, loads, request, table>>
    PROVE  PageInv'
  BY DEF PageInv, TypeOK, GoodCopy, GoodRequest, Shows, Whole

(* A request is made, the copy shown stays.                                *)
LEMMA RequestOnly ==
    ASSUME PageInv, page' \in Pages, page'.shown = page.shown,
           page'.dialog = page.dialog, page'.form = page.form,
           UNCHANGED <<row, replay, loads, table>>,
           request' \in Requests, GoodRequest(request')
    PROVE  PageInv'
  BY DEF PageInv, TypeOK, GoodCopy, GoodRequest, Shows, Whole

(* Every click keeps the invariant.                                        *)
LEMMA ClickKeeps ==
    ASSUME PageInv, ClickStep
    PROVE  PageInv'
<1>1. /\ page \in Pages /\ page.shown \in Copies /\ page.dialogs \in 0..MaxDialogs
      /\ page.form \in Forms \cup {Nil}
  BY DEF PageInv, TypeOK, Pages
<1>2. CASE OpenPage
  <2>0. NewPage \in Pages /\ NewPage.shown = NoCopy /\ NewPage.form = Nil
        /\ NewPage.dialog = "none"
    <3>1. 0 \in 0..MaxDialogs
      BY BoundAssumption
    <3> QED
      BY <3>1, NoCopyIsGood DEF NewPage, Pages
  <2>1. page' \in Pages /\ page'.shown = NoCopy /\ page'.form = Nil
        /\ page'.dialog = "none"
    BY <1>1, <1>2, <2>0 DEF OpenPage, Pages
  <2>2. loads' = {NoCopy} /\ table' \in Tables
    BY <1>2 DEF OpenPage, NewTable, Tables
  <2>3. TypeOK'
    BY <1>2, <2>1, <2>2, NoCopyIsGood DEF OpenPage, PageInv, TypeOK
  <2>4. request' = Nil
    BY <1>2 DEF OpenPage, Busy
  <2> QED
    BY <1>2, <2>1, <2>2, <2>3, <2>4, NoCopyIsGood
       DEF OpenPage, PageInv, GoodCopy, Shows, Whole
<1>3. CASE Reload
  BY <1>3, NoCopyIsGood DEF Reload, StartLoad, PageInv, TypeOK, GoodCopy, GoodRequest,
                            Shows, Whole
<1>4. CASE StartEdit
  <2>1. page.shown.manifest \in Manifest /\ Shown.version \in Nat /\ Shows
    BY <1>1, <1>4 DEF StartEdit, Clickable, PageInv, Whole, Copies, Shown, Heads
  <2>2. page' \in Pages /\ page'.shown = page.shown
    BY <1>1, <1>4, <2>1 DEF StartEdit, Pages, Forms
  <2> QED
    BY <1>4, <2>1, <2>2, PageOnly DEF StartEdit
<1>5. ASSUME NEW part \in Parts, NEW value \in Values, Type(part, value)
      PROVE  PageInv'
  <2>1. page.form \in Forms /\ page.form.typed \in Manifest /\ Shows
    BY <1>1, <1>5 DEF Type, PageInv, Forms
  <2>2. [page.form.typed EXCEPT ![part] = value] \in Manifest
    BY <2>1 DEF Manifest
  <2>3. [page.form EXCEPT !.typed[part] = value] \in Forms
    BY <2>1, <2>2 DEF Forms
  <2>4. page' = [page EXCEPT !.form = [page.form EXCEPT !.typed[part] = value]]
    BY <1>1, <1>5 DEF Type, Pages
  <2>5. page' \in Pages /\ page'.shown = page.shown
    BY <1>1, <2>3, <2>4 DEF Pages
  <2> QED
    BY <1>5, <2>1, <2>5, PageOnly DEF Type
<1>6. CASE CancelEdit \/ OpenReview \/ OpenPublish \/ CloseDialog
  <2>1. page.dialogs < MaxDialogs => page.dialogs + 1 \in 0..MaxDialogs
    BY <1>1, BoundAssumption
  <2>2. page' \in Pages /\ page'.shown = page.shown
    BY <1>1, <1>6, <2>1 DEF CancelEdit, OpenReview, OpenPublish, CloseDialog, Pages
  <2>3. page'.dialog # "none" \/ page'.form # Nil => Shows
    BY <1>1, <1>6 DEF CancelEdit, OpenReview, OpenPublish, CloseDialog, Clickable, Pages, PageInv
  <2> QED
    BY <1>6, <2>2, <2>3, PageOnly DEF CancelEdit, OpenReview, OpenPublish, CloseDialog
<1>7. ASSUME NEW list \in Lists \cup {Nil}, Save(list)
      PROVE  PageInv'
  <2>1. page.form \in Forms /\ Shows
    BY <1>1, <1>7 DEF Save, Clickable
  <2>2. page' \in Pages /\ page'.shown = page.shown /\ page'.dialog = page.dialog
        /\ page'.form = page.form
    BY <1>1, <1>7 DEF Save, Pages
  <2>3. "save" \in Ops
    BY DEF Ops
  <2>4. request' \in Requests /\ GoodRequest(request')
    BY <1>7, <2>1, <2>3, RequestIsGood DEF Save
  <2> QED
    BY <1>7, <2>2, <2>4, RequestOnly DEF Save
<1>8. CASE Reopen \/ Confirm
  <2>1. \E op \in Ops \ {"save"} : request' = Request(op)
    BY <1>1, <1>8 DEF Reopen, Confirm, Ops, Pages
  <2>2. Shows
    BY <1>8 DEF Reopen, Confirm, Clickable, PageInv
  <2>3. request' \in Requests /\ GoodRequest(request')
    BY <2>1, <2>2, RequestIsGood
  <2> QED
    BY <1>1, <1>8, <2>3, RequestOnly DEF Reopen, Confirm
<1> QED
  BY <1>2, <1>3, <1>4, <1>5, <1>6, <1>7, <1>8 DEF ClickStep

-----------------------------------------------------------------------------
(* Requests served.                                                        *)

(* The row moves; the request, if it is the cause, is done.                *)
LEMMA RowMovesOnly ==
    ASSUME PageInv, RowMoves, UNCHANGED <<page, loads, table>>,
           row' \in [version : Nat, state : States, manifest : Manifest, list : Lists],
           replay' \in [key : Keys, version : Nat] \cup {Nil},
           \/ request' = request
           \/ request # Nil /\ request' = [request EXCEPT !.status = "done"]
    PROVE  PageInv'
<1>1. page.shown \in Copies /\ \A q \in loads : q \in Copies
  BY DEF PageInv, TypeOK, Pages
<1>2. GoodCopy(page.shown)' /\ \A q \in loads' : GoodCopy(q)'
  <2>1. \A q \in Copies : GoodCopy(q) => GoodCopy(q)'
    BY CopiesStayGood DEF PageInv
  <2> QED
    BY <1>1, <2>1 DEF PageInv, GoodCopy
<1>3. request' # Nil => request' \in Requests /\ GoodRequest(request)'
  <2>1. request # Nil => GoodRequest(request)' \/ request' # request
    BY RequestsStayGood DEF PageInv, TypeOK, GoodRequest, GoodCopy
  <2>2. CASE request' = request
    BY <2>1, <2>2 DEF PageInv, TypeOK
  <2>3. CASE request # Nil /\ request' = [request EXCEPT !.status = "done"]
    <3>1. request \in Requests /\ request.answer \in Copies /\ GoodCopy(request.answer)
      BY <2>3 DEF PageInv, TypeOK, Requests, GoodRequest
    <3>2. /\ request' \in Requests /\ request'.answer = request.answer
          /\ request'.op = request.op /\ request'.typed = request.typed
          /\ request'.status = "done"
      BY <2>3, <3>1 DEF Requests
    <3>3. \A q \in Copies : GoodCopy(q) => GoodCopy(q)'
      BY CopiesStayGood DEF PageInv
    <3> QED
      BY <2>3, <3>1, <3>2, <3>3 DEF GoodRequest, GoodCopy, PageInv
  <2> QED
    BY <2>2, <2>3
<1>4. TypeOK'
  BY <1>3 DEF PageInv, TypeOK
<1> QED
  BY <1>2, <1>3, <1>4 DEF PageInv, Shows, Whole

(* The API's steps keep the invariant.                                     *)
LEMMA ServeKeeps ==
    ASSUME PageInv, ServeStep \/ Elsewhere \/ Supersede
    PROVE  PageInv'
<1>1. /\ row \in [version : Nat, state : States, manifest : Manifest, list : Lists]
      /\ row.version \in Nat /\ row.version + 1 \in Nat /\ row.version + 1 > row.version
      /\ replay \in [key : Keys, version : Nat] \cup {Nil}
      /\ request \in Requests \cup {Nil}
  BY DEF PageInv, TypeOK
<1>2. "DRAFT" \in States /\ "READY" \in States /\ "PUBLISHED" \in States
      /\ "SUPERSEDED" \in States /\ 0 \in Keys
  BY BoundAssumption DEF States, Keys
<1>3. CASE AcceptSave
  <2>1. request \in Requests /\ request # Nil /\ request.list \in Lists \cup {Nil}
        /\ request.op = "save"
    BY <1>1, <1>3 DEF AcceptSave, Accepting, Sent, Busy, Requests
  <2>2. request.typed \in Manifest /\ SavedList(request) \in Lists
    BY <1>1, <2>1 DEF PageInv, GoodRequest, SavedList
  <2>3. row' \in [version : Nat, state : States, manifest : Manifest, list : Lists]
        /\ row'.version = row.version + 1
    BY <1>1, <1>3, <2>2 DEF AcceptSave
  <2> QED
    BY <1>1, <1>3, <2>1, <2>3, RowMovesOnly DEF AcceptSave, Accepting, RowMoves
<1>4. CASE AcceptReopen \/ AcceptReview
  <2>1. request # Nil
    BY <1>4 DEF AcceptReopen, AcceptReview, Accepting, Sent, Busy
  <2>2. row' \in [version : Nat, state : States, manifest : Manifest, list : Lists]
        /\ row'.version = row.version + 1
    BY <1>1, <1>2, <1>4 DEF AcceptReopen, AcceptReview
  <2> QED
    BY <1>1, <1>4, <2>1, <2>2, RowMovesOnly DEF AcceptReopen, AcceptReview, Accepting, RowMoves
<1>5. CASE AcceptPublish
  <2>1. request # Nil /\ request \in Requests
    BY <1>1, <1>5 DEF AcceptPublish, Accepting, Sent, Busy
  <2>2. row' \in [version : Nat, state : States, manifest : Manifest, list : Lists]
        /\ row'.version = row.version + 1
    BY <1>1, <1>2, <1>5 DEF AcceptPublish
  <2>3. replay' \in [key : Keys, version : Nat] \cup {Nil}
    BY <1>5, <2>1 DEF AcceptPublish, Requests
  <2> QED
    BY <1>1, <1>5, <2>1, <2>2, <2>3, RowMovesOnly DEF AcceptPublish, Accepting, RowMoves
<1>6. CASE Replay \/ Refuse
  <2>1. /\ request # Nil /\ request \in Requests /\ GoodRequest(request)
        /\ UNCHANGED <<row, replay, page, loads, table>>
        /\ \/ request' = [request EXCEPT !.status = "done"]
           \/ request' = [request EXCEPT !.status = "refused"]
    BY <1>1, <1>6 DEF Replay, Refuse, Sent, Busy, PageInv
  <2>2. request' \in Requests /\ GoodRequest(request')
    BY <2>1 DEF Requests, GoodRequest
  <2> QED
    BY <2>1, <2>2, RequestOnly DEF PageInv, TypeOK
<1>7. CASE ReadAnswer
  <2>1. PICK new \in AfterRead(request.answer) : request' = [request EXCEPT !.answer = new]
    BY <1>7 DEF ReadAnswer
  <2>2. /\ request \in Requests /\ request # Nil /\ GoodRequest(request)
        /\ request.answer \in Copies /\ GoodCopy(request.answer)
        /\ request.status = "done"
    BY <1>1, <1>7 DEF ReadAnswer, Busy, PageInv, Requests, GoodRequest
  <2>3. new \in Copies /\ GoodCopy(new)
    BY <2>2, ReadIsGood DEF PageInv
  <2>4. request' \in Requests
    BY <2>1, <2>2, <2>3 DEF Requests
  <2>5. /\ request'.answer = new /\ request'.op = request.op /\ request'.typed = request.typed
        /\ request'.status = "done"
    BY <2>1, <2>2 DEF Requests
  <2>6. GoodRequest(request')
    BY <2>2, <2>3, <2>5 DEF GoodRequest
  <2> QED
    BY <1>7, <2>4, <2>6, RequestOnly DEF ReadAnswer, PageInv, TypeOK
<1>8. CASE Elsewhere
  <2> DEFINE Rows == [version : Nat, state : States, manifest : Manifest, list : Lists]
             Replays == [key : Keys, version : Nat] \cup {Nil}
  <2>1. ASSUME NEW manifest \in Manifest, NEW list \in Lists, UNCHANGED replay,
               row' = [row EXCEPT !.version = @ + 1, !.manifest = manifest, !.list = list]
        PROVE  row' \in Rows /\ row'.version = row.version + 1 /\ replay' \in Replays
    BY <1>1, <2>1
  <2>2. ASSUME NEW state \in {"DRAFT", "READY"}, UNCHANGED replay,
               row' = [row EXCEPT !.version = @ + 1, !.state = state]
        PROVE  row' \in Rows /\ row'.version = row.version + 1 /\ replay' \in Replays
    BY <1>1, <1>2, <2>2
  <2>3. ASSUME row' = [row EXCEPT !.version = @ + 1, !.state = "PUBLISHED"],
               replay' = [key |-> 0, version |-> row.version]
        PROVE  row' \in Rows /\ row'.version = row.version + 1 /\ replay' \in Replays
    BY <1>1, <1>2, <2>3
  <2>4. row' \in Rows /\ row'.version = row.version + 1 /\ replay' \in Replays
    <3> HIDE DEF Rows, Replays
    <3> QED
      BY <1>8, <2>1, <2>2, <2>3 DEF Elsewhere
  <2>5. UNCHANGED <<page, loads, request, table>>
    BY <1>8 DEF Elsewhere
  <2> QED
    BY <1>1, <2>4, <2>5, RowMovesOnly DEF RowMoves
<1>9. CASE Supersede
  <2>1. row' \in [version : Nat, state : States, manifest : Manifest, list : Lists]
        /\ row'.version = row.version
    BY <1>1, <1>2, <1>9 DEF Supersede
  <2> QED
    BY <1>1, <1>9, <2>1, RowMovesOnly DEF Supersede, RowMoves
<1> QED
  BY <1>3, <1>4, <1>5, <1>6, <1>7, <1>8, <1>9 DEF ServeStep

(* The page's handling of an answer keeps the invariant.                   *)
LEMMA AnswerKeeps ==
    ASSUME PageInv, AnswerStep
    PROVE  PageInv'
<1>1. /\ page \in Pages /\ request \in Requests \cup {Nil} /\ table \in Tables
      /\ loads \in SUBSET Copies
  BY DEF PageInv, TypeOK
<1>2. CASE Saved
  <2>1. /\ request.answer \in Copies /\ GoodCopy(request.answer) /\ Whole(request.answer)
    BY <1>1, <1>2 DEF Saved, Busy, PageInv, Requests, GoodRequest
  <2>2. /\ page' \in Pages /\ page'.shown = request.answer /\ page'.form = Nil
    BY <1>1, <1>2, <2>1 DEF Saved, Pages
  <2>3. table' \in Tables
    BY <1>1, <1>2 DEF Saved, Fetching, Tables
  <2>4. request.answer # NoCopy
    BY <2>1, NoCopyIsGood
  <2>5. loads' \in SUBSET Copies /\ \A q \in loads' : GoodCopy(q)
    BY <1>1, <1>2, NoCopyIsGood DEF Saved, StartLoad, PageInv
  <2>6. request' = Nil /\ UNCHANGED <<row, replay>>
    BY <1>2 DEF Saved
  <2>7. TypeOK'
    BY <2>2, <2>3, <2>5, <2>6 DEF PageInv, TypeOK
  <2> QED
    BY <2>1, <2>2, <2>4, <2>5, <2>6, <2>7 DEF PageInv, GoodCopy, Shows, Whole
<1>3. CASE Done
  <2>1. /\ page' \in Pages /\ page'.shown = page.shown /\ page'.form = page.form
        /\ page'.dialog # "none" => page'.dialog = page.dialog
    BY <1>1, <1>3 DEF Done, Pages
  <2>2. loads' \in SUBSET Copies /\ \A q \in loads' : GoodCopy(q)
    BY <1>1, <1>3, NoCopyIsGood DEF Done, StartLoad, PageInv
  <2>3. request' = Nil /\ UNCHANGED <<row, replay, table>>
    BY <1>3 DEF Done
  <2>4. TypeOK'
    BY <1>1, <2>1, <2>2, <2>3 DEF PageInv, TypeOK
  <2> QED
    BY <2>1, <2>2, <2>3, <2>4 DEF PageInv, GoodCopy, Shows, Whole
<1>4. CASE Refused \/ Lost
  <2>1. PICK conflict \in BOOLEAN : Failed(conflict)
    BY <1>4 DEF Refused, Lost
  <2>2. /\ page' \in Pages /\ page'.shown = page.shown /\ page'.form = page.form
        /\ page'.dialog = page.dialog
    BY <1>1, <2>1 DEF Failed, Pages
  <2>3. request' = Nil /\ UNCHANGED <<row, replay, loads, table>>
    BY <2>1 DEF Failed
  <2>4. TypeOK'
    BY <1>1, <2>2, <2>3 DEF PageInv, TypeOK
  <2> QED
    BY <2>2, <2>3, <2>4 DEF PageInv, GoodCopy, Shows, Whole
<1> QED
  BY <1>2, <1>3, <1>4 DEF AnswerStep

-----------------------------------------------------------------------------

(* The invariant holds when the page is first opened.                      *)
LEMMA InitPageInv == Init => PageInv
<1> SUFFICES ASSUME Init PROVE PageInv
  OBVIOUS
<1>1. row \in [version : Nat, state : States, manifest : Manifest, list : Lists]
  BY DEF Init, States
<1>2. NewPage \in Pages
  <2>1. 0 \in 0..MaxDialogs
    BY BoundAssumption
  <2> QED
    BY <2>1, NoCopyIsGood DEF NewPage, Pages
<1>3. NewTable \in Tables
  BY DEF NewTable, Tables
<1>4. page.shown = NoCopy /\ page.dialog = "none" /\ page.form = Nil
  BY DEF Init, NewPage
<1> QED
  BY <1>1, <1>2, <1>3, <1>4, NoCopyIsGood DEF Init, PageInv, TypeOK, Shows

(* Every step keeps the invariant.                                         *)
LEMMA NextKeeps == PageInv /\ [Next]_vars => PageInv'
<1> SUFFICES ASSUME PageInv, [Next]_vars PROVE PageInv'
  OBVIOUS
<1>1. CASE UNCHANGED vars
  BY <1>1 DEF vars, PageInv, TypeOK, GoodCopy, GoodRequest, Shows, Whole
<1> QED
  BY <1>1, LoadKeeps, ClickKeeps, ServeKeeps, AnswerKeeps DEF Next

(* The invariant holds always.                                             *)
THEOREM PageInvariant == Spec => []PageInv
  BY InitPageInv, NextKeeps, PTL DEF Spec

(* An administrator who sees the newest edit version of a revision sees    *)
(* its newest content, in every interleaving of loads, answers and changes *)
(* from elsewhere.                                                         *)
THEOREM PagesAreExact == Spec => []FreshPageIsExact
<1>1. PageInv => FreshPageIsExact
  <2> SUFFICES ASSUME PageInv, Shows, Shown.version = row.version
               PROVE  /\ page.shown.manifest = row.manifest
                      /\ Shown.state = row.state \/ row.state = "SUPERSEDED"
    BY DEF FreshPageIsExact
  <2> QED
    BY DEF PageInv, GoodCopy, Whole, Shown
<1> QED
  BY <1>1, PageInvariant, PTL

(* What is reviewed or published from a page is what the page showed when  *)
(* the administrator confirmed it.                                         *)
THEOREM DecisionsAreAsShown == Spec => DecidedAsShown
<1>1. ASSUME PageInv, [Next]_vars, Accepted, row'.state # row.state
      PROVE  request.saw = row'.manifest
  <2>1. /\ request \in Requests /\ GoodRequest(request) /\ request # Nil
        /\ request.status = "sent" /\ request'.status = "done" /\ request' # request
    BY <1>1 DEF Accepted, Busy, PageInv, TypeOK, Requests
  <2>2. VersionMatches(request) /\ row'.manifest = row.manifest
    <3>1. /\ row \in [version : Nat, state : States, manifest : Manifest, list : Lists]
          /\ row' # row
      BY <1>1 DEF PageInv, TypeOK
    <3>2. ~LoadStep /\ ~ClickStep /\ ~ReadAnswer /\ ~Replay /\ ~Refuse
      BY <3>1 DEF LoadStep, ReadLoad, DeliverLoad, LoseLoad, ReadTable, DeliverTable, LoseTable,
                  ClickStep, OpenPage, Reload, StartEdit, CancelEdit, Reopen, Type, Save,
                  OpenReview, OpenPublish, CloseDialog, Confirm, ReadAnswer, Replay, Refuse
    <3>3. ~AnswerStep
      BY <3>1 DEF AnswerStep, Saved, Done, Refused, Lost, Failed
    <3>4. ~Elsewhere /\ ~Supersede
      BY <2>1 DEF Elsewhere, Supersede
    <3>5. AcceptSave \/ AcceptReopen \/ AcceptReview \/ AcceptPublish
      BY <1>1, <3>1, <3>2, <3>3, <3>4 DEF Next, ServeStep, vars
    <3>6. VersionMatches(request) /\ row.state = StateFor(request.op)
      BY <3>5 DEF AcceptSave, AcceptReopen, AcceptReview, AcceptPublish, Accepting, Accepts
    <3>7. ~AcceptSave
      BY <1>1, <3>1 DEF AcceptSave
    <3> QED
      BY <3>1, <3>5, <3>6, <3>7 DEF AcceptReopen, AcceptReview, AcceptPublish
  <2> QED
    BY <2>1, <2>2 DEF GoodRequest, VersionMatches
<1>2. PageInv /\ [Next]_vars => [Accepted /\ row'.state # row.state =>
                                    request.saw = row'.manifest]_vars
  BY <1>1
<1> QED
  BY <1>2, PageInvariant, PTL DEF Spec, DecidedAsShown

-----------------------------------------------------------------------------
(* The table of entries, the forms, and what is published.                 *)

(* A form, or the save sent from it, was opened on a version the row has   *)
(* had; if it still has it, on the manifest the row has.                   *)
GoodBase(f) ==
    /\ f.opened \in Nat /\ f.opened <= row.version
    /\ f.opened = row.version => f.base = row.manifest

(* A table whose fetch is done, or has read the entries, has those of the  *)
(* version shown, unless the row has moved on.                             *)
GoodTable ==
    Shows /\ Shown.version = row.version =>
        /\ table.fetch = "idle" => table.list = row.list
        /\ table.fetch = "read" => table.coming = row.list

(* What PageInv needs beside it for the three.                             *)
KeptInv ==
    /\ page.form # Nil => GoodBase(page.form)
    /\ request # Nil /\ request.op = "save" => GoodBase(request)
    /\ GoodTable
    /\ row.state \in {"PUBLISHED", "SUPERSEDED"} => replay # Nil

(* The row keeps its manifest and entries for as long as it keeps its      *)
(* version.                                                                *)
RowKeeps == row'.version = row.version /\ row'.manifest = row.manifest /\ row'.list = row.list
RowGoesOn == row'.version \in Nat /\ row'.version > row.version

(* Every step of the API either keeps the row's version, with its content, *)
(* or goes on to a later one.                                              *)
LEMMA RowSteps ==
    ASSUME PageInv, [Next]_vars
    PROVE  RowKeeps \/ RowGoesOn
<1>1. row \in [version : Nat, state : States, manifest : Manifest, list : Lists]
      /\ row.version + 1 \in Nat /\ row.version + 1 > row.version
  BY DEF PageInv, TypeOK
<1>2. CASE LoadStep
  BY <1>2 DEF LoadStep, ReadLoad, DeliverLoad, LoseLoad, ReadTable, DeliverTable, LoseTable, RowKeeps
<1>3. CASE ClickStep
  BY <1>3 DEF ClickStep, OpenPage, Reload, StartEdit, CancelEdit, Reopen, Type, Save, OpenReview,
              OpenPublish, CloseDialog, Confirm, RowKeeps
<1>4. CASE ServeStep
  <2>1. CASE AcceptSave
    BY <1>1, <2>1 DEF AcceptSave, RowGoesOn
  <2>2. CASE AcceptReopen \/ AcceptReview \/ AcceptPublish
    BY <1>1, <2>2 DEF AcceptReopen, AcceptReview, AcceptPublish, RowGoesOn
  <2>3. CASE Replay \/ Refuse \/ ReadAnswer
    BY <2>3 DEF Replay, Refuse, ReadAnswer, RowKeeps
  <2> QED
    BY <1>4, <2>1, <2>2, <2>3 DEF ServeStep
<1>5. CASE AnswerStep
  BY <1>5 DEF AnswerStep, Saved, Done, Refused, Lost, Failed, RowKeeps
<1>6. CASE Elsewhere
  BY <1>1, <1>6 DEF Elsewhere, RowGoesOn
<1>7. CASE Supersede
  BY <1>1, <1>7 DEF Supersede, RowKeeps
<1>8. CASE UNCHANGED vars
  BY <1>8 DEF vars, RowKeeps
<1> QED
  BY <1>2, <1>3, <1>4, <1>5, <1>6, <1>7, <1>8 DEF Next

(* The form open on the page stays the one it is, is closed, or has just   *)
(* been opened on what the page shows.                                     *)
LEMMA FormSteps ==
    ASSUME PageInv, [Next]_vars, page'.form # Nil
    PROVE  \/ page.form # Nil /\ page'.form.opened = page.form.opened
              /\ page'.form.base = page.form.base
           \/ Shows /\ page'.form.opened = Shown.version /\ page'.form.base = page.shown.manifest
              /\ row' = row
<1>1. /\ page \in Pages /\ page.form \in Forms \cup {Nil}
  BY DEF PageInv, TypeOK, Pages
<1>2. CASE LoadStep
  BY <1>1, <1>2 DEF LoadStep, ReadLoad, DeliverLoad, LoseLoad, ReadTable, DeliverTable, LoseTable, Pages
<1>3. CASE ClickStep
  <2>1. CASE StartEdit
    BY <1>1, <2>1 DEF StartEdit, Clickable, Pages
  <2>2. ASSUME NEW part \in Parts, NEW value \in Values, Type(part, value)
        PROVE  page.form # Nil /\ page'.form.opened = page.form.opened
               /\ page'.form.base = page.form.base
    <3>1. page' = [page EXCEPT !.form = [page.form EXCEPT !.typed[part] = value]]
      BY <1>1, <2>2 DEF Type, Pages
    <3> QED
      BY <1>1, <2>2, <3>1 DEF Type, Pages, Forms
  <2>3. CASE OpenPage \/ CancelEdit
    BY <1>1, <2>3 DEF OpenPage, NewPage, CancelEdit, Pages
  <2>4. ASSUME NEW list \in Lists \cup {Nil}, Save(list)
        PROVE  page'.form = page.form
    BY <1>1, <2>4 DEF Save, Pages
  <2>5. CASE OpenReview \/ OpenPublish \/ CloseDialog
    BY <1>1, <2>5 DEF OpenReview, OpenPublish, CloseDialog, Pages
  <2>6. CASE Reload \/ Reopen \/ Confirm
    BY <2>6 DEF Reload, Reopen, Confirm
  <2> QED
    BY <1>3, <2>1, <2>2, <2>3, <2>4, <2>5, <2>6 DEF ClickStep
<1>4. CASE ServeStep \/ Elsewhere \/ Supersede \/ UNCHANGED vars
  BY <1>4 DEF ServeStep, AcceptSave, AcceptReopen, AcceptReview, AcceptPublish, Accepting, Replay,
              Refuse, ReadAnswer, Elsewhere, Supersede, vars
<1>5. CASE AnswerStep
  BY <1>1, <1>5 DEF AnswerStep, Saved, Done, Refused, Lost, Failed, Pages
<1> QED
  BY <1>2, <1>3, <1>4, <1>5 DEF Next

(* A save under way stays the one it is, or has just been sent from the    *)
(* form open on the page.                                                  *)
LEMMA SaveSteps ==
    ASSUME PageInv, [Next]_vars, request' # Nil, request'.op = "save"
    PROVE  \/ request # Nil /\ request.op = "save"
              /\ request'.opened = request.opened /\ request'.base = request.base
           \/ page.form # Nil /\ request'.opened = page.form.opened
              /\ request'.base = page.form.base
<1>1. request \in Requests \cup {Nil}
  BY DEF PageInv, TypeOK
<1>2. CASE LoadStep
  BY <1>2 DEF LoadStep, ReadLoad, DeliverLoad, LoseLoad, ReadTable, DeliverTable, LoseTable
<1>3. CASE ClickStep
  <2>1. ASSUME NEW list \in Lists \cup {Nil}, Save(list)
        PROVE  page.form # Nil /\ request'.opened = page.form.opened
               /\ request'.base = page.form.base
    BY <2>1 DEF Save, Request
  <2>2. ASSUME NEW part \in Parts, NEW value \in Values, Type(part, value)
        PROVE  request' = request
    BY <2>2 DEF Type
  <2>3. CASE Reopen \/ Confirm
    BY <2>3 DEF Reopen, Confirm, Request, PageInv, TypeOK, Pages
  <2>4. CASE OpenPage \/ Reload \/ StartEdit \/ CancelEdit \/ OpenReview \/ OpenPublish \/ CloseDialog
    BY <2>4 DEF OpenPage, Reload, StartEdit, CancelEdit, OpenReview, OpenPublish, CloseDialog
  <2> QED
    BY <1>3, <2>1, <2>2, <2>3, <2>4 DEF ClickStep
<1>4. CASE ServeStep
  <2>1. \/ request' = request
        \/ /\ request # Nil
           /\ \/ request' = [request EXCEPT !.status = "done"]
              \/ request' = [request EXCEPT !.status = "refused"]
              \/ \E new : request' = [request EXCEPT !.answer = new]
    BY <1>4 DEF ServeStep, AcceptSave, AcceptReopen, AcceptReview, AcceptPublish, Accepting, Sent,
                Busy, Replay, Refuse, ReadAnswer
  <2> QED
    BY <1>1, <2>1 DEF Requests
<1>5. CASE AnswerStep
  BY <1>5 DEF AnswerStep, Saved, Done, Refused, Lost, Failed
<1>6. CASE Elsewhere \/ Supersede \/ UNCHANGED vars
  BY <1>6 DEF Elsewhere, Supersede, vars
<1> QED
  BY <1>2, <1>3, <1>4, <1>5, <1>6 DEF Next

(* A published row and the record of its publication stay; a row becomes   *)
(* public only with its record.                                            *)
LEMMA PublishedSteps ==
    ASSUME PageInv, KeptInv, [Next]_vars
    PROVE  /\ row.state \in {"PUBLISHED", "SUPERSEDED"} =>
                 /\ row' = row \/ row' = [row EXCEPT !.state = "SUPERSEDED"]
                 /\ replay' = replay
           /\ row'.state \in {"PUBLISHED", "SUPERSEDED"} => replay' # Nil
<1>1. row \in [version : Nat, state : States, manifest : Manifest, list : Lists]
      /\ request \in Requests \cup {Nil}
  BY DEF PageInv, TypeOK
<1>2. CASE UNCHANGED <<row, replay>>
  BY <1>2 DEF KeptInv
<1>3. CASE LoadStep
  BY <1>2, <1>3 DEF LoadStep, ReadLoad, DeliverLoad, LoseLoad, ReadTable, DeliverTable, LoseTable
<1>4. CASE ClickStep
  BY <1>2, <1>4 DEF ClickStep, OpenPage, Reload, StartEdit, CancelEdit, Reopen, Type, Save, OpenReview,
              OpenPublish, CloseDialog, Confirm
<1>5. CASE ServeStep
  <2>1. CASE AcceptSave
    BY <1>1, <2>1 DEF AcceptSave, Accepting, Sent, Accepts, StateFor
  <2>2. CASE AcceptReopen
    BY <1>1, <2>2 DEF AcceptReopen, Accepting, Sent, Accepts, StateFor
  <2>3. CASE AcceptReview
    BY <1>1, <2>3 DEF AcceptReview, Accepting, Sent, Accepts, StateFor
  <2>4. CASE AcceptPublish
    <3>1. row.state = "READY"
      BY <2>4 DEF AcceptPublish, Accepting, Sent, Accepts, StateFor
    <3>2. replay' # Nil
      <4>1. replay' = [key |-> request.key, version |-> request.version]
        BY <2>4 DEF AcceptPublish
      <4> QED
        BY <1>1, <2>4, <4>1, NilAssumption DEF AcceptPublish, Accepting, Sent, Busy, Requests, Keys
    <3> QED
      BY <3>1, <3>2
  <2>5. CASE Replay \/ Refuse \/ ReadAnswer
    BY <1>2, <2>5 DEF Replay, Refuse, ReadAnswer
  <2> QED
    BY <1>5, <2>1, <2>2, <2>3, <2>4, <2>5 DEF ServeStep
<1>6. CASE AnswerStep
  BY <1>2, <1>6 DEF AnswerStep, Saved, Done, Refused, Lost, Failed
<1>7. CASE Elsewhere
  <2>1. row.version \in Nat /\ [key |-> 0, version |-> row.version] \in [key : Nat, version : Nat]
    BY <1>1
  <2> QED
    BY <1>1, <1>7, <2>1, NilAssumption DEF Elsewhere
<1>8. CASE Supersede
  BY <1>1, <1>8 DEF Supersede, KeptInv
<1>9. CASE UNCHANGED vars
  BY <1>2, <1>9 DEF vars
<1> QED
  BY <1>3, <1>4, <1>5, <1>6, <1>7, <1>8, <1>9 DEF Next

(* A copy is shown: either the fetch of the entries begins anew, or the    *)
(* version shown is the one shown before.                                  *)
LEMMA ShowingKeepsTable ==
    ASSUME PageInv, GoodTable, NEW copy \in Copies, Whole(copy),
           page' = [page EXCEPT !.shown = copy] \/ page' = [page EXCEPT !.shown = copy, !.form = Nil],
           Fetching(copy), row' = row
    PROVE  GoodTable'
<1>1. page \in Pages /\ table \in Tables /\ page'.shown = copy
  BY DEF PageInv, TypeOK, Pages
<1>2. CASE Refetches(copy)
  <2>1. table'.fetch = "asked"
    BY <1>1, <1>2 DEF Fetching, Tables
  <2> QED
    BY <2>1 DEF GoodTable
<1>3. CASE ~Refetches(copy)
  <2>1. Shows /\ copy.head.version = Shown.version /\ table' = table
    BY <1>3 DEF Refetches, Fetching
  <2> QED
    BY <1>1, <2>1 DEF GoodTable, Shown
<1> QED
  BY <1>2, <1>3

(* Nothing happens to the copy shown and to the table.                     *)
LEMMA RowKeepsTable ==
    ASSUME PageInv, GoodTable, [Next]_vars, page'.shown = page.shown, table' = table
    PROVE  GoodTable'
<1>1. Shows => Shown.version \in Nat /\ Shown.version <= row.version /\ row.version \in Nat
  BY DEF PageInv, TypeOK, Whole, GoodCopy, Pages, Copies, Heads, Shown
<1> QED
  BY <1>1, RowSteps DEF GoodTable, RowKeeps, RowGoesOn, Shows, Shown

(* Every step leaves the table as good as it was.                          *)
LEMMA TableSteps ==
    ASSUME PageInv, GoodTable, [Next]_vars
    PROVE  GoodTable'
<1>1. page \in Pages /\ table \in Tables
  BY DEF PageInv, TypeOK
<1>2. CASE LoadStep
  <2>1. ASSUME NEW q \in loads, ReadLoad(q) PROVE GoodTable'
    BY <2>1, RowKeepsTable DEF ReadLoad
  <2>2. ASSUME NEW q \in loads, DeliverLoad(q) PROVE GoodTable'
    <3>1. q \in Copies
      BY DEF PageInv, TypeOK
    <3> QED
      BY <2>2, <3>1, ShowingKeepsTable DEF DeliverLoad
  <2>3. ASSUME NEW q \in loads, LoseLoad(q) PROVE GoodTable'
    <3>1. page'.shown = page.shown
      BY <1>1, <2>3 DEF LoseLoad, Pages
    <3> QED
      BY <2>3, <3>1, RowKeepsTable DEF LoseLoad
  <2>4. CASE ReadTable
    <3>1. table'.fetch = "read" /\ table'.coming = row.list /\ UNCHANGED <<row, page>>
      BY <1>1, <2>4 DEF ReadTable, Tables
    <3> QED
      BY <3>1 DEF GoodTable
  <2>5. CASE DeliverTable
    <3>1. table'.fetch = "idle" /\ table'.list = table.coming /\ UNCHANGED <<row, page>>
      BY <2>5 DEF DeliverTable
    <3> QED
      BY <2>5, <3>1 DEF GoodTable, DeliverTable, Shows, Shown
  <2>6. CASE LoseTable
    <3>1. table'.fetch = "failed"
      BY <1>1, <2>6 DEF LoseTable, Tables
    <3> QED
      BY <3>1 DEF GoodTable
  <2> QED
    BY <1>2, <2>1, <2>2, <2>3, <2>4, <2>5, <2>6 DEF LoadStep
<1>3. CASE ClickStep
  <2>1. CASE OpenPage
    <3>1. page'.shown = NoCopy
      BY <1>1, <2>1 DEF OpenPage, NewPage, Pages
    <3> QED
      BY <3>1 DEF GoodTable, Shows
  <2>2. CASE ~OpenPage
    <3>1. page'.shown = page.shown /\ table' = table
      BY <1>1, <1>3, <2>2 DEF ClickStep, Reload, StartEdit, CancelEdit, Reopen, Type, Save, OpenReview,
                              OpenPublish, CloseDialog, Confirm, Pages
    <3> QED
      BY <3>1, RowKeepsTable
  <2> QED
    BY <2>1, <2>2
<1>4. CASE ServeStep \/ Elsewhere \/ Supersede \/ UNCHANGED vars
  <2>1. UNCHANGED <<page, table>>
    BY <1>4 DEF ServeStep, AcceptSave, AcceptReopen, AcceptReview, AcceptPublish, Accepting, Replay,
                Refuse, ReadAnswer, Elsewhere, Supersede, vars
  <2> QED
    BY <2>1, RowKeepsTable
<1>5. CASE AnswerStep
  <2>1. CASE Saved
    <3>1. request.answer \in Copies
      BY <2>1 DEF Saved, Busy, PageInv, TypeOK, Requests
    <3> QED
      BY <2>1, <3>1, ShowingKeepsTable DEF Saved
  <2>2. CASE Done \/ Refused \/ Lost
    <3>1. page'.shown = page.shown /\ table' = table
      BY <1>1, <2>2 DEF Done, Refused, Lost, Failed, Pages
    <3> QED
      BY <3>1, RowKeepsTable
  <2> QED
    BY <1>5, <2>1, <2>2 DEF AnswerStep
<1> QED
  BY <1>2, <1>3, <1>4, <1>5 DEF Next

-----------------------------------------------------------------------------
LEMMA InitKeptInv == Init => KeptInv
<1> SUFFICES ASSUME Init PROVE KeptInv
  OBVIOUS
<1>1. page.form = Nil /\ ~Shows /\ request = Nil /\ row.state = "DRAFT"
  BY DEF Init, NewPage, Shows
<1> QED
  BY <1>1 DEF KeptInv, GoodTable

LEMMA NextKeepsKept == PageInv /\ KeptInv /\ [Next]_vars => KeptInv'
<1> SUFFICES ASSUME PageInv, KeptInv, [Next]_vars PROVE KeptInv'
  OBVIOUS
<1>1. page'.form # Nil => GoodBase(page.form)'
  <2> SUFFICES ASSUME page'.form # Nil PROVE GoodBase(page.form)'
    OBVIOUS
  <2>1. CASE page.form # Nil /\ page'.form.opened = page.form.opened
             /\ page'.form.base = page.form.base
    <3>1. GoodBase(page.form)
      BY <2>1 DEF KeptInv
    <3>2. /\ page.form.opened \in Nat /\ page.form.opened <= row'.version
          /\ page.form.opened = row'.version => page.form.base = row'.manifest
      <4>1. row.version \in Nat
        BY DEF PageInv, TypeOK
      <4> QED
        BY <3>1, <4>1, RowSteps DEF GoodBase, RowKeeps, RowGoesOn
    <3> QED
      BY <2>1, <3>2 DEF GoodBase
  <2>2. CASE Shows /\ page'.form.opened = Shown.version /\ page'.form.base = page.shown.manifest
             /\ row' = row
    <3>1. /\ Shown.version \in Nat /\ Shown.version <= row.version
          /\ Shown.version = row.version => page.shown.manifest = row.manifest
      BY <2>2 DEF PageInv, TypeOK, Pages, Copies, Heads, Whole, GoodCopy, Shown
    <3> QED
      BY <2>2, <3>1 DEF GoodBase
  <2> QED
    BY <2>1, <2>2, FormSteps
<1>2. request' # Nil /\ request'.op = "save" => GoodBase(request)'
  <2> SUFFICES ASSUME request' # Nil, request'.op = "save" PROVE GoodBase(request)'
    OBVIOUS
  <2>1. PICK opened, base : /\ request'.opened = opened /\ request'.base = base
                            /\ opened \in Nat /\ opened <= row.version
                            /\ opened = row.version => base = row.manifest
    BY SaveSteps DEF KeptInv, GoodBase
  <2>2. row.version \in Nat
    BY DEF PageInv, TypeOK
  <2> QED
    BY <2>1, <2>2, RowSteps DEF GoodBase, RowKeeps, RowGoesOn
<1>3. GoodTable'
  BY TableSteps DEF KeptInv
<1>4. row'.state \in {"PUBLISHED", "SUPERSEDED"} => replay' # Nil
  BY PublishedSteps
<1> QED
  BY <1>1, <1>2, <1>3, <1>4 DEF KeptInv

(* The two invariants hold together.                                       *)
THEOREM KeptInvariant == Spec => [](PageInv /\ KeptInv)
<1>1. Init => PageInv /\ KeptInv
  BY InitPageInv, InitKeptInv
<1>2. PageInv /\ KeptInv /\ [Next]_vars => (PageInv /\ KeptInv)'
  BY NextKeeps, NextKeepsKept
<1> QED
  BY <1>1, <1>2, PTL DEF Spec

(* A page that shows the newest edit version, and whose fetch has come     *)
(* back, shows the newest winning entries.                                 *)
THEOREM TablesAreExact == Spec => []FreshTableIsExact
<1>1. KeptInv => FreshTableIsExact
  BY DEF KeptInv, GoodTable, FreshTableIsExact
<1> QED
  BY <1>1, KeptInvariant, PTL

(* A save through a form opened on the version it is sent with takes back  *)
(* nothing that others saved.                                              *)
THEOREM OwnFormsLoseNothing == Spec => OwnFormLosesNothing
<1>1. ASSUME PageInv, KeptInv, [Next]_vars, Accepted, request.op = "save",
             request.opened = request.version, NEW part \in Parts,
             row'.manifest[part] # row.manifest[part]
      PROVE  request.typed[part] # request.base[part]
  <2>1. /\ request # Nil /\ request \in Requests /\ request.status = "sent"
        /\ request'.status = "done" /\ request' # request
    BY <1>1 DEF Accepted, Busy, PageInv, TypeOK, Requests
  <2>2. row \in [version : Nat, state : States, manifest : Manifest, list : Lists]
        /\ row'.manifest # row.manifest
    BY <1>1 DEF PageInv, TypeOK
  <2>3. AcceptSave
    <3>1. ~LoadStep
      BY <2>2 DEF LoadStep, ReadLoad, DeliverLoad, LoseLoad, ReadTable, DeliverTable, LoseTable
    <3>2. ~ClickStep
      BY <2>2 DEF ClickStep, OpenPage, Reload, StartEdit, CancelEdit, Reopen, Type, Save,
                  OpenReview, OpenPublish, CloseDialog, Confirm
    <3>3. ~AnswerStep
      BY <2>2 DEF AnswerStep, Saved, Done, Refused, Lost, Failed
    <3>4. ~Elsewhere /\ ~Supersede
      BY <2>1 DEF Elsewhere, Supersede
    <3>5. ~AcceptReopen /\ ~AcceptReview /\ ~AcceptPublish /\ ~Replay /\ ~Refuse /\ ~ReadAnswer
      BY <2>2 DEF AcceptReopen, AcceptReview, AcceptPublish, Replay, Refuse, ReadAnswer
    <3> QED
      BY <1>1, <2>2, <3>1, <3>2, <3>3, <3>4, <3>5 DEF Next, ServeStep, vars
  <2>4. request.version = row.version /\ row'.manifest = request.typed
    BY <2>2, <2>3 DEF AcceptSave, Accepting, Accepts, VersionMatches
  <2>5. request.base = row.manifest
    BY <1>1, <2>1, <2>4 DEF KeptInv, GoodBase
  <2> QED
    BY <1>1, <2>4, <2>5
<1>2. PageInv /\ KeptInv /\ [Next]_vars =>
          [Accepted /\ request.op = "save" /\ request.opened = request.version =>
             \A part \in Parts : row'.manifest[part] # row.manifest[part] =>
                 request.typed[part] # request.base[part]]_vars
  BY <1>1
<1> QED
  BY <1>2, KeptInvariant, PTL DEF Spec, OwnFormLosesNothing

(* A published revision keeps its content, its version and the record of   *)
(* its publication for good, whatever is sent again.                       *)
THEOREM PublishedForGood == Spec => PublishedStays
<1>1. PageInv /\ KeptInv /\ [Next]_vars =>
          [row.state \in {"PUBLISHED", "SUPERSEDED"} =>
             /\ row' = row \/ row' = [row EXCEPT !.state = "SUPERSEDED"]
             /\ replay # Nil /\ replay' = replay]_vars
  BY PublishedSteps DEF KeptInv
<1> QED
  BY <1>1, KeptInvariant, PTL DEF Spec, PublishedStays

=============================================================================
