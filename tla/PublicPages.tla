----------------------------- MODULE PublicPages -----------------------------
(***************************************************************************)
(* The pages of the public site that ask for more than one thing: the home *)
(* page, the ticket check (TicketChecker), the search of past results      *)
(* (HistoryNumberSearch) and the page of one result.  A browser has one of *)
(* them open; what it shows is put together from answers of different ages *)
(* while administrators publish, correct, withhold and release results.    *)
(***************************************************************************)
EXTENDS PublicReads

CONSTANTS
    Pages,         \* the pages a browser may have open
    Linked,        \* draws that the address of the ticket check may name
    MaxRequests    \* bound: requests sent by each page

VARIABLES
    open,          \* the page that is open
    checker,       \* state of TicketChecker
    search,        \* state of HistoryNumberSearch
    page           \* the home page or the page of one result, as rendered

ASSUME LinkedAssumption == Linked \subseteq Draws
ASSUME RequestsAssumption == MaxRequests \in [Pages -> Nat]

vars == <<readVars, open, checker, search, page>>

MaySend(n) == sent + n <= MaxRequests[open]

(***************************************************************************)
(* TicketChecker.                                                          *)
(***************************************************************************)
Blank(t) == [t EXCEPT !.series = ""]
Unfilled == [series |-> "", number |-> ""]
Idle == [kind |-> "idle", data |-> Nothing, shown |-> Nothing]
Form == [lottery |-> Nothing, draw |-> Nothing, items |-> {}, listing |-> FALSE, detail |-> Nothing,
         loading |-> FALSE, ticket |-> Unfilled, outcome |-> Idle]

(* With a draw in the address, and on the home page, the form starts with  *)
(* the draw's detail.                                                      *)
FormOn(detail, items) ==
    [Form EXCEPT !.lottery = LotteryOf[detail.draw], !.draw = detail.draw, !.items = items, !.detail = detail]

Rendered == open = "check" \/ (open = "home" /\ page.state = "shown")
Busy == checker.outcome.kind = "checking"

(* The form of the home page keeps to its draw (fixedDraw), but only while *)
(* it has a detail: one that fails to load again brings the selects back.  *)
Selecting == Rendered /\ ~Busy /\ ~(open = "home" /\ checker.detail # Nothing)

(* Mutation of Invalidated: an outcome that is shown stays.                *)
InvalidatedBusy(o) == IF o.kind = "checking" THEN Idle ELSE o

(* invalidateOutcome: an edit aborts the check under way and clears what   *)
(* the last one said.                                                      *)
Invalidated(o) ==
    CASE o.kind \in {"result", "failure"} -> [Idle EXCEPT !.kind = "cleared"]
      [] o.kind = "checking" -> Idle
      [] OTHER -> o

Edit(form) == checker' = [form EXCEPT !.outcome = Invalidated(@)]

ChooseLottery(l) ==
    /\ Selecting /\ l # checker.lottery
    /\ LET calls == Aborted(Aborted(call, "check"), "draws") IN
       IF l = Nothing THEN call' = calls /\ UNCHANGED sent
       ELSE /\ MaySend(1) /\ sent' = sent + 1
            /\ call' = Sent(calls, "draws", [lottery |-> l], Nothing)
    /\ Edit([checker EXCEPT !.lottery = l, !.draw = Nothing, !.detail = Nothing, !.items = {},
                            !.listing = l # Nothing, !.ticket = Blank(@)])
    /\ UNCHANGED <<tables, changes, open, search, page>>

(* Mutation of DetailAborted: the last call goes on.                       *)
DetailKept(calls) == calls

(* loadDetail, given the calls as they are.                                *)
DetailAborted(calls) == Aborted(calls, "detail")
DetailAsked(calls, d) == Sent(DetailAborted(calls), "detail", [draw |-> d], Nothing)
(* Mutation of Loading: no draw, and the flag stays up.                    *)
LoadingStill(d) == d # Nothing \/ checker.loading
Loading(d) == d # Nothing

ChooseDraw(d) ==
    /\ Selecting /\ d # checker.draw /\ ~checker.listing
    /\ d \in checker.items \cup {Nothing}
    /\ LET calls == Aborted(call, "check") IN
       IF d = Nothing THEN call' = DetailAborted(calls) /\ UNCHANGED sent
       ELSE MaySend(1) /\ sent' = sent + 1 /\ call' = DetailAsked(calls, d)
    /\ Edit([checker EXCEPT !.draw = d, !.detail = Nothing, !.loading = Loading(d), !.ticket = Blank(@)])
    /\ UNCHANGED <<tables, changes, open, search, page>>

TypeTicket(t) ==
    /\ Rendered /\ ~Busy /\ t # checker.ticket
    /\ Edit([checker EXCEPT !.ticket = t])
    /\ call' = Aborted(call, "check")
    /\ UNCHANGED <<tables, changes, sent, open, search, page>>

(* What submit sends: validateTicketInput goes by the format of the detail *)
(* the page holds, and lets everything pass if it holds none.              *)
FormatKnown == checker.detail # Nothing /\ checker.detail.format # Nothing
Valid ==
    /\ checker.lottery # Nothing /\ checker.draw # Nothing /\ checker.ticket # Unfilled
    /\ FormatKnown => checker.ticket \in WellFormed[checker.detail.format]

RevisionShown ==
    IF checker.detail = Nothing \/ checker.detail.draw # checker.draw THEN Nothing
    ELSE checker.detail.revision
(* Mutation of Expected: no revision is named.                             *)
ExpectedNothing(again) == Nothing
Expected(again) == IF again THEN Nothing ELSE RevisionShown

Inputs == [lottery |-> checker.lottery, draw |-> checker.draw, ticket |-> checker.ticket]

CheckSent(calls, again) ==
    Sent(Aborted(calls, "check"), "check",
         [lottery |-> checker.lottery, draw |-> checker.draw, ticket |-> checker.ticket, expected |-> Expected(again)],
         [inputs |-> Inputs, again |-> again, revision |-> RevisionShown,
          detail |-> IF checker.detail = Nothing THEN Nothing ELSE checker.detail.draw])

Submit ==
    /\ Rendered /\ ~Busy /\ ~checker.loading /\ Valid
    /\ MaySend(1) /\ sent' = sent + 1
    /\ call' = CheckSent(call, FALSE)
    /\ checker' = [checker EXCEPT !.outcome = [Idle EXCEPT !.kind = "checking"]]
    /\ UNCHANGED <<tables, changes, open, search, page>>

(* failurePresentation: what the server refuses for its input can only be  *)
(* corrected, anything else can be tried again.                            *)
MayTryAgain ==
    \/ checker.outcome.kind = "result"
    \/ checker.outcome.kind = "failure" /\ checker.outcome.data.outcome # "DRAW_MISMATCH"

(* onCheckAgain: a new detail and a new check at once, the check against   *)
(* whatever revision is current; an invalid form only gets the detail.     *)
CheckAgain ==
    /\ Rendered /\ MayTryAgain /\ checker.draw # Nothing
    /\ LET calls == DetailAsked(call, checker.draw) IN
       IF Valid
       THEN /\ MaySend(2) /\ sent' = sent + 2
            /\ call' = CheckSent(calls, TRUE)
            /\ checker' = [checker EXCEPT !.loading = TRUE, !.outcome = [Idle EXCEPT !.kind = "checking"]]
       ELSE /\ MaySend(1) /\ sent' = sent + 1
            /\ call' = calls
            /\ checker' = [checker EXCEPT !.loading = TRUE]
    /\ UNCHANGED <<tables, changes, open, search, page>>

Answered(c, kind) == call[c].step = "answered" /\ call[c].kind = kind
Arrived(c) == call[c].answer.outcome = "OK"
Taken(c) == call' = [call EXCEPT ![c] = NoCall]

DeliverDraws(c) ==
    /\ Answered(c, "draws") /\ Taken(c)
    /\ checker' = [checker EXCEPT !.listing = FALSE, !.items = IF Arrived(c) THEN call[c].answer.items ELSE {}]
    /\ UNCHANGED <<tables, changes, sent, open, search, page>>

DeliverDetail(c) ==
    /\ Answered(c, "detail") /\ Taken(c)
    /\ checker' = [checker EXCEPT !.loading = FALSE, !.detail = IF Arrived(c) THEN call[c].answer ELSE Nothing]
    /\ UNCHANGED <<tables, changes, sent, open, search, page>>

Reported(c) ==
    CASE call[c].answer.outcome \in Results ->
            [kind |-> "result", data |-> call[c].answer, shown |-> call[c].shown]
      [] call[c].answer.outcome = "INVALID_TICKET" -> Idle
      [] OTHER -> [kind |-> "failure", data |-> call[c].answer, shown |-> call[c].shown]

DeliverCheck(c) ==
    /\ Answered(c, "check") /\ Taken(c)
    /\ checker' = [checker EXCEPT !.outcome = Reported(c)]
    /\ UNCHANGED <<tables, changes, sent, open, search, page>>

Deliver(c) == DeliverDraws(c) \/ DeliverDetail(c) \/ DeliverCheck(c)

CheckerStep ==
    \/ \E l \in Lotteries \cup {Nothing} : ChooseLottery(l)
    \/ \E d \in Draws \cup {Nothing} : ChooseDraw(d)
    \/ \E t \in Tickets : TypeTicket(t)
    \/ Submit \/ CheckAgain
    \/ \E c \in Slots : Deliver(c)

(***************************************************************************)
(* HistoryNumberSearch.  Its inputs are disabled during a search only.     *)
(***************************************************************************)
Query == [lottery |-> Nothing, ticket |-> Unfilled, state |-> "idle", data |-> Nothing]
Searching == search.state = "searching"

EditSearch ==
    /\ open = "search" /\ ~Searching
    /\ \/ \E t \in Tickets \ {search.ticket} : search' = [search EXCEPT !.ticket = t]
       \/ \E l \in (Lotteries \cup {Nothing}) \ {search.lottery} : search' = [search EXCEPT !.lottery = l]
    /\ UNCHANGED <<readVars, open, checker, page>>

RunSearch(n) ==
    /\ search.ticket # Unfilled /\ MaySend(1) /\ sent' = sent + 1
    /\ call' = Sent(Aborted(call, "search"), "search",
                    [lottery |-> search.lottery, ticket |-> search.ticket, page |-> n], Nothing)
    /\ search' = [search EXCEPT !.state = "searching", !.data = Nothing]
    /\ UNCHANGED <<tables, changes, open, checker, page>>

SubmitSearch == open = "search" /\ ~Searching /\ RunSearch(1)

TurnPage ==
    /\ open = "search" /\ search.state = "result"
    /\ \E n \in {search.data.page - 1, search.data.page + 1} : n \in 1 .. search.data.total /\ RunSearch(n)

DeliverSearch(c) ==
    /\ Answered(c, "search") /\ Taken(c)
    /\ search' = IF Arrived(c) THEN [search EXCEPT !.state = "result", !.data = call[c].answer]
                 ELSE [search EXCEPT !.state = "failure"]
    /\ UNCHANGED <<tables, changes, sent, open, checker, page>>

SearchStep == EditSearch \/ SubmitSearch \/ TurnPage \/ \E c \in Slots : DeliverSearch(c)

(***************************************************************************)
(* The page of one result, rendered on the server from two requests.       *)
(***************************************************************************)
Unrendered == [state |-> "none", head |-> Nothing, body |-> Nothing]

(* IdentityPanel: the revision that the head of the page speaks of.        *)
Heading == page.head.revision

OpenResult(d) ==
    /\ open = "result" /\ page.state # "loading" /\ MaySend(2) /\ sent' = sent + 2
    /\ page' = [Unrendered EXCEPT !.state = "loading"]
    /\ call' = Sent(call, "head", [draw |-> d], Nothing)
    /\ UNCHANGED <<tables, changes, open, checker, search>>

DeliverHead(c) ==
    /\ Answered(c, "head")
    /\ IF Arrived(c) /\ call[c].answer.status \in {"PARTIAL", "COMPLETE"}
       THEN /\ page' = [page EXCEPT !.head = call[c].answer]
            /\ call' = Sent([call EXCEPT ![c] = NoCall], "result",
                            [draw |-> call[c].req.draw, revision |-> Nothing], Nothing)
       ELSE page' = [page EXCEPT !.state = "notice", !.head = call[c].answer] /\ Taken(c)
    /\ UNCHANGED <<tables, changes, sent, open, checker, search>>

DeliverResult(c) ==
    /\ Answered(c, "result") /\ Taken(c)
    /\ page' = CASE Arrived(c) -> [page EXCEPT !.state = "shown", !.body = call[c].answer]
                 [] ~Arrived(c) -> [page EXCEPT !.state =
                        IF call[c].answer.outcome \in {"RESULT_SUSPENDED", "RESULT_CHANGED"}
                        THEN "changed" ELSE "unavailable"]
    /\ UNCHANGED <<tables, changes, sent, open, checker, search>>

ResultStep == (\E d \in Draws : OpenResult(d)) \/ \E c \in Slots : DeliverHead(c) \/ DeliverResult(c)

(***************************************************************************)
(* The home page: a card for the latest result and, from a second request, *)
(* the ticket check for its draw; without the detail, the card alone.      *)
(***************************************************************************)
OpenHome ==
    /\ open = "home" /\ page.state = "none" /\ MaySend(2) /\ sent' = sent + 2
    /\ page' = [page EXCEPT !.state = "loading"]
    /\ call' = Sent(call, "latest", Nothing, Nothing)
    /\ UNCHANGED <<tables, changes, open, checker, search>>

DeliverLatest(c) ==
    /\ Answered(c, "latest")
    /\ IF Arrived(c) /\ call[c].answer.draw # Nothing
       THEN /\ page' = [page EXCEPT !.head = call[c].answer]
            /\ call' = Sent([call EXCEPT ![c] = NoCall], "home", [draw |-> call[c].answer.draw], Nothing)
       ELSE page' = [page EXCEPT !.state = "notice", !.head = call[c].answer] /\ Taken(c)
    /\ UNCHANGED <<tables, changes, sent, open, checker, search>>

DeliverHome(c) ==
    /\ Answered(c, "home") /\ Taken(c)
    /\ IF Arrived(c)
       THEN /\ page' = [page EXCEPT !.state = "shown", !.body = call[c].answer]
            /\ checker' = FormOn(call[c].answer, {call[c].answer.draw})
       ELSE page' = [page EXCEPT !.state = "card"] /\ UNCHANGED checker
    /\ UNCHANGED <<tables, changes, sent, open, search>>

HomeStep == OpenHome \/ \E c \in Slots : DeliverLatest(c) \/ DeliverHome(c)

Init ==
    /\ ReadsInit
    /\ open \in Pages
    /\ checker \in {Form} \cup IF open # "check" THEN {}
                   ELSE {FormOn(DrawDetail(View, View, d), DrawsOf(LotteryOf[d])) : d \in Linked}
    /\ search = Query
    /\ page = Unrendered

Elsewhere == UNCHANGED <<open, checker, search, page>>

Next ==
    \/ Administer /\ Elsewhere
    \/ (\E c \in Slots : Serve(c)) /\ Elsewhere
    \/ CheckerStep \/ SearchStep \/ ResultStep \/ HomeStep

(* The API and the network answer, or fail, in the end: a browser gives    *)
(* up a connection, and answers to pages are taken as they come.           *)
Fairness ==
    /\ \A c \in Slots : WF_vars(Serve(c) /\ Elsewhere)
    /\ \A c \in Slots : WF_vars(Deliver(c))

Spec == Init /\ [][Next]_vars
FairSpec == Spec /\ Fairness

(***************************************************************************)
(* What must hold.                                                         *)
(***************************************************************************)
TypeOK ==
    /\ LedgerTypeOK
    /\ cancelled \subseteq Draws /\ revoked \subseteq Rules
    /\ changes \in 0 .. MaxChanges /\ sent \in Nat
    /\ \A c \in Slots : call[c].step \in {"free", "sent", "begun", "answered"} /\ call[c].kind \in Kinds
    /\ checker.lottery \in Lotteries \cup {Nothing} /\ checker.draw \in Draws \cup {Nothing}
    /\ checker.outcome.kind \in {"idle", "checking", "result", "failure", "cleared"}
    /\ search.state \in {"idle", "searching", "result", "failure"}
    /\ checker.loading <=> \E c \in Slots : call[c].step # "free" /\ call[c].kind = "detail"
    /\ page.state \in {"none", "loading", "notice", "card", "shown", "changed", "unavailable"}

(* The outcome on the page belongs to the draw and the ticket that stand   *)
(* in the form, whatever was typed, chosen and sent in between.            *)
OutcomeIsOfShownTicket ==
    checker.outcome.kind \in {"result", "failure"} =>
        checker.outcome.shown.inputs = Inputs

(* A verdict is about the revision the page showed when it was asked for:  *)
(* after a correction the visitor is told so first, unless they asked to   *)
(* check against whatever is current.                                      *)
VerdictOfShownRevision ==
    LET o == checker.outcome IN
    o.kind = "result" /\ o.data.outcome \in Verdicts /\ ~o.shown.again /\ o.shown.revision # Nothing
    => o.data.revision = o.shown.revision

(* Lists and details of lotteries and draws chosen earlier arrive late;    *)
(* still every check is of a draw of its lottery, and its ticket was held  *)
(* against the format of that draw or of none.                             *)
ChecksFitTheirDraw ==
    \A c \in Slots :
        call[c].step # "free" /\ call[c].kind = "check" =>
            /\ LotteryOf[call[c].req.draw] = call[c].req.lottery
            /\ call[c].shown.detail \in {Nothing, call[c].req.draw}

(* The form does not stay locked: however often checks and details are     *)
(* aborted, sent again, lost or answered late, none is under way in the end. *)
FormComesBack == (Busy \/ checker.loading) ~> ~(Busy \/ checker.loading)

(* One rendering of a result's page shows one revision: the heading and    *)
(* the numbers below it come from the same one.                            *)
OnePageOneRevision ==
    page.state = "shown" => Heading \in {Nothing, page.body.revision}
=============================================================================
