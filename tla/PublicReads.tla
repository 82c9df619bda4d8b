----------------------------- MODULE PublicReads -----------------------------
(***************************************************************************)
(* What the public can read, and how: the answers of the read services     *)
(* (draw lists and details, results, the history search and the ticket     *)
(* check) as functions of the database, and requests that are answered in  *)
(* several statements while results are published, withheld, released and  *)
(* their rules revoked.                                                    *)
(*                                                                         *)
(* The database is the ledger that the publication pipeline implements     *)
(* (ResultLedger), with the two things readers see beside it: cancelled    *)
(* draws and revoked rule versions.  A result's content is the rule it was *)
(* made under, whether it is complete, and the numbers it lists.           *)
(*                                                                         *)
(* An operator whose comment begins with "Mutation of" is a plausible bug  *)
(* in the operator that follows it; no action uses it.                     *)
(***************************************************************************)
EXTENDS ResultLedger, FiniteSets

CONSTANTS
    Rules,         \* rule versions, numbered upwards
    RuleLottery,   \* the lottery of each rule version
    Tickets,       \* what can be typed: records of a series and a number
    WellFormed,    \* WellFormed[k]: the tickets of the series and length of rule k
    Accepted,      \* Accepted[k]: of these, the ones with an allowed first digit
    DrawOrder,     \* the draws, the newest first
    Slots,         \* requests under way at once: a page has at most three
    MaxChanges     \* bound: changes of the database

ASSUME ReadsAssumption ==
    /\ LotteryOf \in [Draws -> Lotteries] /\ DrawOrder \in Seq(Draws)
    /\ Rules \subseteq Nat /\ RuleLottery \in [Rules -> Lotteries]
    /\ \E a, b, c \in Slots : a # b /\ b # c /\ a # c
    /\ MaxChanges \in Nat
    /\ \A k \in Rules : Accepted[k] \subseteq WellFormed[k] /\ WellFormed[k] \subseteq Tickets
    /\ \A c \in Contents : c.rule \in Rules /\ c.complete \in BOOLEAN /\ c.listed \subseteq Tickets

VARIABLES
    cancelled,     \* draws whose phase is CANCELLED
    revoked,       \* rule versions that are REVOKED
    changes,       \* changes of the database so far
    call,          \* requests under way
    sent           \* requests sent so far

tables == <<ledger, withheld, version, cancelled, revoked>>
readVars == <<tables, changes, call, sent>>

View == [ledger |-> ledger, withheld |-> withheld, cancelled |-> cancelled, revoked |-> revoked]

(***************************************************************************)
(* Rows as a request reads them: row is the draw's row, v what the later   *)
(* statements find.                                                        *)
(***************************************************************************)
Current(v, d) == IF v.ledger[d] = <<>> THEN Nothing ELSE v.ledger[d][Len(v.ledger[d])]

(* The revision the draw row points to, if it is (still) PUBLISHED.        *)
PayloadVisible(row, v, d) ==
    /\ Current(row, d) # Nothing /\ Current(v, d) = Current(row, d)
    /\ ~row.withheld[d]
    /\ d \notin row.cancelled

PublicationStatus(row, d) ==
    CASE d \in row.cancelled -> "CANCELLED"
      [] d \notin row.cancelled /\ row.withheld[d] -> "SUSPENDED"
      [] d \notin row.cancelled /\ ~row.withheld[d] ->
            IF Current(row, d) = Nothing THEN "NOT_PUBLISHED"
            ELSE IF Current(row, d).content.complete THEN "COMPLETE" ELSE "PARTIAL"

LatestApproved(v, l) ==
    LET approved == {k \in Rules : RuleLottery[k] = l /\ k \notin v.revoked}
    IN  IF approved = {} THEN Nothing ELSE CHOOSE k \in approved : \A j \in approved : j <= k

(* The rule whose series and length a form for the draw goes by.           *)
TicketFormat(row, v, d) ==
    IF PayloadVisible(row, v, d) THEN Current(row, d).content.rule
    ELSE LatestApproved(v, LotteryOf[d])

(* The rules modelled all compile (TicketRules is about the others).       *)
Capability(row, v, d) ==
    CASE PublicationStatus(row, d) \in {"CANCELLED", "SUSPENDED"} \/ Current(row, d) = Nothing -> "NOT_APPLICABLE"
      [] PublicationStatus(row, d) \in {"COMPLETE", "PARTIAL"} ->
            IF PayloadVisible(row, v, d) /\ Current(row, d).content.rule \notin v.revoked
            THEN "SUPPORTED" ELSE "UNSUPPORTED"

DrawDetail(row, v, d) ==
    LET visible == PayloadVisible(row, v, d) IN
    [outcome |-> "OK", draw |-> d, status |-> PublicationStatus(row, d),
     revision |-> IF visible THEN Current(row, d).revision ELSE Nothing,
     format |-> TicketFormat(row, v, d), checking |-> Capability(row, v, d)]

DrawsOf(l) == {d \in Draws : LotteryOf[d] = l}
DrawList(row, l) == [outcome |-> "OK", items |-> DrawsOf(l)]

Refusal(code) == [outcome |-> code]
Lost == Refusal("LOST")

(* getResult: the listed numbers of the current revision.                  *)
Result(row, v, req) ==
    CASE row.withheld[req.draw] -> Refusal("RESULT_SUSPENDED")
      [] ~row.withheld[req.draw] /\ ~PayloadVisible(row, v, req.draw) -> Refusal("RESULT_NOT_PUBLISHED")
      [] PayloadVisible(row, v, req.draw) ->
            IF req.revision \notin {Nothing, Current(row, req.draw).revision} THEN Refusal("RESULT_CHANGED")
            ELSE [outcome |-> "OK", revision |-> Current(row, req.draw).revision,
                  listed |-> Current(row, req.draw).content.listed]

(* A ticket against a content: what evaluateTicket makes of it (see        *)
(* TicketRules), seen from outside.                                        *)
Verdict(content, ticket) ==
    IF content.complete THEN IF ticket \in content.listed THEN "MATCH" ELSE "NO_MATCH"
    ELSE IF ticket \in content.listed THEN "PARTIAL_MATCH" ELSE "RESULT_INCOMPLETE"

Verdicts == {"MATCH", "NO_MATCH", "PARTIAL_MATCH", "RESULT_INCOMPLETE"}
Results == Verdicts \cup {"DRAW_CANCELLED", "RESULT_SUSPENDED", "RESULT_NOT_PUBLISHED", "RULES_UNSUPPORTED"}

Check(row, v, req) ==
    LET d == req.draw
        entry == Current(row, d)
        On(outcome) == [outcome |-> outcome, draw |-> d, revision |-> entry.revision]
    IN  IF LotteryOf[d] # req.lottery THEN Refusal("DRAW_MISMATCH")
        ELSE IF d \in row.cancelled THEN Refusal("DRAW_CANCELLED")
        ELSE IF row.withheld[d] THEN Refusal("RESULT_SUSPENDED")
        ELSE IF ~PayloadVisible(row, v, d) THEN Refusal("RESULT_NOT_PUBLISHED")
        ELSE IF req.expected \notin {Nothing, entry.revision} THEN Refusal("RESULT_CHANGED")
        ELSE IF entry.content.rule \in v.revoked THEN On("RULES_UNSUPPORTED")
        ELSE IF req.ticket \notin Accepted[entry.content.rule] THEN Refusal("INVALID_TICKET")
        ELSE On(Verdict(entry.content, req.ticket))

(* HistoryService.search: one statement counts the draws that cannot be    *)
(* searched, later ones count and list the matches of a page, one to a     *)
(* page, the newest draw first.                                            *)
Searched(req) == IF req.lottery = Nothing THEN Draws ELSE DrawsOf(req.lottery)
Searchable(v, d) == Current(v, d) # Nothing /\ ~v.withheld[d] /\ d \notin v.cancelled
Matches(v, req) ==
    SelectSeq(DrawOrder, LAMBDA d : /\ d \in Searched(req) /\ Searchable(v, d)
                                    /\ req.ticket \in Current(v, d).content.listed)

Search(row, v, req) ==
    LET found == Matches(v, req) IN
    [outcome |-> "OK", page |-> req.page, total |-> Len(found),
     unsearchable |-> Cardinality({d \in Searched(req) : ~Searchable(row, d)}),
     items |-> IF req.page \in DOMAIN found
               THEN {[draw |-> found[req.page], revision |-> Current(v, found[req.page]).revision]} ELSE {}]

(* latest: the newest draw with a result that may be seen.                 *)
Latest(row, v) ==
    LET visible == {i \in DOMAIN DrawOrder : Searchable(row, DrawOrder[i])}
        d == DrawOrder[CHOOSE i \in visible : \A j \in visible : i <= j]
    IN  IF visible = {} THEN [outcome |-> "OK", draw |-> Nothing, revision |-> Nothing]
        ELSE [outcome |-> "OK", draw |-> d,
              revision |-> IF PayloadVisible(row, v, d) THEN Current(row, d).revision ELSE Nothing]

Kinds == {"draws", "detail", "check", "search", "head", "result", "latest", "home"}

Answer(row, v, kind, req) ==
    CASE kind = "draws" -> DrawList(row, req.lottery)
      [] kind \in {"detail", "head", "home"} -> DrawDetail(row, v, req.draw)
      [] kind = "check" -> Check(row, v, req)
      [] kind = "search" -> Search(row, v, req)
      [] kind = "result" -> Result(row, v, req)
      [] kind = "latest" -> Latest(row, v)

(***************************************************************************)
(* Requests.  An aborted request delivers nothing: its call ends there.    *)
(* moments collects what the answer would be at each moment from the       *)
(* request's first statement on; shown is what the page showed when it     *)
(* sent the request.                                                       *)
(***************************************************************************)
NoCall == [step |-> "free", kind |-> "draws", req |-> Nothing, shown |-> Nothing,
           read |-> Nothing, moments |-> {}, answer |-> Lost]

Aborted(calls, kind) == [c \in Slots |-> IF calls[c].kind = kind THEN NoCall ELSE calls[c]]
FreeIn(calls) == {c \in Slots : calls[c].step = "free"}
Sent(calls, kind, req, shown) ==
    LET c == CHOOSE s \in FreeIn(calls) : TRUE
    IN  [calls EXCEPT ![c] = [NoCall EXCEPT !.step = "sent", !.kind = kind, !.req = req, !.shown = shown]]

(* The transaction begins: REPEATABLE READ, so its first statement fixes   *)
(* what the later ones see.                                                *)
Begin(c) ==
    /\ call[c].step = "sent"
    /\ call' = [call EXCEPT ![c].step = "begun", ![c].read = View,
                            ![c].moments = {Answer(View, View, call[c].kind, call[c].req)}]
    /\ UNCHANGED <<tables, changes, sent>>

(* Mutation of SeenLater: READ COMMITTED.                                  *)
SeenLaterLive(c) == View
SeenLater(c) == call[c].read

Finish(c) ==
    /\ call[c].step = "begun"
    /\ call' = [call EXCEPT ![c].step = "answered", ![c].read = Nothing, ![c].moments = {},
                   ![c].answer = Answer(call[c].read, SeenLater(c), call[c].kind, call[c].req)]
    /\ UNCHANGED <<tables, changes, sent>>

(* Refused for its rate, broken off, or answered with something that does  *)
(* not parse: a failure to the page.                                       *)
Fail(c) ==
    /\ call[c].step \in {"sent", "begun"}
    /\ call' = [call EXCEPT ![c].step = "answered", ![c].read = Nothing, ![c].moments = {}]
    /\ UNCHANGED <<tables, changes, sent>>

Serve(c) == Begin(c) \/ Finish(c) \/ Fail(c)

(***************************************************************************)
(* Administrators.                                                         *)
(***************************************************************************)
Changed ==
    /\ changes < MaxChanges /\ changes' = changes + 1
    /\ call' = [c \in Slots |->
           IF call[c].step = "begun"
           THEN [call[c] EXCEPT !.moments = @ \cup {Answer(View', View', call[c].kind, call[c].req)}]
           ELSE call[c]]
    /\ UNCHANGED sent

Publish(d) ==
    /\ \E e \in Entry :
        /\ \A r \in Revisions : NeverEntered(r) => e.revision <= r
        /\ RuleLottery[e.content.rule] = LotteryOf[d] /\ e.content.rule \notin revoked
        /\ d \notin cancelled
        /\ Enter(d, e)
    /\ UNCHANGED <<cancelled, revoked>> /\ Changed

Suspend(d) == Withhold(d) /\ UNCHANGED <<cancelled, revoked>> /\ Changed
Resume(d) == Release(d) /\ UNCHANGED <<cancelled, revoked>> /\ Changed

Revoke(k) ==
    /\ k \notin revoked /\ revoked' = revoked \cup {k}
    /\ Disqualify(RuleLottery[k])
    /\ UNCHANGED cancelled /\ Changed

(* patchDraw: a draw without a result is cancelled, or back on again.      *)
Recall(d) ==
    /\ ledger[d] = <<>>
    /\ cancelled' = IF d \in cancelled THEN cancelled \ {d} ELSE cancelled \cup {d}
    /\ UNCHANGED <<ledgerVars, revoked>> /\ Changed

Administer ==
    \/ \E d \in Draws : Publish(d) \/ Suspend(d) \/ Resume(d) \/ Recall(d)
    \/ \E k \in Rules : Revoke(k)

ReadsInit ==
    /\ LedgerInit
    /\ cancelled = {} /\ revoked = {} /\ changes = 0
    /\ call = [c \in Slots |-> NoCall] /\ sent = 0

(* An answer is what the database as a whole said at one moment while the  *)
(* request was served, however many statements it was put together from.   *)
AnswersAreOfOneMoment ==
    [][\A c \in Slots :
        call[c].step = "begun" /\ call'[c].step = "answered" /\ call'[c].answer # Lost
        => call'[c].answer \in call[c].moments]_readVars
=============================================================================
