-------------------------- MODULE PublicPagesProofs --------------------------
(***************************************************************************)
(* What the pages of the public site say, for every set of draws, rules    *)
(* and tickets, however many requests are sent and in whatever order they  *)
(* are answered.                                                           *)
(*                                                                         *)
(* The argument: a page has at most one request of a kind under way, as it *)
(* aborts the last one before it sends another; what is under way belongs  *)
(* to what stands in the form, as every edit that would make it belong to  *)
(* something else aborts it; and an answer is what the database said at    *)
(* one moment, so that a verdict is about the revision that was asked for. *)
(***************************************************************************)
EXTENDS PublicPages, TLAPS, WellFoundedInduction

CallOf(V) ==
    [step : {"free", "sent", "begun", "answered"}, kind : Kinds, req : V, shown : V,
     read : V, moments : V, answer : V]

IsCalls(calls) == \E V : calls \in [Slots -> CallOf(V)]

OutcomeKinds == {"idle", "checking", "result", "failure", "cleared"}

FormOf(V) ==
    [lottery : V, draw : V, items : V, listing : BOOLEAN, detail : V, loading : BOOLEAN, ticket : V,
     outcome : [kind : OutcomeKinds, data : V, shown : V]]

IsForm(form) == \E V : form \in FormOf(V)

IsSearch(s) ==
    \E V : s \in [lottery : V, ticket : V, state : {"idle", "searching", "result", "failure"},
                  data : V]

PageStates == {"none", "loading", "notice", "card", "shown", "changed", "unavailable"}

IsPage(p) == \E V : p \in [state : PageStates, head : V, body : V]

-----------------------------------------------------------------------------
(* An answer is one the database gives as it is at some moment.            *)
Honest(k) ==
    /\ k.step \in {"sent", "begun"} => k.answer = Lost
    /\ k.step = "begun" => Answer(k.read, k.read, k.kind, k.req) \in k.moments
    /\ k.step = "answered" /\ k.answer # Lost =>
          \E v : k.answer = Answer(v, v, k.kind, k.req)

(* The second request of a page takes the place of the first.              *)
Family(kind) ==
    CASE kind \in {"head", "result"} -> "result"
      [] kind \in {"latest", "home"} -> "home"
      [] OTHER -> kind

UnderWay(calls, c) == calls[c].step # "free"

OneOfAKind(calls) ==
    \A c, e \in Slots :
        c # e /\ UnderWay(calls, c) /\ UnderWay(calls, e) =>
            Family(calls[c].kind) # Family(calls[e].kind)

InputsOf(form) == [lottery |-> form.lottery, draw |-> form.draw, ticket |-> form.ticket]

(* A check is of what stands in the form, and names the revision that was  *)
(* shown, unless it was asked for again.                                   *)
Asks(k, form) ==
    /\ form.outcome.kind = "checking"
    /\ k.shown.inputs = InputsOf(form)
    /\ k.req.lottery = form.lottery /\ k.req.draw = form.draw
    /\ LotteryOf[k.req.draw] = k.req.lottery
    /\ k.shown.detail \in {Nothing, k.req.draw}
    /\ k.req.expected = IF k.shown.again THEN Nothing ELSE k.shown.revision

(* What is under way belongs to the page, as it is.                        *)
Fits(k, form, p) ==
    /\ k.kind = "draws" => k.req.lottery = form.lottery
    /\ k.kind = "detail" => form.draw \in {Nothing, k.req.draw}
    /\ k.kind = "check" => Asks(k, form)
    /\ k.kind \in {"draws", "detail", "check"} =>
          open = "check" \/ (open = "home" /\ p.state = "shown")
    /\ k.kind = "search" => open = "search"
    /\ k.kind \in {"head", "result"} => open = "result" /\ p.state = "loading"
    /\ k.kind \in {"latest", "home"} => open = "home" /\ p.state = "loading"
    /\ k.kind = "home" => k.req.draw \in Draws

CallsFit(calls, form, p) ==
    /\ IsCalls(calls)
    /\ OneOfAKind(calls)
    /\ \A c \in Slots : Honest(calls[c]) /\ (UnderWay(calls, c) => Fits(calls[c], form, p))

(* The outcome in the form is of what stands in the form.                  *)
OutcomeFits(form) ==
    LET o == form.outcome
    IN  /\ o.kind \in {"result", "failure"} => o.shown.inputs = InputsOf(form)
        /\ o.kind = "result" /\ o.data.outcome \in Verdicts /\ ~o.shown.again
              /\ o.shown.revision # Nothing => o.data.revision = o.shown.revision

FormFits(form, p) ==
    /\ IsForm(form)
    /\ form.lottery \in Lotteries \cup {Nothing} /\ form.draw \in Draws \cup {Nothing}
    /\ form.draw # Nothing => LotteryOf[form.draw] = form.lottery
    /\ \A d \in form.items : d \in Draws /\ LotteryOf[d] = form.lottery
    /\ form.detail # Nothing /\ form.draw # Nothing => form.detail.draw = form.draw
    /\ open = "home" /\ form.draw # Nothing => p.state = "shown"
    /\ OutcomeFits(form)

Under(calls, kind) == \E c \in Slots : UnderWay(calls, c) /\ calls[c].kind = kind

DatabaseOK ==
    /\ LedgerTypeOK
    /\ cancelled \subseteq Draws /\ revoked \subseteq Rules
    /\ changes \in 0 .. MaxChanges /\ sent \in Nat

PagesInv ==
    /\ DatabaseOK
    /\ CallsFit(call, checker, page) /\ FormFits(checker, page)
    /\ checker.loading <=> Under(call, "detail")
    /\ IsSearch(search) /\ IsPage(page)

-----------------------------------------------------------------------------
(* Calls.                                                                  *)

New(kind, req, shown) ==
    [NoCall EXCEPT !.step = "sent", !.kind = kind, !.req = req, !.shown = shown]

LEMMA NewCall ==
  ASSUME NEW kind, NEW req, NEW shown
  PROVE  LET k == New(kind, req, shown)
         IN  /\ k.step = "sent" /\ k.kind = kind /\ k.req = req /\ k.shown = shown
             /\ k.answer = Lost
  BY DEF New, NoCall

(* Three slots are enough: of requests of two kinds at most two are under  *)
(* way.                                                                    *)
LEMMA SlotIsFree ==
  ASSUME NEW calls, OneOfAKind(calls), NEW f, NEW g,
         \A c \in Slots : UnderWay(calls, c) => Family(calls[c].kind) \in {f, g}
  PROVE  FreeIn(calls) # {}
<1>1. PICK a \in Slots, b \in Slots, c \in Slots : a # b /\ b # c /\ a # c
  BY ReadsAssumption
<1>2. ~(UnderWay(calls, a) /\ UnderWay(calls, b) /\ UnderWay(calls, c))
  <2> SUFFICES ASSUME UnderWay(calls, a), UnderWay(calls, b), UnderWay(calls, c) PROVE FALSE
    OBVIOUS
  <2>1. /\ Family(calls[a].kind) \in {f, g} /\ Family(calls[b].kind) \in {f, g}
        /\ Family(calls[c].kind) \in {f, g}
    OBVIOUS
  <2>2. /\ Family(calls[a].kind) # Family(calls[b].kind)
        /\ Family(calls[b].kind) # Family(calls[c].kind)
        /\ Family(calls[a].kind) # Family(calls[c].kind)
    BY <1>1 DEF OneOfAKind
  <2> QED BY <2>1, <2>2
<1> QED BY <1>2 DEF UnderWay, FreeIn

(* Requests that are aborted leave the others as they are.                 *)
LEMMA AbortedCalls ==
  ASSUME NEW calls, NEW form, NEW p, CallsFit(calls, form, p), NEW kind
  PROVE  LET A == Aborted(calls, kind)
         IN  /\ CallsFit(A, form, p) /\ ~Under(A, kind)
             /\ \A k : k # kind => (Under(A, k) <=> Under(calls, k))
             /\ \A c \in Slots : UnderWay(A, c) => A[c] = calls[c] /\ calls[c].kind # kind
<1> DEFINE A == Aborted(calls, kind)
<1>1. \A c \in Slots : A[c] = IF calls[c].kind = kind THEN NoCall ELSE calls[c]
  BY DEF Aborted
<1>2. NoCall.step = "free" /\ Honest(NoCall) BY DEF NoCall, Honest
<1>3. \A c \in Slots : UnderWay(A, c) => A[c] = calls[c] /\ calls[c].kind # kind /\ UnderWay(calls, c)
  BY <1>1, <1>2 DEF UnderWay
<1>4. IsCalls(A)
  <2>1. PICK V : calls \in [Slots -> CallOf(V)] BY DEF CallsFit, IsCalls
  <2>2. PICK W : W = V \cup {Nothing, {}, Lost} OBVIOUS
  <2>3. NoCall \in CallOf(W) BY <2>2 DEF NoCall, CallOf, Kinds
  <2>4. \A c \in Slots : calls[c] \in CallOf(W) BY <2>1, <2>2 DEF CallOf
  <2>5. A \in [Slots -> CallOf(W)] BY <2>3, <2>4 DEF Aborted
  <2> QED BY <2>5 DEF IsCalls
<1>5. OneOfAKind(A) BY <1>3 DEF OneOfAKind, CallsFit
<1>6. \A c \in Slots : Honest(A[c]) BY <1>1, <1>2 DEF CallsFit
<1>7. \A c \in Slots : UnderWay(A, c) => Fits(A[c], form, p) BY <1>3 DEF CallsFit
<1>8. ~Under(A, kind) BY <1>3 DEF Under
<1>9. \A k : k # kind => (Under(A, k) <=> Under(calls, k)) BY <1>1, <1>3 DEF Under, UnderWay
<1> QED BY <1>3, <1>4, <1>5, <1>6, <1>7, <1>8, <1>9 DEF CallsFit

(* A request takes a free slot, if none of its kind is under way.          *)
LEMMA SentCalls ==
  ASSUME NEW calls, NEW form, NEW p, CallsFit(calls, form, p), FreeIn(calls) # {},
         NEW kind \in Kinds, NEW req, NEW shown, Fits(New(kind, req, shown), form, p),
         \A c \in Slots : UnderWay(calls, c) => Family(calls[c].kind) # Family(kind)
  PROVE  LET S == Sent(calls, kind, req, shown)
         IN  /\ CallsFit(S, form, p) /\ Under(S, kind)
             /\ \A k : k # kind => (Under(S, k) <=> Under(calls, k))
             /\ \A c \in Slots : S[c] = calls[c] \/ S[c] = New(kind, req, shown)
<1>s. PICK s : s = CHOOSE c \in FreeIn(calls) : TRUE OBVIOUS
<1>n. PICK n : n = New(kind, req, shown) OBVIOUS
<1>S. PICK S : S = [calls EXCEPT ![s] = n] OBVIOUS
<1>1. s \in Slots /\ ~UnderWay(calls, s) BY <1>s DEF FreeIn, UnderWay
<1>2. Sent(calls, kind, req, shown) = S BY <1>s, <1>n, <1>S DEF Sent, New
<1>3. /\ n.step = "sent" /\ n.kind = kind /\ n.req = req /\ n.shown = shown
      /\ n.answer = Lost
  BY <1>n, NewCall
<1>4. PICK V : calls \in [Slots -> CallOf(V)] BY DEF CallsFit, IsCalls
<1>5. S[s] = n /\ \A c \in Slots : c # s => S[c] = calls[c] BY <1>1, <1>4, <1>S
<1>6. IsCalls(S)
  <2>1. PICK W : W = V \cup {Nothing, {}, Lost, req, shown} OBVIOUS
  <2>2. n \in CallOf(W) BY <1>n, <2>1 DEF CallOf, New, NoCall
  <2>3. \A c \in Slots : calls[c] \in CallOf(W) BY <1>4, <2>1 DEF CallOf
  <2>4. S \in [Slots -> CallOf(W)] BY <1>4, <1>S, <2>2, <2>3
  <2> QED BY <2>4 DEF IsCalls
<1>7. OneOfAKind(S) BY <1>3, <1>5 DEF OneOfAKind, CallsFit, UnderWay
<1>8. Honest(n) /\ Fits(n, form, p) BY <1>3, <1>n DEF Honest
<1>9. \A c \in Slots : Honest(S[c]) /\ (UnderWay(S, c) => Fits(S[c], form, p))
  BY <1>5, <1>8 DEF CallsFit, UnderWay
<1>10. Under(S, kind) BY <1>1, <1>3, <1>5 DEF Under, UnderWay
<1>11. \A k : k # kind => (Under(S, k) <=> Under(calls, k))
  BY <1>1, <1>3, <1>5 DEF Under, UnderWay
<1>12. \A c \in Slots : S[c] = calls[c] \/ S[c] = n BY <1>5
<1> QED BY <1>2, <1>6, <1>7, <1>9, <1>10, <1>11, <1>12, <1>n DEF CallsFit

(* An answer is taken, and its slot free again.                            *)
Without(calls, c) == [calls EXCEPT ![c] = NoCall]

LEMMA TakenCalls ==
  ASSUME NEW calls, NEW form, NEW p, CallsFit(calls, form, p), NEW c \in Slots, UnderWay(calls, c)
  PROVE  LET T == Without(calls, c)
         IN  /\ CallsFit(T, form, p) /\ ~Under(T, calls[c].kind)
             /\ \A k : k # calls[c].kind => (Under(T, k) <=> Under(calls, k))
             /\ \A e \in Slots : UnderWay(T, e) =>
                   T[e] = calls[e] /\ e # c /\ Family(calls[e].kind) # Family(calls[c].kind)
<1>T. PICK T : T = [calls EXCEPT ![c] = NoCall] OBVIOUS
<1>1. PICK V : calls \in [Slots -> CallOf(V)] BY DEF CallsFit, IsCalls
<1>2. T[c] = NoCall /\ \A e \in Slots : e # c => T[e] = calls[e] BY <1>T, <1>1
<1>3. NoCall.step = "free" /\ Honest(NoCall) BY DEF NoCall, Honest
<1>4. \A e \in Slots : UnderWay(T, e) => T[e] = calls[e] /\ e # c /\ UnderWay(calls, e)
  BY <1>2, <1>3 DEF UnderWay
<1>5. \A e \in Slots : UnderWay(T, e) => Family(calls[e].kind) # Family(calls[c].kind)
  BY <1>4 DEF CallsFit, OneOfAKind
<1>6. IsCalls(T)
  <2>2. PICK W : W = V \cup {Nothing, {}, Lost} OBVIOUS
  <2>3. NoCall \in CallOf(W) BY <2>2 DEF NoCall, CallOf, Kinds
  <2>4. \A e \in Slots : calls[e] \in CallOf(W) BY <1>1, <2>2 DEF CallOf
  <2>5. T \in [Slots -> CallOf(W)] BY <1>1, <1>T, <2>3, <2>4
  <2> QED BY <2>5 DEF IsCalls
<1>7. OneOfAKind(T) BY <1>4 DEF OneOfAKind, CallsFit
<1>8. \A e \in Slots : Honest(T[e]) /\ (UnderWay(T, e) => Fits(T[e], form, p))
  BY <1>2, <1>3, <1>4 DEF CallsFit
<1>9. ~Under(T, calls[c].kind) BY <1>4, <1>5 DEF Under
<1>10. \A k : k # calls[c].kind => (Under(T, k) <=> Under(calls, k))
  BY <1>2, <1>4 DEF Under, UnderWay
<1>11. Without(calls, c) = T BY <1>T DEF Without
<1> QED BY <1>11, <1>4, <1>5, <1>6, <1>7, <1>8, <1>9, <1>10 DEF CallsFit

(* Calls fit another form as well, if those under way do.                  *)
LEMMA RefittedCalls ==
  ASSUME NEW calls, NEW form, NEW p, CallsFit(calls, form, p), NEW g, NEW r,
         \A c \in Slots : UnderWay(calls, c) /\ Fits(calls[c], form, p) => Fits(calls[c], g, r)
  PROVE  CallsFit(calls, g, r)
  BY DEF CallsFit

(* If no check is under way, they fit a form of the same lottery and draw. *)
LEMMA SameDrawFits ==
  ASSUME NEW calls, NEW form, NEW p, CallsFit(calls, form, p), ~Under(calls, "check"),
         NEW g, g.lottery = form.lottery, g.draw \in {form.draw, Nothing}
  PROVE  CallsFit(calls, g, p)
  BY RefittedCalls DEF Fits, Under

-----------------------------------------------------------------------------
(* Steps of the checker.                                                   *)

NoneAnswered == \A c \in Slots : call'[c].step = "answered" => call[c].step = "answered"

LEMMA DatabaseStays ==
  ASSUME DatabaseOK, UNCHANGED <<tables, changes>>,
         \/ sent' = sent
         \/ \E n \in Nat : MaySend(n) /\ sent' = sent + n
  PROVE  DatabaseOK'
<1>1. LedgerTypeOK' /\ cancelled' \subseteq Draws /\ revoked' \subseteq Rules
      /\ changes' \in 0 .. MaxChanges
  BY DEF DatabaseOK, LedgerTypeOK, Entry, tables
<1>2. sent' \in Nat BY DEF DatabaseOK
<1> QED BY <1>1, <1>2 DEF DatabaseOK

(* What holds of the new state, said without a prime.                      *)
LEMMA Settled ==
  ASSUME DatabaseOK', open' = open, CallsFit(call', checker', page'), FormFits(checker', page'),
         checker'.loading <=> Under(call', "detail"), IsSearch(search'), IsPage(page')
  PROVE  PagesInv'
<1>1. CallsFit(call, checker, page)'
  BY DEF CallsFit, IsCalls, OneOfAKind, UnderWay, Fits, Asks, InputsOf, Honest
<1>2. FormFits(checker, page)' BY DEF FormFits, IsForm, FormOf, OutcomeFits, InputsOf
<1>3. (checker.loading <=> Under(call, "detail"))' BY DEF Under, UnderWay
<1>4. IsSearch(search)' /\ IsPage(page)' BY DEF IsSearch, IsPage
<1> QED BY <1>1, <1>2, <1>3, <1>4 DEF PagesInv

(* An edit clears the outcome and leaves the rest of the form.             *)
LEMMA EditedForm ==
  ASSUME NEW f, IsForm(f), NEW g, g = [f EXCEPT !.outcome = Invalidated(@)]
  PROVE  /\ IsForm(g) /\ g.lottery = f.lottery /\ g.draw = f.draw /\ g.items = f.items
         /\ g.detail = f.detail /\ g.loading = f.loading /\ g.ticket = f.ticket
         /\ OutcomeFits(g)
<1>1. PICK V : f \in FormOf(V) BY DEF IsForm
<1>2. PICK W : W = V \cup {Nothing} OBVIOUS
<1>3. PICK o : o = Invalidated(f.outcome) OBVIOUS
<1>4. o \in [kind : OutcomeKinds, data : W, shown : W] /\ o.kind \in {"idle", "checking", "cleared"}
  BY <1>1, <1>2, <1>3 DEF FormOf, Invalidated, OutcomeKinds, Idle
<1>5. g \in FormOf(W) BY <1>1, <1>2, <1>3, <1>4 DEF FormOf
<1>6. /\ g.lottery = f.lottery /\ g.draw = f.draw /\ g.items = f.items
      /\ g.detail = f.detail /\ g.loading = f.loading /\ g.ticket = f.ticket
      /\ g.outcome = o
  BY <1>1, <1>3 DEF FormOf
<1>7. OutcomeFits(g) BY <1>4, <1>6 DEF OutcomeFits
<1> QED BY <1>5, <1>6, <1>7 DEF IsForm

LEMMA LotteryChosen ==
  ASSUME PagesInv, NEW l \in Lotteries \cup {Nothing}, ChooseLottery(l)
  PROVE  PagesInv' /\ NoneAnswered
<1>f. PICK f : f = [checker EXCEPT !.lottery = l, !.draw = Nothing, !.detail = Nothing,
                                   !.items = {}, !.listing = l # Nothing, !.ticket = Blank(@)]
  OBVIOUS
<1>1. IsForm(f) /\ f.lottery = l /\ f.draw = Nothing /\ f.items = {} /\ f.loading = checker.loading
  <2>1. PICK V : checker \in FormOf(V) BY DEF PagesInv, FormFits, IsForm
  <2>2. PICK t : t = Blank(checker.ticket) OBVIOUS
  <2>3. f = [checker EXCEPT !.lottery = l, !.draw = Nothing, !.detail = Nothing,
                            !.items = {}, !.listing = l # Nothing, !.ticket = t]
    BY <1>f, <2>2
  <2>4. PICK W : W = V \cup {l, Nothing, {}, t} OBVIOUS
  <2>5. f \in FormOf(W) BY <2>1, <2>3, <2>4 DEF FormOf
  <2>6. f.lottery = l /\ f.draw = Nothing /\ f.items = {} /\ f.loading = checker.loading
    BY <2>1, <2>3 DEF FormOf
  <2> QED BY <2>5, <2>6 DEF IsForm
<1>g. PICK g : g = checker' OBVIOUS
<1>2. /\ IsForm(g) /\ g.lottery = l /\ g.draw = Nothing /\ g.items = {}
      /\ g.loading = checker.loading /\ OutcomeFits(g)
  <2>1. g = [f EXCEPT !.outcome = Invalidated(@)] BY <1>g, <1>f DEF ChooseLottery, Edit
  <2> QED BY <1>1, <2>1, EditedForm
<1>3. FormFits(g, page) BY <1>2 DEF FormFits
<1>A. PICK A : A = Aborted(call, "check") OBVIOUS
<1>B. PICK B : B = Aborted(A, "draws") OBVIOUS
<1>4. /\ CallsFit(A, checker, page) /\ ~Under(A, "check")
      /\ Under(A, "detail") <=> Under(call, "detail")
      /\ \A c \in Slots : UnderWay(A, c) => A[c] = call[c]
  BY <1>A, AbortedCalls DEF PagesInv
<1>5. /\ CallsFit(B, checker, page) /\ ~Under(B, "draws") /\ ~Under(B, "check")
      /\ Under(B, "detail") <=> Under(call, "detail")
      /\ \A c \in Slots : UnderWay(B, c) => B[c] = call[c]
  BY <1>B, <1>4, AbortedCalls DEF UnderWay
<1>6. open = "check" \/ (open = "home" /\ page.state = "shown")
  BY DEF ChooseLottery, Selecting, Rendered
<1>7. \A c \in Slots : UnderWay(B, c) => B[c].kind = "detail"
  <2> SUFFICES ASSUME NEW c \in Slots, UnderWay(B, c) PROVE B[c].kind = "detail" OBVIOUS
  <2>1. Fits(B[c], checker, page) /\ B[c].kind \in Kinds
    BY <1>5 DEF CallsFit, IsCalls, CallOf
  <2> QED BY <1>5, <1>6, <2>1 DEF Fits, Under, Kinds
<1>8. CallsFit(B, g, page) BY <1>2, <1>5, <1>7, RefittedCalls DEF Fits
<1>9. CASE l = Nothing
  <2>1. call' = B BY <1>9, <1>A, <1>B DEF ChooseLottery
  <2>2. DatabaseOK' BY <1>9, DatabaseStays DEF ChooseLottery, PagesInv
  <2>3. NoneAnswered BY <1>5, <2>1 DEF NoneAnswered, UnderWay
  <2>4. checker'.loading <=> Under(call', "detail") BY <1>g, <1>2, <1>5, <2>1 DEF PagesInv
  <2>5. IsSearch(search') /\ IsPage(page') /\ open' = open /\ page' = page
    BY DEF ChooseLottery, PagesInv
  <2> QED BY <1>g, <1>3, <1>8, <2>1, <2>2, <2>3, <2>4, <2>5, Settled
<1>10. CASE l # Nothing
  <2>1. call' = Sent(B, "draws", [lottery |-> l], Nothing) /\ MaySend(1) /\ sent' = sent + 1
    BY <1>10, <1>A, <1>B DEF ChooseLottery
  <2>2. DatabaseOK' BY <2>1, DatabaseStays DEF ChooseLottery, PagesInv
  <2>3. FreeIn(B) # {} BY <1>5, <1>7, SlotIsFree DEF CallsFit
  <2>4. Fits(New("draws", [lottery |-> l], Nothing), g, page)
    BY <1>2, <1>6, NewCall DEF Fits
  <2>5. \A c \in Slots : UnderWay(B, c) => Family(B[c].kind) # Family("draws")
    BY <1>7 DEF Family
  <2>6. "draws" \in Kinds BY DEF Kinds
  <2>7. /\ CallsFit(call', g, page)
        /\ Under(call', "detail") <=> Under(B, "detail")
        /\ \A c \in Slots : call'[c] = B[c] \/ call'[c] = New("draws", [lottery |-> l], Nothing)
    BY <1>8, <2>1, <2>3, <2>4, <2>5, <2>6, SentCalls
  <2>8. NoneAnswered BY <1>5, <2>7, NewCall DEF NoneAnswered, UnderWay
  <2>9. checker'.loading <=> Under(call', "detail") BY <1>g, <1>2, <1>5, <2>7 DEF PagesInv
  <2>10. IsSearch(search') /\ IsPage(page') /\ open' = open /\ page' = page
    BY DEF ChooseLottery, PagesInv
  <2> QED BY <1>g, <1>3, <2>2, <2>7, <2>8, <2>9, <2>10, Settled
<1> QED BY <1>9, <1>10

LEMMA DrawChosen ==
  ASSUME PagesInv, NEW d \in Draws \cup {Nothing}, ChooseDraw(d)
  PROVE  PagesInv' /\ NoneAnswered
<1>f. PICK f : f = [checker EXCEPT !.draw = d, !.detail = Nothing, !.loading = Loading(d),
                                   !.ticket = Blank(@)]
  OBVIOUS
<1>1. /\ IsForm(f) /\ f.lottery = checker.lottery /\ f.draw = d /\ f.items = checker.items
      /\ f.detail = Nothing /\ f.loading = (d # Nothing)
  <2>1. PICK V : checker \in FormOf(V) BY DEF PagesInv, FormFits, IsForm
  <2>2. PICK t : t = Blank(checker.ticket) OBVIOUS
  <2>3. f = [checker EXCEPT !.draw = d, !.detail = Nothing, !.loading = d # Nothing, !.ticket = t]
    BY <1>f, <2>2 DEF Loading
  <2>4. PICK W : W = V \cup {d, Nothing, t} OBVIOUS
  <2>5. f \in FormOf(W) BY <2>1, <2>3, <2>4 DEF FormOf
  <2>6. /\ f.lottery = checker.lottery /\ f.draw = d /\ f.items = checker.items
        /\ f.detail = Nothing /\ f.loading = (d # Nothing)
    BY <2>1, <2>3 DEF FormOf
  <2> QED BY <2>5, <2>6 DEF IsForm
<1>g. PICK g : g = checker' OBVIOUS
<1>2. /\ IsForm(g) /\ g.lottery = checker.lottery /\ g.draw = d /\ g.items = checker.items
      /\ g.detail = Nothing /\ g.loading = (d # Nothing) /\ OutcomeFits(g)
  <2>1. g = [f EXCEPT !.outcome = Invalidated(@)] BY <1>g, <1>f DEF ChooseDraw, Edit
  <2> QED BY <1>1, <2>1, EditedForm
<1>3. /\ open = "check" \/ (open = "home" /\ page.state = "shown")
      /\ d \in checker.items \cup {Nothing}
  BY DEF ChooseDraw, Selecting, Rendered
<1>4. FormFits(g, page)
  <2>1. d # Nothing => d \in Draws /\ LotteryOf[d] = checker.lottery
    BY <1>3 DEF PagesInv, FormFits
  <2> QED BY <1>2, <1>3, <2>1 DEF FormFits, PagesInv
<1>A. PICK A : A = Aborted(call, "check") OBVIOUS
<1>B. PICK B : B = Aborted(A, "detail") OBVIOUS
<1>5. /\ CallsFit(A, checker, page) /\ ~Under(A, "check")
      /\ \A c \in Slots : UnderWay(A, c) => A[c] = call[c]
  BY <1>A, AbortedCalls DEF PagesInv
<1>6. /\ CallsFit(B, checker, page) /\ ~Under(B, "detail") /\ ~Under(B, "check")
      /\ \A c \in Slots : UnderWay(B, c) => B[c] = call[c]
  BY <1>B, <1>5, AbortedCalls DEF UnderWay
<1>7. \A c \in Slots : UnderWay(B, c) => B[c].kind = "draws"
  <2> SUFFICES ASSUME NEW c \in Slots, UnderWay(B, c) PROVE B[c].kind = "draws" OBVIOUS
  <2>1. Fits(B[c], checker, page) /\ B[c].kind \in Kinds
    BY <1>6 DEF CallsFit, IsCalls, CallOf
  <2> QED BY <1>3, <1>6, <2>1 DEF Fits, Under, Kinds
<1>8. CallsFit(B, g, page) BY <1>2, <1>6, <1>7, RefittedCalls DEF Fits
<1>9. IsSearch(search') /\ IsPage(page') /\ open' = open /\ page' = page
  BY DEF ChooseDraw, PagesInv
<1>10. CASE d = Nothing
  <2>1. call' = B BY <1>10, <1>A, <1>B DEF ChooseDraw, DetailAborted
  <2>2. DatabaseOK' BY <1>10, DatabaseStays DEF ChooseDraw, PagesInv
  <2>3. NoneAnswered BY <1>6, <2>1 DEF NoneAnswered, UnderWay
  <2>4. checker'.loading <=> Under(call', "detail") BY <1>g, <1>2, <1>6, <2>1, <1>10
  <2> QED BY <1>g, <1>4, <1>8, <1>9, <2>1, <2>2, <2>3, <2>4, Settled
<1>11. CASE d # Nothing
  <2>1. call' = Sent(B, "detail", [draw |-> d], Nothing) /\ MaySend(1) /\ sent' = sent + 1
    BY <1>11, <1>A, <1>B DEF ChooseDraw, DetailAsked, DetailAborted
  <2>2. DatabaseOK' BY <2>1, DatabaseStays DEF ChooseDraw, PagesInv
  <2>3. FreeIn(B) # {} BY <1>6, <1>7, SlotIsFree DEF CallsFit
  <2>4. Fits(New("detail", [draw |-> d], Nothing), g, page)
    BY <1>2, <1>3, NewCall DEF Fits
  <2>5. \A c \in Slots : UnderWay(B, c) => Family(B[c].kind) # Family("detail")
    BY <1>7 DEF Family
  <2>6. "detail" \in Kinds BY DEF Kinds
  <2>7. /\ CallsFit(call', g, page) /\ Under(call', "detail")
        /\ \A c \in Slots : call'[c] = B[c] \/ call'[c] = New("detail", [draw |-> d], Nothing)
    BY <1>8, <2>1, <2>3, <2>4, <2>5, <2>6, SentCalls
  <2>8. NoneAnswered BY <1>6, <2>7, NewCall DEF NoneAnswered, UnderWay
  <2>9. checker'.loading <=> Under(call', "detail") BY <1>g, <1>2, <2>7, <1>11
  <2> QED BY <1>g, <1>4, <1>9, <2>2, <2>7, <2>8, <2>9, Settled
<1> QED BY <1>10, <1>11

LEMMA TicketTyped ==
  ASSUME PagesInv, NEW t \in Tickets, TypeTicket(t)
  PROVE  PagesInv' /\ NoneAnswered
<1>f. PICK f : f = [checker EXCEPT !.ticket = t] OBVIOUS
<1>1. /\ IsForm(f) /\ f.lottery = checker.lottery /\ f.draw = checker.draw
      /\ f.items = checker.items /\ f.detail = checker.detail /\ f.loading = checker.loading
  <2>1. PICK V : checker \in FormOf(V) BY DEF PagesInv, FormFits, IsForm
  <2>2. PICK W : W = V \cup {t} OBVIOUS
  <2>3. f \in FormOf(W) BY <1>f, <2>1, <2>2 DEF FormOf
  <2> QED BY <1>f, <2>1, <2>3 DEF FormOf, IsForm
<1>g. PICK g : g = checker' OBVIOUS
<1>2. /\ IsForm(g) /\ g.lottery = checker.lottery /\ g.draw = checker.draw
      /\ g.items = checker.items /\ g.detail = checker.detail /\ g.loading = checker.loading
      /\ OutcomeFits(g)
  <2>1. g = [f EXCEPT !.outcome = Invalidated(@)] BY <1>g, <1>f DEF TypeTicket, Edit
  <2> QED BY <1>1, <2>1, EditedForm
<1>3. FormFits(g, page) BY <1>2 DEF FormFits, PagesInv
<1>4. /\ CallsFit(call', checker, page) /\ ~Under(call', "check")
      /\ Under(call', "detail") <=> Under(call, "detail")
      /\ \A c \in Slots : UnderWay(call', c) => call'[c] = call[c]
  BY AbortedCalls DEF PagesInv, TypeTicket
<1>5. CallsFit(call', g, page) BY <1>2, <1>4, SameDrawFits
<1>6. DatabaseOK' BY DatabaseStays DEF TypeTicket, PagesInv
<1>7. NoneAnswered BY <1>4 DEF NoneAnswered, UnderWay
<1>8. checker'.loading <=> Under(call', "detail") BY <1>g, <1>2, <1>4 DEF PagesInv
<1>9. IsSearch(search') /\ IsPage(page') /\ open' = open /\ page' = page
  BY DEF TypeTicket, PagesInv
<1> QED BY <1>g, <1>3, <1>5, <1>6, <1>7, <1>8, <1>9, Settled

(* A check that is sent is of the form it is sent from.                    *)
LEMMA CheckIsSent ==
  ASSUME NEW calls, CallsFit(calls, checker, page), FormFits(checker, page), Valid, Rendered,
         ~Under(calls, "check"),
         \A c \in Slots : UnderWay(calls, c) => calls[c].kind \in {"draws", "detail"},
         NEW again \in BOOLEAN,
         NEW g, g.lottery = checker.lottery, g.draw = checker.draw, g.ticket = checker.ticket,
         g.outcome.kind = "checking"
  PROVE  LET S == CheckSent(calls, again)
         IN  /\ CallsFit(S, g, page)
             /\ Under(S, "detail") <=> Under(calls, "detail")
             /\ \A c \in Slots : UnderWay(S, c) => S[c] = calls[c] \/ S[c].step = "sent"
<1>r. PICK req : req = [lottery |-> checker.lottery, draw |-> checker.draw,
                        ticket |-> checker.ticket, expected |-> Expected(again)]
  OBVIOUS
<1>s. PICK shown : shown = [inputs |-> Inputs, again |-> again, revision |-> RevisionShown,
                            detail |-> IF checker.detail = Nothing THEN Nothing
                                       ELSE checker.detail.draw]
  OBVIOUS
<1>A. PICK A : A = Aborted(calls, "check") OBVIOUS
<1>1. CheckSent(calls, again) = Sent(A, "check", req, shown) BY <1>r, <1>s, <1>A DEF CheckSent
<1>2. /\ CallsFit(A, checker, page) /\ ~Under(A, "check")
      /\ Under(A, "detail") <=> Under(calls, "detail")
      /\ \A c \in Slots : UnderWay(A, c) => A[c] = calls[c] /\ calls[c].kind \in {"draws", "detail"}
  BY <1>A, AbortedCalls DEF UnderWay
<1>3. CallsFit(A, g, page) BY <1>2, SameDrawFits
<1>4. FreeIn(A) # {}
  <2>1. \A c \in Slots : UnderWay(A, c) => Family(A[c].kind) \in {"draws", "detail"}
    BY <1>2 DEF Family
  <2> QED BY <1>2, <2>1, SlotIsFree DEF CallsFit
<1>5. Fits(New("check", req, shown), g, page)
  <2>1. PICK k : k = New("check", req, shown) OBVIOUS
  <2>2. k.kind = "check" /\ k.req = req /\ k.shown = shown BY <2>1, NewCall
  <2>3. Inputs = InputsOf(g) BY DEF Inputs, InputsOf
  <2>4. checker.draw # Nothing /\ LotteryOf[checker.draw] = checker.lottery
    BY DEF Valid, FormFits
  <2>5. shown.detail \in {Nothing, checker.draw} BY <1>s, <2>4 DEF FormFits
  <2>6. req.expected = IF shown.again THEN Nothing ELSE shown.revision
    BY <1>r, <1>s DEF Expected
  <2>7. /\ req.lottery = checker.lottery /\ req.draw = checker.draw /\ shown.inputs = Inputs
    BY <1>r, <1>s
  <2>8. Asks(k, g) BY <2>2, <2>3, <2>4, <2>5, <2>6, <2>7 DEF Asks
  <2>9. open = "check" \/ (open = "home" /\ page.state = "shown")
    BY <2>4 DEF Rendered, FormFits
  <2>10. Fits(k, g, page) BY <2>2, <2>8, <2>9 DEF Fits
  <2> QED BY <2>1, <2>10
<1>6. \A c \in Slots : UnderWay(A, c) => Family(A[c].kind) # Family("check")
  BY <1>2 DEF Family
<1>7. "check" \in Kinds BY DEF Kinds
<1>8. PICK S : S = Sent(A, "check", req, shown) OBVIOUS
<1>9. /\ CallsFit(S, g, page)
      /\ Under(S, "detail") <=> Under(A, "detail")
      /\ \A c \in Slots : S[c] = A[c] \/ S[c] = New("check", req, shown)
  BY <1>3, <1>4, <1>5, <1>6, <1>7, <1>8, SentCalls
<1>10. New("check", req, shown).step = "sent" BY NewCall
<1>11. \A c \in Slots : UnderWay(S, c) => S[c] = calls[c] \/ S[c].step = "sent"
  BY <1>2, <1>9, <1>10 DEF UnderWay
<1> QED BY <1>1, <1>2, <1>8, <1>9, <1>11

(* The form while its check is under way.                                  *)
LEMMA CheckingForm ==
  ASSUME FormFits(checker, page), NEW b \in BOOLEAN,
         NEW g, g = [checker EXCEPT !.loading = b, !.outcome = [Idle EXCEPT !.kind = "checking"]]
  PROVE  /\ FormFits(g, page) /\ g.lottery = checker.lottery /\ g.draw = checker.draw
         /\ g.ticket = checker.ticket /\ g.outcome.kind = "checking" /\ g.loading = b
<1>1. PICK V : checker \in FormOf(V) BY DEF FormFits, IsForm
<1>2. PICK W : W = V \cup {Nothing} OBVIOUS
<1>3. PICK o : o = [Idle EXCEPT !.kind = "checking"] OBVIOUS
<1>4. o \in [kind : OutcomeKinds, data : W, shown : W] /\ o.kind = "checking"
  BY <1>2, <1>3 DEF Idle, OutcomeKinds
<1>5. g = [checker EXCEPT !.loading = b, !.outcome = o] BY <1>3
<1>6. g \in FormOf(W) BY <1>1, <1>2, <1>4, <1>5 DEF FormOf
<1>7. /\ g.lottery = checker.lottery /\ g.draw = checker.draw /\ g.items = checker.items
      /\ g.detail = checker.detail /\ g.ticket = checker.ticket /\ g.outcome = o /\ g.loading = b
  BY <1>1, <1>5 DEF FormOf
<1>8. OutcomeFits(g) BY <1>4, <1>7 DEF OutcomeFits
<1> QED BY <1>4, <1>6, <1>7, <1>8 DEF FormFits, IsForm

(* What is under way on a page with a form that is not being checked.      *)
LEMMA NotBusy ==
  ASSUME PagesInv, Rendered, ~Busy
  PROVE  /\ ~Under(call, "check")
         /\ \A c \in Slots : UnderWay(call, c) => call[c].kind \in {"draws", "detail"}
<1>1. ASSUME NEW c \in Slots, UnderWay(call, c) PROVE call[c].kind \in {"draws", "detail"}
  <2>1. Fits(call[c], checker, page) /\ call[c].kind \in Kinds
    BY <1>1 DEF PagesInv, CallsFit, IsCalls, CallOf
  <2>2. call[c].kind # "check" BY <2>1 DEF Fits, Asks, Busy
  <2>3. open = "check" \/ (open = "home" /\ page.state = "shown")
    BY DEF Rendered, PagesInv, FormFits
  <2> QED BY <2>1, <2>2, <2>3 DEF Fits, Kinds
<1> QED BY <1>1 DEF Under

LEMMA CheckSubmitted ==
  ASSUME PagesInv, Submit
  PROVE  PagesInv' /\ NoneAnswered
<1>g. PICK g : g = checker' OBVIOUS
<1>1. Rendered /\ ~Busy /\ Valid /\ call' = CheckSent(call, FALSE) BY DEF Submit
<1>2. checker.loading = FALSE /\ checker.loading \in BOOLEAN
  BY DEF PagesInv, FormFits, IsForm, FormOf, Submit
<1>3. g = [checker EXCEPT !.loading = FALSE, !.outcome = [Idle EXCEPT !.kind = "checking"]]
  <2>1. PICK V : checker \in FormOf(V) BY DEF PagesInv, FormFits, IsForm
  <2>2. g = [checker EXCEPT !.outcome = [Idle EXCEPT !.kind = "checking"]] BY <1>g DEF Submit
  <2> QED BY <1>2, <2>1, <2>2 DEF FormOf
<1>4. /\ FormFits(g, page) /\ g.lottery = checker.lottery /\ g.draw = checker.draw
      /\ g.ticket = checker.ticket /\ g.outcome.kind = "checking" /\ g.loading = FALSE
  BY <1>3, CheckingForm DEF PagesInv
<1>5. /\ CallsFit(call', g, page)
      /\ Under(call', "detail") <=> Under(call, "detail")
      /\ \A c \in Slots : UnderWay(call', c) => call'[c] = call[c] \/ call'[c].step = "sent"
  BY <1>1, <1>4, NotBusy, CheckIsSent DEF PagesInv
<1>6. DatabaseOK' BY DatabaseStays DEF Submit, PagesInv
<1>7. NoneAnswered BY <1>5 DEF NoneAnswered, UnderWay
<1>8. checker'.loading <=> Under(call', "detail") BY <1>g, <1>2, <1>4, <1>5 DEF PagesInv
<1>9. IsSearch(search') /\ IsPage(page') /\ open' = open /\ page' = page
  BY DEF Submit, PagesInv
<1> QED BY <1>g, <1>4, <1>5, <1>6, <1>7, <1>8, <1>9, Settled

(* A detail that is asked for anew is of the draw that is chosen.          *)
LEMMA DetailIsAsked ==
  ASSUME PagesInv, Rendered, ~Busy, checker.draw # Nothing
  PROVE  LET D == DetailAsked(call, checker.draw)
         IN  /\ CallsFit(D, checker, page) /\ Under(D, "detail") /\ ~Under(D, "check")
             /\ \A c \in Slots : UnderWay(D, c) =>
                   D[c].kind \in {"draws", "detail"} /\ (D[c] = call[c] \/ D[c].step = "sent")
<1>q. PICK req : req = [draw |-> checker.draw] OBVIOUS
<1>A. PICK A : A = Aborted(call, "detail") OBVIOUS
<1>D. PICK D : D = Sent(A, "detail", req, Nothing) OBVIOUS
<1>1. DetailAsked(call, checker.draw) = D BY <1>q, <1>A, <1>D DEF DetailAsked, DetailAborted
<1>2. /\ CallsFit(A, checker, page) /\ ~Under(A, "detail")
      /\ Under(A, "check") <=> Under(call, "check")
      /\ \A c \in Slots : UnderWay(A, c) => A[c] = call[c] /\ call[c].kind # "detail"
  BY <1>A, AbortedCalls DEF PagesInv
<1>3. /\ ~Under(A, "check")
      /\ \A c \in Slots : UnderWay(A, c) => A[c] = call[c] /\ call[c].kind = "draws"
  BY <1>2, NotBusy DEF UnderWay
<1>4. \A c \in Slots : UnderWay(A, c) => Family(A[c].kind) = "draws" BY <1>3 DEF Family
<1>5. FreeIn(A) # {} BY <1>2, <1>4, SlotIsFree DEF CallsFit
<1>6. Family("detail") = "detail" /\ "detail" \in Kinds BY DEF Family, Kinds
<1>n. PICK n : n = New("detail", req, Nothing) OBVIOUS
<1>7. n.step = "sent" /\ n.kind = "detail" /\ n.req.draw = checker.draw
  BY <1>q, <1>n, NewCall
<1>8. open = "check" \/ (open = "home" /\ page.state = "shown")
  BY DEF Rendered, PagesInv, FormFits
<1>9. Fits(n, checker, page) BY <1>7, <1>8 DEF Fits
<1>10. /\ CallsFit(D, checker, page) /\ Under(D, "detail")
       /\ Under(D, "check") <=> Under(A, "check")
       /\ \A c \in Slots : D[c] = A[c] \/ D[c] = n
  BY <1>D, <1>n, <1>2, <1>4, <1>5, <1>6, <1>9, SentCalls
<1>11. \A c \in Slots : UnderWay(D, c) =>
          D[c].kind \in {"draws", "detail"} /\ (D[c] = call[c] \/ D[c].step = "sent")
  BY <1>3, <1>7, <1>10 DEF UnderWay
<1> QED BY <1>1, <1>3, <1>10, <1>11

LEMMA CheckedAgain ==
  ASSUME PagesInv, CheckAgain
  PROVE  PagesInv' /\ NoneAnswered
<1>D. PICK D : D = DetailAsked(call, checker.draw) OBVIOUS
<1>g. PICK g : g = checker' OBVIOUS
<1>1. Rendered /\ ~Busy /\ checker.draw # Nothing BY DEF CheckAgain, MayTryAgain, Busy
<1>2. /\ CallsFit(D, checker, page) /\ Under(D, "detail") /\ ~Under(D, "check")
      /\ \A c \in Slots : UnderWay(D, c) =>
            D[c].kind \in {"draws", "detail"} /\ (D[c] = call[c] \/ D[c].step = "sent")
  BY <1>1, <1>D, DetailIsAsked
<1>3. IsSearch(search') /\ IsPage(page') /\ open' = open /\ page' = page
  BY DEF CheckAgain, PagesInv
<1>4. CASE Valid
  <2>1. /\ call' = CheckSent(D, TRUE) /\ MaySend(2) /\ sent' = sent + 2
        /\ g = [checker EXCEPT !.loading = TRUE, !.outcome = [Idle EXCEPT !.kind = "checking"]]
    BY <1>4, <1>D, <1>g DEF CheckAgain
  <2>2. /\ FormFits(g, page) /\ g.lottery = checker.lottery /\ g.draw = checker.draw
        /\ g.ticket = checker.ticket /\ g.outcome.kind = "checking" /\ g.loading = TRUE
    BY <2>1, CheckingForm DEF PagesInv
  <2>3. /\ CallsFit(call', g, page)
        /\ Under(call', "detail") <=> Under(D, "detail")
        /\ \A c \in Slots : UnderWay(call', c) => call'[c] = D[c] \/ call'[c].step = "sent"
    <3>1. FormFits(checker, page) BY DEF PagesInv
    <3>2. \A c \in Slots : UnderWay(D, c) => D[c].kind \in {"draws", "detail"} BY <1>2
    <3>3. LET S == CheckSent(D, TRUE)
          IN  /\ CallsFit(S, g, page)
              /\ Under(S, "detail") <=> Under(D, "detail")
              /\ \A c \in Slots : UnderWay(S, c) => S[c] = D[c] \/ S[c].step = "sent"
      BY <1>1, <1>2, <1>4, <2>2, <3>1, <3>2, CheckIsSent
    <3> QED BY <2>1, <3>3
  <2>4. DatabaseOK' BY <2>1, DatabaseStays DEF CheckAgain, PagesInv
  <2>5. NoneAnswered BY <1>2, <2>3 DEF NoneAnswered, UnderWay
  <2>6. checker'.loading <=> Under(call', "detail") BY <1>g, <1>2, <2>2, <2>3
  <2> QED BY <1>g, <1>3, <2>2, <2>3, <2>4, <2>5, <2>6, Settled
<1>5. CASE ~Valid
  <2>1. call' = D /\ MaySend(1) /\ sent' = sent + 1 /\ g = [checker EXCEPT !.loading = TRUE]
    BY <1>5, <1>D, <1>g DEF CheckAgain
  <2>2. PICK V : checker \in FormOf(V) BY DEF PagesInv, FormFits, IsForm
  <2>3. g \in FormOf(V) /\ g.loading = TRUE BY <2>1, <2>2 DEF FormOf
  <2>4. /\ g.lottery = checker.lottery /\ g.draw = checker.draw /\ g.items = checker.items
        /\ g.detail = checker.detail /\ g.ticket = checker.ticket /\ g.outcome = checker.outcome
    BY <2>1, <2>2 DEF FormOf
  <2>5. InputsOf(g) = InputsOf(checker) BY <2>4 DEF InputsOf
  <2>6. FormFits(g, page) BY <2>3, <2>4, <2>5 DEF PagesInv, FormFits, IsForm, OutcomeFits
  <2>7. CallsFit(call', g, page) BY <1>2, <2>1, <2>4, SameDrawFits
  <2>8. DatabaseOK' BY <2>1, DatabaseStays DEF CheckAgain, PagesInv
  <2>9. NoneAnswered BY <1>2, <2>1 DEF NoneAnswered, UnderWay
  <2>10. checker'.loading <=> Under(call', "detail") BY <1>g, <1>2, <2>1, <2>3
  <2> QED BY <1>g, <1>3, <2>6, <2>7, <2>8, <2>9, <2>10, Settled
<1> QED BY <1>4, <1>5

(* The first of a nonempty set of numbers is in it.                        *)
LEMMA FirstIsIn ==
  ASSUME NEW S \in SUBSET Nat, S # {}
  PROVE  (CHOOSE i \in S : \A j \in S : i <= j) \in S
<1>1. PICK R : R = {p \in Nat \X Nat : p[1] < p[2]} OBVIOUS
<1>2. IsWellFoundedOn(R, Nat) BY <1>1, NatLessThanWellFounded DEF OpToRel
<1>3. PICK i \in S : \A j \in S : ~ (<<j, i>> \in R) BY <1>2, WFMin
<1>4. ASSUME NEW j \in S PROVE i <= j
  <2>1. <<j, i>> \in Nat \X Nat OBVIOUS
  <2>2. ~ (j < i) BY <1>1, <1>3, <2>1
  <2> QED BY <2>2
<1> QED BY <1>4

(* What an answer is about.                                                *)
LEMMA AnswersSay ==
  ASSUME NEW k, Honest(k), k.step = "answered", k.answer # Lost
  PROVE  /\ k.kind = "draws" => k.answer.items = DrawsOf(k.req.lottery)
         /\ k.kind \in {"detail", "home"} => k.answer.draw = k.req.draw
         /\ k.kind = "check" /\ k.answer.outcome \in Verdicts =>
               k.req.expected \in {Nothing, k.answer.revision}
         /\ k.kind = "latest" => k.answer.draw \in Draws \cup {Nothing}
<1>1. PICK v : k.answer = Answer(v, v, k.kind, k.req) BY DEF Honest
<1>2. k.kind = "draws" => k.answer.items = DrawsOf(k.req.lottery)
  BY <1>1 DEF Answer, DrawList
<1>3. k.kind \in {"detail", "home"} => k.answer.draw = k.req.draw
  BY <1>1 DEF Answer, DrawDetail
<1>4. ASSUME k.kind = "check", k.answer.outcome \in Verdicts
      PROVE  k.req.expected \in {Nothing, k.answer.revision}
  <2>1. k.answer = Check(v, v, k.req) BY <1>1, <1>4 DEF Answer
  <2>2. PICK e : e = Current(v, k.req.draw) OBVIOUS
  <2> QED BY <1>4, <2>1, <2>2 DEF Check, Refusal, Verdicts
<1>5. ASSUME k.kind = "latest" PROVE k.answer.draw \in Draws \cup {Nothing}
  <2>1. k.answer = Latest(v, v) BY <1>1, <1>5 DEF Answer
  <2>2. PICK visible : visible = {i \in DOMAIN DrawOrder : Searchable(v, DrawOrder[i])} OBVIOUS
  <2>3. PICK i : i = CHOOSE j \in visible : \A m \in visible : j <= m OBVIOUS
  <2>4. CASE visible = {}
    BY <2>1, <2>2, <2>4 DEF Latest
  <2>5. CASE visible # {}
    <3>1. visible \in SUBSET Nat BY <2>2, ReadsAssumption
    <3>2. i \in visible BY <2>3, <2>5, <3>1, FirstIsIn
    <3>3. DrawOrder[i] \in Draws BY <2>2, <3>2, ReadsAssumption
    <3>4. k.answer.draw = DrawOrder[i] BY <2>1, <2>2, <2>3, <2>5 DEF Latest
    <3> QED BY <3>3, <3>4
  <2> QED BY <2>4, <2>5
<1> QED BY <1>2, <1>3, <1>4, <1>5

(* Calls fit a form whose inputs and outcome are the same.                 *)
LEMMA SameInputsFit ==
  ASSUME NEW calls, NEW form, NEW p, CallsFit(calls, form, p),
         NEW g, g.lottery = form.lottery, g.draw = form.draw, g.ticket = form.ticket,
         g.outcome = form.outcome
  PROVE  CallsFit(calls, g, p) /\ (OutcomeFits(form) => OutcomeFits(g))
<1>1. InputsOf(g) = InputsOf(form) BY DEF InputsOf
<1>2. CallsFit(calls, g, p) BY <1>1, RefittedCalls DEF Fits, Asks
<1>3. OutcomeFits(form) => OutcomeFits(g) BY <1>1 DEF OutcomeFits
<1> QED BY <1>2, <1>3

(* What an answer that is delivered leaves under way.                      *)
LEMMA Delivered ==
  ASSUME PagesInv, NEW c \in Slots, UnderWay(call, c), Taken(c), UNCHANGED <<tables, changes, sent>>
  PROVE  /\ CallsFit(call', checker, page) /\ DatabaseOK'
         /\ ~Under(call', call[c].kind)
         /\ \A k : k # call[c].kind => (Under(call', k) <=> Under(call, k))
         /\ \A e \in Slots : UnderWay(call', e) =>
               call'[e] = call[e] /\ Family(call[e].kind) # Family(call[c].kind)
         /\ NoneAnswered
         /\ Honest(call[c]) /\ Fits(call[c], checker, page) /\ call[c].kind \in Kinds
         /\ \E V : call[c] \in CallOf(V)
<1>1. call' = Without(call, c) BY DEF Taken, Without
<1>2. /\ CallsFit(call', checker, page) /\ ~Under(call', call[c].kind)
      /\ \A k : k # call[c].kind => (Under(call', k) <=> Under(call, k))
      /\ \A e \in Slots : UnderWay(call', e) =>
            call'[e] = call[e] /\ Family(call[e].kind) # Family(call[c].kind)
  BY <1>1, TakenCalls DEF PagesInv
<1>3. DatabaseOK' BY DatabaseStays DEF PagesInv
<1>4. NoneAnswered BY <1>2 DEF NoneAnswered, UnderWay
<1>5. Honest(call[c]) /\ Fits(call[c], checker, page) BY DEF PagesInv, CallsFit
<1>6. (\E V : call[c] \in CallOf(V)) /\ call[c].kind \in Kinds
  BY DEF PagesInv, CallsFit, IsCalls, CallOf
<1> QED BY <1>2, <1>3, <1>4, <1>5, <1>6

LEMMA DrawsDelivered ==
  ASSUME PagesInv, NEW c \in Slots, DeliverDraws(c)
  PROVE  PagesInv' /\ NoneAnswered
<1>k. PICK k : k = call[c] OBVIOUS
<1>g. PICK g : g = checker' OBVIOUS
<1>1. /\ k.step = "answered" /\ k.kind = "draws" /\ UnderWay(call, c) /\ Taken(c)
      /\ UNCHANGED <<tables, changes, sent>>
      /\ g = [checker EXCEPT !.listing = FALSE, !.items = IF Arrived(c) THEN k.answer.items ELSE {}]
  BY <1>k, <1>g DEF DeliverDraws, Answered, UnderWay
<1>2. /\ CallsFit(call', checker, page) /\ DatabaseOK' /\ NoneAnswered
      /\ Under(call', "detail") <=> Under(call, "detail")
      /\ Honest(k) /\ Fits(k, checker, page)
  BY <1>1, <1>k, Delivered
<1>3. PICK items : items = IF Arrived(c) THEN k.answer.items ELSE {} OBVIOUS
<1>4. \A d \in items : d \in Draws /\ LotteryOf[d] = checker.lottery
  <2>1. Arrived(c) => k.answer # Lost BY <1>k DEF Arrived, Lost, Refusal
  <2>2. Arrived(c) => items = DrawsOf(checker.lottery)
    BY <1>1, <1>2, <1>3, <2>1, AnswersSay DEF Fits
  <2> QED BY <1>3, <2>2 DEF DrawsOf
<1>5. /\ IsForm(g) /\ g.lottery = checker.lottery /\ g.draw = checker.draw /\ g.items = items
      /\ g.detail = checker.detail /\ g.ticket = checker.ticket /\ g.outcome = checker.outcome
      /\ g.loading = checker.loading
  <2>1. PICK V : checker \in FormOf(V) BY DEF PagesInv, FormFits, IsForm
  <2>2. PICK W : W = V \cup {items} OBVIOUS
  <2>3. g = [checker EXCEPT !.listing = FALSE, !.items = items] BY <1>1, <1>3
  <2>4. g \in FormOf(W) BY <2>1, <2>2, <2>3 DEF FormOf
  <2>5. /\ g.lottery = checker.lottery /\ g.draw = checker.draw /\ g.items = items
        /\ g.detail = checker.detail /\ g.ticket = checker.ticket /\ g.outcome = checker.outcome
        /\ g.loading = checker.loading
    BY <2>1, <2>3 DEF FormOf
  <2> QED BY <2>4, <2>5 DEF IsForm
<1>6. CallsFit(call', g, page) /\ FormFits(g, page)
  BY <1>2, <1>4, <1>5, SameInputsFit DEF PagesInv, FormFits
<1>7. checker'.loading <=> Under(call', "detail") BY <1>g, <1>2, <1>5 DEF PagesInv
<1>8. IsSearch(search') /\ IsPage(page') /\ open' = open /\ page' = page
  BY DEF DeliverDraws, PagesInv
<1> QED BY <1>g, <1>2, <1>6, <1>7, <1>8, Settled

LEMMA DetailDelivered ==
  ASSUME PagesInv, NEW c \in Slots, DeliverDetail(c)
  PROVE  PagesInv' /\ NoneAnswered
<1>k. PICK k : k = call[c] OBVIOUS
<1>g. PICK g : g = checker' OBVIOUS
<1>3. PICK detail : detail = IF Arrived(c) THEN k.answer ELSE Nothing OBVIOUS
<1>1. /\ k.step = "answered" /\ k.kind = "detail" /\ UnderWay(call, c) /\ Taken(c)
      /\ UNCHANGED <<tables, changes, sent>>
      /\ g = [checker EXCEPT !.loading = FALSE, !.detail = detail]
  BY <1>k, <1>g, <1>3 DEF DeliverDetail, Answered, UnderWay
<1>2. /\ CallsFit(call', checker, page) /\ DatabaseOK' /\ NoneAnswered
      /\ ~Under(call', "detail")
      /\ Honest(k) /\ Fits(k, checker, page)
  BY <1>1, <1>k, Delivered
<1>4. detail # Nothing /\ checker.draw # Nothing => detail.draw = checker.draw
  <2>1. Arrived(c) => k.answer # Lost BY <1>k DEF Arrived, Lost, Refusal
  <2>2. Arrived(c) => detail.draw = k.req.draw
    BY <1>1, <1>2, <1>3, <2>1, AnswersSay
  <2> QED BY <1>1, <1>2, <1>3, <2>2 DEF Fits
<1>5. /\ IsForm(g) /\ g.lottery = checker.lottery /\ g.draw = checker.draw
      /\ g.items = checker.items /\ g.detail = detail /\ g.ticket = checker.ticket
      /\ g.outcome = checker.outcome /\ g.loading = FALSE
  <2>1. PICK V : checker \in FormOf(V) BY DEF PagesInv, FormFits, IsForm
  <2>2. PICK W : W = V \cup {detail} OBVIOUS
  <2>4. g \in FormOf(W) BY <1>1, <2>1, <2>2 DEF FormOf
  <2>5. /\ g.lottery = checker.lottery /\ g.draw = checker.draw
        /\ g.items = checker.items /\ g.detail = detail /\ g.ticket = checker.ticket
        /\ g.outcome = checker.outcome /\ g.loading = FALSE
    BY <1>1, <2>1 DEF FormOf
  <2> QED BY <2>4, <2>5 DEF IsForm
<1>6. CallsFit(call', g, page) /\ FormFits(g, page)
  BY <1>2, <1>4, <1>5, SameInputsFit DEF PagesInv, FormFits
<1>7. checker'.loading <=> Under(call', "detail") BY <1>g, <1>2, <1>5
<1>8. IsSearch(search') /\ IsPage(page') /\ open' = open /\ page' = page
  BY DEF DeliverDetail, PagesInv
<1> QED BY <1>g, <1>2, <1>6, <1>7, <1>8, Settled

LEMMA CheckDelivered ==
  ASSUME PagesInv, NEW c \in Slots, DeliverCheck(c)
  PROVE  PagesInv' /\ NoneAnswered
<1>k. PICK k : k = call[c] OBVIOUS
<1>g. PICK g : g = checker' OBVIOUS
<1>o. PICK o : o = Reported(c) OBVIOUS
<1>1. /\ k.step = "answered" /\ k.kind = "check" /\ UnderWay(call, c) /\ Taken(c)
      /\ UNCHANGED <<tables, changes, sent>>
      /\ g = [checker EXCEPT !.outcome = o]
  BY <1>k, <1>g, <1>o DEF DeliverCheck, Answered, UnderWay
<1>2. /\ CallsFit(call', checker, page) /\ DatabaseOK' /\ NoneAnswered
      /\ ~Under(call', "check") /\ (Under(call', "detail") <=> Under(call, "detail"))
      /\ Honest(k) /\ Fits(k, checker, page) /\ \E V : k \in CallOf(V)
  BY <1>1, <1>k, Delivered
<1>3. Asks(k, checker) BY <1>1, <1>2 DEF Fits
<1>4. /\ o.kind \in {"idle", "result", "failure"}
      /\ o.kind = "idle" => o = Idle
      /\ o.kind # "idle" => o = [kind |-> o.kind, data |-> k.answer, shown |-> k.shown]
      /\ o.kind = "result" => k.answer.outcome \in Results
  BY <1>k, <1>o DEF Reported, Idle
<1>5. /\ IsForm(g) /\ g.lottery = checker.lottery /\ g.draw = checker.draw
      /\ g.items = checker.items /\ g.detail = checker.detail /\ g.ticket = checker.ticket
      /\ g.outcome = o /\ g.loading = checker.loading
  <2>1. PICK V : checker \in FormOf(V) BY DEF PagesInv, FormFits, IsForm
  <2>2. PICK W : W = V \cup {Nothing, k.answer, k.shown} OBVIOUS
  <2>3. o \in [kind : OutcomeKinds, data : W, shown : W]
    BY <1>4, <2>2 DEF OutcomeKinds, Idle
  <2>4. g \in FormOf(W) BY <1>1, <2>1, <2>2, <2>3 DEF FormOf
  <2>5. /\ g.lottery = checker.lottery /\ g.draw = checker.draw
        /\ g.items = checker.items /\ g.detail = checker.detail /\ g.ticket = checker.ticket
        /\ g.outcome = o /\ g.loading = checker.loading
    BY <1>1, <2>1 DEF FormOf
  <2> QED BY <2>4, <2>5 DEF IsForm
<1>6. OutcomeFits(g)
  <2>1. InputsOf(g) = InputsOf(checker) BY <1>5 DEF InputsOf
  <2>2. o.kind \in {"result", "failure"} => o.data = k.answer /\ o.shown = k.shown BY <1>4
  <2>3. o.kind = "result" /\ k.answer.outcome \in Verdicts /\ ~k.shown.again
           /\ k.shown.revision # Nothing => k.answer.revision = k.shown.revision
    <3>1. o.kind = "result" => k.answer # Lost
      BY <1>4 DEF Lost, Refusal, Results, Verdicts
    <3>2. o.kind = "result" /\ k.answer.outcome \in Verdicts =>
             k.req.expected \in {Nothing, k.answer.revision}
      BY <1>1, <1>2, <3>1, AnswersSay
    <3> QED BY <1>3, <3>2 DEF Asks
  <2> QED BY <1>3, <1>5, <2>1, <2>2, <2>3 DEF OutcomeFits, Asks
<1>7. CallsFit(call', g, page) /\ FormFits(g, page)
  BY <1>2, <1>5, <1>6, SameDrawFits DEF PagesInv, FormFits
<1>8. checker'.loading <=> Under(call', "detail") BY <1>g, <1>2, <1>5 DEF PagesInv
<1>9. IsSearch(search') /\ IsPage(page') /\ open' = open /\ page' = page
  BY DEF DeliverCheck, PagesInv
<1> QED BY <1>g, <1>2, <1>7, <1>8, <1>9, Settled

-----------------------------------------------------------------------------
(* Steps of the search and of the pages rendered from two requests.        *)

LEMMA UnderWayHere ==
  ASSUME PagesInv, NEW c \in Slots, UnderWay(call, c)
  PROVE  /\ open = "search" => call[c].kind = "search"
         /\ open = "result" => call[c].kind \in {"head", "result"} /\ page.state = "loading"
         /\ open = "home" /\ page.state # "shown" =>
               call[c].kind \in {"latest", "home"} /\ page.state = "loading"
<1>1. Fits(call[c], checker, page) /\ call[c].kind \in Kinds
  BY DEF PagesInv, CallsFit, IsCalls, CallOf
<1> QED BY <1>1 DEF Fits, Kinds

(* With nothing under way, a request may be of any form and page.          *)
LEMMA SentAlone ==
  ASSUME NEW calls, NEW form, NEW p, CallsFit(calls, form, p), \A e \in Slots : ~UnderWay(calls, e),
         NEW g, NEW q, NEW kind \in Kinds, NEW req, NEW shown, Fits(New(kind, req, shown), g, q),
         kind # "detail"
  PROVE  LET S == Sent(calls, kind, req, shown)
         IN  /\ CallsFit(S, g, q) /\ ~Under(S, "detail")
             /\ \A e \in Slots : UnderWay(S, e) => S[e].step = "sent"
<1>S. PICK S : S = Sent(calls, kind, req, shown) OBVIOUS
<1>1. CallsFit(calls, g, q) BY RefittedCalls
<1>2. FreeIn(calls) # {} BY SlotIsFree DEF CallsFit
<1>3. /\ CallsFit(S, g, q)
      /\ Under(S, "detail") <=> Under(calls, "detail")
      /\ \A e \in Slots : S[e] = calls[e] \/ S[e] = New(kind, req, shown)
  BY <1>S, <1>1, <1>2, SentCalls
<1>4. ~Under(S, "detail") BY <1>3 DEF Under
<1>5. \A e \in Slots : UnderWay(S, e) => S[e].step = "sent" BY <1>3, NewCall DEF UnderWay
<1> QED BY <1>S, <1>3, <1>4, <1>5

LEMMA SearchEdited ==
  ASSUME PagesInv, EditSearch
  PROVE  PagesInv' /\ NoneAnswered
<1>1. UNCHANGED <<tables, changes, sent, call>> BY DEF EditSearch, readVars
<1>2. DatabaseOK' BY <1>1, DatabaseStays DEF PagesInv
<1>3. IsSearch(search')
  <2>1. PICK V : search \in [lottery : V, ticket : V,
                             state : {"idle", "searching", "result", "failure"}, data : V]
    BY DEF PagesInv, IsSearch
  <2>2. PICK x : search' \in {[search EXCEPT !.ticket = x], [search EXCEPT !.lottery = x]}
    BY DEF EditSearch
  <2>3. PICK W : W = V \cup {x} OBVIOUS
  <2>4. search' \in [lottery : W, ticket : W, state : {"idle", "searching", "result", "failure"},
                     data : W]
    BY <2>1, <2>2, <2>3
  <2> QED BY <2>4 DEF IsSearch
<1>4. NoneAnswered BY <1>1 DEF NoneAnswered
<1>5. checker' = checker /\ page' = page /\ open' = open BY DEF EditSearch
<1> QED BY <1>1, <1>2, <1>3, <1>4, <1>5, Settled DEF PagesInv

LEMMA SearchRun ==
  ASSUME PagesInv, NEW n, open = "search", RunSearch(n)
  PROVE  PagesInv' /\ NoneAnswered
<1>q. PICK req : req = [lottery |-> search.lottery, ticket |-> search.ticket, page |-> n] OBVIOUS
<1>A. PICK A : A = Aborted(call, "search") OBVIOUS
<1>1. /\ call' = Sent(A, "search", req, Nothing) /\ MaySend(1) /\ sent' = sent + 1
      /\ UNCHANGED <<tables, changes, open, checker, page>>
      /\ search' = [search EXCEPT !.state = "searching", !.data = Nothing]
  BY <1>q, <1>A DEF RunSearch
<1>2. /\ CallsFit(A, checker, page)
      /\ Under(A, "detail") <=> Under(call, "detail")
      /\ \A e \in Slots : UnderWay(A, e) => A[e] = call[e] /\ call[e].kind # "search"
  BY <1>A, AbortedCalls DEF PagesInv
<1>3. \A e \in Slots : ~UnderWay(A, e) BY <1>2, UnderWayHere DEF UnderWay
<1>4. Fits(New("search", req, Nothing), checker, page) BY NewCall DEF Fits
<1>5. "search" \in Kinds BY DEF Kinds
<1>6. /\ CallsFit(call', checker, page) /\ ~Under(call', "detail")
      /\ \A e \in Slots : UnderWay(call', e) => call'[e].step = "sent"
  BY <1>1, <1>2, <1>3, <1>4, <1>5, SentAlone
<1>7. DatabaseOK' BY <1>1, DatabaseStays DEF PagesInv
<1>8. NoneAnswered BY <1>6 DEF NoneAnswered, UnderWay
<1>9. ~Under(call, "detail") BY <1>2, <1>3 DEF Under
<1>10. IsSearch(search')
  <2>1. PICK V : search \in [lottery : V, ticket : V,
                             state : {"idle", "searching", "result", "failure"}, data : V]
    BY DEF PagesInv, IsSearch
  <2>3. PICK W : W = V \cup {Nothing} OBVIOUS
  <2>4. search' \in [lottery : W, ticket : W, state : {"idle", "searching", "result", "failure"},
                     data : W]
    BY <1>1, <2>1, <2>3
  <2> QED BY <2>4 DEF IsSearch
<1> QED BY <1>1, <1>6, <1>7, <1>8, <1>9, <1>10, Settled DEF PagesInv

LEMMA SearchDelivered ==
  ASSUME PagesInv, NEW c \in Slots, DeliverSearch(c)
  PROVE  PagesInv' /\ NoneAnswered
<1>1. /\ call[c].kind = "search" /\ UnderWay(call, c) /\ Taken(c)
      /\ UNCHANGED <<tables, changes, sent, open, checker, page>>
  BY DEF DeliverSearch, Answered, UnderWay
<1>2. /\ CallsFit(call', checker, page) /\ DatabaseOK' /\ NoneAnswered
      /\ Under(call', "detail") <=> Under(call, "detail")
  BY <1>1, Delivered
<1>3. IsSearch(search')
  <2>1. PICK V : search \in [lottery : V, ticket : V,
                             state : {"idle", "searching", "result", "failure"}, data : V]
    BY DEF PagesInv, IsSearch
  <2>2. PICK W : W = V \cup {call[c].answer} OBVIOUS
  <2>3. search' \in {[search EXCEPT !.state = "result", !.data = call[c].answer],
                     [search EXCEPT !.state = "failure"]}
    BY DEF DeliverSearch
  <2>4. search' \in [lottery : W, ticket : W, state : {"idle", "searching", "result", "failure"},
                     data : W]
    BY <2>1, <2>2, <2>3
  <2> QED BY <2>4 DEF IsSearch
<1> QED BY <1>1, <1>2, <1>3, Settled DEF PagesInv

(* A page that is rendered has no other request under way.                 *)
LEMMA Rendering ==
  ASSUME PagesInv, NEW c \in Slots, UnderWay(call, c),
         call[c].kind \in {"head", "result", "latest", "home"}
  PROVE  LET T == Without(call, c)
         IN  /\ CallsFit(T, checker, page) /\ \A e \in Slots : ~UnderWay(T, e)
             /\ page.state = "loading"
             /\ call[c].kind \in {"head", "result"} => open = "result"
             /\ call[c].kind \in {"latest", "home"} => open = "home" /\ checker.draw = Nothing
             /\ call[c].kind = "home" => call[c].req.draw \in Draws
             /\ Honest(call[c]) /\ ~checker.loading
<1>1. Fits(call[c], checker, page) /\ Honest(call[c]) BY DEF PagesInv, CallsFit
<1>2. /\ page.state = "loading"
      /\ call[c].kind \in {"head", "result"} => open = "result"
      /\ call[c].kind \in {"latest", "home"} => open = "home"
      /\ call[c].kind = "home" => call[c].req.draw \in Draws
  BY <1>1 DEF Fits
<1>3. call[c].kind \in {"latest", "home"} => checker.draw = Nothing
  BY <1>2 DEF PagesInv, FormFits
<1>T. PICK T : T = Without(call, c) OBVIOUS
<1>4. /\ CallsFit(T, checker, page)
      /\ \A e \in Slots : UnderWay(T, e) =>
            T[e] = call[e] /\ Family(call[e].kind) # Family(call[c].kind)
  BY <1>T, TakenCalls DEF PagesInv
<1>5. \A e \in Slots : UnderWay(call, e) => Family(call[e].kind) = Family(call[c].kind)
                                             /\ call[e].kind # "detail"
  BY <1>2, UnderWayHere DEF Family
<1>6. \A e \in Slots : ~UnderWay(T, e) BY <1>4, <1>5 DEF UnderWay
<1>7. ~checker.loading BY <1>5 DEF PagesInv, Under
<1> QED BY <1>T, <1>1, <1>2, <1>3, <1>4, <1>6, <1>7

LEMMA ResultOpened ==
  ASSUME PagesInv, NEW d \in Draws, OpenResult(d)
  PROVE  PagesInv' /\ NoneAnswered
<1>q. PICK req : req = [draw |-> d] OBVIOUS
<1>p. PICK p : p = page' OBVIOUS
<1>1. /\ open = "result" /\ page.state # "loading" /\ MaySend(2) /\ sent' = sent + 2
      /\ p = [Unrendered EXCEPT !.state = "loading"] /\ call' = Sent(call, "head", req, Nothing)
      /\ UNCHANGED <<tables, changes, open, checker, search>>
  BY <1>q, <1>p DEF OpenResult
<1>2. p.state = "loading" /\ IsPage(p)
  <2>1. p \in [state : PageStates, head : {Nothing}, body : {Nothing}] /\ p.state = "loading"
    BY <1>1 DEF Unrendered, PageStates
  <2> QED BY <2>1 DEF IsPage
<1>3. \A e \in Slots : ~UnderWay(call, e) BY <1>1, UnderWayHere
<1>4. Fits(New("head", req, Nothing), checker, p) BY <1>1, <1>2, NewCall DEF Fits
<1>5. "head" \in Kinds BY DEF Kinds
<1>6. /\ CallsFit(call', checker, p) /\ ~Under(call', "detail")
      /\ \A e \in Slots : UnderWay(call', e) => call'[e].step = "sent"
  BY <1>1, <1>3, <1>4, <1>5, SentAlone DEF PagesInv
<1>7. DatabaseOK' BY <1>1, DatabaseStays DEF PagesInv
<1>8. NoneAnswered BY <1>6 DEF NoneAnswered, UnderWay
<1>9. FormFits(checker, p) BY <1>1 DEF PagesInv, FormFits
<1>10. ~Under(call, "detail") BY <1>3 DEF Under
<1> QED BY <1>p, <1>1, <1>2, <1>6, <1>7, <1>8, <1>9, <1>10, Settled DEF PagesInv

(* Another head, body or state makes another page.                         *)
Headed(p, head) == [p EXCEPT !.head = head]
Turned(p, state) == [p EXCEPT !.state = state]
Noticed(p, head) == [p EXCEPT !.state = "notice", !.head = head]
Filled(p, body) == [p EXCEPT !.state = "shown", !.body = body]

LEMMA PageChanged ==
  ASSUME NEW p, IsPage(p), NEW state \in PageStates, NEW head, NEW body
  PROVE  /\ IsPage(Headed(p, head)) /\ Headed(p, head).state = p.state
         /\ IsPage(Turned(p, state)) /\ IsPage(Noticed(p, head))
         /\ IsPage(Filled(p, body)) /\ Filled(p, body).state = "shown"
<1>1. PICK V : p \in [state : PageStates, head : V, body : V] BY DEF IsPage
<1>2. PICK W : W = V \cup {head, body} OBVIOUS
<1>3. /\ Headed(p, head) \in [state : PageStates, head : W, body : W]
      /\ Turned(p, state) \in [state : PageStates, head : W, body : W]
  BY <1>1, <1>2 DEF Headed, Turned
<1>4. /\ Noticed(p, head) \in [state : PageStates, head : W, body : W]
      /\ Filled(p, body) \in [state : PageStates, head : W, body : W]
  BY <1>1, <1>2 DEF Noticed, Filled, PageStates
<1>5. Headed(p, head).state = p.state /\ Filled(p, body).state = "shown"
  BY <1>1 DEF Headed, Filled
<1> QED BY <1>3, <1>4, <1>5 DEF IsPage

(* The end of a rendering: nothing is under way any more.                  *)
LEMMA Ended ==
  ASSUME PagesInv, NEW c \in Slots, UnderWay(call, c),
         call[c].kind \in {"head", "result", "latest", "home"},
         Taken(c), UNCHANGED <<tables, changes, sent, open, search>>,
         IsPage(page'), FormFits(checker', page'), ~checker'.loading
  PROVE  PagesInv' /\ NoneAnswered
<1>1. call' = Without(call, c) BY DEF Taken, Without
<1>2. CallsFit(call', checker, page) /\ \A e \in Slots : ~UnderWay(call', e) BY <1>1, Rendering
<1>3. CallsFit(call', checker', page') BY <1>2, RefittedCalls
<1>4. DatabaseOK' BY DatabaseStays DEF PagesInv
<1>5. NoneAnswered BY <1>2 DEF NoneAnswered, UnderWay
<1>6. ~Under(call', "detail") BY <1>2 DEF Under
<1> QED BY <1>3, <1>4, <1>5, <1>6, Settled DEF PagesInv

(* The second request of a rendering is sent when the first is answered.   *)
LEMMA WentOn ==
  ASSUME PagesInv, NEW c \in Slots, UnderWay(call, c),
         call[c].kind \in {"head", "result", "latest", "home"},
         UNCHANGED <<tables, changes, sent, open, checker, search>>,
         IsPage(page'), FormFits(checker, page'),
         NEW kind \in Kinds \ {"detail"}, NEW req, Fits(New(kind, req, Nothing), checker, page'),
         call' = Sent(Without(call, c), kind, req, Nothing)
  PROVE  PagesInv' /\ NoneAnswered
<1>T. PICK T : T = Without(call, c) OBVIOUS
<1>1. CallsFit(T, checker, page) /\ (\A e \in Slots : ~UnderWay(T, e)) /\ ~checker.loading
  BY <1>T, Rendering
<1>p. PICK p : p = page' OBVIOUS
<1>2. /\ CallsFit(call', checker, p) /\ ~Under(call', "detail")
      /\ \A e \in Slots : UnderWay(call', e) => call'[e].step = "sent"
  BY <1>T, <1>p, <1>1, SentAlone
<1>3. DatabaseOK' BY DatabaseStays DEF PagesInv
<1>4. NoneAnswered BY <1>2 DEF NoneAnswered, UnderWay
<1> QED BY <1>p, <1>1, <1>2, <1>3, <1>4, Settled DEF PagesInv

LEMMA HeadDelivered ==
  ASSUME PagesInv, NEW c \in Slots, DeliverHead(c)
  PROVE  PagesInv' /\ NoneAnswered
<1>1. /\ call[c].kind = "head" /\ UnderWay(call, c)
      /\ UNCHANGED <<tables, changes, sent, open, checker, search>>
  BY DEF DeliverHead, Answered, UnderWay
<1>2. page.state = "loading" /\ open = "result" /\ ~checker.loading BY <1>1, Rendering
<1>3. FormFits(checker, page') BY <1>2 DEF PagesInv, FormFits
<1>4. CASE Arrived(c) /\ call[c].answer.status \in {"PARTIAL", "COMPLETE"}
  <2>q. PICK req : req = [draw |-> call[c].req.draw, revision |-> Nothing] OBVIOUS
  <2>1. /\ page' = Headed(page, call[c].answer)
        /\ call' = Sent(Without(call, c), "result", req, Nothing)
    BY <1>4, <2>q DEF DeliverHead, Without, Headed
  <2>2. IsPage(page') /\ page'.state = "loading"
    BY <1>2, <2>1, PageChanged DEF PagesInv, PageStates
  <2>3. Fits(New("result", req, Nothing), checker, page') BY <1>2, <2>2, NewCall DEF Fits
  <2>4. "result" \in Kinds \ {"detail"} BY DEF Kinds
  <2> QED BY <1>1, <1>3, <2>1, <2>2, <2>3, <2>4, WentOn
<1>5. CASE ~(Arrived(c) /\ call[c].answer.status \in {"PARTIAL", "COMPLETE"})
  <2>1. page' = Noticed(page, call[c].answer) /\ Taken(c) BY <1>5 DEF DeliverHead, Noticed
  <2>2. IsPage(page') BY <2>1, PageChanged DEF PagesInv, PageStates
  <2> QED BY <1>1, <1>2, <1>3, <2>1, <2>2, Ended
<1> QED BY <1>4, <1>5

LEMMA ResultDelivered ==
  ASSUME PagesInv, NEW c \in Slots, DeliverResult(c)
  PROVE  PagesInv' /\ NoneAnswered
<1>1. /\ call[c].kind = "result" /\ UnderWay(call, c) /\ Taken(c)
      /\ UNCHANGED <<tables, changes, sent, open, checker, search>>
  BY DEF DeliverResult, Answered, UnderWay
<1>2. open = "result" /\ ~checker.loading BY <1>1, Rendering
<1>3. FormFits(checker, page') BY <1>2 DEF PagesInv, FormFits
<1>4. IsPage(page')
  <2>1. CASE Arrived(c)
    <3>1. page' = Filled(page, call[c].answer) BY <2>1 DEF DeliverResult, Filled
    <3> QED BY <3>1, PageChanged DEF PagesInv, PageStates
  <2>2. CASE ~Arrived(c)
    <3>1. PICK s : s = IF call[c].answer.outcome \in {"RESULT_SUSPENDED", "RESULT_CHANGED"}
                       THEN "changed" ELSE "unavailable"
      OBVIOUS
    <3>2. page' = Turned(page, s) BY <2>2, <3>1 DEF DeliverResult, Turned
    <3>3. s \in PageStates BY <3>1 DEF PageStates
    <3> QED BY <3>2, <3>3, PageChanged DEF PagesInv
  <2> QED BY <2>1, <2>2
<1> QED BY <1>1, <1>2, <1>3, <1>4, Ended

LEMMA HomeOpened ==
  ASSUME PagesInv, OpenHome
  PROVE  PagesInv' /\ NoneAnswered
<1>p. PICK p : p = page' OBVIOUS
<1>1. /\ open = "home" /\ page.state = "none" /\ MaySend(2) /\ sent' = sent + 2
      /\ p = [page EXCEPT !.state = "loading"] /\ call' = Sent(call, "latest", Nothing, Nothing)
      /\ UNCHANGED <<tables, changes, open, checker, search>>
  BY <1>p DEF OpenHome
<1>2. p.state = "loading" /\ IsPage(p)
  <2>1. PICK V : page \in [state : PageStates, head : V, body : V] BY DEF PagesInv, IsPage
  <2>2. p \in [state : PageStates, head : V, body : V] /\ p.state = "loading"
    BY <1>1, <2>1 DEF PageStates
  <2> QED BY <2>2 DEF IsPage
<1>3. \A e \in Slots : ~UnderWay(call, e) BY <1>1, UnderWayHere
<1>4. Fits(New("latest", Nothing, Nothing), checker, p) BY <1>1, <1>2, NewCall DEF Fits
<1>5. "latest" \in Kinds BY DEF Kinds
<1>6. /\ CallsFit(call', checker, p) /\ ~Under(call', "detail")
      /\ \A e \in Slots : UnderWay(call', e) => call'[e].step = "sent"
  <2>1. CallsFit(call, checker, page) BY DEF PagesInv
  <2>2. LET S == Sent(call, "latest", Nothing, Nothing)
        IN  /\ CallsFit(S, checker, p) /\ ~Under(S, "detail")
            /\ \A e \in Slots : UnderWay(S, e) => S[e].step = "sent"
    BY <1>3, <1>4, <1>5, <2>1, SentAlone
  <2> QED BY <1>1, <2>2
<1>7. DatabaseOK' BY <1>1, DatabaseStays DEF PagesInv
<1>8. NoneAnswered BY <1>6 DEF NoneAnswered, UnderWay
<1>9. FormFits(checker, p) BY <1>1 DEF PagesInv, FormFits
<1>10. ~Under(call, "detail") BY <1>3 DEF Under
<1> QED BY <1>p, <1>1, <1>2, <1>6, <1>7, <1>8, <1>9, <1>10, Settled DEF PagesInv

LEMMA LatestDelivered ==
  ASSUME PagesInv, NEW c \in Slots, DeliverLatest(c)
  PROVE  PagesInv' /\ NoneAnswered
<1>1. /\ call[c].kind = "latest" /\ call[c].step = "answered" /\ UnderWay(call, c)
      /\ UNCHANGED <<tables, changes, sent, open, checker, search>>
  BY DEF DeliverLatest, Answered, UnderWay
<1>2. /\ page.state = "loading" /\ open = "home" /\ checker.draw = Nothing /\ ~checker.loading
      /\ Honest(call[c])
  BY <1>1, Rendering
<1>3. FormFits(checker, page') BY <1>2 DEF PagesInv, FormFits
<1>4. CASE Arrived(c) /\ call[c].answer.draw # Nothing
  <2>q. PICK req : req = [draw |-> call[c].answer.draw] OBVIOUS
  <2>1. /\ page' = Headed(page, call[c].answer)
        /\ call' = Sent(Without(call, c), "home", req, Nothing)
    BY <1>4, <2>q DEF DeliverLatest, Without, Headed
  <2>2. IsPage(page') /\ page'.state = "loading"
    BY <1>2, <2>1, PageChanged DEF PagesInv, PageStates
  <2>3. req.draw \in Draws
    <3>1. call[c].answer # Lost BY <1>4 DEF Arrived, Lost, Refusal
    <3> QED BY <1>1, <1>2, <1>4, <2>q, <3>1, AnswersSay
  <2>4. Fits(New("home", req, Nothing), checker, page') BY <1>2, <2>2, <2>3, NewCall DEF Fits
  <2>5. "home" \in Kinds \ {"detail"} BY DEF Kinds
  <2> QED BY <1>1, <1>3, <2>1, <2>2, <2>4, <2>5, WentOn
<1>5. CASE ~(Arrived(c) /\ call[c].answer.draw # Nothing)
  <2>1. page' = Noticed(page, call[c].answer) /\ Taken(c) BY <1>5 DEF DeliverLatest, Noticed
  <2>2. IsPage(page') BY <2>1, PageChanged DEF PagesInv, PageStates
  <2> QED BY <1>1, <1>2, <1>3, <2>1, <2>2, Ended
<1> QED BY <1>4, <1>5

(* A form that starts with the detail of a draw.                           *)
LEMMA FormStarts ==
  ASSUME NEW detail, detail.draw \in Draws,
         NEW items, \A d \in items : d \in Draws /\ LotteryOf[d] = LotteryOf[detail.draw],
         NEW p, open = "home" => p.state = "shown"
  PROVE  FormFits(FormOn(detail, items), p) /\ FormOn(detail, items).loading = FALSE
<1>g. PICK g : g = FormOn(detail, items) OBVIOUS
<1>1. PICK W : W = {Nothing, Unfilled, items, detail, detail.draw, LotteryOf[detail.draw]} OBVIOUS
<1>2. Idle \in [kind : OutcomeKinds, data : W, shown : W] /\ Idle.kind = "idle"
  BY <1>1 DEF Idle, OutcomeKinds
<1>3. /\ g \in FormOf(W) /\ g.lottery = LotteryOf[detail.draw] /\ g.draw = detail.draw
      /\ g.items = items /\ g.detail = detail /\ g.outcome = Idle /\ g.loading = FALSE
  BY <1>g, <1>1, <1>2 DEF FormOn, Form, FormOf
<1>4. LotteryOf[detail.draw] \in Lotteries BY ReadsAssumption
<1>5. OutcomeFits(g) BY <1>2, <1>3 DEF OutcomeFits
<1> QED BY <1>g, <1>3, <1>4, <1>5 DEF FormFits, IsForm

LEMMA HomeDelivered ==
  ASSUME PagesInv, NEW c \in Slots, DeliverHome(c)
  PROVE  PagesInv' /\ NoneAnswered
<1>1. /\ call[c].kind = "home" /\ call[c].step = "answered" /\ UnderWay(call, c) /\ Taken(c)
      /\ UNCHANGED <<tables, changes, sent, open, search>>
  BY DEF DeliverHome, Answered, UnderWay
<1>2. /\ call[c].req.draw \in Draws /\ Honest(call[c]) /\ ~checker.loading
      /\ checker.draw = Nothing
  BY <1>1, Rendering
<1>3. CASE Arrived(c)
  <2>1. /\ checker' = FormOn(call[c].answer, {call[c].answer.draw})
        /\ page' = Filled(page, call[c].answer)
    BY <1>3 DEF DeliverHome, Filled
  <2>2. IsPage(page') /\ page'.state = "shown"
    BY <2>1, PageChanged DEF PagesInv, PageStates
  <2>3. call[c].answer # Lost BY <1>3 DEF Arrived, Lost, Refusal
  <2>4. call[c].answer.draw \in Draws BY <1>1, <1>2, <2>3, AnswersSay
  <2>d. PICK detail : detail = call[c].answer OBVIOUS
  <2>i. PICK items : items = {detail.draw} OBVIOUS
  <2>p. PICK p : p = page' OBVIOUS
  <2>5. FormFits(FormOn(detail, items), p) /\ FormOn(detail, items).loading = FALSE
    BY <2>2, <2>d, <2>i, <2>p, <2>4, FormStarts
  <2>6. FormFits(checker', page') /\ ~checker'.loading BY <2>1, <2>d, <2>i, <2>p, <2>5
  <2> QED BY <1>1, <2>2, <2>6, Ended
<1>4. CASE ~Arrived(c)
  <2>1. checker' = checker /\ page' = Turned(page, "card") BY <1>4 DEF DeliverHome, Turned
  <2>2. IsPage(page') BY <2>1, PageChanged DEF PagesInv, PageStates
  <2>3. FormFits(checker', page') /\ ~checker'.loading
    BY <1>2, <2>1 DEF PagesInv, FormFits
  <2> QED BY <1>1, <2>2, <2>3, Ended
<1> QED BY <1>3, <1>4

-----------------------------------------------------------------------------
(* Steps of the API and of administrators.                                 *)

OneMoment ==
    \A c \in Slots :
        call[c].step = "begun" /\ call'[c].step = "answered" /\ call'[c].answer # Lost
        => call'[c].answer \in call[c].moments

(* A request that is served is still the one the page sent.                *)
With(calls, c, k) == [calls EXCEPT ![c] = k]

LEMMA ServedCalls ==
  ASSUME NEW calls, NEW form, NEW p, CallsFit(calls, form, p), NEW c \in Slots, UnderWay(calls, c),
         NEW k, IsCalls(With(calls, c, k)), k.step # "free", k.kind = calls[c].kind,
         k.req = calls[c].req, k.shown = calls[c].shown, Honest(k)
  PROVE  /\ CallsFit(With(calls, c, k), form, p)
         /\ Under(With(calls, c, k), "detail") <=> Under(calls, "detail")
<1>S. PICK S : S = With(calls, c, k) OBVIOUS
<1>1. S[c] = k /\ \A e \in Slots : e # c => S[e] = calls[e]
  BY <1>S DEF CallsFit, IsCalls, With
<1>2. \A e \in Slots : /\ UnderWay(S, e) <=> UnderWay(calls, e)
                       /\ S[e].kind = calls[e].kind /\ S[e].req = calls[e].req
                       /\ S[e].shown = calls[e].shown
  <2> SUFFICES ASSUME NEW e \in Slots
               PROVE  /\ UnderWay(S, e) <=> UnderWay(calls, e)
                      /\ S[e].kind = calls[e].kind /\ S[e].req = calls[e].req
                      /\ S[e].shown = calls[e].shown
    OBVIOUS
  <2>1. CASE e = c BY <1>1, <2>1 DEF UnderWay
  <2>2. CASE e # c BY <1>1, <2>2 DEF UnderWay
  <2> QED BY <2>1, <2>2
<1>3. OneOfAKind(S) BY <1>2 DEF OneOfAKind, CallsFit
<1>4. \A e \in Slots : Honest(S[e]) BY <1>1 DEF CallsFit
<1>5. \A e \in Slots : UnderWay(S, e) => Fits(S[e], form, p)
  BY <1>2 DEF CallsFit, Fits, Asks
<1>6. Under(S, "detail") <=> Under(calls, "detail") BY <1>2 DEF Under
<1> QED BY <1>S, <1>3, <1>4, <1>5, <1>6 DEF CallsFit

LEMMA RequestServed ==
  ASSUME PagesInv, NEW c \in Slots, Serve(c), Elsewhere
  PROVE  PagesInv' /\ OneMoment
<1>0. UNCHANGED <<tables, changes, sent, open, checker, search, page>>
  BY DEF Serve, Begin, Finish, Fail, Elsewhere
<1>1. PICK V : call \in [Slots -> CallOf(V)] BY DEF PagesInv, CallsFit, IsCalls
<1>2. Honest(call[c]) BY DEF PagesInv, CallsFit
<1>3. DatabaseOK' BY <1>0, DatabaseStays DEF PagesInv
<1>4. \A k : /\ call' = With(call, c, k) /\ (\E U : k \in CallOf(U))
             /\ k.step # "free" /\ k.kind = call[c].kind /\ k.req = call[c].req
             /\ k.shown = call[c].shown /\ Honest(k) /\ UnderWay(call, c)
             => PagesInv'
  <2> SUFFICES ASSUME NEW k, call' = With(call, c, k),
                      \E U : k \in CallOf(U),
                      k.step # "free", k.kind = call[c].kind, k.req = call[c].req,
                      k.shown = call[c].shown, Honest(k), UnderWay(call, c)
               PROVE  PagesInv'
    OBVIOUS
  <2>U. PICK U : k \in CallOf(U) OBVIOUS
  <2>1. PICK W : W = V \cup U OBVIOUS
  <2>2. k \in CallOf(W) /\ \A e \in Slots : call[e] \in CallOf(W)
    BY <1>1, <2>U, <2>1 DEF CallOf
  <2>3. With(call, c, k) \in [Slots -> CallOf(W)] BY <1>1, <2>2 DEF With
  <2>4. IsCalls(With(call, c, k)) BY <2>3 DEF IsCalls
  <2>5. /\ CallsFit(call', checker, page)
        /\ Under(call', "detail") <=> Under(call, "detail")
    BY <2>4, ServedCalls DEF PagesInv
  <2> QED BY <1>0, <1>3, <2>5, Settled DEF PagesInv
<1>k. PICK k : k = call'[c] OBVIOUS
<1>l. PICK l : l = call[c] OBVIOUS
<1>5. CASE Begin(c)
  <2>v. PICK v : v = View OBVIOUS
  <2>m. PICK m : m = {Answer(v, v, l.kind, l.req)} OBVIOUS
  <2>1. call' = [call EXCEPT ![c].step = "begun", ![c].read = v, ![c].moments = m]
        /\ l.step = "sent"
    BY <1>l, <1>5, <2>v, <2>m DEF Begin
  <2>2. call' = With(call, c, k) BY <1>1, <1>k, <2>1 DEF With
  <2>3. k = [l EXCEPT !.step = "begun", !.read = v, !.moments = m]
    BY <1>1, <1>k, <1>l, <2>1 DEF CallOf
  <2>W. PICK W : W = V \cup {v, m} OBVIOUS
  <2>l. l \in CallOf(W) /\ {v, m} \subseteq W BY <1>1, <1>l, <2>W DEF CallOf
  <2>4. /\ k.step = "begun" /\ k.kind = l.kind /\ k.req = l.req
        /\ k.shown = l.shown /\ k.read = v /\ k.moments = m /\ k.answer = l.answer
        /\ k \in CallOf(W)
    BY <2>l, <2>3 DEF CallOf
  <2>5. Honest(k) BY <1>2, <1>l, <2>1, <2>4, <2>m DEF Honest
  <2>6. PagesInv' BY <1>l, <1>4, <2>1, <2>2, <2>4, <2>5 DEF UnderWay
  <2>7. \A e \in Slots : e # c => call'[e] = call[e] BY <1>1, <2>1
  <2> QED BY <1>k, <2>4, <2>6, <2>7 DEF OneMoment
<1>6. CASE Finish(c)
  <2>a. PICK a : a = Answer(l.read, l.read, l.kind, l.req) OBVIOUS
  <2>1. call' = [call EXCEPT ![c].step = "answered", ![c].read = Nothing, ![c].moments = {},
                             ![c].answer = a]
        /\ l.step = "begun"
    BY <1>l, <1>6, <2>a DEF Finish, SeenLater
  <2>2. call' = With(call, c, k) BY <1>1, <1>k, <2>1 DEF With
  <2>3. k = [l EXCEPT !.step = "answered", !.read = Nothing, !.moments = {}, !.answer = a]
    BY <1>1, <1>k, <1>l, <2>1 DEF CallOf
  <2>W. PICK W : W = V \cup {Nothing, {}, a} OBVIOUS
  <2>l. l \in CallOf(W) /\ {Nothing, {}, a} \subseteq W BY <1>1, <1>l, <2>W DEF CallOf
  <2>4. /\ k.step = "answered" /\ k.kind = l.kind /\ k.req = l.req
        /\ k.shown = l.shown /\ k.answer = a
        /\ k \in CallOf(W)
    BY <2>l, <2>3 DEF CallOf
  <2>5. Honest(k) BY <2>4, <2>a DEF Honest
  <2>6. PagesInv' BY <1>l, <1>4, <2>1, <2>2, <2>4, <2>5 DEF UnderWay
  <2>7. \A e \in Slots : e # c => call'[e] = call[e] BY <1>1, <2>1
  <2>8. a \in l.moments BY <1>2, <1>l, <2>1, <2>a DEF Honest
  <2> QED BY <1>k, <1>l, <2>4, <2>6, <2>7, <2>8 DEF OneMoment
<1>7. CASE Fail(c)
  <2>1. call' = [call EXCEPT ![c].step = "answered", ![c].read = Nothing, ![c].moments = {}]
        /\ l.step \in {"sent", "begun"}
    BY <1>l, <1>7 DEF Fail
  <2>2. call' = With(call, c, k) BY <1>1, <1>k, <2>1 DEF With
  <2>3. k = [l EXCEPT !.step = "answered", !.read = Nothing, !.moments = {}]
    BY <1>1, <1>k, <1>l, <2>1 DEF CallOf
  <2>W. PICK W : W = V \cup {Nothing, {}} OBVIOUS
  <2>l. l \in CallOf(W) /\ {Nothing, {}} \subseteq W BY <1>1, <1>l, <2>W DEF CallOf
  <2>4. /\ k.step = "answered" /\ k.kind = l.kind /\ k.req = l.req
        /\ k.shown = l.shown /\ k.answer = l.answer
        /\ k \in CallOf(W)
    BY <2>l, <2>3 DEF CallOf
  <2>5. k.answer = Lost BY <1>2, <1>l, <2>1, <2>4 DEF Honest
  <2>6. Honest(k) BY <2>4, <2>5 DEF Honest
  <2>7. PagesInv' BY <1>l, <1>4, <2>1, <2>2, <2>4, <2>6 DEF UnderWay
  <2>8. \A e \in Slots : e # c => call'[e] = call[e] BY <1>1, <2>1
  <2> QED BY <1>k, <2>5, <2>7, <2>8 DEF OneMoment
<1> QED BY <1>5, <1>6, <1>7 DEF Serve

(* The answer at another moment joins those of the requests being served.  *)
Watched(calls, w) ==
    [c \in Slots |->
        IF calls[c].step = "begun"
        THEN [calls[c] EXCEPT !.moments = @ \cup {Answer(w, w, calls[c].kind, calls[c].req)}]
        ELSE calls[c]]

LEMMA WatchedCalls ==
  ASSUME NEW calls, NEW form, NEW p, CallsFit(calls, form, p), NEW w
  PROVE  LET S == Watched(calls, w)
         IN  /\ CallsFit(S, form, p)
             /\ Under(S, "detail") <=> Under(calls, "detail")
             /\ \A c \in Slots : S[c].step = calls[c].step
<1>S. PICK S : S = Watched(calls, w) OBVIOUS
<1>1. PICK V : calls \in [Slots -> CallOf(V)] BY DEF CallsFit, IsCalls
<1>m. PICK m : m = [c \in Slots |-> calls[c].moments \cup {Answer(w, w, calls[c].kind, calls[c].req)}]
  OBVIOUS
<1>W. PICK W : W = V \cup {m[c] : c \in Slots} OBVIOUS
<1>2. ASSUME NEW c \in Slots
      PROVE  /\ S[c] \in CallOf(W) /\ S[c].step = calls[c].step /\ S[c].kind = calls[c].kind
             /\ S[c].req = calls[c].req /\ S[c].shown = calls[c].shown
             /\ S[c].read = calls[c].read /\ S[c].answer = calls[c].answer
             /\ S[c].moments \in {calls[c].moments, m[c]}
  <2>1. calls[c] \in CallOf(V) /\ calls[c] \in CallOf(W) BY <1>1, <1>W DEF CallOf
  <2>2. CASE calls[c].step = "begun"
    <3>1. S[c] = [calls[c] EXCEPT !.moments = m[c]] BY <1>S, <1>m, <2>1, <2>2 DEF Watched, CallOf
    <3>2. m[c] \in W BY <1>W
    <3> QED BY <2>1, <3>1, <3>2 DEF CallOf
  <2>3. CASE calls[c].step # "begun"
    <3>1. S[c] = calls[c] BY <1>S, <2>3 DEF Watched
    <3> QED BY <2>1, <3>1
  <2> QED BY <2>2, <2>3
<1>3. S \in [Slots -> CallOf(W)]
  <2>1. S = [c \in Slots |-> S[c]] BY <1>S DEF Watched
  <2> QED BY <1>2, <2>1
<1>4. IsCalls(S) BY <1>3 DEF IsCalls
<1>5. OneOfAKind(S) BY <1>2 DEF OneOfAKind, UnderWay, CallsFit
<1>6. ASSUME NEW c \in Slots PROVE Honest(S[c]) /\ (UnderWay(S, c) => Fits(S[c], form, p))
  <2>1. calls[c].moments \subseteq m[c] BY <1>m
  <2>2. Honest(calls[c]) /\ (UnderWay(calls, c) => Fits(calls[c], form, p)) BY DEF CallsFit
  <2>3. Honest(S[c]) BY <1>2, <2>1, <2>2 DEF Honest
  <2>4. UnderWay(S, c) => Fits(S[c], form, p) BY <1>2, <2>2 DEF Fits, Asks, UnderWay
  <2> QED BY <2>3, <2>4
<1>7. Under(S, "detail") <=> Under(calls, "detail") BY <1>2 DEF Under, UnderWay
<1> QED BY <1>S, <1>2, <1>4, <1>5, <1>6, <1>7 DEF CallsFit

LEMMA DatabaseChanged ==
  ASSUME PagesInv, Changed, Elsewhere, LedgerTypeOK', cancelled' \subseteq Draws, revoked' \subseteq Rules
  PROVE  PagesInv' /\ OneMoment
<1>w. PICK w : w = View' OBVIOUS
<1>1. /\ call' = Watched(call, w) /\ changes < MaxChanges /\ changes' = changes + 1 /\ sent' = sent
      /\ UNCHANGED <<open, checker, search, page>>
  BY <1>w DEF Changed, Watched, Elsewhere
<1>2. /\ CallsFit(call', checker, page)
      /\ Under(call', "detail") <=> Under(call, "detail")
      /\ \A c \in Slots : call'[c].step = call[c].step
  BY <1>1, WatchedCalls DEF PagesInv
<1>3. DatabaseOK' BY <1>1, ReadsAssumption DEF PagesInv, DatabaseOK
<1>4. OneMoment BY <1>2 DEF OneMoment
<1> QED BY <1>1, <1>2, <1>3, <1>4, Settled DEF PagesInv

LEMMA LedgerMoves ==
  ASSUME LedgerTypeOK,
         \/ \E d \in Draws : Withhold(d) \/ Release(d) \/ \E e \in Entry : Enter(d, e)
         \/ \E l \in Lotteries : Disqualify(l)
  PROVE  LedgerTypeOK'
<1>1. ASSUME NEW l \in Lotteries, Advance(l) PROVE version' \in [Lotteries -> Nat]
  BY <1>1 DEF LedgerTypeOK, Advance
<1>2. ASSUME NEW d \in Draws PROVE LotteryOf[d] \in Lotteries BY ReadsAssumption
<1>3. CASE \E d \in Draws : Withhold(d) \/ Release(d)
  <2>1. PICK d \in Draws : Withhold(d) \/ Release(d) BY <1>3
  <2>2. Advance(LotteryOf[d]) /\ ledger' = ledger /\ withheld' \in [Draws -> BOOLEAN]
    BY <2>1 DEF Withhold, Release, LedgerTypeOK
  <2> QED BY <1>1, <1>2, <2>2 DEF LedgerTypeOK, Entry
<1>4. CASE \E d \in Draws : \E e \in Entry : Enter(d, e)
  <2>1. PICK d \in Draws, e \in Entry : Enter(d, e) BY <1>4
  <2>2. ledger[d] \in Seq(Entry) BY DEF LedgerTypeOK
  <2>3. Append(ledger[d], e) \in Seq(Entry) BY <2>2
  <2>4. /\ Advance(LotteryOf[d]) /\ ledger' \in [Draws -> Seq(Entry)]
        /\ withheld' \in [Draws -> BOOLEAN]
    BY <2>1, <2>3 DEF Enter, LedgerTypeOK
  <2> QED BY <1>1, <1>2, <2>4 DEF LedgerTypeOK, Entry
<1>5. CASE \E l \in Lotteries : Disqualify(l)
  <2>1. PICK l \in Lotteries : Disqualify(l) BY <1>5
  <2> QED BY <1>1, <2>1 DEF LedgerTypeOK, Disqualify, Entry
<1> QED BY <1>3, <1>4, <1>5

LEMMA Administered ==
  ASSUME PagesInv, Administer, Elsewhere
  PROVE  PagesInv' /\ OneMoment
<1>1. LedgerTypeOK /\ cancelled \subseteq Draws /\ revoked \subseteq Rules
  BY DEF PagesInv, DatabaseOK
<1>2. CASE \E d \in Draws : Publish(d) \/ Suspend(d) \/ Resume(d)
  <2>1. /\ Changed /\ UNCHANGED <<cancelled, revoked>>
        /\ \E d \in Draws : Withhold(d) \/ Release(d) \/ \E e \in Entry : Enter(d, e)
    BY <1>2 DEF Publish, Suspend, Resume
  <2>2. LedgerTypeOK' BY <1>1, <2>1, LedgerMoves
  <2> QED BY <1>1, <2>1, <2>2, DatabaseChanged
<1>3. CASE \E d \in Draws : Recall(d)
  <2>1. PICK d \in Draws : Recall(d) BY <1>3
  <2>2. Changed /\ UNCHANGED <<ledgerVars, revoked>> /\ cancelled' \subseteq Draws
    BY <1>1, <2>1 DEF Recall
  <2>3. LedgerTypeOK' BY <1>1, <2>2 DEF LedgerTypeOK, ledgerVars, Entry
  <2> QED BY <1>1, <2>2, <2>3, DatabaseChanged
<1>4. CASE \E k \in Rules : Revoke(k)
  <2>1. PICK k \in Rules : Revoke(k) BY <1>4
  <2>2. /\ Changed /\ UNCHANGED cancelled /\ revoked' \subseteq Rules
        /\ Disqualify(RuleLottery[k])
    BY <1>1, <2>1 DEF Revoke
  <2>3. RuleLottery[k] \in Lotteries BY ReadsAssumption
  <2>4. LedgerTypeOK' BY <1>1, <2>2, <2>3, LedgerMoves
  <2> QED BY <1>1, <2>2, <2>4, DatabaseChanged
<1> QED BY <1>2, <1>3, <1>4 DEF Administer

-----------------------------------------------------------------------------
(* The invariant.                                                          *)

LEMMA PagesStart == Init => PagesInv
<1> SUFFICES ASSUME Init PROVE PagesInv OBVIOUS
<1>1. DatabaseOK
  <2>1. <<>> \in Seq(Entry) OBVIOUS
  <2>2. LedgerTypeOK BY <2>1 DEF Init, ReadsInit, LedgerInit, LedgerTypeOK
  <2> QED BY <2>2, ReadsAssumption DEF Init, ReadsInit, DatabaseOK
<1>2. \A c \in Slots : call[c] = NoCall /\ ~UnderWay(call, c)
  BY DEF Init, ReadsInit, UnderWay, NoCall
<1>3. CallsFit(call, checker, page)
  <2>1. NoCall \in CallOf({Nothing, {}, Lost}) /\ Honest(NoCall)
    BY DEF NoCall, CallOf, Kinds, Honest
  <2>2. call \in [Slots -> CallOf({Nothing, {}, Lost})] BY <2>1 DEF Init, ReadsInit
  <2>3. IsCalls(call) BY <2>2 DEF IsCalls
  <2>4. OneOfAKind(call) BY <1>2 DEF OneOfAKind
  <2> QED BY <1>2, <2>1, <2>3, <2>4 DEF CallsFit
<1>4. FormFits(checker, page) /\ checker.loading = FALSE
  <2>1. CASE checker = Form
    <3>1. Idle \in [kind : OutcomeKinds, data : {Nothing}, shown : {Nothing}] /\ Idle.kind = "idle"
      BY DEF Idle, OutcomeKinds
    <3>2. PICK W : W = {Nothing, {}, Unfilled} OBVIOUS
    <3>3. Idle \in [kind : OutcomeKinds, data : W, shown : W] BY <3>1, <3>2
    <3>4. /\ Form \in FormOf(W) /\ Form.lottery = Nothing /\ Form.draw = Nothing
          /\ Form.items = {} /\ Form.detail = Nothing /\ Form.outcome = Idle /\ Form.loading = FALSE
      BY <3>2, <3>3 DEF Form, FormOf
    <3>5. OutcomeFits(Form) BY <3>1, <3>4 DEF OutcomeFits
    <3> QED BY <2>1, <3>4, <3>5 DEF FormFits, IsForm
  <2>2. CASE checker # Form
    <3>1. PICK d \in Linked : /\ open = "check"
                              /\ checker = FormOn(DrawDetail(View, View, d), DrawsOf(LotteryOf[d]))
      BY <2>2 DEF Init
    <3>d. PICK detail : detail = DrawDetail(View, View, d) OBVIOUS
    <3>i. PICK items : items = DrawsOf(LotteryOf[d]) OBVIOUS
    <3>2. detail.draw = d /\ d \in Draws BY <3>d, LinkedAssumption DEF DrawDetail
    <3>3. \A e \in items : e \in Draws /\ LotteryOf[e] = LotteryOf[detail.draw]
      BY <3>i, <3>2 DEF DrawsOf
    <3> QED BY <3>1, <3>d, <3>i, <3>2, <3>3, FormStarts
  <2> QED BY <2>1, <2>2
<1>5. ~Under(call, "detail") BY <1>2 DEF Under
<1>6. IsSearch(search)
  <2>1. search \in [lottery : {Nothing, Unfilled}, ticket : {Nothing, Unfilled},
                    state : {"idle", "searching", "result", "failure"}, data : {Nothing, Unfilled}]
    BY DEF Init, Query
  <2> QED BY <2>1 DEF IsSearch
<1>7. IsPage(page)
  <2>1. page \in [state : PageStates, head : {Nothing}, body : {Nothing}]
    BY DEF Init, Unrendered, PageStates
  <2> QED BY <2>1 DEF IsPage
<1> QED BY <1>1, <1>3, <1>4, <1>5, <1>6, <1>7 DEF PagesInv

LEMMA CheckerSteps ==
  ASSUME PagesInv, CheckerStep
  PROVE  PagesInv' /\ NoneAnswered
<1>1. ASSUME NEW l \in Lotteries \cup {Nothing}, ChooseLottery(l) PROVE PagesInv' /\ NoneAnswered
  BY <1>1, LotteryChosen
<1>2. ASSUME NEW d \in Draws \cup {Nothing}, ChooseDraw(d) PROVE PagesInv' /\ NoneAnswered
  BY <1>2, DrawChosen
<1>3. ASSUME NEW t \in Tickets, TypeTicket(t) PROVE PagesInv' /\ NoneAnswered
  BY <1>3, TicketTyped
<1>4. ASSUME Submit PROVE PagesInv' /\ NoneAnswered BY <1>4, CheckSubmitted
<1>5. ASSUME CheckAgain PROVE PagesInv' /\ NoneAnswered BY <1>5, CheckedAgain
<1>6. ASSUME NEW c \in Slots, Deliver(c) PROVE PagesInv' /\ NoneAnswered
  BY <1>6, DrawsDelivered, DetailDelivered, CheckDelivered DEF Deliver
<1> QED BY <1>1, <1>2, <1>3, <1>4, <1>5, <1>6 DEF CheckerStep

LEMMA PageSteps ==
  ASSUME PagesInv, SearchStep \/ ResultStep \/ HomeStep
  PROVE  PagesInv' /\ NoneAnswered
<1>1. ASSUME SearchStep PROVE PagesInv' /\ NoneAnswered
  <2>1. ASSUME EditSearch PROVE PagesInv' /\ NoneAnswered BY <2>1, SearchEdited
  <2>2. ASSUME SubmitSearch PROVE PagesInv' /\ NoneAnswered BY <2>2, SearchRun DEF SubmitSearch
  <2>3. ASSUME TurnPage PROVE PagesInv' /\ NoneAnswered BY <2>3, SearchRun DEF TurnPage
  <2>4. ASSUME NEW c \in Slots, DeliverSearch(c) PROVE PagesInv' /\ NoneAnswered
    BY <2>4, SearchDelivered
  <2> QED BY <1>1, <2>1, <2>2, <2>3, <2>4 DEF SearchStep
<1>2. ASSUME ResultStep PROVE PagesInv' /\ NoneAnswered
  <2>1. ASSUME NEW d \in Draws, OpenResult(d) PROVE PagesInv' /\ NoneAnswered
    BY <2>1, ResultOpened
  <2>2. ASSUME NEW c \in Slots, DeliverHead(c) PROVE PagesInv' /\ NoneAnswered
    BY <2>2, HeadDelivered
  <2>3. ASSUME NEW c \in Slots, DeliverResult(c) PROVE PagesInv' /\ NoneAnswered
    BY <2>3, ResultDelivered
  <2> QED BY <1>2, <2>1, <2>2, <2>3 DEF ResultStep
<1>3. ASSUME HomeStep PROVE PagesInv' /\ NoneAnswered
  <2>1. ASSUME OpenHome PROVE PagesInv' /\ NoneAnswered BY <2>1, HomeOpened
  <2>2. ASSUME NEW c \in Slots, DeliverLatest(c) PROVE PagesInv' /\ NoneAnswered
    BY <2>2, LatestDelivered
  <2>3. ASSUME NEW c \in Slots, DeliverHome(c) PROVE PagesInv' /\ NoneAnswered
    BY <2>3, HomeDelivered
  <2> QED BY <1>3, <2>1, <2>2, <2>3 DEF HomeStep
<1> QED BY <1>1, <1>2, <1>3

LEMMA PagesStep == PagesInv /\ [Next]_vars => PagesInv' /\ OneMoment
<1> SUFFICES ASSUME PagesInv, [Next]_vars PROVE PagesInv' /\ OneMoment OBVIOUS
<1>1. NoneAnswered => OneMoment BY DEF NoneAnswered, OneMoment
<1>2. ASSUME Administer, Elsewhere PROVE PagesInv' /\ OneMoment BY <1>2, Administered
<1>3. ASSUME NEW c \in Slots, Serve(c), Elsewhere PROVE PagesInv' /\ OneMoment
  BY <1>3, RequestServed
<1>4. ASSUME CheckerStep PROVE PagesInv' /\ OneMoment BY <1>1, <1>4, CheckerSteps
<1>5. ASSUME SearchStep \/ ResultStep \/ HomeStep PROVE PagesInv' /\ OneMoment
  BY <1>1, <1>5, PageSteps
<1>6. ASSUME UNCHANGED vars PROVE PagesInv' /\ OneMoment
  <2>1. UNCHANGED <<tables, changes, sent, call, open, checker, search, page>>
    BY <1>6 DEF vars, readVars
  <2>2. DatabaseOK' BY <2>1, DatabaseStays DEF PagesInv
  <2>3. PagesInv' BY <2>1, <2>2, Settled DEF PagesInv
  <2>4. NoneAnswered BY <2>1 DEF NoneAnswered
  <2> QED BY <1>1, <2>3, <2>4
<1> QED BY <1>2, <1>3, <1>4, <1>5, <1>6 DEF Next

(* What is under way belongs to the page, and at most one request of a     *)
(* kind is: the strengthening from which the rest follows.                 *)
THEOREM PagesInvariant == Spec => []PagesInv
<1>1. PagesInv /\ [Next]_vars => PagesInv' BY PagesStep
<1> QED BY PagesStart, <1>1, PTL DEF Spec

(* The variables keep their types, and the form says that a draw is being  *)
(* loaded exactly while the request for its detail is under way.           *)
THEOREM PagesAreTyped == Spec => []TypeOK
<1>1. PagesInv => TypeOK
  <2> SUFFICES ASSUME PagesInv PROVE TypeOK OBVIOUS
  <2>1. \A c \in Slots : call[c].step \in {"free", "sent", "begun", "answered"} /\ call[c].kind \in Kinds
    BY DEF PagesInv, CallsFit, IsCalls, CallOf
  <2>2. /\ checker.lottery \in Lotteries \cup {Nothing} /\ checker.draw \in Draws \cup {Nothing}
        /\ checker.outcome.kind \in {"idle", "checking", "result", "failure", "cleared"}
    BY DEF PagesInv, FormFits, IsForm, FormOf, OutcomeKinds
  <2>3. /\ search.state \in {"idle", "searching", "result", "failure"}
        /\ page.state \in {"none", "loading", "notice", "card", "shown", "changed", "unavailable"}
    BY DEF PagesInv, IsSearch, IsPage, PageStates
  <2>4. checker.loading <=> \E c \in Slots : call[c].step # "free" /\ call[c].kind = "detail"
    BY DEF PagesInv, Under, UnderWay
  <2> QED BY <2>1, <2>2, <2>3, <2>4 DEF PagesInv, DatabaseOK, TypeOK
<1> QED BY PagesInvariant, <1>1, PTL

(* What the form says of a ticket is of the lottery, draw and ticket that  *)
(* stand in it.                                                            *)
THEOREM OutcomesAreOfTheForm == Spec => []OutcomeIsOfShownTicket
<1>1. PagesInv => OutcomeIsOfShownTicket
  BY DEF PagesInv, FormFits, OutcomeFits, OutcomeIsOfShownTicket, Inputs, InputsOf
<1> QED BY PagesInvariant, <1>1, PTL

(* A verdict is about the revision the form showed when it was asked for,  *)
(* unless the visitor asked again.                                         *)
THEOREM VerdictsAreOfTheRevision == Spec => []VerdictOfShownRevision
<1>1. PagesInv => VerdictOfShownRevision
  BY DEF PagesInv, FormFits, OutcomeFits, VerdictOfShownRevision
<1> QED BY PagesInvariant, <1>1, PTL

(* However late lists and details arrive, a check that is sent is of a     *)
(* draw of its lottery, and went by the format of that draw or of none.    *)
THEOREM ChecksAreOfTheirDraw == Spec => []ChecksFitTheirDraw
<1>1. PagesInv => ChecksFitTheirDraw
  BY DEF PagesInv, CallsFit, Fits, Asks, UnderWay, ChecksFitTheirDraw
<1> QED BY PagesInvariant, <1>1, PTL

(* An answer put together from several statements is what the database as  *)
(* a whole said at one moment while the request was served.                *)
THEOREM AnswersNameOneMoment == Spec => AnswersAreOfOneMoment
<1>1. PagesInv /\ [Next]_vars => [OneMoment]_readVars BY PagesStep
<1> QED BY PagesInvariant, <1>1, PTL DEF Spec, AnswersAreOfOneMoment, OneMoment

=============================================================================
