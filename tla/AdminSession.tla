---------------------------- MODULE AdminSession ----------------------------
(***************************************************************************)
(* Administrators' sessions, from the tabs of one browser to the rows of   *)
(* admin_session: signing in and out, the login throttle, the two lives of *)
(* a session (idle and absolute), its throttled extension, and the tabs    *)
(* that share one cookie while each holds a session, with its CSRF token,  *)
(* in its own memory.                                                      *)
(*                                                                         *)
(* A request runs through the statements of AdminSessionService one by     *)
(* one, and other requests run between them.  The token of a session, its  *)
(* CSRF token and its id are drawn together and are one value here.        *)
(*                                                                         *)
(* An operator whose comment begins with "Mutation of" is a plausible bug  *)
(* in the operator that follows it; no action uses it.                     *)
(***************************************************************************)
EXTENDS Naturals, FiniteSets

CONSTANTS
    Tabs,          \* tabs of the browser
    Users,         \* rows of admin_user
    MaxSessions,   \* bound: sessions opened
    Calls,         \* bound: requests under way at once
    Idle,          \* SESSION_IDLE_MINUTES
    Absolute,      \* SESSION_ABSOLUTE_HOURS
    Interval,      \* LAST_SEEN_WRITE_INTERVAL_MS
    Window,        \* window of the login throttle
    AccountLimit,  \* failed logins per account and window
    IpLimit,       \* failed logins per address and window
    Delay,         \* bound: how long the server works on a request
    MaxNow,        \* bound: the clock stops here
    MaxChanges,    \* bound: how often an operator changes an account
    MaxRequests,   \* bound: requests sent
    None

ASSUME LivesAssumption ==
    /\ {Idle, Absolute, Interval, Window, Delay, MaxNow, MaxChanges} \subseteq Nat
    /\ Idle > 0 /\ Absolute > 0 /\ Window > 0
    /\ AccountLimit \in Nat \ {0} /\ IpLimit \in Nat \ {0}
    /\ MaxSessions \in Nat /\ MaxRequests \in Nat /\ IsFiniteSet(Calls)

Sessions == 1 .. MaxSessions
Ip == "ip"
Keys == Users \cup {Ip}
ASSUME KeysAssumption == Ip \notin Users
LimitOf(k) == IF k = Ip THEN IpLimit ELSE AccountLimit

VARIABLES
    now,       \* the clock of the API
    user,      \* admin_user: disabled and auth_version of each account
    session,   \* admin_session rows
    bucket,    \* buckets of the throttle
    cookie,    \* the session cookie of the browser
    tab,       \* AdminSessionProvider and LoginForm of each tab
    call,      \* requests under way
    sent,      \* requests sent so far
    used,      \* history: when a request last left resolve under the session
    ended      \* history: sessions that were revoked or outlived by auth_version

vars == <<now, user, session, bucket, cookie, tab, call, sent, used, ended>>

Row == [owner : Users, auth : Nat, seen : Nat, idle : Nat, absolute : Nat, revoked : BOOLEAN]
ASSUME NoneAssumption == None \notin Row

Kinds == {"session", "login", "logout", "act"}
Steps == {"free", "sent", "user", "write", "revoke", "verify", "answered"}
Answers == {"none", "ok", "unauthenticated", "csrf", "limited"}

(* shows is history: the session the tab showed when it sent the request.  *)
NoCall == [step |-> "free", tab |-> None, kind |-> "session", cookie |-> 0, csrf |-> 0, shows |-> 0,
           account |-> None, right |-> FALSE, began |-> 0, seen |-> 0, auth |-> 0, late |-> FALSE, answer |-> "none", got |-> 0]
NoBucket == [count |-> 0, resetAt |-> 0]
Fresh == [status |-> "loading", session |-> 0, busy |-> FALSE]

TypeOK ==
    /\ now \in 0 .. MaxNow
    /\ user \in [Users -> [disabled : BOOLEAN, auth : Nat, changes : Nat]]
    /\ session \in [Sessions -> Row \cup {None}]
    /\ \A s \in Sessions : session[s] # None /\ Idle <= Absolute => session[s].idle <= session[s].absolute
    /\ bucket \in [Keys -> [count : Nat, resetAt : Nat]]
    /\ cookie \in Sessions \cup {0}
    /\ tab \in [Tabs -> [status : {"loading", "anonymous", "authenticated"},
                         session : Sessions \cup {0}, busy : BOOLEAN]]
    /\ call \in [Calls -> [step : Steps, tab : Tabs \cup {None}, kind : Kinds, cookie : Sessions \cup {0},
                           csrf : Sessions \cup {0}, shows : Sessions \cup {0},
                           account : Users \cup {None}, right : BOOLEAN,
                           began : Nat, seen : Nat, auth : Nat, late : BOOLEAN,
                           answer : Answers, got : Sessions \cup {0}]]
    /\ sent \in 0 .. MaxRequests
    /\ used \in [Sessions -> Nat]
    /\ ended \subseteq Sessions

Init ==
    /\ now = 0
    /\ user = [u \in Users |-> [disabled |-> FALSE, auth |-> 0, changes |-> 0]]
    /\ session = [s \in Sessions |-> None]
    /\ bucket = [k \in Keys |-> NoBucket]
    /\ cookie = 0
    /\ tab = [t \in Tabs |-> [Fresh EXCEPT !.status = "anonymous"]]
    /\ call = [c \in Calls |-> NoCall]
    /\ sent = 0
    /\ used = [s \in Sessions |-> 0]
    /\ ended = {}

Server == <<now, user, session, bucket, used, ended>>

(***************************************************************************)
(* The tabs.  Answers arrive in any order, late, or never (Lose).          *)
(***************************************************************************)
Sending(c) ==
    /\ call[c].step = "free"
    /\ sent < MaxRequests /\ sent' = sent + 1

(* The token of the session that the tab has in memory.                    *)
(* Mutation of Token: it is kept where all tabs have it, beside the cookie. *)
TokenOfAll(t) == cookie
Token(t) == tab[t].session

Unsafe == {"logout", "act"}

Send(c, t, kind, account, right) ==
    /\ Sending(c)
    /\ call' = [call EXCEPT ![c] = [NoCall EXCEPT
           !.step = "sent", !.tab = t, !.kind = kind, !.cookie = cookie,
           !.csrf = IF kind \in Unsafe THEN Token(t) ELSE 0,
           !.account = account, !.right = right, !.shows = tab[t].session]]

(* A page load: the provider asks who is signed in; the requests of the    *)
(* page before it are nobody's, though their cookies still count.          *)
Reload(c, t) ==
    /\ tab[t].status # "loading"
    /\ Sending(c)
    /\ call' = [b \in Calls |->
           IF b = c THEN [NoCall EXCEPT !.step = "sent", !.tab = t, !.cookie = cookie]
           ELSE IF call[b].tab = t THEN [call[b] EXCEPT !.tab = None] ELSE call[b]]
    /\ tab' = [tab EXCEPT ![t] = Fresh]
    /\ UNCHANGED <<Server, cookie>>

Opened == Cardinality({s \in Sessions : session[s] # None})

SubmitLogin(c, t) ==
    \E u \in Users, right \in BOOLEAN :
        /\ tab[t].status # "authenticated" /\ ~tab[t].busy
        /\ right => Opened + Cardinality({b \in Calls : call[b].right}) < MaxSessions
        /\ Send(c, t, "login", u, right)
        /\ tab' = [tab EXCEPT ![t].busy = TRUE]
        /\ UNCHANGED <<Server, cookie>>

SubmitLogout(c, t) ==
    /\ tab[t].status = "authenticated"
    /\ Send(c, t, "logout", None, FALSE)
    /\ UNCHANGED <<Server, cookie, tab>>

Act(c, t) ==
    /\ tab[t].status = "authenticated"
    /\ Send(c, t, "act", None, FALSE)
    /\ UNCHANGED <<Server, cookie, tab>>

SignedIn(t, s) == [tab EXCEPT ![t] = [status |-> "authenticated", session |-> s, busy |-> FALSE]]
Anonymous(t) == [tab EXCEPT ![t].status = "anonymous", ![t].session = 0]

(* What a tab makes of an answer: refresh, setSession, logout (which does  *)
(* not look at its answer) and handleAuthFailure.                          *)
Shown(t, kind, answer, got) ==
    CASE kind = "session" /\ answer = "ok" -> [tab EXCEPT ![t].status = "authenticated", ![t].session = got]
      [] kind = "session" /\ answer # "ok" -> Anonymous(t)
      [] kind = "login" /\ answer = "ok" -> SignedIn(t, got)
      [] kind = "login" /\ answer # "ok" -> [tab EXCEPT ![t].busy = FALSE]
      [] kind = "logout" -> Anonymous(t)
      [] kind = "act" /\ answer = "unauthenticated" -> Anonymous(t)
      [] OTHER -> tab

Heard(c, answer) ==
    /\ tab' = IF call[c].tab = None THEN tab
              ELSE Shown(call[c].tab, call[c].kind, answer, call[c].got)
    /\ call' = [call EXCEPT ![c] = NoCall]

Deliver(c) ==
    /\ call[c].step = "answered"
    /\ cookie' = CASE call[c].kind = "login" /\ call[c].answer = "ok" -> call[c].got
                   [] call[c].kind = "logout" /\ call[c].answer = "ok" -> 0
                   [] OTHER -> cookie
    /\ Heard(c, call[c].answer)
    /\ UNCHANGED <<Server, sent>>

(* The connection breaks, before the request arrives or after the answer   *)
(* left: fetch fails, and the answer's cookie is never set.                *)
Lose(c) ==
    /\ call[c].step \in {"sent", "answered"}
    /\ Heard(c, "none")
    /\ UNCHANGED <<Server, cookie, sent>>

(***************************************************************************)
(* The throttle.                                                           *)
(***************************************************************************)
Remaining(k, at) == bucket[k].resetAt > at /\ bucket[k].count >= LimitOf(k)
(* Mutation of BlockedFor: only the address counts.                        *)
BlockedByIp(u, at) == Remaining(Ip, at)
BlockedFor(u, at) == Remaining(u, at) \/ Remaining(Ip, at)

Bump(b, at) ==
    IF b.resetAt <= at THEN [count |-> 1, resetAt |-> at + Window]
    ELSE [b EXCEPT !.count = @ + 1]

Later(a, b) == IF a > b THEN a ELSE b

(***************************************************************************)
(* AdminSessionService.                                                    *)
(***************************************************************************)
Answer(c, answer, got) ==
    call' = [call EXCEPT ![c] = [NoCall EXCEPT !.step = "answered", !.tab = call[c].tab,
                                               !.kind = call[c].kind, !.answer = answer, !.got = got]]

(* login: the clock is read once, the throttle asked, the account read.    *)
BeginLogin(c) ==
    /\ call[c].step = "sent" /\ call[c].kind = "login"
    /\ LET u == call[c].account IN
       IF BlockedFor(u, now) THEN Answer(c, "limited", 0)
       ELSE call' = [call EXCEPT ![c].step = "verify", ![c].began = now,
                                 ![c].right = @ /\ ~user[u].disabled, ![c].auth = user[u].auth]
    /\ UNCHANGED <<Server, cookie, tab, sent>>

FailLogin(c) ==
    /\ call[c].step = "verify" /\ ~call[c].right
    /\ bucket' = [bucket EXCEPT ![call[c].account] = Bump(@, call[c].began),
                                ![Ip] = Bump(@, call[c].began)]
    /\ Answer(c, "unauthenticated", 0)
    /\ UNCHANGED <<now, user, session, cookie, tab, used, ended, sent>>

NewSession(u, auth, at) ==
    [owner |-> u, auth |-> auth, seen |-> at, idle |-> at + Idle, absolute |-> at + Absolute, revoked |-> FALSE]

OpenSession(c, s) ==
    /\ call[c].step = "verify" /\ call[c].right
    /\ session[s] = None /\ \A r \in Sessions : r < s => session[r] # None
    /\ bucket' = [bucket EXCEPT ![call[c].account] = NoBucket]
    /\ session' = [session EXCEPT ![s] = NewSession(call[c].account, call[c].auth, call[c].began)]
    /\ used' = [used EXCEPT ![s] = call[c].began]
    /\ ended' = IF user[call[c].account].auth # call[c].auth THEN ended \cup {s} ELSE ended
    /\ Answer(c, "ok", s)
    /\ UNCHANGED <<now, user, cookie, tab, sent>>

(* resolve, first statement: the session row of the cookie.                *)
Unended(s, at) == session[s] # None /\ ~session[s].revoked /\ session[s].absolute > at
LiveAt(s, at) == Unended(s, at) /\ session[s].idle > at

ReadSession(c) ==
    /\ call[c].step = "sent" /\ call[c].kind # "login"
    /\ LET s == call[c].cookie IN
       IF s # 0 /\ LiveAt(s, now)
       THEN call' = [call EXCEPT ![c].step = "user", ![c].began = now, ![c].seen = session[s].seen,
                                 ![c].late = s \in ended]
       ELSE Answer(c, "unauthenticated", 0)
    /\ UNCHANGED <<Server, cookie, tab, sent>>

(* What a let-in request meets next: CsrfGuard, if its method is unsafe,   *)
(* and the handler, which for a logout is one more statement.  rows are    *)
(* the sessions as resolve leaves them.                                    *)
CsrfMatches(c) == call[c].csrf = call[c].cookie

Admit(c, rows) ==
    /\ session' = rows
    /\ used' = [used EXCEPT ![call[c].cookie] = Later(@, call[c].began)]
    /\ CASE call[c].kind = "session" -> Answer(c, "ok", call[c].cookie)
         [] call[c].kind # "session" /\ ~CsrfMatches(c) -> Answer(c, "csrf", 0)
         [] call[c].kind = "act" /\ CsrfMatches(c) -> Answer(c, "ok", 0)
         [] call[c].kind = "logout" /\ CsrfMatches(c) ->
                call' = [call EXCEPT ![c].step = "revoke", ![c].seen = 0]

(* resolve, second statement: the account.  A use older than the write     *)
(* interval is to be written first.                                        *)
MayUse(s) == ~user[session[s].owner].disabled /\ user[session[s].owner].auth = session[s].auth
MustWrite(at, seen) == at > seen + Interval

ReadUser(c) ==
    /\ call[c].step = "user"
    /\ \/ /\ ~MayUse(call[c].cookie)
          /\ Answer(c, "unauthenticated", 0)
          /\ UNCHANGED <<session, used>>
       \/ /\ MayUse(call[c].cookie) /\ MustWrite(call[c].began, call[c].seen)
          /\ call' = [call EXCEPT ![c].step = "write", ![c].seen = 0]
          /\ UNCHANGED <<session, used>>
       \/ /\ MayUse(call[c].cookie) /\ ~MustWrite(call[c].began, call[c].seen)
          /\ Admit(c, session)
    /\ UNCHANGED <<now, user, bucket, cookie, tab, ended, sent>>

(* resolve, third statement: an update of two columns, computed from what  *)
(* the first one read.                                                     *)
Idles(row, at) == IF at + Idle < row.absolute THEN at + Idle ELSE row.absolute
(* Mutation of Extended: past the absolute end.                            *)
ExtendedPast(row, at) == [row EXCEPT !.seen = at, !.idle = at + Idle]
(* Mutation of Extended: the idle end stays.                               *)
ExtendedSeen(row, at) == [row EXCEPT !.seen = at]
(* Mutation of Extended: the row is saved whole, as it was read.           *)
ExtendedWhole(row, at) == [row EXCEPT !.seen = at, !.idle = Idles(row, at), !.revoked = FALSE]
Extended(row, at) == [row EXCEPT !.seen = at, !.idle = Idles(row, at)]

WriteSeen(c) ==
    /\ call[c].step = "write"
    /\ Admit(c, [session EXCEPT ![call[c].cookie] = Extended(@, call[c].began)])
    /\ UNCHANGED <<now, user, bucket, cookie, tab, ended, sent>>

(* The handler of a logout: the row of the session that resolve found.     *)
Revoke(c) ==
    /\ call[c].step = "revoke"
    /\ session' = [session EXCEPT ![call[c].cookie].revoked = TRUE]
    /\ ended' = ended \cup {call[c].cookie}
    /\ Answer(c, "ok", 0)
    /\ UNCHANGED <<now, user, bucket, cookie, tab, used, sent>>

(***************************************************************************)
(* Outside the code of the API: the clock, and an operator who disables an *)
(* account or bumps its auth_version in the database.                      *)
(***************************************************************************)
Working == {c \in Calls : call[c].step \in {"user", "write", "revoke", "verify"}}

Tick ==
    /\ now < MaxNow
    /\ \A c \in Working : now < call[c].began + Delay
    /\ now' = now + 1
    /\ UNCHANGED <<user, session, bucket, cookie, tab, call, used, ended, sent>>

SetDisabled(u) ==
    /\ user[u].changes < MaxChanges
    /\ user' = [user EXCEPT ![u].disabled = ~@, ![u].changes = @ + 1]
    /\ UNCHANGED <<now, session, bucket, cookie, tab, call, used, ended, sent>>

BumpAuth(u) ==
    /\ user[u].changes < MaxChanges
    /\ user' = [user EXCEPT ![u].auth = @ + 1, ![u].changes = @ + 1]
    /\ ended' = ended \cup {s \in Sessions : session[s] # None /\ session[s].owner = u}
    /\ UNCHANGED <<now, session, bucket, cookie, tab, call, used, sent>>

Resolve(c) == ReadSession(c) \/ ReadUser(c) \/ WriteSeen(c)
Login(c) == BeginLogin(c) \/ FailLogin(c) \/ \E s \in Sessions : OpenSession(c, s)
Progress(c) == Resolve(c) \/ Revoke(c) \/ Login(c) \/ Deliver(c) \/ Lose(c)
TabStep(c, t) == Reload(c, t) \/ SubmitLogin(c, t) \/ SubmitLogout(c, t) \/ Act(c, t)

Next ==
    \/ \E c \in Calls : Progress(c)
    \/ \E c \in Calls, t \in Tabs : TabStep(c, t)
    \/ \E u \in Users : SetDisabled(u) \/ BumpAuth(u)
    \/ Tick

Spec == Init /\ [][Next]_vars

(***************************************************************************)
(* What must hold.                                                         *)
(***************************************************************************)
(* A session that is revoked, or whose account's auth_version has moved    *)
(* on, is never let in again: no request that begins afterwards passes     *)
(* resolve, whatever slower requests under the same session still write.   *)
LetIn(c) ==
    /\ call[c].step \in {"user", "write"}
    /\ call'[c].step \in {"write", "revoke"} \/ call'[c].answer \in {"ok", "csrf"}
EndedStaysOut == [][\A c \in Calls : LetIn(c) => ~call[c].late]_vars

(* resolve lets a request in only within the idle time of an earlier use   *)
(* of the session and before its absolute end, although uses are written   *)
(* late, seldom and in any order.                                          *)
LetInWhileLive ==
    [][\A c \in Calls : LetIn(c) =>
            LET s == call[c].cookie IN
            call[c].began < used[s] + Idle /\ call[c].began < session[s].absolute]_vars

(* resolve gives up a session as idle only when it has not been used for   *)
(* the idle time, short of the write interval or of the time a slow        *)
(* request's write may come late, whichever is longer.                     *)
KeptWhileUsed ==
    [][\A c \in Calls :
        /\ call[c].step = "sent" /\ call[c].kind # "login" /\ call[c].cookie # 0
        /\ call'[c].step = "answered" /\ Unended(call[c].cookie, now)
        => now + Later(Interval, Delay) >= used[call[c].cookie] + Idle]_vars

(* All tabs send the cookie of whoever signed in last, in whichever tab.   *)
(* Still what an administrator does is done under the session their tab    *)
(* showed when they did it, and signing out revokes no other session: a    *)
(* request of a tab that is behind the cookie is refused.                  *)
CarriedOut(c) ==
    /\ call[c].step \in {"user", "write", "revoke"} /\ call[c].kind \in Unsafe
    /\ call'[c].answer = "ok"

ActsForWhomItShows ==
    [][/\ \A c \in Calls : CarriedOut(c) => call[c].cookie = call[c].shows
       /\ \A s \in Sessions :
            session[s] # None /\ session'[s].revoked /\ ~session[s].revoked =>
                \E c \in Calls : CarriedOut(c) /\ call[c].kind = "logout" /\ call[c].shows = s]_vars

(* Failed logins of an account, and of an address, exceed their limit by   *)
(* no more than the requests that were being verified at the same time.    *)
VerifiedFor(k) == {c \in Calls : call[c].step = "verify" /\ (k = Ip \/ call[c].account = k)}
GuessesBounded ==
    \A k \in Keys :
        bucket[k].resetAt > now =>
            bucket[k].count + Cardinality(VerifiedFor(k)) <= LimitOf(k) - 1 + Cardinality(Calls)
=============================================================================
