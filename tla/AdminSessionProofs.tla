------------------------- MODULE AdminSessionProofs -------------------------
(***************************************************************************)
(* What sessions promise, for every number of tabs, accounts, sessions and *)
(* requests, and all lives.  The argument: a session ends for good, because *)
(* no statement takes back a revocation and auth_version only grows; the   *)
(* idle end of a row is never later than the idle time after a use, and it *)
(* lags behind the last use by no more than a request or the interval      *)
(* between two writes of the idle end.                                     *)
(***************************************************************************)
EXTENDS AdminSession, FiniteSetTheorems, TLAPS

Call == [step : Steps, tab : Tabs \cup {None}, kind : Kinds, cookie : Sessions \cup {0},
         csrf : Sessions \cup {0}, shows : Sessions \cup {0}, account : Users \cup {None}, right : BOOLEAN,
         began : Nat, seen : Nat, auth : Nat, late : BOOLEAN,
         answer : Answers, got : Sessions \cup {0}]

Account == [disabled : BOOLEAN, auth : Nat, changes : Nat]

(* A request that resolve is at work on, or has let in to sign out, has    *)
(* the cookie of a row and is no login; a login names an account, whose    *)
(* auth_version it read before it opens a session; an answer comes last.   *)
CallsAreAbout ==
    \A c \in Calls :
        /\ call[c].step \in {"user", "write", "revoke"} =>
              /\ call[c].kind # "login" /\ call[c].cookie \in Sessions
              /\ session[call[c].cookie] # None
        /\ call[c].kind = "login" /\ call[c].step \in {"sent", "verify"} =>
              call[c].account \in Users
        /\ call[c].step = "verify" =>
              /\ call[c].kind = "login"
              /\ call[c].auth <= user[call[c].account].auth
        /\ call[c].step # "answered" => call[c].answer = "none"

Behind(s) == session[s].auth < user[session[s].owner].auth

(* What has ended is revoked or behind its account, and a request that     *)
(* read it after its end read a row that was behind.                       *)
EndedIsEnded ==
    /\ \A s \in Sessions : session[s] # None =>
          session[s].auth <= user[session[s].owner].auth
    /\ \A s \in ended : session[s] # None /\ (session[s].revoked \/ Behind(s))
    /\ \A c \in Calls : call[c].step \in {"user", "write"} /\ call[c].late =>
          /\ call[c].step = "user"
          /\ Behind(call[c].cookie)

(* The idle end follows a use, and a request at work began before both     *)
(* ends.                                                                   *)
EndsFollowUses ==
    /\ \A s \in Sessions : session[s] # None => session[s].idle <= used[s] + Idle
    /\ \A c \in Calls : call[c].step \in {"user", "write"} =>
          /\ call[c].began < used[call[c].cookie] + Idle
          /\ call[c].began < session[call[c].cookie].absolute

SessionInv == TypeOK /\ CallsAreAbout /\ EndedIsEnded /\ EndsFollowUses

-----------------------------------------------------------------------------
LEMMA LivesAreNumbers ==
  /\ Idle \in Nat /\ Absolute \in Nat /\ Interval \in Nat /\ Window \in Nat
  /\ Delay \in Nat /\ MaxNow \in Nat /\ MaxSessions \in Nat /\ MaxRequests \in Nat
  /\ Idle > 0
BY LivesAssumption

LEMMA CallsAreTyped == TypeOK => call \in [Calls -> Call]
BY DEF TypeOK, Call

LEMMA NoCallIsTyped == NoCall \in Call /\ NoCall.step = "free" /\ NoCall.answer = "none"
BY DEF NoCall, Call, Steps, Kinds, Answers

(* An answer puts only the answered request to rest.                       *)
LEMMA AnswerShape ==
  ASSUME call \in [Calls -> Call], NEW c \in Calls, NEW answer \in Answers,
         NEW got \in Sessions \cup {0}, Answer(c, answer, got)
  PROVE  /\ call' \in [Calls -> Call]
         /\ \A b \in Calls : b # c => call'[b] = call[b]
         /\ call'[c].step = "answered" /\ call'[c].kind = call[c].kind
         /\ call'[c].answer = answer
<1>1. call[c].tab \in Tabs \cup {None} /\ call[c].kind \in Kinds
  BY DEF Call
<1> DEFINE row == [NoCall EXCEPT !.step = "answered", !.tab = call[c].tab,
                                 !.kind = call[c].kind, !.answer = answer, !.got = got]
<1>2. row \in Call /\ row.step = "answered" /\ row.kind = call[c].kind /\ row.answer = answer
  BY <1>1 DEF NoCall, Call, Steps, Kinds, Answers
<1>3. call' = [call EXCEPT ![c] = row]
  BY DEF Answer
<1> QED BY <1>2, <1>3

(* A request that is at work, as the invariant sees it.                    *)
SameWork(b) ==
    /\ call'[b].step = call[b].step /\ call'[b].kind = call[b].kind
    /\ call'[b].cookie = call[b].cookie /\ call'[b].account = call[b].account
    /\ call'[b].auth = call[b].auth /\ call'[b].late = call[b].late
    /\ call'[b].began = call[b].began /\ call'[b].answer = call[b].answer

(* A step that leaves the server alone, and takes up no work, keeps the    *)
(* invariant.                                                              *)
LEMMA QuietStep ==
  ASSUME SessionInv, UNCHANGED Server, call' \in [Calls -> Call],
         cookie' \in Sessions \cup {0}, sent' \in 0 .. MaxRequests,
         tab' \in [Tabs -> [status : {"loading", "anonymous", "authenticated"},
                            session : Sessions \cup {0}, busy : BOOLEAN]],
         \A b \in Calls : \/ SameWork(b)
                          \/ call'[b].step = "answered"
                          \/ call'[b].step = "free" /\ call'[b].answer = "none"
                          \/ /\ call'[b].step = "sent" /\ call'[b].answer = "none"
                             /\ call'[b].kind = "login" => call'[b].account \in Users
  PROVE  SessionInv'
<1>1. TypeOK'
  BY DEF SessionInv, TypeOK, Server, Call
<1>2. CallsAreAbout'
  BY DEF SessionInv, CallsAreAbout, Server, SameWork
<1>3. EndedIsEnded'
  BY DEF SessionInv, EndedIsEnded, Behind, Server, SameWork
<1>4. EndsFollowUses'
  BY DEF SessionInv, EndsFollowUses, Server, SameWork
<1> QED BY <1>1, <1>2, <1>3, <1>4 DEF SessionInv

TabRows == [Tabs -> [status : {"loading", "anonymous", "authenticated"},
                     session : Sessions \cup {0}, busy : BOOLEAN]]

(* A request that is sent.                                                 *)
LEMMA SendShape ==
  ASSUME SessionInv, NEW c \in Calls, NEW t \in Tabs, NEW kind \in Kinds,
         NEW account \in Users \cup {None}, NEW right \in BOOLEAN,
         kind = "login" => account \in Users, Send(c, t, kind, account, right)
  PROVE  /\ call' \in [Calls -> Call] /\ sent' \in 0 .. MaxRequests
         /\ \A b \in Calls : \/ SameWork(b)
                             \/ /\ call'[b].step = "sent" /\ call'[b].answer = "none"
                                /\ call'[b].kind = "login" => call'[b].account \in Users
<1>1. call \in [Calls -> Call] /\ cookie \in Sessions \cup {0} /\ sent \in 0 .. MaxRequests
      /\ tab[t].session \in Sessions \cup {0}
  BY CallsAreTyped DEF SessionInv, TypeOK
<1> DEFINE begun == [NoCall EXCEPT !.step = "sent", !.tab = t, !.kind = kind, !.cookie = cookie]
           signed == [begun EXCEPT !.csrf = IF kind \in Unsafe THEN Token(t) ELSE 0]
           named == [signed EXCEPT !.account = account, !.right = right]
           row == [named EXCEPT !.shows = tab[t].session]
<1>2. row \in Call /\ row.step = "sent" /\ row.kind = kind /\ row.account = account
      /\ row.answer = "none"
  <2>1. begun \in Call /\ begun.step = "sent" /\ begun.kind = kind /\ begun.answer = "none"
    BY <1>1 DEF NoCall, Call, Steps, Answers
  <2> HIDE DEF begun
  <2>2. (IF kind \in Unsafe THEN Token(t) ELSE 0) \in Sessions \cup {0}
    BY <1>1 DEF Token
  <2>3. signed \in Call /\ signed.step = "sent" /\ signed.kind = kind /\ signed.answer = "none"
    BY <2>1, <2>2 DEF Call
  <2> HIDE DEF signed
  <2>4. named \in Call /\ named.step = "sent" /\ named.kind = kind /\ named.answer = "none"
        /\ named.account = account
    <3>1. named \in Call BY <2>3 DEF Call
    <3> QED BY <2>3, <3>1 DEF Call
  <2> HIDE DEF named
  <2> QED BY <1>1, <2>4 DEF Call
<1>3. call' = [call EXCEPT ![c] = row]
  BY DEF Send
<1> HIDE DEF row
<1>4. sent' \in 0 .. MaxRequests
  BY <1>1, LivesAreNumbers DEF Send, Sending
<1> QED BY <1>1, <1>2, <1>3, <1>4 DEF SameWork

LEMMA TabStepKeeps ==
  ASSUME SessionInv, NEW c \in Calls, NEW t \in Tabs, TabStep(c, t)
  PROVE  SessionInv'
<1>1. TypeOK /\ call \in [Calls -> Call]
  BY CallsAreTyped DEF SessionInv
<1>2. CASE Reload(c, t)
  <2> DEFINE row == [NoCall EXCEPT !.step = "sent", !.tab = t, !.cookie = cookie]
  <2>1. row \in Call /\ row.step = "sent" /\ row.kind = "session" /\ row.answer = "none"
    BY <1>1 DEF TypeOK, NoCall, Call, Steps, Kinds, Answers
  <2>2. \A b \in Calls : call'[b] = IF b = c THEN row
                         ELSE IF call[b].tab = t THEN [call[b] EXCEPT !.tab = None] ELSE call[b]
    BY <1>2 DEF Reload
  <2>3. \A b \in Calls : [call[b] EXCEPT !.tab = None] \in Call
    BY <1>1 DEF Call
  <2>4. call' \in [Calls -> Call]
    BY <1>1, <1>2, <2>1, <2>2, <2>3 DEF Reload
  <2>5. \A b \in Calls :
           \/ SameWork(b)
           \/ call'[b].step = "sent" /\ call'[b].kind = "session" /\ call'[b].answer = "none"
    <3> HIDE DEF row
    <3> TAKE b \in Calls
    <3>1. CASE b = c
      BY <2>1, <2>2, <3>1
    <3>2. CASE b # c /\ call[b].tab = t
      <4>1. call'[b] = [call[b] EXCEPT !.tab = None] /\ call[b] \in Call
        BY <1>1, <2>2, <3>2
      <4> QED BY <4>1 DEF SameWork, Call
    <3>3. CASE b # c /\ call[b].tab # t
      BY <2>2, <3>3 DEF SameWork
    <3> QED BY <3>1, <3>2, <3>3
  <2>6. sent' \in 0 .. MaxRequests
    BY <1>1, <1>2, LivesAreNumbers DEF TypeOK, Reload, Sending
  <2>7. tab' \in TabRows
    BY <1>1, <1>2 DEF TypeOK, TabRows, Reload, Fresh
  <2> QED BY <1>1, <1>2, <2>4, <2>5, <2>6, <2>7, QuietStep DEF Reload, TypeOK, TabRows
<1>3. CASE SubmitLogin(c, t)
  <2>1. PICK u \in Users, right \in BOOLEAN :
            /\ Send(c, t, "login", u, right)
            /\ tab' = [tab EXCEPT ![t].busy = TRUE]
            /\ UNCHANGED <<Server, cookie>>
    BY <1>3 DEF SubmitLogin
  <2>2. tab' \in TabRows
    <3>1. tab \in TabRows
      BY <1>1 DEF TypeOK, TabRows
    <3>2. [tab EXCEPT ![t].busy = TRUE] \in TabRows
      BY <3>1 DEF TabRows
    <3> QED BY <2>1, <3>2
  <2> QED BY <1>1, <2>1, <2>2, SendShape, QuietStep DEF TypeOK, TabRows, Kinds
<1>4. CASE SubmitLogout(c, t)
  BY <1>1, <1>4, SendShape, QuietStep DEF SubmitLogout, TypeOK, Kinds
<1>5. CASE Act(c, t)
  BY <1>1, <1>5, SendShape, QuietStep DEF Act, TypeOK, Kinds
<1> QED BY <1>2, <1>3, <1>4, <1>5 DEF TabStep

(* An answer that arrives, or does not.                                    *)
LEMMA HeardKeeps ==
  ASSUME SessionInv, NEW c \in Calls, NEW answer, Heard(c, answer),
         UNCHANGED <<Server, sent>>, cookie' \in Sessions \cup {0}
  PROVE  SessionInv'
<1>1. TypeOK /\ call \in [Calls -> Call] /\ tab \in TabRows
  BY CallsAreTyped DEF SessionInv, TypeOK, TabRows
<1>2. call' \in [Calls -> Call] /\ \A b \in Calls : call'[b] = IF b = c THEN NoCall ELSE call[b]
  BY <1>1, NoCallIsTyped DEF Heard
<1>3. \A b \in Calls : SameWork(b) \/ (call'[b].step = "free" /\ call'[b].answer = "none")
  BY <1>2, NoCallIsTyped DEF SameWork
<1>4. call[c].got \in Sessions \cup {0} /\ call[c].tab \in Tabs \cup {None}
  BY <1>1 DEF Call
<1>5. ASSUME NEW t \in Tabs, NEW got \in Sessions \cup {0}, NEW kind
      PROVE  Shown(t, kind, answer, got) \in TabRows
  <2>1. Anonymous(t) \in TabRows
    BY <1>1 DEF Anonymous, TabRows
  <2>2. SignedIn(t, got) \in TabRows
    BY <1>1 DEF SignedIn, TabRows
  <2>3. [tab EXCEPT ![t].status = "authenticated", ![t].session = got] \in TabRows
    BY <1>1 DEF TabRows
  <2>4. [tab EXCEPT ![t].busy = FALSE] \in TabRows
    BY <1>1 DEF TabRows
  <2> QED BY <1>1, <2>1, <2>2, <2>3, <2>4 DEF Shown
<1>6. tab' \in TabRows
  BY <1>1, <1>4, <1>5 DEF Heard
<1> QED BY <1>1, <1>2, <1>6, <1>3, QuietStep DEF TypeOK, TabRows

LEMMA DeliverKeeps ==
  ASSUME SessionInv, NEW c \in Calls, Deliver(c) \/ Lose(c)
  PROVE  SessionInv'
<1>1. call[c].got \in Sessions \cup {0} /\ cookie \in Sessions \cup {0}
  BY CallsAreTyped DEF SessionInv, TypeOK, Call
<1>2. cookie' \in Sessions \cup {0}
  BY <1>1 DEF Deliver, Lose
<1> QED BY <1>2, HeardKeeps DEF Deliver, Lose

-----------------------------------------------------------------------------
(* What a request makes of a row: at most a later end of idleness, a later *)
(* use, and an end that is for good.                                       *)
UsedRow(old, new, at) ==
    /\ new \in Row
    /\ new.owner = old.owner /\ new.auth = old.auth /\ new.absolute = old.absolute
    /\ old.revoked => new.revoked
    /\ new.idle = old.idle \/ new.idle <= at + Idle
    /\ Idle <= Absolute => new.idle <= new.absolute

LEMMA ExtendedIsUsed ==
  ASSUME NEW row \in Row, NEW at \in Nat
  PROVE  UsedRow(row, Extended(row, at), at)
<1>1. at + Idle \in Nat /\ row.absolute \in Nat
  BY LivesAreNumbers DEF Row
<1>2. Idles(row, at) \in Nat /\ Idles(row, at) <= at + Idle /\ Idles(row, at) <= row.absolute
  BY <1>1 DEF Idles
<1>3. Extended(row, at) = [row EXCEPT !.seen = at, !.idle = Idles(row, at)]
  BY DEF Extended
<1> QED BY <1>1, <1>2, <1>3 DEF UsedRow, Row

(* A request that is let in is answered, or goes on to sign out.           *)
Revoking(c) ==
    /\ call' = [call EXCEPT ![c].step = "revoke", ![c].seen = 0]
    /\ call[c].kind = "logout" /\ CsrfMatches(c)

LEMMA AdmitShape ==
  ASSUME call \in [Calls -> Call], NEW c \in Calls, call[c].kind # "login",
         NEW rows, Admit(c, rows)
  PROVE  \/ Revoking(c)
         \/ \E answer \in Answers, got \in Sessions \cup {0} :
               /\ Answer(c, answer, got)
               /\ call[c].kind \in Unsafe /\ answer = "ok" => CsrfMatches(c)
<1>1. call[c].kind \in Kinds /\ call[c].cookie \in Sessions \cup {0}
  BY DEF Call
<1>2. CASE call[c].kind = "session"
  BY <1>1, <1>2 DEF Admit, Answers, Unsafe
<1>3. CASE call[c].kind # "session" /\ ~CsrfMatches(c)
  BY <1>3 DEF Admit, Answers
<1>4. CASE call[c].kind = "act" /\ CsrfMatches(c)
  BY <1>4 DEF Admit, Answers
<1>5. CASE call[c].kind = "logout" /\ CsrfMatches(c)
  BY <1>5 DEF Admit, Revoking
<1> QED BY <1>1, <1>2, <1>3, <1>4, <1>5 DEF Kinds

LEMMA RevokingShape ==
  ASSUME call \in [Calls -> Call], NEW c \in Calls, Revoking(c)
  PROVE  /\ call' \in [Calls -> Call] /\ \A b \in Calls : b # c => call'[b] = call[b]
         /\ call'[c].step = "revoke" /\ call'[c].kind = call[c].kind
         /\ call'[c].cookie = call[c].cookie /\ call'[c].answer = call[c].answer
         /\ call'[c].csrf = call[c].csrf /\ call'[c].shows = call[c].shows
<1> DEFINE row == [call[c] EXCEPT !.step = "revoke", !.seen = 0]
<1>1. /\ row \in Call /\ row.step = "revoke" /\ row.kind = call[c].kind
      /\ row.cookie = call[c].cookie /\ row.answer = call[c].answer
      /\ row.csrf = call[c].csrf /\ row.shows = call[c].shows
  <2>1. call[c] \in Call OBVIOUS
  <2>2. row \in Call BY <2>1 DEF Call, Steps
  <2> QED BY <2>1, <2>2 DEF Call
<1>2. call' = [call EXCEPT ![c] = row]
  BY DEF Revoking
<1> HIDE DEF row
<1> QED BY <1>1, <1>2

(* A step of a request that changes the row of its session.                *)
LEMMA RowStep ==
  ASSUME SessionInv, NEW c \in Calls, call[c].step \in {"user", "write", "revoke"},
         NEW s, s = call[c].cookie, NEW at \in Nat,
         session' \in [Sessions -> Row \cup {None}],
         \A r \in Sessions : r # s => session'[r] = session[r] /\ used'[r] = used[r],
         UsedRow(session[s], session'[s], at),
         used' \in [Sessions -> Nat], used'[s] >= used[s],
         session'[s].idle = session[s].idle \/ used'[s] >= at,
         ended' = ended \/ (ended' = ended \cup {s} /\ session'[s].revoked),
         call' \in [Calls -> Call], \A b \in Calls : b # c => call'[b] = call[b],
         \/ call'[c].step = "answered"
         \/ /\ call'[c].step = "revoke" /\ call'[c].kind # "login"
            /\ call'[c].cookie = s /\ call'[c].answer = "none",
         UNCHANGED <<now, user, bucket, cookie, tab, sent>>
  PROVE  SessionInv'
<1>1. /\ TypeOK /\ call \in [Calls -> Call] /\ s \in Sessions /\ session[s] # None
      /\ session[s] \in Row /\ session'[s] \in Row /\ session'[s] # None
      /\ used[s] \in Nat /\ session \in [Sessions -> Row \cup {None}]
  BY CallsAreTyped, NoneAssumption DEF SessionInv, CallsAreAbout, TypeOK, UsedRow
<1>2. TypeOK'
  <2>1. \A r \in Sessions : session'[r] # None /\ Idle <= Absolute => session'[r].idle <= session'[r].absolute
    BY <1>1 DEF TypeOK, UsedRow
  <2>2. ended' \subseteq Sessions
    BY <1>1 DEF TypeOK
  <2> QED BY <1>1, <2>1, <2>2 DEF TypeOK, Call
<1>3. CallsAreAbout'
  BY <1>1 DEF SessionInv, CallsAreAbout
<1>4. EndedIsEnded'
  <2>1. \A r \in Sessions : session[r] # None => session'[r] # None /\ (Behind(r) => Behind(r)')
                                               /\ (session[r].revoked => session'[r].revoked)
    BY <1>1 DEF Behind, UsedRow
  <2>2. \A r \in Sessions : session'[r] # None => session'[r].auth <= user'[session'[r].owner].auth
    BY <1>1 DEF SessionInv, EndedIsEnded, UsedRow
  <2>3. \A r \in ended' : session'[r] # None /\ (session'[r].revoked \/ Behind(r)')
    BY <1>1, <2>1 DEF SessionInv, EndedIsEnded, TypeOK
  <2>4. \A b \in Calls : call'[b].step \in {"user", "write"} /\ call'[b].late =>
          /\ call'[b].step = "user"
          /\ session'[call'[b].cookie].auth < user'[session'[call'[b].cookie].owner].auth
    <3> SUFFICES ASSUME NEW b \in Calls, call'[b].step \in {"user", "write"}, call'[b].late
                 PROVE  /\ call'[b].step = "user"
                        /\ session'[call'[b].cookie].auth < user'[session'[call'[b].cookie].owner].auth
      OBVIOUS
    <3>1. b # c BY SMTT(15)
    <3>2. call'[b] = call[b] BY <3>1
    <3>3. call[b].step = "user" /\ Behind(call[b].cookie)
      BY <3>2 DEF SessionInv, EndedIsEnded
    <3>4. call[b].cookie \in Sessions /\ session[call[b].cookie] # None
      BY <3>3 DEF SessionInv, CallsAreAbout
    <3> QED BY <2>1, <3>2, <3>3, <3>4 DEF Behind
  <2> QED BY <2>2, <2>3, <2>4 DEF EndedIsEnded, Behind
<1>5. EndsFollowUses'
  <2>1. \A r \in Sessions : used'[r] \in Nat /\ used[r] \in Nat /\ used'[r] >= used[r]
    BY <1>1 DEF TypeOK
  <2>2. \A r \in Sessions : session'[r] # None => session'[r].idle <= used'[r] + Idle
    <3>1. session[s].idle \in Nat /\ session'[s].idle \in Nat /\ session[s].idle <= used[s] + Idle
      BY <1>1 DEF SessionInv, EndsFollowUses, Row
    <3>2. session'[s].idle = session[s].idle \/ session'[s].idle <= used'[s] + Idle
      BY <1>1, <2>1, <3>1, LivesAreNumbers DEF UsedRow
    <3>3. session'[s].idle <= used'[s] + Idle
      BY <1>1, <2>1, <3>1, <3>2, LivesAreNumbers
    <3> QED BY <3>3 DEF SessionInv, EndsFollowUses
  <2>3. ASSUME NEW b \in Calls, call'[b].step \in {"user", "write"}
        PROVE  /\ call'[b].began < used'[call'[b].cookie] + Idle
               /\ call'[b].began < session'[call'[b].cookie].absolute
    <3>1. b # c /\ call'[b] = call[b] /\ call[b].cookie \in Sessions /\ session[call[b].cookie] # None
      BY <2>3 DEF SessionInv, CallsAreAbout
    <3>2. call[b].began < used[call[b].cookie] + Idle /\ call[b].began < session[call[b].cookie].absolute
      BY <2>3, <3>1 DEF SessionInv, EndsFollowUses
    <3>3. call[b].began \in Nat /\ session'[call[b].cookie].absolute = session[call[b].cookie].absolute
      BY <1>1, <3>1 DEF Call, UsedRow
    <3> QED BY <2>1, <3>1, <3>2, <3>3, LivesAreNumbers
  <2> QED BY <2>2, <2>3 DEF EndsFollowUses
<1> QED BY <1>2, <1>3, <1>4, <1>5 DEF SessionInv

(* resolve lets a request in.                                              *)
LEMMA AdmitKeeps ==
  ASSUME SessionInv, NEW c \in Calls, call[c].step \in {"user", "write"},
         NEW rows \in [Sessions -> Row \cup {None}],
         \A s \in Sessions : s # call[c].cookie => rows[s] = session[s],
         UsedRow(session[call[c].cookie], rows[call[c].cookie], call[c].began),
         Admit(c, rows),
         UNCHANGED <<now, user, bucket, cookie, tab, ended, sent>>
  PROVE  SessionInv'
<1>s. PICK s : s = call[c].cookie OBVIOUS
<1>a. PICK at : at = call[c].began OBVIOUS
<1>1. /\ call \in [Calls -> Call] /\ s \in Sessions /\ at \in Nat /\ used \in [Sessions -> Nat]
      /\ call[c].kind # "login" /\ call[c].answer = "none"
  BY <1>s, <1>a, CallsAreTyped DEF SessionInv, CallsAreAbout, TypeOK, Call
<1>2. session' = rows /\ used' = [used EXCEPT ![s] = Later(@, at)]
  BY <1>s, <1>a DEF Admit
<1>3. Later(used[s], at) \in Nat /\ Later(used[s], at) >= used[s] /\ Later(used[s], at) >= at
  BY <1>1 DEF Later
<1>4. /\ used' \in [Sessions -> Nat] /\ used'[s] >= used[s] /\ used'[s] >= at
      /\ \A r \in Sessions : r # s => used'[r] = used[r]
  BY <1>1, <1>2, <1>3
<1>5. /\ call' \in [Calls -> Call] /\ \A b \in Calls : b # c => call'[b] = call[b]
      /\ \/ call'[c].step = "answered"
         \/ /\ call'[c].step = "revoke" /\ call'[c].kind # "login"
            /\ call'[c].cookie = s /\ call'[c].answer = "none"
  <2>1. CASE Revoking(c)
    BY <1>s, <1>1, <2>1, RevokingShape
  <2>2. CASE ~Revoking(c)
    BY <1>1, <2>2, AdmitShape, AnswerShape
  <2> QED BY <2>1, <2>2
<1> QED BY <1>s, <1>a, <1>1, <1>2, <1>4, <1>5, RowStep

(* The handler of a logout.                                                *)
LEMMA RevokeKeeps ==
  ASSUME SessionInv, NEW c \in Calls, Revoke(c)
  PROVE  SessionInv'
<1>s. PICK s : s = call[c].cookie OBVIOUS
<1>1. /\ call[c].step = "revoke" /\ call \in [Calls -> Call] /\ s \in Sessions
      /\ session[s] \in Row /\ session \in [Sessions -> Row \cup {None}]
      /\ used \in [Sessions -> Nat] /\ used[s] \in Nat
      /\ Idle <= Absolute => session[s].idle <= session[s].absolute
  BY <1>s, CallsAreTyped DEF Revoke, SessionInv, CallsAreAbout, TypeOK
<1>2. PICK row : row = [session[s] EXCEPT !.revoked = TRUE]
  OBVIOUS
<1>3. UsedRow(session[s], row, 0) /\ row.revoked /\ row.idle = session[s].idle
  BY <1>1, <1>2 DEF UsedRow, Row
<1>4. session' = [session EXCEPT ![s] = row]
  BY <1>s, <1>2 DEF Revoke
<1>5. /\ session' \in [Sessions -> Row \cup {None}] /\ session'[s] = row
      /\ \A r \in Sessions : r # s => session'[r] = session[r]
  BY <1>1, <1>3, <1>4 DEF UsedRow
<1>6. /\ call' \in [Calls -> Call] /\ call'[c].step = "answered"
      /\ \A b \in Calls : b # c => call'[b] = call[b]
  BY <1>1, AnswerShape DEF Revoke, Answers
<1>7. UNCHANGED <<now, user, bucket, cookie, tab, used, sent>> /\ ended' = ended \cup {s}
  BY <1>s DEF Revoke
<1> QED BY <1>s, <1>1, <1>3, <1>5, <1>6, <1>7, RowStep

LEMMA ReadIsTyped ==
  ASSUME NEW row \in Call, NEW began \in Nat, NEW seen \in Nat, NEW late \in BOOLEAN
  PROVE  [row EXCEPT !.step = "user", !.began = began, !.seen = seen, !.late = late] \in Call
<1>1. [row EXCEPT !.step = "user", !.began = began] \in Call
  BY DEF Call, Steps
<1> DEFINE begun == [row EXCEPT !.step = "user", !.began = began]
<1>2. [begun EXCEPT !.seen = seen] \in Call
  BY <1>1 DEF Call
<1>3. [[begun EXCEPT !.seen = seen] EXCEPT !.late = late] \in Call
  <2> DEFINE seeing == [begun EXCEPT !.seen = seen]
  <2> HIDE DEF seeing
  <2> SUFFICES ASSUME seeing \in Call PROVE [seeing EXCEPT !.late = late] \in Call
    BY <1>2 DEF seeing
  <2> QED BY DEF Call
<1> QED BY <1>3

LEMMA ResolveKeeps ==
  ASSUME SessionInv, NEW c \in Calls, Resolve(c)
  PROVE  SessionInv'
<1> DEFINE s == call[c].cookie
<1>1. TypeOK /\ call \in [Calls -> Call]
      /\ session \in [Sessions -> Row \cup {None}]
  BY CallsAreTyped DEF SessionInv, TypeOK
<1>2. CASE ReadSession(c)
  <2>1. CASE s # 0 /\ LiveAt(s, now)
    <3>1. s \in Sessions /\ session[s] # None /\ session[s] \in Row /\ now \in Nat
          /\ session[s].seen \in Nat
      BY <1>1, <2>1, LivesAreNumbers DEF Call, LiveAt, Unended, TypeOK, Row
    <3> DEFINE row == [call[c] EXCEPT !.step = "user", !.began = now,
                                      !.seen = session[s].seen, !.late = s \in ended]
    <3>2. call' = [call EXCEPT ![c] = row]
      BY <1>2, <2>1 DEF ReadSession
    <3>3. row \in Call
      <4>1. ASSUME NEW late \in BOOLEAN
            PROVE  [call[c] EXCEPT !.step = "user", !.began = now,
                                   !.seen = session[s].seen, !.late = late] \in Call
        BY <1>1, <3>1, ReadIsTyped
      <4>2. (s \in ended) \in BOOLEAN
        OBVIOUS
      <4> QED BY <4>1, <4>2, Zenon
    <3>4. row.step = "user" /\ row.cookie = s /\ row.kind = call[c].kind /\ row.began = now
          /\ row.late = (s \in ended) /\ row.answer = call[c].answer
      BY <1>1 DEF Call
    <3> HIDE DEF row, s
    <3>5. call' \in [Calls -> Call] /\ call'[c] = row /\ \A b \in Calls : b # c => call'[b] = call[b]
      BY <1>1, <3>2, <3>3
    <3>6. UNCHANGED <<Server, cookie, tab, sent>>
      BY <1>2 DEF ReadSession
    <3>7. TypeOK'
      BY <1>1, <3>5, <3>6 DEF TypeOK, Server, Call
    <3>8. CallsAreAbout'
      BY <1>2, <3>1, <3>4, <3>5, <3>6 DEF SessionInv, CallsAreAbout, Server, ReadSession
    <3>9. s \in ended => Behind(s)
      BY <2>1, <3>1 DEF SessionInv, EndedIsEnded, LiveAt, Unended, s
    <3>10. EndedIsEnded'
      BY <3>4, <3>5, <3>6, <3>9 DEF SessionInv, EndedIsEnded, Behind, Server
    <3>11. now < used[s] + Idle /\ now < session[s].absolute
      <4>1. session[s].idle \in Nat /\ session[s].absolute \in Nat /\ used[s] \in Nat
            /\ session[s].idle <= used[s] + Idle
        BY <1>1, <3>1 DEF SessionInv, EndsFollowUses, TypeOK, Row
      <4>2. session[s].idle > now /\ session[s].absolute > now
        BY <2>1 DEF LiveAt, Unended, s
      <4> QED BY <3>1, <4>1, <4>2, LivesAreNumbers
    <3>12. EndsFollowUses'
      BY <3>4, <3>5, <3>6, <3>11 DEF SessionInv, EndsFollowUses, Server
    <3> QED BY <3>7, <3>8, <3>10, <3>12 DEF SessionInv
  <2>2. CASE ~(s # 0 /\ LiveAt(s, now))
    <3>1. Answer(c, "unauthenticated", 0) /\ UNCHANGED <<Server, cookie, tab, sent>>
      BY <1>2, <2>2 DEF ReadSession
    <3>2. call' \in [Calls -> Call] /\ call'[c].step = "answered"
          /\ \A b \in Calls : b # c => call'[b] = call[b]
      BY <1>1, <3>1, AnswerShape DEF Answers
    <3> QED BY <1>1, <3>1, <3>2, QuietStep DEF TypeOK, SameWork
  <2> QED BY <2>1, <2>2
<1>3. ASSUME call[c].step \in {"user", "write"}
      PROVE  s \in Sessions /\ session[s] \in Row /\ call[c].began \in Nat
  BY <1>1, <1>3 DEF SessionInv, CallsAreAbout, Call
<1>4. CASE ReadUser(c)
  <2>1. call[c].step = "user" /\ UNCHANGED <<now, user, bucket, cookie, tab, sent>>
    BY <1>4 DEF ReadUser
  <2>2. CASE ~MayUse(s)
    <3>1. Answer(c, "unauthenticated", 0) /\ UNCHANGED <<session, used, ended>>
      BY <1>4, <2>2 DEF ReadUser
    <3>2. call' \in [Calls -> Call] /\ call'[c].step = "answered"
          /\ \A b \in Calls : b # c => call'[b] = call[b]
      BY <1>1, <3>1, AnswerShape DEF Answers
    <3> QED BY <1>1, <2>1, <3>1, <3>2, QuietStep DEF TypeOK, SameWork, Server
  <2>3. CASE MayUse(s) /\ MustWrite(call[c].began, call[c].seen)
    <3> DEFINE row == [call[c] EXCEPT !.step = "write", !.seen = 0]
    <3>1. call' = [call EXCEPT ![c] = row] /\ UNCHANGED <<session, used, ended>>
      BY <1>4, <2>3 DEF ReadUser
    <3>2. row \in Call /\ row.step = "write" /\ row.cookie = s /\ row.kind = call[c].kind
          /\ row.began = call[c].began /\ row.late = call[c].late /\ row.answer = call[c].answer
      <4>1. call[c] \in Call BY <1>1
      <4>2. row \in Call BY <4>1 DEF Call, Steps
      <4> QED BY <4>1, <4>2 DEF Call
    <3> HIDE DEF row, s
    <3>3. call' \in [Calls -> Call] /\ call'[c] = row /\ \A b \in Calls : b # c => call'[b] = call[b]
      BY <1>1, <3>1, <3>2
    <3>4. user[session[s].owner].auth = session[s].auth
      BY <2>3 DEF MayUse
    <3>5. s \in Sessions /\ session[s] \in Row /\ session[s] # None
      BY <1>3, <2>1 DEF SessionInv, CallsAreAbout, s
    <3>6. user[session[s].owner].auth \in Nat
      BY <1>1, <3>5 DEF TypeOK, Row
    <3>7. ~call[c].late
      BY <2>1, <3>4, <3>6 DEF SessionInv, EndedIsEnded, Behind, s
    <3>8. TypeOK'
      BY <1>1, <2>1, <3>1, <3>3 DEF TypeOK, Call
    <3>9. CallsAreAbout'
      BY <2>1, <3>1, <3>2, <3>3, <3>5 DEF SessionInv, CallsAreAbout
    <3>10. EndedIsEnded'
      BY <2>1, <3>1, <3>2, <3>3, <3>7 DEF SessionInv, EndedIsEnded, Behind
    <3>11. EndsFollowUses'
      BY <2>1, <3>1, <3>2, <3>3 DEF SessionInv, EndsFollowUses, s
    <3> QED BY <3>8, <3>9, <3>10, <3>11 DEF SessionInv
  <2>4. CASE MayUse(s) /\ ~MustWrite(call[c].began, call[c].seen)
    <3>1. Admit(c, session) /\ UNCHANGED ended
      BY <1>4, <2>4 DEF ReadUser
    <3>2. UsedRow(session[s], session[s], call[c].began)
      BY <1>1, <1>3, <2>1, NoneAssumption DEF UsedRow, TypeOK
    <3> QED BY <1>1, <2>1, <3>1, <3>2, AdmitKeeps
  <2> QED BY <2>2, <2>3, <2>4
<1>5. CASE WriteSeen(c)
  <2> DEFINE rows == [session EXCEPT ![s] = Extended(@, call[c].began)]
  <2>1. call[c].step = "write" /\ Admit(c, rows)
        /\ UNCHANGED <<now, user, bucket, cookie, tab, ended, sent>>
    BY <1>5 DEF WriteSeen
  <2>2. UsedRow(session[s], Extended(session[s], call[c].began), call[c].began)
    BY <1>3, <2>1, ExtendedIsUsed
  <2>3. rows \in [Sessions -> Row \cup {None}] /\ rows[s] = Extended(session[s], call[c].began)
        /\ \A r \in Sessions : r # s => rows[r] = session[r]
    BY <1>1, <1>3, <2>1, <2>2 DEF UsedRow
  <2> HIDE DEF rows
  <2> QED BY <2>1, <2>2, <2>3, AdmitKeeps
<1> QED BY <1>2, <1>4, <1>5 DEF Resolve

LEMMA VerifyIsTyped ==
  ASSUME NEW row \in Call, NEW began \in Nat, NEW right \in BOOLEAN, NEW auth \in Nat
  PROVE  [row EXCEPT !.step = "verify", !.began = began, !.right = right, !.auth = auth] \in Call
<1> DEFINE begun == [row EXCEPT !.step = "verify", !.began = began]
<1>1. begun \in Call
  BY DEF Call, Steps
<1>2. [begun EXCEPT !.right = right] \in Call
  <2> HIDE DEF begun
  <2> QED BY <1>1 DEF Call
<1> DEFINE asked == [begun EXCEPT !.right = right]
<1>3. [asked EXCEPT !.auth = auth] \in Call
  <2> HIDE DEF asked
  <2> QED BY <1>2 DEF Call, asked
<1> QED BY <1>3

LEMMA LoginKeeps ==
  ASSUME SessionInv, NEW c \in Calls, Login(c)
  PROVE  SessionInv'
<1> DEFINE u == call[c].account
<1>1. TypeOK /\ call \in [Calls -> Call] /\ session \in [Sessions -> Row \cup {None}]
  BY CallsAreTyped DEF SessionInv, TypeOK
<1>2. CASE BeginLogin(c)
  <2>1. call[c].step = "sent" /\ call[c].kind = "login" /\ u \in Users /\ call[c].answer = "none"
        /\ UNCHANGED <<Server, cookie, tab, sent>>
    BY <1>2 DEF BeginLogin, SessionInv, CallsAreAbout
  <2>2. CASE BlockedFor(u, now)
    <3>1. Answer(c, "limited", 0)
      BY <1>2, <2>2 DEF BeginLogin
    <3>2. call' \in [Calls -> Call] /\ call'[c].step = "answered"
          /\ \A b \in Calls : b # c => call'[b] = call[b]
      BY <1>1, <3>1, AnswerShape DEF Answers
    <3> QED BY <1>1, <2>1, <3>2, QuietStep DEF TypeOK, SameWork
  <2>3. CASE ~BlockedFor(u, now)
    <3> DEFINE right == call[c].right /\ ~user[u].disabled
               row == [call[c] EXCEPT !.step = "verify", !.began = now,
                                      !.right = right, !.auth = user[u].auth]
    <3>1. call' = [call EXCEPT ![c] = row]
      BY <1>2, <2>3 DEF BeginLogin
    <3>2. right \in BOOLEAN /\ now \in Nat /\ user[u].auth \in Nat
      BY <1>1, <2>1, LivesAreNumbers DEF TypeOK
    <3> HIDE DEF right
    <3>3. row \in Call
      BY <1>1, <3>2, VerifyIsTyped
    <3>4. row.step = "verify" /\ row.kind = "login" /\ row.account = u
          /\ row.auth = user[u].auth /\ row.answer = "none"
      BY <1>1, <2>1 DEF Call
    <3> HIDE DEF row
    <3>5. call' \in [Calls -> Call] /\ call'[c] = row /\ \A b \in Calls : b # c => call'[b] = call[b]
      BY <1>1, <3>1, <3>3
    <3>6. TypeOK'
      BY <1>1, <2>1, <3>5 DEF TypeOK, Server, Call
    <3>7. CallsAreAbout'
      BY <2>1, <3>2, <3>4, <3>5 DEF SessionInv, CallsAreAbout, Server
    <3>8. EndedIsEnded'
      BY <2>1, <3>4, <3>5 DEF SessionInv, EndedIsEnded, Behind, Server
    <3>9. EndsFollowUses'
      BY <2>1, <3>4, <3>5 DEF SessionInv, EndsFollowUses, Server
    <3> QED BY <3>6, <3>7, <3>8, <3>9 DEF SessionInv
  <2> QED BY <2>2, <2>3
<1>3. CASE FailLogin(c)
  <2>1. call[c].step = "verify" /\ u \in Users /\ Answer(c, "unauthenticated", 0)
        /\ UNCHANGED <<now, user, session, cookie, tab, used, ended, sent>>
    BY <1>3 DEF FailLogin, SessionInv, CallsAreAbout
  <2>2. call' \in [Calls -> Call] /\ call'[c].step = "answered"
        /\ \A b \in Calls : b # c => call'[b] = call[b]
    BY <1>1, <2>1, AnswerShape DEF Answers
  <2>3. call[c].began \in Nat
    BY <1>1 DEF Call
  <2>4. \A b \in [count : Nat, resetAt : Nat] : Bump(b, call[c].began) \in [count : Nat, resetAt : Nat]
    BY <2>3, LivesAreNumbers DEF Bump
  <2>5. bucket' \in [Keys -> [count : Nat, resetAt : Nat]]
    BY <1>1, <1>3, <2>4 DEF FailLogin, TypeOK
  <2>6. TypeOK'
    BY <1>1, <2>1, <2>2, <2>5 DEF TypeOK, Call
  <2>7. CallsAreAbout'
    BY <2>1, <2>2 DEF SessionInv, CallsAreAbout
  <2>8. EndedIsEnded'
    BY <2>1, <2>2 DEF SessionInv, EndedIsEnded, Behind
  <2>9. EndsFollowUses'
    BY <2>1, <2>2 DEF SessionInv, EndsFollowUses
  <2> QED BY <2>6, <2>7, <2>8, <2>9 DEF SessionInv
<1>4. ASSUME NEW s \in Sessions, OpenSession(c, s)
      PROVE  SessionInv'
  <2> DEFINE row == NewSession(u, call[c].auth, call[c].began)
             at == call[c].began
  <2>1. /\ call[c].step = "verify" /\ u \in Users /\ call[c].auth <= user[u].auth
        /\ session[s] = None
        /\ session' = [session EXCEPT ![s] = row]
        /\ used' = [used EXCEPT ![s] = at]
        /\ ended' = IF user[u].auth # call[c].auth THEN ended \cup {s} ELSE ended
        /\ bucket' = [bucket EXCEPT ![u] = NoBucket]
        /\ Answer(c, "ok", s)
        /\ UNCHANGED <<now, user, cookie, tab, sent>>
    BY <1>4 DEF OpenSession, SessionInv, CallsAreAbout
  <2>2. call' \in [Calls -> Call] /\ call'[c].step = "answered"
        /\ \A b \in Calls : b # c => call'[b] = call[b]
    BY <1>1, <2>1, AnswerShape DEF Answers
  <2>3. at \in Nat /\ call[c].auth \in Nat /\ user[u].auth \in Nat
    BY <1>1, <2>1 DEF Call, TypeOK
  <2>4. row \in Row /\ row # None /\ row.owner = u /\ row.auth = call[c].auth
        /\ row.idle = at + Idle /\ row.absolute = at + Absolute
    <3>1. row \in Row
      BY <2>1, <2>3, LivesAreNumbers DEF NewSession, Row
    <3>2. row # None
      BY <3>1, NoneAssumption
    <3> QED BY <3>1, <3>2 DEF NewSession
  <2> HIDE DEF row, at
  <2>5. session' \in [Sessions -> Row \cup {None}] /\ session'[s] = row
        /\ \A r \in Sessions : r # s => session'[r] = session[r] /\ used'[r] = used[r]
    BY <1>1, <2>1, <2>4 DEF TypeOK
  <2>6. used' \in [Sessions -> Nat] /\ used'[s] = at
    BY <1>1, <2>1, <2>3 DEF TypeOK
  <2>7. TypeOK'
    <3>1. \A r \in Sessions : session'[r] # None /\ Idle <= Absolute => session'[r].idle <= session'[r].absolute
      BY <1>1, <2>3, <2>4, <2>5, LivesAreNumbers DEF TypeOK
    <3>2. bucket' \in [Keys -> [count : Nat, resetAt : Nat]]
      BY <1>1, <2>1 DEF TypeOK, NoBucket
    <3>3. ended' \subseteq Sessions
      BY <1>1, <2>1 DEF TypeOK
    <3> QED BY <1>1, <2>1, <2>2, <2>5, <2>6, <3>1, <3>2, <3>3 DEF TypeOK, Call
  <2>8. CallsAreAbout'
    BY <2>1, <2>2, <2>5, <2>4 DEF SessionInv, CallsAreAbout
  <2>9. EndedIsEnded'
    <3>1. \A r \in Sessions : session[r] # None => session'[r] = session[r]
      BY <2>1, <2>5
    <3>2. \A r \in Sessions : session'[r] # None => session'[r].auth <= user'[session'[r].owner].auth
      BY <2>1, <2>4, <2>5 DEF SessionInv, EndedIsEnded
    <3>3. \A r \in ended : session'[r] # None
                          /\ (session'[r].revoked \/ session'[r].auth < user'[session'[r].owner].auth)
      BY <1>1, <2>1, <3>1 DEF SessionInv, EndedIsEnded, Behind, TypeOK
    <3>4. \A r \in ended' : session'[r] # None
                          /\ (session'[r].revoked \/ session'[r].auth < user'[session'[r].owner].auth)
      BY <2>1, <2>3, <2>4, <2>5, <3>3
    <3>5. \A b \in Calls : call'[b].step \in {"user", "write"} /\ call'[b].late =>
            /\ call'[b].step = "user"
            /\ session'[call'[b].cookie].auth < user'[session'[call'[b].cookie].owner].auth
      BY <2>1, <2>2, <3>1 DEF SessionInv, CallsAreAbout, EndedIsEnded, Behind
    <3> QED BY <3>2, <3>4, <3>5 DEF EndedIsEnded, Behind
  <2>10. EndsFollowUses'
    <3>1. \A r \in Sessions : session'[r] # None => session'[r].idle <= used'[r] + Idle
      BY <2>3, <2>4, <2>5, <2>6, LivesAreNumbers DEF SessionInv, EndsFollowUses
    <3>2. \A b \in Calls : call'[b].step \in {"user", "write"} =>
             call'[b] = call[b] /\ call[b].cookie \in Sessions /\ call[b].cookie # s
      BY <2>1, <2>2 DEF SessionInv, CallsAreAbout
    <3> QED BY <2>5, <3>1, <3>2 DEF SessionInv, EndsFollowUses
  <2> QED BY <2>7, <2>8, <2>9, <2>10 DEF SessionInv
<1> QED BY <1>2, <1>3, <1>4 DEF Login

(* The clock, and what an operator does to an account.                     *)
LEMMA OutsideKeeps ==
  ASSUME SessionInv, Tick \/ (\E u \in Users : SetDisabled(u) \/ BumpAuth(u))
  PROVE  SessionInv'
<1>1. TypeOK /\ UNCHANGED <<session, bucket, cookie, tab, call, used, sent>>
  BY DEF SessionInv, Tick, SetDisabled, BumpAuth
<1>2. CASE Tick
  <2>1. TypeOK'
    BY <1>1, <1>2, LivesAreNumbers DEF TypeOK, Tick
  <2> QED BY <1>2, <2>1 DEF Tick, SessionInv, CallsAreAbout, EndedIsEnded, Behind, EndsFollowUses
<1>3. ASSUME NEW u \in Users, SetDisabled(u)
      PROVE  SessionInv'
  <2>1. user' \in [Users -> Account] /\ \A x \in Users : user'[x].auth = user[x].auth
    BY <1>1, <1>3 DEF TypeOK, Account, SetDisabled
  <2>2. TypeOK'
    BY <1>1, <1>3, <2>1 DEF TypeOK, Account, SetDisabled
  <2>3. CallsAreAbout'
    BY <1>1, <2>1 DEF SessionInv, CallsAreAbout
  <2>4. \A s \in Sessions : session[s] # None => session[s].owner \in Users
    BY <1>1 DEF TypeOK, Row
  <2>5. EndedIsEnded'
    <3>1. ended' = ended /\ ended \subseteq Sessions
      BY <1>1, <1>3 DEF SetDisabled, TypeOK
    <3>2. \A s \in Sessions : session[s] # None => (Behind(s) <=> Behind(s)')
      BY <1>1, <2>1, <2>4 DEF Behind
    <3>3. \A s \in Sessions : session'[s] # None => session'[s].auth <= user'[session'[s].owner].auth
      BY <1>1, <2>1, <2>4 DEF SessionInv, EndedIsEnded
    <3>4. \A s \in ended' : session'[s] # None /\ (session'[s].revoked \/ Behind(s)')
      BY <1>1, <3>1, <3>2 DEF SessionInv, EndedIsEnded
    <3>5. \A c \in Calls : call[c].step \in {"user", "write"} =>
             call[c].cookie \in Sessions /\ session[call[c].cookie] # None
      BY DEF SessionInv, CallsAreAbout
    <3>6. \A c \in Calls : call[c].step \in {"user", "write"} /\ call[c].late =>
             /\ call[c].step = "user"
             /\ session'[call[c].cookie].auth < user'[session'[call[c].cookie].owner].auth
      BY <3>2, <3>5 DEF SessionInv, EndedIsEnded, Behind
    <3> QED BY <1>1, <3>3, <3>4, <3>6 DEF EndedIsEnded, Behind
  <2> QED BY <1>1, <2>2, <2>3, <2>5 DEF SessionInv, EndsFollowUses
<1>4. ASSUME NEW u \in Users, BumpAuth(u)
      PROVE  SessionInv'
  <2>1. /\ user' \in [Users -> Account]
        /\ \A x \in Users : user[x].auth \in Nat
                /\ user'[x].auth = IF x = u THEN user[x].auth + 1 ELSE user[x].auth
    BY <1>1, <1>4 DEF TypeOK, Account, BumpAuth
  <2>2. ended' = ended \cup {s \in Sessions : session[s] # None /\ session[s].owner = u}
    BY <1>4 DEF BumpAuth
  <2>3. TypeOK'
    BY <1>1, <1>4, <2>1, <2>2 DEF TypeOK, Account, BumpAuth
  <2>4. \A s \in Sessions : session[s] # None => session[s].owner \in Users /\ session[s].auth \in Nat
    BY <1>1 DEF TypeOK, Row
  <2>5. \A x \in Users : user'[x].auth \in Nat /\ user[x].auth <= user'[x].auth
    BY <2>1
  <2>6. CallsAreAbout'
    <3>1. \A c \in Calls : call[c].auth \in Nat
      BY <1>1, CallsAreTyped DEF Call
    <3>2. \A c \in Calls : call[c].step = "verify" => call[c].auth <= user'[call[c].account].auth
      BY <2>1, <2>5, <3>1 DEF SessionInv, CallsAreAbout
    <3> QED BY <1>1, <3>2 DEF SessionInv, CallsAreAbout
  <2>7. EndedIsEnded'
    <3>1. \A s \in Sessions : session[s] # None => session[s].auth <= user'[session[s].owner].auth
      BY <2>1, <2>4, <2>5 DEF SessionInv, EndedIsEnded
    <3>2. \A s \in Sessions : session[s] # None /\ Behind(s) => session[s].auth < user'[session[s].owner].auth
      BY <2>1, <2>4, <2>5 DEF Behind
    <3>3. \A s \in Sessions : session[s] # None /\ session[s].owner = u =>
             session[s].auth < user'[session[s].owner].auth
      BY <2>1, <2>4, <2>5 DEF SessionInv, EndedIsEnded
    <3>4. \A s \in ended' : session[s] # None
             /\ (session[s].revoked \/ session[s].auth < user'[session[s].owner].auth)
      BY <1>1, <2>2, <3>2, <3>3 DEF SessionInv, EndedIsEnded, TypeOK
    <3>5. \A c \in Calls : call[c].step \in {"user", "write"} /\ call[c].late =>
            /\ call[c].step = "user"
            /\ session[call[c].cookie].auth < user'[session[call[c].cookie].owner].auth
      BY <3>2 DEF SessionInv, CallsAreAbout, EndedIsEnded
    <3> QED BY <1>1, <3>1, <3>4, <3>5 DEF EndedIsEnded, Behind
  <2> QED BY <1>1, <2>3, <2>6, <2>7 DEF SessionInv, EndsFollowUses
<1> QED BY <1>2, <1>3, <1>4

LEMMA InitHolds == Init => SessionInv
<1> SUFFICES ASSUME Init PROVE SessionInv
  OBVIOUS
<1>1. call \in [Calls -> Call] /\ \A c \in Calls : call[c].step = "free" /\ call[c].answer = "none"
  BY NoCallIsTyped DEF Init
<1>2. \A s \in Sessions : session[s] = None
  BY DEF Init
<1>3. TypeOK
  <2>1. /\ now \in 0 .. MaxNow /\ cookie \in Sessions \cup {0} /\ sent \in 0 .. MaxRequests
        /\ used \in [Sessions -> Nat] /\ ended \subseteq Sessions
    BY LivesAreNumbers DEF Init
  <2>2. user \in [Users -> Account] /\ bucket \in [Keys -> [count : Nat, resetAt : Nat]]
    BY DEF Init, Account, NoBucket
  <2>3. tab \in TabRows
    BY DEF Init, Fresh, TabRows
  <2>4. session \in [Sessions -> Row \cup {None}]
    BY DEF Init
  <2> QED BY <1>1, <1>2, <2>1, <2>2, <2>3, <2>4 DEF TypeOK, Call, Account, TabRows
<1>4. CallsAreAbout /\ EndedIsEnded /\ EndsFollowUses
  BY <1>1, <1>2 DEF Init, CallsAreAbout, EndedIsEnded, EndsFollowUses
<1> QED BY <1>3, <1>4 DEF SessionInv

LEMMA StepKeeps == SessionInv /\ [Next]_vars => SessionInv'
<1> SUFFICES ASSUME SessionInv, [Next]_vars PROVE SessionInv'
  OBVIOUS
<1>1. CASE UNCHANGED vars
  BY <1>1 DEF vars, SessionInv, TypeOK, CallsAreAbout, EndedIsEnded, Behind, EndsFollowUses
<1>2. CASE \E c \in Calls : Progress(c)
  BY <1>2, ResolveKeeps, RevokeKeeps, LoginKeeps, DeliverKeeps DEF Progress
<1>3. CASE \E c \in Calls, t \in Tabs : TabStep(c, t)
  BY <1>3, TabStepKeeps
<1>4. CASE Tick \/ (\E u \in Users : SetDisabled(u) \/ BumpAuth(u))
  BY <1>4, OutsideKeeps
<1> QED BY <1>1, <1>2, <1>3, <1>4 DEF Next

(* Rows, requests and tabs have their types, and no idle end is later than *)
(* its absolute end: `Extended` never extends past it.                     *)
THEOREM TypeCorrect == Spec => []TypeOK
<1>1. SessionInv => TypeOK
  BY DEF SessionInv
<1> QED BY InitHolds, StepKeeps, <1>1, PTL DEF Spec

-----------------------------------------------------------------------------
(* Only the statements of its own request move a request that is at work.  *)
LEMMA OnlyResolveMoves ==
  ASSUME SessionInv, Next, NEW c \in Calls, call[c].step \in {"user", "write", "revoke"}
  PROVE  \/ ReadUser(c)
         \/ WriteSeen(c)
         \/ Revoke(c)
         \/ call'[c].step = call[c].step /\ call'[c].answer = "none"
<1>1. call \in [Calls -> Call] /\ call[c].answer = "none"
  BY CallsAreTyped DEF SessionInv, CallsAreAbout
<1>2. ASSUME NEW b \in Calls, NEW t \in Tabs, Reload(b, t)
      PROVE  call'[c].step = call[c].step /\ call'[c].answer = "none"
  <2>1. b # c
    BY <1>2 DEF Reload, Sending
  <2>2. call'[c] = IF call[c].tab = t THEN [call[c] EXCEPT !.tab = None] ELSE call[c]
    BY <1>2, <2>1 DEF Reload
  <2> QED BY <1>1, <2>2 DEF Call
<1>3. ASSUME NEW b \in Calls, b # c, NEW row, call' = [call EXCEPT ![b] = row]
      PROVE  call'[c] = call[c]
  BY <1>1, <1>3
<1>4. ASSUME NEW b \in Calls, NEW t \in Tabs, TabStep(b, t)
      PROVE  call'[c].step = call[c].step /\ call'[c].answer = "none"
  <2>1. CASE Reload(b, t)
    BY <1>2, <2>1
  <2>2. CASE SubmitLogin(b, t) \/ SubmitLogout(b, t) \/ Act(b, t)
    <3>1. b # c
      BY <2>2 DEF SubmitLogin, SubmitLogout, Act, Send, Sending
    <3> QED BY <1>1, <1>3, <2>2, <3>1 DEF SubmitLogin, SubmitLogout, Act, Send
  <2> QED BY <1>4, <2>1, <2>2 DEF TabStep
<1>5. ASSUME NEW b \in Calls, Progress(b), b # c
      PROVE  call'[c] = call[c]
  <2>1. CASE Deliver(b) \/ Lose(b)
    BY <1>3, <1>5, <2>1 DEF Deliver, Lose, Heard
  <2>2. ASSUME NEW answer, NEW got, Answer(b, answer, got)
        PROVE  call'[c] = call[c]
    BY <1>1, <1>5, <2>2 DEF Answer
  <2>3. ASSUME NEW rows, Admit(b, rows), call[b].kind # "login"
        PROVE  call'[c] = call[c]
    BY <1>1, <1>5, <2>3, AdmitShape, AnswerShape, RevokingShape
  <2>k. call[b].step \in {"user", "write"} => call[b].kind # "login"
    BY DEF SessionInv, CallsAreAbout
  <2>4. CASE ReadSession(b)
    BY <1>1, <1>5, <2>2, <2>4 DEF ReadSession
  <2>5. CASE ReadUser(b)
    BY <1>1, <1>5, <2>2, <2>3, <2>k, <2>5 DEF ReadUser
  <2>6. CASE WriteSeen(b)
    BY <2>3, <2>k, <2>6 DEF WriteSeen
  <2>7. CASE BeginLogin(b)
    BY <1>1, <1>5, <2>2, <2>7 DEF BeginLogin
  <2>8. CASE Revoke(b) \/ FailLogin(b) \/ \E s \in Sessions : OpenSession(b, s)
    BY <2>2, <2>8 DEF Revoke, FailLogin, OpenSession
  <2> QED BY <1>5, <2>1, <2>4, <2>5, <2>6, <2>7, <2>8 DEF Progress, Resolve, Login
<1>6. ASSUME Progress(c)
      PROVE  ReadUser(c) \/ WriteSeen(c) \/ Revoke(c)
  BY <1>6 DEF Progress, Resolve, Login, Deliver, Lose, ReadSession, BeginLogin, FailLogin, OpenSession
<1>7. CASE Tick \/ (\E u \in Users : SetDisabled(u) \/ BumpAuth(u))
  BY <1>1, <1>7 DEF Tick, SetDisabled, BumpAuth
<1> QED BY <1>1, <1>4, <1>5, <1>6, <1>7 DEF Next

(* A session that has ended lets nobody in again: a request that begins    *)
(* after the end does not pass resolve, whatever is written meanwhile.     *)
THEOREM EndedStayOut == Spec => EndedStaysOut
<1>1. ASSUME SessionInv, [Next]_vars, NEW c \in Calls, LetIn(c)
      PROVE  ~call[c].late
  <2> SUFFICES ASSUME call[c].late PROVE FALSE
    OBVIOUS
  <2>1. call[c].step = "user" /\ Behind(call[c].cookie) /\ call[c].answer = "none"
        /\ call[c].cookie \in Sessions /\ session[call[c].cookie] # None
    BY <1>1 DEF SessionInv, CallsAreAbout, EndedIsEnded, LetIn
  <2>2. ~MayUse(call[c].cookie)
    <3>1. session[call[c].cookie].owner \in Users
      BY <1>1, <2>1 DEF SessionInv, TypeOK, Row
    <3>2. user[session[call[c].cookie].owner].auth \in Nat
      BY <1>1, <3>1 DEF SessionInv, TypeOK
    <3> QED BY <2>1, <3>2 DEF Behind, MayUse
  <2>3. CASE UNCHANGED vars
    BY <1>1, <2>1, <2>3 DEF LetIn, vars
  <2>4. CASE ReadUser(c)
    <3>1. Answer(c, "unauthenticated", 0)
      BY <2>2, <2>4 DEF ReadUser
    <3> QED BY <1>1, <2>1, <3>1, AnswerShape, CallsAreTyped DEF LetIn, SessionInv, Answers
  <2>5. CASE Next /\ ~ReadUser(c)
    BY <1>1, <2>1, <2>5, OnlyResolveMoves DEF LetIn, WriteSeen, Revoke
  <2> QED BY <1>1, <2>3, <2>4, <2>5
<1>2. SessionInv /\ [Next]_vars => [\A c \in Calls : LetIn(c) => ~call[c].late]_vars
  BY <1>1
<1> QED BY InitHolds, StepKeeps, <1>2, PTL DEF Spec, EndedStaysOut

(* resolve lets in only within the idle time of an earlier use and before  *)
(* the absolute end, in whatever order uses are written.                   *)
THEOREM LetInOnlyWhileLive == Spec => LetInWhileLive
<1>1. SessionInv /\ [Next]_vars =>
        [\A c \in Calls : LetIn(c) =>
            LET s == call[c].cookie IN
            call[c].began < used[s] + Idle /\ call[c].began < session[s].absolute]_vars
  BY DEF SessionInv, EndsFollowUses, LetIn
<1> QED BY InitHolds, StepKeeps, <1>1, PTL DEF Spec, LetInWhileLive

(* The token of a request that must have one is that of the session its    *)
(* tab showed, and only a sign-out whose token is that of its cookie gets  *)
(* to revoke a session.                                                    *)
TokensFit ==
    \A c \in Calls :
        /\ call[c].kind \in Unsafe => call[c].csrf = call[c].shows
        /\ call[c].step = "revoke" => call[c].kind = "logout" /\ CsrfMatches(c)

SameToken(b) ==
    /\ call'[b].kind = call[b].kind /\ call'[b].csrf = call[b].csrf
    /\ call'[b].shows = call[b].shows /\ call'[b].cookie = call[b].cookie
    /\ call'[b].step = "revoke" => call[b].step = "revoke" \/ Revoking(b)

FreshToken(b) ==
    /\ call'[b].kind \in Unsafe => call'[b].csrf = call'[b].shows
    /\ call'[b].step # "revoke"

LEMMA TokensStay ==
  ASSUME TokensFit, \A b \in Calls : SameToken(b) \/ FreshToken(b)
  PROVE  TokensFit'
BY DEF TokensFit, SameToken, FreshToken, Revoking, CsrfMatches

LEMMA AnswersHaveNoToken ==
  ASSUME call \in [Calls -> Call], NEW c \in Calls, NEW answer, NEW got, Answer(c, answer, got)
  PROVE  \A b \in Calls : SameToken(b) \/ FreshToken(b)
BY DEF Answer, NoCall, SameToken, FreshToken

LEMMA StepKeepsTokens == SessionInv /\ TokensFit /\ [Next]_vars => TokensFit'
<1> SUFFICES ASSUME SessionInv, TokensFit, [Next]_vars PROVE TokensFit'
  OBVIOUS
<1>1. call \in [Calls -> Call]
  BY CallsAreTyped DEF SessionInv
<1>2. CASE call' = call
  BY <1>2, TokensStay DEF SameToken
<1>3. ASSUME NEW b \in Calls, \E answer, got : Answer(b, answer, got)
      PROVE  TokensFit'
  BY <1>1, <1>3, AnswersHaveNoToken, TokensStay
<1>4. ASSUME NEW b \in Calls, NEW row, call' = [call EXCEPT ![b] = row], row.step # "revoke",
             row.kind = call[b].kind, row.csrf = call[b].csrf, row.shows = call[b].shows,
             row.cookie = call[b].cookie
      PROVE  TokensFit'
  BY <1>1, <1>4, TokensStay DEF SameToken
<1>5. ASSUME NEW b \in Calls, NEW rows, Admit(b, rows), call[b].step \in {"user", "write"}
      PROVE  TokensFit'
  <2>1. call[b].kind # "login"
    BY <1>5 DEF SessionInv, CallsAreAbout
  <2>2. CASE Revoking(b)
    <3>1. \A e \in Calls : SameToken(e)
      BY <1>1, <2>2, RevokingShape DEF SameToken
    <3> QED BY <3>1, TokensStay
  <2>3. CASE ~Revoking(b)
    BY <1>1, <1>3, <1>5, <2>1, <2>3, AdmitShape
  <2> QED BY <2>2, <2>3
<1>6. ASSUME NEW b \in Calls, Resolve(b)
      PROVE  TokensFit'
  <2>1. CASE ReadSession(b)
    <3> DEFINE s == call[b].cookie
               row == [call[b] EXCEPT !.step = "user", !.began = now,
                                      !.seen = session[s].seen, !.late = s \in ended]
    <3>1. CASE s # 0 /\ LiveAt(s, now)
      <4>1. call' = [call EXCEPT ![b] = row]
        BY <2>1, <3>1 DEF ReadSession
      <4>2. /\ row.step # "revoke" /\ row.kind = call[b].kind /\ row.csrf = call[b].csrf
            /\ row.shows = call[b].shows /\ row.cookie = call[b].cookie
        BY <1>1 DEF Call
      <4> HIDE DEF row
      <4> QED BY <1>4, <4>1, <4>2
    <3>2. CASE ~(s # 0 /\ LiveAt(s, now))
      BY <1>3, <2>1, <3>2 DEF ReadSession
    <3> QED BY <3>1, <3>2
  <2>2. CASE ReadUser(b)
    <3> DEFINE row == [call[b] EXCEPT !.step = "write", !.seen = 0]
    <3>1. CASE call' = [call EXCEPT ![b] = row]
      <4>1. /\ row.step # "revoke" /\ row.kind = call[b].kind /\ row.csrf = call[b].csrf
            /\ row.shows = call[b].shows /\ row.cookie = call[b].cookie
        BY <1>1 DEF Call
      <4> HIDE DEF row
      <4> QED BY <1>4, <3>1, <4>1
    <3> QED BY <1>3, <1>5, <2>2, <3>1 DEF ReadUser
  <2>3. CASE WriteSeen(b)
    BY <1>5, <2>3 DEF WriteSeen
  <2> QED BY <1>6, <2>1, <2>2, <2>3 DEF Resolve
<1>7. ASSUME NEW b \in Calls, Login(b)
      PROVE  TokensFit'
  <2>1. CASE BeginLogin(b) /\ ~BlockedFor(call[b].account, now)
    <3> DEFINE u == call[b].account
               right == call[b].right /\ ~user[u].disabled
               row == [call[b] EXCEPT !.step = "verify", !.began = now,
                                      !.right = right, !.auth = user[u].auth]
    <3>1. call' = [call EXCEPT ![b] = row]
      BY <2>1 DEF BeginLogin
    <3> HIDE DEF right
    <3>2. /\ row.step # "revoke" /\ row.kind = call[b].kind /\ row.csrf = call[b].csrf
          /\ row.shows = call[b].shows /\ row.cookie = call[b].cookie
      BY <1>1 DEF Call
    <3> HIDE DEF row
    <3> QED BY <1>4, <3>1, <3>2
  <2> QED BY <1>3, <1>7, <2>1 DEF Login, BeginLogin, FailLogin, OpenSession
<1>8. ASSUME NEW b \in Calls, Revoke(b)
      PROVE  TokensFit'
  BY <1>3, <1>8 DEF Revoke
<1>9. ASSUME NEW b \in Calls, Deliver(b) \/ Lose(b)
      PROVE  TokensFit'
  <2>1. call' = [call EXCEPT ![b] = NoCall]
    BY <1>9 DEF Deliver, Lose, Heard
  <2>2. \A e \in Calls : SameToken(e) \/ FreshToken(e)
    BY <1>1, <2>1 DEF NoCall, SameToken, FreshToken
  <2> QED BY <2>2, TokensStay
<1>10. ASSUME NEW b \in Calls, NEW t \in Tabs, TabStep(b, t)
       PROVE  TokensFit'
  <2>1. CASE Reload(b, t)
    <3>1. ASSUME NEW e \in Calls
          PROVE  SameToken(e) \/ FreshToken(e)
      <4>1. CASE e = b
        BY <2>1, <4>1 DEF Reload, NoCall, FreshToken, Unsafe
      <4>2. CASE e # b
        <5>1. call'[e] = IF call[e].tab = t THEN [call[e] EXCEPT !.tab = None] ELSE call[e]
          BY <2>1, <4>2 DEF Reload
        <5> QED BY <1>1, <5>1 DEF SameToken, Call
      <4> QED BY <4>1, <4>2
    <3> QED BY <3>1, TokensStay
  <2>2. ASSUME NEW kind, NEW account, NEW right, Send(b, t, kind, account, right)
        PROVE  TokensFit'
    <3> DEFINE row == [NoCall EXCEPT
               !.step = "sent", !.tab = t, !.kind = kind, !.cookie = cookie,
               !.csrf = IF kind \in Unsafe THEN Token(t) ELSE 0,
               !.account = account, !.right = right, !.shows = tab[t].session]
    <3>1. call' = [call EXCEPT ![b] = row]
      BY <2>2 DEF Send
    <3>2. row.step # "revoke" /\ (row.kind \in Unsafe => row.csrf = row.shows)
      BY DEF NoCall, Token
    <3> HIDE DEF row
    <3>3. \A e \in Calls : SameToken(e) \/ FreshToken(e)
      BY <1>1, <3>1, <3>2 DEF SameToken, FreshToken
    <3> QED BY <3>3, TokensStay
  <2> QED BY <1>10, <2>1, <2>2 DEF TabStep, SubmitLogin, SubmitLogout, Act
<1>11. CASE Tick \/ (\E u \in Users : SetDisabled(u) \/ BumpAuth(u)) \/ UNCHANGED vars
  BY <1>2, <1>11 DEF Tick, SetDisabled, BumpAuth, vars
<1> QED BY <1>6, <1>7, <1>8, <1>9, <1>10, <1>11 DEF Next, Progress

(* No statement but that of a sign-out revokes a session: a use that is    *)
(* written leaves the revocation as it is, and a new session has none.     *)
LEMMA OnlyRevokeRevokes ==
  ASSUME SessionInv, [Next]_vars, NEW s \in Sessions,
         session[s] # None, session'[s].revoked, ~session[s].revoked
  PROVE  \E c \in Calls : Revoke(c) /\ call[c].cookie = s
<1>1. session \in [Sessions -> Row \cup {None}] /\ session[s] \in Row
  BY DEF SessionInv, TypeOK
<1>2. session'[s] # session[s]
  OBVIOUS
<1>3. ASSUME NEW c \in Calls, Progress(c)
      PROVE  Revoke(c) /\ call[c].cookie = s
  <2>1. CASE Revoke(c)
    <3>1. session' = [session EXCEPT ![call[c].cookie].revoked = TRUE]
      BY <2>1 DEF Revoke
    <3> QED BY <1>1, <1>2, <2>1, <3>1
  <2>2. CASE Deliver(c) \/ Lose(c) \/ ReadSession(c) \/ BeginLogin(c) \/ FailLogin(c)
    BY <1>2, <2>2 DEF Deliver, Lose, ReadSession, BeginLogin, FailLogin, Server
  <2>3. CASE ReadUser(c)
    BY <1>2, <2>3 DEF ReadUser, Admit
  <2>4. CASE WriteSeen(c)
    <3>1. session' = [session EXCEPT ![call[c].cookie] = Extended(@, call[c].began)]
      BY <2>4 DEF WriteSeen, Admit
    <3>2. session'[s] = Extended(session[s], call[c].began)
      BY <1>1, <1>2, <3>1
    <3>3. Extended(session[s], call[c].began).revoked = session[s].revoked
      BY <1>1 DEF Extended, Row
    <3> QED BY <3>2, <3>3
  <2>5. ASSUME NEW r \in Sessions, OpenSession(c, r)
        PROVE  FALSE
    BY <1>1, <1>2, <2>5 DEF OpenSession
  <2> QED BY <1>3, <2>1, <2>2, <2>3, <2>4, <2>5 DEF Progress, Resolve, Login
<1>4. CASE \E c \in Calls, t \in Tabs : TabStep(c, t)
  BY <1>2, <1>4 DEF TabStep, Reload, SubmitLogin, SubmitLogout, Act, Server
<1>5. CASE Tick \/ (\E u \in Users : SetDisabled(u) \/ BumpAuth(u)) \/ UNCHANGED vars
  BY <1>2, <1>5 DEF Tick, SetDisabled, BumpAuth, vars
<1> QED BY <1>3, <1>4, <1>5 DEF Next

(* What an administrator does is done under the session their tab showed   *)
(* when they did it, whichever session the one cookie of the browser names *)
(* by then, and no session is revoked but by signing out of it.            *)
THEOREM ActorIsShown == Spec => ActsForWhomItShows
<1>1. ASSUME SessionInv, TokensFit, [Next]_vars, NEW c \in Calls, CarriedOut(c)
      PROVE  call[c].cookie = call[c].shows
  <2>1. /\ call[c].kind # "login" /\ call[c].answer = "none" /\ call \in [Calls -> Call]
        /\ call[c].step \in {"user", "write", "revoke"} /\ call[c].kind \in Unsafe
        /\ call'[c].answer = "ok" /\ call[c].csrf = call[c].shows
    BY <1>1, CallsAreTyped DEF SessionInv, CallsAreAbout, CarriedOut, TokensFit
  <2>2. ASSUME NEW rows, Admit(c, rows)
        PROVE  CsrfMatches(c)
    <3>1. ~Revoking(c)
      BY <2>1, RevokingShape
    <3> QED BY <2>1, <2>2, <3>1, AdmitShape, AnswerShape
  <2>3. CASE ReadUser(c)
    <3>1. \/ Answer(c, "unauthenticated", 0)
          \/ call' = [call EXCEPT ![c].step = "write", ![c].seen = 0]
          \/ Admit(c, session)
      BY <2>3 DEF ReadUser
    <3>2. ~Answer(c, "unauthenticated", 0)
      BY <2>1, AnswerShape DEF Answers
    <3>3. ~(call' = [call EXCEPT ![c].step = "write", ![c].seen = 0])
      BY <2>1 DEF Call
    <3> QED BY <2>1, <2>2, <3>1, <3>2, <3>3 DEF CsrfMatches
  <2>4. CASE WriteSeen(c)
    BY <2>1, <2>2, <2>4 DEF WriteSeen, CsrfMatches
  <2>5. CASE Revoke(c)
    BY <1>1, <2>1, <2>5 DEF Revoke, TokensFit, CsrfMatches
  <2>6. CASE UNCHANGED vars
    BY <2>1, <2>6 DEF vars
  <2>7. CASE Next /\ ~ReadUser(c) /\ ~WriteSeen(c) /\ ~Revoke(c)
    BY <1>1, <2>1, <2>7, OnlyResolveMoves
  <2> QED BY <1>1, <2>3, <2>4, <2>5, <2>6, <2>7
<1>2. ASSUME SessionInv, TokensFit, [Next]_vars, NEW s \in Sessions,
             session[s] # None, session'[s].revoked, ~session[s].revoked
      PROVE  \E c \in Calls : CarriedOut(c) /\ call[c].kind = "logout" /\ call[c].shows = s
  <2>1. PICK c \in Calls : Revoke(c) /\ call[c].cookie = s
    BY <1>2, OnlyRevokeRevokes
  <2>2. call[c].step = "revoke" /\ call[c].kind = "logout" /\ call[c].kind \in Unsafe
    BY <1>2, <2>1 DEF Revoke, TokensFit, Unsafe
  <2>3. call[c].shows = s
    BY <1>2, <2>1, <2>2 DEF TokensFit, CsrfMatches
  <2>4. call'[c].answer = "ok"
    BY <1>2, <2>1, CallsAreTyped, AnswerShape DEF Revoke, SessionInv, Answers
  <2> QED BY <2>2, <2>3, <2>4 DEF CarriedOut
<1>3. SessionInv /\ TokensFit /\ [Next]_vars =>
        [/\ \A c \in Calls : CarriedOut(c) => call[c].cookie = call[c].shows
         /\ \A s \in Sessions :
              session[s] # None /\ session'[s].revoked /\ ~session[s].revoked =>
                  \E c \in Calls : CarriedOut(c) /\ call[c].kind = "logout" /\ call[c].shows = s]_vars
  BY <1>1, <1>2
<1>4. Init => TokensFit
  BY NoCallIsTyped DEF Init, TokensFit, NoCall, Unsafe
<1> QED BY InitHolds, StepKeeps, StepKeepsTokens, <1>3, <1>4, PTL DEF Spec, ActsForWhomItShows

-----------------------------------------------------------------------------
(* The throttle.  Only a login that is not blocked begins to be verified,  *)
(* and one that fails is counted when it stops being verified: the count   *)
(* and the logins under verification grow together only below the limit.   *)

LEMMA FewerThanCalls ==
  ASSUME NEW S \in SUBSET Calls
  PROVE  /\ IsFiniteSet(S) /\ Cardinality(S) \in Nat /\ Cardinality(Calls) \in Nat
         /\ Cardinality(S) <= Cardinality(Calls)
         /\ \A T \in SUBSET S : Cardinality(T) \in Nat /\ Cardinality(T) <= Cardinality(S)
<1>1. IsFiniteSet(Calls)
  BY LivesAssumption
<1>2. IsFiniteSet(S) /\ Cardinality(S) <= Cardinality(Calls)
  BY <1>1, FS_Subset
<1>3. \A T \in SUBSET S : IsFiniteSet(T) /\ Cardinality(T) <= Cardinality(S)
  BY <1>2, FS_Subset
<1> QED BY <1>1, <1>2, <1>3, FS_CardinalityType

Verifies(b) == call[b].step = "verify"

NobodyNewVerifies ==
    \A b \in Calls : Verifies(b)' => Verifies(b) /\ call'[b].account = call[b].account

LEMMA BoundStays ==
  ASSUME SessionInv, SessionInv', GuessesBounded, NEW k \in Keys, now' >= now,
         bucket'[k] = bucket[k], VerifiedFor(k)' \subseteq VerifiedFor(k),
         bucket'[k].resetAt > now'
  PROVE  bucket'[k].count + Cardinality(VerifiedFor(k)') <= LimitOf(k) - 1 + Cardinality(Calls)
<1>1. bucket[k].count \in Nat /\ bucket[k].resetAt \in Nat /\ now \in Nat /\ now' \in Nat
      /\ LimitOf(k) \in Nat
  BY LivesAreNumbers, LivesAssumption DEF SessionInv, TypeOK, LimitOf
<1>2. bucket[k].count + Cardinality(VerifiedFor(k)) <= LimitOf(k) - 1 + Cardinality(Calls)
  BY <1>1 DEF GuessesBounded
<1>3. VerifiedFor(k) \in SUBSET Calls /\ VerifiedFor(k)' \in SUBSET VerifiedFor(k)
  BY DEF VerifiedFor
<1>4. /\ Cardinality(VerifiedFor(k)') <= Cardinality(VerifiedFor(k))
      /\ Cardinality(VerifiedFor(k)') \in Nat /\ Cardinality(VerifiedFor(k)) \in Nat
      /\ Cardinality(Calls) \in Nat
  BY <1>3, FewerThanCalls
<1> QED BY <1>1, <1>2, <1>4

LEMMA QuietThrottle ==
  ASSUME SessionInv, SessionInv', GuessesBounded, now' >= now, bucket' = bucket, NobodyNewVerifies
  PROVE  GuessesBounded'
<1>1. \A k \in Keys : VerifiedFor(k)' \subseteq VerifiedFor(k)
  BY DEF NobodyNewVerifies, Verifies, VerifiedFor
<1>2. \A k \in Keys : bucket'[k].resetAt > now' =>
         bucket'[k].count + Cardinality(VerifiedFor(k)') <= LimitOf(k) - 1 + Cardinality(Calls)
  BY <1>1, BoundStays
<1> QED BY <1>2 DEF GuessesBounded

(* A login begins to be verified below both limits, so that even with all  *)
(* requests under verification the bound holds.                            *)
LEMMA BeginKeepsBound ==
  ASSUME SessionInv, SessionInv', GuessesBounded, NEW c \in Calls, BeginLogin(c),
         ~BlockedFor(call[c].account, now)
  PROVE  GuessesBounded'
<1> DEFINE u == call[c].account
<1>1. /\ call[c].step = "sent" /\ call[c].kind = "login" /\ u \in Users
      /\ now' = now /\ bucket' = bucket /\ call \in [Calls -> Call]
  BY CallsAreTyped DEF BeginLogin, Server, SessionInv, CallsAreAbout
<1>2. \A b \in Calls : b # c => call'[b] = call[b]
  BY <1>1 DEF BeginLogin
<1>3. call'[c].account = u
  BY <1>1 DEF BeginLogin, Call
<1>4. ASSUME NEW k \in Keys, bucket'[k].resetAt > now'
      PROVE  bucket'[k].count + Cardinality(VerifiedFor(k)') <= LimitOf(k) - 1 + Cardinality(Calls)
  <2>1. CASE k \in {u, Ip}
    <3>1. bucket[k].count < LimitOf(k)
      <4>1. ~Remaining(k, now)
        BY <2>1 DEF BlockedFor
      <4>2. bucket[k].count \in Nat /\ LimitOf(k) \in Nat
        BY <1>4, LivesAssumption DEF SessionInv, TypeOK, LimitOf
      <4> QED BY <1>1, <1>4, <4>1, <4>2 DEF Remaining
    <3>2. VerifiedFor(k)' \in SUBSET Calls
      BY DEF VerifiedFor
    <3>3. Cardinality(VerifiedFor(k)') \in Nat /\ Cardinality(Calls) \in Nat
          /\ Cardinality(VerifiedFor(k)') <= Cardinality(Calls)
      BY <3>2, FewerThanCalls
    <3>4. bucket[k].count \in Nat /\ LimitOf(k) \in Nat
      BY <1>4, LivesAssumption DEF SessionInv, TypeOK, LimitOf
    <3> QED BY <1>1, <3>1, <3>3, <3>4
  <2>2. CASE k \notin {u, Ip}
    <3>1. VerifiedFor(k)' \subseteq VerifiedFor(k)
      BY <1>2, <1>3, <2>2 DEF VerifiedFor
    <3>2. now' >= now
      BY <1>1, LivesAreNumbers DEF SessionInv, TypeOK
    <3> QED BY <1>1, <1>4, <3>1, <3>2, BoundStays
  <2> QED BY <2>1, <2>2
<1> QED BY <1>4 DEF GuessesBounded

(* A failure moves from the logins under verification to the counts.       *)
LEMMA FailKeepsBound ==
  ASSUME SessionInv, SessionInv', GuessesBounded, NEW c \in Calls, FailLogin(c)
  PROVE  GuessesBounded'
<1> DEFINE u == call[c].account
           at == call[c].began
<1>1. /\ call[c].step = "verify" /\ u \in Users /\ at \in Nat /\ now' = now /\ now \in Nat
      /\ Answer(c, "unauthenticated", 0)
      /\ bucket \in [Keys -> [count : Nat, resetAt : Nat]] /\ call \in [Calls -> Call]
  BY CallsAreTyped, LivesAreNumbers DEF FailLogin, SessionInv, CallsAreAbout, TypeOK, Call
<1>2. call'[c].step = "answered" /\ \A b \in Calls : b # c => call'[b] = call[b]
  BY <1>1, AnswerShape DEF Answers
<1>3. \A k \in Keys : bucket'[k] = IF k \in {u, Ip} THEN Bump(bucket[k], at) ELSE bucket[k]
  BY <1>1, KeysAssumption DEF FailLogin, Keys
<1>4. ASSUME NEW k \in Keys, bucket'[k].resetAt > now'
      PROVE  bucket'[k].count + Cardinality(VerifiedFor(k)') <= LimitOf(k) - 1 + Cardinality(Calls)
  <2>1. VerifiedFor(k)' \subseteq VerifiedFor(k) /\ VerifiedFor(k) \in SUBSET Calls
    BY <1>2 DEF VerifiedFor
  <2>2. CASE k \in {u, Ip}
    <3>1. VerifiedFor(k)' \in SUBSET (VerifiedFor(k) \ {c}) /\ c \in VerifiedFor(k)
      BY <1>1, <1>2, <2>1, <2>2 DEF VerifiedFor
    <3>2. IsFiniteSet(VerifiedFor(k)) /\ Cardinality(VerifiedFor(k)) \in Nat
          /\ Cardinality(VerifiedFor(k)) <= Cardinality(Calls) /\ Cardinality(Calls) \in Nat
      BY <2>1, FewerThanCalls
    <3>3. Cardinality(VerifiedFor(k) \ {c}) = Cardinality(VerifiedFor(k)) - 1
      BY <3>1, <3>2, FS_RemoveElement
    <3>4. Cardinality(VerifiedFor(k)') \in Nat
          /\ Cardinality(VerifiedFor(k)') <= Cardinality(VerifiedFor(k)) - 1
      <4>1. (VerifiedFor(k) \ {c}) \in SUBSET Calls
        BY <2>1
      <4> QED BY <3>1, <3>3, <4>1, FewerThanCalls
    <3>5. LimitOf(k) \in Nat /\ LimitOf(k) >= 1 /\ bucket[k].count \in Nat /\ bucket[k].resetAt \in Nat
      BY <1>1, LivesAssumption DEF LimitOf
    <3>6. CASE bucket[k].resetAt <= at
      <4>1. bucket'[k] = Bump(bucket[k], at)
        BY <1>3, <2>2
      <4>2. Bump(bucket[k], at) = [count |-> 1, resetAt |-> at + Window]
        BY <3>6 DEF Bump
      <4>3. bucket'[k].count = 1
        BY <4>1, <4>2
      <4> QED BY <3>2, <3>4, <3>5, <4>3
    <3>7. CASE ~(bucket[k].resetAt <= at)
      <4>1. bucket'[k].count = bucket[k].count + 1 /\ bucket'[k].resetAt = bucket[k].resetAt
        BY <1>1, <1>3, <2>2, <3>7 DEF Bump
      <4>2. bucket[k].count + Cardinality(VerifiedFor(k)) <= LimitOf(k) - 1 + Cardinality(Calls)
        BY <1>1, <1>4, <4>1 DEF GuessesBounded
      <4> QED BY <3>2, <3>4, <3>5, <4>1, <4>2
    <3> QED BY <3>6, <3>7
  <2>3. CASE k \notin {u, Ip}
    BY <1>1, <1>3, <1>4, <2>1, <2>3, BoundStays
  <2> QED BY <2>2, <2>3
<1> QED BY <1>4 DEF GuessesBounded

(* A session that is opened clears the account's count.                    *)
LEMMA OpenKeepsBound ==
  ASSUME SessionInv, SessionInv', GuessesBounded, NEW c \in Calls, NEW s \in Sessions, OpenSession(c, s)
  PROVE  GuessesBounded'
<1> DEFINE u == call[c].account
<1>1. /\ now' = now /\ now \in Nat /\ Answer(c, "ok", s) /\ u \in Users
      /\ bucket \in [Keys -> [count : Nat, resetAt : Nat]] /\ call \in [Calls -> Call]
      /\ bucket' = [bucket EXCEPT ![u] = NoBucket]
  BY CallsAreTyped, LivesAreNumbers DEF OpenSession, SessionInv, CallsAreAbout, TypeOK
<1>2. call'[c].step = "answered" /\ \A b \in Calls : b # c => call'[b] = call[b]
  BY <1>1, AnswerShape DEF Answers
<1>3. ASSUME NEW k \in Keys, bucket'[k].resetAt > now'
      PROVE  bucket'[k].count + Cardinality(VerifiedFor(k)') <= LimitOf(k) - 1 + Cardinality(Calls)
  <2>1. VerifiedFor(k)' \subseteq VerifiedFor(k)
    BY <1>2 DEF VerifiedFor
  <2>2. k # u
    BY <1>1, <1>3 DEF NoBucket
  <2>3. bucket'[k] = bucket[k]
    BY <1>1, <2>2
  <2> QED BY <1>1, <1>3, <2>1, <2>3, BoundStays
<1> QED BY <1>3 DEF GuessesBounded

LEMMA AnswersVerifyNothing ==
  ASSUME call \in [Calls -> Call], NEW c \in Calls, NEW answer, NEW got, Answer(c, answer, got)
  PROVE  NobodyNewVerifies
BY DEF Answer, NoCall, NobodyNewVerifies, Verifies

LEMMA TabsVerifyNothing ==
  ASSUME SessionInv, NEW c \in Calls, NEW t \in Tabs, TabStep(c, t)
  PROVE  NobodyNewVerifies /\ now' = now /\ bucket' = bucket
<1>1. call \in [Calls -> Call]
  BY CallsAreTyped DEF SessionInv
<1>2. CASE Reload(c, t)
  <2>1. ASSUME NEW b \in Calls, Verifies(b)'
        PROVE  Verifies(b) /\ call'[b].account = call[b].account
    <3>1. b # c
      BY <1>2, <2>1 DEF Reload, Verifies, NoCall
    <3>2. call'[b] = IF call[b].tab = t THEN [call[b] EXCEPT !.tab = None] ELSE call[b]
      BY <1>2, <3>1 DEF Reload
    <3> QED BY <1>1, <2>1, <3>2 DEF Verifies, Call
  <2> QED BY <1>2, <2>1 DEF Reload, Server, NobodyNewVerifies
<1>3. CASE SubmitLogin(c, t) \/ SubmitLogout(c, t) \/ Act(c, t)
  <2>1. PICK kind \in Kinds, account \in Users \cup {None}, right \in BOOLEAN :
           (kind = "login" => account \in Users) /\ Send(c, t, kind, account, right)
    BY <1>3 DEF SubmitLogin, SubmitLogout, Act, Kinds
  <2>2. NobodyNewVerifies
    BY <2>1, SendShape DEF NobodyNewVerifies, Verifies, SameWork
  <2> QED BY <1>3, <2>2 DEF SubmitLogin, SubmitLogout, Act, Server
<1> QED BY <1>2, <1>3 DEF TabStep

LEMMA ResolveVerifiesNothing ==
  ASSUME SessionInv, NEW c \in Calls, Deliver(c) \/ Lose(c) \/ Resolve(c) \/ Revoke(c)
  PROVE  NobodyNewVerifies /\ now' = now /\ bucket' = bucket
<1>1. call \in [Calls -> Call]
  BY CallsAreTyped DEF SessionInv
<1>2. now' = now /\ bucket' = bucket
  BY DEF Deliver, Lose, Resolve, ReadSession, ReadUser, WriteSeen, Revoke, Server
<1>3. CASE Deliver(c) \/ Lose(c)
  <2>1. NobodyNewVerifies
    BY <1>1, <1>3 DEF Deliver, Lose, Heard, NoCall, NobodyNewVerifies, Verifies
  <2> QED BY <1>2, <2>1
<1>4. ASSUME NEW rows, Admit(c, rows), call[c].step \in {"user", "write"}
      PROVE  NobodyNewVerifies
  <2>1. call[c].kind # "login"
    BY <1>4 DEF SessionInv, CallsAreAbout
  <2>2. CASE Revoking(c)
    BY <1>1, <2>2, RevokingShape DEF NobodyNewVerifies, Verifies
  <2>3. CASE ~Revoking(c)
    BY <1>1, <1>4, <2>1, <2>3, AdmitShape, AnswersVerifyNothing
  <2> QED BY <2>2, <2>3
<1>5. ASSUME ReadSession(c)
      PROVE  NobodyNewVerifies
  <2> DEFINE s == call[c].cookie
  <2>1. CASE s # 0 /\ LiveAt(s, now)
    <3> DEFINE row == [call[c] EXCEPT !.step = "user", !.began = now,
                                      !.seen = session[s].seen, !.late = s \in ended]
    <3>1. call' = [call EXCEPT ![c] = row]
      BY <1>5, <2>1 DEF ReadSession
    <3>2. row.step = "user"
      BY <1>1 DEF Call
    <3> HIDE DEF row
    <3> QED BY <1>1, <3>1, <3>2 DEF NobodyNewVerifies, Verifies
  <2>2. CASE ~(s # 0 /\ LiveAt(s, now))
    BY <1>1, <1>5, <2>2, AnswersVerifyNothing DEF ReadSession
  <2> QED BY <2>1, <2>2
<1>6. ASSUME ReadUser(c)
      PROVE  NobodyNewVerifies
  <2>1. CASE call' = [call EXCEPT ![c].step = "write", ![c].seen = 0]
    BY <1>1, <2>1 DEF NobodyNewVerifies, Verifies, Call
  <2> QED BY <1>1, <1>4, <1>6, <2>1, AnswersVerifyNothing DEF ReadUser
<1>7. ASSUME WriteSeen(c)
      PROVE  NobodyNewVerifies
  BY <1>4, <1>7 DEF WriteSeen
<1>8. ASSUME Revoke(c)
      PROVE  NobodyNewVerifies
  BY <1>1, <1>8, AnswersVerifyNothing DEF Revoke
<1> QED BY <1>2, <1>3, <1>5, <1>6, <1>7, <1>8 DEF Resolve

(* Failed logins exceed their limit by no more than the requests that were *)
(* being verified at the same time, whatever their order.                  *)
THEOREM ThrottleHolds == Spec => []GuessesBounded
<1>1. Init => GuessesBounded
  BY LivesAssumption DEF Init, GuessesBounded, NoBucket
<1>2. ASSUME SessionInv, SessionInv', GuessesBounded, [Next]_vars
      PROVE  GuessesBounded'
  <2>1. now \in Nat /\ call \in [Calls -> Call]
    BY <1>2, CallsAreTyped, LivesAreNumbers DEF SessionInv, TypeOK
  <2>2. CASE UNCHANGED vars
    <3>1. now' >= now /\ bucket' = bucket /\ call' = call
      BY <2>1, <2>2 DEF vars
    <3> QED BY <1>2, <3>1, QuietThrottle DEF NobodyNewVerifies, Verifies
  <2>3. CASE Tick \/ \E u \in Users : SetDisabled(u) \/ BumpAuth(u)
    <3>1. now' >= now /\ bucket' = bucket /\ call' = call
      <4>1. CASE Tick
        BY <2>1, <4>1 DEF Tick
      <4>2. CASE \E u \in Users : SetDisabled(u) \/ BumpAuth(u)
        <5>1. now' = now /\ bucket' = bucket /\ call' = call
          BY <4>2 DEF SetDisabled, BumpAuth
        <5> QED BY <2>1, <5>1
      <4> QED BY <2>3, <4>1, <4>2
    <3> QED BY <1>2, <3>1, QuietThrottle DEF NobodyNewVerifies, Verifies
  <2>4. ASSUME NEW c \in Calls, NEW t \in Tabs, TabStep(c, t)
        PROVE  GuessesBounded'
    BY <1>2, <2>1, <2>4, TabsVerifyNothing, QuietThrottle
  <2>5. ASSUME NEW c \in Calls, Login(c)
        PROVE  GuessesBounded'
    <3>1. CASE BeginLogin(c) /\ BlockedFor(call[c].account, now)
      <4>1. Answer(c, "limited", 0) /\ now' = now /\ bucket' = bucket
        BY <3>1 DEF BeginLogin, Server
      <4>2. NobodyNewVerifies
        BY <2>1, <4>1, AnswersVerifyNothing
      <4> QED BY <1>2, <2>1, <4>1, <4>2, QuietThrottle
    <3> QED BY <1>2, <2>5, <3>1, BeginKeepsBound, FailKeepsBound, OpenKeepsBound DEF Login
  <2>6. ASSUME NEW c \in Calls, Deliver(c) \/ Lose(c) \/ Resolve(c) \/ Revoke(c)
        PROVE  GuessesBounded'
    BY <1>2, <2>1, <2>6, ResolveVerifiesNothing, QuietThrottle
  <2> QED BY <1>2, <2>2, <2>3, <2>4, <2>5, <2>6 DEF Next, Progress
<1> QED BY InitHolds, StepKeeps, <1>1, <1>2, PTL DEF Spec

-----------------------------------------------------------------------------
(* Sessions in use are kept.  The time of last use in a row lags behind    *)
(* the last use by no more than the write interval (the uses not written)  *)
(* or the time a request takes (a use written late).                       *)

Lag == Later(Interval, Delay)

(* c has read the clock, and its use of the session is still to come.      *)
AtWork(c) == call[c].step \in {"user", "write", "verify"}

RowsLag ==
    \A s \in Sessions :
        /\ used[s] <= now
        /\ session[s] # None =>
              /\ used[s] <= session[s].seen + Lag
              /\ session[s].seen + Idle <= session[s].idle \/ session[s].absolute <= session[s].idle

CallsAreQuick == \A c \in Calls : AtWork(c) => call[c].began <= now /\ now <= call[c].began + Delay

(* What a request read of the last use still stands, or was overwritten    *)
(* with the time of a request that began not long before.                  *)
ReadsLag ==
    \A c \in Calls : call[c].step = "user" =>
        \/ call[c].seen <= session[call[c].cookie].seen
        \/ call[c].began <= session[call[c].cookie].seen + Delay

UsesAreKept == RowsLag /\ CallsAreQuick /\ ReadsLag

LEMMA LagIsLong == Lag \in Nat /\ Interval <= Lag /\ Delay <= Lag
BY LivesAreNumbers DEF Lag, Later

SameUse(b) ==
    /\ call'[b].step = call[b].step /\ call'[b].cookie = call[b].cookie
    /\ call'[b].began = call[b].began /\ call'[b].seen = call[b].seen

Rests(b) == call'[b].step \in {"free", "sent", "revoke", "answered"}

(* A step that takes up no work and uses nothing.                          *)
LEMMA RestingStep ==
  ASSUME UsesAreKept, UNCHANGED <<now, session, used>>, \A b \in Calls : SameUse(b) \/ Rests(b)
  PROVE  UsesAreKept'
<1>1. RowsLag'
  BY DEF UsesAreKept, RowsLag, Lag, Later
<1>2. CallsAreQuick' /\ ReadsLag'
  BY DEF UsesAreKept, CallsAreQuick, ReadsLag, AtWork, SameUse, Rests
<1> QED BY <1>1, <1>2 DEF UsesAreKept

LEMMA AnswerRests ==
  ASSUME call \in [Calls -> Call], NEW c \in Calls, NEW answer, NEW got, Answer(c, answer, got)
  PROVE  \A b \in Calls : IF b = c THEN Rests(b) ELSE SameUse(b) /\ call'[b] = call[b]
BY DEF Answer, NoCall, SameUse, Rests

LEMMA TabsUseNothing ==
  ASSUME SessionInv, UsesAreKept, NEW c \in Calls, NEW t \in Tabs, TabStep(c, t)
  PROVE  UsesAreKept'
<1>1. call \in [Calls -> Call]
  BY CallsAreTyped DEF SessionInv
<1>2. CASE Reload(c, t)
  <2>1. ASSUME NEW b \in Calls
        PROVE  SameUse(b) \/ Rests(b)
    <3>1. CASE b = c
      BY <1>2, <3>1 DEF Reload, Rests, NoCall
    <3>2. CASE b # c
      <4>1. call'[b] = IF call[b].tab = t THEN [call[b] EXCEPT !.tab = None] ELSE call[b]
        BY <1>2, <3>2 DEF Reload
      <4> QED BY <1>1, <4>1 DEF SameUse, Call
    <3> QED BY <3>1, <3>2
  <2> QED BY <1>2, <2>1, RestingStep DEF Reload, Server
<1>3. ASSUME NEW kind, NEW account, NEW right, Send(c, t, kind, account, right)
      PROVE  \A b \in Calls : SameUse(b) \/ Rests(b)
  <2> DEFINE row == [NoCall EXCEPT
             !.step = "sent", !.tab = t, !.kind = kind, !.cookie = cookie,
             !.csrf = IF kind \in Unsafe THEN Token(t) ELSE 0,
             !.account = account, !.right = right, !.shows = tab[t].session]
  <2>1. call' = [call EXCEPT ![c] = row] /\ row.step = "sent"
    BY <1>3 DEF Send, NoCall
  <2> HIDE DEF row
  <2> QED BY <1>1, <2>1 DEF SameUse, Rests
<1>4. CASE SubmitLogin(c, t) \/ SubmitLogout(c, t) \/ Act(c, t)
  BY <1>3, <1>4, RestingStep DEF SubmitLogin, SubmitLogout, Act, Server
<1> QED BY <1>2, <1>4 DEF TabStep

(* A use that is written, or need not be.                                  *)
LEMMA AdmitKept ==
  ASSUME SessionInv, UsesAreKept, NEW c \in Calls, call[c].step \in {"user", "write"},
         NEW rows \in [Sessions -> Row \cup {None}], Admit(c, rows), now' = now,
         \A s \in Sessions : s # call[c].cookie => rows[s] = session[s],
         LET s == call[c].cookie
         IN  \/ /\ rows[s] = session[s]
                /\ call[c].began <= session[s].seen + Lag
             \/ /\ rows[s] # None /\ rows[s].seen = call[c].began
                /\ \/ rows[s].seen + Idle <= rows[s].idle
                   \/ rows[s].absolute <= rows[s].idle
  PROVE  UsesAreKept'
<1> DEFINE s == call[c].cookie
           at == call[c].began
<1>1. /\ call \in [Calls -> Call] /\ s \in Sessions /\ session[s] # None
      /\ session \in [Sessions -> Row \cup {None}] /\ session[s] \in Row
      /\ at \in Nat /\ now \in Nat /\ used \in [Sessions -> Nat]
  BY CallsAreTyped, LivesAreNumbers DEF SessionInv, CallsAreAbout, TypeOK, Call
<1>2. at <= now /\ now <= at + Delay /\ used[s] <= now /\ used[s] <= session[s].seen + Lag
      /\ (session[s].seen + Idle <= session[s].idle \/ session[s].absolute <= session[s].idle)
  BY <1>1 DEF UsesAreKept, CallsAreQuick, AtWork, RowsLag
<1>3. rows[s] # None /\ rows[s] \in Row
  BY <1>1
<1>4. session' = rows /\ used' = [used EXCEPT ![s] = Later(@, at)]
  BY DEF Admit
<1>5. call[c].kind # "login"
  BY DEF SessionInv, CallsAreAbout
<1>6. \A b \in Calls : IF b = c THEN Rests(b) ELSE SameUse(b) /\ call'[b] = call[b]
  <2>1. CASE Revoking(c)
    BY <1>1, <2>1, RevokingShape DEF Rests, SameUse
  <2>2. CASE ~Revoking(c)
    BY <1>1, <1>5, <2>2, AdmitShape, AnswerRests
  <2> QED BY <2>1, <2>2
<1>7. /\ \A r \in Sessions : r # s => session'[r] = session[r] /\ used'[r] = used[r]
      /\ session'[s] = rows[s] /\ used'[s] = Later(used[s], at)
  BY <1>1, <1>4
<1>8. Later(used[s], at) <= now /\ Later(used[s], at) <= rows[s].seen + Lag
      /\ (rows[s].seen + Idle <= rows[s].idle \/ rows[s].absolute <= rows[s].idle)
  <2>1. used[s] \in Nat /\ session[s].seen \in Nat /\ rows[s].seen \in Nat
    BY <1>1, <1>3 DEF Row
  <2>2. CASE rows[s] = session[s] /\ at <= session[s].seen + Lag
    BY <1>2, <2>2 DEF Later
  <2>3. CASE rows[s].seen = at /\ (rows[s].seen + Idle <= rows[s].idle \/ rows[s].absolute <= rows[s].idle)
    <3>1. now <= at + Lag
      BY <1>1, <1>2, LagIsLong, LivesAreNumbers
    <3>2. used[s] <= at + Lag /\ at <= at + Lag
      BY <1>1, <1>2, <2>1, <3>1, LagIsLong
    <3> QED BY <1>2, <2>3, <3>2 DEF Later
  <2> QED BY <2>2, <2>3
<1>9. RowsLag'
  <2>1. Lag' = Lag
    BY DEF Lag, Later
  <2>2. ASSUME NEW r \in Sessions
        PROVE  /\ used'[r] <= now'
               /\ session'[r] # None =>
                    /\ used'[r] <= session'[r].seen + Lag
                    /\ \/ session'[r].seen + Idle <= session'[r].idle
                       \/ session'[r].absolute <= session'[r].idle
    <3>1. CASE r = s
      BY <1>7, <1>8, <3>1
    <3>2. CASE r # s
      BY <1>7, <3>2 DEF UsesAreKept, RowsLag
    <3> QED BY <3>1, <3>2
  <2> QED BY <2>1, <2>2 DEF RowsLag
<1>10. CallsAreQuick'
  BY <1>6 DEF UsesAreKept, CallsAreQuick, AtWork, Rests
<1>11. ReadsLag'
  <2>1. ASSUME NEW b \in Calls, call'[b].step = "user"
        PROVE  \/ call'[b].seen <= session'[call'[b].cookie].seen
               \/ call'[b].began <= session'[call'[b].cookie].seen + Delay
    <3>1. b # c /\ call'[b] = call[b] /\ call[b].cookie \in Sessions
      BY <1>6, <2>1 DEF Rests, SessionInv, CallsAreAbout
    <3>2. call[b].seen <= session[call[b].cookie].seen
          \/ call[b].began <= session[call[b].cookie].seen + Delay
      BY <2>1, <3>1 DEF UsesAreKept, ReadsLag
    <3>3. CASE call[b].cookie # s
      BY <1>7, <3>1, <3>2, <3>3
    <3>4. CASE call[b].cookie = s /\ rows[s] = session[s]
      BY <1>7, <3>1, <3>2, <3>4
    <3>5. CASE call[b].cookie = s /\ rows[s].seen = at
      <4>1. call[b].began <= now /\ call[b].began \in Nat
        BY <1>1, <2>1, <3>1 DEF UsesAreKept, CallsAreQuick, AtWork, Call
      <4>2. call[b].began <= at + Delay
        BY <1>1, <1>2, <4>1, LivesAreNumbers
      <4> QED BY <1>7, <3>1, <3>5, <4>2
    <3> QED BY <3>3, <3>4, <3>5
  <2> QED BY <2>1 DEF ReadsLag
<1> QED BY <1>9, <1>10, <1>11 DEF UsesAreKept

LEMMA ResolveKept ==
  ASSUME SessionInv, UsesAreKept, NEW c \in Calls, Resolve(c)
  PROVE  UsesAreKept'
<1> DEFINE s == call[c].cookie
           at == call[c].began
<1>1. call \in [Calls -> Call] /\ session \in [Sessions -> Row \cup {None}] /\ now \in Nat
  BY CallsAreTyped, LivesAreNumbers DEF SessionInv, TypeOK
<1>2. ASSUME \E answer, got : Answer(c, answer, got), UNCHANGED <<now, session, used>>
      PROVE  UsesAreKept'
  BY <1>1, <1>2, AnswerRests, RestingStep
<1>3. ASSUME call[c].step \in {"user", "write"}
      PROVE  s \in Sessions /\ session[s] # None /\ session[s] \in Row /\ at \in Nat
  BY <1>1, <1>3 DEF SessionInv, CallsAreAbout, Call
<1>4. CASE ReadSession(c)
  <2>1. CASE s # 0 /\ LiveAt(s, now)
    <3>1. s \in Sessions /\ session[s].seen \in Nat
      BY <1>1, <2>1 DEF Call, LiveAt, Unended, Row
    <3> DEFINE row == [call[c] EXCEPT !.step = "user", !.began = now,
                                      !.seen = session[s].seen, !.late = s \in ended]
    <3>2. call' = [call EXCEPT ![c] = row]
      BY <1>4, <2>1 DEF ReadSession
    <3>3. row.step = "user" /\ row.cookie = s /\ row.began = now /\ row.seen = session[s].seen
      BY <1>1 DEF Call
    <3> HIDE DEF row, s
    <3>4. call'[c] = row /\ (\A b \in Calls : b # c => call'[b] = call[b])
          /\ UNCHANGED <<now, session, used>>
      BY <1>1, <1>4, <3>2 DEF ReadSession, Server
    <3>5. RowsLag'
      BY <3>4 DEF UsesAreKept, RowsLag, Lag, Later
    <3>6. CallsAreQuick'
      <4>1. now <= now + Delay
        BY <1>1, LivesAreNumbers
      <4> QED BY <1>1, <3>3, <3>4, <4>1 DEF UsesAreKept, CallsAreQuick, AtWork
    <3>7. ReadsLag'
      BY <3>1, <3>3, <3>4 DEF UsesAreKept, ReadsLag
    <3> QED BY <3>5, <3>6, <3>7 DEF UsesAreKept
  <2>2. CASE ~(s # 0 /\ LiveAt(s, now))
    BY <1>2, <1>4, <2>2 DEF ReadSession, Server
  <2> QED BY <2>1, <2>2
<1>5. CASE ReadUser(c)
  <2>1. call[c].step = "user" /\ now' = now
    BY <1>5 DEF ReadUser
  <2>2. CASE ~MayUse(s)
    BY <1>2, <1>5, <2>2 DEF ReadUser
  <2>3. CASE MayUse(s) /\ MustWrite(at, call[c].seen)
    <3> DEFINE row == [call[c] EXCEPT !.step = "write", !.seen = 0]
    <3>1. call' = [call EXCEPT ![c] = row] /\ UNCHANGED <<now, session, used>>
      BY <1>5, <2>3 DEF ReadUser
    <3>2. row.step = "write" /\ row.began = at
      BY <1>1 DEF Call
    <3> HIDE DEF row
    <3>3. call'[c] = row /\ (\A b \in Calls : b # c => call'[b] = call[b])
      BY <1>1, <3>1
    <3>4. RowsLag'
      BY <3>1 DEF UsesAreKept, RowsLag, Lag, Later
    <3>5. CallsAreQuick'
      BY <2>1, <3>1, <3>2, <3>3 DEF UsesAreKept, CallsAreQuick, AtWork
    <3>6. ReadsLag'
      BY <3>1, <3>2, <3>3 DEF UsesAreKept, ReadsLag
    <3> QED BY <3>4, <3>5, <3>6 DEF UsesAreKept
  <2>4. CASE MayUse(s) /\ ~MustWrite(at, call[c].seen)
    <3>1. Admit(c, session)
      BY <1>5, <2>4 DEF ReadUser
    <3>2. at <= session[s].seen + Lag
      <4>1. call[c].seen \in Nat /\ session[s].seen \in Nat /\ at \in Nat
        BY <1>1, <1>3, <2>1 DEF Call, Row
      <4>2. at <= call[c].seen + Interval
        BY <2>4, <4>1, LivesAreNumbers DEF MustWrite
      <4>3. call[c].seen <= session[s].seen \/ at <= session[s].seen + Delay
        BY <2>1 DEF UsesAreKept, ReadsLag
      <4> QED BY <4>1, <4>2, <4>3, LagIsLong, LivesAreNumbers
    <3> QED BY <1>1, <2>1, <3>1, <3>2, AdmitKept
  <2> QED BY <2>2, <2>3, <2>4
<1>6. CASE WriteSeen(c)
  <2> DEFINE rows == [session EXCEPT ![s] = Extended(@, at)]
  <2>1. call[c].step = "write" /\ Admit(c, rows) /\ now' = now
    BY <1>6 DEF WriteSeen
  <2>2. Extended(session[s], at) \in Row
    BY <1>3, <2>1, ExtendedIsUsed DEF UsedRow
  <2>3. Extended(session[s], at).seen = at
        /\ \/ at + Idle <= Extended(session[s], at).idle
           \/ Extended(session[s], at).absolute <= Extended(session[s], at).idle
    <3>1. session[s] \in Row /\ session[s].absolute \in Nat /\ at + Idle \in Nat
      BY <1>3, <2>1, LivesAreNumbers DEF Row
    <3>2. Extended(session[s], at).seen = at
          /\ Extended(session[s], at).idle = Idles(session[s], at)
          /\ Extended(session[s], at).absolute = session[s].absolute
      BY <3>1 DEF Extended, Row
    <3> QED BY <3>1, <3>2 DEF Idles
  <2>4. rows \in [Sessions -> Row \cup {None}] /\ rows[s] = Extended(session[s], at)
        /\ rows[s] # None /\ \A r \in Sessions : r # s => rows[r] = session[r]
    BY <1>1, <1>3, <2>1, <2>2, NoneAssumption
  <2> HIDE DEF rows
  <2> QED BY <2>1, <2>3, <2>4, AdmitKept
<1> QED BY <1>4, <1>5, <1>6 DEF Resolve

LEMMA RevokeKept ==
  ASSUME SessionInv, UsesAreKept, NEW c \in Calls, Revoke(c)
  PROVE  UsesAreKept'
<1> DEFINE s == call[c].cookie
<1>1. /\ call[c].step = "revoke" /\ call \in [Calls -> Call] /\ s \in Sessions
      /\ session[s] \in Row /\ session[s] # None /\ session \in [Sessions -> Row \cup {None}]
  BY CallsAreTyped DEF Revoke, SessionInv, CallsAreAbout, TypeOK
<1>2. now' = now /\ used' = used /\ \E answer, got : Answer(c, answer, got)
  BY DEF Revoke
<1>3. \A r \in Sessions : /\ session'[r] # None => session[r] # None
                          /\ session'[r].seen = session[r].seen
                          /\ session'[r].idle = session[r].idle
                          /\ session'[r].absolute = session[r].absolute
  <2>1. session' = [session EXCEPT ![s] = [session[s] EXCEPT !.revoked = TRUE]]
    BY DEF Revoke
  <2> QED BY <1>1, <2>1 DEF Row
<1>4. \A b \in Calls : IF b = c THEN Rests(b) ELSE SameUse(b) /\ call'[b] = call[b]
  BY <1>1, <1>2, AnswerRests
<1>5. RowsLag'
  BY <1>2, <1>3 DEF UsesAreKept, RowsLag, Lag, Later
<1>6. CallsAreQuick'
  BY <1>2, <1>4 DEF UsesAreKept, CallsAreQuick, AtWork, Rests
<1>7. ReadsLag'
  <2>1. \A b \in Calls : call'[b].step = "user" =>
           call'[b] = call[b] /\ call[b].cookie \in Sessions
    BY <1>4 DEF Rests, SessionInv, CallsAreAbout
  <2> QED BY <1>3, <2>1 DEF UsesAreKept, ReadsLag
<1> QED BY <1>5, <1>6, <1>7 DEF UsesAreKept

LEMMA LoginKept ==
  ASSUME SessionInv, UsesAreKept, NEW c \in Calls, Login(c)
  PROVE  UsesAreKept'
<1>1. call \in [Calls -> Call] /\ session \in [Sessions -> Row \cup {None}] /\ now \in Nat
      /\ used \in [Sessions -> Nat]
  BY CallsAreTyped, LivesAreNumbers DEF SessionInv, TypeOK
<1>2. CASE BeginLogin(c) /\ BlockedFor(call[c].account, now)
  <2>1. Answer(c, "limited", 0) /\ UNCHANGED <<now, session, used>>
    BY <1>2 DEF BeginLogin, Server
  <2> QED BY <1>1, <2>1, AnswerRests, RestingStep
<1>3. CASE BeginLogin(c) /\ ~BlockedFor(call[c].account, now)
  <2> DEFINE u == call[c].account
             right == call[c].right /\ ~user[u].disabled
             row == [call[c] EXCEPT !.step = "verify", !.began = now,
                                    !.right = right, !.auth = user[u].auth]
  <2>1. call' = [call EXCEPT ![c] = row] /\ UNCHANGED <<now, session, used>>
    BY <1>3 DEF BeginLogin, Server
  <2> HIDE DEF right
  <2>2. row.step = "verify" /\ row.began = now
    BY <1>1 DEF Call
  <2> HIDE DEF row
  <2>3. call'[c] = row /\ (\A b \in Calls : b # c => call'[b] = call[b])
    BY <1>1, <2>1
  <2>4. RowsLag'
    BY <2>1 DEF UsesAreKept, RowsLag, Lag, Later
  <2>5. now <= now + Delay
    BY <1>1, LivesAreNumbers
  <2>6. CallsAreQuick'
    BY <1>1, <2>1, <2>2, <2>3, <2>5 DEF UsesAreKept, CallsAreQuick, AtWork
  <2>7. ReadsLag'
    BY <2>1, <2>2, <2>3 DEF UsesAreKept, ReadsLag
  <2> QED BY <2>4, <2>6, <2>7 DEF UsesAreKept
<1>4. CASE FailLogin(c)
  <2>1. Answer(c, "unauthenticated", 0) /\ UNCHANGED <<now, session, used>>
    BY <1>4 DEF FailLogin
  <2> QED BY <1>1, <2>1, AnswerRests, RestingStep
<1>5. ASSUME NEW s \in Sessions, OpenSession(c, s)
      PROVE  UsesAreKept'
  <2> DEFINE at == call[c].began
             row == NewSession(call[c].account, call[c].auth, at)
  <2>1. /\ call[c].step = "verify" /\ session[s] = None /\ Answer(c, "ok", s) /\ now' = now
        /\ session' = [session EXCEPT ![s] = row] /\ used' = [used EXCEPT ![s] = at]
    BY <1>5 DEF OpenSession
  <2>2. at \in Nat /\ at <= now
    BY <1>1, <2>1 DEF Call, UsesAreKept, CallsAreQuick, AtWork
  <2>3. row.seen = at /\ row.idle = at + Idle
    BY DEF NewSession
  <2>4. at <= at + Lag /\ at + Idle <= at + Idle
    BY <2>2, LagIsLong, LivesAreNumbers
  <2> HIDE DEF row
  <2>5. /\ session'[s] = row /\ used'[s] = at
        /\ \A r \in Sessions : r # s => session'[r] = session[r] /\ used'[r] = used[r]
    BY <1>1, <2>1
  <2>6. \A b \in Calls : IF b = c THEN Rests(b) ELSE SameUse(b) /\ call'[b] = call[b]
    BY <1>1, <2>1, AnswerRests
  <2>7. RowsLag'
    <3>1. Lag' = Lag
      BY DEF Lag, Later
    <3>2. ASSUME NEW r \in Sessions
          PROVE  /\ used'[r] <= now'
                 /\ session'[r] # None =>
                      /\ used'[r] <= session'[r].seen + Lag
                      /\ \/ session'[r].seen + Idle <= session'[r].idle
                         \/ session'[r].absolute <= session'[r].idle
      <4>1. CASE r = s
        BY <2>1, <2>2, <2>3, <2>4, <2>5, <4>1
      <4>2. CASE r # s
        BY <2>1, <2>5, <4>2 DEF UsesAreKept, RowsLag
      <4> QED BY <4>1, <4>2
    <3> QED BY <3>1, <3>2 DEF RowsLag
  <2>8. CallsAreQuick'
    BY <2>1, <2>6 DEF UsesAreKept, CallsAreQuick, AtWork, Rests
  <2>9. ReadsLag'
    <3>1. \A b \in Calls : call'[b].step = "user" =>
             call'[b] = call[b] /\ call[b].cookie \in Sessions /\ call[b].cookie # s
      BY <2>1, <2>6 DEF Rests, SessionInv, CallsAreAbout
    <3> QED BY <2>5, <3>1 DEF UsesAreKept, ReadsLag
  <2> QED BY <2>7, <2>8, <2>9 DEF UsesAreKept
<1> QED BY <1>2, <1>3, <1>4, <1>5 DEF Login

LEMMA StepKept == SessionInv /\ UsesAreKept /\ [Next]_vars => UsesAreKept'
<1> SUFFICES ASSUME SessionInv, UsesAreKept, [Next]_vars PROVE UsesAreKept'
  OBVIOUS
<1>1. call \in [Calls -> Call] /\ now \in Nat /\ used \in [Sessions -> Nat]
  BY CallsAreTyped, LivesAreNumbers DEF SessionInv, TypeOK
<1>2. CASE UNCHANGED <<now, session, used, call>>
  BY <1>2, RestingStep DEF SameUse
<1>3. CASE Tick
  <2>1. /\ now' = now + 1 /\ UNCHANGED <<session, call, used>>
        /\ \A c \in Calls : AtWork(c) => now < call[c].began + Delay
    BY <1>3 DEF Tick, Working, AtWork
  <2>2. RowsLag'
    <3>1. \A s \in Sessions : used[s] <= now + 1
      BY <1>1 DEF UsesAreKept, RowsLag
    <3> QED BY <2>1, <3>1 DEF UsesAreKept, RowsLag, Lag, Later
  <2>3. CallsAreQuick'
    <3>1. \A c \in Calls : AtWork(c) => call[c].began <= now + 1 /\ now + 1 <= call[c].began + Delay
      <4> TAKE c \in Calls
      <4>1. call[c].began \in Nat
        BY <1>1 DEF Call
      <4> QED BY <1>1, <2>1, <4>1, LivesAreNumbers DEF UsesAreKept, CallsAreQuick
    <3> QED BY <2>1, <3>1 DEF CallsAreQuick, AtWork
  <2>4. ReadsLag'
    BY <2>1 DEF UsesAreKept, ReadsLag
  <2> QED BY <2>2, <2>3, <2>4 DEF UsesAreKept
<1>4. CASE \E u \in Users : SetDisabled(u) \/ BumpAuth(u)
  BY <1>2, <1>4 DEF SetDisabled, BumpAuth
<1>5. ASSUME NEW c \in Calls, Deliver(c) \/ Lose(c)
      PROVE  UsesAreKept'
  <2>1. UNCHANGED <<now, session, used>> /\ call' = [call EXCEPT ![c] = NoCall]
    BY <1>5 DEF Deliver, Lose, Heard, Server
  <2>2. \A b \in Calls : SameUse(b) \/ Rests(b)
    BY <1>1, <2>1, NoCallIsTyped DEF SameUse, Rests
  <2> QED BY <2>1, <2>2, RestingStep
<1>6. CASE \E c \in Calls : Progress(c)
  BY <1>5, <1>6, ResolveKept, RevokeKept, LoginKept DEF Progress
<1>7. CASE \E c \in Calls, t \in Tabs : TabStep(c, t)
  BY <1>7, TabsUseNothing
<1> QED BY <1>2, <1>3, <1>4, <1>6, <1>7 DEF Next, vars

(* A request other than a login is answered straight away when its session *)
(* is not live, and then only.                                             *)
LEMMA OnlyReadAnswers ==
  ASSUME SessionInv, [Next]_vars, NEW c \in Calls, call[c].step = "sent",
         call[c].kind # "login", call[c].cookie # 0, call'[c].step = "answered"
  PROVE  ~LiveAt(call[c].cookie, now)
<1>1. call \in [Calls -> Call]
  BY CallsAreTyped DEF SessionInv
<1>2. call'[c] # call[c]
  OBVIOUS
<1>3. ASSUME NEW b \in Calls, \E answer, got : Answer(b, answer, got)
      PROVE  b = c
  BY <1>1, <1>2, <1>3 DEF Answer
<1>4. ASSUME NEW b \in Calls, ReadSession(b)
      PROVE  ~LiveAt(call[c].cookie, now)
  <2>1. CASE call[b].cookie # 0 /\ LiveAt(call[b].cookie, now)
    <3> DEFINE row == [call[b] EXCEPT !.step = "user", !.began = now,
                                      !.seen = session[call[b].cookie].seen,
                                      !.late = call[b].cookie \in ended]
    <3>1. call' = [call EXCEPT ![b] = row]
      BY <1>4, <2>1 DEF ReadSession
    <3>2. row.step = "user"
      BY <1>1 DEF Call
    <3> HIDE DEF row
    <3> QED BY <1>1, <1>2, <3>1, <3>2
  <2>2. CASE ~(call[b].cookie # 0 /\ LiveAt(call[b].cookie, now))
    <3>1. b = c
      BY <1>3, <1>4, <2>2 DEF ReadSession
    <3> QED BY <2>2, <3>1
  <2> QED BY <2>1, <2>2
<1>5. ASSUME NEW b \in Calls, ReadUser(b) \/ WriteSeen(b) \/ Revoke(b) \/ Login(b)
      PROVE  FALSE
  <2>1. b # c
    BY <1>5 DEF ReadUser, WriteSeen, Revoke, Login, BeginLogin, FailLogin, OpenSession
  <2>2. ASSUME NEW rows, Admit(b, rows), call[b].step \in {"user", "write"}
        PROVE  call'[c] = call[c]
    <3>1. call[b].kind # "login"
      BY <2>2 DEF SessionInv, CallsAreAbout
    <3> QED BY <1>1, <2>1, <2>2, <3>1, AdmitShape, AnswerShape, RevokingShape
  <2>3. call'[c] = call[c]
    BY <1>1, <1>3, <1>5, <2>1, <2>2 DEF ReadUser, WriteSeen, Revoke, Login, BeginLogin, FailLogin, OpenSession
  <2> QED BY <1>2, <2>3
<1>6. ASSUME NEW b \in Calls, Deliver(b) \/ Lose(b)
      PROVE  FALSE
  <2>1. call' = [call EXCEPT ![b] = NoCall]
    BY <1>6 DEF Deliver, Lose, Heard
  <2> QED BY <1>1, <1>2, <2>1, NoCallIsTyped
<1>7. ASSUME NEW b \in Calls, NEW t \in Tabs, TabStep(b, t)
      PROVE  FALSE
  <2>1. CASE Reload(b, t)
    <3>1. b # c
      BY <1>2, <2>1 DEF Reload, NoCall
    <3>2. call'[c] = IF call[c].tab = t THEN [call[c] EXCEPT !.tab = None] ELSE call[c]
      BY <2>1, <3>1 DEF Reload
    <3> QED BY <1>1, <3>2 DEF Call
  <2>2. ASSUME NEW kind, NEW account, NEW right, Send(b, t, kind, account, right)
        PROVE  FALSE
    BY <1>1, <2>2 DEF Send, Sending
  <2> QED BY <1>7, <2>1, <2>2 DEF TabStep, SubmitLogin, SubmitLogout, Act
<1>8. CASE Tick \/ (\E u \in Users : SetDisabled(u) \/ BumpAuth(u)) \/ UNCHANGED vars
  BY <1>2, <1>8 DEF Tick, SetDisabled, BumpAuth, vars
<1> QED BY <1>4, <1>5, <1>6, <1>7, <1>8 DEF Next, Progress, Resolve

(* A session is given up as idle only when it has not been used for the    *)
(* idle time, short of the write interval or of the time a slow request's  *)
(* write may come late.                                                    *)
THEOREM SessionsInUseAreKept == Spec => KeptWhileUsed
<1> DEFINE Kept(c) ==
             /\ call[c].step = "sent" /\ call[c].kind # "login" /\ call[c].cookie # 0
             /\ call'[c].step = "answered" /\ Unended(call[c].cookie, now)
             => now + Later(Interval, Delay) >= used[call[c].cookie] + Idle
<1>1. Init => UsesAreKept
  <2>1. ASSUME Init
        PROVE  RowsLag
    BY <2>1 DEF Init, RowsLag
  <2> QED BY <2>1, NoCallIsTyped DEF Init, UsesAreKept, CallsAreQuick, AtWork, ReadsLag
<1>2. ASSUME SessionInv, UsesAreKept, [Next]_vars, NEW c \in Calls
      PROVE  Kept(c)
  <2> DEFINE s == call[c].cookie
  <2> SUFFICES ASSUME call[c].step = "sent", call[c].kind # "login", s # 0,
                      call'[c].step = "answered", Unended(s, now)
               PROVE  now + Lag >= used[s] + Idle
    BY DEF Lag
  <2>1. /\ call \in [Calls -> Call] /\ session \in [Sessions -> Row \cup {None}] /\ now \in Nat
        /\ used \in [Sessions -> Nat]
    BY <1>2, CallsAreTyped, LivesAreNumbers DEF SessionInv, TypeOK
  <2>2. ~LiveAt(s, now)
    BY <1>2, OnlyReadAnswers
  <2>3. s \in Sessions /\ session[s] # None /\ session[s] \in Row /\ session[s].absolute > now
        /\ ~(session[s].idle > now)
    BY <2>1, <2>2 DEF LiveAt, Unended, Call
  <2>4. used[s] <= session[s].seen + Lag
        /\ (session[s].seen + Idle <= session[s].idle \/ session[s].absolute <= session[s].idle)
    BY <1>2, <2>3 DEF UsesAreKept, RowsLag
  <2>5. session[s].idle \in Nat /\ session[s].absolute \in Nat /\ session[s].seen \in Nat
        /\ used[s] \in Nat
    BY <2>1, <2>3 DEF Row
  <2> QED BY <2>1, <2>3, <2>4, <2>5, LagIsLong, LivesAreNumbers
<1>3. SessionInv /\ UsesAreKept /\ [Next]_vars => [\A c \in Calls : Kept(c)]_vars
  BY <1>2
<1> QED BY <1>1, <1>3, InitHolds, StepKeeps, StepKept, PTL DEF Spec, KeptWhileUsed
=============================================================================
