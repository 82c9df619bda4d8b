------------------------- MODULE PublishingTxProofs -------------------------
(***************************************************************************)
(* What the transactions promise, for every number of calls, keys and      *)
(* requests and for whatever rows there are to begin with.                 *)
(*                                                                         *)
(* The records: a call that is at work on a keyed request holds the lock   *)
(* of its key and has found no record of it; so no other call can be at    *)
(* work under that key, and none can make the record.                      *)
(*                                                                         *)
(* The rows: what a call has locked is as it read it until it ends, and    *)
(* what it looks at without a lock of its own (the rule version of a       *)
(* revision, the current revision, the open drafts of a draw) changes only *)
(* under the lottery's or the draw's lock, which it holds.  So its         *)
(* decision stands until it commits, and its commit is a handler's step.   *)
(***************************************************************************)
EXTENDS PublishingTx, TLAPS

Steps == {"idle", "begun", "locking", "decided"}

Call(Q, D, R, U, B) ==
    [step : Steps, req : Q, held : Nat, draw : D, rev : R, rule : U, batch : B]

(* Nothing is said of what requests and rows look like: only the shape of  *)
(* a transaction matters here.                                             *)
TxShape == \E Q, D, R, U, B : tx \in [Calls -> Call(Q, D, R, U, B)]

OnlyKeyedBegin == \A c \in Calls : tx[c].step = "begun" => Req(c).op \in Keyed

OnlyKeyedRecorded == \A q \in record : q.op \in Keyed

Working(c) == tx[c].step \in {"locking", "decided"} /\ Req(c).op \in Keyed

WorkersFoundNothing ==
    \A c \in Calls : Working(c) => tx[c].held >= 1 /\ Recorded(Req(c)) = {}

HasKey(c) == tx[c].step # "idle" /\ Req(c).op \in Keyed /\ tx[c].held >= 1

KeysAreExclusive ==
    \A c, e \in Calls :
        HasKey(c) /\ HasKey(e) /\ c # e => Scope(Req(c)) # Scope(Req(e))

KeysInv ==
    /\ TxShape
    /\ OnlyKeyedBegin
    /\ OnlyKeyedRecorded
    /\ WorkersFoundNothing
    /\ KeysAreExclusive
    /\ OneKeyOneRequest

-----------------------------------------------------------------------------
(* How the transactions look after a step of one call: the four ways in    *)
(* which the actions change them.                                          *)

OthersStay(c) == \A e \in Calls : e # c => tx'[e] = tx[e]

(* A request is taken up.                                                  *)
LEMMA ShapeBegin ==
  ASSUME TxShape, NEW c \in Calls, NEW q, Begin(c, q)
  PROVE  /\ TxShape' /\ OthersStay(c)
         /\ tx'[c].req = q /\ tx'[c].held = 0
         /\ tx'[c].step = IF q.op \in Keyed THEN "begun" ELSE "locking"
<1>1. PICK Q, D, R, U, B : tx \in [Calls -> Call(Q, D, R, U, B)]
  BY DEF TxShape
<1>2. tx' \in [Calls -> Call(Q \cup {q}, D \cup {Nil}, R \cup {Nil}, U \cup {Nil}, B \cup {Nil})]
  BY <1>1 DEF Begin, Idle, Call, Steps
<1>3. OthersStay(c) BY <1>1 DEF Begin, OthersStay
<1>4. tx'[c].req = q /\ tx'[c].held = 0
      /\ tx'[c].step = IF q.op \in Keyed THEN "begun" ELSE "locking"
  BY <1>1 DEF Begin, Idle
<1> QED BY <1>2, <1>3, <1>4 DEF TxShape

(* A call is over.                                                         *)
LEMMA ShapeEnd ==
  ASSUME TxShape, NEW c \in Calls, tx' = [tx EXCEPT ![c] = Idle]
  PROVE  /\ TxShape' /\ OthersStay(c)
         /\ tx'[c].step = "idle"
<1>1. PICK Q, D, R, U, B : tx \in [Calls -> Call(Q, D, R, U, B)]
  BY DEF TxShape
<1>2. tx' \in [Calls -> Call(Q \cup {Nil}, D \cup {Nil}, R \cup {Nil}, U \cup {Nil}, B \cup {Nil})]
  BY <1>1 DEF Idle, Call, Steps
<1>3. OthersStay(c) /\ tx'[c].step = "idle"
  BY <1>1 DEF Idle, OthersStay
<1> QED BY <1>2, <1>3 DEF TxShape

(* A call goes on to its next step.                                        *)
LEMMA ShapeStep ==
  ASSUME TxShape, NEW c \in Calls, NEW s \in Steps, tx' = [tx EXCEPT ![c].step = s]
  PROVE  /\ TxShape' /\ OthersStay(c)
         /\ tx'[c].step = s /\ tx'[c].req = tx[c].req /\ tx'[c].held = tx[c].held
<1>1. PICK Q, D, R, U, B : tx \in [Calls -> Call(Q, D, R, U, B)]
  BY DEF TxShape
<1>2. tx' \in [Calls -> Call(Q, D, R, U, B)]
  BY <1>1 DEF Call, Steps
<1>3. OthersStay(c) /\ tx'[c].step = s /\ tx'[c].req = tx[c].req /\ tx'[c].held = tx[c].held
  BY <1>1 DEF Call, OthersStay
<1> QED BY <1>2, <1>3 DEF TxShape

(* A lock is taken, and the row it is on read.                             *)
LEMMA ShapeLock ==
  ASSUME TxShape, NEW c \in Calls, Lock(c)
  PROVE  /\ TxShape' /\ OthersStay(c)
         /\ tx'[c].step = tx[c].step /\ tx'[c].req = tx[c].req
         /\ tx[c].held \in Nat /\ tx'[c].held = tx[c].held + 1
<1>1. PICK Q, D, R, U, B : tx \in [Calls -> Call(Q, D, R, U, B)]
  BY DEF TxShape
<1> DEFINE x == NextLock(c)
<1> HIDE DEF x
<1> DEFINE d == IF x[1] = "draw" THEN draw[x[2]] ELSE tx[c].draw
           r == IF x[1] = "revision" THEN rev[x[2]] ELSE tx[c].rev
           u == IF x[1] = "rule" THEN rule[x[2]] ELSE tx[c].rule
           b == IF x[1] = "batch" THEN batch[x[2]] ELSE tx[c].batch
<1>2. AfterLock(c, x) = [step |-> tx[c].step, req |-> tx[c].req, held |-> tx[c].held + 1,
                         draw |-> d, rev |-> r, rule |-> u, batch |-> b]
  BY DEF AfterLock, Req
<1> HIDE DEF d, r, u, b
<1>3. /\ AfterLock(c, x) \in Call(Q, D \cup {d}, R \cup {r}, U \cup {u}, B \cup {b})
      /\ AfterLock(c, x).step = tx[c].step /\ AfterLock(c, x).req = tx[c].req
      /\ tx[c].held \in Nat /\ AfterLock(c, x).held = tx[c].held + 1
  BY <1>1, <1>2 DEF Call, Steps
<1>4. tx' = [tx EXCEPT ![c] = AfterLock(c, x)] BY DEF Lock, x
<1>5. tx' \in [Calls -> Call(Q, D \cup {d}, R \cup {r}, U \cup {u}, B \cup {b})]
  BY <1>1, <1>3, <1>4 DEF Call
<1>6. OthersStay(c) /\ tx'[c] = AfterLock(c, x) BY <1>1, <1>4 DEF OthersStay
<1> QED BY <1>3, <1>5, <1>6 DEF TxShape

-----------------------------------------------------------------------------
(* The first lock of a call for a keyed request is that of its key.        *)
LEMMA KeyIsFirst ==
  ASSUME NEW q, q.op \in Keyed
  PROVE  Plan(q)[1] = <<"key", Scope(q)>> /\ Len(KeyLock(q)) = 1
<1> DEFINE k == <<"key", Scope(q)>>
           batches == BatchLock(q)
           lotteries == LotteryLock(q)
           draws == DrawLock(q)
           own == OwnLock(q)
<1> HIDE DEF k, batches, lotteries, draws, own
<1>1. KeyLock(q) = <<k>> BY DEF KeyLock, k
<1>2. PICK S : /\ batches \in Seq(S) /\ lotteries \in Seq(S)
               /\ draws \in Seq(S) /\ own \in Seq(S)
  <2> DEFINE S == {<<"batch", q.id>>, Lottery(q), <<"draw", DrawOf(q)>>,
                   <<"revision", q.id>>, <<"rule", q.id>>}
  <2>1. /\ <<"batch", q.id>> \in S /\ Lottery(q) \in S /\ <<"draw", DrawOf(q)>> \in S
        /\ <<"revision", q.id>> \in S /\ <<"rule", q.id>> \in S
    OBVIOUS
  <2> HIDE DEF S
  <2>2. batches \in Seq(S) BY <2>1 DEF batches, BatchLock
  <2>3. lotteries \in Seq(S) BY <2>1 DEF lotteries, LotteryLock
  <2>4. draws \in Seq(S) BY <2>1 DEF draws, DrawLock
  <2>5. own \in Seq(S) BY <2>1 DEF own, OwnLock
  <2> QED BY <2>2, <2>3, <2>4, <2>5
<1>3. Plan(q) = <<k>> \o batches \o lotteries \o draws \o own
  BY <1>1 DEF Plan, batches, lotteries, draws, own
<1>4. (<<k>> \o batches \o lotteries \o draws \o own)[1] = k
  BY <1>2
<1> QED BY <1>1, <1>3, <1>4 DEF k

(* Whoever has a key holds its lock.                                       *)
LEMMA KeyIsHeld ==
  ASSUME TxShape, NEW e \in Calls, HasKey(e)
  PROVE  Holds(e, <<"key", Scope(Req(e))>>)
<1>1. tx[e].held \in Nat BY DEF TxShape, Call
<1>2. 1 \in 1..tx[e].held BY <1>1 DEF HasKey
<1>3. Plan(Req(e))[1] = <<"key", Scope(Req(e))>> BY KeyIsFirst DEF HasKey
<1> QED BY <1>2, <1>3 DEF Holds, HasKey

-----------------------------------------------------------------------------
(* What the actions do to a call and to the records.                       *)

(* A step in which a call ends and no record is made.                      *)
LEMMA EndKeeps ==
  ASSUME KeysInv, NEW c \in Calls, Ends(c)
  PROVE  KeysInv'
<1> USE DEF KeysInv
<1>1. TxShape' /\ OthersStay(c) /\ tx'[c].step = "idle" /\ record' = record
  BY ShapeEnd DEF Ends
<1>2. \A e \in Calls : e # c => tx'[e] = tx[e] BY <1>1 DEF OthersStay
<1>3. OnlyKeyedBegin' /\ OnlyKeyedRecorded'
  BY <1>1, <1>2 DEF OnlyKeyedBegin, OnlyKeyedRecorded, Req
<1>4. WorkersFoundNothing'
  BY <1>1, <1>2 DEF WorkersFoundNothing, Working, Recorded, Req
<1>5. KeysAreExclusive'
  BY <1>1, <1>2 DEF KeysAreExclusive, HasKey, Req
<1>6. OneKeyOneRequest' BY <1>1 DEF OneKeyOneRequest
<1> QED BY <1>1, <1>3, <1>4, <1>5, <1>6

(* A delivery keeps the invariant: a call that has just begun holds        *)
(* nothing and is at work on no key.                                       *)
LEMMA BeginKeeps ==
  ASSUME KeysInv, NEW c \in Calls, NEW q, Begin(c, q)
  PROVE  KeysInv'
<1> USE DEF KeysInv
<1>1. /\ TxShape' /\ OthersStay(c) /\ record' = record
      /\ tx'[c].req = q /\ tx'[c].held = 0
      /\ tx'[c].step = IF q.op \in Keyed THEN "begun" ELSE "locking"
  BY ShapeBegin DEF Begin
<1>2. \A e \in Calls : e # c => tx'[e] = tx[e] BY <1>1 DEF OthersStay
<1>3. OnlyKeyedBegin' /\ OnlyKeyedRecorded'
  BY <1>1, <1>2 DEF OnlyKeyedBegin, OnlyKeyedRecorded, Req
<1>4. WorkersFoundNothing'
  BY <1>1, <1>2 DEF WorkersFoundNothing, Working, Recorded, Req
<1>5. KeysAreExclusive'
  BY <1>1, <1>2 DEF KeysAreExclusive, HasKey, Req
<1>6. OneKeyOneRequest' BY <1>1 DEF OneKeyOneRequest
<1> QED BY <1>1, <1>3, <1>4, <1>5, <1>6

(* Of two calls that would have keys of one scope after the step, one is   *)
(* taking the lock now, and the other holds it.                            *)
LEMMA LockKeeps ==
  ASSUME KeysInv, NEW c \in Calls, Lock(c)
  PROVE  KeysInv'
<1> USE DEF KeysInv
<1>1. /\ TxShape' /\ OthersStay(c) /\ record' = record
      /\ tx'[c].step = tx[c].step /\ tx'[c].req = tx[c].req
      /\ tx[c].held \in Nat /\ tx'[c].held = tx[c].held + 1
  BY ShapeLock DEF Lock
<1>2. \A e \in Calls : e # c => tx'[e] = tx[e] BY <1>1 DEF OthersStay
<1>3. OnlyKeyedBegin' /\ OnlyKeyedRecorded'
  BY <1>1, <1>2 DEF OnlyKeyedBegin, OnlyKeyedRecorded, Req
<1>4. WorkersFoundNothing'
  BY <1>1, <1>2 DEF WorkersFoundNothing, Working, Recorded, Req
<1>5. ASSUME NEW e \in Calls, e # c, HasKey(c)', HasKey(e)
      PROVE  Scope(Req(c)) # Scope(Req(e))
  <2>1. CASE tx[c].held >= 1
    <3>1. HasKey(c) BY <2>1, <1>1, <1>5 DEF HasKey, Req
    <3> QED BY <3>1, <1>5 DEF KeysAreExclusive
  <2>2. CASE tx[c].held = 0
    <3>1. NextLock(c) = <<"key", Scope(Req(c))>>
      BY <2>2, <1>1, <1>5, KeyIsFirst DEF NextLock, HasKey, Req
    <3>2. ~Holds(e, <<"key", Scope(Req(c))>>)
      BY <3>1 DEF Lock, Free
    <3>3. Holds(e, <<"key", Scope(Req(e))>>) BY <1>5, KeyIsHeld
    <3> QED BY <3>2, <3>3
  <2> QED BY <2>1, <2>2, <1>1
<1>6. KeysAreExclusive'
  <2> SUFFICES ASSUME NEW e \in Calls, NEW f \in Calls, HasKey(e)', HasKey(f)', e # f
               PROVE  Scope(Req(e))' # Scope(Req(f))'
    BY DEF KeysAreExclusive
  <2>1. CASE e # c /\ f # c
    BY <2>1, <1>2 DEF KeysAreExclusive, HasKey, Req
  <2>2. CASE e = c
    <3>1. HasKey(f) BY <2>2, <1>2 DEF HasKey, Req
    <3>2. Scope(Req(c)) # Scope(Req(f)) BY <3>1, <2>2, <1>5
    <3> QED BY <3>2, <2>2, <1>1, <1>2 DEF Req, Scope
  <2>3. CASE f = c
    <3>1. HasKey(e) BY <2>3, <1>2 DEF HasKey, Req
    <3>2. Scope(Req(c)) # Scope(Req(e)) BY <3>1, <2>3, <1>5
    <3> QED BY <3>2, <2>3, <1>1, <1>2 DEF Req, Scope
  <2> QED BY <2>1, <2>2, <2>3
<1>7. OneKeyOneRequest' BY <1>1 DEF OneKeyOneRequest
<1> QED BY <1>1, <1>3, <1>4, <1>6, <1>7

(* A call starts its work keeping the invariant: it holds its key and has  *)
(* just found no record of it.                                             *)
LEMMA StartWorkKeeps ==
  ASSUME KeysInv, NEW c \in Calls, StartWork(c)
  PROVE  KeysInv'
<1> USE DEF KeysInv
<1>1. /\ TxShape' /\ OthersStay(c) /\ record' = record
      /\ tx'[c].step = "locking" /\ tx'[c].req = tx[c].req /\ tx'[c].held = tx[c].held
  BY ShapeStep DEF StartWork, Steps
<1>2. \A e \in Calls : e # c => tx'[e] = tx[e] BY <1>1 DEF OthersStay
<1>3. Req(c).op \in Keyed /\ tx[c].held = 1 /\ Recorded(Req(c)) = {} /\ tx[c].step = "begun"
  BY KeyIsFirst DEF StartWork, Looks, OnlyKeyedBegin
<1>4. OnlyKeyedBegin' /\ OnlyKeyedRecorded'
  BY <1>1, <1>2 DEF OnlyKeyedBegin, OnlyKeyedRecorded, Req
<1>5. WorkersFoundNothing'
  BY <1>1, <1>2, <1>3 DEF WorkersFoundNothing, Working, Recorded, Req
<1>6. KeysAreExclusive'
  BY <1>1, <1>2, <1>3 DEF KeysAreExclusive, HasKey, Req
<1>7. OneKeyOneRequest' BY <1>1 DEF OneKeyOneRequest
<1> QED BY <1>1, <1>4, <1>5, <1>6, <1>7

(* Deciding to go ahead keeps the invariant: it moves no lock and makes no *)
(* record.                                                                 *)
LEMMA AcceptKeeps ==
  ASSUME KeysInv, NEW c \in Calls, Accept(c)
  PROVE  KeysInv'
<1> USE DEF KeysInv
<1>1. /\ TxShape' /\ OthersStay(c) /\ record' = record
      /\ tx'[c].step = "decided" /\ tx'[c].req = tx[c].req /\ tx'[c].held = tx[c].held
  BY ShapeStep DEF Accept, Steps
<1>2. \A e \in Calls : e # c => tx'[e] = tx[e] BY <1>1 DEF OthersStay
<1>3. tx[c].step = "locking" BY DEF Accept, Decides
<1>4. OnlyKeyedBegin' /\ OnlyKeyedRecorded'
  BY <1>1, <1>2 DEF OnlyKeyedBegin, OnlyKeyedRecorded, Req
<1>5. WorkersFoundNothing'
  BY <1>1, <1>2, <1>3 DEF WorkersFoundNothing, Working, Recorded, Req
<1>6. KeysAreExclusive'
  BY <1>1, <1>2, <1>3 DEF KeysAreExclusive, HasKey, Req
<1>7. OneKeyOneRequest' BY <1>1 DEF OneKeyOneRequest
<1> QED BY <1>1, <1>4, <1>5, <1>6, <1>7

(* The record is made by a call that has the key and found none, so no     *)
(* call at work has a request of that scope, and no record has.            *)
LEMMA CommitKeeps ==
  ASSUME KeysInv, NEW c \in Calls, Commit(c)
  PROVE  KeysInv'
<1> USE DEF KeysInv
<1>1. TxShape' /\ OthersStay(c) /\ tx'[c].step = "idle"
  BY ShapeEnd DEF Commit
<1>2. \A e \in Calls : e # c => tx'[e] = tx[e] BY <1>1 DEF OthersStay
<1>3. record' = IF Req(c).op \in Keyed THEN record \cup {Req(c)} ELSE record
  BY DEF Commit
<1>4. tx[c].step = "decided" BY DEF Commit
<1>5. OnlyKeyedBegin' /\ OnlyKeyedRecorded'
  BY <1>1, <1>2, <1>3 DEF OnlyKeyedBegin, OnlyKeyedRecorded, Req
<1>6. KeysAreExclusive'
  BY <1>1, <1>2 DEF KeysAreExclusive, HasKey, Req
<1>7. CASE Req(c).op \notin Keyed
  <2>1. record' = record BY <1>3, <1>7
  <2>2. WorkersFoundNothing'
    BY <2>1, <1>1, <1>2 DEF WorkersFoundNothing, Working, Recorded, Req
  <2>3. OneKeyOneRequest' BY <2>1 DEF OneKeyOneRequest
  <2> QED BY <2>2, <2>3, <1>1, <1>5, <1>6
<1>8. CASE Req(c).op \in Keyed
  <2>1. record' = record \cup {Req(c)} BY <1>3, <1>8
  <2>2. tx[c].held >= 1 /\ Recorded(Req(c)) = {} /\ HasKey(c)
    BY <1>4, <1>8 DEF WorkersFoundNothing, Working, HasKey
  <2>3. WorkersFoundNothing'
    <3> SUFFICES ASSUME NEW e \in Calls, Working(e)'
                 PROVE  tx'[e].held >= 1 /\ Recorded(Req(e))' = {}
      BY DEF WorkersFoundNothing, Req
    <3>1. e # c /\ tx'[e] = tx[e] /\ Working(e)
      BY <1>1, <1>2 DEF Working, Req
    <3>2. tx[e].held >= 1 /\ Recorded(Req(e)) = {} BY <3>1 DEF WorkersFoundNothing
    <3>3. HasKey(e) BY <3>1, <3>2 DEF HasKey, Working
    <3>4. Scope(Req(c)) # Scope(Req(e)) BY <2>2, <3>1, <3>3 DEF KeysAreExclusive
    <3> QED BY <2>1, <3>1, <3>2, <3>4 DEF Recorded, Req
  <2>4. OneKeyOneRequest' BY <2>1, <2>2 DEF OneKeyOneRequest, Recorded
  <2> QED BY <2>3, <2>4, <1>1, <1>5, <1>6
<1> QED BY <1>7, <1>8

-----------------------------------------------------------------------------
(* Every step keeps the invariant.                                         *)
LEMMA KeysStep == KeysInv /\ [Next]_vars => KeysInv'
<1> SUFFICES ASSUME KeysInv, [Next]_vars PROVE KeysInv' OBVIOUS
<1>1. CASE UNCHANGED <<tx, record>>
  BY <1>1 DEF KeysInv, TxShape, Call, OnlyKeyedBegin, OnlyKeyedRecorded, WorkersFoundNothing,
              Working, KeysAreExclusive, HasKey, OneKeyOneRequest, Recorded, Req
<1>2. ASSUME NEW a \in Admins, NEW op \in Operations, NEW id, Send(a, op, id)
      PROVE  KeysInv'
  BY <1>1, <1>2 DEF Send
<1>3. ASSUME NEW c \in Calls, NEW q, Begin(c, q) PROVE KeysInv'
  BY <1>3, BeginKeeps
<1>4. ASSUME NEW c \in Calls, Replay(c) \/ KeyConflict(c) \/ Refuse(c) \/ Break(c)
      PROVE  KeysInv'
  BY <1>4, EndKeeps DEF Replay, KeyConflict, Refuse, Break
<1> QED BY <1>1, <1>2, <1>3, <1>4, LockKeeps, StartWorkKeeps, AcceptKeeps, CommitKeeps
        DEF Next, vars

(* The invariant holds when no request has been sent yet.                  *)
LEMMA KeysStart == Init => KeysInv
<1> SUFFICES ASSUME Init PROVE KeysInv OBVIOUS
<1>1. tx \in [Calls -> Call({Nil}, {Nil}, {Nil}, {Nil}, {Nil})]
  BY DEF Init, Idle, Call, Steps
<1>2. TxShape BY <1>1 DEF TxShape
<1>3. \A c \in Calls : tx[c].step = "idle" BY DEF Init, Idle
<1>4. record = {} BY DEF Init
<1> QED BY <1>2, <1>3, <1>4 DEF KeysInv, OnlyKeyedBegin, OnlyKeyedRecorded,
           WorkersFoundNothing, Working, KeysAreExclusive, HasKey, OneKeyOneRequest

(* The invariant is kept for good; what the records promise follows from   *)
(* it.                                                                     *)
THEOREM KeysInvariant == Spec => []KeysInv
BY KeysStart, KeysStep, PTL DEF Spec

(* An Idempotency-Key stands for one request, however many calls race with *)
(* it and however often they are broken off.                               *)
THEOREM KeysStandForOne == Spec => []OneKeyOneRequest
<1>1. KeysInv => OneKeyOneRequest BY DEF KeysInv
<1> QED BY <1>1, KeysInvariant, PTL

(* No call refuses a keyed request that has been carried out.              *)
LEMMA RefusalIsNew ==
  ASSUME KeysInv, NEW c \in Calls, Refuse(c)
  PROVE  Req(c) \notin record
<1>1. tx[c].step = "locking" BY DEF Refuse, Decides
<1>2. CASE Req(c).op \notin Keyed BY <1>2 DEF KeysInv, OnlyKeyedRecorded
<1>3. CASE Req(c).op \in Keyed
  <2>1. Recorded(Req(c)) = {}
    BY <1>1, <1>3 DEF KeysInv, WorkersFoundNothing, Working
  <2> QED BY <2>1 DEF Recorded
<1> QED BY <1>2, <1>3

(* Whoever repeats a request that has been carried out gets its answer,    *)
(* never a conflict with what it did itself.                               *)
THEOREM DoneStaysDone == Spec => DoneIsNeverRefused
<1>1. KeysInv => [\A c \in Calls : Refuse(c) => Req(c) \notin record]_vars
  BY RefusalIsNew
<1> QED BY <1>1, KeysInvariant, PTL DEF DoneIsNeverRefused

-----------------------------------------------------------------------------
(* What the rows are, and what the calls know of them.                     *)

DrawRow(V) ==
    [phase : V, visibility : V, dates : V, current : V, nextNo : V, editVersion : V]

RevRow(V) ==
    [workflow : V, draw : V, rule : V, no : V, basedOn : V, kind : V, dates : V,
     payload : V, contentHash : V, reviewedHash : V, reviewedBy : V,
     publishedBy : V, lastEditedBy : V, editVersion : V]

BatchRow(V) == [status : V, draw : V, rule : V, kind : V, payload : V, created : V]

(* The columns of the tables; nothing is said of the values in them.       *)
RowShape ==
    \E V : /\ rule \in [Rules -> V]
           /\ draw \in [Draws -> DrawRow(V)]
           /\ rev \in [Revisions -> RevRow(V)]
           /\ batch \in [Batches -> BatchRow(V)]

Existing(r) == rev[r].workflow # "ABSENT"

(* Foreign keys, and what they say together.                               *)
RowsAgree ==
    /\ \A r \in Revisions : Existing(r) =>
          /\ rev[r].draw \in Draws /\ rev[r].rule \in Rules
          /\ RuleLottery[rev[r].rule] = LotteryOf[rev[r].draw]
    /\ \A d \in Draws : draw[d].current # Nil =>
          /\ draw[d].current \in Revisions
          /\ Existing(draw[d].current) /\ rev[draw[d].current].draw = d
    /\ \A b \in Batches : batch[b].draw # Nil =>
          /\ batch[b].draw \in Draws /\ batch[b].rule \in Rules
          /\ RuleLottery[batch[b].rule] = LotteryOf[batch[b].draw]

(* A request is of somebody who may make it, about something there is.     *)
GoodRequest(q) ==
    /\ q.actor \in Admins /\ Allowed(q.actor, q.op)
    /\ q.op \in AllOperations
    /\ q.op \in OnRevision => q.id \in Revisions /\ Existing(q.id)
    /\ q.op \in OnDraw => q.id \in Draws
    /\ q.op \in OnRule => q.id \in Rules
    /\ q.op = "createDraft" => q.id \in Batches /\ batch[q.id].draw # Nil
    /\ q.body \in Bodies(q.op)
    /\ q.op \in OnRule \cup {"correct", "createDraft"} => q.page = Unseen

(* No two calls hold one lock.                                             *)
LocksAreExclusive == \A c, e \in Calls : \A x : Holds(c, x) /\ Holds(e, x) => c = e

(* A row that is locked is as it was read; no other was read.              *)
AsRead(c) ==
    /\ tx[c].draw = IF Holds(c, <<"draw", DrawOf(Req(c))>>) THEN draw[DrawOf(Req(c))] ELSE Nil
    /\ tx[c].rev = IF Holds(c, <<"revision", Req(c).id>>) THEN rev[Req(c).id] ELSE Nil
    /\ tx[c].rule = IF Holds(c, <<"rule", Req(c).id>>) THEN rule[Req(c).id] ELSE Nil
    /\ tx[c].batch = IF Holds(c, <<"batch", Req(c).id>>) THEN batch[Req(c).id] ELSE Nil

(* The version on the page of a request is that of the row.                *)
SeenRevision(q) ==
    /\ q.page.revision = q.id /\ q.page.revisionVersion = rev[q.id].editVersion
    /\ rev[q.id].editVersion < MaxRevisionVersion

SeenDraw(q) ==
    /\ q.page.draw = q.id /\ q.page.drawVersion = draw[q.id].editVersion
    /\ draw[q.id].editVersion < MaxDrawVersion

SeenCurrent(q) ==
    /\ q.page.current = draw[DrawOf(q)].current
    /\ rev[q.id].basedOn = draw[DrawOf(q)].current

(* The guards of the handlers, on the committed rows.                      *)
Grounds(q) ==
    /\ q.op \in OnRevision => SeenRevision(q)
    /\ q.op = "patch" => rev[q.id].workflow = "DRAFT" /\ rev[q.id].rule \in CompilableRules
    /\ q.op = "reopen" => rev[q.id].workflow = "READY"
    /\ q.op = "review" =>
          /\ rev[q.id].workflow = "DRAFT"
          /\ Pipeline!Hash(rev[q.id]) = rev[q.id].contentHash
          /\ Pipeline!MayReview(q.actor, q.id, q.body.flag)
          /\ Pipeline!Publishable(q.id)
    /\ q.op = "publish" =>
          /\ SeenCurrent(q) /\ rev[q.id].workflow = "READY"
          /\ Pipeline!ReviewStands(q.id) /\ Pipeline!Publishable(q.id)
          /\ draw[DrawOf(q)].visibility = "SUSPENDED" => q.body.flag
          /\ draw[DrawOf(q)].phase # "CANCELLED"
          /\ ~Pipeline!Downgrades(q.id)
          /\ rev[q.id].dates \in DrawDates
          /\ draw[DrawOf(q)].editVersion < MaxDrawVersion
    /\ q.op \in OnDraw \ {"correct"} => SeenDraw(q)
    /\ q.op = "suspend" => draw[q.id].visibility = "ACTIVE"
    /\ q.op = "resume" => draw[q.id].visibility = "SUSPENDED"
    /\ q.op = "patchDraw" => Pipeline!MayPatchDraw(q.id, q.body.phase, q.body.dates)
    /\ q.op = "correct" =>
          /\ draw[q.id].current # Nil /\ Pipeline!Open(q.id) = {}
          /\ draw[q.id].editVersion < MaxDrawVersion
    /\ q.op = "approve" => rule[q.id] = "DRAFT" /\ q.id \in CompilableRules
    /\ q.op = "revoke" => rule[q.id] = "APPROVED"
    /\ q.op = "createDraft" =>
          /\ batch[q.id].status = "PREVIEW_READY"
          /\ rule[batch[q.id].rule] = "APPROVED" /\ Pipeline!KindStillFits(q.id)
          /\ draw[DrawOf(q)].editVersion < MaxDrawVersion

(* A call under way: it has taken its locks as planned and knows the rows  *)
(* it has locked, it goes on from its batch only if a draft can be made of *)
(* it, and what it has decided still has its grounds.                      *)
InOrder(c) ==
    /\ GoodRequest(Req(c))
    /\ tx[c].held \in 0..Len(Plan(Req(c)))
    /\ AsRead(c)
    /\ Req(c).op = "createDraft" /\ tx[c].held > 1 => tx[c].batch.status = "PREVIEW_READY"
    /\ tx[c].step = "decided" => tx[c].held = Len(Plan(Req(c))) /\ Grounds(Req(c))

TxInv ==
    /\ TxShape /\ RowShape /\ RowsAgree
    /\ \A q \in sent : GoodRequest(q)
    /\ \A c \in Calls : tx[c].step # "idle" => InOrder(c)
    /\ LocksAreExclusive

-----------------------------------------------------------------------------
(* Plans.                                                                  *)

(* Two sequences, one after the other.                                     *)
LEMMA Concatenation ==
  ASSUME NEW S, NEW a \in Seq(S), NEW b \in Seq(S)
  PROVE  /\ a \o b \in Seq(S)
         /\ Len(a) \in Nat /\ Len(b) \in Nat /\ Len(a \o b) = Len(a) + Len(b)
         /\ \A i \in 1..Len(a) : (a \o b)[i] = a[i]
         /\ \A i \in 1..Len(b) : (a \o b)[Len(a) + i] = b[i]
  OBVIOUS

(* Where the first elements of five sequences come to stand in one.        *)
Places(s, a, b, c, d, e) ==
    /\ Len(s) = Len(a) + Len(b) + Len(c) + Len(d) + Len(e)
    /\ Len(a) = 1 => s[1] = a[1]
    /\ Len(b) = 1 => s[Len(a) + 1] = b[1]
    /\ Len(c) = 1 => s[Len(a) + Len(b) + 1] = c[1]
    /\ Len(d) = 1 => s[Len(a) + Len(b) + Len(c) + 1] = d[1]
    /\ Len(e) = 1 => s[Len(a) + Len(b) + Len(c) + Len(d) + 1] = e[1]

(* Five sequences, one after the other.                                    *)
LEMMA Joined ==
  ASSUME NEW S, NEW a \in Seq(S), NEW b \in Seq(S), NEW c \in Seq(S),
         NEW d \in Seq(S), NEW e \in Seq(S)
  PROVE  Places(a \o b \o c \o d \o e, a, b, c, d, e)
<1> DEFINE ab == a \o b
           abc == ab \o c
           abcd == abc \o d
           s == abcd \o e
<1>1. ab \in Seq(S) /\ abc \in Seq(S) /\ abcd \in Seq(S) /\ s \in Seq(S)
  BY Concatenation
<1>2. /\ Len(ab) = Len(a) + Len(b) /\ Len(abc) = Len(ab) + Len(c)
      /\ Len(abcd) = Len(abc) + Len(d) /\ Len(s) = Len(abcd) + Len(e)
  BY <1>1, Concatenation
<1>3. /\ \A i \in 1..Len(a) : ab[i] = a[i]
      /\ \A i \in 1..Len(b) : ab[Len(a) + i] = b[i]
      /\ \A i \in 1..Len(ab) : abc[i] = ab[i]
      /\ \A i \in 1..Len(c) : abc[Len(ab) + i] = c[i]
      /\ \A i \in 1..Len(abc) : abcd[i] = abc[i]
      /\ \A i \in 1..Len(d) : abcd[Len(abc) + i] = d[i]
      /\ \A i \in 1..Len(abcd) : s[i] = abcd[i]
      /\ \A i \in 1..Len(e) : s[Len(abcd) + i] = e[i]
  BY <1>1, Concatenation
<1>4. /\ Len(a) \in Nat /\ Len(b) \in Nat /\ Len(c) \in Nat
      /\ Len(d) \in Nat /\ Len(e) \in Nat
  OBVIOUS
<1>5. s = a \o b \o c \o d \o e OBVIOUS
<1> HIDE DEF ab, abc, abcd, s
<1>6. Len(s) = Len(a) + Len(b) + Len(c) + Len(d) + Len(e) BY <1>2, <1>4
<1>7. Len(a) = 1 => s[1] = a[1] BY <1>2, <1>3, <1>4
<1>8. ASSUME Len(b) = 1 PROVE s[Len(a) + 1] = b[1]
  <2>1. ab[Len(a) + 1] = b[1] BY <1>3, <1>8
  <2>2. Len(a) + 1 \in 1..Len(ab) /\ Len(a) + 1 \in 1..Len(abc) /\ Len(a) + 1 \in 1..Len(abcd)
    BY <1>2, <1>4, <1>8
  <2> QED BY <2>1, <2>2, <1>3
<1>9. Len(c) = 1 => s[Len(a) + Len(b) + 1] = c[1] BY <1>2, <1>3, <1>4
<1>10. Len(d) = 1 => s[Len(a) + Len(b) + Len(c) + 1] = d[1] BY <1>2, <1>3, <1>4
<1>11. Len(e) = 1 => s[Len(a) + Len(b) + Len(c) + Len(d) + 1] = e[1] BY <1>2, <1>3, <1>4
<1> QED BY <1>5, <1>6, <1>7, <1>8, <1>9, <1>10, <1>11 DEF Places

(* A plan, lock by lock.                                                   *)
LaidOut(q) ==
    LET k == IF q.op \in Keyed THEN 1 ELSE 0
        b == k + IF q.op = "createDraft" THEN 1 ELSE 0
        l == b + IF q.op = "patchDraw" THEN 0 ELSE 1
        d == l + IF q.op \in OnRule THEN 0 ELSE 1
    IN  /\ Len(KeyLock(q)) = k
        /\ Len(Plan(q)) = d + IF q.op \in OnRevision \cup OnRule THEN 1 ELSE 0
        /\ q.op \in Keyed => Plan(q)[1] = <<"key", Scope(q)>>
        /\ q.op = "createDraft" => Plan(q)[k + 1] = <<"batch", q.id>>
        /\ q.op # "patchDraw" => Plan(q)[b + 1] = Lottery(q)
        /\ q.op \notin OnRule => Plan(q)[l + 1] = <<"draw", DrawOf(q)>>
        /\ q.op \in OnRevision => Plan(q)[d + 1] = <<"revision", q.id>>
        /\ q.op \in OnRule => Plan(q)[d + 1] = <<"rule", q.id>>

(* Plan puts the locks in this order.                                      *)
LEMMA PlanParts == ASSUME NEW q, q.op \in AllOperations PROVE LaidOut(q)
<1> DEFINE S == {<<"key", Scope(q)>>, <<"batch", q.id>>, Lottery(q), <<"draw", DrawOf(q)>>,
                 <<"revision", q.id>>, <<"rule", q.id>>}
           key == KeyLock(q)
           bat == BatchLock(q)
           lot == LotteryLock(q)
           drw == DrawLock(q)
           own == OwnLock(q)
<1>1. /\ <<"key", Scope(q)>> \in S /\ <<"batch", q.id>> \in S /\ Lottery(q) \in S
      /\ <<"draw", DrawOf(q)>> \in S /\ <<"revision", q.id>> \in S /\ <<"rule", q.id>> \in S
  OBVIOUS
<1> HIDE DEF S
<1>2. /\ key \in Seq(S) /\ Len(key) = IF q.op \in Keyed THEN 1 ELSE 0
      /\ q.op \in Keyed => key[1] = <<"key", Scope(q)>>
  BY <1>1 DEF KeyLock
<1>3. /\ bat \in Seq(S) /\ Len(bat) = IF q.op = "createDraft" THEN 1 ELSE 0
      /\ q.op = "createDraft" => bat[1] = <<"batch", q.id>>
  BY <1>1 DEF BatchLock
<1>4. /\ lot \in Seq(S) /\ Len(lot) = IF q.op = "patchDraw" THEN 0 ELSE 1
      /\ q.op # "patchDraw" => lot[1] = Lottery(q)
  BY <1>1 DEF LotteryLock
<1>5. /\ drw \in Seq(S) /\ Len(drw) = IF q.op \in OnRule THEN 0 ELSE 1
      /\ q.op \notin OnRule => drw[1] = <<"draw", DrawOf(q)>>
  BY <1>1 DEF DrawLock
<1>6. /\ own \in Seq(S) /\ Len(own) = IF q.op \in OnRevision \cup OnRule THEN 1 ELSE 0
      /\ q.op \in OnRevision => own[1] = <<"revision", q.id>>
      /\ q.op \in OnRule => own[1] = <<"rule", q.id>>
  BY <1>1 DEF OwnLock, OnRevision, OnRule
<1>7. Plan(q) = key \o bat \o lot \o drw \o own BY DEF Plan
<1> HIDE DEF key, bat, lot, drw, own
<1>8. /\ key \in Seq(S) /\ bat \in Seq(S) /\ lot \in Seq(S) /\ drw \in Seq(S) /\ own \in Seq(S)
  BY <1>2, <1>3, <1>4, <1>5, <1>6
<1>9. Places(Plan(q), key, bat, lot, drw, own)
  BY <1>7, <1>8, Joined
<1>10. Len(KeyLock(q)) = Len(key) BY DEF key
<1> QED BY <1>2, <1>3, <1>4, <1>5, <1>6, <1>9, <1>10 DEF Places, LaidOut

(* What stands in a plan, and what it lacks.                               *)
Planned(q) ==
    /\ Len(Plan(q)) \in Nat
    /\ Len(KeyLock(q)) \in 0..Len(Plan(q))
    /\ \A i \in 1..Len(Plan(q)) :
         \/ Plan(q)[i] = <<"key", Scope(q)>>
         \/ q.op = "createDraft" /\ i = 1 /\ Plan(q)[i] = <<"batch", q.id>>
         \/ Plan(q)[i] = Lottery(q)
         \/ q.op \notin OnRule /\ Plan(q)[i] = <<"draw", DrawOf(q)>>
         \/ q.op \in OnRevision /\ Plan(q)[i] = <<"revision", q.id>>
         \/ q.op \in OnRule /\ Plan(q)[i] = <<"rule", q.id>>
    /\ q.op = "createDraft" =>
         Len(Plan(q)) = 3 /\ Plan(q)[1] = <<"batch", q.id>>
    /\ q.op # "patchDraw" => \E i \in 1..Len(Plan(q)) : Plan(q)[i] = Lottery(q)
    /\ q.op \notin OnRule => \E i \in 1..Len(Plan(q)) : Plan(q)[i] = <<"draw", DrawOf(q)>>
    /\ q.op \in OnRevision => \E i \in 1..Len(Plan(q)) : Plan(q)[i] = <<"revision", q.id>>
    /\ q.op \in OnRule => \E i \in 1..Len(Plan(q)) : Plan(q)[i] = <<"rule", q.id>>

(* It holds of every plan.                                                 *)
LEMMA InPlan == ASSUME NEW q, q.op \in AllOperations PROVE Planned(q)
<1>0. LaidOut(q) BY PlanParts
<1> USE DEF OnRevision, OnRule, OnDraw, Keyed
<1>1. CASE q.op = "publish"
  <2>1. /\ Len(KeyLock(q)) = 1 /\ Len(Plan(q)) = 4
        /\ Plan(q)[1] = <<"key", Scope(q)>>
        /\ Plan(q)[2] = Lottery(q)
        /\ Plan(q)[3] = <<"draw", DrawOf(q)>>
        /\ Plan(q)[4] = <<"revision", q.id>>
    BY <1>1, <1>0 DEF LaidOut
  <2> QED BY <1>1, <2>1 DEF Planned
<1>2. CASE q.op \in {"patch", "reopen", "review"}
  <2>1. /\ Len(KeyLock(q)) = 0 /\ Len(Plan(q)) = 3
        /\ Plan(q)[1] = Lottery(q)
        /\ Plan(q)[2] = <<"draw", DrawOf(q)>>
        /\ Plan(q)[3] = <<"revision", q.id>>
    BY <1>2, <1>0 DEF LaidOut
  <2> QED BY <1>2, <2>1 DEF Planned
<1>3. CASE q.op \in {"suspend", "resume"}
  <2>1. /\ Len(KeyLock(q)) = 1 /\ Len(Plan(q)) = 3
        /\ Plan(q)[1] = <<"key", Scope(q)>>
        /\ Plan(q)[2] = Lottery(q)
        /\ Plan(q)[3] = <<"draw", DrawOf(q)>>
    BY <1>3, <1>0 DEF LaidOut
  <2> QED BY <1>3, <2>1 DEF Planned
<1>4. CASE q.op = "correct"
  <2>1. /\ Len(KeyLock(q)) = 0 /\ Len(Plan(q)) = 2
        /\ Plan(q)[1] = Lottery(q)
        /\ Plan(q)[2] = <<"draw", DrawOf(q)>>
    BY <1>4, <1>0 DEF LaidOut
  <2> QED BY <1>4, <2>1 DEF Planned
<1>5. CASE q.op = "patchDraw"
  <2>1. /\ Len(KeyLock(q)) = 0 /\ Len(Plan(q)) = 1
        /\ Plan(q)[1] = <<"draw", DrawOf(q)>>
    BY <1>5, <1>0 DEF LaidOut
  <2> QED BY <1>5, <2>1 DEF Planned
<1>6. CASE q.op \in OnRule
  <2>1. /\ Len(KeyLock(q)) = 1 /\ Len(Plan(q)) = 3
        /\ Plan(q)[1] = <<"key", Scope(q)>>
        /\ Plan(q)[2] = Lottery(q)
        /\ Plan(q)[3] = <<"rule", q.id>>
    BY <1>6, <1>0 DEF LaidOut
  <2> QED BY <1>6, <2>1 DEF Planned
<1>7. CASE q.op = "createDraft"
  <2>1. /\ Len(KeyLock(q)) = 0 /\ Len(Plan(q)) = 3
        /\ Plan(q)[1] = <<"batch", q.id>>
        /\ Plan(q)[2] = Lottery(q)
        /\ Plan(q)[3] = <<"draw", DrawOf(q)>>
    BY <1>7, <1>0 DEF LaidOut
  <2> QED BY <1>7, <2>1 DEF Planned
<1> QED BY <1>1, <1>2, <1>3, <1>4, <1>5, <1>6, <1>7 DEF AllOperations, Planned

-----------------------------------------------------------------------------
(* Steps that leave the rows alone.                                        *)

(* Who leaves the rows alone leaves alone what is said of them.            *)
LEMMA RowsStay ==
  ASSUME UNCHANGED rows
  PROVE  /\ RowShape => RowShape'
         /\ RowsAgree => RowsAgree'
         /\ \A q : /\ DrawOf(q)' = DrawOf(q) /\ Lottery(q)' = Lottery(q)
                   /\ Plan(q)' = Plan(q)
                   /\ GoodRequest(q) => GoodRequest(q)'
                   /\ Grounds(q) => Grounds(q)'
<1> USE DEF rows
<1>1. RowShape => RowShape' BY DEF RowShape
<1>2. RowsAgree => RowsAgree' BY DEF RowsAgree, Existing
<1>3. ASSUME NEW q
      PROVE  DrawOf(q)' = DrawOf(q) /\ LotteryFor(q)' = LotteryFor(q)
  BY DEF DrawOf, LotteryFor
<1>4. ASSUME NEW q PROVE Plan(q)' = Plan(q) /\ Lottery(q)' = Lottery(q)
  BY <1>3 DEF Plan, KeyLock, BatchLock, LotteryLock, DrawLock, OwnLock, Lottery, Scope
<1>5. ASSUME NEW q, GoodRequest(q) PROVE GoodRequest(q)'
  BY <1>5 DEF GoodRequest, Existing
<1>6. ASSUME NEW q, Grounds(q) PROVE Grounds(q)'
  BY <1>3, <1>6 DEF Grounds, SeenRevision, SeenDraw, SeenCurrent, Pipeline!Hash,
     Pipeline!MayReview, Pipeline!Publishable, Pipeline!ReviewStands, Pipeline!Downgrades,
     Pipeline!MayPatchDraw, Pipeline!Open, Pipeline!KindStillFits
<1> QED BY <1>1, <1>2, <1>3, <1>4, <1>5, <1>6

(* A call that does nothing, while the rows stay, stays in order.          *)
LEMMA CallStays ==
  ASSUME UNCHANGED rows, NEW c \in Calls, tx'[c] = tx[c]
  PROVE  /\ \A x : Holds(c, x)' = Holds(c, x)
         /\ InOrder(c) => InOrder(c)'
<1>1. \A q : /\ DrawOf(q)' = DrawOf(q) /\ Plan(q)' = Plan(q)
             /\ GoodRequest(q) => GoodRequest(q)'
             /\ Grounds(q) => Grounds(q)'
  BY RowsStay
<1>2. Req(c)' = Req(c) BY DEF Req
<1>3. \A x : Holds(c, x)' = Holds(c, x) BY <1>1, <1>2 DEF Holds
<1>4. DrawOf(Req(c))' = DrawOf(Req(c)) /\ Plan(Req(c))' = Plan(Req(c)) BY <1>1, <1>2
<1>5. AsRead(c) => AsRead(c)' BY <1>2, <1>3, <1>4 DEF AsRead, rows
<1> QED BY <1>1, <1>2, <1>3, <1>4, <1>5 DEF InOrder

(* A step of one call that leaves the rows and the requests alone, takes   *)
(* no lock but a free one, and leaves the call in order.                   *)
LEMMA QuietStep ==
  ASSUME TxInv, UNCHANGED <<rows, sent>>, NEW c \in Calls, TxShape', OthersStay(c),
         (tx[c].step # "idle" => InOrder(c))',
         \A x : Holds(c, x)' => Holds(c, x) \/ Free(x)
  PROVE  TxInv'
<1>0. UNCHANGED rows OBVIOUS
<1>1. RowShape' /\ RowsAgree' /\ \A q \in sent' : GoodRequest(q)'
  BY <1>0, RowsStay DEF TxInv
<1>2. \A e \in Calls : e # c =>
        /\ tx'[e] = tx[e]
        /\ \A x : Holds(e, x)' = Holds(e, x)
        /\ InOrder(e) => InOrder(e)'
  BY <1>0, CallStays DEF OthersStay
<1>3. \A e \in Calls : (tx[e].step # "idle" => InOrder(e))'
  BY <1>2 DEF TxInv
<1>4. LocksAreExclusive' BY <1>2 DEF TxInv, LocksAreExclusive, Free
<1> QED BY <1>1, <1>3, <1>4 DEF TxInv

(* A new request is good when it is sent.                                  *)
LEMMA SendInOrder ==
  ASSUME TxInv, NEW a \in Admins, NEW op \in Operations, NEW id, Send(a, op, id)
  PROVE  TxInv'
<1>0. UNCHANGED rows BY DEF Send
<1>1. \A q : GoodRequest(q) => GoodRequest(q)' BY <1>0, RowsStay
<1>2. PICK q : q.actor = a /\ q.op = op /\ q.id = id /\ q.body \in Bodies(op)
              /\ q.page = PageOf(op, id) /\ sent' = sent \cup {q}
  <2>1. PICK body \in Bodies(op), key \in (IF op \in Keyed THEN Keys ELSE {Nil}) :
           sent' = sent \cup {[actor |-> a, op |-> op, id |-> id, body |-> body,
                               page |-> PageOf(op, id), key |-> key]}
    BY DEF Send
  <2> QED BY <2>1
<1>3. op \in AllOperations BY RequestAssumption
<1>4. op \in OnRule \cup {"correct", "createDraft"} => PageOf(op, id) = Unseen
  BY DEF PageOf, OnRule, OnDraw, OnRevision
<1>5. /\ op \in OnRevision => id \in Revisions /\ Existing(id)
      /\ op \in OnDraw => id \in Draws
      /\ op \in OnRule => id \in Rules
      /\ op = "createDraft" => id \in Batches /\ batch[id].draw # Nil
  BY DEF Send, Exists, Existing, OnRule, OnDraw, OnRevision
<1>6. GoodRequest(q)
  BY <1>2, <1>3, <1>4, <1>5 DEF GoodRequest, Send
<1>7. \A p \in sent' : GoodRequest(p)' BY <1>1, <1>2, <1>6 DEF TxInv
<1>8. tx' = tx BY DEF Send
<1>9. TxShape' BY <1>8 DEF TxInv, TxShape, Call
<1>10. RowShape' /\ RowsAgree' BY <1>0, RowsStay DEF TxInv
<1>11. \A e \in Calls : /\ tx'[e] = tx[e]
                        /\ \A x : Holds(e, x)' = Holds(e, x)
                        /\ InOrder(e) => InOrder(e)'
  BY <1>0, <1>8, CallStays
<1>12. \A e \in Calls : (tx[e].step # "idle" => InOrder(e))' BY <1>11 DEF TxInv
<1>13. LocksAreExclusive' BY <1>11 DEF TxInv, LocksAreExclusive
<1> QED BY <1>7, <1>9, <1>10, <1>12, <1>13 DEF TxInv

(* A call begins with nothing locked and nothing read.                     *)
LEMMA BeginInOrder ==
  ASSUME TxInv, NEW c \in Calls, NEW q \in sent, Begin(c, q)
  PROVE  TxInv'
<1>0. UNCHANGED rows /\ sent' = sent BY DEF Begin
<1>1. TxShape' /\ OthersStay(c) BY ShapeBegin DEF TxInv
<1>2. /\ tx'[c].req = q /\ tx'[c].held = 0 /\ tx'[c].step # "decided"
      /\ tx'[c].draw = Nil /\ tx'[c].rev = Nil /\ tx'[c].rule = Nil /\ tx'[c].batch = Nil
  <2>1. PICK Q, D, R, U, B : tx \in [Calls -> Call(Q, D, R, U, B)]
    BY DEF TxInv, TxShape
  <2> QED BY <2>1 DEF Begin, Idle
<1>3. \A x : ~Holds(c, x)' BY <1>2 DEF Holds
<1>4. GoodRequest(q)' /\ Plan(q)' = Plan(q) BY <1>0, RowsStay DEF TxInv
<1>5. Len(Plan(q)) \in Nat
  <2>1. q.op \in AllOperations BY DEF TxInv, GoodRequest
  <2> QED BY <2>1, InPlan DEF Planned
<1>6. Req(c)' = q BY <1>2 DEF Req
<1>7. AsRead(c)' BY <1>2, <1>3 DEF AsRead
<1>8. InOrder(c)' BY <1>2, <1>4, <1>5, <1>6, <1>7 DEF InOrder
<1> QED BY <1>0, <1>1, <1>3, <1>8, QuietStep

(* A call that ends leaves nothing to keep in order.                       *)
LEMMA EndInOrder ==
  ASSUME TxInv, NEW c \in Calls, Ends(c)
  PROVE  TxInv'
<1>0. UNCHANGED rows /\ sent' = sent BY DEF Ends
<1>1. TxShape' /\ OthersStay(c) /\ tx'[c].step = "idle" BY ShapeEnd DEF TxInv, Ends
<1>2. \A x : ~Holds(c, x)' BY <1>1 DEF Holds
<1> QED BY <1>0, <1>1, <1>2, QuietStep

(* A call goes on to its next step with the locks and rows it has.         *)
LEMMA StepInOrder ==
  ASSUME TxInv, NEW c \in Calls, NEW s \in Steps, tx[c].step # "idle", s # "idle",
         tx' = [tx EXCEPT ![c].step = s], UNCHANGED <<rows, sent>>,
         s = "decided" => tx[c].held = Len(Plan(Req(c))) /\ Grounds(Req(c))
  PROVE  TxInv'
<1>0. UNCHANGED rows OBVIOUS
<1>1. TxShape' /\ OthersStay(c) /\ tx'[c].step = s BY ShapeStep DEF TxInv
<1>2. /\ Req(c)' = Req(c) /\ tx'[c].held = tx[c].held
      /\ tx'[c].draw = tx[c].draw /\ tx'[c].rev = tx[c].rev
      /\ tx'[c].rule = tx[c].rule /\ tx'[c].batch = tx[c].batch
  <2>1. PICK Q, D, R, U, B : tx \in [Calls -> Call(Q, D, R, U, B)]
    BY DEF TxInv, TxShape
  <2> QED BY <2>1 DEF Call, Req
<1>3. InOrder(c) BY DEF TxInv
<1>4. /\ DrawOf(Req(c))' = DrawOf(Req(c)) /\ Plan(Req(c))' = Plan(Req(c))
      /\ GoodRequest(Req(c)) => GoodRequest(Req(c))'
      /\ Grounds(Req(c)) => Grounds(Req(c))'
  BY <1>0, <1>2, RowsStay
<1>5. \A x : Holds(c, x)' = Holds(c, x) BY <1>1, <1>2, <1>4 DEF Holds
<1>6. AsRead(c) => AsRead(c)' BY <1>2, <1>4, <1>5 DEF AsRead, rows
<1>7. InOrder(c)' BY <1>1, <1>2, <1>3, <1>4, <1>6 DEF InOrder
<1> QED BY <1>0, <1>1, <1>5, <1>7, QuietStep

(* A call takes the next lock of its plan, which nobody holds, and knows   *)
(* the row it is on as it is now.                                          *)
LEMMA LockInOrder ==
  ASSUME TxInv, NEW c \in Calls, Lock(c)
  PROVE  TxInv'
<1>q. PICK q : q = Req(c) OBVIOUS
<1> DEFINE x == NextLock(c)
           n == tx[c].held
<1>0. UNCHANGED rows /\ sent' = sent BY DEF Lock
<1>1. TxShape' /\ OthersStay(c) BY ShapeLock DEF TxInv
<1>2. /\ tx'[c].step = tx[c].step /\ Req(c)' = q /\ n \in Nat /\ tx'[c].held = n + 1
  BY <1>q, ShapeLock DEF TxInv, Req
<1>3. tx'[c] = AfterLock(c, x)
  <2>1. PICK Q, D, R, U, B : tx \in [Calls -> Call(Q, D, R, U, B)]
    BY DEF TxInv, TxShape
  <2> QED BY <2>1 DEF Lock
<1>4. /\ tx'[c].draw = IF x[1] = "draw" THEN draw[x[2]] ELSE tx[c].draw
      /\ tx'[c].rev = IF x[1] = "revision" THEN rev[x[2]] ELSE tx[c].rev
      /\ tx'[c].rule = IF x[1] = "rule" THEN rule[x[2]] ELSE tx[c].rule
      /\ tx'[c].batch = IF x[1] = "batch" THEN batch[x[2]] ELSE tx[c].batch
  BY <1>3 DEF AfterLock
<1>5. tx[c].step \in {"begun", "locking"} /\ InOrder(c) BY DEF Lock, MayLock, TxInv
<1>6. Planned(q) BY <1>q, <1>5, InPlan DEF InOrder, GoodRequest
<1>7. n + 1 \in 1..Len(Plan(q)) /\ x = Plan(q)[n + 1] /\ n \in 0..Len(Plan(q))
  BY <1>q, <1>2, <1>5, <1>6 DEF Lock, MayLock, NextLock, Planned
<1>8. /\ DrawOf(q)' = DrawOf(q) /\ Plan(q)' = Plan(q)
      /\ GoodRequest(q) => GoodRequest(q)'
  BY <1>0, RowsStay
<1> HIDE DEF x, n
<1>9. \A y : Holds(c, y)' <=> Holds(c, y) \/ y = x
  <2> SUFFICES ASSUME NEW y PROVE Holds(c, y)' <=> Holds(c, y) \/ y = x OBVIOUS
  <2>1. Holds(c, y)' <=> \E i \in 1..(n + 1) : Plan(q)[i] = y
    BY <1>2, <1>5, <1>8 DEF Holds
  <2>2. Holds(c, y) <=> \E i \in 1..n : Plan(q)[i] = y
    BY <1>q, <1>5 DEF Holds, n
  <2>3. \A i : i \in 1..(n + 1) <=> i \in 1..n \/ i = n + 1 BY <1>2
  <2> QED BY <2>1, <2>2, <2>3, <1>7
<1>10. \/ x[1] = "key" \/ x[1] = "lottery"
       \/ n = 0 /\ x = <<"batch", q.id>>
       \/ x = <<"draw", DrawOf(q)>>
       \/ x = <<"revision", q.id>>
       \/ x = <<"rule", q.id>>
  BY <1>2, <1>6, <1>7 DEF Planned, Lottery
<1>11. AsRead(c)'
  <2>1. AsRead(c) BY <1>5 DEF InOrder
  <2>2. UNCHANGED <<rule, draw, rev, batch>> BY <1>0 DEF rows
  <2>3. tx'[c].draw = IF Holds(c, <<"draw", DrawOf(q)>>)' THEN draw[DrawOf(q)] ELSE Nil
    BY <1>q, <2>1, <1>4, <1>8, <1>9, <1>10 DEF AsRead
  <2>4. tx'[c].rev = IF Holds(c, <<"revision", q.id>>)' THEN rev[q.id] ELSE Nil
    BY <1>q, <2>1, <1>4, <1>9, <1>10 DEF AsRead
  <2>5. tx'[c].rule = IF Holds(c, <<"rule", q.id>>)' THEN rule[q.id] ELSE Nil
    BY <1>q, <2>1, <1>4, <1>9, <1>10 DEF AsRead
  <2>6. tx'[c].batch = IF Holds(c, <<"batch", q.id>>)' THEN batch[q.id] ELSE Nil
    BY <1>q, <2>1, <1>4, <1>9, <1>10 DEF AsRead
  <2> QED BY <2>2, <2>3, <2>4, <2>5, <2>6, <1>2, <1>8 DEF AsRead
<1>12. q.op = "createDraft" /\ n + 1 > 1 => tx'[c].batch.status = "PREVIEW_READY"
  <2> SUFFICES ASSUME q.op = "createDraft", n + 1 > 1
               PROVE  tx'[c].batch.status = "PREVIEW_READY"
    OBVIOUS
  <2>1. x[1] # "batch" BY <1>2, <1>10
  <2>2. tx[c].batch.status = "PREVIEW_READY"
    BY <1>q, <1>2, <1>5 DEF InOrder, Lock, MayLock, EndsEarly, n
  <2> QED BY <2>1, <2>2, <1>4
<1>13. InOrder(c)' BY <1>q, <1>2, <1>5, <1>7, <1>8, <1>11, <1>12 DEF InOrder
<1>14. \A y : Holds(c, y)' => Holds(c, y) \/ Free(y) BY <1>9 DEF Lock, x
<1> QED BY <1>0, <1>1, <1>13, <1>14, QuietStep

(* A call at the end of its plan holds all of its locks and no other.      *)
LEMMA HeldLocks ==
  ASSUME NEW c \in Calls, InOrder(c), tx[c].step # "idle", tx[c].held = Len(Plan(Req(c)))
  PROVE  LET q == Req(c)
         IN  /\ q.op # "patchDraw" => Holds(c, Lottery(q))
             /\ q.op \notin OnRule => Holds(c, <<"draw", DrawOf(q)>>)
             /\ q.op \in OnRevision <=> Holds(c, <<"revision", q.id>>)
             /\ q.op \in OnRule <=> Holds(c, <<"rule", q.id>>)
             /\ q.op = "createDraft" <=> Holds(c, <<"batch", q.id>>)
<1>q. PICK q : q = Req(c) OBVIOUS
<1>1. Planned(q) BY <1>q, InPlan DEF InOrder, GoodRequest
<1>2. \A x : Holds(c, x) <=> \E i \in 1..Len(Plan(q)) : Plan(q)[i] = x BY <1>q DEF Holds
<1>3. q.op # "patchDraw" => Holds(c, Lottery(q)) BY <1>1, <1>2 DEF Planned
<1>4. q.op \notin OnRule => Holds(c, <<"draw", DrawOf(q)>>) BY <1>1, <1>2 DEF Planned
<1>5. q.op \in OnRevision => Holds(c, <<"revision", q.id>>) BY <1>1, <1>2 DEF Planned
<1>6. q.op \in OnRule => Holds(c, <<"rule", q.id>>) BY <1>1, <1>2 DEF Planned
<1>7. ASSUME q.op = "createDraft" PROVE Holds(c, <<"batch", q.id>>)
  <2>1. 1 \in 1..Len(Plan(q)) /\ Plan(q)[1] = <<"batch", q.id>> BY <1>1, <1>7 DEF Planned
  <2> QED BY <2>1, <1>2
<1>8. ASSUME NEW i \in 1..Len(Plan(q))
      PROVE  /\ q.op \notin OnRevision => Plan(q)[i] # <<"revision", q.id>>
             /\ q.op \notin OnRule => Plan(q)[i] # <<"rule", q.id>>
             /\ q.op # "createDraft" => Plan(q)[i] # <<"batch", q.id>>
  <2>1. \/ Plan(q)[i] = <<"key", Scope(q)>>
        \/ q.op = "createDraft" /\ Plan(q)[i] = <<"batch", q.id>>
        \/ Plan(q)[i] = Lottery(q)
        \/ Plan(q)[i] = <<"draw", DrawOf(q)>>
        \/ q.op \in OnRevision /\ Plan(q)[i] = <<"revision", q.id>>
        \/ q.op \in OnRule /\ Plan(q)[i] = <<"rule", q.id>>
    BY <1>1, <1>8 DEF Planned
  <2> QED BY <2>1 DEF Lottery
<1>9. /\ q.op \notin OnRevision => ~Holds(c, <<"revision", q.id>>)
      /\ q.op \notin OnRule => ~Holds(c, <<"rule", q.id>>)
      /\ q.op # "createDraft" => ~Holds(c, <<"batch", q.id>>)
  BY <1>2, <1>8
<1> QED BY <1>q, <1>3, <1>4, <1>5, <1>6, <1>7, <1>9

(* So it knows its rows as they are, and no others.                        *)
LEMMA HeldRows ==
  ASSUME NEW c \in Calls, InOrder(c), tx[c].step # "idle", tx[c].held = Len(Plan(Req(c)))
  PROVE  LET q == Req(c)
         IN  /\ q.op \notin OnRule => tx[c].draw = draw[DrawOf(q)]
             /\ tx[c].rev = IF q.op \in OnRevision THEN rev[q.id] ELSE Nil
             /\ tx[c].rule = IF q.op \in OnRule THEN rule[q.id] ELSE Nil
             /\ tx[c].batch = IF q.op = "createDraft" THEN batch[q.id] ELSE Nil
  BY HeldLocks DEF InOrder, AsRead

(* The tables as it knows them are the tables as they are.                 *)
LEMMA KnownTables ==
  ASSUME TxInv, NEW c \in Calls, tx[c].step # "idle", tx[c].held = Len(Plan(Req(c)))
  PROVE  LET q == Req(c)
         IN  /\ q.op \notin OnRule =>
                   DrawOf(q) \in Draws /\ Known(draw, tx[c].draw, DrawOf(q)) = draw
             /\ Known(rev, tx[c].rev, q.id) = rev
             /\ Known(rule, tx[c].rule, q.id) = rule
             /\ Known(batch, tx[c].batch, q.id) = batch
<1>q. PICK q : q = Req(c) OBVIOUS
<1>1. /\ q.op \notin OnRule => tx[c].draw = draw[DrawOf(q)]
      /\ tx[c].rev = IF q.op \in OnRevision THEN rev[q.id] ELSE Nil
      /\ tx[c].rule = IF q.op \in OnRule THEN rule[q.id] ELSE Nil
      /\ tx[c].batch = IF q.op = "createDraft" THEN batch[q.id] ELSE Nil
  BY <1>q, HeldRows DEF TxInv
<1>2. GoodRequest(q) BY <1>q DEF TxInv, InOrder
<1>3. q.op \notin OnRule => DrawOf(q) \in Draws
  BY <1>2 DEF TxInv, RowsAgree, GoodRequest, DrawOf, AllOperations, OnRevision, OnDraw
<1>4. PICK V : /\ rule \in [Rules -> V]
               /\ draw \in [Draws -> DrawRow(V)]
               /\ rev \in [Revisions -> RevRow(V)]
               /\ batch \in [Batches -> BatchRow(V)]
  BY DEF TxInv, RowShape
<1>5. q.op \notin OnRule => Known(draw, tx[c].draw, DrawOf(q)) = draw
  BY <1>1, <1>3, <1>4 DEF Known
<1>6. Known(rev, tx[c].rev, q.id) = rev BY <1>1, <1>2, <1>4 DEF Known, GoodRequest
<1>7. Known(rule, tx[c].rule, q.id) = rule BY <1>1, <1>2, <1>4 DEF Known, GoodRequest
<1>8. Known(batch, tx[c].batch, q.id) = batch BY <1>1, <1>2, <1>4 DEF Known, GoodRequest
<1> QED BY <1>q, <1>3, <1>5, <1>6, <1>7, <1>8

(* What it accepts has its grounds in the rows.                            *)
LEMMA AcceptsOnGrounds ==
  ASSUME TxInv, NEW c \in Calls, tx[c].step # "idle", tx[c].held = Len(Plan(Req(c))),
         Accepts(c)
  PROVE  Grounds(Req(c))
<1>q. PICK q : q = Req(c) OBVIOUS
<1>1. /\ q.op \notin OnRule => tx[c].draw = draw[DrawOf(q)]
      /\ q.op \in OnRevision => tx[c].rev = rev[q.id]
      /\ q.op \in OnRule => tx[c].rule = rule[q.id]
      /\ q.op = "createDraft" => tx[c].batch = batch[q.id]
  BY <1>q, HeldRows DEF TxInv
<1>2. /\ q.op \notin OnRule => Known(draw, tx[c].draw, DrawOf(q)) = draw
      /\ Known(rev, tx[c].rev, q.id) = rev
      /\ Known(rule, tx[c].rule, q.id) = rule
      /\ Known(batch, tx[c].batch, q.id) = batch
  BY <1>q, KnownTables
<1>3. GoodRequest(q) /\ InOrder(c) BY <1>q DEF TxInv, InOrder
<1>4. /\ q.op \in OnRevision => DrawOf(q) = rev[q.id].draw
      /\ q.op \in OnDraw => DrawOf(q) = q.id
      /\ q.op = "createDraft" => DrawOf(q) = batch[q.id].draw
  BY DEF DrawOf, OnRevision, OnDraw
<1>5. Asked(c)[q.actor] = q.page BY <1>q, <1>3 DEF Asked, GoodRequest
<1> USE DEF OnRevision, OnDraw, OnRule, View!EditsRevision, View!RevisionMatches,
            View!EditsDraw, View!DrawMatches, SeenRevision, SeenDraw, KnownDraw
<1>6. CASE q.op = "patch"
  BY <1>q, <1>1, <1>2, <1>5, <1>6 DEF Accepts, Grounds, View!Editable
<1>7. CASE q.op = "reopen"
  BY <1>q, <1>1, <1>2, <1>5, <1>7 DEF Accepts, Grounds
<1>8. CASE q.op = "review"
  BY <1>q, <1>1, <1>2, <1>5, <1>8 DEF Accepts, Grounds, View!Hash, View!MayReview,
     View!Publishable, Pipeline!Hash, Pipeline!MayReview, Pipeline!Publishable
<1>9. CASE q.op = "publish"
  BY <1>q, <1>1, <1>2, <1>4, <1>5, <1>9 DEF Accepts, Grounds, SeenCurrent, View!MayPublish,
     View!ReplacesExpected, View!ReviewStands, View!Publishable, View!Downgrades, View!Hash,
     Pipeline!ReviewStands, Pipeline!Publishable, Pipeline!Downgrades, Pipeline!Hash
<1>10. CASE q.op \in {"suspend", "resume"}
  BY <1>q, <1>1, <1>2, <1>4, <1>5, <1>10 DEF Accepts, Grounds
<1>11. CASE q.op = "patchDraw"
  BY <1>q, <1>1, <1>2, <1>4, <1>5, <1>11 DEF Accepts, Grounds, View!MayPatchDraw,
     Pipeline!MayPatchDraw
<1>12. CASE q.op = "correct"
  BY <1>q, <1>1, <1>2, <1>4, <1>5, <1>12 DEF Accepts, Grounds, View!Open, Pipeline!Open
<1>13. CASE q.op \in OnRule
  BY <1>q, <1>1, <1>13 DEF Accepts, Grounds
<1>14. CASE q.op = "createDraft"
  <2>1. batch[q.id].status = "PREVIEW_READY"
    <3>1. Len(Plan(q)) = 3 BY <1>3, <1>14, InPlan DEF GoodRequest, Planned
    <3>2. tx[c].held = 3 /\ tx[c].held > 1
      <4>1. tx[c].held = 3 BY <3>1, <1>q
      <4> QED BY <4>1
    <3>3. tx[c].batch.status = "PREVIEW_READY" BY <3>2, <1>q, <1>3, <1>14 DEF InOrder
    <3> QED BY <3>3, <1>1, <1>14
  <2> QED BY <2>1, <1>q, <1>1, <1>2, <1>4, <1>5, <1>14 DEF Accepts, Grounds,
             View!KindStillFits, Pipeline!KindStillFits
<1> QED BY <1>q, <1>3, <1>6, <1>7, <1>8, <1>9, <1>10, <1>11, <1>12, <1>13, <1>14
        DEF GoodRequest, AllOperations

(* Deciding to go ahead, in order.                                         *)
LEMMA AcceptInOrder ==
  ASSUME TxInv, NEW c \in Calls, Accept(c)
  PROVE  TxInv'
<1>1. /\ tx[c].step = "locking" /\ tx[c].held = Len(Plan(Req(c))) /\ Accepts(c)
      /\ tx' = [tx EXCEPT ![c].step = "decided"] /\ UNCHANGED <<rows, sent>>
  BY DEF Accept, Decides
<1>2. Grounds(Req(c)) BY <1>1, AcceptsOnGrounds
<1> QED BY <1>1, <1>2, StepInOrder DEF Steps

-----------------------------------------------------------------------------
(* Commits.                                                                *)

(* What a call knows when it commits: its grounds still stand, the tables  *)
(* as it knows them are the tables as they are, and the page it acts on is *)
(* that of its request, spent once it has committed.                       *)
Certain(c, q) ==
    /\ q = Req(c) /\ GoodRequest(q) /\ Grounds(q)
    /\ q.op \notin OnRule =>
          /\ DrawOf(q) \in Draws
          /\ Known(draw, tx[c].draw, DrawOf(q)) = draw /\ KnownDraw(c) = draw[DrawOf(q)]
    /\ Known(rev, tx[c].rev, q.id) = rev /\ KnownRev(c) = rev[q.id]
    /\ q.op = "createDraft" => tx[c].batch = batch[q.id]
    /\ Asked(c)[q.actor] = q.page
    /\ Asked(c)' = [Asked(c) EXCEPT ![q.actor] = Unseen]
    /\ q.page = Unseen => Asked(c)' = Asked(c)

LEMMA CommitIsCertain ==
  ASSUME TxInv, NEW c \in Calls, Commit(c)
  PROVE  Certain(c, Req(c))
<1>q. PICK q : q = Req(c) OBVIOUS
<1>1. tx[c].step = "decided" BY DEF Commit
<1>2. InOrder(c) BY <1>1 DEF TxInv
<1>3. GoodRequest(q) /\ Grounds(q) /\ tx[c].held = Len(Plan(q)) BY <1>q, <1>1, <1>2 DEF InOrder
<1>4. /\ q.op \notin OnRule =>
           /\ DrawOf(q) \in Draws
           /\ Known(draw, tx[c].draw, DrawOf(q)) = draw
      /\ Known(rev, tx[c].rev, q.id) = rev
  BY <1>q, <1>1, <1>3, KnownTables
<1>5. q.op = "createDraft" => tx[c].batch = batch[q.id]
  BY <1>q, <1>1, <1>2, <1>3, HeldRows
<1>6. tx'[c].step = "idle"
  <2>1. PICK Q, D, R, U, B : tx \in [Calls -> Call(Q, D, R, U, B)]
    BY DEF TxInv, TxShape
  <2> QED BY <2>1 DEF Commit, Idle
<1>7. q.actor \in Admins BY <1>3 DEF GoodRequest
<1>8. Asked(c) = [a \in Admins |-> IF q.actor = a THEN q.page ELSE Unseen]
  BY <1>q, <1>1 DEF Asked
<1>9. Asked(c)' = [a \in Admins |-> Unseen] BY <1>6 DEF Asked, Unseen
<1>10. /\ Asked(c)[q.actor] = q.page
       /\ Asked(c)' = [Asked(c) EXCEPT ![q.actor] = Unseen]
       /\ q.page = Unseen => Asked(c)' = Asked(c)
  BY <1>7, <1>8, <1>9
<1>11. /\ q.op \notin OnRule => KnownDraw(c) = draw[DrawOf(q)]
       /\ KnownRev(c) = rev[q.id]
  BY <1>q, <1>4 DEF KnownDraw, KnownRev
<1> QED BY <1>q, <1>3, <1>4, <1>5, <1>10, <1>11 DEF Certain

(* What the writes for a request do to the tables, of which the rows in U  *)
(* are locked by nobody else.                                              *)
Kept(q, U) ==
    /\ RowShape' /\ RowsAgree'
    /\ \A r \in Revisions : Existing(r) =>
          Existing(r)' /\ rev'[r].draw = rev[r].draw /\ rev'[r].rule = rev[r].rule
    /\ \A b \in Batches : batch'[b].draw = batch[b].draw /\ batch'[b].rule = batch[b].rule
    /\ \A r \in Revisions : rev'[r] # rev[r] =>
          /\ q.op \notin OnRule /\ rev'[r].draw = DrawOf(q)
          /\ Existing(r) => <<"revision", r>> \in U
    /\ \A d \in Draws : draw'[d] # draw[d] =>
          q.op \notin OnRule /\ d = DrawOf(q) /\ <<"draw", d>> \in U
    /\ \A u \in Rules : rule'[u] # rule[u] =>
          q.op \in OnRule /\ u = q.id /\ <<"rule", u>> \in U
    /\ \A b \in Batches : batch'[b] # batch[b] =>
          q.op = "createDraft" /\ b = q.id /\ <<"batch", b>> \in U

(* One revision is written that exists, and stays what it is of.           *)
LEMMA RevisionWritten ==
  ASSUME TxInv, NEW q, q.op \in OnRevision, GoodRequest(q), NEW U, <<"revision", q.id>> \in U,
         NEW W, NEW row \in RevRow(W), rev' = [rev EXCEPT ![q.id] = row],
         row.draw = rev[q.id].draw, row.rule = rev[q.id].rule, row.workflow # "ABSENT",
         UNCHANGED <<rule, draw, batch>>
  PROVE  Kept(q, U)
<1>1. PICK V : /\ rule \in [Rules -> V]
               /\ draw \in [Draws -> DrawRow(V)]
               /\ rev \in [Revisions -> RevRow(V)]
               /\ batch \in [Batches -> BatchRow(V)]
  BY DEF TxInv, RowShape
<1>2. q.id \in Revisions /\ Existing(q.id) BY DEF GoodRequest
<1>3. RowShape'
  <2>1. /\ rule' \in [Rules -> V \cup W]
        /\ draw' \in [Draws -> DrawRow(V \cup W)]
        /\ rev' \in [Revisions -> RevRow(V \cup W)]
        /\ batch' \in [Batches -> BatchRow(V \cup W)]
    BY <1>1, <1>2 DEF DrawRow, RevRow, BatchRow
  <2> QED BY <2>1 DEF RowShape
<1>4. /\ rev'[q.id] = row
      /\ \A r \in Revisions : r # q.id => rev'[r] = rev[r]
  BY <1>1, <1>2
<1>5. DrawOf(q) = rev[q.id].draw BY DEF DrawOf, OnRevision, OnDraw
<1>6. RowsAgree' BY <1>2, <1>4 DEF TxInv, RowsAgree, Existing
<1> QED BY <1>2, <1>3, <1>4, <1>5, <1>6 DEF Kept, Existing, OnRevision, OnRule

(* What a body says.                                                       *)
LEMMA BodiesSay ==
  ASSUME NEW op, NEW b \in Bodies(op)
  PROVE  /\ op \in {"publish", "review"} => b.flag \in BOOLEAN
         /\ op = "patchDraw" =>
              b.phase \in PatchPhases \cup {Nil} /\ b.dates \in DrawDates \cup {Nil}
         /\ op = "patch" => b.dates \in Dates /\ b.payload \in Payloads
  BY DEF Bodies, Body

(* The versions on the page are those of the rows, and the page is spent.  *)
LEMMA PageFits ==
  ASSUME NEW c \in Calls, Certain(c, Req(c))
  PROVE  LET q == Req(c)
         IN  /\ q.op \in OnRevision =>
                   Handlers(c)!EditsRevision(q.actor, q.id) /\ Handlers(c)!Answered(q.actor)
             /\ q.op \in OnDraw \ {"correct"} =>
                   Handlers(c)!EditsDraw(q.actor, q.id) /\ Handlers(c)!Answered(q.actor)
<1>q. PICK q : q = Req(c) OBVIOUS
<1>1. /\ q.op \in OnRevision => SeenRevision(q)
      /\ q.op \in OnDraw \ {"correct"} => SeenDraw(q)
      /\ Asked(c)[q.actor] = q.page
      /\ Asked(c)' = [Asked(c) EXCEPT ![q.actor] = Unseen]
  BY <1>q DEF Certain, Grounds
<1> QED BY <1>q, <1>1 DEF SeenRevision, SeenDraw, Handlers!EditsRevision, Handlers!EditsDraw,
           Handlers!RevisionMatches, Handlers!DrawMatches, Handlers!Answered,
           Handlers!NoPage, Unseen

(* Each operation's writes are its handler's step, and change no row that  *)
(* is not its own.                                                         *)
LEMMA PatchCommits ==
  ASSUME TxInv, NEW c \in Calls, Certain(c, Req(c)), Req(c).op = "patch", WritePatch(c)
  PROVE  Kept(Req(c), Updates(c)) /\ Handlers(c)!Next
<1>q. PICK q : q = Req(c) OBVIOUS
<1>1. GoodRequest(q) /\ q.op = "patch" /\ q.op \in OnRevision /\ q.op \notin OnRule
  BY <1>q DEF Certain, OnRevision, OnRule
<1>2. q.id \in Revisions /\ q.actor \in Admins /\ Existing(q.id)
  BY <1>1 DEF GoodRequest
<1>3. q.body.dates \in Dates /\ q.body.payload \in Payloads
  BY <1>1, BodiesSay DEF GoodRequest
<1>4. Handlers(c)!Patch(q.actor, q.id, q.body.dates, q.body.payload)
  BY <1>q, <1>1, PageFits DEF WritePatch, Certain, Handlers!Patch, Handlers!Editable, Grounds,
     View!Rehashed, View!Edited, View!Hash, Handlers!Rehashed, Handlers!Edited, Handlers!Hash
<1>5. Handlers(c)!Next
  BY <1>2, <1>3, <1>4 DEF Handlers!Next, Handlers!RevisionStep
<1>6. Kept(q, Updates(c))
  <2>1. PICK V : rev[q.id] \in RevRow(V) BY <1>2 DEF TxInv, RowShape
  <2>2. PICK h : h = <<rev[q.id].rule, q.body.dates, q.body.payload>> OBVIOUS
  <2>3. PICK row : row = [rev[q.id] EXCEPT !.dates = q.body.dates, !.payload = q.body.payload,
                       !.reviewedHash = Nil, !.reviewedBy = Nil, !.lastEditedBy = q.actor,
                       !.editVersion = @ + 1, !.contentHash = h]
    OBVIOUS
  <2>4. PICK W : W = V \cup {q.body.dates, q.body.payload, Nil, q.actor, h, rev[q.id].editVersion + 1}
    OBVIOUS
  <2>5. rev' = [rev EXCEPT ![q.id] = row] /\ UNCHANGED <<rule, draw, batch>>
    BY <1>q, <1>1, <2>1, <2>2, <2>3 DEF WritePatch, Certain, View!Rehashed, View!Edited, View!Hash, RevRow
  <2>6. row \in RevRow(W) /\ row.draw = rev[q.id].draw /\ row.rule = rev[q.id].rule
        /\ row.workflow = rev[q.id].workflow
    BY <2>1, <2>3, <2>4 DEF RevRow
  <2>7. row.workflow # "ABSENT" BY <2>6, <1>2 DEF Existing
  <2>8. PICK U : U = Updates(c) OBVIOUS
  <2>9. <<"revision", q.id>> \in U BY <1>q, <1>1, <2>8 DEF Updates, OnRevision
  <2>10. Kept(q, U) BY <1>1, <2>5, <2>6, <2>7, <2>9, RevisionWritten
  <2> QED BY <2>8, <2>10
<1> QED BY <1>q, <1>5, <1>6

LEMMA ReopenCommits ==
  ASSUME TxInv, NEW c \in Calls, Certain(c, Req(c)), Req(c).op = "reopen", WriteReopen(c)
  PROVE  Kept(Req(c), Updates(c)) /\ Handlers(c)!Next
<1>q. PICK q : q = Req(c) OBVIOUS
<1>1. GoodRequest(q) /\ q.op = "reopen" /\ q.op \in OnRevision /\ q.op \notin OnRule
  BY <1>q DEF Certain, OnRevision, OnRule
<1>2. q.id \in Revisions /\ q.actor \in Admins /\ Existing(q.id)
  BY <1>1 DEF GoodRequest
<1>3. PICK V : rev \in [Revisions -> RevRow(V)] /\ rev[q.id] \in RevRow(V)
  BY <1>2 DEF TxInv, RowShape
<1>4. PICK row : row = [rev[q.id] EXCEPT !.workflow = "DRAFT", !.reviewedHash = Nil,
                          !.reviewedBy = Nil, !.lastEditedBy = q.actor, !.editVersion = @ + 1]
  OBVIOUS
<1>5. PICK W : W = V \cup {"DRAFT", Nil, q.actor, rev[q.id].editVersion + 1} OBVIOUS
<1>6. rev' = [rev EXCEPT ![q.id] = row] /\ UNCHANGED <<rule, draw, batch>>
  BY <1>q, <1>1, <1>2, <1>3, <1>4 DEF WriteReopen, Certain, RevRow
<1>7. Handlers(c)!Reopen(q.actor, q.id)
  <2>1. row = Handlers(c)!Edited(q.actor, [rev[q.id] EXCEPT !.workflow = "DRAFT"])
    BY <1>2, <1>3, <1>4 DEF Handlers!Edited, RevRow
  <2>2. rev[q.id].workflow = "READY" BY <1>q, <1>1 DEF Certain, Grounds
  <2> QED BY <1>q, <1>1, <1>6, <2>1, <2>2, PageFits DEF WriteReopen, Handlers!Reopen
<1>8. Handlers(c)!Next
  BY <1>2, <1>7 DEF Handlers!Next, Handlers!RevisionStep
<1>9. Kept(q, Updates(c))
  <2>1. row \in RevRow(W) /\ row.draw = rev[q.id].draw /\ row.rule = rev[q.id].rule
        /\ row.workflow = "DRAFT"
    BY <1>3, <1>4, <1>5 DEF RevRow
  <2>2. PICK U : U = Updates(c) OBVIOUS
  <2>3. <<"revision", q.id>> \in U BY <1>q, <1>1, <2>2 DEF Updates, OnRevision
  <2>4. Kept(q, U) BY <1>1, <1>6, <2>1, <2>3, RevisionWritten
  <2> QED BY <2>2, <2>4
<1> QED BY <1>q, <1>8, <1>9

LEMMA ReviewCommits ==
  ASSUME TxInv, NEW c \in Calls, Certain(c, Req(c)), Req(c).op = "review", WriteReview(c)
  PROVE  Kept(Req(c), Updates(c)) /\ Handlers(c)!Next
<1>q. PICK q : q = Req(c) OBVIOUS
<1>1. GoodRequest(q) /\ q.op = "review" /\ q.op \in OnRevision /\ q.op \notin OnRule
  BY <1>q DEF Certain, OnRevision, OnRule
<1>2. q.id \in Revisions /\ q.actor \in Admins /\ q.actor \in Publishers /\ Existing(q.id)
  BY <1>1 DEF GoodRequest, Allowed
<1>3. PICK V : rev \in [Revisions -> RevRow(V)] /\ rev[q.id] \in RevRow(V)
  BY <1>2 DEF TxInv, RowShape
<1>4. PICK row : row = [rev[q.id] EXCEPT !.workflow = "READY",
                          !.reviewedHash = rev[q.id].contentHash,
                          !.reviewedBy = q.actor, !.editVersion = @ + 1]
  OBVIOUS
<1>5. PICK W : W = V \cup {"READY", q.actor, rev[q.id].editVersion + 1} OBVIOUS
<1>k. KnownRev(c) = rev[q.id] BY <1>q DEF Certain
<1>6. rev' = [rev EXCEPT ![q.id] = row] /\ UNCHANGED <<rule, draw, batch, dataset, published>>
  BY <1>q, <1>k, <1>2, <1>3, <1>4 DEF WriteReview, RevRow
<1>7. Handlers(c)!Review(q.actor, q.id, q.body.flag)
  <2>1. /\ rev[q.id].workflow = "DRAFT" /\ Pipeline!Hash(rev[q.id]) = rev[q.id].contentHash
        /\ Pipeline!MayReview(q.actor, q.id, q.body.flag) /\ Pipeline!Publishable(q.id)
    BY <1>q, <1>1 DEF Certain, Grounds
  <2>2. /\ Handlers(c)!Hash(rev[q.id]) = rev[q.id].contentHash
        /\ Handlers(c)!MayReview(q.actor, q.id, q.body.flag)
        /\ Handlers(c)!Publishable(q.id)
    BY <2>1 DEF Pipeline!Hash, Handlers!Hash, Pipeline!MayReview, Handlers!MayReview,
       Pipeline!Publishable, Handlers!Publishable
  <2>3. Handlers(c)!EditsRevision(q.actor, q.id) /\ Handlers(c)!Answered(q.actor)
    BY <1>q, <1>1, PageFits
  <2> QED BY <1>2, <1>4, <1>6, <2>1, <2>2, <2>3 DEF Handlers!Review
<1>8. q.body.flag \in BOOLEAN BY <1>1, BodiesSay DEF GoodRequest
<1>9. Handlers(c)!Next
  BY <1>2, <1>7, <1>8 DEF Handlers!Next, Handlers!RevisionStep
<1>10. Kept(q, Updates(c))
  <2>1. row \in RevRow(W) /\ row.draw = rev[q.id].draw /\ row.rule = rev[q.id].rule
        /\ row.workflow = "READY"
    BY <1>3, <1>4, <1>5 DEF RevRow
  <2>2. PICK U : U = Updates(c) OBVIOUS
  <2>3. <<"revision", q.id>> \in U BY <1>q, <1>1, <2>2 DEF Updates, OnRevision
  <2>4. Kept(q, U) BY <1>1, <1>6, <2>1, <2>3, RevisionWritten
  <2> QED BY <2>2, <2>4
<1> QED BY <1>q, <1>9, <1>10

(* One draw is written, and keeps its current revision.                    *)
LEMMA DrawWritten ==
  ASSUME TxInv, NEW q, q.op \notin OnRule, DrawOf(q) \in Draws,
         NEW U, <<"draw", DrawOf(q)>> \in U,
         NEW W, NEW row \in DrawRow(W), draw' = [draw EXCEPT ![DrawOf(q)] = row],
         row.current = draw[DrawOf(q)].current,
         UNCHANGED <<rule, rev, batch>>
  PROVE  Kept(q, U)
<1>1. PICK V : /\ rule \in [Rules -> V]
               /\ draw \in [Draws -> DrawRow(V)]
               /\ rev \in [Revisions -> RevRow(V)]
               /\ batch \in [Batches -> BatchRow(V)]
  BY DEF TxInv, RowShape
<1>2. PICK d : d = DrawOf(q) OBVIOUS
<1>3. RowShape'
  <2>1. /\ rule' \in [Rules -> V \cup W]
        /\ draw' \in [Draws -> DrawRow(V \cup W)]
        /\ rev' \in [Revisions -> RevRow(V \cup W)]
        /\ batch' \in [Batches -> BatchRow(V \cup W)]
    BY <1>1, <1>2 DEF DrawRow, RevRow, BatchRow
  <2> QED BY <2>1 DEF RowShape
<1>4. /\ draw'[d] = row
      /\ \A e \in Draws : e # d => draw'[e] = draw[e]
      /\ \A e \in Draws : draw'[e].current = draw[e].current
  BY <1>1, <1>2
<1>5. RowsAgree' BY <1>4 DEF TxInv, RowsAgree, Existing
<1> QED BY <1>2, <1>3, <1>4, <1>5 DEF Kept, Existing

(* One rule version is written.                                            *)
LEMMA RuleWritten ==
  ASSUME TxInv, NEW q, q.op \in OnRule, q.id \in Rules, NEW U, <<"rule", q.id>> \in U,
         NEW s, rule' = [rule EXCEPT ![q.id] = s], UNCHANGED <<draw, rev, batch>>
  PROVE  Kept(q, U)
<1>1. PICK V : /\ rule \in [Rules -> V]
               /\ draw \in [Draws -> DrawRow(V)]
               /\ rev \in [Revisions -> RevRow(V)]
               /\ batch \in [Batches -> BatchRow(V)]
  BY DEF TxInv, RowShape
<1>2. RowShape'
  <2>1. /\ rule' \in [Rules -> V \cup {s}]
        /\ draw' \in [Draws -> DrawRow(V \cup {s})]
        /\ rev' \in [Revisions -> RevRow(V \cup {s})]
        /\ batch' \in [Batches -> BatchRow(V \cup {s})]
    BY <1>1 DEF DrawRow, RevRow, BatchRow
  <2> QED BY <2>1 DEF RowShape
<1>3. \A u \in Rules : u # q.id => rule'[u] = rule[u] BY <1>1
<1>4. RowsAgree' BY DEF TxInv, RowsAgree, Existing
<1> QED BY <1>2, <1>3, <1>4 DEF Kept, Existing

LEMMA VisibilityCommits ==
  ASSUME TxInv, NEW c \in Calls, Certain(c, Req(c)), NEW target,
         \/ Req(c).op = "suspend" /\ target = "SUSPENDED"
         \/ Req(c).op = "resume" /\ target = "ACTIVE",
         WriteVisibility(c, target)
  PROVE  Kept(Req(c), Updates(c)) /\ Handlers(c)!Next
<1>q. PICK q : q = Req(c) OBVIOUS
<1>1. /\ GoodRequest(q) /\ q.op \in {"suspend", "resume"}
      /\ q.op \in OnDraw \ {"correct"} /\ q.op \notin OnRule /\ q.op \in Keyed
  BY <1>q DEF Certain, OnDraw, OnRule, Keyed
<1>2. q.id \in Draws /\ q.actor \in Admins /\ q.actor \in Publishers
  BY <1>1 DEF GoodRequest, Allowed
<1>k. DrawOf(q) = q.id /\ KnownDraw(c) = draw[q.id] /\ LotteryFor(q) = LotteryOf[q.id]
  <2>1. DrawOf(q) = q.id BY <1>1 DEF DrawOf, OnDraw, OnRevision
  <2> QED BY <1>q, <1>1, <2>1 DEF Certain, LotteryFor
<1>3. PICK V : draw \in [Draws -> DrawRow(V)] /\ draw[q.id] \in DrawRow(V)
  BY <1>2 DEF TxInv, RowShape
<1>4. PICK row : row = [draw[q.id] EXCEPT !.visibility = target, !.editVersion = @ + 1]
  OBVIOUS
<1>5. PICK W : W = V \cup {target, draw[q.id].editVersion + 1} OBVIOUS
<1>6. /\ draw' = [draw EXCEPT ![q.id] = row] /\ UNCHANGED <<rule, rev, batch, published>>
      /\ dataset' = [dataset EXCEPT ![LotteryOf[q.id]] = @ + 1]
  BY <1>q, <1>k, <1>2, <1>3, <1>4 DEF WriteVisibility, Bumped, DrawRow
<1>7. Handlers(c)!SetVisibility(q.actor, q.id, target)
  <2>1. draw[q.id].visibility # target BY <1>q DEF Certain, Grounds
  <2>2. Handlers(c)!EditsDraw(q.actor, q.id) /\ Handlers(c)!Answered(q.actor)
    BY <1>q, <1>1, PageFits
  <2>3. draw' = [draw EXCEPT ![q.id].visibility = target, ![q.id].editVersion = @ + 1]
    BY <1>2, <1>3, <1>4, <1>6 DEF DrawRow
  <2> QED BY <1>2, <1>6, <2>1, <2>2, <2>3 DEF Handlers!SetVisibility
<1>8. Handlers(c)!Next
  BY <1>2, <1>7 DEF Handlers!Next, Handlers!RevisionStep
<1>9. Kept(q, Updates(c))
  <2>1. row \in DrawRow(W) /\ row.current = draw[q.id].current
    BY <1>3, <1>4, <1>5 DEF DrawRow
  <2>2. PICK U : U = Updates(c) OBVIOUS
  <2>3. <<"draw", DrawOf(q)>> \in U BY <1>q, <1>1, <2>2 DEF Updates, OnRevision
  <2>4. Kept(q, U) BY <1>1, <1>2, <1>k, <1>6, <2>1, <2>3, DrawWritten
  <2> QED BY <2>2, <2>4
<1> QED BY <1>q, <1>8, <1>9

LEMMA PatchDrawCommits ==
  ASSUME TxInv, NEW c \in Calls, Certain(c, Req(c)), Req(c).op = "patchDraw", WritePatchDraw(c)
  PROVE  Kept(Req(c), Updates(c)) /\ Handlers(c)!Next
<1>q. PICK q : q = Req(c) OBVIOUS
<1>1. /\ GoodRequest(q) /\ q.op = "patchDraw"
      /\ q.op \in OnDraw \ {"correct"} /\ q.op \notin OnRule
  BY <1>q DEF Certain, OnDraw, OnRule
<1>2. q.id \in Draws /\ q.actor \in Admins
  BY <1>1 DEF GoodRequest
<1>k. DrawOf(q) = q.id /\ KnownDraw(c) = draw[q.id]
  <2>1. DrawOf(q) = q.id BY <1>1 DEF DrawOf, OnDraw, OnRevision
  <2> QED BY <1>q, <1>1, <2>1 DEF Certain
<1>3. PICK V : draw \in [Draws -> DrawRow(V)] /\ draw[q.id] \in DrawRow(V)
  BY <1>2 DEF TxInv, RowShape
<1>4. PICK row : row = [draw[q.id] EXCEPT
                          !.phase = IF q.body.phase = Nil THEN @ ELSE q.body.phase,
                          !.dates = IF q.body.dates = Nil THEN @ ELSE q.body.dates,
                          !.editVersion = @ + 1]
  OBVIOUS
<1>5. PICK W : W = V \cup {q.body.phase, q.body.dates, draw[q.id].editVersion + 1} OBVIOUS
<1>6. draw' = [draw EXCEPT ![q.id] = row] /\ UNCHANGED <<rule, rev, batch, dataset, published>>
  BY <1>q, <1>k, <1>4 DEF WritePatchDraw
<1>7. Handlers(c)!PatchDraw(q.actor, q.id, q.body.phase, q.body.dates)
  <2>1. Handlers(c)!MayPatchDraw(q.id, q.body.phase, q.body.dates)
    BY <1>q, <1>1 DEF Certain, Grounds, Pipeline!MayPatchDraw, Handlers!MayPatchDraw
  <2>2. Handlers(c)!EditsDraw(q.actor, q.id) /\ Handlers(c)!Answered(q.actor)
    BY <1>q, <1>1, PageFits
  <2>3. draw' = [draw EXCEPT
                   ![q.id].phase = IF q.body.phase = Nil THEN @ ELSE q.body.phase,
                   ![q.id].dates = IF q.body.dates = Nil THEN @ ELSE q.body.dates,
                   ![q.id].editVersion = @ + 1]
    BY <1>2, <1>3, <1>4, <1>6 DEF DrawRow
  <2> QED BY <1>6, <2>1, <2>2, <2>3 DEF Handlers!PatchDraw
<1>8. Handlers(c)!Next
  <2>1. q.body.phase \in PatchPhases \cup {Nil} /\ q.body.dates \in DrawDates \cup {Nil}
    BY <1>1, BodiesSay DEF GoodRequest
  <2>2. q.body.phase \in Handlers(c)!Phases \cup {Nil}
    BY <2>1, RequestAssumption DEF Handlers!Phases
  <2> QED BY <1>2, <1>7, <2>1, <2>2 DEF Handlers!Next, Handlers!CatalogueStep
<1>9. Kept(q, Updates(c))
  <2>1. row \in DrawRow(W) /\ row.current = draw[q.id].current
    BY <1>3, <1>4, <1>5 DEF DrawRow
  <2>2. PICK U : U = Updates(c) OBVIOUS
  <2>3. <<"draw", DrawOf(q)>> \in U BY <1>q, <1>1, <2>2 DEF Updates, OnRevision
  <2>4. Kept(q, U) BY <1>1, <1>2, <1>k, <1>6, <2>1, <2>3, DrawWritten
  <2> QED BY <2>2, <2>4
<1> QED BY <1>q, <1>8, <1>9

LEMMA RuleCommits ==
  ASSUME TxInv, NEW c \in Calls, Certain(c, Req(c)), NEW state,
         \/ Req(c).op = "approve" /\ state = "APPROVED"
         \/ Req(c).op = "revoke" /\ state = "REVOKED",
         WriteRule(c, state)
  PROVE  Kept(Req(c), Updates(c)) /\ Handlers(c)!Next
<1>q. PICK q : q = Req(c) OBVIOUS
<1>1. GoodRequest(q) /\ q.op \in {"approve", "revoke"} /\ q.op \in OnRule /\ q.op \in Keyed
  BY <1>q DEF Certain, OnRule, Keyed
<1>2. q.id \in Rules /\ q.actor \in Admins /\ q.actor \in Publishers /\ q.page = Unseen
  BY <1>1 DEF GoodRequest, Allowed
<1>3. /\ q.op = "approve" => rule[q.id] = "DRAFT" /\ q.id \in CompilableRules
      /\ q.op = "revoke" => rule[q.id] = "APPROVED"
      /\ UNCHANGED Asked(c)
  BY <1>q, <1>2 DEF Certain, Grounds
<1>4. /\ rule' = [rule EXCEPT ![q.id] = state] /\ UNCHANGED <<draw, rev, batch, published>>
      /\ IF state = "REVOKED" THEN dataset' = [dataset EXCEPT ![RuleLottery[q.id]] = @ + 1]
         ELSE UNCHANGED dataset
  BY <1>q, <1>1 DEF WriteRule, Bumped, LotteryFor
<1>5. \/ Handlers(c)!ApproveRule(q.actor, q.id) \/ Handlers(c)!RevokeRule(q.actor, q.id)
  BY <1>q, <1>2, <1>3, <1>4 DEF Handlers!ApproveRule, Handlers!RevokeRule
<1>6. Handlers(c)!Next
  BY <1>2, <1>5 DEF Handlers!Next, Handlers!CatalogueStep
<1>7. Kept(q, Updates(c))
  <2>1. PICK U : U = Updates(c) OBVIOUS
  <2>2. <<"rule", q.id>> \in U BY <1>q, <1>1, <2>1 DEF Updates, OnRevision
  <2>3. Kept(q, U) BY <1>1, <1>2, <1>4, <2>2, RuleWritten
  <2> QED BY <2>1, <2>3
<1> QED BY <1>q, <1>6, <1>7

LEMMA PublishCommits ==
  ASSUME TxInv, NEW c \in Calls, Certain(c, Req(c)), Req(c).op = "publish", WritePublish(c)
  PROVE  Kept(Req(c), Updates(c)) /\ Handlers(c)!Next
<1>q. PICK q : q = Req(c) OBVIOUS
<1>1. /\ GoodRequest(q) /\ q.op = "publish"
      /\ q.op \in OnRevision /\ q.op \notin OnRule /\ q.op \in Keyed
  BY <1>q DEF Certain, OnRevision, OnRule, Keyed
<1>2. q.id \in Revisions /\ q.actor \in Admins /\ q.actor \in Publishers /\ Existing(q.id)
  BY <1>1 DEF GoodRequest, Allowed
<1>d. PICK d : d = rev[q.id].draw OBVIOUS
<1>k. /\ DrawOf(q) = d /\ d \in Draws /\ KnownDraw(c) = draw[d] /\ KnownRev(c) = rev[q.id]
      /\ LotteryFor(q) = LotteryOf[d]
  <2>1. DrawOf(q) = d BY <1>1, <1>d DEF DrawOf, OnDraw, OnRevision
  <2> QED BY <1>q, <1>1, <2>1 DEF Certain, LotteryFor
<1>o. PICK old : old = draw[d].current OBVIOUS
<1>3. PICK V : /\ rule \in [Rules -> V]
               /\ draw \in [Draws -> DrawRow(V)] /\ draw[d] \in DrawRow(V)
               /\ rev \in [Revisions -> RevRow(V)] /\ rev[q.id] \in RevRow(V)
               /\ batch \in [Batches -> BatchRow(V)]
  BY <1>2, <1>k DEF TxInv, RowShape
<1>4. PICK vis : vis = IF q.body.flag THEN "ACTIVE" ELSE draw[d].visibility OBVIOUS
<1>5. PICK row : row = [draw[d] EXCEPT !.current = q.id, !.dates = rev[q.id].dates,
                          !.phase = "HELD", !.visibility = vis, !.editVersion = @ + 1]
  OBVIOUS
<1>6. PICK new : new = [rev[q.id] EXCEPT !.workflow = "PUBLISHED", !.publishedBy = q.actor,
                          !.editVersion = @ + 1]
  OBVIOUS
<1>7. /\ draw' = [draw EXCEPT ![d] = row]
      /\ dataset' = [dataset EXCEPT ![LotteryOf[d]] = @ + 1]
      /\ published' = [published EXCEPT ![d] = Append(@, q.id)]
      /\ UNCHANGED <<rule, batch>>
  <2>1. draw' = [draw EXCEPT ![d] = [@ EXCEPT
              !.current = q.id, !.dates = rev[q.id].dates, !.phase = "HELD",
              !.visibility = IF q.body.flag THEN "ACTIVE" ELSE draw[d].visibility,
              !.editVersion = draw[d].editVersion + 1]]
    BY <1>q, <1>k, Zenon DEF WritePublish
  <2>2. /\ dataset' = [dataset EXCEPT ![LotteryOf[d]] = @ + 1]
        /\ published' = [published EXCEPT ![d] = Append(@, q.id)]
        /\ UNCHANGED <<rule, batch>>
    BY <1>q, <1>k, Zenon DEF WritePublish, Bumped
  <2> QED BY <2>1, <2>2, <1>4, <1>5
<1>8. rev' = [x \in Revisions |-> CASE x = q.id -> new
                                    [] x # q.id /\ x = old -> Handlers(c)!Retired(rev[x])
                                    [] OTHER -> rev[x]]
  BY <1>q, <1>k, <1>o, <1>6, Zenon DEF WritePublish
<1>9. Handlers(c)!Publish(q.actor, q.id, q.body.flag)
  <2>1. Handlers(c)!EditsRevision(q.actor, q.id) /\ Handlers(c)!Answered(q.actor)
    BY <1>q, <1>1, PageFits
  <2>2. /\ SeenCurrent(q) /\ rev[q.id].workflow = "READY"
        /\ Pipeline!ReviewStands(q.id) /\ Pipeline!Publishable(q.id)
        /\ draw[d].visibility = "SUSPENDED" => q.body.flag
        /\ draw[d].phase # "CANCELLED"
        /\ ~Pipeline!Downgrades(q.id)
        /\ rev[q.id].dates \in DrawDates
        /\ draw[d].editVersion < MaxDrawVersion
    BY <1>q, <1>1, <1>k DEF Certain, Grounds
  <2>3. Asked(c)[q.actor] = q.page BY <1>q DEF Certain
  <2>4. Handlers(c)!ReplacesExpected(q.actor, q.id)
    BY <1>d, <1>k, <2>2, <2>3 DEF SeenCurrent, Handlers!ReplacesExpected
  <2>5. /\ Handlers(c)!ReviewStands(q.id) /\ Handlers(c)!Publishable(q.id)
        /\ ~Handlers(c)!Downgrades(q.id)
    BY <2>2 DEF Pipeline!ReviewStands, Pipeline!Publishable, Pipeline!Downgrades,
       Handlers!ReviewStands, Handlers!Publishable, Handlers!Downgrades, Pipeline!Hash,
       Handlers!Hash
  <2>6. Handlers(c)!MayPublish(q.actor, q.id, q.body.flag)
    BY <1>d, <2>2, <2>4, <2>5 DEF Handlers!MayPublish
  <2>7. row = Handlers(c)!PublishedDraw(q.id, q.body.flag)
    BY <1>d, <1>3, <1>4, <1>5 DEF Handlers!PublishedDraw, DrawRow
  <2> QED BY <1>d, <1>o, <1>2, <1>6, <1>7, <1>8, <2>1, <2>2, <2>6, <2>7 DEF Handlers!Publish
<1>10. Handlers(c)!Next
  <2>1. q.body.flag \in BOOLEAN BY <1>1, BodiesSay DEF GoodRequest
  <2> QED BY <1>2, <1>9, <2>1 DEF Handlers!Next, Handlers!RevisionStep
<1>11. PICK W : W = V \cup {"HELD", vis, q.id, "PUBLISHED", "SUPERSEDED", q.actor,
                            draw[d].editVersion + 1, rev[q.id].editVersion + 1}
  OBVIOUS
<1>12. row \in DrawRow(W) /\ row.current = q.id BY <1>3, <1>5, <1>11, <1>2 DEF DrawRow, RevRow
<1>13. /\ new \in RevRow(W) /\ new.draw = d /\ new.rule = rev[q.id].rule
       /\ new.workflow = "PUBLISHED"
  BY <1>3, <1>6, <1>d, <1>11 DEF RevRow
<1>14. ASSUME NEW x \in Revisions
       PROVE  LET gone == Handlers(c)!Retired(rev[x])
              IN  /\ gone \in RevRow(W) /\ gone.draw = rev[x].draw /\ gone.rule = rev[x].rule
                  /\ Existing(x) => gone.workflow # "ABSENT"
                  /\ ~Existing(x) => gone = rev[x]
  <2>1. rev[x] \in RevRow(V) BY <1>3
  <2> QED BY <2>1, <1>11 DEF Handlers!Retired, RevRow, Existing
<1>15. ASSUME NEW x \in Revisions
       PROVE  /\ rev'[x] \in RevRow(W) /\ rev'[x].draw = rev[x].draw /\ rev'[x].rule = rev[x].rule
              /\ Existing(x) <=> rev'[x].workflow # "ABSENT"
              /\ rev'[x] # rev[x] => x = q.id \/ (x = old /\ Existing(x))
  <2>1. CASE x = q.id
    <3>1. rev'[x] = new BY <1>8, <2>1
    <3> QED BY <3>1, <2>1, <1>2, <1>13, <1>d
  <2>2. CASE x # q.id /\ x = old
    <3>1. rev'[x] = Handlers(c)!Retired(rev[x]) BY <1>8, <2>2
    <3> QED BY <3>1, <2>2, <1>14 DEF Existing
  <2>3. CASE x # q.id /\ x # old
    <3>1. rev'[x] = rev[x] BY <1>8, <2>3
    <3>2. rev[x] \in RevRow(W) BY <1>3, <1>11 DEF RevRow
    <3> QED BY <3>1, <3>2 DEF Existing
  <2> QED BY <2>1, <2>2, <2>3
<1>16. RowShape'
  <2>1. /\ rule' \in [Rules -> W] /\ batch' \in [Batches -> BatchRow(W)]
        /\ draw' \in [Draws -> DrawRow(W)]
    BY <1>3, <1>7, <1>11, <1>12, <1>k DEF DrawRow, BatchRow
  <2>2. rev' \in [Revisions -> RevRow(W)] BY <1>8, <1>15
  <2> QED BY <2>1, <2>2 DEF RowShape
<1>17. /\ draw'[d] = row /\ \A e \in Draws : e # d => draw'[e] = draw[e]
  BY <1>3, <1>7, <1>k
<1>18. RowsAgree'
  <2>1. \A r \in Revisions : Existing(r)' => rev'[r].draw \in Draws /\ rev'[r].rule \in Rules
           /\ RuleLottery[rev'[r].rule] = LotteryOf[rev'[r].draw]
    BY <1>15 DEF TxInv, RowsAgree, Existing
  <2>2. ASSUME NEW e \in Draws, draw'[e].current # Nil
        PROVE  /\ draw'[e].current \in Revisions
               /\ rev'[draw'[e].current].workflow # "ABSENT"
               /\ rev'[draw'[e].current].draw = e
    <3>1. CASE e = d BY <3>1, <1>2, <1>k, <1>12, <1>15, <1>17, <1>d
    <3>2. CASE e # d BY <3>2, <2>2, <1>15, <1>17 DEF TxInv, RowsAgree, Existing
    <3> QED BY <3>1, <3>2
  <2>3. \A b \in Batches : batch[b].draw # Nil =>
           /\ batch[b].draw \in Draws /\ batch[b].rule \in Rules
           /\ RuleLottery[batch[b].rule] = LotteryOf[batch[b].draw]
    BY DEF TxInv, RowsAgree
  <2> QED BY <2>1, <2>2, <2>3, <1>7 DEF RowsAgree, Existing
<1>19. PICK U : U = Updates(c) OBVIOUS
<1>20. <<"revision", q.id>> \in U /\ <<"revision", old>> \in U /\ <<"draw", d>> \in U
  BY <1>q, <1>1, <1>k, <1>o, <1>19 DEF Updates
<1>21. old \in Revisions => rev[old].draw = d
  BY <1>k, <1>o, IdentifierAssumption DEF TxInv, RowsAgree
<1>22. Kept(q, U)
  BY <1>1, <1>7, <1>15, <1>16, <1>17, <1>18, <1>20, <1>21, <1>k, <1>d DEF Kept, Existing
<1> QED BY <1>q, <1>10, <1>19, <1>22

(* A draft is inserted for a draw, under a rule of its lottery.            *)
LEMMA DraftInserted ==
  ASSUME TxInv, NEW q, q.op \notin OnRule, DrawOf(q) \in Draws,
         NEW U, <<"draw", DrawOf(q)>> \in U,
         NEW r \in Revisions, ~Existing(r),
         NEW W, NEW row \in RevRow(W), rev' = [rev EXCEPT ![r] = row],
         row.workflow = "DRAFT", row.draw = DrawOf(q), row.rule \in Rules,
         RuleLottery[row.rule] = LotteryOf[DrawOf(q)],
         NEW drow \in DrawRow(W), draw' = [draw EXCEPT ![DrawOf(q)] = drow],
         drow.current = draw[DrawOf(q)].current,
         rule' = rule, batch' \in [Batches -> BatchRow(W)],
         \A b \in Batches : batch'[b].draw = batch[b].draw /\ batch'[b].rule = batch[b].rule,
         \A b \in Batches : batch'[b] # batch[b] =>
            q.op = "createDraft" /\ b = q.id /\ <<"batch", b>> \in U
  PROVE  Kept(q, U)
<1>1. PICK V : /\ rule \in [Rules -> V]
               /\ draw \in [Draws -> DrawRow(V)]
               /\ rev \in [Revisions -> RevRow(V)]
  BY DEF TxInv, RowShape
<1>2. PICK d : d = DrawOf(q) OBVIOUS
<1>3. RowShape'
  <2>1. rule' \in [Rules -> V \cup W] BY <1>1
  <2>2. draw' \in [Draws -> DrawRow(V \cup W)] BY <1>1, <1>2 DEF DrawRow
  <2>3. rev' \in [Revisions -> RevRow(V \cup W)] BY <1>1 DEF RevRow
  <2>4. batch' \in [Batches -> BatchRow(V \cup W)]
    <3>1. BatchRow(W) \subseteq BatchRow(V \cup W) BY DEF BatchRow
    <3> QED BY <3>1
  <2> QED BY <2>1, <2>2, <2>3, <2>4 DEF RowShape
<1>4. /\ \A e \in Draws : e # d => draw'[e] = draw[e]
      /\ \A e \in Draws : draw'[e].current = draw[e].current
  BY <1>1, <1>2
<1>5. rev'[r] = row /\ \A x \in Revisions : x # r => rev'[x] = rev[x]
  BY <1>1
<1>6. RowsAgree'
  <2>1. \A x \in Revisions : Existing(x)' =>
          /\ rev'[x].draw \in Draws /\ rev'[x].rule \in Rules
          /\ RuleLottery[rev'[x].rule] = LotteryOf[rev'[x].draw]
    BY <1>5 DEF TxInv, RowsAgree, Existing
  <2>2. \A e \in Draws : draw'[e].current # Nil =>
          /\ draw'[e].current \in Revisions
          /\ rev'[draw'[e].current].workflow # "ABSENT" /\ rev'[draw'[e].current].draw = e
    BY <1>4, <1>5 DEF TxInv, RowsAgree, Existing
  <2>3. \A b \in Batches : batch'[b].draw # Nil =>
          /\ batch'[b].draw \in Draws /\ batch'[b].rule \in Rules
          /\ RuleLottery[batch'[b].rule] = LotteryOf[batch'[b].draw]
    BY DEF TxInv, RowsAgree
  <2> QED BY <2>1, <2>2, <2>3 DEF RowsAgree, Existing
<1>7. \A x \in Revisions : Existing(x) => x # r OBVIOUS
<1> QED BY <1>2, <1>3, <1>4, <1>5, <1>6, <1>7 DEF Kept, Existing

(* What stands in a new draft.                                             *)
LEMMA NewDrafts ==
  ASSUME NEW c \in Calls, Known(draw, tx[c].draw, DrawOf(Req(c))) = draw,
         NEW a, NEW d, NEW u, NEW kind, NEW dates, NEW payload
  PROVE  LET row == Handlers(c)!NewDraft(a, d, u, kind, dates, payload)
         IN  /\ View(c)!NewDraft(a, d, u, kind, dates, payload) = row
             /\ row.workflow = "DRAFT" /\ row.draw = d /\ row.rule = u
             /\ \E W : row \in RevRow(W)
<1>1. PICK row : row = Handlers(c)!NewDraft(a, d, u, kind, dates, payload) OBVIOUS
<1>2. View(c)!NewDraft(a, d, u, kind, dates, payload) = row
  BY <1>1 DEF View!NewDraft, View!NoRevision, Handlers!NewDraft, Handlers!NoRevision
<1>3. row.workflow = "DRAFT" /\ row.draw = d /\ row.rule = u
  BY <1>1 DEF Handlers!NewDraft, Handlers!NoRevision
<1>4. PICK h : h = <<u, dates, payload>> OBVIOUS
<1>5. PICK W : /\ {"ABSENT", "DRAFT", 0, 1, Nil, a, d, u, h} \subseteq W
               /\ {kind, dates, payload, draw[d].nextNo, draw[d].current} \subseteq W
  <2> DEFINE W == {"ABSENT", "DRAFT", 0, 1, Nil, a, d, u, h}
                    \cup {kind, dates, payload, draw[d].nextNo, draw[d].current}
  <2>1. /\ {"ABSENT", "DRAFT", 0, 1, Nil, a, d, u, h} \subseteq W
        /\ {kind, dates, payload, draw[d].nextNo, draw[d].current} \subseteq W
    OBVIOUS
  <2> QED BY <2>1, Zenon
<1>6. row \in RevRow(W)
  <2>1. Handlers(c)!NoRevision \in RevRow(W) BY <1>5 DEF Handlers!NoRevision, RevRow
  <2>2. /\ {"ABSENT", "DRAFT", d, u, kind, dates, payload, h, a} \subseteq W
        /\ draw[d].nextNo \in W /\ draw[d].current \in W
    BY <1>5
  <2>3. ASSUME NEW x \in RevRow(W)
        PROVE  [x EXCEPT !.workflow = "DRAFT", !.draw = d, !.rule = u, !.no = draw[d].nextNo,
                         !.basedOn = draw[d].current] \in RevRow(W)
    BY <2>2 DEF RevRow
  <2>4. ASSUME NEW x \in RevRow(W)
        PROVE  [x EXCEPT !.kind = kind, !.dates = dates, !.payload = payload,
                         !.contentHash = h, !.lastEditedBy = a] \in RevRow(W)
    BY <2>2 DEF RevRow
  <2> QED BY <1>1, <1>4, <2>1, <2>3, <2>4, Zenon DEF Handlers!NewDraft
<1> QED BY <1>1, <1>2, <1>3, <1>6

(* Number and edit version of the draw, and no more, go up.                *)
Counted(d, V) ==
    /\ draw' = [draw EXCEPT ![d].nextNo = @ + 1, ![d].editVersion = @ + 1]
    /\ \E W : /\ V \subseteq W /\ draw'[d] \in DrawRow(W)
              /\ draw' = [draw EXCEPT ![d] = draw'[d]]
              /\ draw'[d].current = draw[d].current

LEMMA DraftCounted ==
  ASSUME NEW d \in Draws, NEW V, draw \in [Draws -> DrawRow(V)],
         draw' = [draw EXCEPT ![d].nextNo = draw[d].nextNo + 1,
                              ![d].editVersion = draw[d].editVersion + 1]
  PROVE  Counted(d, V)
<1>1. PICK row : row = [draw[d] EXCEPT !.nextNo = @ + 1, !.editVersion = @ + 1] OBVIOUS
<1>2. draw' = [draw EXCEPT ![d] = row]
      /\ draw' = [draw EXCEPT ![d].nextNo = @ + 1, ![d].editVersion = @ + 1]
  BY <1>1 DEF DrawRow
<1>3. PICK W : W = V \cup {draw[d].nextNo + 1, draw[d].editVersion + 1} OBVIOUS
<1>4. row \in DrawRow(W) /\ row.current = draw[d].current
  <2>1. draw[d] \in DrawRow(V) OBVIOUS
  <2> QED BY <2>1, <1>1, <1>3 DEF DrawRow
<1>5. draw'[d] = row BY <1>2
<1>6. V \subseteq W BY <1>3
<1> QED BY <1>2, <1>4, <1>5, <1>6 DEF Counted

LEMMA CorrectionCommits ==
  ASSUME TxInv, NEW c \in Calls, Certain(c, Req(c)), Req(c).op = "correct", WriteCorrection(c)
  PROVE  Kept(Req(c), Updates(c)) /\ Handlers(c)!Next
<1>q. PICK q : q = Req(c) OBVIOUS
<1>1. /\ GoodRequest(q) /\ q.op = "correct" /\ q.op \in OnDraw /\ q.op \notin OnRule
  BY <1>q DEF Certain, OnDraw, OnRule
<1>2. q.id \in Draws /\ q.actor \in Admins /\ q.page = Unseen
  BY <1>1 DEF GoodRequest
<1>k. /\ DrawOf(q) = q.id /\ KnownDraw(c) = draw[q.id]
      /\ Known(draw, tx[c].draw, DrawOf(Req(c))) = draw /\ UNCHANGED Asked(c)
  <2>1. DrawOf(q) = q.id BY <1>1 DEF DrawOf, OnDraw, OnRevision
  <2> QED BY <1>q, <1>1, <1>2, <2>1 DEF Certain
<1>3. /\ draw[q.id].current # Nil /\ Handlers(c)!Open(q.id) = {}
      /\ draw[q.id].editVersion < MaxDrawVersion
  <2>1. /\ draw[q.id].current # Nil /\ Pipeline!Open(q.id) = {}
        /\ draw[q.id].editVersion < MaxDrawVersion
    BY <1>q, <1>1 DEF Certain, Grounds
  <2> QED BY <2>1 DEF Pipeline!Open, Handlers!Open
<1>4. PICK cur : cur = rev[draw[q.id].current] OBVIOUS
<1>5. /\ draw[q.id].current \in Revisions /\ cur.rule \in Rules
      /\ RuleLottery[cur.rule] = LotteryOf[q.id]
  BY <1>2, <1>3, <1>4 DEF TxInv, RowsAgree, Existing
<1>6. PICK row : row = Handlers(c)!NewDraft(q.actor, q.id, cur.rule, "CORRECTION", cur.dates,
                                            cur.payload)
  OBVIOUS
<1>7. /\ View(c)!NewDraft(q.actor, q.id, cur.rule, "CORRECTION", cur.dates, cur.payload) = row
      /\ row.workflow = "DRAFT" /\ row.draw = q.id /\ row.rule = cur.rule
  BY <1>6, <1>k, NewDrafts
<1>8. PICK W : row \in RevRow(W) BY <1>6, <1>k, NewDrafts
<1>9. InsertDraft(c, row) /\ UNCHANGED <<rule, batch, dataset, published>>
  BY <1>q, <1>4, <1>7, <1>k DEF WriteCorrection
<1>10. PICK r \in Revisions : rev[r].workflow = "ABSENT" /\ rev' = [rev EXCEPT ![r] = row]
  BY <1>9 DEF InsertDraft
<1>11. draw' = [draw EXCEPT ![q.id].nextNo = draw[q.id].nextNo + 1,
                            ![q.id].editVersion = draw[q.id].editVersion + 1]
  BY <1>9, <1>q, <1>k, Zenon DEF InsertDraft
<1>12. PICK V : /\ draw \in [Draws -> DrawRow(V)]
                /\ batch \in [Batches -> BatchRow(V)]
  BY DEF TxInv, RowShape
<1>13. Counted(q.id, V)
  BY <1>2, <1>11, <1>12, DraftCounted, Zenon
<1>14. Handlers(c)!CreateCorrection(q.actor, q.id, r)
  <2>1. Handlers(c)!InsertDraft(r, q.id, row)
    BY <1>3, <1>10, <1>13 DEF Counted, Handlers!InsertDraft
  <2> QED BY <1>3, <1>4, <1>6, <1>9, <1>k, <2>1 DEF Handlers!CreateCorrection
<1>15. Handlers(c)!Next BY <1>2, <1>14 DEF Handlers!Next, Handlers!RevisionStep
<1>16. Kept(q, Updates(c))
  <2>1. PICK X : /\ V \subseteq X /\ draw'[q.id] \in DrawRow(X)
                 /\ draw' = [draw EXCEPT ![q.id] = draw'[q.id]]
                 /\ draw'[q.id].current = draw[q.id].current
    BY <1>13 DEF Counted
  <2>2. PICK drow : drow = draw'[q.id] OBVIOUS
  <2>3. PICK Y : Y = W \cup X OBVIOUS
  <2>4. /\ row \in RevRow(Y) /\ drow \in DrawRow(Y)
        /\ batch' \in [Batches -> BatchRow(Y)] /\ batch' = batch /\ rule' = rule
    BY <1>8, <1>9, <1>12, <2>1, <2>2, <2>3 DEF RevRow, DrawRow, BatchRow
  <2>5. /\ \A x \in Batches : batch'[x].draw = batch[x].draw /\ batch'[x].rule = batch[x].rule
        /\ \A x \in Batches : batch'[x] = batch[x]
    BY <2>4
  <2>6. PICK U : U = Updates(c) OBVIOUS
  <2>7. <<"draw", DrawOf(q)>> \in U BY <1>q, <1>1, <1>k, <2>6 DEF Updates, OnRevision
  <2>8. ~Existing(r) BY <1>10 DEF Existing
  <2>9. /\ draw' = [draw EXCEPT ![DrawOf(q)] = drow] /\ drow.current = draw[DrawOf(q)].current
        /\ row.draw = DrawOf(q) /\ row.rule \in Rules
        /\ RuleLottery[row.rule] = LotteryOf[DrawOf(q)] /\ DrawOf(q) \in Draws
    BY <1>2, <1>k, <1>5, <1>7, <2>1, <2>2
  <2>10. Kept(q, U)
    BY <1>1, <1>7, <1>10, <2>4, <2>5, <2>7, <2>8, <2>9, DraftInserted
  <2> QED BY <2>6, <2>10
<1> QED BY <1>q, <1>15, <1>16

LEMMA DraftCommits ==
  ASSUME TxInv, NEW c \in Calls, Certain(c, Req(c)), Req(c).op = "createDraft", WriteDraft(c)
  PROVE  Kept(Req(c), Updates(c)) /\ Handlers(c)!Next
<1>q. PICK q : q = Req(c) OBVIOUS
<1>1. /\ GoodRequest(q) /\ q.op = "createDraft" /\ q.op \notin OnRule
  BY <1>q DEF Certain, OnRule
<1>b. PICK b : b = batch[q.id] OBVIOUS
<1>d. PICK d : d = b.draw OBVIOUS
<1>2. q.id \in Batches /\ d # Nil /\ q.actor \in Admins /\ q.page = Unseen
  BY <1>1, <1>b, <1>d DEF GoodRequest
<1>k. /\ DrawOf(q) = d /\ d \in Draws /\ KnownDraw(c) = draw[d] /\ tx[c].batch = b
      /\ Known(draw, tx[c].draw, DrawOf(Req(c))) = draw /\ UNCHANGED Asked(c)
  <2>1. DrawOf(q) = d BY <1>1, <1>b, <1>d DEF DrawOf, OnDraw, OnRevision
  <2> QED BY <1>q, <1>1, <1>2, <1>b, <2>1 DEF Certain
<1>3. /\ b.status = "PREVIEW_READY" /\ rule[b.rule] = "APPROVED"
      /\ Handlers(c)!KindStillFits(q.id) /\ draw[d].editVersion < MaxDrawVersion
  <2>1. /\ b.status = "PREVIEW_READY" /\ rule[b.rule] = "APPROVED"
        /\ Pipeline!KindStillFits(q.id) /\ draw[d].editVersion < MaxDrawVersion
    BY <1>q, <1>1, <1>b, <1>k DEF Certain, Grounds
  <2> QED BY <2>1 DEF Pipeline!KindStillFits, Handlers!KindStillFits
<1>5. b.rule \in Rules /\ RuleLottery[b.rule] = LotteryOf[d]
  BY <1>2, <1>b, <1>d DEF TxInv, RowsAgree
<1>6. PICK row : row = Handlers(c)!NewDraft(q.actor, d, b.rule, b.kind, draw[d].dates, b.payload)
  OBVIOUS
<1>7. /\ View(c)!NewDraft(q.actor, d, b.rule, b.kind, draw[d].dates, b.payload) = row
      /\ row.workflow = "DRAFT" /\ row.draw = d /\ row.rule = b.rule
  BY <1>6, <1>k, NewDrafts
<1>8. PICK W : row \in RevRow(W) BY <1>6, <1>k, NewDrafts
<1>9. /\ InsertDraft(c, row) /\ UNCHANGED <<rule, dataset, published>>
      /\ \E r \in Revisions :
            /\ rev'[r] # rev[r]
            /\ batch' = [batch EXCEPT ![q.id].status = "DRAFT_CREATED", ![q.id].created = r]
  BY <1>q, <1>d, <1>7, <1>k DEF WriteDraft
<1>10. PICK r \in Revisions : rev[r].workflow = "ABSENT" /\ rev' = [rev EXCEPT ![r] = row]
  BY <1>9 DEF InsertDraft
<1>11. draw' = [draw EXCEPT ![d].nextNo = draw[d].nextNo + 1,
                            ![d].editVersion = draw[d].editVersion + 1]
  BY <1>9, <1>q, <1>k, Zenon DEF InsertDraft
<1>12. PICK V : /\ draw \in [Draws -> DrawRow(V)]
                /\ rev \in [Revisions -> RevRow(V)]
                /\ batch \in [Batches -> BatchRow(V)]
  BY DEF TxInv, RowShape
<1>13. Counted(d, V)
  BY <1>k, <1>11, <1>12, DraftCounted, Zenon
<1>14. batch' = [batch EXCEPT ![q.id].status = "DRAFT_CREATED", ![q.id].created = r]
  <2>1. \A x \in Revisions : x # r => rev'[x] = rev[x] BY <1>10, <1>12
  <2>2. PICK s \in Revisions :
           /\ rev'[s] # rev[s]
           /\ batch' = [batch EXCEPT ![q.id].status = "DRAFT_CREATED", ![q.id].created = s]
    BY <1>9
  <2>3. s = r BY <2>1, <2>2
  <2> QED BY <2>2, <2>3
<1>15. Handlers(c)!CreateDraft(q.actor, q.id, r)
  <2>1. Handlers(c)!InsertDraft(r, d, row)
    BY <1>3, <1>10, <1>13 DEF Counted, Handlers!InsertDraft
  <2> QED BY <1>3, <1>6, <1>9, <1>14, <1>b, <1>d, <1>k, <2>1 DEF Handlers!CreateDraft
<1>16. Handlers(c)!Next BY <1>2, <1>15 DEF Handlers!Next, Handlers!ImportStep
<1>17. Kept(q, Updates(c))
  <2>1. PICK X : /\ V \subseteq X /\ draw'[d] \in DrawRow(X)
                 /\ draw' = [draw EXCEPT ![d] = draw'[d]]
                 /\ draw'[d].current = draw[d].current
    BY <1>13 DEF Counted
  <2>2. PICK drow : drow = draw'[d] OBVIOUS
  <2>3. PICK Y : Y = W \cup X \cup {"DRAFT_CREATED", r} OBVIOUS
  <2>4. /\ row \in RevRow(Y) /\ drow \in DrawRow(Y)
    BY <1>8, <2>1, <2>2, <2>3 DEF RevRow, DrawRow
  <2>5. /\ batch' \in [Batches -> BatchRow(Y)]
        /\ \A x \in Batches : batch'[x].draw = batch[x].draw /\ batch'[x].rule = batch[x].rule
        /\ \A x \in Batches : x # q.id => batch'[x] = batch[x]
    BY <1>2, <1>12, <1>14, <2>1, <2>3 DEF BatchRow
  <2>6. PICK U : U = Updates(c) OBVIOUS
  <2>7. <<"draw", DrawOf(q)>> \in U /\ <<"batch", q.id>> \in U
    BY <1>q, <1>1, <1>k, <2>6 DEF Updates, OnRevision
  <2>8. ~Existing(r) /\ rule' = rule BY <1>9, <1>10 DEF Existing
  <2>9. /\ draw' = [draw EXCEPT ![DrawOf(q)] = drow] /\ drow.current = draw[DrawOf(q)].current
        /\ row.draw = DrawOf(q) /\ row.rule \in Rules
        /\ RuleLottery[row.rule] = LotteryOf[DrawOf(q)] /\ DrawOf(q) \in Draws
    BY <1>k, <1>5, <1>7, <2>1, <2>2
  <2>10. Kept(q, U)
    BY <1>1, <1>7, <1>10, <2>4, <2>5, <2>7, <2>8, <2>9, DraftInserted
  <2> QED BY <2>6, <2>10
<1> QED BY <1>q, <1>16, <1>17

(* Whatever a call writes, its commit is a handler's step that leaves the  *)
(* rows of the others alone.                                               *)
LEMMA CommitIsAStep ==
  ASSUME TxInv, NEW c \in Calls, Commit(c)
  PROVE  Kept(Req(c), Updates(c)) /\ Handlers(c)!Next
<1>1. Certain(c, Req(c)) BY CommitIsCertain
<1>2. Writes(c) BY DEF Commit
<1> QED BY <1>1, <1>2, PatchCommits, ReopenCommits, ReviewCommits, PublishCommits,
           VisibilityCommits, PatchDrawCommits, RuleCommits, CorrectionCommits, DraftCommits
        DEF Writes

(* A request is about what it was about, and good, after any commit.       *)
LEMMA RequestStays ==
  ASSUME NEW q, NEW U, Kept(q, U), NEW p, GoodRequest(p)
  PROVE  /\ GoodRequest(p)' /\ DrawOf(p)' = DrawOf(p)
         /\ Lottery(p)' = Lottery(p) /\ Plan(p)' = Plan(p)
<1>1. GoodRequest(p)' BY DEF GoodRequest, Kept, Existing
<1>2. DrawOf(p)' = DrawOf(p)
  BY DEF GoodRequest, Kept, Existing, DrawOf, AllOperations, OnRevision, OnDraw, OnRule
<1>3. Lottery(p)' = Lottery(p) BY <1>2 DEF Lottery, LotteryFor
<1>4. Plan(p)' = Plan(p)
  BY <1>2, <1>3 DEF Plan, KeyLock, BatchLock, LotteryLock, DrawLock, OwnLock, Scope
<1> QED BY <1>1, <1>2, <1>3, <1>4

(* A row lock that a call holds is on a row of its own.                    *)
LEMMA LockedRows ==
  ASSUME NEW e \in Calls, InOrder(e)
  PROVE  LET p == Req(e)
         IN  /\ Holds(e, <<"draw", DrawOf(p)>>) => p.op \notin OnRule
             /\ Holds(e, <<"revision", p.id>>) => p.op \in OnRevision
             /\ Holds(e, <<"rule", p.id>>) => p.op \in OnRule
             /\ Holds(e, <<"batch", p.id>>) => p.op = "createDraft"
<1>p. PICK p : p = Req(e) OBVIOUS
<1>1. Planned(p) /\ tx[e].held \in 0..Len(Plan(p))
  BY <1>p, InPlan DEF InOrder, GoodRequest
<1>2. ASSUME NEW x, Holds(e, x)
      PROVE  \E i \in 1..Len(Plan(p)) : Plan(p)[i] = x
  <2>1. PICK i \in 1..tx[e].held : Plan(p)[i] = x BY <1>p, <1>2 DEF Holds
  <2>2. i \in 1..Len(Plan(p)) BY <1>1 DEF Planned
  <2> QED BY <2>1, <2>2
<1>3. ASSUME NEW i \in 1..Len(Plan(p))
      PROVE  /\ p.op \in OnRule => Plan(p)[i] # <<"draw", DrawOf(p)>>
             /\ p.op \notin OnRevision => Plan(p)[i] # <<"revision", p.id>>
             /\ p.op \notin OnRule => Plan(p)[i] # <<"rule", p.id>>
             /\ p.op # "createDraft" => Plan(p)[i] # <<"batch", p.id>>
  <2>1. \/ Plan(p)[i] = <<"key", Scope(p)>>
        \/ p.op = "createDraft" /\ Plan(p)[i] = <<"batch", p.id>>
        \/ Plan(p)[i] = Lottery(p)
        \/ p.op \notin OnRule /\ Plan(p)[i] = <<"draw", DrawOf(p)>>
        \/ p.op \in OnRevision /\ Plan(p)[i] = <<"revision", p.id>>
        \/ p.op \in OnRule /\ Plan(p)[i] = <<"rule", p.id>>
    BY <1>1, <1>3 DEF Planned
  <2> QED BY <2>1 DEF Lottery
<1>4. Holds(e, <<"draw", DrawOf(p)>>) => p.op \notin OnRule BY <1>2, <1>3
<1>5. Holds(e, <<"revision", p.id>>) => p.op \in OnRevision BY <1>2, <1>3
<1>6. Holds(e, <<"rule", p.id>>) => p.op \in OnRule BY <1>2, <1>3
<1>7. Holds(e, <<"batch", p.id>>) => p.op = "createDraft" BY <1>2, <1>3
<1> QED BY <1>p, <1>4, <1>5, <1>6, <1>7

(* A call that reads what nobody else may write still knows it.            *)
LEMMA ReadsStand ==
  ASSUME TxInv, NEW q, NEW U, Kept(q, U),
         NEW e \in Calls, tx[e].step # "idle", tx'[e] = tx[e], \A x \in U : ~Holds(e, x)
  PROVE  AsRead(e)' /\ \A x : Holds(e, x)' = Holds(e, x)
<1>p. PICK p : p = Req(e) OBVIOUS
<1>1. InOrder(e) /\ GoodRequest(p) /\ Req(e)' = p BY <1>p DEF TxInv, InOrder, Req
<1>2. DrawOf(p)' = DrawOf(p) /\ Plan(p)' = Plan(p) BY <1>1, RequestStays
<1>3. \A x : Holds(e, x)' = Holds(e, x) BY <1>p, <1>1, <1>2 DEF Holds
<1>4. /\ Holds(e, <<"draw", DrawOf(p)>>) => p.op \notin OnRule
      /\ Holds(e, <<"revision", p.id>>) => p.op \in OnRevision
      /\ Holds(e, <<"rule", p.id>>) => p.op \in OnRule
      /\ Holds(e, <<"batch", p.id>>) => p.op = "createDraft"
  BY <1>p, <1>1, LockedRows
<1>5. Holds(e, <<"draw", DrawOf(p)>>) => draw'[DrawOf(p)] = draw[DrawOf(p)]
  <2>1. p.op \notin OnRule => DrawOf(p) \in Draws
    BY <1>1 DEF TxInv, RowsAgree, GoodRequest, DrawOf, AllOperations, OnRevision, OnDraw
  <2> QED BY <2>1, <1>4 DEF Kept
<1>6. Holds(e, <<"revision", p.id>>) => rev'[p.id] = rev[p.id]
  BY <1>1, <1>4 DEF Kept, GoodRequest
<1>7. Holds(e, <<"rule", p.id>>) => rule'[p.id] = rule[p.id]
  BY <1>1, <1>4 DEF Kept, GoodRequest
<1>8. Holds(e, <<"batch", p.id>>) => batch'[p.id] = batch[p.id]
  BY <1>1, <1>4 DEF Kept, GoodRequest
<1>9. AsRead(e)'
  <2>1. AsRead(e) BY <1>1 DEF InOrder
  <2>2. tx'[e].draw = IF Holds(e, <<"draw", DrawOf(p)>>)' THEN draw'[DrawOf(p)] ELSE Nil
    BY <1>p, <1>2, <1>3, <1>5, <2>1 DEF AsRead
  <2>3. tx'[e].rev = IF Holds(e, <<"revision", p.id>>)' THEN rev'[p.id] ELSE Nil
    BY <1>p, <1>3, <1>6, <2>1 DEF AsRead
  <2>4. tx'[e].rule = IF Holds(e, <<"rule", p.id>>)' THEN rule'[p.id] ELSE Nil
    BY <1>p, <1>3, <1>7, <2>1 DEF AsRead
  <2>5. tx'[e].batch = IF Holds(e, <<"batch", p.id>>)' THEN batch'[p.id] ELSE Nil
    BY <1>p, <1>3, <1>8, <2>1 DEF AsRead
  <2> QED BY <1>1, <1>2, <2>2, <2>3, <2>4, <2>5 DEF AsRead
<1> QED BY <1>3, <1>9

(* What the grounds of a request rest on is as it was after a commit.      *)
Firm(p) ==
    /\ DrawOf(p)' = DrawOf(p)
    /\ p.op \notin OnRule =>
          /\ draw'[DrawOf(p)] = draw[DrawOf(p)]
          /\ \A r \in Revisions : Existing(r) /\ rev[r].draw = DrawOf(p) => rev'[r] = rev[r]
          /\ \A r \in Revisions : rev'[r].draw = DrawOf(p) => rev'[r] = rev[r]
    /\ p.op \notin OnRule \cup {"patchDraw"} =>
          \A u \in Rules : RuleLottery[u] = LotteryOf[DrawOf(p)] => rule'[u] = rule[u]
    /\ p.op \in OnRule => rule'[p.id] = rule[p.id]
    /\ p.op = "createDraft" => batch'[p.id] = batch[p.id]

(* The grounds stand on it.                                                *)
LEMMA GroundsStand ==
  ASSUME TxInv, NEW p, GoodRequest(p), Grounds(p), Firm(p)
  PROVE  Grounds(p)'
<1>1. ASSUME p.op \in OnRevision
      PROVE  /\ p.id \in Revisions /\ Existing(p.id) /\ DrawOf(p) = rev[p.id].draw
             /\ rev'[p.id] = rev[p.id] /\ draw'[DrawOf(p)] = draw[DrawOf(p)]
             /\ rule'[rev[p.id].rule] = rule[rev[p.id].rule]
  <2>1. p.id \in Revisions /\ Existing(p.id) /\ DrawOf(p) = rev[p.id].draw
    BY <1>1 DEF GoodRequest, DrawOf, OnRevision, OnDraw
  <2>2. p.op \notin OnRule \cup {"patchDraw"} BY <1>1 DEF OnRevision, OnRule
  <2>3. rev[p.id].rule \in Rules /\ RuleLottery[rev[p.id].rule] = LotteryOf[DrawOf(p)]
    BY <2>1 DEF TxInv, RowsAgree
  <2> QED BY <2>1, <2>2, <2>3 DEF Firm
<1>2. ASSUME p.op \in OnDraw
      PROVE  DrawOf(p) = p.id /\ p.id \in Draws /\ draw'[p.id] = draw[p.id]
  BY <1>2 DEF GoodRequest, DrawOf, OnRevision, OnDraw, OnRule, Firm
<1> USE DEF OnRevision, OnDraw, OnRule
<1>3. CASE p.op = "patch"
  BY <1>1, <1>3 DEF Grounds, SeenRevision
<1>4. CASE p.op = "reopen"
  BY <1>1, <1>4 DEF Grounds, SeenRevision
<1>5. CASE p.op = "review"
  BY <1>1, <1>5 DEF Grounds, SeenRevision, Pipeline!Hash, Pipeline!MayReview, Pipeline!Publishable
<1>6. CASE p.op = "publish"
  <2>1. /\ SeenRevision(p) /\ SeenCurrent(p) /\ rev[p.id].workflow = "READY"
        /\ Pipeline!ReviewStands(p.id) /\ Pipeline!Publishable(p.id)
        /\ draw[DrawOf(p)].visibility = "SUSPENDED" => p.body.flag
        /\ draw[DrawOf(p)].phase # "CANCELLED"
        /\ ~Pipeline!Downgrades(p.id)
        /\ rev[p.id].dates \in DrawDates
        /\ draw[DrawOf(p)].editVersion < MaxDrawVersion
    BY <1>6 DEF Grounds
  <2>2. (SeenRevision(p) /\ SeenCurrent(p))'
    BY <1>1, <1>6, <2>1 DEF SeenRevision, SeenCurrent, Firm
  <2>3. (Pipeline!ReviewStands(p.id) /\ Pipeline!Publishable(p.id))'
    BY <1>1, <1>6, <2>1 DEF Pipeline!ReviewStands, Pipeline!Publishable, Pipeline!Hash
  <2>4. ~Pipeline!Downgrades(p.id)'
    <3>1. rev[p.id].basedOn # Nil => rev'[rev[p.id].basedOn] = rev[rev[p.id].basedOn]
      <4>1. SUFFICES ASSUME rev[p.id].basedOn # Nil
                     PROVE  rev'[rev[p.id].basedOn] = rev[rev[p.id].basedOn]
        OBVIOUS
      <4>2. PICK b : b = rev[p.id].basedOn OBVIOUS
      <4>3. b = draw[DrawOf(p)].current /\ b # Nil BY <2>1, <4>1, <4>2 DEF SeenCurrent
      <4>4. DrawOf(p) \in Draws BY <1>1, <1>6 DEF TxInv, RowsAgree
      <4>5. b \in Revisions /\ Existing(b) /\ rev[b].draw = DrawOf(p)
        BY <4>3, <4>4 DEF TxInv, RowsAgree
      <4>6. rev'[b] = rev[b] BY <1>6, <4>5 DEF Firm
      <4> QED BY <4>2, <4>6
    <3> QED BY <1>1, <1>6, <2>1, <3>1 DEF Pipeline!Downgrades
  <2> QED BY <1>1, <1>6, <2>1, <2>2, <2>3, <2>4 DEF Grounds, Firm
<1>7. CASE p.op \in {"suspend", "resume"}
  BY <1>2, <1>7 DEF Grounds, SeenDraw
<1>8. CASE p.op = "patchDraw"
  BY <1>2, <1>8 DEF Grounds, SeenDraw, Pipeline!MayPatchDraw
<1>9. CASE p.op = "correct"
  <2>1. /\ draw[p.id].current # Nil /\ Pipeline!Open(p.id) = {}
        /\ draw[p.id].editVersion < MaxDrawVersion
    BY <1>9 DEF Grounds
  <2>2. \A r \in Revisions : rev'[r].draw = p.id => rev'[r] = rev[r] BY <1>2, <1>9 DEF Firm
  <2>3. Pipeline!Open(p.id)' = {} BY <2>1, <2>2 DEF Pipeline!Open
  <2> QED BY <1>2, <1>9, <2>1, <2>3 DEF Grounds
<1>10. CASE p.op \in OnRule
  BY <1>10 DEF Grounds, Firm
<1>11. CASE p.op = "createDraft"
  <2>1. /\ batch'[p.id] = batch[p.id] /\ DrawOf(p) = batch[p.id].draw
        /\ draw'[DrawOf(p)] = draw[DrawOf(p)] /\ DrawOf(p)' = DrawOf(p)
    BY <1>11 DEF Firm, DrawOf
  <2>2. rule'[batch[p.id].rule] = rule[batch[p.id].rule]
    BY <1>11, <2>1 DEF Firm, TxInv, RowsAgree, GoodRequest
  <2> QED BY <1>11, <2>1, <2>2 DEF Grounds, Pipeline!KindStillFits
<1> QED BY <1>3, <1>4, <1>5, <1>6, <1>7, <1>8, <1>9, <1>10, <1>11 DEF GoodRequest, AllOperations

(* What a call has decided rests on what it holds: on the draw's lock and, *)
(* for the rules, the lottery's, which whoever commits must hold too.      *)
LEMMA DecisionIsFirm ==
  ASSUME TxInv, NEW c \in Calls, tx[c].step = "decided",
         NEW U, Kept(Req(c), U),
         NEW e \in Calls, e # c, tx[e].step = "decided", \A x \in U : ~Holds(e, x)
  PROVE  Firm(Req(e))
<1>q. PICK q : q = Req(c) OBVIOUS
<1>p. PICK p : p = Req(e) OBVIOUS
<1>1. /\ InOrder(c) /\ tx[c].held = Len(Plan(q))
      /\ InOrder(e) /\ tx[e].held = Len(Plan(p))
      /\ GoodRequest(q) /\ GoodRequest(p)
  BY <1>q, <1>p DEF TxInv, InOrder
<1>2. /\ q.op # "patchDraw" => Holds(c, Lottery(q))
      /\ q.op \notin OnRule => Holds(c, <<"draw", DrawOf(q)>>)
  BY <1>q, <1>1, HeldLocks
<1>3. /\ p.op # "patchDraw" => Holds(e, Lottery(p))
      /\ p.op \notin OnRule => Holds(e, <<"draw", DrawOf(p)>>)
      /\ p.op \in OnRule => Holds(e, <<"rule", p.id>>)
      /\ p.op = "createDraft" => Holds(e, <<"batch", p.id>>)
  BY <1>p, <1>1, HeldLocks
<1>4. \A x : ~(Holds(c, x) /\ Holds(e, x)) BY DEF TxInv, LocksAreExclusive
<1>5. DrawOf(p)' = DrawOf(p) BY <1>q, <1>1, RequestStays
<1>6. ASSUME p.op \notin OnRule
      PROVE  /\ draw'[DrawOf(p)] = draw[DrawOf(p)]
             /\ \A r \in Revisions : Existing(r) /\ rev[r].draw = DrawOf(p) => rev'[r] = rev[r]
             /\ \A r \in Revisions : rev'[r].draw = DrawOf(p) => rev'[r] = rev[r]
  <2>1. DrawOf(p) \in Draws
    BY <1>1, <1>6 DEF TxInv, RowsAgree, GoodRequest, DrawOf, AllOperations, OnRevision, OnDraw
  <2>2. q.op \notin OnRule => DrawOf(q) # DrawOf(p)
    <3>1. <<"draw", DrawOf(q)>> = <<"draw", DrawOf(p)>> => ~(q.op \notin OnRule)
      BY <1>2, <1>3, <1>4, <1>6
    <3> QED BY <3>1
  <2>3. draw'[DrawOf(p)] = draw[DrawOf(p)] BY <1>q, <2>1, <2>2 DEF Kept
  <2>4. \A r \in Revisions : rev'[r] # rev[r] => rev'[r].draw # DrawOf(p)
    BY <1>q, <2>2 DEF Kept
  <2>5. \A r \in Revisions : Existing(r) => rev'[r].draw = rev[r].draw BY DEF Kept
  <2> QED BY <2>3, <2>4, <2>5
<1>7. p.op \notin OnRule \cup {"patchDraw"} =>
        \A u \in Rules : RuleLottery[u] = LotteryOf[DrawOf(p)] => rule'[u] = rule[u]
  <2> SUFFICES ASSUME p.op \notin OnRule \cup {"patchDraw"}, NEW u \in Rules,
                      RuleLottery[u] = LotteryOf[DrawOf(p)]
               PROVE  rule'[u] = rule[u]
    OBVIOUS
  <2>1. Lottery(p) = <<"lottery", LotteryOf[DrawOf(p)]>> BY DEF Lottery, LotteryFor
  <2>2. ASSUME q.op \in OnRule, q.id = u PROVE FALSE
    <3>1. Lottery(q) = <<"lottery", RuleLottery[u]>> BY <2>2 DEF Lottery, LotteryFor
    <3>2. Lottery(q) = Lottery(p) BY <2>1, <3>1
    <3>3. q.op # "patchDraw" BY <2>2 DEF OnRule
    <3> QED BY <3>2, <3>3, <1>2, <1>3, <1>4
  <2> QED BY <1>q, <2>2 DEF Kept
<1>8. p.op \in OnRule => rule'[p.id] = rule[p.id]
  BY <1>3, <1>1 DEF Kept, GoodRequest
<1>9. p.op = "createDraft" => batch'[p.id] = batch[p.id]
  BY <1>3, <1>1 DEF Kept, GoodRequest
<1>10. Firm(p) BY <1>5, <1>6, <1>7, <1>8, <1>9 DEF Firm
<1> QED BY <1>p, <1>10

(* A commit leaves everything in order.                                    *)
LEMMA CommitInOrder ==
  ASSUME TxInv, NEW c \in Calls, Commit(c)
  PROVE  TxInv'
<1>q. PICK q : q = Req(c) OBVIOUS
<1>u. PICK U : U = Updates(c) OBVIOUS
<1>1. Kept(q, U) BY <1>q, <1>u, CommitIsAStep
<1>2. \A e \in Calls : e # c => \A x \in U : ~Holds(e, x) BY <1>u DEF Commit
<1>3. TxShape' /\ OthersStay(c) /\ tx'[c].step = "idle" BY ShapeEnd DEF TxInv, Commit
<1>4. RowShape' /\ RowsAgree' BY <1>1 DEF Kept
<1>5. \A p \in sent' : GoodRequest(p)'
  <2>1. sent' = sent BY DEF Commit
  <2>2. \A p : GoodRequest(p) => GoodRequest(p)' BY <1>1, RequestStays
  <2> QED BY <2>1, <2>2 DEF TxInv
<1>6. ASSUME NEW e \in Calls, e # c
      PROVE  /\ tx'[e] = tx[e]
             /\ tx[e].step # "idle" => InOrder(e)' /\ \A x : Holds(e, x)' = Holds(e, x)
  <2>1. tx'[e] = tx[e] BY <1>3, <1>6 DEF OthersStay
  <2>2. ASSUME tx[e].step # "idle"
        PROVE  InOrder(e)' /\ \A x : Holds(e, x)' = Holds(e, x)
    <3>p. PICK p : p = Req(e) OBVIOUS
    <3>1. AsRead(e)' /\ \A x : Holds(e, x)' = Holds(e, x)
      BY <1>1, <1>2, <1>6, <2>1, <2>2, ReadsStand
    <3>2. InOrder(e) /\ GoodRequest(p) /\ Req(e)' = p
      BY <2>1, <2>2, <3>p DEF TxInv, InOrder, Req
    <3>3. GoodRequest(p)' /\ Plan(p)' = Plan(p) BY <1>1, <3>2, RequestStays
    <3>4. ASSUME tx[e].step = "decided" PROVE Grounds(p)'
      <4>1. Firm(p)
        <5>1. tx[c].step = "decided" BY DEF Commit
        <5> QED BY <1>q, <1>1, <1>2, <1>6, <3>p, <3>4, <5>1, DecisionIsFirm
      <4>2. Grounds(p) BY <3>2, <3>p, <3>4 DEF InOrder
      <4> QED BY <3>2, <4>1, <4>2, GroundsStand
    <3> QED BY <2>1, <3>p, <3>1, <3>2, <3>3, <3>4 DEF InOrder
  <2> QED BY <2>1, <2>2
<1>7. \A e \in Calls : (tx[e].step # "idle" => InOrder(e))' BY <1>3, <1>6
<1>8. LocksAreExclusive'
  <2>1. \A x : ~Holds(c, x)' BY <1>3 DEF Holds
  <2>2. \A e \in Calls : e # c => \A x : Holds(e, x)' => Holds(e, x)
    BY <1>6 DEF Holds
  <2> QED BY <2>1, <2>2 DEF TxInv, LocksAreExclusive
<1> QED BY <1>3, <1>4, <1>5, <1>7, <1>8 DEF TxInv

-----------------------------------------------------------------------------
(* In the beginning nothing is under way, and the rows are sound.          *)
LEMMA TxStart == Init => TxInv
<1> SUFFICES ASSUME Init PROVE TxInv OBVIOUS
<1>1. tx \in [Calls -> Call({Nil}, {Nil}, {Nil}, {Nil}, {Nil})]
  BY DEF Init, Idle, Call, Steps
<1>2. TxShape BY <1>1 DEF TxShape
<1>3. \A c \in Calls : tx[c].step = "idle" BY DEF Init, Idle
<1>4. Sound BY DEF Init
<1>5. RowShape
  <2>1. Pipeline!TypeOK BY <1>4 DEF Sound
  <2>2. PICK V : V = Pipeline!RuleStates \cup Pipeline!Phases \cup {"ABSENT"}
                     \cup {"ACTIVE", "SUSPENDED"} \cup Dates \cup Revisions \cup {Nil} \cup Nat
                     \cup Pipeline!Workflow \cup Draws \cup Rules \cup Pipeline!Kinds
                     \cup Payloads \cup Pipeline!Hashes \cup Admins
                     \cup {"VALIDATION_FAILED", "PREVIEW_READY", "DRAFT_CREATED"}
    OBVIOUS
  <2>3. Pipeline!RuleStates \subseteq V BY <2>2
  <2>4. Pipeline!Draw \subseteq DrawRow(V) BY <2>2 DEF Pipeline!Draw, DrawRow
  <2>5. Pipeline!Revision \subseteq RevRow(V) BY <2>2 DEF Pipeline!Revision, RevRow
  <2>6. Pipeline!Batch \subseteq BatchRow(V) BY <2>2 DEF Pipeline!Batch, BatchRow
  <2>7. /\ rule \in [Rules -> V] /\ draw \in [Draws -> DrawRow(V)]
        /\ rev \in [Revisions -> RevRow(V)] /\ batch \in [Batches -> BatchRow(V)]
    BY <2>1, <2>3, <2>4, <2>5, <2>6 DEF Pipeline!TypeOK
  <2> QED BY <2>7 DEF RowShape
<1>6. RowsAgree
  <2>1. Pipeline!TypeOK /\ Pipeline!RowsAreWhole /\ Pipeline!CurrentIsPublished
    BY <1>4 DEF Sound
  <2>2. ASSUME NEW r \in Revisions, Existing(r)
        PROVE  /\ rev[r].draw \in Draws /\ rev[r].rule \in Rules
               /\ RuleLottery[rev[r].rule] = LotteryOf[rev[r].draw]
    BY <1>4, <2>1, <2>2 DEF Sound, Pipeline!RowsAreWhole, Existing
  <2>3. ASSUME NEW d \in Draws, draw[d].current # Nil
        PROVE  /\ draw[d].current \in Revisions
               /\ Existing(draw[d].current) /\ rev[draw[d].current].draw = d
    <3>1. draw[d].current \in Revisions
      BY <2>1, <2>3 DEF Pipeline!TypeOK, Pipeline!Draw
    <3> QED BY <2>1, <2>3, <3>1 DEF Pipeline!CurrentIsPublished, Existing
  <2>4. \A b \in Batches : batch[b].draw # Nil =>
          /\ batch[b].draw \in Draws /\ batch[b].rule \in Rules
          /\ RuleLottery[batch[b].rule] = LotteryOf[batch[b].draw]
    BY <1>4 DEF Sound
  <2> QED BY <2>2, <2>3, <2>4 DEF RowsAgree
<1>7. sent = {} BY DEF Init
<1>8. LocksAreExclusive BY <1>3 DEF LocksAreExclusive, Holds
<1> QED BY <1>2, <1>3, <1>5, <1>6, <1>7, <1>8 DEF TxInv

(* Every step keeps everything in order.                                   *)
LEMMA TxStep == TxInv /\ [Next]_vars => TxInv'
<1> SUFFICES ASSUME TxInv, [Next]_vars PROVE TxInv' OBVIOUS
<1>1. CASE UNCHANGED vars
  <2>1. UNCHANGED rows /\ tx' = tx /\ sent' = sent BY <1>1 DEF vars
  <2>2. TxShape' BY <2>1 DEF TxInv, TxShape, Call
  <2>3. RowShape' /\ RowsAgree' /\ \A q \in sent' : GoodRequest(q)'
    BY <2>1, RowsStay DEF TxInv
  <2>4. \A e \in Calls : /\ tx'[e] = tx[e]
                         /\ \A x : Holds(e, x)' = Holds(e, x)
                         /\ InOrder(e) => InOrder(e)'
    BY <2>1, CallStays
  <2>5. \A e \in Calls : (tx[e].step # "idle" => InOrder(e))' BY <2>4 DEF TxInv
  <2>6. LocksAreExclusive' BY <2>4 DEF TxInv, LocksAreExclusive
  <2> QED BY <2>2, <2>3, <2>5, <2>6 DEF TxInv
<1>2. ASSUME NEW c \in Calls, Replay(c) \/ KeyConflict(c) \/ Refuse(c) \/ Break(c)
      PROVE  TxInv'
  BY <1>2, EndInOrder DEF Replay, KeyConflict, Refuse, Break
<1>3. ASSUME NEW c \in Calls, StartWork(c) PROVE TxInv'
  <2>1. /\ tx[c].step = "begun" /\ tx' = [tx EXCEPT ![c].step = "locking"]
        /\ UNCHANGED <<rows, sent>>
    BY <1>3 DEF StartWork, Looks
  <2> QED BY <2>1, StepInOrder DEF Steps
<1> QED BY <1>1, <1>2, <1>3, SendInOrder, BeginInOrder, LockInOrder, AcceptInOrder, CommitInOrder
        DEF Next

(* At every moment the rows of a call under way are as it knows them, and  *)
(* what it has decided still has its grounds.                              *)
THEOREM TxInvariant == Spec => []TxInv
BY TxStart, TxStep, PTL DEF Spec

(* Nothing but a commit changes rows, and a commit is a handler's step.    *)
LEMMA RowsChangeInCommits ==
  ASSUME TxInv, [Next]_vars, rows' # rows
  PROVE  \E c \in Calls : tx[c].step = "decided" /\ Handlers(c)!Next
<1>1. PICK c \in Calls : Commit(c)
  <2>1. ~UNCHANGED vars BY DEF vars
  <2>2. Next BY <2>1
  <2>3. \A a \in Admins, op \in Operations : \A id : ~Send(a, op, id) BY DEF Send
  <2>4. \A e \in Calls : \A q : ~Begin(e, q) BY DEF Begin
  <2>5. \A e \in Calls : ~(Lock(e) \/ StartWork(e) \/ Accept(e)) BY DEF Lock, StartWork, Accept
  <2>6. \A e \in Calls : ~(Replay(e) \/ KeyConflict(e) \/ Refuse(e) \/ Break(e))
    BY DEF Replay, KeyConflict, Refuse, Break, Ends
  <2> QED BY <2>2, <2>3, <2>4, <2>5, <2>6 DEF Next
<1>2. tx[c].step = "decided" BY <1>1 DEF Commit
<1>3. Handlers(c)!Next BY <1>1, CommitIsAStep
<1> QED BY <1>2, <1>3

(* Under every interleaving of the transactions, with calls broken off     *)
(* anywhere and repeated at will, each change of the rows is one step of a *)
(* handler of Publishing, on the page its request was sent from.           *)
THEOREM CommitsAreHandlers == Spec => HandlersAreAtomic
<1>1. TxInv /\ [Next]_vars =>
        [rows' # rows => \E c \in Calls : tx[c].step = "decided" /\ Handlers(c)!Next]_vars
  BY RowsChangeInCommits
<1> QED BY <1>1, TxInvariant, PTL DEF Spec, HandlersAreAtomic

=============================================================================
