---------------------------- MODULE ResultLedger ----------------------------
(***************************************************************************)
(* What the publication pipeline promises its readers: each draw has an    *)
(* append-only ledger of published results, of which the last is the one   *)
(* in force; a result once entered is never altered, removed or entered    *)
(* again; a draw can be withheld and released; and whatever readers may    *)
(* compute from a lottery's results, the version number they are given     *)
(* with them changes whenever the results do.                              *)
(***************************************************************************)
EXTENDS Naturals, Sequences

CONSTANTS Lotteries, Draws, Revisions, Contents,
          LotteryOf,     \* the lottery of each draw
          Nothing        \* what a reader is shown when there is no result

VARIABLES ledger,        \* ledger[d]: the results entered for draw d, in order
          withheld,      \* withheld[d]: the draw is suspended
          version        \* version[l]: the data version of a lottery

ledgerVars == <<ledger, withheld, version>>

Entry == [revision : Revisions, content : Contents]

LedgerTypeOK ==
    /\ ledger \in [Draws -> Seq(Entry)]
    /\ withheld \in [Draws -> BOOLEAN]
    /\ version \in [Lotteries -> Nat]

LedgerInit ==
    /\ ledger = [d \in Draws |-> <<>>]
    /\ withheld = [d \in Draws |-> FALSE]
    /\ version = [l \in Lotteries |-> 0]

Advance(l) == version' = [version EXCEPT ![l] = @ + 1]

NeverEntered(r) ==
    \A d \in Draws : \A i \in 1..Len(ledger[d]) : ledger[d][i].revision # r

(* A result enters the ledger of its draw and is shown from then on: a     *)
(* withheld draw is released by it.                                        *)
Enter(d, e) ==
    /\ Advance(LotteryOf[d])
    /\ NeverEntered(e.revision)
    /\ ledger' = [ledger EXCEPT ![d] = Append(@, e)]
    /\ withheld' = [withheld EXCEPT ![d] = FALSE]

Withhold(d) ==
    /\ Advance(LotteryOf[d])
    /\ ~withheld[d]
    /\ withheld' = [withheld EXCEPT ![d] = TRUE]
    /\ UNCHANGED ledger

Release(d) ==
    /\ Advance(LotteryOf[d])
    /\ withheld[d]
    /\ withheld' = [withheld EXCEPT ![d] = FALSE]
    /\ UNCHANGED ledger

(* A rule version is revoked: results stay, what may be computed from them *)
(* changes.                                                                *)
Disqualify(l) ==
    /\ Advance(l)
    /\ UNCHANGED <<ledger, withheld>>

LedgerNext ==
    \/ \E d \in Draws : Withhold(d) \/ Release(d) \/ \E e \in Entry : Enter(d, e)
    \/ \E l \in Lotteries : Disqualify(l)

LedgerSpec == LedgerInit /\ [][LedgerNext]_ledgerVars

(* What a reader is shown for a draw.                                      *)
Shown(d) ==
    IF withheld[d] \/ ledger[d] = <<>> THEN Nothing ELSE ledger[d][Len(ledger[d])]

=============================================================================
