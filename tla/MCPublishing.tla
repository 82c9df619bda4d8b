---------------------------- MODULE MCPublishing ----------------------------
(* Instances of Publishing for TLC: one lottery, its draws and rules.      *)
EXTENDS Publishing, TLC

CONSTANTS l1

MCLotteryOf == [d \in Draws |-> l1]
MCRuleLottery == [u \in Rules |-> l1]

Interchangeable ==
    Permutations(Revisions) \cup Permutations(Batches) \cup Permutations(Rules)

(* Sound where every administrator is a publisher.                         *)
InterchangeablePeople == Interchangeable \cup Permutations(Admins)
=============================================================================
