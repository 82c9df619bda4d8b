---------------------------- MODULE MCPublicPages ----------------------------
(* Two lotteries: the first with two rule versions, each with a series of   *)
(* its own, and two draws; the second with none yet.                        *)
EXTENDS PublicPages

MCLotteries == {"l1", "l2"}
MCDraws == {"a", "b"}
MCLotteryOf == [d \in MCDraws |-> "l1"]
MCDrawOrder == <<"b", "a">>
MCRules == {1, 2}
MCRuleLottery == [k \in MCRules |-> "l1"]
T(s, n) == [series |-> s, number |-> n]
MCTickets == {T("A", "7"), T("B", "7")}
MCWellFormed == [k \in MCRules |-> IF k = 1 THEN {T("A", "7")} ELSE {T("B", "7")}]
MCAccepted == MCWellFormed
(* The home page needs five requests before its form has selects.          *)
MCMaxRequests == [p \in Pages |-> IF p = "home" THEN 8 ELSE 3]
C(k, complete, listed) == [rule |-> k, complete |-> complete, listed |-> listed]
MCContents == {C(1, FALSE, {}), C(2, TRUE, {T("B", "7")})}
=============================================================================
