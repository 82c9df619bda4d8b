---------------------------- MODULE MCStatistics ----------------------------
(* Numbers of four digits, two categories, two series.                     *)
EXTENDS Statistics

Up == <<1, 2, 1, 0>>
Flat == <<0, 1, 1, 0>>
Ending == <<1, 0>>

Category(code, priority, role, kind, policy, suffix, excludedBy, expected) ==
    [code |-> code, priority |-> priority, role |-> role, kind |-> kind, policy |-> policy,
     suffix |-> suffix, excludedBy |-> excludedBy, expected |-> expected]
First(policy) == Category("P", 1, "FIRST_PRIZE", "FULL_NUMBER", policy, 0, {}, Null)
Consolation == Category("Q", 2, "OTHER", "FULL_NUMBER", "EXCEPT_ENTRY", 0, {"P"}, Null)
LastTwo == Category("Q", 2, "OTHER", "SUFFIX", "ANY_ALLOWED", 2, {"P"}, 1)
TailFirst == Category("P", 1, "FIRST_PRIZE", "SUFFIX", "ANY_ALLOWED", 2, {}, Null)

Set(categories) == [numberLength |-> 4, firstDigits |-> <<0, 1>>, series |-> <<"A", "B">>, categories |-> categories]
MCRuleSets == {
    Set(<<First("MATCH_ENTRY"), Consolation>>),
    Set(<<LastTwo, First("ANY_ALLOWED")>>),
    Set(<<[First("MATCH_ENTRY") EXCEPT !.excludedBy = {"Q"}], [LastTwo EXCEPT !.excludedBy = {}]>>),
    Set(<<First("MATCH_ENTRY"), [Consolation EXCEPT !.role = "FIRST_PRIZE"]>>)}
TailRuleSets == {Set(<<TailFirst, [Consolation EXCEPT !.policy = "ANY_ALLOWED"]>>)}

E(category, series, number) == [category |-> category, series |-> series, number |-> number]
Pool == {E("P", "A", Up), E("P", "B", Flat), E("P", "", Up), E("P", "", Ending), E("Q", "A", Up), E("Q", "", Ending)}
Rows == {[state |-> "MISSING", amount |-> Null], [state |-> "PARTIAL", amount |-> Null],
         [state |-> "COMPLETE", amount |-> "a"]}
MCUploads == [complete : BOOLEAN, rows : [{"P", "Q"} -> Rows], entries : {S \in SUBSET Pool : Cardinality(S) <= 2}]
MCLists == [category : {"P", "Q"}, entries : {{}, {[series |-> "A", number |-> Up]}, {[series |-> "", number |-> Ending]},
                                            {[series |-> "", number |-> Up]}}]
MCTickets == [series : {"", "A"}, number : {Up, Flat}] \cup
             [series : {"B"}, number : {Up, <<0, 0, 2, 2>>, <<2, 2, 1, 0>>}]

Row(state) == [state |-> state, amount |-> Null, reviewed |-> state = "COMPLETE"]
Old(draw, phase, visibility, current, rule) ==
    [draw |-> draw, phase |-> phase, visibility |-> visibility, current |-> current,
     set |-> Set(<<First("MATCH_ENTRY"), Consolation>>), rule |-> rule]
Held == [complete |-> FALSE, entries |-> {E("P", "B", Up)},
         rows |-> [c \in {"P", "Q"} |-> Row(IF c = "P" THEN "COMPLETE" ELSE "MISSING")]]
MCArchive == {
    Old("held", "HELD", "ACTIVE", Held, "APPROVED"),
    Old("off", "CANCELLED", "ACTIVE", Null, "APPROVED"),
    Old("withheld", "HELD", "SUSPENDED", Held, "APPROVED"),
    Old("revoked", "HELD", "ACTIVE", Held, "REVOKED")}
=============================================================================
