----------------------------- MODULE Statistics -----------------------------
(***************************************************************************)
(* The figures of a lottery: which draws count, which of their entries are *)
(* observations, and the arithmetic on the numbers, over the draw that     *)
(* TicketRules publishes and an archive of earlier ones.                   *)
(***************************************************************************)
EXTENDS TicketRules, FiniteSetsExt

CONSTANTS Archive  \* earlier draws: draw, phase, visibility, current result, its rule set and rule state

ASSUME ArchiveAssumption ==
    /\ IsFiniteSet(Archive)
    /\ \A d \in Archive : d.draw # "this" /\ (d.current # Null => Listing(d.current.entries))

ThisDraw ==
    [draw |-> "this", phase |-> "HELD", visibility |-> "ACTIVE", current |-> published,
     set |-> rules.set, rule |-> "APPROVED"]
Draws == Archive \cup {ThisDraw}

(***************************************************************************)
(* selectEligible: the reason a draw is left out, the first that applies.  *)
(***************************************************************************)
FirstPrizes(d) == {s.code : s \in {x \in Specs(d.set) : x.role = "FIRST_PRIZE"}}
FirstPrizeWhole(d) ==
    \A c \in FirstPrizes(d) :
        c \in DOMAIN d.current.rows /\ d.current.rows[c].state = "COMPLETE" /\ d.current.rows[c].reviewed

Verified(d) == d.rule = "APPROVED" /\ Compiles(d.set) /\ FirstPrizes(d) # {}

Exclusion(d) ==
    IF d.phase = "CANCELLED" THEN "CANCELLED"
    ELSE IF d.visibility = "SUSPENDED" THEN "SUSPENDED"
    ELSE IF d.current = Null THEN "NOT_PUBLISHED"
    ELSE IF ~Verified(d) THEN "RULE_UNSUPPORTED"
    ELSE IF ~FirstPrizeWhole(d) THEN "FIRST_PRIZE_INCOMPLETE"
    ELSE "COUNTED"

Eligible == {d \in Draws : Exclusion(d) = "COUNTED"}

(* One rule version may be asked for; otherwise all must agree in length.  *)
Selected(set) == {d \in Eligible : set \in {Null, d.set}}
MixedLengths(set) == \E d, e \in Selected(set) : d.set.numberLength # e.set.numberLength

Observations(set) ==
    UNION {{[draw |-> d.draw, category |-> e.category, series |-> e.series, number |-> e.number] :
                e \in {x \in d.current.entries : x.category \in FirstPrizes(d)}} : d \in Selected(set)}

(***************************************************************************)
(* computeDescriptiveStatistics.                                           *)
(***************************************************************************)
NumberLength(set) == CHOOSE n \in {d.set.numberLength : d \in Selected(set)} : TRUE
Computes(set) ==
    /\ ~MixedLengths(set) /\ Selected(set) # {}
    /\ \A o \in Observations(set) : Len(o.number) = NumberLength(set)

PositionDigitCount(obs, p, digit) == Cardinality({o \in obs : o.number[p] = digit})

Tally(obs, n) == Cardinality({o \in obs : o.number = n})
CollisionPairs(obs) == MapThenSumSet(LAMBDA n : (Tally(obs, n) * (Tally(obs, n) - 1)) \div 2, {o.number : o \in obs})

DigitSum(number) == MapThenSumSet(LAMBDA i : number[i], DOMAIN number)

(* hasConsecutiveRun: a loop over the digits, its run length and direction *)
(* after each of them.                                                     *)
Step(number, i) == number[i] - number[i - 1]
(* Mutation of Turned: the last digit of the old run is not counted.       *)
TurnedShort(step) == [length |-> 1, direction |-> step]
Turned(step) == [length |-> 2, direction |-> step]

HasConsecutiveRun(number, least) ==
    LET run[i \in DOMAIN number] ==
            IF i = 1 \/ Step(number, i) \notin {1, -1} THEN [length |-> 1, direction |-> 0]
            ELSE IF run[i - 1].direction \in {0, Step(number, i)}
                 THEN [length |-> run[i - 1].length + 1, direction |-> Step(number, i)]
            ELSE Turned(Step(number, i))
    IN  Len(number) >= least /\ \E i \in DOMAIN number : run[i].length >= least

(***************************************************************************)
(* What must hold.                                                         *)
(***************************************************************************)
RuleChoices == {Null} \cup {d.set : d \in Draws}

Steady(number, i, least, by) == \A j \in 1 .. least - 1 : Step(number, i + j) = by

(* The figures are what they are called: nothing counts that a review did  *)
(* not cover, pairs are pairs of observations with one number, the counts  *)
(* of a position add up, and a run of three is three neighbouring digits   *)
(* that rise, or fall, by one.                                             *)
FiguresAreExact ==
    \A set \in {s \in RuleChoices : Computes(s)} :
        LET obs == Observations(set) IN
        /\ \A o \in obs : o.draw = "this" => published.rows[o.category].reviewed
        /\ CollisionPairs(obs) =
               Cardinality({pair \in kSubset(2, obs) : \A o, p \in pair : o.number = p.number})
        /\ \A p \in 1 .. NumberLength(set) :
               MapThenSumSet(LAMBDA digit : PositionDigitCount(obs, p, digit), 0 .. 9) = Cardinality(obs)
        /\ \A o \in obs :
               HasConsecutiveRun(o.number, 3) <=>
               \E i \in 1 .. Len(o.number) - 2, by \in {1, -1} : Steady(o.number, i, 3, by)

(* Statistics over any one rule version can be computed: the numbers       *)
(* observed are as long as the numbers of their rules.                     *)
ObservationsHaveOneLength ==
    \A set \in RuleChoices \ {Null} :
        \A o \in Observations(set) : Len(o.number) = NumberLength(set)
=============================================================================
