-------------------------- MODULE TicketRulesProofs --------------------------
(***************************************************************************)
(* What a published result says about a ticket, for every rule set that    *)
(* compiles, every result that passes its checks and every ticket.         *)
(*                                                                         *)
(* The argument: what is published is publishable under approved rules;    *)
(* an exclusion points from a category to one of higher priority, so that  *)
(* the best match is never excluded; and the candidates the check looks up *)
(* are the numbers of every entry that can match.                          *)
(***************************************************************************)
EXTENDS TicketRules, TLAPS, FiniteSetTheorems, WellFoundedInduction

-----------------------------------------------------------------------------
(* Categories.                                                             *)

(* A rule set of which the evaluator may think well.                       *)
WellRanked(r) ==
    /\ \A s \in Specs(r) : s.code # Null /\ s.priority \in Nat
    /\ \A s, t \in Specs(r) : s.code = t.code \/ s.priority = t.priority => s = t
    /\ \A s, t \in Specs(r) : t.code \in s.excludedBy => t.priority < s.priority

LEMMA CompiledIsRanked ==
  ASSUME NEW r \in RuleSets, Compiles(r)
  PROVE  WellRanked(r)
<1>1. \A s \in Specs(r) : s.code # Null /\ s.priority \in Nat BY RuleSetsAssumption
<1>2. ASSUME NEW s \in Specs(r), NEW t \in Specs(r), s.code = t.code \/ s.priority = t.priority
      PROVE  s = t
  <2>1. PICK i \in DOMAIN r.categories, j \in DOMAIN r.categories :
            s = r.categories[i] /\ t = r.categories[j]
    BY DEF Specs, Range
  <2>2. /\ IsInjective([k \in DOMAIN r.categories |-> r.categories[k].code])
        /\ IsInjective([k \in DOMAIN r.categories |-> r.categories[k].priority])
    BY DEF Compiles, NoRepeats
  <2>3. r.categories[i].code = r.categories[j].code => i = j BY <2>2 DEF IsInjective
  <2>4. r.categories[i].priority = r.categories[j].priority => i = j BY <2>2 DEF IsInjective
  <2> QED BY <1>2, <2>1, <2>3, <2>4
<1>3. \A s, t \in Specs(r) : t.code \in s.excludedBy => t.priority < s.priority
  BY DEF Compiles, ExclusionsRise
<1> QED BY <1>1, <1>2, <1>3 DEF WellRanked

(* A set of numbers that is not empty has a least one.                     *)
LEMMA LeastExists ==
  ASSUME NEW S \in SUBSET Nat, S # {}
  PROVE  \E i \in S : \A j \in S : i <= j
<1>1. PICK R : R = {p \in Nat \X Nat : p[1] < p[2]} OBVIOUS
<1>2. IsWellFoundedOn(R, Nat) BY <1>1, NatLessThanWellFounded DEF OpToRel
<1>3. PICK i \in S : \A j \in S : ~ (<<j, i>> \in R) BY <1>2, WFMin
<1>4. ASSUME NEW j \in S PROVE i <= j
  <2>1. <<j, i>> \in Nat \X Nat OBVIOUS
  <2>2. ~ (j < i) BY <1>1, <1>3, <2>1
  <2> QED BY <2>2
<1> QED BY <1>4

(* The category of the highest priority is in the set, and alone there.    *)
LEMMA BestIsFirst ==
  ASSUME NEW r, WellRanked(r), NEW S \in SUBSET Specs(r), S # {}
  PROVE  /\ Best(S) \in S
         /\ \A t \in S : Best(S).priority <= t.priority
         /\ \A s \in S : (\A t \in S : s.priority <= t.priority) => s = Best(S)
<1>P. PICK P : P = {s.priority : s \in S} OBVIOUS
<1>1. P \in SUBSET Nat /\ P # {} BY <1>P DEF WellRanked
<1>2. PICK i \in P : \A j \in P : i <= j BY <1>1, LeastExists
<1>3. \E s \in S : \A t \in S : s.priority <= t.priority BY <1>P, <1>2
<1>4. Best(S) \in S /\ \A t \in S : Best(S).priority <= t.priority BY <1>3 DEF Best
<1>5. ASSUME NEW s \in S, \A t \in S : s.priority <= t.priority PROVE s = Best(S)
  <2>1. s.priority <= Best(S).priority /\ Best(S).priority <= s.priority BY <1>4, <1>5
  <2>2. s.priority \in Nat /\ Best(S).priority \in Nat BY <1>4 DEF WellRanked
  <2>3. s.priority = Best(S).priority BY <2>1, <2>2
  <2> QED BY <1>4, <2>3 DEF WellRanked
<1> QED BY <1>4, <1>5

(* Exclusions never decide: what is awarded is the best of what matches.   *)
LEMMA AwardIsBest ==
  ASSUME NEW r, WellRanked(r), NEW raw \in SUBSET Specs(r)
  PROVE  /\ raw = {} => Awarded(raw) = Null /\ Provisional(raw) = Null
         /\ raw # {} => /\ Awarded(raw) = Best(raw).code /\ Provisional(raw) = Best(raw).code
                        /\ Best(raw).code # Null /\ Best(raw) \in Specs(r)
<1>1. NotExcluded(raw) \subseteq raw BY DEF NotExcluded
<1>2. ASSUME raw = {} PROVE Awarded(raw) = Null /\ Provisional(raw) = Null
  BY <1>1, <1>2 DEF Awarded, Provisional
<1>3. ASSUME raw # {}
      PROVE  /\ Awarded(raw) = Best(raw).code /\ Provisional(raw) = Best(raw).code
             /\ Best(raw).code # Null /\ Best(raw) \in Specs(r)
  <2>1. Best(raw) \in raw /\ \A t \in raw : Best(raw).priority <= t.priority
    BY <1>3, BestIsFirst
  <2>2. ASSUME NEW t \in raw PROVE t.code \notin Best(raw).excludedBy
    <3>1. t.code \in Best(raw).excludedBy => t.priority < Best(raw).priority
      BY <2>1 DEF WellRanked
    <3>2. t.priority \in Nat /\ Best(raw).priority \in Nat BY <2>1 DEF WellRanked
    <3> QED BY <2>1, <3>1, <3>2
  <2>3. Best(raw) \in NotExcluded(raw) BY <2>1, <2>2 DEF NotExcluded
  <2>4. Best(raw) = Best(NotExcluded(raw)) BY <1>1, <2>1, <2>3, BestIsFirst
  <2>5. Best(raw).code # Null BY <2>1 DEF WellRanked
  <2> QED BY <2>1, <2>3, <2>4, <2>5 DEF Awarded, Provisional
<1> QED BY <1>2, <1>3

-----------------------------------------------------------------------------
(* Evaluation.                                                             *)

(* The lookup by candidates misses no entry that matches.                  *)
LEMMA LookupMissesNothing ==
  ASSUME NEW r, NEW result, NEW ticket
  PROVE  RawMatches(r, LookedUp(r, result, ticket), ticket) = RawMatches(r, result.entries, ticket)
<1>1. LookedUp(r, result, ticket) \subseteq result.entries BY DEF LookedUp
<1>2. ASSUME NEW s \in Specs(r), NEW e \in result.entries, EntryMatches(s, e, ticket)
      PROVE  e \in LookedUp(r, result, ticket)
  <2>1. e.number \in Candidates(r, ticket) BY <1>2 DEF EntryMatches, Candidates
  <2> QED BY <2>1 DEF LookedUp
<1> QED BY <1>1, <1>2 DEF RawMatches

(* What the evaluator says of a publishable result.                        *)
LEMMA EvaluatedAsItIs ==
  ASSUME NEW r, WellRanked(r), NEW result, Publishable(r, result), NEW ticket
  PROVE  LET won == RawMatches(r, result.entries, ticket)
             said == Evaluate(r, result, ticket)
         IN  /\ result.complete => said.outcome = IF won = {} THEN "NO_MATCH" ELSE "MATCH"
             /\ ~result.complete => said.outcome = IF won = {} THEN "RESULT_INCOMPLETE"
                                                   ELSE "PARTIAL_MATCH"
             /\ won # {} => said.award = Best(won).code
             /\ won = {} => said.award = Null
             /\ said.amount # Null <=> said.outcome = "MATCH"
<1>w. PICK won : won = RawMatches(r, result.entries, ticket) OBVIOUS
<1>s. PICK said : said = Evaluate(r, result, ticket) OBVIOUS
<1>1. won \in SUBSET Specs(r) BY <1>w DEF RawMatches
<1>2. /\ won = {} => Awarded(won) = Null /\ Provisional(won) = Null
      /\ won # {} => /\ Awarded(won) = Best(won).code /\ Provisional(won) = Best(won).code
                     /\ Best(won).code # Null /\ Best(won) \in Specs(r)
  BY <1>1, AwardIsBest
<1>3. \A s \in Specs(r) : /\ s.code \in DOMAIN result.rows
                          /\ result.complete => result.rows[s.code].state = "COMPLETE"
                          /\ result.rows[s.code].state = "COMPLETE" => result.rows[s.code].amount # Null
  BY DEF Publishable, PublishableMixed
<1>4. Integrity(r, result) /\ (AllComplete(r, result) <=> result.complete)
  BY <1>3 DEF Integrity, AllComplete, Codes
<1>5. said = IF AllComplete(r, result) THEN EvaluateFinal(won, result) ELSE EvaluateOpen(won)
  BY <1>w, <1>s, <1>4, LookupMissesNothing DEF Evaluate
<1>6. CASE result.complete /\ won = {}
  <2>1. said = Verdict("NO_MATCH", Null, Null) BY <1>2, <1>4, <1>5, <1>6 DEF EvaluateFinal
  <2>2. said.outcome = "NO_MATCH" /\ said.award = Null /\ said.amount = Null BY <2>1 DEF Verdict
  <2> QED BY <1>w, <1>s, <1>6, <2>2
<1>7. CASE result.complete /\ won # {}
  <2>c. PICK c : c = Best(won).code OBVIOUS
  <2>1. c # Null /\ Awarded(won) = c /\ result.rows[c].amount # Null
    BY <1>2, <1>3, <1>7, <2>c
  <2>2. said = Verdict("MATCH", c, result.rows[c].amount)
    BY <1>4, <1>5, <1>7, <2>1 DEF EvaluateFinal
  <2>3. said.outcome = "MATCH" /\ said.award = c /\ said.amount # Null BY <2>1, <2>2 DEF Verdict
  <2> QED BY <1>w, <1>s, <1>7, <2>c, <2>3
<1>8. CASE ~result.complete /\ won = {}
  <2>1. said = Verdict("RESULT_INCOMPLETE", Null, Null)
    BY <1>2, <1>4, <1>5, <1>8 DEF EvaluateOpen
  <2>2. said.outcome = "RESULT_INCOMPLETE" /\ said.award = Null /\ said.amount = Null
    BY <2>1 DEF Verdict
  <2> QED BY <1>w, <1>s, <1>8, <2>2
<1>9. CASE ~result.complete /\ won # {}
  <2>1. said = Verdict("PARTIAL_MATCH", Best(won).code, Null)
    BY <1>2, <1>4, <1>5, <1>9 DEF EvaluateOpen
  <2>2. said.outcome = "PARTIAL_MATCH" /\ said.award = Best(won).code /\ said.amount = Null
    BY <2>1 DEF Verdict
  <2> QED BY <1>w, <1>s, <1>9, <2>2
<1> QED BY <1>6, <1>7, <1>8, <1>9

-----------------------------------------------------------------------------
(* The invariant.                                                          *)

IsDraft(d) ==
    \E V, C : d \in [kind : V, edited : BOOLEAN, complete : V, entries : V,
                     rows : [C -> [state : V, amount : V, reviewed : V]]]

(* What is published, ready or as it was imported is publishable, under    *)
(* approved rules, which compile.                                          *)
Good(ru, d, st, pu) ==
    /\ ru \in [set : RuleSets, approved : BOOLEAN]
    /\ st \in {"none", "draft", "ready"}
    /\ ru.approved => Compiles(ru.set)
    /\ st # "none" => ru.approved /\ IsDraft(d)
    /\ pu # Null => ru.approved /\ Publishable(ru.set, pu)
    /\ st = "ready" \/ (st = "draft" /\ ~d.edited) => Publishable(ru.set, d)

RulesInv == Good(rules, draft, stage, published)

(* Checks look at completeness, entries, states and amounts.               *)
LEMMA SameIsPublishable ==
  ASSUME NEW r, NEW a, NEW b, Publishable(r, a),
         b.complete = a.complete, b.entries = a.entries, DOMAIN b.rows = DOMAIN a.rows,
         \A c \in DOMAIN a.rows : b.rows[c].state = a.rows[c].state /\ b.rows[c].amount = a.rows[c].amount
  PROVE  Publishable(r, b)
<1>1. \A c : EntriesOf(b, c) = EntriesOf(a, c) BY DEF EntriesOf
<1>2. PublishableMixed(r, b) BY <1>1 DEF Publishable, PublishableMixed
<1> QED BY <1>2 DEF Publishable

(* What validateImport accepts, assertPublishable accepts.                 *)
LEMMA ValidIsPublishable ==
  ASSUME NEW r, NEW upload, ValidImport(r, upload)
  PROVE  Publishable(r, upload)
<1>1. DOMAIN upload.rows = Codes(r) BY DEF ValidImport, ImportFits
<1>2. \A s \in Specs(r) : s.code \in DOMAIN upload.rows BY <1>1 DEF Codes
<1>3. ASSUME NEW s \in Specs(r), upload.rows[s.code].state = "COMPLETE"
      PROVE  /\ upload.rows[s.code].amount # Null
             /\ CountFits(s, Cardinality(EntriesOf(upload, s.code)))
  BY <1>3 DEF ValidImport, ImportFits, CompleteRowsCount
<1>4. ASSUME NEW s \in Specs(r), upload.rows[s.code].state = "MISSING"
      PROVE  Cardinality(EntriesOf(upload, s.code)) = 0
  <2>1. EntriesOf(upload, s.code) = {} BY <1>4 DEF ValidImport, ImportFits
  <2> QED BY <2>1, FS_EmptySet
<1>5. PublishableMixed(r, upload) BY <1>2, <1>3, <1>4 DEF PublishableMixed
<1>6. upload.complete => \A c \in DOMAIN upload.rows : upload.rows[c].state = "COMPLETE"
  BY <1>1 DEF ValidImport, ImportFits
<1> QED BY <1>5, <1>6 DEF Publishable

LEMMA OpenedIsGood ==
  ASSUME RulesInv, rules.approved, NEW result, Publishable(rules.set, result), NEW kind,
         Opened(result, kind)
  PROVE  RulesInv'
<1>d. PICK d : d = draft' OBVIOUS
<1>r. PICK rows : rows = [c \in DOMAIN result.rows |->
                            [state |-> result.rows[c].state, amount |-> result.rows[c].amount,
                             reviewed |-> FALSE]]
  OBVIOUS
<1>1. /\ d = [kind |-> kind, edited |-> FALSE, complete |-> result.complete,
              entries |-> result.entries, rows |-> rows]
      /\ stage' = "draft" /\ rules' = rules /\ published' = published
  BY <1>d, <1>r DEF Opened
<1>2. IsDraft(d)
  <2>1. PICK V : V = {kind, result.complete, result.entries, FALSE}
                       \cup {result.rows[c].state : c \in DOMAIN result.rows}
                       \cup {result.rows[c].amount : c \in DOMAIN result.rows}
    OBVIOUS
  <2>2. rows \in [DOMAIN result.rows -> [state : V, amount : V, reviewed : V]] BY <1>r, <2>1
  <2>3. d \in [kind : V, edited : BOOLEAN, complete : V, entries : V,
               rows : [DOMAIN result.rows -> [state : V, amount : V, reviewed : V]]]
    BY <1>1, <2>1, <2>2
  <2> QED BY <2>3 DEF IsDraft
<1>3. Publishable(rules.set, d)
  <2>1. d.complete = result.complete /\ d.entries = result.entries /\ d.rows = rows BY <1>1
  <2>2. /\ DOMAIN rows = DOMAIN result.rows
        /\ \A c \in DOMAIN result.rows : /\ rows[c].state = result.rows[c].state
                                         /\ rows[c].amount = result.rows[c].amount
    BY <1>r
  <2> QED BY <2>1, <2>2, SameIsPublishable
<1>4. Good(rules, d, "draft", published) BY <1>2, <1>3 DEF RulesInv, Good
<1> QED BY <1>d, <1>1, <1>4 DEF RulesInv

(* A draft that has been patched claims nothing.                           *)
LEMMA PatchedIsGood ==
  ASSUME RulesInv, Patched, IsDraft(draft'), draft'.edited = TRUE
  PROVE  RulesInv'
<1>d. PICK d : d = draft' OBVIOUS
<1>1. stage = "draft" /\ stage' = stage /\ rules' = rules /\ published' = published
  BY DEF Patched
<1>2. Good(rules, d, "draft", published) BY <1>d, <1>1 DEF RulesInv, Good
<1> QED BY <1>d, <1>1, <1>2 DEF RulesInv

LEMMA RulesStart == Init => RulesInv
<1> SUFFICES ASSUME Init PROVE RulesInv OBVIOUS
<1>1. PICK r \in RuleSets : rules = [set |-> r, approved |-> FALSE] BY DEF Init
<1>2. rules \in [set : RuleSets, approved : BOOLEAN] /\ ~rules.approved BY <1>1
<1>3. stage = "none" /\ published = Null BY DEF Init
<1> QED BY <1>2, <1>3 DEF RulesInv, Good

LEMMA ApproveKeeps ==
  ASSUME RulesInv, Approve
  PROVE  RulesInv'
<1>r. PICK ru : ru = rules' OBVIOUS
<1>1. /\ ru = [rules EXCEPT !.approved = TRUE] /\ Compiles(rules.set)
      /\ draft' = draft /\ stage' = stage /\ published' = published
  BY <1>r DEF Approve
<1>2. ru \in [set : RuleSets, approved : BOOLEAN] /\ ru.set = rules.set /\ ru.approved
  BY <1>1 DEF RulesInv, Good
<1>3. Good(ru, draft, stage, published) BY <1>1, <1>2 DEF RulesInv, Good
<1> QED BY <1>r, <1>1, <1>3 DEF RulesInv

LEMMA PatchesKeep ==
  ASSUME RulesInv, PatchCategory \/ ReplaceEntries \/ PatchCompleteness
  PROVE  RulesInv'
<1>d. PICK d : d = draft' OBVIOUS
<1>1. Patched BY DEF PatchCategory, ReplaceEntries, PatchCompleteness
<1>2. IsDraft(draft) BY <1>1 DEF Patched, RulesInv, Good
<1>3. PICK V, C : draft \in [kind : V, edited : BOOLEAN, complete : V, entries : V,
                             rows : [C -> [state : V, amount : V, reviewed : V]]]
  BY <1>2 DEF IsDraft
<1>4. CASE PatchCategory
  <2>1. PICK c \in Codes(rules.set), state \in States, amount \in Amounts \cup {Null} :
            d = [draft EXCEPT !.edited = TRUE,
                              !.rows[c] = [state |-> state, amount |-> amount, reviewed |-> FALSE]]
    BY <1>4, <1>d DEF PatchCategory
  <2>2. PICK W : W = V \cup {state, amount, FALSE} OBVIOUS
  <2>3. PICK row : row = [state |-> state, amount |-> amount, reviewed |-> FALSE] OBVIOUS
  <2>4. PICK rows : rows = [draft.rows EXCEPT ![c] = row] OBVIOUS
  <2>5. d = [draft EXCEPT !.edited = TRUE, !.rows = rows] BY <1>3, <2>1, <2>3, <2>4
  <2>6. draft.rows \in [C -> [state : V, amount : V, reviewed : V]] BY <1>3
  <2>7. \A e \in C : draft.rows[e] \in [state : W, amount : W, reviewed : W] BY <2>2, <2>6
  <2>8. row \in [state : W, amount : W, reviewed : W] BY <2>2, <2>3
  <2>9. rows \in [C -> [state : W, amount : W, reviewed : W]] BY <2>4, <2>6, <2>7, <2>8
  <2>10. /\ d.edited = TRUE
         /\ d \in [kind : W, edited : BOOLEAN, complete : W, entries : W,
                   rows : [C -> [state : W, amount : W, reviewed : W]]]
    BY <1>3, <2>2, <2>5, <2>9
  <2>11. IsDraft(d) BY <2>10 DEF IsDraft
  <2> QED BY <1>d, <1>1, <2>10, <2>11, PatchedIsGood
<1>5. CASE ReplaceEntries
  <2>1. PICK entries : d = [draft EXCEPT !.edited = TRUE, !.entries = entries]
    BY <1>5, <1>d DEF ReplaceEntries
  <2>2. PICK W : W = V \cup {entries} OBVIOUS
  <2>3. draft.rows \in [C -> [state : V, amount : V, reviewed : V]] BY <1>3
  <2>4. draft.rows \in [C -> [state : W, amount : W, reviewed : W]] BY <2>2, <2>3
  <2>5. /\ d.edited = TRUE
        /\ d \in [kind : W, edited : BOOLEAN, complete : W, entries : W,
                  rows : [C -> [state : W, amount : W, reviewed : W]]]
    BY <1>3, <2>1, <2>2, <2>4
  <2>6. IsDraft(d) BY <2>5 DEF IsDraft
  <2> QED BY <1>d, <1>1, <2>5, <2>6, PatchedIsGood
<1>6. CASE PatchCompleteness
  <2>1. PICK complete : d = [draft EXCEPT !.edited = TRUE, !.complete = complete]
    BY <1>6, <1>d DEF PatchCompleteness
  <2>2. PICK W : W = V \cup {complete} OBVIOUS
  <2>3. draft.rows \in [C -> [state : V, amount : V, reviewed : V]] BY <1>3
  <2>4. draft.rows \in [C -> [state : W, amount : W, reviewed : W]] BY <2>2, <2>3
  <2>5. /\ d.edited = TRUE
        /\ d \in [kind : W, edited : BOOLEAN, complete : W, entries : W,
                  rows : [C -> [state : W, amount : W, reviewed : W]]]
    BY <1>3, <2>1, <2>2, <2>4
  <2>6. IsDraft(d) BY <2>5 DEF IsDraft
  <2> QED BY <1>d, <1>1, <2>5, <2>6, PatchedIsGood
<1> QED BY <1>4, <1>5, <1>6

LEMMA ReviewKeeps ==
  ASSUME RulesInv, Review
  PROVE  RulesInv'
<1>d. PICK d : d = draft' OBVIOUS
<1>1. /\ stage = "draft" /\ stage' = "ready" /\ rules' = rules /\ published' = published
      /\ Publishable(rules.set, draft)
  BY DEF Review
<1>2. PICK V, C : draft \in [kind : V, edited : BOOLEAN, complete : V, entries : V,
                             rows : [C -> [state : V, amount : V, reviewed : V]]]
  BY <1>1 DEF RulesInv, Good, IsDraft
<1>3. PICK rows : rows = [c \in DOMAIN draft.rows |->
             [draft.rows[c] EXCEPT !.reviewed = @ \/ draft.rows[c].state = "COMPLETE"]]
  OBVIOUS
<1>4. d = [draft EXCEPT !.rows = rows] BY <1>d, <1>3 DEF Review
<1>5. draft.rows \in [C -> [state : V, amount : V, reviewed : V]] BY <1>2
<1>6. PICK W : W = V \cup {draft.rows[c].reviewed \/ draft.rows[c].state = "COMPLETE" : c \in C}
  OBVIOUS
<1>7. ASSUME NEW c \in C
      PROVE  /\ rows[c] \in [state : W, amount : W, reviewed : W]
             /\ rows[c].state = draft.rows[c].state /\ rows[c].amount = draft.rows[c].amount
  <2>1. PICK x : x = (draft.rows[c].reviewed \/ draft.rows[c].state = "COMPLETE") OBVIOUS
  <2>2. draft.rows[c] \in [state : V, amount : V, reviewed : V] /\ x \in W
    BY <1>5, <1>6, <2>1
  <2>3. rows[c] = [draft.rows[c] EXCEPT !.reviewed = x] BY <1>3, <1>5, <2>1, <2>2
  <2> QED BY <1>6, <2>2, <2>3
<1>8. rows \in [C -> [state : W, amount : W, reviewed : W]]
  <2>1. rows = [c \in C |-> rows[c]] BY <1>3, <1>5
  <2> QED BY <1>7, <2>1
<1>9. /\ d \in [kind : W, edited : BOOLEAN, complete : W, entries : W,
                rows : [C -> [state : W, amount : W, reviewed : W]]]
      /\ d.complete = draft.complete /\ d.entries = draft.entries /\ d.rows = rows
  BY <1>2, <1>4, <1>6, <1>8
<1>10. Publishable(rules.set, d)
  <2>1. DOMAIN d.rows = DOMAIN draft.rows /\ DOMAIN draft.rows = C BY <1>5, <1>8, <1>9
  <2> QED BY <1>1, <1>7, <1>9, <2>1, SameIsPublishable
<1>11. IsDraft(d) BY <1>9 DEF IsDraft
<1>12. Good(rules, d, "ready", published) BY <1>10, <1>11, <1>1 DEF RulesInv, Good
<1> QED BY <1>d, <1>1, <1>12 DEF RulesInv

LEMMA PublishKeeps ==
  ASSUME RulesInv, Publish
  PROVE  /\ RulesInv'
         /\ rules' = rules /\ Publishable(rules.set, published')
<1>p. PICK pu : pu = published' OBVIOUS
<1>d. PICK d : d = draft' OBVIOUS
<1>1. /\ stage = "ready" /\ stage' = "none" /\ rules' = rules /\ Publishable(rules.set, draft)
      /\ pu = [complete |-> draft.complete, rows |-> draft.rows, entries |-> draft.entries]
  BY <1>p DEF Publish
<1>2. pu.complete = draft.complete /\ pu.rows = draft.rows /\ pu.entries = draft.entries BY <1>1
<1>3. Publishable(rules.set, pu) BY <1>1, <1>2, SameIsPublishable
<1>4. Good(rules, d, "none", pu) BY <1>1, <1>3 DEF RulesInv, Good
<1> QED BY <1>p, <1>d, <1>1, <1>3, <1>4 DEF RulesInv

LEMMA RulesStep == RulesInv /\ [Next]_vars => RulesInv'
<1> SUFFICES ASSUME RulesInv, [Next]_vars PROVE RulesInv' OBVIOUS
<1>1. ASSUME Approve PROVE RulesInv' BY <1>1, ApproveKeeps
<1>2. ASSUME Import PROVE RulesInv'
  <2>1. PICK upload \in Uploads : /\ ValidImport(rules.set, upload)
                                  /\ \E kind \in {"INITIAL", "UPDATE", "CORRECTION"} : Opened(upload, kind)
    BY <1>2 DEF Import
  <2>2. rules.approved BY <1>2 DEF Import
  <2> QED BY <2>1, <2>2, ValidIsPublishable, OpenedIsGood
<1>3. ASSUME CreateCorrection PROVE RulesInv'
  <2>1. Publishable(rules.set, published) /\ rules.approved /\ Opened(published, "CORRECTION")
    BY <1>3 DEF CreateCorrection, RulesInv, Good
  <2> QED BY <2>1, OpenedIsGood
<1>4. ASSUME PatchCategory \/ ReplaceEntries \/ PatchCompleteness PROVE RulesInv'
  BY <1>4, PatchesKeep
<1>5. ASSUME Reopen PROVE RulesInv' BY <1>5 DEF Reopen, RulesInv, Good
<1>6. ASSUME Review PROVE RulesInv' BY <1>6, ReviewKeeps
<1>7. ASSUME Publish PROVE RulesInv' BY <1>7, PublishKeeps
<1>8. ASSUME UNCHANGED vars PROVE RulesInv' BY <1>8 DEF vars, RulesInv
<1> QED BY <1>1, <1>2, <1>3, <1>4, <1>5, <1>6, <1>7, <1>8 DEF Next

(* Whatever is ready or public has passed the checks of its rules, and so  *)
(* has every import that nobody has edited.                                *)
THEOREM RulesInvariant == Spec => []RulesInv
  BY RulesStart, RulesStep, PTL DEF Spec

-----------------------------------------------------------------------------
(* What a ticket is told.                                                  *)

(* What is public has passed the checks, under rules that rank.            *)
LEMMA PublicIsSound ==
  ASSUME RulesInv, published # Null
  PROVE  Publishable(rules.set, published) /\ WellRanked(rules.set)
<1>1. rules.set \in RuleSets BY DEF RulesInv, Good
<1>2. Publishable(rules.set, published) /\ Compiles(rules.set) BY DEF RulesInv, Good
<1> QED BY <1>1, <1>2, CompiledIsRanked

LEMMA ChecksAreRight == RulesInv => ChecksFollowTheRules
<1> SUFFICES ASSUME RulesInv, published # Null, NEW ticket \in Tickets
             PROVE  /\ Answer(ticket).outcome = Expected(ticket)
                    /\ Winners(ticket) # {} => Answer(ticket).award = Best(Winners(ticket)).code
                    /\ Answer(ticket).amount # Null <=> Answer(ticket).outcome = "MATCH"
  BY DEF ChecksFollowTheRules
<1>1. Publishable(rules.set, published) /\ WellRanked(rules.set) BY PublicIsSound
<1>w. PICK won : won = Winners(ticket) OBVIOUS
<1>a. PICK said : said = Answer(ticket) OBVIOUS
<1>r. PICK r : r = rules.set OBVIOUS
<1>p. PICK pu : pu = published OBVIOUS
<1>2. /\ won = RawMatches(r, pu.entries, ticket) /\ said = Evaluate(r, pu, ticket)
      /\ WellRanked(r) /\ Publishable(r, pu)
  BY <1>1, <1>w, <1>a, <1>r, <1>p DEF Winners, Answer
<1>3. /\ pu.complete => said.outcome = IF won = {} THEN "NO_MATCH" ELSE "MATCH"
      /\ ~pu.complete => said.outcome = IF won = {} THEN "RESULT_INCOMPLETE" ELSE "PARTIAL_MATCH"
      /\ won # {} => said.award = Best(won).code
      /\ said.amount # Null <=> said.outcome = "MATCH"
  BY <1>2, EvaluatedAsItIs
<1>4. Expected(ticket) = IF pu.complete THEN IF won = {} THEN "NO_MATCH" ELSE "MATCH"
                         ELSE IF won = {} THEN "RESULT_INCOMPLETE" ELSE "PARTIAL_MATCH"
  BY <1>w, <1>p DEF Expected
<1>5. said.outcome = Expected(ticket) BY <1>3, <1>4
<1> QED BY <1>w, <1>a, <1>3, <1>5

(* A valid ticket checked against anything public gets a verdict: final    *)
(* exactly if the result is complete, for the best category that any       *)
(* listed entry wins it, with an amount exactly if it is a final match.    *)
THEOREM ChecksAreCorrect == Spec => []ChecksFollowTheRules
  BY RulesInvariant, ChecksAreRight, PTL

(* An accepted import, and the copy opened for a correction, can be        *)
(* reviewed as it is.                                                      *)
THEOREM ImportsAreReviewable == Spec => []ImportsNeedNoRepair
<1>1. RulesInv => ImportsNeedNoRepair BY DEF RulesInv, Good, ImportsNeedNoRepair
<1> QED BY <1>1, RulesInvariant, PTL

-----------------------------------------------------------------------------
(* What a growing result takes back.                                       *)

(* A result grows by r: Grows, for a rule set that is not a variable.      *)
GrowsUnder(r, old, new) ==
    /\ old.complete => new.complete
    /\ old.entries \subseteq new.entries
    /\ \A c \in Codes(r) : old.rows[c].state = "COMPLETE" =>
           new.rows[c].state = "COMPLETE" /\ EntriesOf(new, c) = EntriesOf(old, c)

(* More entries win no less.                                               *)
LEMMA MatchesGrow ==
  ASSUME NEW r, NEW E, NEW F, E \subseteq F, NEW ticket
  PROVE  RawMatches(r, E, ticket) \subseteq RawMatches(r, F, ticket)
  BY DEF RawMatches

(* A complete result that grows wins what it won.                          *)
LEMMA CompleteMatchesStay ==
  ASSUME NEW r, NEW old, NEW new, Publishable(r, old), old.complete, GrowsUnder(r, old, new),
         NEW ticket
  PROVE  RawMatches(r, new.entries, ticket) = RawMatches(r, old.entries, ticket)
<1>1. old.entries \subseteq new.entries BY DEF GrowsUnder
<1>2. ASSUME NEW s \in Specs(r), NEW e \in new.entries, e.category = s.code
      PROVE  e \in old.entries
  <2>1. s.code \in Codes(r) /\ s.code \in DOMAIN old.rows
    BY DEF Codes, Publishable, PublishableMixed
  <2>2. old.rows[s.code].state = "COMPLETE" BY <2>1 DEF Publishable
  <2>3. EntriesOf(new, s.code) = EntriesOf(old, s.code) BY <2>1, <2>2 DEF GrowsUnder
  <2> QED BY <1>2, <2>3 DEF EntriesOf
<1> QED BY <1>1, <1>2 DEF RawMatches

(* The category of a code is the one that has it.                          *)
LEMMA CodeNamesItsSpec ==
  ASSUME NEW r, WellRanked(r), NEW s \in Specs(r)
  PROVE  SpecOf(r, s.code) = s
<1>1. \E t \in Specs(r) : t.code = s.code OBVIOUS
<1>2. SpecOf(r, s.code) \in Specs(r) /\ SpecOf(r, s.code).code = s.code BY <1>1 DEF SpecOf
<1> QED BY <1>2 DEF WellRanked

(* NotWorse, for a rule set that is not a variable.                        *)
NotWorseUnder(r, old, new) ==
    /\ old.outcome \in {"MATCH", "NO_MATCH"} => new.outcome = old.outcome /\ new.award = old.award
    /\ old.outcome = "PARTIAL_MATCH" =>
           /\ new.outcome \in {"PARTIAL_MATCH", "MATCH"}
           /\ SpecOf(r, new.award).priority <= SpecOf(r, old.award).priority

LEMMA GrowingTakesNothingBack ==
  ASSUME NEW r, WellRanked(r), NEW old, NEW new, Publishable(r, old), Publishable(r, new),
         GrowsUnder(r, old, new), NEW ticket
  PROVE  NotWorseUnder(r, Evaluate(r, old, ticket), Evaluate(r, new, ticket))
<1>w. PICK won : won = RawMatches(r, old.entries, ticket) OBVIOUS
<1>n. PICK wins : wins = RawMatches(r, new.entries, ticket) OBVIOUS
<1>a. PICK a : a = Evaluate(r, old, ticket) OBVIOUS
<1>b. PICK b : b = Evaluate(r, new, ticket) OBVIOUS
<1>1. /\ old.complete => a.outcome = IF won = {} THEN "NO_MATCH" ELSE "MATCH"
      /\ ~old.complete => a.outcome = IF won = {} THEN "RESULT_INCOMPLETE" ELSE "PARTIAL_MATCH"
      /\ won # {} => a.award = Best(won).code
      /\ won = {} => a.award = Null
  BY <1>w, <1>a, EvaluatedAsItIs
<1>2. /\ new.complete => b.outcome = IF wins = {} THEN "NO_MATCH" ELSE "MATCH"
      /\ ~new.complete => b.outcome = IF wins = {} THEN "RESULT_INCOMPLETE" ELSE "PARTIAL_MATCH"
      /\ wins # {} => b.award = Best(wins).code
      /\ wins = {} => b.award = Null
  BY <1>n, <1>b, EvaluatedAsItIs
<1>3. CASE old.complete
  <2>c. new.complete BY <1>3 DEF GrowsUnder
  <2>1. wins = won BY <1>3, <1>w, <1>n, CompleteMatchesStay
  <2>2. b.outcome = a.outcome /\ b.award = a.award BY <1>1, <1>2, <1>3, <2>c, <2>1
  <2>3. a.outcome # "PARTIAL_MATCH" BY <1>1, <1>3
  <2> QED BY <1>a, <1>b, <2>2, <2>3 DEF NotWorseUnder
<1>4. CASE ~old.complete /\ won = {}
  <2>1. a.outcome = "RESULT_INCOMPLETE" BY <1>1, <1>4
  <2> QED BY <1>a, <1>b, <2>1 DEF NotWorseUnder
<1>5. CASE ~old.complete /\ won # {}
  <2>1. won \subseteq wins /\ won \in SUBSET Specs(r) /\ wins \in SUBSET Specs(r)
    <3>1. old.entries \subseteq new.entries BY DEF GrowsUnder
    <3>2. won \subseteq wins BY <1>w, <1>n, <3>1, MatchesGrow
    <3> QED BY <1>w, <1>n, <3>2 DEF RawMatches
  <2>2. /\ Best(won) \in won /\ Best(wins) \in wins
        /\ \A t \in wins : Best(wins).priority <= t.priority
    BY <1>5, <2>1, BestIsFirst
  <2>3. Best(wins).priority <= Best(won).priority BY <2>1, <2>2
  <2>4. SpecOf(r, a.award) = Best(won) /\ SpecOf(r, b.award) = Best(wins)
    BY <1>1, <1>2, <1>5, <2>1, <2>2, CodeNamesItsSpec
  <2>5. a.outcome = "PARTIAL_MATCH" /\ b.outcome \in {"PARTIAL_MATCH", "MATCH"}
    BY <1>1, <1>2, <1>5, <2>1, <2>2
  <2> QED BY <1>a, <1>b, <2>3, <2>4, <2>5 DEF NotWorseUnder
<1> QED BY <1>3, <1>4, <1>5

(* Only a publication changes what is public.                              *)
LEMMA OnlyPublishPublishes ==
  ASSUME RulesInv, [Next]_vars, published' # published
  PROVE  rules' = rules /\ Publishable(rules.set, published')
<1>1. ~UNCHANGED vars BY DEF vars
<1>2. ~Approve /\ ~Import /\ ~CreateCorrection
  BY DEF Approve, Import, CreateCorrection, Opened
<1>3. ~PatchCategory /\ ~ReplaceEntries /\ ~PatchCompleteness /\ ~Reopen /\ ~Review
  BY DEF PatchCategory, ReplaceEntries, PatchCompleteness, Patched, Reopen, Review
<1>4. Publish BY <1>1, <1>2, <1>3 DEF Next
<1> QED BY <1>4, PublishKeeps

(* A publication that only adds takes no answer back: final verdicts stay, *)
(* and a provisional match stays a match of its category or a higher one.  *)
THEOREM AnswersOnlyImprove == Spec => UpdatesNeverTakeBack
<1>1. ASSUME RulesInv, [Next]_vars, published # Null, published' # published,
             Grows(published, published'), NEW ticket \in Tickets
      PROVE  NotWorse(Answer(ticket), Evaluate(rules.set, published', ticket))
  <2>1. PICK new : new = published' OBVIOUS
  <2>2. Publishable(rules.set, published) /\ WellRanked(rules.set) BY <1>1, PublicIsSound
  <2>3. Publishable(rules.set, new) BY <1>1, <2>1, OnlyPublishPublishes
  <2>4. GrowsUnder(rules.set, published, new) BY <1>1, <2>1 DEF Grows, GrowsUnder
  <2>5. NotWorseUnder(rules.set, Evaluate(rules.set, published, ticket),
                      Evaluate(rules.set, new, ticket))
    BY <2>2, <2>3, <2>4, GrowingTakesNothingBack
  <2> QED BY <2>1, <2>5 DEF NotWorse, NotWorseUnder, Answer
<1>2. RulesInv /\ [Next]_vars =>
        [published # Null /\ published' # published /\ Grows(published, published') =>
           \A ticket \in Tickets : InDomain(rules.set, ticket) =>
               NotWorse(Answer(ticket), Evaluate(rules.set, published', ticket))]_vars
  BY <1>1
<1> QED BY <1>2, RulesInvariant, PTL DEF Spec, UpdatesNeverTakeBack

=============================================================================
