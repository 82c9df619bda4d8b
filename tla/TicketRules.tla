----------------------------- MODULE TicketRules -----------------------------
(***************************************************************************)
(* What a result says about a ticket: the rules of a lottery are written,  *)
(* compiled and approved, a draw's result is imported under them, patched, *)
(* reviewed and published, corrected and published again, and tickets are  *)
(* checked against what is published.                                      *)
(*                                                                         *)
(* Publishing is about who may do this and when, with results that are     *)
(* opaque.  Here one draw has one draft at a time and the content is what  *)
(* matters: manifest rows, entries, and the four places that judge them    *)
(* (validateImport, patch, assertPublishable, evaluateTicket).             *)
(*                                                                         *)
(* A number is the sequence of its digits, a series a string, "" for none. *)
(*                                                                         *)
(* An operator whose comment begins with "Mutation of" is a plausible bug  *)
(* in the operator that follows it; no action uses it.                     *)
(***************************************************************************)
EXTENDS Naturals, Sequences, FiniteSets, Functions

CONSTANTS
    RuleSets,      \* rule sets as written
    Uploads,       \* what can be imported: complete, manifest rows, entries
    Lists,         \* entries that can be typed for a category: category, entries
    Amounts,       \* prize amounts
    Tickets,       \* what can be typed: records of a series and a number
    MaxPatches,    \* bound: patches
    MaxResults,    \* bound: results published
    Null

VARIABLES
    rules,         \* the rule version: its rule set and whether it is approved
    draft,         \* the open draft
    stage,         \* "none", "draft" or "ready"
    published,     \* the current published result
    patches,       \* patches so far
    results        \* results published so far

vars == <<rules, draft, stage, published, patches, results>>

States == {"MISSING", "PARTIAL", "COMPLETE"}

(***************************************************************************)
(* compileRuleSet.                                                         *)
(***************************************************************************)
Specs(r) == Range(r.categories)
Codes(r) == {s.code : s \in Specs(r)}
SpecOf(r, c) == CHOOSE s \in Specs(r) : s.code = c

ASSUME RuleSetsAssumption ==
    \A r \in RuleSets : \A s \in Specs(r) : s.code # Null /\ s.priority \in Nat

(* A list of entries, and their numbers' digits.                           *)
Listing(entries) == IsFiniteSet(entries) /\ \A e \in entries : e.number \in Seq(0 .. 9)

ASSUME EntriesAssumption ==
    /\ \A upload \in Uploads : Listing(upload.entries)
    /\ \A list \in Lists : Listing(list.entries)

NoRepeats(r) ==
    /\ IsInjective(r.series) /\ IsInjective(r.firstDigits)
    /\ IsInjective([i \in DOMAIN r.categories |-> r.categories[i].code])
    /\ IsInjective([i \in DOMAIN r.categories |-> r.categories[i].priority])

NeedsSeries(s) == s.kind = "FULL_NUMBER" /\ s.policy # "ANY_ALLOWED"

MatchesFit(r) ==
    \A s \in Specs(r) :
        /\ s.kind = "SUFFIX" => s.suffix <= r.numberLength
        /\ NeedsSeries(s) => r.series # <<>>

ExclusionsKnown(r) == \A s \in Specs(r) : s.excludedBy \subseteq Codes(r) \ {s.code}
ExclusionsRise(r) ==
    /\ ExclusionsKnown(r)
    /\ \A s, t \in Specs(r) : t.code \in s.excludedBy => t.priority < s.priority

OneFirstPrize(r) ==
    \A s, t \in Specs(r) :
        s.role = "FIRST_PRIZE" /\ t.role = "FIRST_PRIZE"
        => s.kind = t.kind /\ s.policy = t.policy /\ s.suffix = t.suffix

(* That no exclusions form a cycle follows from their rising priorities.   *)
Compiles(r) == NoRepeats(r) /\ MatchesFit(r) /\ ExclusionsRise(r) /\ OneFirstPrize(r)

(***************************************************************************)
(* evaluateTicket.                                                         *)
(***************************************************************************)
InDomain(r, ticket) ==
    /\ IF ticket.series = "" THEN \A s \in Specs(r) : ~NeedsSeries(s)
       ELSE ticket.series \in Range(r.series)
    /\ Len(ticket.number) = r.numberLength
    /\ ticket.number[1] \in Range(r.firstDigits)

LastDigits(number, n) == SubSeq(number, Len(number) - n + 1, Len(number))

SeriesFits(policy, entry, ticket) ==
    \/ policy = "MATCH_ENTRY" /\ entry.series # "" /\ entry.series = ticket.series
    \/ policy = "EXCEPT_ENTRY" /\ entry.series # "" /\ ticket.series # "" /\ entry.series # ticket.series
    \/ policy = "ANY_ALLOWED"

EntryMatches(s, entry, ticket) ==
    \/ s.kind = "SUFFIX" /\ Len(entry.number) = s.suffix /\ LastDigits(ticket.number, s.suffix) = entry.number
    \/ s.kind = "FULL_NUMBER" /\ entry.number = ticket.number /\ SeriesFits(s.policy, entry, ticket)

Candidates(r, ticket) ==
    {ticket.number} \cup {LastDigits(ticket.number, s.suffix) : s \in {x \in Specs(r) : x.kind = "SUFFIX"}}

(* findEntriesByNumbers: the rows of the result the check looks at.        *)
LookedUp(r, result, ticket) == {e \in result.entries : e.number \in Candidates(r, ticket)}

RawMatches(r, entries, ticket) ==
    {s \in Specs(r) : \E e \in entries : e.category = s.code /\ EntryMatches(s, e, ticket)}

Best(S) == CHOOSE s \in S : \A t \in S : s.priority <= t.priority
NotExcluded(raw) == {s \in raw : \A t \in raw : t.code \notin s.excludedBy}
Awarded(raw) == IF NotExcluded(raw) = {} THEN Null ELSE Best(NotExcluded(raw)).code
Provisional(raw) == IF Awarded(raw) = Null /\ raw # {} THEN Best(raw).code ELSE Awarded(raw)

Integrity(r, result) ==
    \A c \in Codes(r) :
        c \in DOMAIN result.rows /\ (result.complete => result.rows[c].state = "COMPLETE")

AllComplete(r, result) ==
    result.complete /\ \A c \in Codes(r) : result.rows[c].state = "COMPLETE"

Verdict(outcome, award, amount) == [outcome |-> outcome, award |-> award, amount |-> amount]

EvaluateFinal(raw, result) ==
    IF Awarded(raw) = Null THEN Verdict("NO_MATCH", Null, Null)
    ELSE Verdict("MATCH", Awarded(raw), result.rows[Awarded(raw)].amount)
(* Mutation of EvaluateOpen: nothing found is final.                       *)
EvaluateOpenAsFinal(raw) ==
    IF Provisional(raw) = Null THEN Verdict("NO_MATCH", Null, Null)
    ELSE Verdict("PARTIAL_MATCH", Provisional(raw), Null)
EvaluateOpen(raw) ==
    IF Provisional(raw) = Null THEN Verdict("RESULT_INCOMPLETE", Null, Null)
    ELSE Verdict("PARTIAL_MATCH", Provisional(raw), Null)

Evaluate(r, result, ticket) ==
    LET raw == RawMatches(r, LookedUp(r, result, ticket), ticket) IN
    IF ~Integrity(r, result) THEN Verdict("RESULT_UNAVAILABLE", Null, Null)
    ELSE IF AllComplete(r, result) THEN EvaluateFinal(raw, result) ELSE EvaluateOpen(raw)

(***************************************************************************)
(* What an import, an edit, a review and a publication accept.             *)
(***************************************************************************)
EntriesOf(result, c) == {e \in result.entries : e.category = c}

EntryFits(r, s, e) ==
    \/ s.kind = "SUFFIX" /\ Len(e.number) = s.suffix /\ e.series = ""
    \/ /\ s.kind = "FULL_NUMBER" /\ Len(e.number) = r.numberLength
       /\ IF s.policy = "ANY_ALLOWED" THEN e.series = "" ELSE e.series \in Range(r.series)

FirstDigitFits(r, s, e) == s.kind = "FULL_NUMBER" => e.number[1] \in Range(r.firstDigits)

CountFits(s, n) == n > 0 /\ s.expected \in {Null, n}

ImportFits(r, upload) ==
    /\ DOMAIN upload.rows = Codes(r)
    /\ upload.complete => \A c \in Codes(r) : upload.rows[c].state = "COMPLETE"
    /\ \A e \in upload.entries : e.category \in Codes(r)
    /\ \A s \in Specs(r) :
        LET row == upload.rows[s.code]
            listed == EntriesOf(upload, s.code)
        IN  /\ row.state = "MISSING" => listed = {}
            /\ \A e \in listed : EntryFits(r, s, e) /\ FirstDigitFits(r, s, e)
            /\ row.state = "COMPLETE" => row.amount # Null

CompleteRowsCount(r, upload) ==
    \A s \in Specs(r) :
        upload.rows[s.code].state = "COMPLETE" =>
            CountFits(s, Cardinality(EntriesOf(upload, s.code)))

(* Mutation of ValidImport: nobody counts the numbers of a complete row.   *)
ValidImportUncounted(r, upload) == ImportFits(r, upload)
ValidImport(r, upload) == ImportFits(r, upload) /\ CompleteRowsCount(r, upload)

PublishableMixed(r, result) ==
    \A s \in Specs(r) :
        /\ s.code \in DOMAIN result.rows
        /\ LET row == result.rows[s.code]
               n == Cardinality(EntriesOf(result, s.code))
           IN  /\ row.state = "COMPLETE" => row.amount # Null /\ CountFits(s, n)
               /\ row.state = "MISSING" => n = 0

Publishable(r, result) ==
    /\ PublishableMixed(r, result)
    /\ result.complete => \A c \in DOMAIN result.rows : result.rows[c].state = "COMPLETE"

(***************************************************************************)
(* Operations.                                                             *)
(***************************************************************************)
Init ==
    /\ rules \in {[set |-> r, approved |-> FALSE] : r \in RuleSets}
    /\ draft = Null /\ stage = "none"
    /\ published = Null
    /\ patches = 0 /\ results = 0

Approve ==
    /\ ~rules.approved /\ Compiles(rules.set)
    /\ rules' = [rules EXCEPT !.approved = TRUE]
    /\ UNCHANGED <<draft, stage, published, patches, results>>

Opened(result, kind) ==
    /\ stage = "none" /\ stage' = "draft" /\ results < MaxResults
    /\ draft' = [kind |-> kind, edited |-> FALSE, complete |-> result.complete, entries |-> result.entries,
                 rows |-> [c \in DOMAIN result.rows |->
                     [state |-> result.rows[c].state, amount |-> result.rows[c].amount, reviewed |-> FALSE]]]
    /\ UNCHANGED <<rules, published, patches, results>>

(* preview and createDraft, of an import without errors.                   *)
Import ==
    /\ rules.approved /\ stage = "none" /\ results < MaxResults
    /\ \E upload \in {u \in Uploads : ValidImport(rules.set, u)} :
           \E kind \in {"INITIAL", "UPDATE", "CORRECTION"} :
               (kind = "INITIAL" <=> published = Null) /\ Opened(upload, kind)

CreateCorrection == published # Null /\ Opened(published, "CORRECTION")

(* patch: a manifest row, the entries of a category, or the completeness.  *)
Patched ==
    /\ stage = "draft" /\ patches < MaxPatches /\ patches' = patches + 1
    /\ UNCHANGED <<rules, stage, published, results>>

PatchCategory ==
    /\ Patched
    /\ \E c \in Codes(rules.set), state \in States, amount \in Amounts \cup {Null} :
        draft' = [draft EXCEPT !.edited = TRUE, !.rows[c] = [state |-> state, amount |-> amount, reviewed |-> FALSE]]

ReplaceEntries ==
    /\ Patched
    /\ \E list \in Lists :
        /\ list.category \in Codes(rules.set)
        /\ \A e \in list.entries : EntryFits(rules.set, SpecOf(rules.set, list.category), e)
        /\ draft' = [draft EXCEPT !.edited = TRUE, !.entries =
               {e \in @ : e.category # list.category} \cup
               {[category |-> list.category, series |-> e.series, number |-> e.number] : e \in list.entries}]

PatchCompleteness ==
    /\ Patched
    /\ \E complete \in BOOLEAN : draft' = [draft EXCEPT !.edited = TRUE, !.complete = complete]

Reopen ==
    /\ stage = "ready" /\ stage' = "draft"
    /\ UNCHANGED <<rules, draft, published, patches, results>>

Review ==
    /\ stage = "draft" /\ stage' = "ready"
    /\ Publishable(rules.set, draft)
    /\ draft' = [draft EXCEPT !.rows = [c \in DOMAIN draft.rows |->
           [draft.rows[c] EXCEPT !.reviewed = @ \/ draft.rows[c].state = "COMPLETE"]]]
    /\ UNCHANGED <<rules, published, patches, results>>

Publish ==
    /\ stage = "ready" /\ Publishable(rules.set, draft)
    /\ published # Null /\ published.complete /\ ~draft.complete => draft.kind = "CORRECTION"
    /\ published' = [complete |-> draft.complete, rows |-> draft.rows, entries |-> draft.entries]
    /\ draft' = Null /\ stage' = "none" /\ results' = results + 1
    /\ UNCHANGED <<rules, patches>>

Next ==
    \/ Approve \/ Import \/ CreateCorrection
    \/ PatchCategory \/ ReplaceEntries \/ PatchCompleteness
    \/ Reopen \/ Review \/ Publish

Spec == Init /\ [][Next]_vars

(***************************************************************************)
(* What must hold.                                                         *)
(***************************************************************************)
(* Nothing published fails its checks.  Whatever is let through to the     *)
(* public, a valid ticket gets a verdict, not an integrity failure: final  *)
(* exactly if the result is complete, for the highest category that any    *)
(* listed entry wins it, and with an amount exactly if it is final.  So    *)
(* the lookup by candidate numbers misses no entry, and exclusions, which  *)
(* only point upwards, never decide.                                       *)
Winners(ticket) == RawMatches(rules.set, published.entries, ticket)
Answer(ticket) == Evaluate(rules.set, published, ticket)

Expected(ticket) ==
    IF published.complete THEN IF Winners(ticket) = {} THEN "NO_MATCH" ELSE "MATCH"
    ELSE IF Winners(ticket) = {} THEN "RESULT_INCOMPLETE" ELSE "PARTIAL_MATCH"

ChecksFollowTheRules ==
    published # Null =>
        \A ticket \in Tickets : InDomain(rules.set, ticket) =>
            /\ Answer(ticket).outcome = Expected(ticket)
            /\ Winners(ticket) # {} => Answer(ticket).award = Best(Winners(ticket)).code
            /\ Answer(ticket).amount # Null <=> Answer(ticket).outcome = "MATCH"

(* An import that was accepted needs no repair: its draft, and the copy    *)
(* made for a correction, can be reviewed as they are.                     *)
ImportsNeedNoRepair == stage = "draft" /\ ~draft.edited => Publishable(rules.set, draft)

(* A result that only grows takes nothing back: what was final stays, a    *)
(* provisional match stays a match, of its category or a higher one.       *)
Grows(old, new) ==
    /\ old.complete => new.complete
    /\ old.entries \subseteq new.entries
    /\ \A c \in Codes(rules.set) : old.rows[c].state = "COMPLETE" =>
           new.rows[c].state = "COMPLETE" /\ EntriesOf(new, c) = EntriesOf(old, c)

NotWorse(old, new) ==
    /\ old.outcome \in {"MATCH", "NO_MATCH"} => new.outcome = old.outcome /\ new.award = old.award
    /\ old.outcome = "PARTIAL_MATCH" =>
           /\ new.outcome \in {"PARTIAL_MATCH", "MATCH"}
           /\ SpecOf(rules.set, new.award).priority <= SpecOf(rules.set, old.award).priority

UpdatesNeverTakeBack ==
    [][published # Null /\ published' # published /\ Grows(published, published') =>
           \A ticket \in Tickets : InDomain(rules.set, ticket) =>
               NotWorse(Answer(ticket), Evaluate(rules.set, published', ticket))]_vars
=============================================================================
