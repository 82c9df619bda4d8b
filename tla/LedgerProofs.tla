----------------------------- MODULE LedgerProofs -----------------------------
(***************************************************************************)
(* The publication pipeline implements the ledger of published results it  *)
(* promises its readers: every step of every handler is a step of the      *)
(* ledger, or changes nothing a reader can see.  And what readers are      *)
(* given: a published draw keeps the dates that were reviewed, the read    *)
(* side shows the last entry of the ledger, and the dataset version of a   *)
(* lottery changes whenever its statistics could count something else.     *)
(* Last, what is decided: reviews, publications and suspensions are about  *)
(* what the page showed.                                                   *)
(***************************************************************************)
EXTENDS PublishingProofs, SequenceTheorems

(* What the mapping needs of a state: the invariant, and the chain.        *)
Sound ==
    /\ Inv
    /\ NumbersAreUnique
    /\ BaseIsEarlier
    /\ PublicationsFormAChain

(* Sound is inductive; its parts are proved in PublishingProofs.           *)
LEMMA SoundIsInvariant == Spec => []Sound
<1>1. Init => Sound
  BY InitInv, InitNumbers, InitChain DEF Sound
<1>2. Sound /\ [Next]_vars => Sound'
  <2> SUFFICES ASSUME Sound, [Next]_vars
               PROVE  Sound'
    OBVIOUS
  <2>1. TypeOK /\ RowsAreWhole /\ CurrentIsPublished
    BY DEF Inv, Sound
  <2>2. NumbersAreUnique'
    BY <2>1, StepNumbers DEF Sound
  <2>3. BaseIsEarlier'
    BY <2>1, StepBase DEF Sound
  <2>4. PublicationsFormAChain'
    BY <2>1, StepChain DEF Sound
  <2> QED
    BY <2>2, <2>3, <2>4, StepInv DEF Sound
<1> QED
  BY <1>1, <1>2, PTL DEF Spec

(* What has been entered: revisions of the draw, published or superseded.  *)
LEMMA EnteredRows ==
    ASSUME Sound, NEW d \in Draws
    PROVE  /\ published[d] \in Seq(Revisions) /\ Len(published[d]) \in Nat
           /\ \A i \in 1..Len(published[d]) :
                /\ published[d][i] \in Revisions
                /\ rev[published[d][i]].workflow \in {"PUBLISHED", "SUPERSEDED"}
<1>1. published[d] \in Seq(Revisions)
  BY DEF Sound, Inv, TypeOK
<1>2. ChainOf(d, published[d], draw[d].current, rev)
  BY ChainByDraw DEF Sound
<1> QED
  BY <1>1, <1>2 DEF ChainOf

(* The hash of an entered revision never changes.                          *)
LEMMA EnteredHashStays ==
    ASSUME Sound, [Next]_vars, NEW d \in Draws, NEW i \in 1..Len(published[d])
    PROVE  Hash(rev'[published[d][i]]) = Hash(rev[published[d][i]])
<1> DEFINE r == published[d][i]
<1>1. r \in Revisions /\ rev[r].workflow \in {"PUBLISHED", "SUPERSEDED"}
  BY EnteredRows
<1> HIDE DEF r
<1>2. TypeOK /\ RowsAreWhole /\ CurrentIsPublished /\ rev[r] \in Revision
  BY <1>1 DEF Sound, Inv, TypeOK
<1>3. rev'[r] = rev[r] \/ rev'[r] = [rev[r] EXCEPT !.workflow = "SUPERSEDED"]
  BY <1>1, <1>2, PublishedRowsStay DEF IsRetired
<1>4. Hash(rev'[r]) = Hash(rev[r])
  BY <1>2, <1>3 DEF Hash, Revision
<1> QED
  BY <1>4 DEF r

(* Only a publication enters anything.                                     *)
LEMMA EntriesStay ==
    ASSUME Sound, [Next]_vars, NEW d \in Draws, published'[d] = published[d]
    PROVE  EntriesOf(d)' = EntriesOf(d)
<1>1. \A i \in 1..Len(published[d]) :
        Hash(rev'[published[d][i]]) = Hash(rev[published[d][i]])
  BY EnteredHashStays
<1> QED
  BY <1>1 DEF EntriesOf

(* A step that enters nothing and keeps visibilities and data versions is  *)
(* no step of the ledger.                                                  *)
Quiet == /\ \A d \in Draws : draw'[d].visibility = draw[d].visibility
         /\ dataset' = dataset

(* Draw rows change their visibility in publish and setVisibility only,    *)
(* dataset versions in those and in revokeRule.                            *)
LEMMA QuietSteps ==
    ASSUME Sound, [Next]_vars, ~Publishing,
           ~ \E a \in Admins, u \in Rules : RevokeRule(a, u),
           ~ \E a \in Admins, d \in Draws, target \in {"ACTIVE", "SUSPENDED"} :
                 SetVisibility(a, d, target)
    PROVE  Quiet
<1>1. TypeOK /\ RowsAreWhole /\ CurrentIsPublished
  BY DEF Sound, Inv
<1>2. CASE UNCHANGED <<draw, dataset>>
  BY <1>2 DEF Quiet
<1>3. ASSUME NEW x \in Draws, NEW phase \in Phases, NEW dates \in Dates,
             CreateDraw(x, phase, dates)
      PROVE  Quiet
  BY <1>1, <1>3 DEF CreateDraw, Quiet, TypeOK, Draw
<1>4. ASSUME NEW a \in Admins, NEW x \in Draws, NEW phase \in Phases \cup {Nil},
             NEW dates \in DrawDates \cup {Nil}, PatchDraw(a, x, phase, dates)
      PROVE  Quiet
  BY <1>1, <1>4 DEF PatchDraw, Quiet, TypeOK, Draw
<1>5. ASSUME NEW r \in Revisions, NEW x, NEW row, InsertDraft(r, x, row), dataset' = dataset
      PROVE  Quiet
  BY <1>1, <1>5 DEF InsertDraft, Quiet, TypeOK, Draw
<1>6. CASE CatalogueStep
  BY <1>2, <1>3, <1>4, <1>6 DEF CatalogueStep, CreateRule, ApproveRule
<1>7. CASE ImportStep
  BY <1>2, <1>5, <1>7 DEF ImportStep, Preview, CreateDraft
<1>8. CASE RevisionStep
  BY <1>2, <1>5, <1>8 DEF RevisionStep, Publishing, Patch, Reopen, Review, CreateCorrection
<1>9. CASE PageStep \/ UNCHANGED vars
  BY <1>2, <1>9 DEF PageStep, LoadDraw, LoadRevision, vars
<1> QED
  BY <1>6, <1>7, <1>8, <1>9 DEF Next

(* Publish enters the revision it publishes.                               *)
LEMMA PublishEnters ==
    ASSUME Sound, NEW a \in Admins, NEW r \in Revisions, NEW flag \in BOOLEAN,
           NEW d \in Draws, d = rev[r].draw, Publish(a, r, flag)
    PROVE  \E e \in Ledger!Entry : Ledger!Enter(d, e)
<1> DEFINE old == draw[d].current
           p == published[d]
           n == Len(p)
           e == [revision |-> r, content |-> Hash(rev[r])]
<1>1. TypeOK /\ RowsAreWhole /\ CurrentIsPublished
  BY DEF Sound, Inv
<1>2. [Next]_vars
  BY DEF Next, RevisionStep
<1>3. /\ d \in Draws /\ rev[r].workflow = "READY" /\ rev[r] \in Revision
      /\ published' = [published EXCEPT ![d] = Append(p, r)]
      /\ rev'[r] = [rev[r] EXCEPT !.workflow = "PUBLISHED", !.publishedBy = a,
                                 !.editVersion = @ + 1]
  <2>1. Replaces(a, r, d, old)
    BY <1>1, PublishEffect
  <2>2. rev[r] \in Revision
    BY <1>1 DEF TypeOK
  <2> QED
    BY <2>1, <2>2 DEF Replaces
<1>4. Hash(rev'[r]) = Hash(rev[r]) /\ Hash(rev[r]) \in Hashes
  <2>1. rev[r].rule \in Rules /\ rev[r].dates \in Dates /\ rev[r].payload \in Payloads
    BY <1>1, <1>3 DEF RowsAreWhole
  <2>2. Hash(rev'[r]) = Hash(rev[r])
    BY <1>3 DEF Hash, Revision
  <2> QED
    BY <2>1, <2>2 DEF Hash, Hashes
<1>5. e \in Ledger!Entry
  BY <1>4 DEF Ledger!Entry
<1>6. Ledger!NeverEntered(r)
  <2>1. ASSUME NEW x \in Draws, NEW i \in 1..Len(published[x])
        PROVE  published[x][i] # r
    BY <1>3, <2>1, EnteredRows
  <2>2. \A x \in Draws : Len(published[x]) \in Nat
    BY EnteredRows
  <2>3. \A x \in Draws : /\ DOMAIN EntriesOf(x) = 1..Len(published[x])
                          /\ Len(EntriesOf(x)) = Len(published[x])
    BY <2>2 DEF EntriesOf
  <2> QED
    BY <2>1, <2>3 DEF Ledger!NeverEntered, EntriesOf
<1>7. EntriesOf(d)' = Append(EntriesOf(d), e)
  <2>1. p \in Seq(Revisions) /\ n \in Nat
    BY <1>3, EnteredRows
  <2>2. /\ published'[d] = Append(p, r) /\ Len(Append(p, r)) = n + 1
        /\ Append(p, r)[n + 1] = r /\ \A i \in 1..n : Append(p, r)[i] = p[i]
    BY <1>3, <2>1 DEF Sound, Inv, TypeOK
  <2>3. \A i \in 1..n : Hash(rev'[p[i]]) = Hash(rev[p[i]])
    BY <1>2, <1>3, EnteredHashStays
  <2> DEFINE f == EntriesOf(d)
             g == EntriesOf(d)'
             S == {f[i] : i \in 1..n} \cup {e}
  <2>4. /\ DOMAIN f = 1..n
        /\ \A i \in 1..n : f[i] = [revision |-> p[i], content |-> Hash(rev[p[i]])]
        /\ f = [i \in 1..n |-> f[i]]
    BY DEF EntriesOf
  <2>5. /\ DOMAIN g = 1..(n + 1)
        /\ \A i \in 1..(n + 1) :
              g[i] = [revision |-> published'[d][i], content |-> Hash(rev'[published'[d][i]])]
        /\ g = [i \in 1..(n + 1) |-> g[i]]
    BY <2>2 DEF EntriesOf
  <2>6. \A i \in 1..n : i \in 1..(n + 1) /\ i # n + 1
    BY <2>1
  <2>7. n + 1 \in 1..(n + 1) /\ \A i \in 1..(n + 1) : i = n + 1 \/ i \in 1..n
    BY <2>1
  <2> HIDE DEF f, g, S
  <2>8. ASSUME NEW i \in 1..n
        PROVE  g[i] = f[i]
    <3>1. published'[d][i] = p[i]
      BY <2>2
    <3>2. g[i] = [revision |-> published'[d][i], content |-> Hash(rev'[published'[d][i]])]
      BY <2>5, <2>6
    <3>3. g[i] = [revision |-> p[i], content |-> Hash(rev[p[i]])]
      BY <2>3, <3>1, <3>2
    <3> QED
      BY <2>4, <3>3
  <2>9. g[n + 1] = e
    <3>1. published'[d][n + 1] = r
      BY <2>2
    <3>2. g[n + 1] = [revision |-> published'[d][n + 1],
                      content |-> Hash(rev'[published'[d][n + 1]])]
      BY <2>5, <2>7
    <3> QED
      BY <1>4, <3>1, <3>2
  <2> HIDE DEF e
  <2>10. f \in Seq(S) /\ Len(f) = n /\ e \in S
    <3>1. \A i \in 1..n : f[i] \in S
      BY DEF S
    <3>2. f \in [1..n -> S]
      BY <2>4, <3>1
    <3> QED
      BY <2>1, <3>2 DEF S
  <2>11. g \in Seq(S) /\ Len(g) = n + 1
    <3>1. \A i \in 1..(n + 1) : g[i] \in S
      BY <2>7, <2>8, <2>9 DEF S
    <3>2. g \in [1..(n + 1) -> S]
      BY <2>5, <3>1
    <3> QED
      BY <2>1, <3>2
  <2>12. g = Append(f, e)
    <3>1. /\ Append(f, e) \in Seq(S) /\ Len(Append(f, e)) = n + 1
          /\ \A i \in 1..n : Append(f, e)[i] = f[i]
          /\ Append(f, e)[n + 1] = e
      BY <2>10, AppendProperties
    <3>2. \A i \in 1..Len(g) : g[i] = Append(f, e)[i]
      BY <2>7, <2>8, <2>9, <2>11, <3>1
    <3> QED
      BY <2>11, <3>1, <3>2, SeqEqual
  <2> QED
    BY <2>12 DEF f, g, e
<1>8. \A x \in Draws : x # d => EntriesOf(x)' = EntriesOf(x)
  <2>1. \A x \in Draws : x # d => published'[x] = published[x]
    BY <1>1, <1>3 DEF TypeOK
  <2> QED
    BY <1>2, <2>1, EntriesStay
<1>9. [x \in Draws |-> EntriesOf(x)]' =
          [[x \in Draws |-> EntriesOf(x)] EXCEPT ![d] = Append(EntriesOf(d), e)]
  <2> HIDE DEF e
  <2>1. \A x \in Draws : EntriesOf(x)' = IF x = d THEN Append(EntriesOf(d), e) ELSE EntriesOf(x)
    BY <1>7, <1>8
  <2> QED
    BY <1>3, <2>1
<1>10. Withheld' = [Withheld EXCEPT ![d] = FALSE]
  <2>1. draw'[d].visibility = "ACTIVE" /\ \A x \in Draws : x # d => draw'[x] = draw[x]
    <3>1. draw' = [draw EXCEPT ![d] = PublishedDraw(r, flag)]
      BY DEF Publish
    <3>2. draw[d] \in Draw /\ (draw[d].visibility = "SUSPENDED" => flag)
      BY <1>1, <1>3 DEF Publish, MayPublish, TypeOK
    <3>3. PublishedDraw(r, flag).visibility = "ACTIVE"
      BY <3>2 DEF PublishedDraw, Draw
    <3> QED
      BY <1>1, <1>3, <3>1, <3>3 DEF TypeOK
  <2> QED
    BY <1>3, <2>1 DEF Withheld
<1>11. dataset' = [dataset EXCEPT ![LotteryOf[d]] = @ + 1]
  BY DEF Publish
<1>12. Ledger!Enter(d, e)
  BY <1>3, <1>6, <1>9, <1>10, <1>11 DEF Ledger!Enter, Ledger!Advance
<1> QED
  BY <1>5, <1>12

(* Suspending withholds, resuming releases.                                *)
LEMMA VisibilityWithholds ==
    ASSUME Sound, NEW a \in Admins, NEW d \in Draws, NEW target \in {"ACTIVE", "SUSPENDED"},
           SetVisibility(a, d, target)
    PROVE  Ledger!Withhold(d) \/ Ledger!Release(d)
<1>1. [Next]_vars
  BY DEF Next, RevisionStep
<1>2. \A x \in Draws : EntriesOf(x)' = EntriesOf(x)
  BY <1>1, EntriesStay DEF SetVisibility
<1>3. draw[d] \in Draw /\ dataset' = [dataset EXCEPT ![LotteryOf[d]] = @ + 1]
  BY DEF SetVisibility, Sound, Inv, TypeOK
<1>4. /\ draw[d].visibility # target /\ draw'[d].visibility = target
      /\ \A x \in Draws : x # d => draw'[x] = draw[x]
  BY <1>3 DEF SetVisibility, Sound, Inv, TypeOK, Draw
<1>5. Withheld' = [Withheld EXCEPT ![d] = (target = "SUSPENDED")]
  BY <1>4 DEF Withheld
<1>6. CASE target = "SUSPENDED"
  <2>1. ~Withheld[d]
    BY <1>4, <1>6 DEF Withheld
  <2>2. Withheld' = [Withheld EXCEPT ![d] = TRUE]
    BY <1>5, <1>6
  <2> QED
    BY <1>2, <1>3, <2>1, <2>2 DEF Ledger!Withhold, Ledger!Advance
<1>7. CASE target = "ACTIVE"
  <2>1. Withheld[d]
    BY <1>3, <1>4, <1>7 DEF Withheld, Draw
  <2>2. Withheld' = [Withheld EXCEPT ![d] = FALSE]
    BY <1>5, <1>7
  <2> QED
    BY <1>2, <1>3, <2>1, <2>2 DEF Ledger!Release, Ledger!Advance
<1> QED
  BY <1>6, <1>7

(* Every step maps to a step of the ledger or to a stutter.                *)
LEMMA StepMaps == Sound /\ [Next]_vars => [Ledger!LedgerNext]_(Ledger!ledgerVars)
<1> SUFFICES ASSUME Sound, [Next]_vars
             PROVE  [Ledger!LedgerNext]_(Ledger!ledgerVars)
  OBVIOUS
<1>1. CASE Publishing
  <2>1. PICK a \in Admins, r \in Revisions, flag \in BOOLEAN : Publish(a, r, flag)
    BY <1>1 DEF Publishing
  <2>2. rev[r].draw \in Draws
    BY <2>1 DEF Publish, MayPublish, Sound, Inv, RowsAreWhole
  <2> QED
    BY <2>1, <2>2, PublishEnters DEF Ledger!LedgerNext
<1>2. ASSUME NEW a \in Admins, NEW d \in Draws, NEW target \in {"ACTIVE", "SUSPENDED"},
             SetVisibility(a, d, target)
      PROVE  Ledger!LedgerNext
  BY <1>2, VisibilityWithholds DEF Ledger!LedgerNext
<1>3. ASSUME NEW a \in Admins, NEW u \in Rules, RevokeRule(a, u)
      PROVE  Ledger!LedgerNext
  <2>1. \A x \in Draws : EntriesOf(x)' = EntriesOf(x)
    BY <1>3, EntriesStay DEF RevokeRule
  <2>2. Withheld' = Withheld
    BY <1>3 DEF RevokeRule, Withheld
  <2>3. RuleLottery[u] \in Lotteries
    BY CatalogueAssumption
  <2>4. Ledger!Disqualify(RuleLottery[u])
    BY <1>3, <2>1, <2>2 DEF RevokeRule, Ledger!Disqualify, Ledger!Advance
  <2> QED
    BY <2>3, <2>4 DEF Ledger!LedgerNext
<1>4. CASE /\ ~Publishing
           /\ ~ \E a \in Admins, u \in Rules : RevokeRule(a, u)
           /\ ~ \E a \in Admins, d \in Draws, target \in {"ACTIVE", "SUSPENDED"} :
                  SetVisibility(a, d, target)
  <2>1. Quiet /\ published' = published
    BY <1>4, QuietSteps, TrailStays
  <2>2. \A x \in Draws : EntriesOf(x)' = EntriesOf(x)
    BY <2>1, EntriesStay
  <2>3. Withheld' = Withheld
    BY <2>1 DEF Quiet, Withheld
  <2> QED
    BY <2>1, <2>2, <2>3 DEF Quiet, Ledger!ledgerVars
<1> QED
  BY <1>1, <1>2, <1>3, <1>4

(* The pipeline implements the ledger: a published result is never altered *)
(* or removed, suspension withholds it and nothing else, and the dataset   *)
(* version moves with every change a reader can see.                       *)
THEOREM PipelineImplementsLedger == Spec => ImplementsLedger
<1>1. Init => Ledger!LedgerInit
  <2> SUFFICES ASSUME Init
               PROVE  Ledger!LedgerInit
    OBVIOUS
  <2>1. \A d \in Draws : published[d] = <<>> /\ draw[d].visibility = "ACTIVE"
    BY DEF Init, NoDraw
  <2>2. \A d \in Draws : EntriesOf(d) = <<>>
    BY <2>1 DEF EntriesOf
  <2>3. Withheld = [d \in Draws |-> FALSE]
    BY <2>1 DEF Withheld
  <2> QED
    BY <2>2, <2>3 DEF Init, Ledger!LedgerInit
<1> QED
  BY <1>1, StepMaps, SoundIsInvariant, PTL DEF Spec, ImplementsLedger, Ledger!LedgerSpec

-----------------------------------------------------------------------------
(* What readers are given.                                                 *)

(* A step that leaves the result of a draw leaves its dates, and does not  *)
(* cancel it.                                                              *)
KeepsDates(d) ==
    /\ draw'[d].current = draw[d].current
    /\ draw[d].current # Nil => /\ draw'[d].dates = draw[d].dates
                                /\ draw'[d].phase = draw[d].phase \/ draw'[d].phase # "CANCELLED"

(* A step that publishes a revision gives its dates to the draw.           *)
TakesDates(d) ==
    \E r \in Revisions : /\ IsPublished(r)
                         /\ draw'[d].current = r
                         /\ draw'[d].dates = rev[r].dates
                         /\ draw'[d].phase = "HELD"

(* There is no third way: createDraw and patchDraw leave published draws   *)
(* their dates and everything else only counts.                            *)
LEMMA DatesMove ==
    ASSUME TypeOK, RowsAreWhole, CurrentIsPublished, [Next]_vars, NEW d \in Draws
    PROVE  KeepsDates(d) \/ TakesDates(d)
<1>1. draw[d] \in Draw
  BY DEF TypeOK
<1>2. CASE draw'[d] = draw[d]
  BY <1>2 DEF KeepsDates
<1>3. ASSUME NEW x \in Draws, NEW phase \in Phases, NEW dates \in Dates, CreateDraw(x, phase, dates)
      PROVE  KeepsDates(d)
  <2>1. draw[x].current = Nil
    BY <1>3 DEF CreateDraw, RowsAreWhole, NoDraw
  <2> QED
    BY <1>1, <1>3, <2>1 DEF CreateDraw, KeepsDates, TypeOK, Draw
<1>4. ASSUME NEW a \in Admins, NEW x \in Draws, NEW phase \in Phases \cup {Nil},
             NEW dates \in DrawDates \cup {Nil}, PatchDraw(a, x, phase, dates)
      PROVE  KeepsDates(d)
  <2>1. CASE x = d
    <3>1. /\ draw'[d].phase = IF phase = Nil THEN draw[d].phase ELSE phase
          /\ draw'[d].dates = IF dates = Nil THEN draw[d].dates ELSE dates
          /\ draw'[d].current = draw[d].current
      BY <1>1, <1>4, <2>1 DEF PatchDraw, TypeOK, Draw
    <3> QED
      BY <1>4, <2>1, <3>1 DEF PatchDraw, MayPatchDraw, KeepsDates
  <2>2. CASE x # d
    BY <1>2, <1>4, <2>2 DEF PatchDraw, TypeOK, KeepsDates
  <2> QED
    BY <2>1, <2>2
<1>5. ASSUME NEW r \in Revisions, NEW x, NEW row, InsertDraft(r, x, row)
      PROVE  KeepsDates(d)
  BY <1>1, <1>5 DEF InsertDraft, KeepsDates, TypeOK, Draw
<1>6. ASSUME NEW a \in Admins, NEW x \in Draws, NEW target \in {"ACTIVE", "SUSPENDED"},
             SetVisibility(a, x, target)
      PROVE  KeepsDates(d)
  BY <1>1, <1>6 DEF SetVisibility, KeepsDates, TypeOK, Draw
<1>7. ASSUME NEW a \in Admins, NEW r \in Revisions, NEW flag \in BOOLEAN, Publish(a, r, flag)
      PROVE  KeepsDates(d) \/ TakesDates(d)
  <2>1. draw' = [draw EXCEPT ![rev[r].draw] = PublishedDraw(r, flag)]
    BY <1>7 DEF Publish
  <2>2. CASE rev[r].draw = d
    <3>1. draw'[d] = PublishedDraw(r, flag)
      BY <2>1, <2>2 DEF TypeOK
    <3>2. /\ draw'[d].phase = "HELD" /\ draw'[d].dates = rev[r].dates
          /\ draw'[d].current = r
      BY <1>1, <2>2, <3>1 DEF PublishedDraw, Draw
    <3>3. rev'[r] = [rev[r] EXCEPT !.workflow = "PUBLISHED", !.publishedBy = a,
                                   !.editVersion = @ + 1]
      BY <1>7 DEF Publish
    <3>4. IsPublished(r)
      BY <1>7, <2>2, <3>2, <3>3 DEF Publish, MayPublish, ReplacesExpected, IsPublished
    <3> QED
      BY <3>2, <3>4 DEF TakesDates
  <2>3. CASE rev[r].draw # d
    BY <1>2, <2>1, <2>3 DEF TypeOK
  <2> QED
    BY <2>2, <2>3
<1>8. CASE CatalogueStep
  BY <1>2, <1>3, <1>4, <1>8 DEF CatalogueStep, CreateRule, ApproveRule, RevokeRule
<1>9. CASE ImportStep
  BY <1>2, <1>5, <1>9 DEF ImportStep, Preview, CreateDraft
<1>10. CASE RevisionStep
  BY <1>2, <1>5, <1>6, <1>7, <1>10 DEF RevisionStep, CreateCorrection, Patch, Reopen, Review
<1>11. CASE PageStep \/ UNCHANGED vars
  BY <1>2, <1>11 DEF PageStep, LoadDraw, LoadRevision, vars
<1> QED
  BY <1>8, <1>9, <1>10, <1>11 DEF Next

(* The revision a draw shows keeps its dates: published rows only retire.  *)
LEMMA StepDates ==
    Sound /\ PublishedDrawKeepsReviewedDates /\ [Next]_vars => PublishedDrawKeepsReviewedDates'
<1> SUFFICES ASSUME Sound, PublishedDrawKeepsReviewedDates, [Next]_vars, NEW d \in Draws,
                    draw'[d].current # Nil
             PROVE  /\ draw'[d].dates = rev'[draw'[d].current].dates
                    /\ draw'[d].phase # "CANCELLED"
  BY DEF PublishedDrawKeepsReviewedDates
<1>1. TypeOK /\ RowsAreWhole /\ CurrentIsPublished
  BY DEF Sound, Inv
<1>2. CASE KeepsDates(d)
  <2>1. draw[d].current \in Revisions /\ rev[draw[d].current].workflow = "PUBLISHED"
    BY <1>1, <1>2 DEF KeepsDates, CurrentIsPublished, TypeOK, Draw
  <2>2. rev[draw[d].current] \in Revision
    BY <1>1, <2>1 DEF TypeOK
  <2>3. rev'[draw[d].current].dates = rev[draw[d].current].dates
    BY <1>1, <2>1, <2>2, PublishedRowsStay DEF IsRetired, Revision
  <2> QED
    BY <1>2, <2>3 DEF KeepsDates, PublishedDrawKeepsReviewedDates
<1>3. CASE TakesDates(d)
  <2>1. PICK r \in Revisions : /\ IsPublished(r) /\ draw'[d].current = r
                               /\ draw'[d].dates = rev[r].dates /\ draw'[d].phase = "HELD"
    BY <1>3 DEF TakesDates
  <2>2. rev[r] \in Revision
    BY <1>1 DEF TypeOK
  <2>3. rev'[r].dates = rev[r].dates
    BY <2>1, <2>2 DEF IsPublished, Revision
  <2> QED
    BY <2>1, <2>3
<1> QED
  BY <1>1, <1>2, <1>3, DatesMove

LEMMA DatesAreInvariant == Spec => [](Sound /\ PublishedDrawKeepsReviewedDates)
<1>1. Init => PublishedDrawKeepsReviewedDates
  BY DEF Init, PublishedDrawKeepsReviewedDates, NoDraw
<1> QED
  BY <1>1, StepDates, SoundIsInvariant, PTL DEF Spec

(* A published draw has the dates that were reviewed with its result, and  *)
(* is not cancelled, however patchDraw is called.                          *)
THEOREM ReviewedDatesStand == Spec => []PublishedDrawKeepsReviewedDates
  BY DatesAreInvariant, PTL

-----------------------------------------------------------------------------
(* The read side and the ledger.                                           *)

LEMMA ReadersFollow == Sound /\ PublishedDrawKeepsReviewedDates => ReadersSeeTheLedger
<1> SUFFICES ASSUME Sound, PublishedDrawKeepsReviewedDates, NEW d \in Draws
             PROVE  PublicResult(d) = Ledger!Shown(d)
  BY DEF ReadersSeeTheLedger
<1> DEFINE n == Len(published[d])
           f == EntriesOf(d)
<1>1. published[d] \in Seq(Revisions) /\ n \in Nat
  BY EnteredRows
<1>2. draw[d].current = IF n = 0 THEN Nil ELSE published[d][n]
  BY DEF Sound, PublicationsFormAChain
<1>3. DOMAIN f = 1..n /\ Len(f) = n
  BY <1>1 DEF EntriesOf
<1>4. Ledger!Shown(d) = IF draw[d].visibility = "SUSPENDED" \/ f = <<>> THEN Nil ELSE f[n]
  BY <1>3 DEF Ledger!Shown, Withheld
<1>5. CASE n = 0
  BY <1>2, <1>3, <1>4, <1>5 DEF PublicResult, EntriesOf
<1>6. CASE n # 0
  <2>1. n \in 1..n /\ f # <<>>
    BY <1>1, <1>3, <1>6
  <2>2. published[d][n] \in Revisions /\ draw[d].current = published[d][n]
    BY <1>1, <1>2, <1>6, <2>1
  <2>3. f[n] = [revision |-> draw[d].current, content |-> Hash(rev[draw[d].current])]
    BY <2>1, <2>2 DEF EntriesOf
  <2>4. draw[d].current # Nil
    BY <2>2, IdentifierAssumption
  <2>5. draw[d].phase # "CANCELLED" /\ rev[draw[d].current].workflow = "PUBLISHED"
    BY <2>4 DEF Sound, Inv, CurrentIsPublished, PublishedDrawKeepsReviewedDates
  <2>6. draw[d].visibility \in {"ACTIVE", "SUSPENDED"}
    BY DEF Sound, Inv, TypeOK, Draw
  <2> QED
    BY <1>4, <2>1, <2>3, <2>4, <2>5, <2>6 DEF PublicResult
<1> QED
  BY <1>5, <1>6

(* The read side shows what the ledger shows: a withheld draw nothing,     *)
(* every other draw its last published result.                             *)
THEOREM ReadersAreShownTheLedger == Spec => []ReadersSeeTheLedger
  BY DatesAreInvariant, ReadersFollow, PTL

-----------------------------------------------------------------------------
(* The dataset version.  What statistics count of a draw depends on its    *)
(* row, on its current revision and on that revision's rule, so it has to  *)
(* be known that the rule is one of the draw's own lottery, and that it    *)
(* cannot become approved a second time.                                   *)

Ruled(u, d) ==
    rule[u] \in {"APPROVED", "REVOKED"} /\ RuleLottery[u] = LotteryOf[d]

RulesFit ==
    /\ \A r \in Revisions : rev[r].workflow # "ABSENT" => Ruled(rev[r].rule, rev[r].draw)
    /\ \A b \in Batches : batch[b].status = "PREVIEW_READY" => Ruled(batch[b].rule, batch[b].draw)

(* A rule once approved stays approved or is revoked.                      *)
LEMMA RulesSettle ==
    ASSUME TypeOK, [Next]_vars, NEW u \in Rules, NEW d \in Draws, Ruled(u, d)
    PROVE  Ruled(u, d)'
<1>1. CASE UNCHANGED rule
  BY <1>1 DEF Ruled
<1>2. CASE CatalogueStep
  BY <1>1, <1>2 DEF CatalogueStep, CreateDraw, PatchDraw, CreateRule, ApproveRule, RevokeRule,
                    Ruled, TypeOK
<1>3. CASE ImportStep
  BY <1>1, <1>3 DEF ImportStep, Preview, CreateDraft
<1>4. CASE RevisionStep
  BY <1>1, <1>4, RevisionKeeps
<1>5. CASE PageStep \/ UNCHANGED vars
  BY <1>1, <1>5 DEF PageStep, LoadDraw, LoadRevision, vars
<1> QED
  BY <1>2, <1>3, <1>4, <1>5 DEF Next

(* A row is inserted with the rule of a batch or of the current revision.  *)
LEMMA InsertedRules ==
    ASSUME Inv, RulesFit, [Next]_vars, NEW r \in Revisions,
           rev[r].workflow = "ABSENT", rev'[r].workflow # "ABSENT"
    PROVE  rev'[r].rule \in Rules /\ rev'[r].draw \in Draws /\ Ruled(rev'[r].rule, rev'[r].draw)
<1> DEFINE Goal == /\ rev'[r].rule \in Rules /\ rev'[r].draw \in Draws
                   /\ Ruled(rev'[r].rule, rev'[r].draw)
<1>1. TypeOK /\ RowsAreWhole /\ CurrentIsPublished /\ rev[r] \in Revision
  BY DEF Inv, TypeOK
<1>2. rev'[r] # rev[r]
  OBVIOUS
<1>3. ASSUME NEW x \in Revisions, NEW a, NEW d \in Draws, NEW u \in Rules, NEW kind, NEW dates,
             NEW payload, Ruled(u, d), InsertDraft(x, d, NewDraft(a, d, u, kind, dates, payload))
      PROVE  Goal
  <2>1. x = r
    BY <1>1, <1>2, <1>3 DEF InsertDraft, TypeOK
  <2>2. rev'[r] = NewDraft(a, d, u, kind, dates, payload)
    BY <1>1, <1>3, <2>1 DEF InsertDraft, TypeOK
  <2>3. rev'[r].rule = u /\ rev'[r].draw = d
    BY <2>2 DEF NewDraft, NoRevision
  <2> QED
    BY <1>3, <2>3
<1>4. ASSUME NEW a \in Admins, NEW b \in Batches, NEW x \in Revisions, CreateDraft(a, b, x)
      PROVE  Goal
  <2>1. batch[b].status = "PREVIEW_READY"
    BY <1>4 DEF CreateDraft
  <2>2. batch[b].draw \in Draws /\ batch[b].rule \in Rules /\ Ruled(batch[b].rule, batch[b].draw)
    BY <1>1, <2>1 DEF RowsAreWhole, RulesFit
  <2> HIDE DEF Goal
  <2> QED
    BY <1>3, <1>4, <2>2 DEF CreateDraft
<1>5. ASSUME NEW a \in Admins, NEW d \in Draws, NEW x \in Revisions, CreateCorrection(a, d, x)
      PROVE  Goal
  <2>1. /\ draw[d].current \in Revisions /\ rev[draw[d].current].draw = d
        /\ rev[draw[d].current].workflow = "PUBLISHED"
    BY <1>1, <1>5 DEF CreateCorrection, CurrentIsPublished, TypeOK, Draw
  <2>2. rev[draw[d].current].rule \in Rules /\ Ruled(rev[draw[d].current].rule, d)
    BY <1>1, <2>1 DEF RowsAreWhole, RulesFit
  <2> HIDE DEF Goal
  <2> QED
    BY <1>3, <1>5, <2>2 DEF CreateCorrection
<1> HIDE DEF Goal
<1>6. CASE CatalogueStep \/ PageStep \/ UNCHANGED vars
  BY <1>2, <1>6 DEF CatalogueStep, PageStep, vars, CreateDraw, PatchDraw, CreateRule,
                    ApproveRule, RevokeRule, LoadDraw, LoadRevision
<1>7. CASE ImportStep
  BY <1>2, <1>4, <1>7 DEF ImportStep, Preview, Goal
<1>8. ASSUME NEW a \in Admins, NEW x \in Revisions, NEW flag \in BOOLEAN, Publish(a, x, flag)
      PROVE  FALSE
  BY <1>2, <1>8 DEF Publish, MayPublish, Retired
<1>9. CASE RevisionStep
  <2>1. ASSUME NEW a \in Admins, NEW x \in Revisions, NEW dates \in Dates, NEW payload \in Payloads,
               Patch(a, x, dates, payload)
        PROVE  FALSE
    BY <1>1, <1>2, <2>1 DEF Patch, Editable, TypeOK
  <2>2. ASSUME NEW a \in Admins, NEW x \in Revisions, Reopen(a, x)
        PROVE  FALSE
    BY <1>1, <1>2, <2>2 DEF Reopen, TypeOK
  <2>3. ASSUME NEW a \in Admins, NEW x \in Revisions, NEW flag \in BOOLEAN, Review(a, x, flag)
        PROVE  FALSE
    BY <1>1, <1>2, <2>3 DEF Review, TypeOK
  <2>4. ASSUME NEW a \in Admins, NEW d \in Draws, NEW target \in {"ACTIVE", "SUSPENDED"},
               SetVisibility(a, d, target)
        PROVE  FALSE
    BY <1>2, <2>4 DEF SetVisibility
  <2> QED
    BY <1>5, <1>8, <1>9, <2>1, <2>2, <2>3, <2>4 DEF RevisionStep, Goal
<1> QED
  BY <1>6, <1>7, <1>9 DEF Next

(* A preview that is ready was made with an approved rule of its lottery.  *)
LEMMA ReadyRules ==
    ASSUME Inv, [Next]_vars, NEW b \in Batches, batch'[b].status = "PREVIEW_READY"
    PROVE  batch'[b] = batch[b] \/ Ruled(batch'[b].rule, batch'[b].draw)
<1>1. TypeOK
  BY DEF Inv
<1>2. CASE UNCHANGED batch
  BY <1>2
<1>3. ASSUME NEW x \in Batches, NEW d \in Draws, NEW u \in Rules, NEW kind \in Kinds,
             NEW payload \in Payloads, Preview(x, d, u, kind, payload)
      PROVE  batch'[b] = batch[b] \/ Ruled(batch'[b].rule, batch'[b].draw)
  <2>1. CASE x # b
    BY <1>1, <1>3, <2>1 DEF Preview, TypeOK
  <2>2. CASE x = b /\ ValidImport(d, u, kind, payload)
    <3>1. batch'[b].rule = u /\ batch'[b].draw = d
      BY <1>1, <1>3, <2>2 DEF Preview, TypeOK
    <3> QED
      BY <2>2, <3>1 DEF ValidImport, Ruled
  <2>3. CASE x = b /\ ~ValidImport(d, u, kind, payload)
    BY <1>1, <1>3, <2>3 DEF Preview, TypeOK, NoBatch
  <2> QED
    BY <2>1, <2>2, <2>3
<1>4. ASSUME NEW a \in Admins, NEW x \in Batches, NEW r \in Revisions, CreateDraft(a, x, r)
      PROVE  batch'[b] = batch[b]
  BY <1>1, <1>4 DEF CreateDraft, TypeOK, Batch
<1>5. CASE ImportStep
  BY <1>3, <1>4, <1>5 DEF ImportStep
<1>6. CatalogueStep => UNCHANGED batch
  BY DEF CatalogueStep, CreateDraw, PatchDraw, CreateRule, ApproveRule, RevokeRule
<1>7. PageStep \/ UNCHANGED vars => UNCHANGED batch
  BY DEF PageStep, LoadDraw, LoadRevision, vars
<1> QED
  BY <1>2, <1>5, <1>6, <1>7, RevisionKeeps DEF Next

LEMMA StepRules == Inv /\ RulesFit /\ [Next]_vars => RulesFit'
<1> SUFFICES ASSUME Inv, RulesFit, [Next]_vars
             PROVE  RulesFit'
  OBVIOUS
<1>1. TypeOK /\ RowsAreWhole /\ CurrentIsPublished
  BY DEF Inv
<1>2. ASSUME NEW r \in Revisions, rev'[r].workflow # "ABSENT"
      PROVE  Ruled(rev[r].rule, rev[r].draw)' 
  <2>1. CASE rev[r].workflow = "ABSENT"
    BY <1>1, <1>2, <2>1, InsertedRules, RulesSettle
  <2>2. CASE rev[r].workflow # "ABSENT"
    <3>1. rev'[r].rule = rev[r].rule /\ rev'[r].draw = rev[r].draw
      BY <1>1, <2>2, IdentityStays DEF IsInserted
    <3>2. rev[r].rule \in Rules /\ rev[r].draw \in Draws /\ Ruled(rev[r].rule, rev[r].draw)
      BY <1>1, <2>2 DEF RowsAreWhole, RulesFit
    <3> QED
      BY <1>1, <3>1, <3>2, RulesSettle DEF Ruled
  <2> QED
    BY <2>1, <2>2
<1>3. ASSUME NEW b \in Batches, batch'[b].status = "PREVIEW_READY"
      PROVE  Ruled(batch[b].rule, batch[b].draw)'
  <2>1. batch'[b].rule \in Rules /\ batch'[b].draw \in Draws
    BY <1>1, <1>3, BatchesStay DEF RowsAreWhole
  <2>2. Ruled(batch'[b].rule, batch'[b].draw)
    BY <1>1, <1>3, ReadyRules DEF RulesFit
  <2> QED
    BY <1>1, <2>1, <2>2, RulesSettle DEF Ruled
<1> QED
  BY <1>2, <1>3 DEF RulesFit

-----------------------------------------------------------------------------
(* Who moves what is counted, and what moves the version.                  *)

Advances(l) == dataset'[l] > dataset[l]

LEMMA VersionsGrow ==
    ASSUME Sound, [Next]_vars, NEW l \in Lotteries
    PROVE  dataset'[l] >= dataset[l]
<1>1. dataset[l] \in Nat /\ dataset \in [Lotteries -> Nat]
  BY DEF Sound, Inv, TypeOK
<1>2. CASE UNCHANGED dataset
  BY <1>1, <1>2
<1>3. ASSUME NEW m, dataset' = [dataset EXCEPT ![m] = @ + 1]
      PROVE  dataset'[l] >= dataset[l]
  BY <1>1, <1>3
<1>4. ASSUME Publishing
      PROVE  dataset'[l] >= dataset[l]
  <2>1. \E m : dataset' = [dataset EXCEPT ![m] = @ + 1]
    BY <1>4 DEF Publishing, Publish
  <2> QED
    BY <1>3, <2>1
<1>5. ASSUME NEW a \in Admins, NEW d \in Draws, NEW target \in {"ACTIVE", "SUSPENDED"},
             SetVisibility(a, d, target)
      PROVE  dataset'[l] >= dataset[l]
  BY <1>3, <1>5 DEF SetVisibility
<1>6. ASSUME NEW a \in Admins, NEW u \in Rules, RevokeRule(a, u)
      PROVE  dataset'[l] >= dataset[l]
  BY <1>3, <1>6 DEF RevokeRule
<1> QED
  BY <1>2, <1>4, <1>5, <1>6, QuietSteps DEF Quiet

(* A rule of the draw's lottery stays as it is, or the version advances.   *)
LEMMA RuleMoves ==
    ASSUME Sound, [Next]_vars, NEW u \in Rules, NEW d \in Draws, Ruled(u, d)
    PROVE  rule'[u] = rule[u] \/ Advances(LotteryOf[d])
<1>1. TypeOK /\ LotteryOf[d] \in Lotteries
  BY CatalogueAssumption DEF Sound, Inv
<1>2. CASE UNCHANGED rule
  BY <1>2
<1>3. ASSUME NEW a \in Admins, NEW x \in Rules, RevokeRule(a, x)
      PROVE  rule'[u] = rule[u] \/ Advances(LotteryOf[d])
  <2>1. CASE x = u
    <3>1. dataset' = [dataset EXCEPT ![LotteryOf[d]] = @ + 1]
      BY <1>3, <2>1 DEF RevokeRule, Ruled
    <3> QED
      BY <1>1, <3>1 DEF Advances, TypeOK
  <2>2. CASE x # u
    BY <1>1, <1>3, <2>2 DEF RevokeRule, TypeOK
  <2> QED
    BY <2>1, <2>2
<1>4. ASSUME NEW x \in Rules, CreateRule(x) \/ \E a \in Admins : ApproveRule(a, x)
      PROVE  rule'[u] = rule[u]
  BY <1>1, <1>4 DEF CreateRule, ApproveRule, Ruled, TypeOK
<1>5. CASE CatalogueStep
  BY <1>2, <1>3, <1>4, <1>5 DEF CatalogueStep, CreateDraw, PatchDraw
<1>6. ImportStep => UNCHANGED rule
  BY DEF ImportStep, Preview, CreateDraft
<1>7. PageStep \/ UNCHANGED vars => UNCHANGED rule
  BY DEF PageStep, LoadDraw, LoadRevision, vars
<1> QED
  BY <1>2, <1>5, <1>6, <1>7, RevisionKeeps DEF Next

(* The result of a draw and its visibility stay, or the version advances.  *)
LEMMA ResultMoves ==
    ASSUME Sound, [Next]_vars, NEW d \in Draws
    PROVE  \/ draw'[d].current = draw[d].current /\ draw'[d].visibility = draw[d].visibility
           \/ Advances(LotteryOf[d])
<1> DEFINE Stays == draw'[d].current = draw[d].current /\ draw'[d].visibility = draw[d].visibility
<1>1. TypeOK /\ RowsAreWhole /\ CurrentIsPublished /\ draw[d] \in Draw
      /\ LotteryOf[d] \in Lotteries
  BY CatalogueAssumption DEF Sound, Inv, TypeOK
<1>2. ASSUME dataset' = [dataset EXCEPT ![LotteryOf[d]] = @ + 1]
      PROVE  Advances(LotteryOf[d])
  BY <1>1, <1>2 DEF Advances, TypeOK
<1>3. ASSUME NEW a \in Admins, NEW r \in Revisions, NEW flag \in BOOLEAN, Publish(a, r, flag)
      PROVE  Stays \/ Advances(LotteryOf[d])
  <2>1. CASE rev[r].draw = d
    BY <1>2, <1>3, <2>1 DEF Publish
  <2>2. CASE rev[r].draw # d
    BY <1>1, <1>3, <2>2 DEF Publish, TypeOK
  <2> QED
    BY <2>1, <2>2
<1>4. ASSUME NEW a \in Admins, NEW x \in Draws, NEW target \in {"ACTIVE", "SUSPENDED"},
             SetVisibility(a, x, target)
      PROVE  Stays \/ Advances(LotteryOf[d])
  <2>1. CASE x = d
    BY <1>2, <1>4, <2>1 DEF SetVisibility
  <2>2. CASE x # d
    BY <1>1, <1>4, <2>2 DEF SetVisibility, TypeOK
  <2> QED
    BY <2>1, <2>2
<1>5. ASSUME NEW a \in Admins, NEW u \in Rules, RevokeRule(a, u)
      PROVE  Stays
  BY <1>5 DEF RevokeRule
<1>6. CASE /\ ~Publishing
           /\ ~ \E a \in Admins, u \in Rules : RevokeRule(a, u)
           /\ ~ \E a \in Admins, x \in Draws, target \in {"ACTIVE", "SUSPENDED"} :
                  SetVisibility(a, x, target)
  <2>1. Quiet
    BY <1>6, QuietSteps
  <2>2. draw'[d].current = draw[d].current
    BY <1>1, <1>6, DrawRows DEF DrawStays
  <2> QED
    BY <2>1, <2>2 DEF Quiet
<1> HIDE DEF Stays
<1>7. CASE Publishing
  BY <1>3, <1>7 DEF Publishing, Stays
<1> QED
  BY <1>4, <1>5, <1>6, <1>7 DEF Stays

(* What statistics count of a draw.                                        *)
Counts(d) == PublicResult(d) # Nil /\ rule[rev[draw[d].current].rule] = "APPROVED"

(* The invariant of this part.                                             *)
Counted == Sound /\ PublishedDrawKeepsReviewedDates /\ RulesFit

LEMMA CountStays ==
    ASSUME Counted, Counted', [Next]_vars, NEW d \in Draws, ~Advances(LotteryOf[d])
    PROVE  /\ Counts(d)' <=> Counts(d)
           /\ Counts(d) => /\ draw'[d].current = draw[d].current
                           /\ draw'[d].dates = draw[d].dates
<1>1. Sound /\ TypeOK /\ RowsAreWhole /\ CurrentIsPublished
  BY DEF Counted, Sound, Inv
<1>2. draw'[d].current = draw[d].current /\ draw'[d].visibility = draw[d].visibility
  BY <1>1, ResultMoves
<1> DEFINE c == draw[d].current
<1>3. CASE c = Nil
  BY <1>2, <1>3 DEF Counts, PublicResult
<1>4. CASE c # Nil
  <2>1. /\ c \in Revisions /\ rev[c].workflow = "PUBLISHED" /\ rev[c].draw = d
        /\ rev[c] \in Revision
    BY <1>1, <1>4 DEF CurrentIsPublished, TypeOK, Draw
  <2>2. rev'[c].workflow = "PUBLISHED"
    BY <1>2, <1>4 DEF Counted, Sound, Inv, CurrentIsPublished
  <2>3. rev'[c] = rev[c]
    BY <1>1, <2>1, <2>2, PublishedRowsStay DEF IsRetired, Revision
  <2>4. rev[c].rule \in Rules /\ Ruled(rev[c].rule, d)
    BY <1>1, <2>1 DEF RowsAreWhole, Counted, RulesFit
  <2>5. rule'[rev[c].rule] = rule[rev[c].rule]
    BY <1>1, <2>4, RuleMoves
  <2>6. /\ draw[d].phase # "CANCELLED" /\ draw'[d].phase # "CANCELLED"
        /\ draw[d].dates = rev[c].dates /\ draw'[d].dates = rev'[c].dates
    BY <1>2, <1>4 DEF Counted, PublishedDrawKeepsReviewedDates
  <2>7. PublicResult(d)' = PublicResult(d)
    BY <1>2, <2>3, <2>6 DEF PublicResult, Hash
  <2> QED
    BY <1>2, <2>3, <2>5, <2>6, <2>7 DEF Counts
<1> QED
  BY <1>3, <1>4

(* A set of draws counted alike before and after is counted the same.      *)
LEMMA EligibleStays ==
    ASSUME Counted, Counted', [Next]_vars, NEW l \in Lotteries, ~Advances(l)
    PROVE  Eligible(l)' = Eligible(l)
<1> DEFINE S == {x \in Draws : LotteryOf[x] = l /\ Counts(x)}
           T == {x \in Draws : LotteryOf[x] = l /\ Counts(x)'}
<1>1. /\ S = T
      /\ \A x \in S : draw'[x].current = draw[x].current /\ draw'[x].dates = draw[x].dates
  BY CountStays
<1>2. Eligible(l) = {<<x, draw[x].current, draw[x].dates>> : x \in S}
  BY DEF Eligible, Counts
<1>3. Eligible(l)' = {<<x, draw'[x].current, draw'[x].dates>> : x \in T}
  BY DEF Eligible, Counts
<1> HIDE DEF S, T
<1> QED
  BY <1>1, <1>2, <1>3

LEMMA CountedIsInvariant == Spec => []Counted
<1>1. Init => RulesFit
  BY DEF Init, RulesFit, NoRevision, NoBatch
<1>2. Sound /\ RulesFit /\ [Next]_vars => RulesFit'
  BY StepRules DEF Sound
<1> QED
  BY <1>1, <1>2, DatesAreInvariant, PTL DEF Spec, Counted

(* Whenever the statistics of a lottery could count something else, its    *)
(* dataset version is another one, and versions never go back: an answer   *)
(* kept with its version is never taken for that of other results.         *)
THEOREM VersionsTellResultsApart == Spec => DatasetVersionTracksEligible
<1> DEFINE Tracks(l) == /\ dataset'[l] >= dataset[l]
                        /\ Eligible(l)' # Eligible(l) => dataset'[l] > dataset[l]
<1>1. ASSUME Counted, Counted', [Next]_vars, NEW l \in Lotteries
      PROVE  Tracks(l)
  BY <1>1, VersionsGrow, EligibleStays DEF Counted, Advances
<1>2. Counted /\ Counted' /\ [Next]_vars => [\A l \in Lotteries : Tracks(l)]_vars
  BY <1>1
<1> QED
  BY <1>2, CountedIsInvariant, PTL DEF Spec, DatasetVersionTracksEligible

-----------------------------------------------------------------------------
(* What administrators decide on.  A page says of a row what it said at    *)
(* some version; a row whose version is still that one has not changed in  *)
(* what the page says of it, for every handler that changes it advances    *)
(* the version.                                                            *)

(* A page is no newer than its rows, and exact if it is as new.            *)
PagesAreHonest ==
    \A a \in Admins :
        /\ seen[a].draw # Nil =>
              /\ seen[a].draw \in Draws
              /\ seen[a].drawVersion <= draw[seen[a].draw].editVersion
              /\ seen[a].drawVersion = draw[seen[a].draw].editVersion =>
                    seen[a].current = draw[seen[a].draw].current
        /\ seen[a].revision # Nil =>
              /\ seen[a].revision \in Revisions
              /\ rev[seen[a].revision].workflow # "ABSENT"
              /\ seen[a].revisionVersion <= rev[seen[a].revision].editVersion
              /\ seen[a].revisionVersion = rev[seen[a].revision].editVersion =>
                    seen[a].hash = rev[seen[a].revision].contentHash

(* The version of a draw never goes back, and advances with its pointer.   *)
LEMMA DrawVersions ==
    ASSUME TypeOK, RowsAreWhole, [Next]_vars, NEW d \in Draws
    PROVE  /\ draw'[d].editVersion >= draw[d].editVersion
           /\ \/ draw'[d].current = draw[d].current
              \/ draw'[d].editVersion > draw[d].editVersion
<1> DEFINE Goal == /\ draw'[d].editVersion >= draw[d].editVersion
                   /\ \/ draw'[d].current = draw[d].current
                      \/ draw'[d].editVersion > draw[d].editVersion
<1>1. draw[d] \in Draw /\ draw[d].editVersion \in Nat
  BY DEF TypeOK, Draw
<1>2. CASE draw'[d] = draw[d]
  BY <1>1, <1>2
<1>3. ASSUME NEW x \in Draws, NEW phase \in Phases, NEW dates \in Dates, CreateDraw(x, phase, dates)
      PROVE  Goal
  BY <1>1, <1>3 DEF CreateDraw, TypeOK, Draw
<1>4. ASSUME NEW a \in Admins, NEW x \in Draws, NEW phase \in Phases \cup {Nil},
             NEW dates \in DrawDates \cup {Nil}, PatchDraw(a, x, phase, dates)
      PROVE  Goal
  BY <1>1, <1>4 DEF PatchDraw, TypeOK, Draw
<1>5. ASSUME NEW r \in Revisions, NEW x, NEW row, InsertDraft(r, x, row)
      PROVE  Goal
  BY <1>1, <1>5 DEF InsertDraft, TypeOK, Draw
<1>6. ASSUME NEW a \in Admins, NEW x \in Draws, NEW target \in {"ACTIVE", "SUSPENDED"},
             SetVisibility(a, x, target)
      PROVE  Goal
  BY <1>1, <1>6 DEF SetVisibility, TypeOK, Draw
<1>7. ASSUME NEW a \in Admins, NEW r \in Revisions, NEW flag \in BOOLEAN, Publish(a, r, flag)
      PROVE  Goal
  <2>1. draw' = [draw EXCEPT ![rev[r].draw] = PublishedDraw(r, flag)]
    BY <1>7 DEF Publish
  <2>2. CASE rev[r].draw = d
    BY <1>1, <2>1, <2>2 DEF PublishedDraw, TypeOK, Draw
  <2>3. CASE rev[r].draw # d
    BY <1>2, <2>1, <2>3 DEF TypeOK
  <2> QED
    BY <2>2, <2>3
<1> HIDE DEF Goal
<1>8. CASE CatalogueStep
  BY <1>2, <1>3, <1>4, <1>8 DEF CatalogueStep, CreateRule, ApproveRule, RevokeRule, Goal
<1>9. CASE ImportStep
  BY <1>2, <1>5, <1>9 DEF ImportStep, Preview, CreateDraft, Goal
<1>10. CASE RevisionStep
  BY <1>2, <1>5, <1>6, <1>7, <1>10 DEF RevisionStep, CreateCorrection, Patch, Reopen, Review, Goal
<1>11. CASE PageStep \/ UNCHANGED vars
  BY <1>2, <1>11 DEF PageStep, LoadDraw, LoadRevision, vars, Goal
<1> QED
  BY <1>8, <1>9, <1>10, <1>11 DEF Next, Goal

(* The version of a revision never goes back, and advances with its        *)
(* content; a row that exists stays.                                       *)
LEMMA RevisionVersions ==
    ASSUME TypeOK, RowsAreWhole, CurrentIsPublished, [Next]_vars, NEW r \in Revisions,
           rev[r].workflow # "ABSENT"
    PROVE  /\ rev'[r].workflow # "ABSENT"
           /\ rev'[r].editVersion >= rev[r].editVersion
           /\ \/ rev'[r].contentHash = rev[r].contentHash
              \/ rev'[r].editVersion > rev[r].editVersion
<1>1. rev[r] \in Revision /\ rev[r].editVersion \in Nat
  BY DEF TypeOK, Revision
<1>2. CASE rev'[r] = rev[r]
  BY <1>1, <1>2
<1>3. CASE IsPatched(r)
  BY <1>1, <1>3 DEF IsPatched, Rehashed, Edited, Revision
<1>4. CASE IsReopened(r)
  BY <1>1, <1>4 DEF IsReopened, Edited, Revision
<1>5. CASE IsReviewed(r)
  BY <1>1, <1>5 DEF IsReviewed, Revision
<1>6. CASE IsPublished(r)
  BY <1>1, <1>6 DEF IsPublished, Revision
<1>7. CASE IsRetired(r)
  BY <1>1, <1>7 DEF IsRetired, Revision
<1>8. ~IsInserted(r)
  BY DEF IsInserted
<1> QED
  BY <1>2, <1>3, <1>4, <1>5, <1>6, <1>7, <1>8, RevisionRows

(* A page stays, is given up, or is loaded anew while the rows stand still.*)
LEMMA PagesMove ==
    ASSUME TypeOK, [Next]_vars, NEW a \in Admins
    PROVE  \/ seen'[a] = seen[a] \/ seen'[a] = NoPage
           \/ UNCHANGED <<draw, rev>> /\ \E d \in Draws : seen'[a] = DrawPage(d)
           \/ /\ UNCHANGED <<draw, rev>>
              /\ \E r \in Revisions : rev[r].workflow # "ABSENT" /\ seen'[a] = RevisionPage(r)
<1>1. ASSUME NEW x \in Admins, Answered(x)
      PROVE  seen'[a] = seen[a] \/ seen'[a] = NoPage
  BY <1>1 DEF Answered, TypeOK
<1>2. CASE UNCHANGED seen
  BY <1>2
<1>3. CASE CatalogueStep \/ ImportStep \/ UNCHANGED vars
  BY <1>1, <1>2, <1>3 DEF CatalogueStep, ImportStep, vars, CreateDraw, PatchDraw,
     CreateRule, ApproveRule, RevokeRule, Preview, CreateDraft
<1>4. CASE RevisionStep
  BY <1>1, <1>2, <1>4, RevisionKeeps
<1>5. CASE PageStep
  BY <1>5 DEF PageStep, LoadDraw, LoadRevision, TypeOK
<1> QED
  BY <1>3, <1>4, <1>5 DEF Next

(* Every step keeps every page honest.                                     *)
LEMMA StepHonest ==
    ASSUME Inv, PagesAreHonest, [Next]_vars
    PROVE  PagesAreHonest'
<1>1. TypeOK /\ RowsAreWhole /\ CurrentIsPublished
  BY DEF Inv
<1> SUFFICES ASSUME NEW a \in Admins
             PROVE  /\ seen'[a].draw # Nil =>
                          /\ seen'[a].draw \in Draws
                          /\ seen'[a].drawVersion <= draw'[seen'[a].draw].editVersion
                          /\ seen'[a].drawVersion = draw'[seen'[a].draw].editVersion =>
                                seen'[a].current = draw'[seen'[a].draw].current
                    /\ seen'[a].revision # Nil =>
                          /\ seen'[a].revision \in Revisions
                          /\ rev'[seen'[a].revision].workflow # "ABSENT"
                          /\ seen'[a].revisionVersion <= rev'[seen'[a].revision].editVersion
                          /\ seen'[a].revisionVersion = rev'[seen'[a].revision].editVersion =>
                                seen'[a].hash = rev'[seen'[a].revision].contentHash
  BY DEF PagesAreHonest
<1>2. /\ \A d \in Draws : draw[d].editVersion \in Nat /\ draw'[d].editVersion \in Nat
      /\ \A r \in Revisions : rev[r].editVersion \in Nat /\ rev'[r].editVersion \in Nat
      /\ seen[a].drawVersion \in Nat /\ seen[a].revisionVersion \in Nat
  BY <1>1, StepType DEF TypeOK, Draw, Revision, Page
<1>3. CASE seen'[a] = seen[a]
  <2>1. ASSUME seen[a].draw # Nil
        PROVE  /\ seen[a].draw \in Draws
               /\ seen[a].drawVersion <= draw'[seen[a].draw].editVersion
               /\ seen[a].drawVersion = draw'[seen[a].draw].editVersion =>
                     seen[a].current = draw'[seen[a].draw].current
    <3> DEFINE d == seen[a].draw
    <3>1. /\ d \in Draws /\ seen[a].drawVersion <= draw[d].editVersion
          /\ seen[a].drawVersion = draw[d].editVersion => seen[a].current = draw[d].current
      BY <2>1 DEF PagesAreHonest
    <3>2. /\ draw'[d].editVersion >= draw[d].editVersion
          /\ draw'[d].current = draw[d].current \/ draw'[d].editVersion > draw[d].editVersion
      BY <1>1, <3>1, DrawVersions
    <3> QED
      BY <1>2, <3>1, <3>2
  <2>2. ASSUME seen[a].revision # Nil
        PROVE  /\ seen[a].revision \in Revisions
               /\ rev'[seen[a].revision].workflow # "ABSENT"
               /\ seen[a].revisionVersion <= rev'[seen[a].revision].editVersion
               /\ seen[a].revisionVersion = rev'[seen[a].revision].editVersion =>
                     seen[a].hash = rev'[seen[a].revision].contentHash
    <3> DEFINE r == seen[a].revision
    <3>1. /\ r \in Revisions /\ rev[r].workflow # "ABSENT" /\ seen[a].revisionVersion <= rev[r].editVersion
          /\ seen[a].revisionVersion = rev[r].editVersion => seen[a].hash = rev[r].contentHash
      BY <2>2 DEF PagesAreHonest
    <3>2. /\ rev'[r].workflow # "ABSENT" /\ rev'[r].editVersion >= rev[r].editVersion
          /\ rev'[r].contentHash = rev[r].contentHash \/ rev'[r].editVersion > rev[r].editVersion
      BY <1>1, <3>1, RevisionVersions
    <3> QED
      BY <1>2, <3>1, <3>2
  <2> QED
    BY <1>3, <2>1, <2>2
<1>4. CASE seen'[a] = NoPage
  BY <1>4 DEF NoPage
<1>5. ASSUME UNCHANGED <<draw, rev>>, NEW d \in Draws, seen'[a] = DrawPage(d)
      PROVE  /\ seen'[a].draw = d /\ seen'[a].revision = Nil
             /\ seen'[a].drawVersion = draw'[d].editVersion /\ seen'[a].current = draw'[d].current
  BY <1>5 DEF DrawPage, NoPage
<1>6. ASSUME UNCHANGED <<draw, rev>>, NEW r \in Revisions, rev[r].workflow # "ABSENT",
             seen'[a] = RevisionPage(r)
      PROVE  /\ seen'[a].draw = rev[r].draw /\ seen'[a].revision = r /\ rev[r].draw \in Draws
             /\ seen'[a].drawVersion = draw'[rev[r].draw].editVersion
             /\ seen'[a].current = draw'[rev[r].draw].current
             /\ seen'[a].revisionVersion = rev'[r].editVersion /\ seen'[a].hash = rev'[r].contentHash
  BY <1>1, <1>6 DEF RevisionPage, DrawPage, NoPage, RowsAreWhole
<1>7. CASE UNCHANGED <<draw, rev>> /\ \E d \in Draws : seen'[a] = DrawPage(d)
  BY <1>2, <1>5, <1>7
<1>8. CASE UNCHANGED <<draw, rev>> /\ \E r \in Revisions : rev[r].workflow # "ABSENT" /\ seen'[a] = RevisionPage(r)
  BY <1>2, <1>6, <1>8
<1> QED
  BY <1>1, <1>3, <1>4, <1>7, <1>8, PagesMove

LEMMA Honesty == Spec => [](Inv /\ PagesAreHonest)
<1>1. Init => PagesAreHonest
  BY DEF Init, PagesAreHonest, NoPage
<1> QED
  BY <1>1, StepHonest, Invariance, PTL DEF Spec

-----------------------------------------------------------------------------
(* Reviews.                                                                *)

LEMMA OnlyReviewReadies ==
    ASSUME Inv, [Next]_vars, NEW r \in Revisions,
           rev[r].workflow = "DRAFT", rev'[r].workflow = "READY"
    PROVE  \E a \in Admins, flag \in BOOLEAN : Review(a, r, flag)
<1>1. TypeOK /\ RowsAreWhole /\ CurrentIsPublished /\ rev[r] \in Revision
  BY DEF Inv, TypeOK
<1>2. rev'[r] # rev[r]
  OBVIOUS
<1>3. CASE CatalogueStep \/ PageStep \/ UNCHANGED vars
  BY <1>2, <1>3 DEF CatalogueStep, PageStep, vars, CreateDraw, PatchDraw, CreateRule,
                    ApproveRule, RevokeRule, LoadDraw, LoadRevision
<1>4. CASE ImportStep
  BY <1>1, <1>2, <1>4, DraftInserts DEF ImportStep, Preview, IsInserted
<1>5. ASSUME NEW a \in Admins, NEW d \in Draws, NEW x \in Revisions, CreateCorrection(a, d, x)
      PROVE  FALSE
  BY <1>1, <1>2, <1>5, DraftInserts DEF IsInserted
<1>6. ASSUME NEW a \in Admins, NEW x \in Revisions, NEW dates \in Dates, NEW payload \in Payloads,
             Patch(a, x, dates, payload)
      PROVE  FALSE
  <2>1. x = r
    BY <1>1, <1>2, <1>6 DEF Patch, TypeOK
  <2>2. rev'[r] = Rehashed(Edited(a, [rev[r] EXCEPT !.dates = dates, !.payload = payload]))
    BY <1>1, <1>6, <2>1 DEF Patch, TypeOK
  <2> QED
    BY <1>1, <2>2 DEF Rehashed, Edited, Revision
<1>7. ASSUME NEW a \in Admins, NEW x \in Revisions, Reopen(a, x)
      PROVE  FALSE
  BY <1>1, <1>2, <1>7 DEF Reopen, TypeOK
<1>8. ASSUME NEW a \in Admins, NEW x \in Revisions, NEW flag \in BOOLEAN, Review(a, x, flag)
      PROVE  x = r
  BY <1>1, <1>2, <1>8 DEF Review, TypeOK
<1>9. ASSUME NEW a \in Admins, NEW x \in Revisions, NEW flag \in BOOLEAN, Publish(a, x, flag)
      PROVE  FALSE
  <2>1. x # r
    BY <1>9 DEF Publish, MayPublish
  <2> QED
    BY <1>2, <1>9, <2>1 DEF Publish, Retired
<1>10. ASSUME NEW a \in Admins, NEW d \in Draws, NEW target \in {"ACTIVE", "SUSPENDED"},
              SetVisibility(a, d, target)
       PROVE  FALSE
  BY <1>2, <1>10 DEF SetVisibility
<1>11. CASE RevisionStep
  BY <1>5, <1>6, <1>7, <1>8, <1>9, <1>10, <1>11 DEF RevisionStep
<1> QED
  BY <1>3, <1>4, <1>11 DEF Next

(* A reviewer approves exactly the content on the page they loaded.        *)
THEOREM ReviewsAreAsSeen == Spec => ReviewedAsSeen
<1> DEFINE AsSeen(r) == rev[r].workflow = "DRAFT" /\ rev'[r].workflow = "READY" =>
                           /\ seen[rev'[r].reviewedBy].revision = r
                           /\ seen[rev'[r].reviewedBy].hash = Hash(rev'[r])
<1>1. ASSUME Inv, PagesAreHonest, [Next]_vars, NEW r \in Revisions
      PROVE  AsSeen(r)
  <2> SUFFICES ASSUME rev[r].workflow = "DRAFT", rev'[r].workflow = "READY"
               PROVE  /\ seen[rev'[r].reviewedBy].revision = r
                      /\ seen[rev'[r].reviewedBy].hash = Hash(rev'[r])
    OBVIOUS
  <2>1. PICK a \in Admins, flag \in BOOLEAN : Review(a, r, flag)
    BY <1>1, OnlyReviewReadies
  <2>2. rev[r] \in Revision /\ r # Nil
    BY <1>1, IdentifierAssumption DEF Inv, TypeOK
  <2>3. rev'[r] = [rev[r] EXCEPT !.workflow = "READY", !.reviewedHash = rev[r].contentHash,
                                 !.reviewedBy = a, !.editVersion = @ + 1]
    BY <1>1, <2>1 DEF Review, Inv, TypeOK
  <2>4. rev'[r].reviewedBy = a /\ Hash(rev'[r]) = Hash(rev[r])
    BY <2>2, <2>3 DEF Hash, Revision
  <2>5. /\ seen[a].revision = r /\ seen[a].revisionVersion = rev[r].editVersion
        /\ Hash(rev[r]) = rev[r].contentHash
    BY <2>1 DEF Review, EditsRevision, RevisionMatches
  <2>6. seen[a].hash = rev[r].contentHash
    BY <1>1, <2>2, <2>5 DEF PagesAreHonest
  <2> QED
    BY <2>4, <2>5, <2>6
<1>2. Inv /\ PagesAreHonest /\ [Next]_vars => [\A r \in Revisions : AsSeen(r)]_vars
  BY <1>1
<1> QED
  BY <1>2, Honesty, PTL DEF Spec, ReviewedAsSeen

-----------------------------------------------------------------------------
(* Publications.                                                           *)

(* The publisher a makes r the current revision of d.                      *)
Replacement(d, a, r, flag) ==
    /\ Publish(a, r, flag) /\ rev[r].draw = d
    /\ draw'[d].current = r
    /\ draw'[d].visibility = "ACTIVE"
    /\ rev[r].basedOn = draw[d].current
    /\ rev'[r] = [rev[r] EXCEPT !.workflow = "PUBLISHED", !.publishedBy = a,
                                !.editVersion = @ + 1]

LEMMA OnlyPublishReplaces ==
    ASSUME Inv, [Next]_vars, NEW d \in Draws, draw'[d].current # draw[d].current
    PROVE  \E a \in Admins, r \in Revisions, flag \in BOOLEAN : Replacement(d, a, r, flag)
<1>1. TypeOK /\ RowsAreWhole /\ CurrentIsPublished
  BY DEF Inv
<1>2. Publishing
  BY <1>1, DrawRows DEF DrawStays
<1>3. PICK a \in Admins, r \in Revisions, flag \in BOOLEAN : Publish(a, r, flag)
  BY <1>2 DEF Publishing
<1>4. Replaces(a, r, rev[r].draw, draw[rev[r].draw].current)
  BY <1>1, <1>3, PublishEffect
<1>5. rev[r].draw = d
  BY <1>4 DEF Replaces
<1>6. draw'[d].visibility = "ACTIVE"
  <2>1. draw'[d] = PublishedDraw(r, flag)
    BY <1>1, <1>3, <1>5 DEF Publish, TypeOK
  <2>2. draw[d].visibility = "SUSPENDED" => flag
    BY <1>3, <1>5 DEF Publish, MayPublish
  <2>3. draw[d] \in Draw
    BY <1>1 DEF TypeOK
  <2> QED
    BY <1>5, <2>1, <2>2, <2>3 DEF PublishedDraw, Draw
<1>7. Replacement(d, a, r, flag)
  BY <1>3, <1>4, <1>5, <1>6 DEF Replaces, Replacement
<1> QED
  BY <1>7

(* A publisher replaces the result their page showed as current, with the  *)
(* content it showed, under an approved rule, and leaves the draw visible. *)
THEOREM PublicationsAreAsSeen == Spec => PublishedAsSeen
<1> DEFINE AsSeen(d) == draw'[d].current # draw[d].current =>
                           LET r == draw'[d].current
                               p == rev'[r].publishedBy
                           IN  /\ seen[p].revision = r
                               /\ seen[p].hash = Hash(rev'[r])
                               /\ seen[p].current = draw[d].current
                               /\ rule[rev[r].rule] = "APPROVED"
                               /\ draw'[d].visibility = "ACTIVE"
<1>1. ASSUME Inv, PagesAreHonest, [Next]_vars, NEW d \in Draws
      PROVE  AsSeen(d)
  <2> SUFFICES ASSUME draw'[d].current # draw[d].current
               PROVE  AsSeen(d)
    OBVIOUS
  <2>1. PICK a \in Admins, r \in Revisions, flag \in BOOLEAN : Replacement(d, a, r, flag)
    BY <1>1, OnlyPublishReplaces
  <2>2. rev[r] \in Revision /\ r # Nil
    BY <1>1, IdentifierAssumption DEF Inv, TypeOK
  <2>3. rev'[r].publishedBy = a /\ Hash(rev'[r]) = Hash(rev[r])
    BY <2>1, <2>2 DEF Replacement, Hash, Revision
  <2>4. /\ seen[a].revision = r /\ seen[a].revisionVersion = rev[r].editVersion
        /\ Hash(rev[r]) = rev[r].contentHash /\ seen[a].current = draw[d].current
        /\ rule[rev[r].rule] = "APPROVED"
    BY <2>1 DEF Replacement, Publish, MayPublish, ReplacesExpected, ReviewStands, Publishable,
                EditsRevision, RevisionMatches
  <2>5. seen[a].hash = rev[r].contentHash
    BY <1>1, <2>2, <2>4 DEF PagesAreHonest
  <2> QED
    BY <2>1, <2>3, <2>4, <2>5 DEF Replacement
<1>2. Inv /\ PagesAreHonest /\ [Next]_vars => [\A d \in Draws : AsSeen(d)]_vars
  BY <1>1
<1> QED
  BY <1>2, Honesty, PTL DEF Spec, PublishedAsSeen

(* A complete result is followed by a partial one only by a revision that  *)
(* says it is a correction.                                                *)
THEOREM DowngradesAreCorrections == Spec => NoSilentDowngrade
<1> DEFINE Says(d) == LET old == draw[d].current
                          new == draw'[d].current
                      IN  /\ old # Nil /\ new # old
                          /\ rev[old].payload \in CompletePayloads
                          /\ rev'[new].payload \notin CompletePayloads
                          => rev'[new].kind = "CORRECTION"
<1>1. ASSUME Inv, [Next]_vars, NEW d \in Draws
      PROVE  Says(d)
  <2> SUFFICES ASSUME draw'[d].current # draw[d].current
               PROVE  Says(d)
    OBVIOUS
  <2>1. PICK a \in Admins, r \in Revisions, flag \in BOOLEAN : Replacement(d, a, r, flag)
    BY <1>1, OnlyPublishReplaces
  <2>2. rev[r] \in Revision
    BY <1>1 DEF Inv, TypeOK
  <2>3. rev'[r].payload = rev[r].payload /\ rev'[r].kind = rev[r].kind
    BY <2>1, <2>2 DEF Replacement, Revision
  <2>4. ~Downgrades(r)
    BY <2>1 DEF Replacement, Publish, MayPublish
  <2> QED
    BY <2>1, <2>3, <2>4 DEF Replacement, Downgrades
<1>2. Inv /\ [Next]_vars => [\A d \in Draws : Says(d)]_vars
  BY <1>1
<1> QED
  BY <1>2, Invariance, PTL DEF Spec, NoSilentDowngrade

-----------------------------------------------------------------------------
(* Suspensions.                                                            *)

LEMMA OnlySetVisibilitySuspends ==
    ASSUME Inv, [Next]_vars, NEW d \in Draws, draw'[d].visibility # draw[d].visibility,
           draw'[d].current = draw[d].current
    PROVE  \E a \in Admins, target \in {"ACTIVE", "SUSPENDED"} : SetVisibility(a, d, target)
<1>1. TypeOK /\ RowsAreWhole /\ CurrentIsPublished /\ draw[d] \in Draw
  BY DEF Inv, TypeOK
<1>2. draw'[d] # draw[d]
  OBVIOUS
<1>3. CASE UNCHANGED draw
  BY <1>2, <1>3
<1>4. ASSUME NEW x \in Draws, NEW phase \in Phases, NEW dates \in Dates, CreateDraw(x, phase, dates)
      PROVE  FALSE
  BY <1>1, <1>4 DEF CreateDraw, TypeOK, Draw
<1>5. ASSUME NEW a \in Admins, NEW x \in Draws, NEW phase \in Phases \cup {Nil},
             NEW dates \in DrawDates \cup {Nil}, PatchDraw(a, x, phase, dates)
      PROVE  FALSE
  BY <1>1, <1>5 DEF PatchDraw, TypeOK, Draw
<1>6. ASSUME NEW r \in Revisions, NEW x, NEW row, InsertDraft(r, x, row)
      PROVE  FALSE
  BY <1>1, <1>6 DEF InsertDraft, TypeOK, Draw
<1>7. ASSUME NEW a \in Admins, NEW r \in Revisions, NEW flag \in BOOLEAN, Publish(a, r, flag)
      PROVE  FALSE
  <2>1. /\ draw' = [draw EXCEPT ![rev[r].draw] = PublishedDraw(r, flag)]
        /\ rev[r].workflow = "READY"
    BY <1>7 DEF Publish, MayPublish
  <2>2. rev[r].draw = d
    BY <1>2, <2>1 DEF TypeOK
  <2>3. draw'[d].current = r
    BY <1>1, <2>1, <2>2 DEF PublishedDraw, TypeOK, Draw
  <2>4. draw[d].current = r /\ r # Nil
    BY <2>3, IdentifierAssumption
  <2> QED
    BY <1>1, <2>1, <2>4 DEF CurrentIsPublished
<1>8. ASSUME NEW a \in Admins, NEW x \in Draws, NEW target \in {"ACTIVE", "SUSPENDED"},
             SetVisibility(a, x, target)
      PROVE  x = d
  BY <1>1, <1>2, <1>8 DEF SetVisibility, TypeOK
<1>9. CASE CatalogueStep
  BY <1>3, <1>4, <1>5, <1>9 DEF CatalogueStep, CreateRule, ApproveRule, RevokeRule
<1>10. CASE ImportStep
  BY <1>3, <1>6, <1>10 DEF ImportStep, Preview, CreateDraft
<1>11. CASE RevisionStep
  BY <1>3, <1>6, <1>7, <1>8, <1>11 DEF RevisionStep, CreateCorrection, Patch, Reopen, Review
<1>12. CASE PageStep \/ UNCHANGED vars
  BY <1>3, <1>12 DEF PageStep, LoadDraw, LoadRevision, vars
<1> QED
  BY <1>9, <1>10, <1>11, <1>12 DEF Next

(* A publisher suspends or resumes the result their page showed.           *)
THEOREM SuspensionsAreAsSeen == Spec => SuspendedAsSeen
<1> DEFINE AsSeen(d) ==
             draw'[d].visibility # draw[d].visibility /\ draw'[d].current = draw[d].current =>
                \E a \in Publishers : /\ Acted(a)
                                      /\ seen[a].draw = d
                                      /\ seen[a].current = draw[d].current
<1>1. ASSUME Inv, PagesAreHonest, [Next]_vars, NEW d \in Draws
      PROVE  AsSeen(d)
  <2> SUFFICES ASSUME draw'[d].visibility # draw[d].visibility, draw'[d].current = draw[d].current
               PROVE  AsSeen(d)
    OBVIOUS
  <2>1. PICK a \in Admins, target \in {"ACTIVE", "SUSPENDED"} : SetVisibility(a, d, target)
    BY <1>1, OnlySetVisibilitySuspends
  <2>2. a \in Publishers /\ seen[a].draw = d /\ seen[a].drawVersion = draw[d].editVersion
    BY <2>1 DEF SetVisibility, EditsDraw, DrawMatches
  <2>3. d # Nil
    BY IdentifierAssumption
  <2>4. seen[a].current = draw[d].current
    BY <1>1, <2>2, <2>3 DEF PagesAreHonest
  <2>5. seen[a] # NoPage /\ seen'[a] = NoPage
    BY <1>1, <2>1, <2>2, <2>3 DEF SetVisibility, Answered, NoPage, Inv, TypeOK
  <2> QED
    BY <2>2, <2>4, <2>5 DEF Acted
<1>2. Inv /\ PagesAreHonest /\ [Next]_vars => [\A d \in Draws : AsSeen(d)]_vars
  BY <1>1
<1> QED
  BY <1>2, Honesty, PTL DEF Spec, SuspendedAsSeen

=============================================================================
