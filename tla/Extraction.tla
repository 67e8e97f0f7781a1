----------------------------- MODULE Extraction -----------------------------
(***************************************************************************)
(* What becomes of the candidates a language model extracts: grounding,    *)
(* removal of twins and the Skeptic's review.  A candidate is              *)
(* [class, body, quotes, owner, due]; a batch is a sequence of them, and a *)
(* candidate is followed by its position in its batch.                     *)
(***************************************************************************)
EXTENDS Evidence, SequencesExt

CONSTANT SameThing  \* pairs of bodies at or above the threshold of a twin

Classification == {"decision", "commitment", "action_item", "suggestion", "discussion"}
CommittedClasses == {"commitment", "action_item"}

Places(lines, item) ==
    LET evidence == Verified(lines, item.quotes) IN
    {evidence[i].place : i \in DOMAIN evidence}

\* Mutant of Twins: the same sentence is enough.
TwinsBySentence(lines, item, other) ==
    Places(lines, item) \cap Places(lines, other) # {}

\* Two items are one when they cite one sentence and say much the same of it.
Twins(lines, item, other) ==
    /\ Places(lines, item) \cap Places(lines, other) # {}
    /\ <<item.body, other.body>> \in SameThing

\* What `_ground` keeps of a batch, item by item: the positions of those with a
\* quote in the transcript and no twin that was kept before them.
Ground(lines, batch) ==
    CHOOSE kept \in SUBSET DOMAIN batch :
      \A i \in DOMAIN batch :
        i \in kept <=> /\ Places(lines, batch[i]) # {}
                       /\ ~ \E j \in kept : j < i /\ Twins(lines, batch[i], batch[j])

\* The commitments brief's decisions belong to the decisions brief and leave.
Candidates(lines, batch) ==
    Ascending({i \in Ground(lines, batch) : batch[i].class # "decision"})

\* A quote that is nowhere sends the batch back to the model, once.
AsksForCorrection(lines, batch) ==
    \E i \in DOMAIN batch : \E q \in Range(batch[i].quotes) : Locate(lines, q) = 0

\* A verdict is [index, verdict, class]; class is "" when it names none.  Of
\* several for one candidate the last counts, and one for an index that was not
\* sent is ignored.
VerdictOn(verdicts, index) ==
    LET mine == {n \in DOMAIN verdicts : verdicts[n].index = index} IN
    IF mine = {} THEN [index |-> index, verdict |-> "keep", class |-> ""]
    ELSE verdicts[Highest(mine)]

\* Mutant of Verdict: candidates counted from one, as a reader of the list does.
VerdictCountedFromOne(verdicts, n) == VerdictOn(verdicts, n)

\* The verdict on the n-th candidate of the listing, which counts from zero.
Verdict(verdicts, n) == VerdictOn(verdicts, n - 1)

\* Mutant of ClassAfter: a downgrade to nothing in particular is applied.
ClassAfterAnyDowngrade(verdict, own) ==
    IF verdict.verdict = "downgrade" THEN verdict.class ELSE own

\* The class an item leaves with: a downgrade that names no class changes nothing.
ClassAfter(verdict, own) ==
    IF verdict.verdict = "downgrade" /\ verdict.class # "" THEN verdict.class ELSE own

\* Review of the candidates: the positions rejected, and for the rest the class
\* they leave with.  Without verdicts, for whatever reason, all are kept.
Review(batch, candidates, verdicts) ==
    LET rejected == {n \in DOMAIN candidates : Verdict(verdicts, n).verdict = "reject"}
        Class(n) == ClassAfter(Verdict(verdicts, n), batch[candidates[n]].class)
        kept == {candidates[n] : n \in DOMAIN candidates \ rejected}
        At(i) == CHOOSE n \in DOMAIN candidates : candidates[n] = i
    IN [rejected |-> {candidates[n] : n \in rejected},
        class |-> [i \in kept |-> Class(At(i))]]

\* The candidates that create work.
Obligations(reviewed) ==
    {i \in DOMAIN reviewed.class : reviewed.class[i] \in CommittedClasses}

=============================================================================
