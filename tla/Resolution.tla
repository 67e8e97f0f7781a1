----------------------------- MODULE Resolution -----------------------------
(***************************************************************************)
(* The owner and the deadline of each obligation: a deterministic pass,    *)
(* then an agent for what it could not settle.  An agent's answer is a     *)
(* sequence: empty when its call failed or it returned nothing.            *)
(***************************************************************************)
EXTENDS Extraction, Roster, Calendar

\* Who said the line an item was extracted from, by its first grounded quote.
SpeakerFor(lines, item) ==
    LET turn == Verified(lines, item.quotes)[1].turn
        speaker == Segment(lines)[turn].speaker
    IN IF speaker = Unsaid THEN Nobody ELSE speaker

\* The agent's answer names nobody, or somebody matched on the roster again.
AttributionFrom(answer, roster) ==
    LET named == Named(answer.name, roster) IN
    CASE answer.name = <<>> -> Attribution(Nobody, 0, "ambiguous")
      [] answer.name # <<>> /\ named.person = Nobody -> Attribution(Nobody, 0, "unmatched")
      [] OTHER ->
           Attribution(named.person,
                       IF answer.confidence < named.confidence THEN answer.confidence
                                                               ELSE named.confidence,
                       "attributor")

\* The owner of an item, given what the Attributor would answer about it.
OwnerOf(lines, roster, item, answers) ==
    LET matched == ResolveOwner(item.owner, roster, SpeakerFor(lines, item)) IN
    IF NeedsAgent(matched) /\ answers # <<>>
      THEN AttributionFrom(answers[1], roster) ELSE matched

\* The deadline of an item: by the calendar or, when that is no help and there
\* are words to ask about, by what Chronos answers unless it is nothing.
DeadlineOf(item, day, answers) ==
    LET computed == IF item.due = <<>> THEN <<>> ELSE Resolve(item.due[1], day).due
        asked == item.due # <<>> /\ Resolve(item.due[1], day).help
    IN IF asked /\ answers # <<>> THEN answers ELSE computed

\* The save of an item fails unless its confidence fits the column's check.
FitsTheTable(attribution) == attribution.confidence \in 0..100

=============================================================================
