------------------------------ MODULE Evidence ------------------------------
(***************************************************************************)
(* A transcript, its speaker turns and the quotes that must be found in    *)
(* it.  A transcript is a sequence of lines, each a sentence that may have *)
(* a speaker's label; a place in it is the number of a line.  Of a quote   *)
(* the model keeps which sentence it copies and how well.                  *)
(***************************************************************************)
EXTENDS Selection

CONSTANTS
    Headings,  \* labels such as "Action", which only look like a speaker's
    Unsaid     \* no speaker, no sentence

\* A line: the label before its colon, Unsaid when there is none, its sentence.
\* A quote: the sentence it copies, and how: to the letter, but for case, space
\* and punctuation, but for a word or so, or not at all.
How == {"exact", "normalized", "repaired", "invented"}

Turn(speaker, says) == [speaker |-> speaker, says |-> says]

\* Mutant of OpensTurn: whatever has a label is a speaker.
AnyLabelOpensTurn(line) == line.label # Unsaid

OpensTurn(line) == line.label # Unsaid /\ line.label \notin Headings

\* A line with no speaker continues the turn above it, or is said by nobody when
\* there is none; so the turns are those lines that open one, and the first.
TurnStarts(lines) == {l \in DOMAIN lines : l = 1 \/ OpensTurn(lines[l])}
TurnOf(lines, line) == Cardinality({l \in TurnStarts(lines) : l <= line})

Segment(lines) ==
    [t \in 1..Cardinality(TurnStarts(lines)) |->
       LET mine == {l \in DOMAIN lines : TurnOf(lines, l) = t}
           start == CHOOSE l \in mine : \A k \in mine : l <= k
       IN Turn(IF OpensTurn(lines[start]) THEN lines[start].label ELSE Unsaid,
               [n \in 1..Cardinality(mine) |-> lines[start + n - 1].text])]

Participants(turns) == {turns[t].speaker : t \in DOMAIN turns} \ {Unsaid}

\* Where a sentence first stands: `find` looks from the start.
LinesSaying(lines, text) == {l \in DOMAIN lines : lines[l].text = text}
FirstPlace(lines, text) == Lowest(LinesSaying(lines, text))

\* A near miss is compared with whole turns, and snaps to the first place of the
\* text of the best of them: a turn that says this sentence and no other.
Snaps(turns, text) == {t \in DOMAIN turns : turns[t].says = <<text>>}

\* The line a quote is found at, or 0.
Locate(lines, quote) ==
    LET said == LinesSaying(lines, quote.text) # {} IN
    CASE quote.how \in {"exact", "normalized"} /\ said -> FirstPlace(lines, quote.text)
      [] quote.how = "repaired" /\ Snaps(Segment(lines), quote.text) # {} ->
           FirstPlace(lines, quote.text)
      [] OTHER -> 0

\* Mutant of TurnIndex: the number of the line, not of the turn.
LineAsTurn(turns, lines, text) == Lowest(LinesSaying(lines, text))

\* The turn a grounded quote is attributed to: the first that contains it.
TurnIndex(turns, lines, text) ==
    Lowest({t \in DOMAIN turns : \E n \in DOMAIN turns[t].says : turns[t].says[n] = text})

\* An item's evidence once verified: the quotes that were found, each with its
\* place and the turn it is attributed to.
Verified(lines, quotes) ==
    LET turns == Segment(lines)
        found == Select(quotes, {n \in DOMAIN quotes : Locate(lines, quotes[n]) # 0})
    IN [i \in DOMAIN found |->
          [text |-> found[i].text, place |-> Locate(lines, found[i]),
           turn |-> TurnIndex(turns, lines, found[i].text)]]

=============================================================================
