----------------------------- MODULE MCReading ------------------------------
(***************************************************************************)
(* A small instance of Reading: three transcripts, one of them for its     *)
(* speakers, one for its sentences and one for its deadlines.              *)
(***************************************************************************)
EXTENDS Reading

Knows(name, aliases) == [name |-> name, aliases |-> aliases]

\* Priya, with a nickname, and two people who share one.
MCPeople ==
    <<Knows(<<"priya">>, {<<"pri">>}),
      Knows(<<"alex", "kim">>, {<<"al">>}),
      Knows(<<"alex", "roy">>, {<<"al">>})>>
MCNear == {<<<<"preeya">>, <<"priya">>>>, <<<<"pria">>, <<"priya">>>>}
MCSameThing == {<<t, t>> : t \in {"p", "q", "r"}}
MCHeadings == {<<"action">>}
MCNotPeople == {<<"everyone">>}

Line(label, text) == [label |-> label, text |-> text]
Unlabelled(text) == [label |-> Unsaid, text |-> text]

\* "standup": a speaker spelled badly, two new ones, labels of two people and of
\* nobody.  "planning": a first line nobody says, a heading and a continuation
\* inside a turn, and a sentence that two people say.
MCLines ==
    [standup |-> <<Line(<<"preeya">>, "a"), Line(<<"alex">>, "b"), Line(<<"al">>, "c"),
                   Line(<<"everyone">>, "d"), Line(<<"dev", "rao">>, "e"), Line(<<"pria">>, "f")>>,
     planning |-> <<Unlabelled("z"), Line(<<"priya">>, "a"), Line(<<"action">>, "b"),
                    Unlabelled("c"), Line(<<"alex", "kim">>, "d"), Line(<<"zoe">>, "a"),
                    Line(<<"alex", "roy">>, "e")>>,
     dated |-> <<Line(<<"priya">>, "a")>>]
MCMeetings == DOMAIN MCLines

\* Two weeks around a leap day, and the ends of a quarter and of a year.
MCRunDays ==
    [m \in MCMeetings |-> IF m = "dated" THEN (54..61) \cup (89..92) \cup (361..368) ELSE {2}]

\* The months of a leap year that starts on a Monday and of the year after it.
MCMonthStart ==
    <<0, 31, 60, 91, 121, 152, 182, 213, 244, 274, 305, 335,
      366, 397, 425, 456, 486, 517, 547, 578, 609, 639, 670, 700, 731>>

Quote(text, how) == [text |-> text, how |-> how]
Item(class, body, quotes, owner, due) ==
    [class |-> class, body |-> body, quotes |-> quotes, owner |-> owner, due |-> due]

Kind(kind) == [kind |-> kind, name |-> <<>>]
Called(name) == [kind |-> "name", name |-> name]
MCHints ==
    {Kind("absent"), Kind("collective"), Kind("first person"), Kind("other person")}
      \cup {Called(n) : n \in {<<"pri">>, <<"alex">>, <<"al">>, <<"pria">>, <<"dev">>, <<"bob">>}}

\* One item said by anybody, owed by anybody.
Owed(texts) ==
    {<<Item("commitment", "p", <<Quote(t, "exact")>>, hint, <<>>)>> : t \in texts, hint \in MCHints}

\* Items about sentence "a" or "b", alike or not, and one nobody said.
MCItems ==
    {Item(class, body, <<Quote("a", "exact")>>, Kind("absent"), <<>>) :
       class \in {"decision", "commitment"}, body \in {"p", "q"}}
      \cup {Item("action_item", "p", <<Quote("b", how)>>, Kind("first person"), <<>>) :
              how \in {"repaired", "invented"}}
      \cup {Item("suggestion", "r", <<Quote("x", "exact"), Quote("d", "normalized")>>,
                 Kind("first person"), <<>>)}

Unspecific == [marks |-> {}, iso |-> <<>>, offset |-> <<>>, weekday |-> <<>>, next |-> FALSE]
Marked(marks) == [Unspecific EXCEPT !.marks = marks]
On(weekday, next) == [Unspecific EXCEPT !.weekday = <<weekday>>, !.next = next]
MCPhrases ==
    {Marked({mark}) : mark \in Mark}
      \cup {On(weekday, next) : weekday \in {0, 4, 6}, next \in BOOLEAN}
      \cup {[Unspecific EXCEPT !.offset = <<[count |-> 2, unit |-> "week"]>>],
            [Unspecific EXCEPT !.iso = <<40>>],
            [On(4, FALSE) EXCEPT !.marks = {"end_of_day"}],
            Marked({"end_of_month", "next_month"}),
            Unspecific}

MCReplies ==
    [standup |-> Owed({"a", "b", "c", "d", "e"}),
     planning |-> {<<>>} \cup Owed({"z", "a", "b", "c", "d", "e"})
                    \cup {<<i, j, k>> : i, j, k \in MCItems},
     dated |-> {<<Item("commitment", "p", <<Quote("a", "exact")>>, Kind("first person"), <<phrase>>)>> :
                  phrase \in MCPhrases}]

Judged(index, verdict, class) == [index |-> index, verdict |-> verdict, class |-> class]
MCVerdicts ==
    {<<Judged(0, "reject", ""), Judged(1, "downgrade", "suggestion"), Judged(3, "reject", "")>>,
     <<Judged(0, "keep", ""), Judged(1, "reject", ""), Judged(2, "downgrade", "")>>,
     <<Judged(2, "reject", ""), Judged(0, "downgrade", "discussion"), Judged(0, "keep", "")>>}

Answered(name, confidence) == <<[name |-> name, confidence |-> confidence]>>
MCOwnerAnswers ==
    {<<>>, Answered(<<>>, 0), Answered(<<"alex", "roy">>, 70), Answered(<<"al">>, 90),
     Answered(<<"bob">>, 90)}
MCDateAnswers == {<<>>, <<500>>}
=============================================================================
