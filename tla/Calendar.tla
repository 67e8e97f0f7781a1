------------------------------ MODULE Calendar ------------------------------
(***************************************************************************)
(* Spoken deadlines: what a phrase means relative to the day of the        *)
(* meeting.  A day is a number, day 0 a Monday; a phrase is what the       *)
(* rules look for in it.  The wording of a rule is left out, the order in  *)
(* which the rules are tried is not: a phrase may match several.           *)
(***************************************************************************)
EXTENDS Integers, Sequences

CONSTANT MonthStart  \* the first day of each month, January of some year first

\* Whole years, from day 0 to the January after the last of them.
ASSUME MonthStartAssumption ==
    /\ MonthStart \in Seq(Nat)
    /\ Len(MonthStart) > 12 /\ Len(MonthStart) % 12 = 1
    /\ MonthStart[1] = 0
    /\ \A m \in 1..(Len(MonthStart) - 1) : MonthStart[m + 1] - MonthStart[m] \in 28..31

\* The marks a rule other than a weekday's looks for.
Mark == {"today", "end_of_day", "tomorrow", "next_month", "end_of_week",
         "next_week", "end_of_month", "sprint", "end_of_quarter"}

Unit == [day |-> 1, week |-> 7, month |-> 30]

\* A part of a phrase that is absent is an empty sequence.
Phrase == [marks : SUBSET Mark,
           iso : Seq(Int),
           offset : Seq([count : Nat, unit : DOMAIN Unit]),
           weekday : Seq(0..6),
           next : BOOLEAN]

Weekday(day) == day % 7

\* The month a day is in, counted from the January the calendar starts with.
MonthOf(day) ==
    CHOOSE m \in 1..(Len(MonthStart) - 1) :
      MonthStart[m] <= day /\ day < MonthStart[m + 1]

DayOfMonth(day) == day - MonthStart[MonthOf(day)] + 1
OnDayOfMonth(day, n) == day - DayOfMonth(day) + n

\* Friday, also for a meeting held on one.
EndOfThisWeek(day) == day + ((4 - Weekday(day)) % 7)

\* The first of the next month by way of the 28th, less one day.
EndOfMonth(day) == OnDayOfMonth(OnDayOfMonth(day, 28) + 4, 1) - 1

\* Mutant of EndOfQuarter: December's quarter ends the year before.
EndOfQuarterSameYear(day) ==
    LET year == (MonthOf(day) - 1) \div 12
        month == ((MonthOf(day) - 1) % 12) + 1
        last == 3 * ((month - 1) \div 3) + 3
    IN MonthStart[(12 * year) + (last % 12) + 1] - 1

EndOfQuarter(day) ==
    LET year == (MonthOf(day) - 1) \div 12
        month == ((MonthOf(day) - 1) % 12) + 1
        last == 3 * ((month - 1) \div 3) + 3
    IN MonthStart[12 * (year + (IF last = 12 THEN 1 ELSE 0)) + (last % 12) + 1] - 1

\* Mutant of BareWeekday: the day they are standing in counts.
BareWeekdayFromToday(target, day) == day + ((target - Weekday(day)) % 7)

\* The next such day strictly after the meeting.
BareWeekday(target, day) ==
    LET ahead == (target - Weekday(day)) % 7 IN day + IF ahead = 0 THEN 7 ELSE ahead

\* That day of the calendar week after the meeting's.
NextWeekday(target, day) == day + (7 - Weekday(day)) + target

\* Each rule of `resolve`, in the order they are tried: whether it matches the
\* phrase, the date it gives and whether the route is one to ask Chronos about.
Rules(phrase, day) ==
    LET Says(mark) == mark \in phrase.marks
        Found(matches, due, vague) == [matches |-> matches, due |-> due, vague |-> vague]
        Part(part, Due(_)) == IF part = <<>> THEN day ELSE Due(part[1])
        Ahead(o) == day + Unit[o.unit] * o.count
        Named(w) == IF phrase.next THEN NextWeekday(w, day) ELSE BareWeekday(w, day)
        Itself(d) == d
    IN <<Found(phrase.iso # <<>>, Part(phrase.iso, Itself), FALSE),
         Found(Says("today") \/ Says("end_of_day"), day, FALSE),
         Found(Says("tomorrow"), day + 1, FALSE),
         Found(phrase.offset # <<>>, Part(phrase.offset, Ahead), FALSE),
         Found(Says("next_month"), day + 30, FALSE),
         Found(Says("end_of_week"), EndOfThisWeek(day), FALSE),
         Found(Says("next_week"), EndOfThisWeek(day) + 7, FALSE),
         Found(Says("end_of_month"), EndOfMonth(day), FALSE),
         Found(Says("sprint"), day + 14, TRUE),
         Found(Says("end_of_quarter"), EndOfQuarter(day), FALSE),
         Found(phrase.weekday # <<>>, Part(phrase.weekday, Named), FALSE)>>

\* The first rule that matches decides: the date as a sequence of at most one,
\* and whether Chronos is asked.
Resolve(phrase, day) ==
    LET rules == Rules(phrase, day)
        matching == {r \in DOMAIN rules : rules[r].matches}
    IN IF matching = {} THEN [due |-> <<>>, help |-> TRUE]
       ELSE LET first == CHOOSE r \in matching : \A s \in matching : r <= s
            IN [due |-> <<rules[first].due>>, help |-> rules[first].vague]

=============================================================================
