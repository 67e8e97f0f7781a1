------------------------------ MODULE Console ------------------------------
(***************************************************************************)
(* What people see of the ledger: the read endpoints of the console and    *)
(* the nightly sweep.  Each is a query over the committed rows on the day  *)
(* it is asked, so each is an operator of the ledger's state, named for    *)
(* its handler.  Layout and paging are left out: a list is the set of rows *)
(* on it, whose order counts where the sweep stops at a limit.             *)
(***************************************************************************)
EXTENDS Ledger, Risk

CONSTANTS
    Today,           \* the days on which the console is read
    Namings,         \* what the people of the roster may be called, by person
    MaxOwnersNudged  \* owners one sweep drafts a nudge for

ASSUME TodayAssumption == Today \subseteq Nat
ASSUME NamingsAssumption == \A name \in Namings : DOMAIN name = People
ASSUME MaxOwnersNudgedAssumption == MaxOwnersNudged \in Nat

\* What the model of a row leaves out and no step of it changes.
Stated == [ownerConfidence |-> 100, dueConfidence |-> 100,
           questions |-> 0, blocked |-> FALSE, conditional |-> FALSE]

Settled(row) == row.status \in ClosedStatus

\* The score the console and the sweep give a row, recomputed on every read.
Assess(row, today) ==
    Score([settled |-> Settled(row), owned |-> row.owner # None,
           dated |-> row.due # None, due |-> row.due,
           slip |-> row.slip, silence |-> row.silence],
          today, Stated)

Overdue(row, today) == row.due # None /\ row.due < today

\* GET /commitments, by view.
ListCommitments(view, today) ==
    {c \in RowIds :
       CASE view = "unowned" -> rows[c].owner = None
         [] view = "no_deadline" -> rows[c].due = None
         [] view = "needs_input" -> rows[c].status = "needs_clarification"
         [] view = "at_risk" -> Band(Assess(rows[c], today)) # "low"
         [] view = "overdue" -> Overdue(rows[c], today)
         [] OTHER -> TRUE}

\* GET /people/{id}, and GET /people.
OpenItems(person) == {c \in RowIds : rows[c].owner = person /\ ~ Settled(rows[c])}
PersonPage(p, today) ==
    [person |-> p,
     open |-> OpenItems(p),
     overdue |-> {c \in OpenItems(p) : Overdue(rows[c], today)},
     atRisk |-> {c \in OpenItems(p) : Band(Assess(rows[c], today)) # "low"}]
ListPeople(today) == {PersonPage(p, today) : p \in People}

\* What the sweep finds late, and who owes it: it goes by an owner's name.
Late(today) == {c \in RowIds : ~ Settled(rows[c]) /\ Overdue(rows[c], today)}
LateWith(n, name, today) ==
    {c \in Late(today) : rows[c].owner # None /\ name[rows[c].owner] = n}
LateNames(name, today) ==
    {name[rows[c].owner] : c \in {c \in Late(today) : rows[c].owner # None}}

\* Mutant of FirstNames: the rows are read in no particular order.
AnyNames(name, today) ==
    LET names == LateNames(name, today) IN
    {first \in SUBSET names :
       Cardinality(first) = Least(Cardinality(names), MaxOwnersNudged)}

\* The names a sweep comes to before it stops, going by the dates of what is late.
\* Among equal dates the order is the database's, so there may be several.
FirstNames(name, today) ==
    LET names == LateNames(name, today) IN
    {first \in SUBSET names :
       /\ Cardinality(first) = Least(Cardinality(names), MaxOwnersNudged)
       /\ \A n \in first, m \in names \ first :
            \A c \in LateWith(m, name, today) :
              \E d \in LateWith(n, name, today) : rows[d].due <= rows[c].due}

\* POST /internal/sweep: what is late and nobody's, a nudge under each name whose
\* draft was written, and how many names lie beyond the limit.
Sweep(name, today, written) ==
    LET names == Cardinality(LateNames(name, today)) IN
    [overdue |-> Late(today),
     unowned |-> {c \in Late(today) : rows[c].owner = None},
     nudge |-> [n \in written |-> LateWith(n, name, today)],
     skipped |-> names - Least(names, MaxOwnersNudged)]

\* What a sweep may come to: any draft may fail, and a dry run writes none.
Sweeps(name, today) ==
    {Sweep(name, today, written) :
       written \in UNION {SUBSET first : first \in FirstNames(name, today)}}

-----------------------------------------------------------------------------
\* The steps that bring news of a row: a meeting spoke of it, a human answered a
\* question about it.
Mentioned(c) == \E e \in events' \ events : e.commitment = c /\ e.type # "unmentioned"
Answers(c) ==
    \E k \in DOMAIN clars : clars[k].commitment = c /\ clars'[k].answers > clars[k].answers

\* Seen on any one day, a promise looks safer only after a meeting spoke of it,
\* or by the owner and the date a human gave it: with one run at a time, a request
\* or a run that writes back what it loaded long ago makes no slip and no silence
\* vanish (services/risk.py 91-189, historian.py 422-536, clarifications.py).
RiskFallsOnlyOnNews ==
    [][\A c \in RowIds : rows'[c] # rows[c] /\ ~ Mentioned(c) =>
         LET given == [rows[c] EXCEPT !.owner = rows'[c].owner, !.due = rows'[c].due]
         IN \A day \in Today :
              Assess(rows'[c], day) >= Assess(IF Answers(c) THEN given ELSE rows[c], day)]_vars

\* The sweep, the people pages and the lists are queries with filters of their
\* own, and they name the same work: what is late or at risk is nobody's or is on
\* its owner's page, and a nudge speaks of all that is late on the pages of those
\* who bear its name, and of nothing else.  Of the names somebody is late under, a
\* sweep reports as skipped exactly what its limit makes it pass over, and nudges
\* nobody if as many as the limit have been late for longer; a name it came to and
\* has no nudge for is one whose draft was not written (internal.py 80-187).
SweepAgreesWithPages ==
    \A day \in Today :
      LET pages == ListPeople(day)
          late == {page \in pages : page.overdue # {}}
          unowned == ListCommitments("unowned", day)
      IN /\ UNION {page.atRisk : page \in pages} = ListCommitments("at_risk", day) \ unowned
         /\ \A name \in Namings :
              LET names == {name[page.person] : page \in late}
                  PagesOf(n) == {page \in late : name[page.person] = n}
                  OverdueOf(n) == UNION {page.overdue : page \in PagesOf(n)}
                  LateLonger(m, n) ==
                    \E c \in OverdueOf(m) : \A d \in OverdueOf(n) : rows[c].due < rows[d].due
              IN \A swept \in Sweeps(name, day) :
                   /\ swept.overdue = swept.unowned \cup UNION {page.overdue : page \in late}
                   /\ swept.overdue \subseteq ListCommitments("overdue", day)
                   /\ swept.unowned \subseteq unowned
                   /\ Cardinality(DOMAIN swept.nudge) <= Cardinality(names) - swept.skipped
                   /\ Cardinality(names) - swept.skipped
                        = Least(Cardinality(names), MaxOwnersNudged)
                   /\ \A n \in DOMAIN swept.nudge :
                        /\ n \in names /\ swept.nudge[n] = OverdueOf(n)
                        /\ Cardinality({m \in names : LateLonger(m, n)}) < MaxOwnersNudged

=============================================================================
