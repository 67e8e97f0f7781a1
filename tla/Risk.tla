-------------------------------- MODULE Risk --------------------------------
(***************************************************************************)
(* The risk score of a commitment: a weighted sum of what has gone wrong   *)
(* with it and of what is not known about it.  A weight is a number of     *)
(* thousandths and a share of it is kept exact by counting in 1/42 of a    *)
(* thousandth; confidences are in hundredths.  The names and the wording   *)
(* of the factors are left out.                                            *)
(***************************************************************************)
EXTENDS Integers

Least(m, n) == IF m < n THEN m ELSE n

\* The weight, in thousandths, that each factor can add.
Weight == [silence |-> 400, overdue |-> 350, slippage |-> 300, noOwner |-> 200,
           noDeadline |-> 150, question |-> 150, blocked |-> 150,
           weakOwner |-> 100, weakDeadline |-> 100, conditional |-> 50]

Scale == 42

OverdueSaturation == 7
SlipSaturation == 3
SilenceSaturation == 3

\* The part of a weight that `count` occurrences of its factor bring.
Share(weight, count, saturation) ==
    (weight * Scale * Least(count, saturation)) \div saturation

\* A confidence below 0.7 adds what it lacks of its factor's weight.
Doubt(weight, confidence) ==
    IF confidence < 70 THEN (weight * Scale * (100 - confidence)) \div 100 ELSE 0

DaysLate(due, today) == IF due < today THEN today - due ELSE 0

\* The score in thousandths of a commitment given as [settled, owned, dated,
\* due, slip, silence]; `known` is what the ledger's rows leave out of it.
Score(item, today, known) ==
    IF item.settled THEN 0
    ELSE
      LET total ==
            Share(Weight.silence, item.silence, SilenceSaturation)
              + Share(Weight.slippage, item.slip, SlipSaturation)
              + (IF item.dated THEN Share(Weight.overdue, DaysLate(item.due, today), OverdueSaturation)
                          ELSE Weight.noDeadline * Scale)
              + (IF item.owned THEN Doubt(Weight.weakOwner, known.ownerConfidence)
                               ELSE Weight.noOwner * Scale)
              + (IF item.dated THEN Doubt(Weight.weakDeadline, known.dueConfidence) ELSE 0)
              + Share(Weight.question, known.questions, 2)
              + (IF known.blocked THEN Weight.blocked * Scale ELSE 0)
              + (IF known.conditional THEN Weight.conditional * Scale ELSE 0)
      IN Least(1000, (total + Scale \div 2) \div Scale)

Band(score) == IF score >= 600 THEN "high" ELSE IF score >= 300 THEN "medium" ELSE "low"

=============================================================================
