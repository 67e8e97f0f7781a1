------------------------- MODULE MeetingGraphProofs -------------------------
(***************************************************************************)
(* Theorems about MeetingGraph, for every value of its constants.          *)
(***************************************************************************)
EXTENDS MeetingGraph, FiniteSetTheorems, SequenceTheorems, WellFoundedInduction, TLAPS

(***************************************************************************)
(* Taking items out of the middle.                                         *)
(***************************************************************************)

\* Some of a set of numbers is the least.
LEMMA Least ==
    ASSUME NEW S \in SUBSET Nat, S # {}
    PROVE  \E m \in S : \A n \in S : m <= n
  <1> DEFINE Less == {ss \in Nat \X Nat : ss[1] < ss[2]}
  <1>1. IsWellFoundedOn(Less, Nat)
    <2>1. OpToRel(<, Nat) = Less
      BY Zenon DEF OpToRel
    <2>2. QED
      BY Zenon, NatLessThanWellFounded, <2>1
  <1> HIDE DEF Less
  <1>2. PICK m \in S : \A n \in S : ~ (<<n, m>> \in Less)
    BY <1>1, WFMin
  <1>3. ASSUME NEW n \in S
        PROVE  m <= n
    <2>1. m \in Nat /\ n \in Nat /\ <<n, m>> \notin Less
      BY <1>2
    <2>2. ~ (n < m)
      BY <2>1, Zenon DEF Less
    <2>3. QED
      BY <2>1, <2>2
  <1>4. QED
    BY <1>3

\* An increasing numbering of the positions by the positions leaves each where
\* it is.
LEMMA IncreasingIsIdentity ==
    ASSUME NEW n \in Nat, NEW f \in [1..n -> 1..n],
           \A i, j \in 1..n : i < j => f[i] < f[j]
    PROVE  \A i \in 1..n : f[i] = i
  <1>1. \A i \in 1..n : f[i] >= i
    <2> DEFINE S == {i \in 1..n : f[i] < i}
    <2>1. CASE S = {}
      BY <2>1
    <2>2. CASE S # {}
      <3>1. S \in SUBSET Nat
        OBVIOUS
      <3>2. PICK m \in S : \A k \in S : m <= k
        BY <2>2, <3>1, Least
      <3>3. m \in 1..n /\ f[m] \in 1..n /\ f[m] < m
        BY <3>2
      <3>4. m - 1 \in 1..n /\ m - 1 \notin S
        BY <3>2, <3>3
      <3>5. f[m - 1] \in 1..n /\ f[m - 1] >= m - 1 /\ f[m - 1] < f[m]
        BY <3>3, <3>4
      <3>6. QED
        BY <3>3, <3>5
    <2>3. QED
      BY <2>1, <2>2
  <1>2. \A i \in 1..n : f[i] <= i
    <2> DEFINE T == {k \in 0..n : \E i \in 1..n : k = n - i /\ f[i] > i}
    <2>1. CASE T = {}
      <3>1. ASSUME NEW i \in 1..n
            PROVE  f[i] <= i
        <4>1. n - i \in 0..n
          OBVIOUS
        <4>2. ~ (f[i] > i)
          BY <2>1, <4>1
        <4>3. f[i] \in 1..n
          OBVIOUS
        <4> HIDE DEF T
        <4>4. QED
          BY <4>2, <4>3
      <3>2. QED
        BY <3>1
    <2>2. CASE T # {}
      <3>1. T \in SUBSET Nat
        OBVIOUS
      <3>2. PICK k \in T : \A l \in T : k <= l
        BY <2>2, <3>1, Least
      <3>3. PICK i \in 1..n : k = n - i /\ f[i] > i
        BY <3>2
      <3>4. f[i] \in 1..n /\ i + 1 \in 1..n
        BY <3>3
      <3>5. n - (i + 1) \in 0..n /\ n - (i + 1) \notin T
        <4>1. k \in Int /\ n - (i + 1) = k - 1 /\ n - (i + 1) \in 0..n
          BY <3>3, <3>4
        <4> HIDE DEF T
        <4>2. ~ (k <= k - 1)
          BY <4>1
        <4>3. QED
          BY <3>2, <4>1, <4>2
      <3>6. f[i + 1] \in 1..n /\ ~ (f[i + 1] > i + 1)
        BY <3>4, <3>5
      <3>7. f[i] < f[i + 1]
        BY <3>4
      <3>8. QED
        BY <3>3, <3>4, <3>6, <3>7
    <2>3. QED
      BY <2>1, <2>2
  <1>3. QED
    BY <1>1, <1>2

\* What is left of the items are items, and all of them when none is gone.
LEMMA PickedItems ==
    ASSUME items \in Seq(Item), NEW gone \in SUBSET DOMAIN items,
           NEW kept \in Kept(items, gone)
    PROVE  /\ Picked(items, kept) \in Seq(Item)
           /\ gone = {} => Picked(items, kept) = items
           /\ items = <<>> => Picked(items, kept) = <<>>
  <1> DEFINE left == DOMAIN items \ gone
             n == Cardinality(left)
  <1>1. DOMAIN items = 1..Len(items) /\ Len(items) \in Nat
    BY LenProperties
  <1>2. IsFiniteSet(left) /\ n \in Nat
    <2>1. IsFiniteSet(1..Len(items))
      BY <1>1, FS_Interval
    <2>2. IsFiniteSet(left)
      BY <1>1, <2>1, FS_Subset
    <2>3. QED
      BY <2>2, FS_CardinalityType
  <1>3. kept \in [1..n -> left] /\ \A i, j \in 1..n : i < j => kept[i] < kept[j]
    BY DEF Kept
  <1> HIDE DEF n
  <1>4. Picked(items, kept) \in [1..n -> Item]
    BY <1>1, <1>3, ElementOfSeq DEF Picked
  <1>5. Picked(items, kept) \in Seq(Item)
    BY <1>2, <1>4
  <1>6. ASSUME gone = {}
        PROVE  Picked(items, kept) = items
    <2>1. n = Len(items)
      BY <1>1, <1>6, FS_Interval DEF n
    <2>2. kept \in [1..Len(items) -> 1..Len(items)]
      BY <1>1, <1>3, <1>6, <2>1
    <2>3. \A i \in 1..Len(items) : kept[i] = i
      BY <1>1, <1>3, <2>1, <2>2, IncreasingIsIdentity
    <2>4. Picked(items, kept) = [i \in 1..Len(items) |-> items[i]]
      BY <2>2, <2>3 DEF Picked
    <2>5. QED
      BY <1>1, <2>4
  <1>7. ASSUME items = <<>>
        PROVE  Picked(items, kept) = <<>>
    <2>1. gone = {}
      BY <1>1, <1>7
    <2>2. QED
      BY <1>6, <1>7, <2>1
  <1>8. QED
    BY <1>5, <1>6, <1>7

-----------------------------------------------------------------------------
(***************************************************************************)
(* The inductive invariant.                                                *)
(***************************************************************************)

\* How often a team worked is told by who reported and by the reruns.
Counts ==
    /\ \A t \in Teams \ {"intelligence"} : work[t] = IF t \in reported THEN 1 ELSE 0
    /\ work["intelligence"] = IF "intelligence" \in reported THEN 1 + replans ELSE 0
    /\ "intelligence" \notin reported => replans = 0 /\ ~ replanWanted
    /\ replanWanted => replans < MaxReplans

\* Nothing to ask about before the first extraction.
Fits ==
    /\ work["intelligence"] = 0 => items = <<>> /\ questions = {}
    /\ QuestionsFitTheirItems

IInv == TypeOK /\ Counts /\ Fits

\* What a team that works does to the plan.
LEMMA WorksEffect ==
    ASSUME TypeOK, NEW team \in Teams, Works(team)
    PROVE  /\ status = "running" /\ status' = "running"
           /\ node = team /\ node' = "chief_of_staff"
           /\ hops' \in 0..RecursionLimit
           /\ reported' = reported \cup {team} /\ reported' \subseteq Teams
           /\ work' \in [Teams -> Nat] /\ work'[team] = work[team] + 1
           /\ \A t \in Teams : t # team => work'[t] = work[t]
           /\ team # "intelligence" => team \notin reported
           /\ team \in reported => replanWanted /\ replans < MaxReplans
  <1>1. /\ status = "running" /\ status' = "running"
        /\ node = team /\ node' = "chief_of_staff"
        /\ reported' = reported \cup {team} /\ reported' \subseteq Teams
    BY DEF Works, Visit, TypeOK
  <1>2. hops' \in 0..RecursionLimit
    BY RecursionLimitAssumption DEF Works, Visit, Within, TypeOK
  <1>3. /\ work' \in [Teams -> Nat] /\ work'[team] = work[team] + 1
        /\ \A t \in Teams : t # team => work'[t] = work[t]
    BY DEF Works, TypeOK
  <1>4. /\ team # "intelligence" => team \notin reported
        /\ team \in reported => replanWanted /\ replans < MaxReplans
    BY Zenon DEF Works, Refuses, AlreadyDone, MayRerun
  <1>5. QED
    BY <1>1, <1>2, <1>3, <1>4

\* A team other than extraction that works leaves the count of its work right.
LEMMA WorksCounts ==
    ASSUME TypeOK, Counts, NEW team \in Teams \ {"intelligence"}, Works(team),
           UNCHANGED <<replans, replanWanted>>
    PROVE  Counts'
  <1>1. /\ reported' = reported \cup {team} /\ team \notin reported
        /\ work'[team] = work[team] + 1
        /\ \A t \in Teams : t # team => work'[t] = work[t]
    BY WorksEffect
  <1>2. work[team] = 0
    BY <1>1 DEF Counts
  <1>3. \A t \in Teams \ {"intelligence"} : work'[t] = IF t \in reported' THEN 1 ELSE 0
    BY <1>1, <1>2 DEF Counts
  <1>4. "intelligence" \in Teams /\ work'["intelligence"] = work["intelligence"]
        /\ ("intelligence" \in reported' <=> "intelligence" \in reported)
    BY <1>1 DEF Teams
  <1>5. work'["intelligence"] = IF "intelligence" \in reported' THEN 1 + replans' ELSE 0
    BY <1>4 DEF Counts
  <1>6. /\ "intelligence" \notin reported' => replans' = 0 /\ ~ replanWanted'
        /\ replanWanted' => replans' < MaxReplans
    BY <1>4 DEF Counts
  <1>7. QED
    BY <1>3, <1>5, <1>6 DEF Counts

\* A step that routes, refuses or ends changes nothing the invariant is about.
LEMMA PlainKeeps ==
    ASSUME IInv, UNCHANGED <<planning, artifacts, work>>,
           node' \in Teams \cup {"chief_of_staff", "end"},
           status' \in {"running", "finished", "completed", "failed", "out_of_steps"},
           node' = "end" <=> status' # "running",
           hops' \in 0..RecursionLimit
    PROVE  IInv'
  <1>1. TypeOK'
    BY DEF IInv, TypeOK, planning, artifacts
  <1>2. Counts'
    BY DEF IInv, Counts, planning
  <1>3. Fits'
    BY DEF IInv, Fits, QuestionsFitTheirItems, artifacts
  <1>4. QED
    BY <1>1, <1>2, <1>3 DEF IInv

\* Every superstep is counted within the limit.
LEMMA Counted ==
    ASSUME TypeOK, NEW here, Visit(here)
    PROVE  hops' \in 0..RecursionLimit
  BY RecursionLimitAssumption DEF Visit, Within, TypeOK

\* The initial states satisfy the invariant.
LEMMA InitHolds == Init => IInv
  <1> SUFFICES ASSUME Init PROVE IInv
    OBVIOUS
  <1>1. TypeOK
    <2>1. replanWanted \in BOOLEAN
      BY Zenon DEF Init
    <2>2. /\ node \in Teams \cup {"chief_of_staff", "end"}
          /\ status \in {"running", "finished", "completed", "failed", "out_of_steps"}
          /\ node = "end" <=> status # "running"
      BY DEF Init
    <2>3. replans \in 0..MaxReplans /\ hops \in 0..RecursionLimit
      BY MaxReplansAssumption, RecursionLimitAssumption DEF Init
    <2>4. work \in [Teams -> Nat] /\ items \in Seq(Item)
      BY DEF Init
    <2>5. /\ reported \subseteq Teams /\ questions \subseteq Question
          /\ tracked \subseteq Obligations /\ folded \subseteq Obligations
      BY DEF Init
    <2>6. QED
      BY <2>1, <2>2, <2>3, <2>4, <2>5 DEF TypeOK
  <1>2. Counts
    BY DEF Init, Counts, Teams
  <1>3. Fits
    BY DEF Init, Fits, QuestionsFitTheirItems
  <1>4. QED
    BY <1>1, <1>2, <1>3 DEF IInv

\* The first team of some is one of them.
LEMMA FirstIsOne ==
    ASSUME NEW teams \in SUBSET Teams, teams # {}
    PROVE  FirstOf(teams) \in teams
  <1> DEFINE First(i) == /\ TeamOrder[i] \in teams
                         /\ \A j \in 1..(i - 1) : TeamOrder[j] \notin teams
  <1>1. /\ DOMAIN TeamOrder = 1..4 /\ TeamOrder[1] = "intelligence"
        /\ TeamOrder[2] = "resolution" /\ TeamOrder[3] = "history"
        /\ TeamOrder[4] = "execution"
    BY DEF TeamOrder
  <1>2. \E i \in 1..4 : TeamOrder[i] \in teams
    <2>1. PICK team \in teams : TRUE
      OBVIOUS
    <2>2. \A t \in Teams : \E i \in 1..4 : TeamOrder[i] = t
      BY <1>1 DEF Teams
    <2>3. QED
      BY <2>1, <2>2
  <1>3. PICK m \in {i \in 1..4 : TeamOrder[i] \in teams} :
               \A n \in {i \in 1..4 : TeamOrder[i] \in teams} : m <= n
    <2>1. {i \in 1..4 : TeamOrder[i] \in teams} \in SUBSET Nat
      OBVIOUS
    <2>2. QED
      BY <1>2, <2>1, Least
  <1>4. m \in DOMAIN TeamOrder /\ First(m)
    <2>1. ASSUME NEW j \in 1..(m - 1), TeamOrder[j] \in teams
          PROVE  FALSE
      BY <1>3, <2>1
    <2>2. QED
      BY <1>1, <1>3, <2>1
  <1>5. First(CHOOSE i \in DOMAIN TeamOrder : First(i))
    BY <1>4, Zenon
  <1>6. QED
    BY <1>5, Zenon DEF FirstOf

\* Extraction keeps the invariant.
LEMMA IntelligenceKeeps ==
    ASSUME IInv, Intelligence
    PROVE  IInv'
  <1>1. TypeOK /\ "intelligence" \in Teams /\ Works("intelligence")
    BY DEF IInv, Intelligence, Teams
  <1>2. /\ reported' = reported \cup {"intelligence"} /\ reported' \subseteq Teams
        /\ status' = "running" /\ node' = "chief_of_staff"
        /\ hops' \in 0..RecursionLimit
        /\ work' \in [Teams -> Nat] /\ work'["intelligence"] = work["intelligence"] + 1
        /\ \A t \in Teams : t # "intelligence" => work'[t] = work[t]
        /\ "intelligence" \in reported => replanWanted /\ replans < MaxReplans
    BY <1>1, WorksEffect
  <1>3. /\ replanWanted => replans' = replans + 1
        /\ ~ replanWanted => replans' = replans
    BY DEF Intelligence
  <1>4. /\ "intelligence" \in reported => replans' = replans + 1
        /\ "intelligence" \notin reported => replans' = 0
    BY <1>2, <1>3 DEF IInv, Counts
  <1>5. replans' \in 0..MaxReplans
    BY <1>2, <1>4, MaxReplansAssumption DEF IInv, TypeOK
  <1>6. replanWanted' \in BOOLEAN /\ (replanWanted' => replans' < MaxReplans)
    BY Zenon DEF Intelligence
  <1>7. items' \in Seq(Item) /\ UNCHANGED <<questions, tracked, folded>>
    <2>1. PICK found \in Findings :
            items' = [i \in DOMAIN found |->
                        [what |-> found[i], owner |-> "pending", task |-> FALSE]]
      BY DEF Intelligence
    <2>2. found \in Seq(Obligations)
      BY FindingsAssumption
    <2>3. DOMAIN found = 1..Len(found) /\ Len(found) \in Nat
      BY <2>2, LenProperties
    <2>4. \A i \in DOMAIN found :
            [what |-> found[i], owner |-> "pending", task |-> FALSE] \in Item
      BY <2>2, <2>3, ElementOfSeq DEF Item
    <2>5. items' \in [1..Len(found) -> Item]
      BY <2>1, <2>3, <2>4
    <2>6. QED
      BY <2>3, <2>5 DEF Intelligence
  <1>8. TypeOK'
    BY <1>1, <1>2, <1>5, <1>6, <1>7 DEF TypeOK
  <1>9. Counts'
    <2>1. \A t \in Teams \ {"intelligence"} :
            work'[t] = work[t] /\ (t \in reported' <=> t \in reported)
      BY <1>2
    <2>2. \A t \in Teams \ {"intelligence"} : work'[t] = IF t \in reported' THEN 1 ELSE 0
      BY <2>1 DEF IInv, Counts
    <2>3. work'["intelligence"] = 1 + replans' /\ "intelligence" \in reported'
      <3>1. work["intelligence"] = IF "intelligence" \in reported THEN 1 + replans ELSE 0
        BY DEF IInv, Counts
      <3>2. replans \in Nat
        BY <1>1, MaxReplansAssumption DEF TypeOK
      <3>3. QED
        BY <1>2, <1>4, <3>1, <3>2
    <2>4. QED
      BY <1>6, <2>2, <2>3 DEF Counts
  <1>10. Fits'
    <2>1. work["intelligence"] \in Nat
      BY <1>1 DEF TypeOK
    <2>2. CASE work["intelligence"] = 0
      <3>1. questions' = {} /\ work'["intelligence"] = 1
        BY <1>2, <1>7, <2>2 DEF IInv, Fits
      <3>2. QED
        BY <3>1 DEF Fits, QuestionsFitTheirItems
    <2>3. CASE work["intelligence"] > 0
      <3>1. work'["intelligence"] > 1
        BY <1>2, <2>1, <2>3
      <3>2. QED
        BY <3>1 DEF Fits, QuestionsFitTheirItems
    <2>4. QED
      BY <2>1, <2>2, <2>3
  <1>11. QED
    BY <1>8, <1>9, <1>10 DEF IInv

\* Resolution keeps the invariant.
LEMMA ResolutionKeeps ==
    ASSUME IInv, Resolution
    PROVE  IInv'
  <1>1. TypeOK /\ "resolution" \in Teams \ {"intelligence"} /\ Works("resolution")
        /\ UNCHANGED <<replans, replanWanted, tracked, folded>>
    BY DEF IInv, Resolution, Teams
  <1>2. /\ reported' \subseteq Teams /\ status' = "running" /\ node' = "chief_of_staff"
        /\ hops' \in 0..RecursionLimit /\ work' \in [Teams -> Nat]
        /\ work'["intelligence"] = work["intelligence"]
    BY <1>1, WorksEffect DEF Teams
  <1>3. items \in Seq(Item) /\ DOMAIN items = 1..Len(items) /\ Len(items) \in Nat
    BY <1>1, LenProperties DEF TypeOK
  <1>4. \A i \in DOMAIN items : items[i] \in Item
    BY <1>3, ElementOfSeq
  <1>5. PICK known \in SUBSET DOMAIN items :
          /\ items' = [i \in DOMAIN items |->
                        [what |-> items[i].what, task |-> FALSE,
                         owner |-> IF i \in known THEN "known" ELSE "unknown"]]
          /\ questions' = IF items = <<>> THEN questions
                          ELSE QuestionsOn(items, DOMAIN items \ known)
    BY DEF Resolution
  <1>6. \A i \in DOMAIN items : items'[i] \in Item /\ items'[i].what = items[i].what
    BY <1>4, <1>5 DEF Item
  <1>7. items' \in Seq(Item) /\ DOMAIN items' = DOMAIN items
    <2>1. items' \in [1..Len(items) -> Item] /\ DOMAIN items' = DOMAIN items
      BY <1>3, <1>5, <1>6
    <2>2. QED
      BY <1>3, <2>1
  <1>8. questions' \subseteq Question
    <2>1. QuestionsOn(items, DOMAIN items \ known) \subseteq Question
      BY <1>3, <1>4 DEF QuestionsOn, Question, Item
    <2>2. QED
      BY <1>1, <1>5, <2>1 DEF TypeOK
  <1>9. TypeOK'
    BY <1>1, <1>2, <1>7, <1>8 DEF TypeOK
  <1>10. Counts'
    BY <1>1, WorksCounts DEF IInv
  <1>11. Fits'
    <2>1. CASE items = <<>>
      <3>1. items' = <<>> /\ questions' = questions
        BY <1>3, <1>5, <1>7, <2>1
      <3>2. QED
        BY <1>1, <1>2, <2>1, <3>1 DEF IInv, Fits, QuestionsFitTheirItems
    <2>2. CASE items # <<>>
      <3>1. work'["intelligence"] # 0
        BY <1>2, <2>2 DEF IInv, Fits
      <3>2. \A q \in questions' : q.index \in DOMAIN items /\ items[q.index].what = q.what
        BY <1>5, <2>2 DEF QuestionsOn
      <3>3. QED
        BY <1>6, <1>7, <3>1, <3>2 DEF Fits, QuestionsFitTheirItems
    <2>3. QED
      BY <2>1, <2>2
  <1>12. QED
    BY <1>9, <1>10, <1>11 DEF IInv

\* The Historian keeps the invariant.
LEMMA HistoryKeeps ==
    ASSUME IInv, History
    PROVE  IInv'
  <1>1. TypeOK /\ "history" \in Teams \ {"intelligence"} /\ Works("history")
        /\ UNCHANGED <<replans, replanWanted, questions, tracked>>
    BY DEF IInv, History, Teams
  <1>2. /\ reported' \subseteq Teams /\ status' = "running" /\ node' = "chief_of_staff"
        /\ hops' \in 0..RecursionLimit /\ work' \in [Teams -> Nat]
        /\ work'["intelligence"] = work["intelligence"]
    BY <1>1, WorksEffect DEF Teams
  <1>3. items \in Seq(Item) /\ DOMAIN items = 1..Len(items) /\ Len(items) \in Nat
    BY <1>1, LenProperties DEF TypeOK
  <1>4. \A i \in DOMAIN items : items[i].what \in Obligations
    <2>1. \A i \in DOMAIN items : items[i] \in Item
      BY <1>3, ElementOfSeq
    <2>2. QED
      BY <2>1 DEF Item
  <1>5. PICK gone \in SUBSET {i \in DOMAIN items : items[i].what \in OnLedger} :
          /\ \E kept \in Kept(items, gone) : items' = Picked(items, kept)
          /\ folded' = folded \cup {items[i].what : i \in gone}
    BY DEF History
  <1>6. PICK kept \in Kept(items, gone) : items' = Picked(items, kept)
    BY <1>5
  <1>7. /\ items' \in Seq(Item) /\ (gone = {} => items' = items)
        /\ (items = <<>> => items' = <<>>)
    BY <1>3, <1>6, PickedItems
  <1>8. folded' \subseteq Obligations
    BY <1>1, <1>4, <1>5 DEF TypeOK
  <1>9. TypeOK'
    BY <1>1, <1>2, <1>7, <1>8 DEF TypeOK
  <1>10. Counts'
    BY <1>1, WorksCounts DEF IInv
  <1>11. Fits'
    <2>1. work'["intelligence"] = 0 => items' = <<>> /\ questions' = {}
      BY <1>1, <1>2, <1>7 DEF IInv, Fits
    <2>2. folded' = {} => folded = {} /\ items' = items
      BY <1>5, <1>7
    <2>3. QED
      BY <1>1, <1>2, <2>1, <2>2 DEF IInv, Fits, QuestionsFitTheirItems
  <1>12. QED
    BY <1>9, <1>10, <1>11 DEF IInv

\* Task creation keeps the invariant.
LEMMA ExecutionKeeps ==
    ASSUME IInv, Execution
    PROVE  IInv'
  <1>1. TypeOK /\ "execution" \in Teams \ {"intelligence"} /\ Works("execution")
        /\ UNCHANGED <<replans, replanWanted, questions, folded>>
    BY DEF IInv, Execution, Teams
  <1>2. /\ reported' \subseteq Teams /\ status' = "running" /\ node' = "chief_of_staff"
        /\ hops' \in 0..RecursionLimit /\ work' \in [Teams -> Nat]
        /\ work'["intelligence"] = work["intelligence"]
    BY <1>1, WorksEffect DEF Teams
  <1>3. items \in Seq(Item) /\ DOMAIN items = 1..Len(items) /\ Len(items) \in Nat
    BY <1>1, LenProperties DEF TypeOK
  <1>4. \A i \in DOMAIN items : items[i] \in Item
    BY <1>3, ElementOfSeq
  <1>5. PICK created \in SUBSET {i \in DOMAIN items : items[i].owner = "known"},
             told \in SUBSET DOMAIN items :
          /\ items' = [i \in DOMAIN items |-> [items[i] EXCEPT !.task = i \in told]]
          /\ tracked' = tracked \cup {items[i].what : i \in created}
    BY DEF Execution
  <1>6. \A i \in DOMAIN items : items'[i] \in Item /\ items'[i].what = items[i].what
    <2>1. ASSUME NEW i \in DOMAIN items
          PROVE  items'[i] \in Item /\ items'[i].what = items[i].what
      <3>1. (i \in told) \in BOOLEAN
        OBVIOUS
      <3>2. items'[i] = [items[i] EXCEPT !.task = i \in told]
        BY <1>5
      <3>3. QED
        BY <1>4, <3>1, <3>2 DEF Item
    <2>2. QED
      BY <2>1
  <1>7. items' \in Seq(Item) /\ DOMAIN items' = DOMAIN items
    <2>1. items' \in [1..Len(items) -> Item] /\ DOMAIN items' = DOMAIN items
      BY <1>3, <1>5, <1>6
    <2>2. QED
      BY <1>3, <2>1
  <1>8. tracked' \subseteq Obligations
    BY <1>1, <1>4, <1>5 DEF TypeOK, Item
  <1>9. TypeOK'
    BY <1>1, <1>2, <1>7, <1>8 DEF TypeOK
  <1>10. Counts'
    BY <1>1, WorksCounts DEF IInv
  <1>11. Fits'
    <2>1. items = <<>> => items' = <<>>
      BY <1>3, <1>7
    <2>2. work'["intelligence"] = 0 => items' = <<>> /\ questions' = {}
      BY <1>1, <1>2, <2>1 DEF IInv, Fits
    <2>3. QED
      BY <1>1, <1>2, <1>6, <1>7, <2>2 DEF IInv, Fits, QuestionsFitTheirItems
  <1>12. QED
    BY <1>9, <1>10, <1>11 DEF IInv

\* Every step keeps the invariant.
LEMMA Invariance == IInv /\ [Next]_vars => IInv'
  <1> SUFFICES ASSUME IInv, [Next]_vars PROVE IInv'
    OBVIOUS
  <1>1. TypeOK
    BY DEF IInv
  <1>2. CASE UNCHANGED vars
    BY <1>1, <1>2, PlainKeeps DEF vars, TypeOK
  <1>3. ASSUME NEW team \in Teams, Delegate(team)
        PROVE  IInv'
    <2>1. /\ node' \in Teams /\ node' # "end" /\ status' = "running"
          /\ UNCHANGED <<planning, artifacts, work>>
      BY <1>3 DEF Delegate, Visit, Teams
    <2>2. QED
      BY <1>1, <1>3, <2>1, Counted, PlainKeeps DEF Delegate
  <1>4. CASE Finish
    BY <1>1, <1>4, Counted, PlainKeeps DEF Finish
  <1>5. CASE Advance
    <2>1. node' \in Teams
      BY <1>5, FirstIsOne DEF Advance, Remaining
    <2>2. /\ node' # "end" /\ status' = "running"
          /\ UNCHANGED <<planning, artifacts, work>>
      BY <1>5, <2>1 DEF Advance, Visit, Teams
    <2>3. QED
      BY <1>1, <1>5, <2>1, <2>2, Counted, PlainKeeps DEF Advance
  <1>6. CASE RunOut
    BY <1>1, <1>6, Counted, PlainKeeps DEF RunOut
  <1>7. ASSUME NEW team \in Teams, Refuse(team)
        PROVE  IInv'
    <2>1. node' = "chief_of_staff" /\ status' = "running"
          /\ UNCHANGED <<planning, artifacts, work>>
      BY <1>7 DEF Refuse, Visit
    <2>2. QED
      BY <1>1, <1>7, <2>1, Counted, PlainKeeps DEF Refuse
  <1>8. CASE Intelligence
    BY <1>8, IntelligenceKeeps
  <1>9. CASE Resolution
    BY <1>9, ResolutionKeeps
  <1>10. CASE History
    BY <1>10, HistoryKeeps
  <1>11. CASE Execution
    BY <1>11, ExecutionKeeps
  <1>12. CASE Raise
    BY <1>1, <1>12, Counted, PlainKeeps DEF Raise
  <1>13. CASE OutOfSteps
    BY <1>1, <1>13, PlainKeeps DEF OutOfSteps, TypeOK
  <1>14. QED
    BY <1>2, <1>3, <1>4, <1>5, <1>6, <1>7, <1>8, <1>9, <1>10, <1>11, <1>12, <1>13
    DEF Next

\* The invariant holds in every reachable state.
LEMMA Invariant == Spec => []IInv
  BY InitHolds, Invariance, PTL DEF Spec

\* The state the teams share has its shape, and neither the supersteps nor the
\* reruns of extraction exceed their bounds (agents/orchestrator.py).
THEOREM TypeCorrect == Spec => []TypeOK
  <1>1. IInv => TypeOK
    BY DEF IInv
  <1>2. QED
    BY <1>1, Invariant, PTL

\* A question is about the item at its position, until an item is folded into
\* the ledger or extraction runs again (agents/resolution.py numbers them,
\* agents/historian.py takes items out).
THEOREM QuestionsFit == Spec => []QuestionsFitTheirItems
  <1>1. IInv => QuestionsFitTheirItems
    BY DEF IInv, Fits
  <1>2. QED
    BY <1>1, Invariant, PTL

\* A rerun extraction asked for is granted when the Chief comes back to it
\* (agents/orchestrator.py: the rerun is asked for only while one is left).
THEOREM RerunGranted == Spec => RequestedRerunIsGranted
  <1> DEFINE Granted == node = "intelligence" /\ replanWanted /\ node' = "chief_of_staff" =>
                          work'["intelligence"] = work["intelligence"] + 1
  <1>1. ASSUME IInv, [Next]_vars, node = "intelligence", replanWanted,
               node' = "chief_of_staff"
        PROVE  work'["intelligence"] = work["intelligence"] + 1
    <2>1. TypeOK /\ MayRerun
      BY <1>1 DEF IInv, Counts, MayRerun
    <2>2. ASSUME NEW team \in Teams, Refuse(team)
          PROVE  FALSE
      BY <1>1, <2>1, <2>2 DEF Refuse, Visit, Refuses
    <2>3. CASE Intelligence
      BY <2>1, <2>3, WorksEffect DEF Intelligence, Teams
    <2>4. ~ Visit("chief_of_staff") /\ ~ Visit("resolution") /\ ~ Visit("history")
          /\ ~ Visit("execution")
      BY <1>1 DEF Visit
    <2>5. ~ (UNCHANGED vars) /\ ~ Raise /\ ~ OutOfSteps
      BY <1>1 DEF vars, Raise, OutOfSteps
    <2>6. ~ Resolution /\ ~ History /\ ~ Execution
      BY <2>4 DEF Resolution, History, Execution, Works
    <2>7. /\ \A team \in Teams : ~ Delegate(team)
          /\ ~ Finish /\ ~ Advance /\ ~ RunOut
      BY <2>4 DEF Delegate, Finish, Advance, RunOut
    <2>8. QED
      BY <1>1, <2>2, <2>3, <2>5, <2>6, <2>7 DEF Next
  <1>2. IInv /\ [Next]_vars => [Granted]_vars
    BY <1>1
  <1>3. QED
    BY <1>2, Invariant, PTL DEF Spec, RequestedRerunIsGranted
-----------------------------------------------------------------------------
(***************************************************************************)
(* The graph implements Supervision: what is left to TLC is that it ends.  *)
(***************************************************************************)

\* A team that works is one step of Supervision.
LEMMA WorksMaps ==
    ASSUME IInv, NEW team \in Teams, Works(team)
    PROVE  Promise!Work(team)
  <1>1. TypeOK
    BY DEF IInv
  <1>2. /\ status = "running" /\ status' = "running"
        /\ team # "intelligence" => team \notin reported
        /\ team \in reported => replans < MaxReplans
    BY <1>1, WorksEffect
  <1>3. work' = [work EXCEPT ![team] = @ + 1]
    BY DEF Works
  <1>4. work[team] < IF team = "intelligence" THEN 1 + MaxReplans ELSE 1
    <2>1. replans \in Nat
      BY <1>1, MaxReplansAssumption DEF TypeOK
    <2>2. CASE team \in reported
      BY <1>2, <2>1, <2>2, MaxReplansAssumption DEF IInv, Counts
    <2>3. CASE team \notin reported
      BY <1>2, <2>3, MaxReplansAssumption DEF IInv, Counts
    <2>4. QED
      BY <2>2, <2>3
  <1>5. QED
    BY <1>2, <1>3, <1>4 DEF Promise!Work

\* A step that leaves the work alone and ends the run as the Chief or an error
\* may is one step of Supervision.
LEMMA EndMaps ==
    ASSUME status = "running", status' \in {"finished", "failed", "out_of_steps"},
           UNCHANGED work
    PROVE  Promise!Stop
  BY DEF Promise!Stop

\* A run that ends with no route has had every team work.
LEMMA RunOutMaps ==
    ASSUME IInv, RunOut
    PROVE  Promise!Complete
  <1>1. status = "running" /\ status' = "completed" /\ UNCHANGED work
    BY DEF RunOut, Visit
  <1>2. \A t \in Teams : t \in reported
    BY DEF RunOut, Remaining
  <1>3. \A t \in Teams : work[t] > 0
    <2>1. replans \in Nat
      BY MaxReplansAssumption DEF IInv, TypeOK
    <2>2. ASSUME NEW t \in Teams
          PROVE  work[t] > 0
      BY <1>2, <2>1 DEF IInv, Counts
    <2>3. QED
      BY <2>2
  <1>4. QED
    BY <1>1, <1>3 DEF Promise!Complete

\* Every step is a step of Supervision, or none.
LEMMA SupervisedStep ==
    IInv /\ [Next]_vars => [Promise!Next]_(Promise!vars)
  <1> SUFFICES ASSUME IInv, [Next]_vars
               PROVE  Promise!Next \/ UNCHANGED Promise!vars
    OBVIOUS
  <1>1. ASSUME UNCHANGED <<status, work>>
        PROVE  UNCHANGED Promise!vars
    BY <1>1 DEF Promise!vars
  <1>2. ASSUME NEW team \in Teams, Works(team)
        PROVE  Promise!Next
    BY <1>2, WorksMaps DEF Promise!Next
  <1>3. ASSUME status = "running", status' \in {"finished", "failed", "out_of_steps"},
               UNCHANGED work
        PROVE  Promise!Next
    BY <1>3, EndMaps DEF Promise!Next
  <1>4. CASE UNCHANGED vars
    BY <1>1, <1>4 DEF vars
  <1>5. ASSUME NEW team \in Teams, Delegate(team) \/ Refuse(team)
        PROVE  UNCHANGED <<status, work>>
    BY <1>5 DEF Delegate, Refuse
  <1>6. CASE Finish
    BY <1>3, <1>6 DEF Finish, Visit
  <1>7. CASE Advance
    BY <1>1, <1>7 DEF Advance
  <1>8. CASE RunOut
    BY <1>8, RunOutMaps DEF Promise!Next
  <1>9. CASE Intelligence \/ Resolution \/ History \/ Execution
    BY <1>2, <1>9 DEF Intelligence, Resolution, History, Execution, Teams
  <1>10. CASE Raise
    BY <1>3, <1>10 DEF Raise, Visit
  <1>11. CASE OutOfSteps
    BY <1>3, <1>11 DEF OutOfSteps
  <1>12. QED
    BY <1>1, <1>4, <1>5, <1>6, <1>7, <1>8, <1>9, <1>10, <1>11 DEF Next

\* Whatever the model that routes decides, a team works once and extraction once
\* more for each rerun it may ask for, only while the run is going on, and a run
\* that ends with no route has had every team work (agents/orchestrator.py).
THEOREM SupervisedSafely == Spec => Promise!Safe
  <1>1. Init => Promise!Init
    BY DEF Init, Promise!Init
  <1>2. QED
    BY <1>1, Invariant, SupervisedStep, PTL DEF Spec, Promise!Safe
=============================================================================
