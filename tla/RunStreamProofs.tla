-------------------------- MODULE RunStreamProofs ---------------------------
(***************************************************************************)
(* Theorems about RunStream, for every value of its constants.             *)
(***************************************************************************)
EXTENDS RunStream, SelectionProofs

(***************************************************************************)
(* The models that serve each tier.                                        *)
(***************************************************************************)

\* The members of a chain that some providers serve are all of it that they serve,
\* and nothing else.
LEMMA ServedByKeeps ==
    ASSUME NEW chain \in Seq(ModelSpec), NEW providers
    PROVE  /\ ServedBy(chain, providers) \in Seq(ModelSpec)
           /\ \A n \in DOMAIN ServedBy(chain, providers) :
                ServedBy(chain, providers)[n].provider \in providers
           /\ \A n \in DOMAIN chain :
                chain[n].provider \in providers => ServedBy(chain, providers) # <<>>
  <1> DEFINE served == {n \in DOMAIN chain : chain[n].provider \in providers}
  <1>1. served \in SUBSET DOMAIN chain
    OBVIOUS
  <1>2. ServedBy(chain, providers) = Select(chain, served)
    BY DEF ServedBy
  <1>3. \A m \in served : chain[m].provider \in providers
    OBVIOUS
  <1>4. ASSUME NEW n \in DOMAIN chain, chain[n].provider \in providers
        PROVE  served # {}
    <2>1. n \in served
      BY <1>4
    <2>2. QED
      BY <2>1
  <1> HIDE DEF served
  <1>5. /\ Select(chain, served) \in Seq(ModelSpec)
        /\ \A n \in DOMAIN Select(chain, served) :
             \E m \in served : Select(chain, served)[n] = chain[m]
        /\ Select(chain, served) = <<>> <=> served = {}
    BY <1>1, SelectKeeps
  <1>6. QED
    BY <1>2, <1>3, <1>4, <1>5

\* What the settings leave of a tier's chain are models.
LEMMA UsableType ==
    ASSUME NEW setting \in Settings, NEW tier \in {"reason", "skeptic"}
    PROVE  Usable(setting, tier) \in Seq(ModelSpec)
  <1> DEFINE override == setting.override[tier]
             chain == TierChains[tier]
             others == {n \in DOMAIN chain : chain[n].provider \in setting.available
                                              /\ chain[n] \notin Range(override)}
  <1>1. override \in Seq(ModelSpec)
    BY SettingsAssumption
  <1>2. chain \in Seq(ModelSpec)
    <2>1. \A provider \in Provider, name \in ModelName : Model(provider, name) \in ModelSpec
      BY DEF ModelSpec, Model
    <2>2. /\ Model("openai", "gpt-5.4-mini") \in ModelSpec
          /\ Model("groq", "gpt-oss-120b") \in ModelSpec
          /\ Model("google", "gemini-2.5-flash-lite") \in ModelSpec
          /\ Model("groq", "gpt-oss-20b") \in ModelSpec
          /\ Model("openai", "gpt-4.1-mini") \in ModelSpec
      BY <2>1 DEF Provider, ModelName
    <2> HIDE DEF chain
    <2>3. \A a, b, c, d \in ModelSpec : <<a, b, c, d>> \in Seq(ModelSpec)
      OBVIOUS
    <2>4. /\ TierChains["reason"] \in Seq(ModelSpec)
          /\ TierChains["skeptic"] \in Seq(ModelSpec)
      BY <2>2, <2>3 DEF TierChains
    <2>5. QED
      BY <2>4 DEF chain
  <1>3. Usable(setting, tier) = ServedBy(override, setting.available) \o Select(chain, others)
    BY DEF Usable
  <1>4. others \in SUBSET DOMAIN chain
    OBVIOUS
  <1> HIDE DEF override, chain, others
  <1>5. ServedBy(override, setting.available) \in Seq(ModelSpec)
    BY <1>1, ServedByKeeps
  <1>6. Select(chain, others) \in Seq(ModelSpec)
    BY <1>2, <1>4, SelectKeeps
  <1>7. QED
    BY <1>3, <1>5, <1>6, ConcatProperties

\* One sequence behind another: the first of the first comes first.
LEMMA FirstOfFirst ==
    ASSUME NEW A \in Seq(ModelSpec), NEW B \in Seq(ModelSpec)
    PROVE  /\ A \o B \in Seq(ModelSpec)
           /\ A # <<>> => A \o B # <<>> /\ (A \o B)[1] = A[1] /\ 1 \in DOMAIN A
           /\ A = <<>> => A \o B = B
  <1>1. /\ A \o B \in Seq(ModelSpec) /\ Len(A \o B) = Len(A) + Len(B)
        /\ \A i \in 1..Len(A) + Len(B) :
             (A \o B)[i] = IF i <= Len(A) THEN A[i] ELSE B[i - Len(A)]
    BY ConcatProperties
  <1>2. Len(A) \in Nat /\ Len(B) \in Nat /\ DOMAIN A = 1..Len(A)
    BY LenProperties
  <1>3. ASSUME A # <<>>
        PROVE  A \o B # <<>> /\ (A \o B)[1] = A[1] /\ 1 \in DOMAIN A
    <2>1. Len(A) # 0
      BY <1>3, EmptySeq
    <2>2. 1 \in 1..Len(A) /\ 1 \in 1..Len(A) + Len(B) /\ 1 <= Len(A)
      BY <1>2, <2>1
    <2>3. Len(A \o B) # 0
      BY <1>1, <1>2, <2>1
    <2>4. QED
      BY <1>1, <1>2, <2>2, <2>3, EmptySeq
  <1>4. A = <<>> => A \o B = B
    BY ConcatEmptySeq
  <1>5. QED
    BY <1>1, <1>3, <1>4

\* Each tier has a sequence of models, and the Skeptic's starts with one of another
\* provider than the Analyst's if there is any in it.
LEMMA ChainsAreIndependent ==
    ASSUME NEW setting \in Settings, chains = Chains(setting)
    PROVE  /\ chains \in [reason : Seq(ModelSpec), skeptic : Seq(ModelSpec)]
           /\ ReviewIsIndependent
  <1> DEFINE analyst == Usable(setting, "reason")
             skeptic == Usable(setting, "skeptic")
             first == ServedBy(skeptic, Provider \ {analyst[1].provider})
             last == ServedBy(skeptic, {analyst[1].provider})
  <1>1. analyst \in Seq(ModelSpec) /\ skeptic \in Seq(ModelSpec)
    BY UsableType
  <1>2. /\ chains = [reason |-> analyst, skeptic |-> chains.skeptic]
        /\ analyst = <<>> => chains.skeptic = skeptic
        /\ analyst # <<>> => chains.skeptic = first \o last
    BY DEF Chains, Chain, PreferADifferentProvider
  <1> HIDE DEF analyst, skeptic
  <1>3. /\ first \in Seq(ModelSpec)
        /\ \A n \in DOMAIN first : first[n].provider \in Provider \ {analyst[1].provider}
    BY <1>1, ServedByKeeps
  <1>4. /\ last \in Seq(ModelSpec)
        /\ \A n \in DOMAIN last : last[n].provider \in {analyst[1].provider}
    BY <1>1, ServedByKeeps
  <1> HIDE DEF first, last
  <1>5. chains.skeptic \in Seq(ModelSpec)
    BY <1>1, <1>2, <1>3, <1>4, FirstOfFirst
  <1>6. ASSUME chains.reason # <<>>,
               NEW m \in Range(chains.skeptic), m.provider # chains.reason[1].provider
        PROVE  IndependentReview(chains)
    <2>1. chains.reason = analyst /\ analyst # <<>> /\ chains.skeptic = first \o last
      BY <1>2, <1>6
    <2>2. first # <<>>
      <3>1. SUFFICES ASSUME first = <<>> PROVE FALSE
        OBVIOUS
      <3>2. chains.skeptic = last
        BY <1>3, <1>4, <2>1, <3>1, FirstOfFirst
      <3>3. PICK n \in DOMAIN last : m = last[n]
        BY <1>6, <3>2 DEF Range
      <3>4. QED
        BY <1>4, <1>6, <2>1, <3>3
    <2>3. chains.skeptic # <<>> /\ chains.skeptic[1] = first[1] /\ 1 \in DOMAIN first
      BY <1>3, <1>4, <2>1, <2>2, FirstOfFirst
    <2>4. chains.skeptic[1].provider # chains.reason[1].provider
      BY <1>3, <2>1, <2>3
    <2>5. QED
      BY <1>6, <2>3, <2>4 DEF IndependentReview
  <1>7. chains \in [reason : Seq(ModelSpec), skeptic : Seq(ModelSpec)]
    BY <1>1, <1>2, <1>5
  <1>8. QED
    BY <1>6, <1>7 DEF ReviewIsIndependent

(***************************************************************************)
(* The briefs and the token budget keep their types.                       *)
(***************************************************************************)

\* What is left in the window is a sequence of tokens.
LEMMA InWindowType ==
    ASSUME BriefsTypeOK
    PROVE  InWindow \in Seq(Nat)
  <1>1. spends \in Seq(Nat) /\ aged \in 0..Len(spends)
    BY DEF BriefsTypeOK
  <1>2. Len(spends) \in Nat /\ \A i \in 1..Len(spends) : spends[i] \in Nat
    BY <1>1, ElementOfSeq
  <1>3. \A i \in (aged + 1)..Len(spends) : spends[i] \in Nat
    BY <1>1, <1>2
  <1>4. SubSeq(spends, aged + 1, Len(spends)) \in Seq(Nat)
    BY <1>1, <1>2, <1>3, SubSeqProperties
  <1>5. QED
    BY <1>4 DEF InWindow

\* Settling replaces tokens by tokens and leaves the order alone.
LEMMA ReconcileType ==
    ASSUME NEW tokens \in Seq(Nat), NEW estimated, NEW actual \in Nat
    PROVE  /\ Reconcile(tokens, estimated, actual) \in Seq(Nat)
           /\ Len(Reconcile(tokens, estimated, actual)) = Len(tokens)
  <1> DEFINE i == Highest({j \in DOMAIN tokens : tokens[j] = estimated})
  <1>1. Reconcile(tokens, estimated, actual) = tokens
        \/ Reconcile(tokens, estimated, actual) = [tokens EXCEPT ![i] = actual]
    BY DEF Reconcile
  <1> HIDE DEF i
  <1>2. CASE i \in 1..Len(tokens)
    BY <1>1, <1>2, ExceptSeq
  <1>3. CASE i \notin 1..Len(tokens)
    <2>1. [tokens EXCEPT ![i] = actual] = tokens
      BY <1>3
    <2>2. QED
      BY <1>1, <2>1
  <1>4. QED
    BY <1>2, <1>3

\* A brief that moves is still a brief.
LEMMA MoveType ==
    ASSUME BriefsTypeOK, NEW b \in Brief,
           NEW phase \in {"idle", "queued", "pausing", "reserving", "sleeping",
                          "calling", "answered", "failed"},
           Move(b, phase)
    PROVE  /\ brief' \in [Brief -> [phase : {"idle", "queued", "pausing", "reserving", "sleeping",
                                             "calling", "answered", "failed"},
                                    attempt : 1..MaxAttempts]]
           /\ brief'[b].phase = phase
           /\ \A c \in Brief \ {b} : brief'[c] = brief[c]
  BY DEF BriefsTypeOK, Move

\* Whatever a brief does next, and time passing, keep the types.
LEMMA ProgressType ==
    ASSUME BriefsTypeOK, NEW b \in Brief, Progress(b)
    PROVE  BriefsTypeOK'
  <1> DEFINE Phases == {"idle", "queued", "pausing", "reserving", "sleeping",
                        "calling", "answered", "failed"}
  <1> USE DEF Phase
  <1>1. CASE Enter(b)
    <2>1. PICK phase \in {"reserving", "pausing"} : Move(b, phase)
      BY <1>1 DEF Enter
    <2>2. QED
      BY <1>1, <2>1, MoveType DEF Enter, BriefsTypeOK, given
  <1>2. CASE PauseEnds(b)
    <2>1. Move(b, "reserving")
      BY <1>2 DEF PauseEnds
    <2>2. QED
      BY <1>2, <2>1, MoveType DEF PauseEnds, BriefsTypeOK, given
  <1>3. CASE CallUnpaced(b)
    <2>1. Move(b, "calling")
      BY <1>3 DEF CallUnpaced
    <2>2. QED
      BY <1>3, <2>1, MoveType DEF CallUnpaced, BriefsTypeOK, given
  <1>4. ASSUME Book(b), (Phase(b) = "reserving" /\ sleeper = None) \/ Phase(b) = "sleeping"
        PROVE  BriefsTypeOK'
    <2>1. estimate[b] \in Nat
      BY EstimateAssumption DEF BriefsTypeOK
    <2>2. InWindow \in Seq(Nat) /\ Append(InWindow, estimate[b]) \in Seq(Nat)
      BY <2>1, InWindowType
    <2>3. spends' \in Seq(Nat) /\ aged' = 0
      BY <1>4, <2>2 DEF Book
    <2>4. aged' \in 0..Len(spends')
      BY <2>3
    <2>5. \A c \in Brief \ {b} : brief[c].phase # "sleeping"
      BY <1>4, NoneAssumption DEF BriefsTypeOK
    <2>6. CASE Fits(b)
      <3>1. Move(b, "calling") /\ sleeper' = None
        BY <1>4, <2>6 DEF Book
      <3>2. QED
        BY <1>4, <2>3, <2>4, <2>5, <3>1, MoveType, NoneAssumption DEF Book, BriefsTypeOK, given
    <2>7. CASE ~ Fits(b)
      <3>1. Move(b, "sleeping") /\ sleeper' = b
        BY <1>4, <2>7 DEF Book
      <3>2. QED
        BY <1>4, <2>3, <2>4, <2>5, <3>1, MoveType, NoneAssumption DEF Book, BriefsTypeOK, given
    <2>8. QED
      BY <2>6, <2>7
  <1>5. CASE Reserve(b)
    BY <1>4, <1>5 DEF Reserve
  <1>6. CASE Wake(b)
    BY <1>4, <1>6 DEF Wake
  <1>7. ASSUME NEW actual \in Actual, Return(b, actual)
        PROVE  BriefsTypeOK'
    <2>1. Move(b, "answered")
      BY <1>7 DEF Return
    <2>2. spends' \in Seq(Nat) /\ Len(spends') = Len(spends)
      BY <1>7, ReconcileType, ActualAssumption DEF Return, BriefsTypeOK
    <2>3. QED
      BY <1>7, <2>1, <2>2, MoveType DEF Return, BriefsTypeOK, given
  <1>8. CASE Raise(b)
    <2>1. brief[b].attempt \in 1..MaxAttempts /\ MaxAttempts = 2
      BY DEF BriefsTypeOK, MaxAttempts
    <2>2. AttemptsLeft(b) => brief[b].attempt + 1 \in 1..MaxAttempts
      BY <2>1 DEF AttemptsLeft
    <2>3. PICK new \in [phase : {"queued", "failed"}, attempt : 1..MaxAttempts] :
            brief' = [brief EXCEPT ![b] = new]
      <3>1. CASE AttemptsLeft(b)
        BY <1>8, <2>2, <3>1 DEF Raise
      <3>2. CASE ~ AttemptsLeft(b)
        BY <1>8, <2>1, <3>2 DEF Raise, BriefsTypeOK
      <3>3. QED
        BY <3>1, <3>2
    <2>4. QED
      BY <1>8, <2>3 DEF Raise, BriefsTypeOK, given
  <1>9. QED
    BY <1>1, <1>2, <1>3, <1>5, <1>6, <1>7, <1>8 DEF Progress

\* Starting the briefs and the passing of time keep the types.
LEMMA StartType ==
    ASSUME BriefsTypeOK, StartBriefs
    PROVE  BriefsTypeOK'
  BY NoneAssumption DEF BriefsTypeOK, StartBriefs, Phase, given, MaxAttempts

LEMMA ExpireType ==
    ASSUME BriefsTypeOK, Expire
    PROVE  BriefsTypeOK'
  BY DEF BriefsTypeOK, Expire, Phase, given

LEMMA QuietType ==
    ASSUME BriefsTypeOK, UNCHANGED briefVars
    PROVE  BriefsTypeOK'
  BY DEF BriefsTypeOK, briefVars, Phase

(***************************************************************************)
(* The stream.                                                             *)
(***************************************************************************)

\* The end is the last of what is queued, once announced; as long as the
\* generator listens, what was put in the queue is in it or was heard, and
\* afterwards everything was heard, unless the reader left.
Queue ==
    /\ events \in Seq({"report", "end"})
    /\ \A i \in 1..Len(events) : events[i] = "end" <=> over /\ i = Len(events)
    /\ over \in BOOLEAN
    /\ over => drive \in {"done", "raised"}
    /\ made \in 0..2 /\ heard \in 0..made
    /\ drive \in {"new", "extracting"} => made = 0
    /\ drive = "extracted" => made = 1
    /\ stream = "open" => heard + Len(events) = made + (IF over THEN 1 ELSE 0)
    /\ stream \notin {"open", "gone"} => events = <<>> /\ heard = made /\ over

\* What the generator knows of the task when it saves, and of the row when it
\* tells.
Ending ==
    /\ drive \in {"new", "extracting", "extracted", "done", "raised"}
    /\ stream \in {"open", "joining", "saving", "failing", "saved", "failed", "broken",
                   "gone", "closed"}
    /\ row \in {"running", "saved", "failed"}
    /\ told \in {"nothing", "run_finished", "run_failed"}
    /\ told # "nothing" <=> stream = "closed"
    /\ stream = "saving" => drive = "done"
    /\ stream = "failing" => drive = "raised"
    /\ stream = "saved" \/ told = "run_finished" => row = "saved" /\ drive = "done"
    /\ stream = "failed" \/ told = "run_failed" => row = "failed" /\ drive = "raised"

IInv == BriefsTypeOK /\ Queue /\ Ending

LEMMA InitIInv == Init => IInv
  <1> SUFFICES ASSUME Init PROVE IInv
    OBVIOUS
  <1>1. BriefsTypeOK
    <2>1. spends \in Seq(Nat) /\ Len(spends) = 0 /\ aged = 0
      BY EmptySeq DEF Init, InitBriefs
    <2>2. brief \in [Brief -> [phase : {"idle"}, attempt : 1..MaxAttempts]]
      BY DEF Init, InitBriefs, MaxAttempts
    <2>3. /\ chains \in [reason : Seq(ModelSpec), skeptic : Seq(ModelSpec)]
          /\ estimate \in Estimates /\ sleeper = None /\ rolled \in BOOLEAN
      BY ChainsAreIndependent DEF Init, InitBriefs
    <2>4. \A b \in Brief : Phase(b) = "sleeping" <=> sleeper = b
      BY <2>2, <2>3, NoneAssumption DEF Phase
    <2>5. brief \in [Brief -> [phase : {"idle", "queued", "pausing", "reserving", "sleeping",
                                      "calling", "answered", "failed"},
                             attempt : 1..MaxAttempts]]
      BY <2>2
    <2>6. aged \in 0..Len(spends)
      BY <2>1
    <2>7. QED
      BY <2>1, <2>3, <2>4, <2>5, <2>6 DEF BriefsTypeOK
  <1>2. Queue /\ Ending
    <2>1. events \in Seq({"report", "end"}) /\ Len(events) = 0
      BY EmptySeq DEF Init
    <2>2. ~ over /\ over \in BOOLEAN
      BY DEF Init
    <2>3. /\ drive = "new" /\ made = 0 /\ heard = 0 /\ stream = "open"
          /\ row = "running" /\ told = "nothing"
      BY DEF Init
    <2>4. QED
      BY <2>1, <2>2, <2>3 DEF Queue, Ending
  <1>3. QED
    BY <1>1, <1>2 DEF IInv

\* A report or the end is put behind what is queued.
LEMMA Appended ==
    ASSUME Queue, ~ over, NEW e \in {"report", "end"}
    PROVE  /\ Append(events, e) \in Seq({"report", "end"})
           /\ Len(Append(events, e)) = Len(events) + 1
           /\ \A i \in 1..(Len(events) + 1) :
                Append(events, e)[i] = "end" <=> (e = "end" /\ i = Len(events) + 1)
  BY DEF Queue

\* A step of the task that drives the graph.
LEMMA DrivingStep ==
    ASSUME IInv, Driving
    PROVE  IInv'
  <1>1. CASE Extract
    <2>1. BriefsTypeOK'
      BY <1>1, StartType DEF Extract, IInv
    <2>2. Queue' /\ Ending'
      BY <1>1 DEF Extract, IInv, Queue, Ending, reader
    <2>3. QED
      BY <2>1, <2>2 DEF IInv
  <1>2. CASE Extracted
    <2>1. BriefsTypeOK'
      BY <1>2, QuietType DEF Extracted, IInv
    <2>2. ~ over /\ made = 0
      BY <1>2 DEF Extracted, IInv, Queue
    <2>3. Queue'
      BY <1>2, <2>2, Appended DEF Extracted, Report, IInv, Queue, reader
    <2>4. Ending'
      BY <1>2, <2>2 DEF Extracted, IInv, Queue, Ending, reader
    <2>5. QED
      BY <2>1, <2>3, <2>4 DEF IInv
  <1>3. CASE Finish
    <2>1. BriefsTypeOK'
      BY <1>3, QuietType DEF Finish, IInv
    <2>2. ~ over /\ made = 1
      BY <1>3 DEF Finish, IInv, Queue
    <2>3. Queue'
      BY <1>3, <2>2, Appended DEF Finish, Report, IInv, Queue, reader
    <2>4. Ending'
      BY <1>3, <2>2 DEF Finish, IInv, Queue, Ending, reader
    <2>5. QED
      BY <2>1, <2>3, <2>4 DEF IInv
  <1>4. CASE Raises
    <2>1. BriefsTypeOK'
      BY <1>4, QuietType DEF Raises, IInv
    <2>2. ~ over
      BY <1>4 DEF Raises, IInv, Queue
    <2>3. Queue' /\ Ending'
      BY <1>4, <2>2 DEF Raises, IInv, Queue, Ending, reader
    <2>4. QED
      BY <2>1, <2>3 DEF IInv
  <1>5. CASE AnnounceEnd
    <2>1. BriefsTypeOK'
      BY <1>5, QuietType DEF AnnounceEnd, IInv
    <2>2. Queue'
      BY <1>5, Appended DEF AnnounceEnd, TaskOver, IInv, Queue, reader
    <2>3. Ending'
      BY <1>5 DEF AnnounceEnd, IInv, Ending, reader
    <2>4. QED
      BY <2>1, <2>2, <2>3 DEF IInv
  <1>6. QED
    BY <1>1, <1>2, <1>3, <1>4, <1>5 DEF Driving

\* The generator takes the oldest of what is queued.
LEMMA ForwardStep ==
    ASSUME IInv, Forward
    PROVE  Queue' /\ Ending'
  <1>1. /\ events \in Seq({"report", "end"}) /\ events # <<>> /\ stream = "open"
        /\ events' = Tail(events)
        /\ drive' = drive /\ made' = made /\ row' = row /\ told' = told
    BY DEF Forward, IInv, Queue, task
  <1>2. (over' <=> over) /\ over' \in BOOLEAN
    BY DEF Forward, IInv, Queue, task
  <1>3. /\ Head(events) = events[1]
        /\ Len(events) \in Nat /\ Len(events) >= 1
        /\ events' \in Seq({"report", "end"})
        /\ Len(events') = Len(events) - 1
        /\ \A i \in 1..Len(events') : events'[i] = events[i + 1]
    BY <1>1, HeadTailProperties
  <1>4. \A i \in 1..Len(events) : events[i] = "end" <=> over /\ i = Len(events)
    BY DEF IInv, Queue
  <1>5. \A i \in 1..Len(events') : events'[i] = "end" <=> over' /\ i = Len(events')
    BY <1>2, <1>3, <1>4
  <1>6. /\ over => drive \in {"done", "raised"}
        /\ made \in 0..2 /\ heard \in 0..made
        /\ drive \in {"new", "extracting"} => made = 0
        /\ drive = "extracted" => made = 1
        /\ ~ over => heard + Len(events) = made
        /\ over => heard + Len(events) = made + 1
    BY <1>1 DEF IInv, Queue
  <1>7. Ending /\ stream' \in {"open", "joining"} => Ending'
    BY <1>1 DEF Ending
  <1>8. CASE Head(events) = "end"
    <2>1. over /\ Len(events) = 1
      BY <1>3, <1>4, <1>8
    <2>2. events' = <<>> /\ heard = made
      BY <1>3, <1>6, <2>1
    <2>3. stream' = "joining" /\ heard' = heard
      BY <1>1, <1>8 DEF Forward
    <2>4. QED
      BY <1>1, <1>2, <1>3, <1>5, <1>6, <1>7, <2>1, <2>2, <2>3 DEF IInv, Queue
  <1>9. CASE Head(events) # "end"
    <2>1. stream' = "open" /\ heard' = heard + 1
      BY <1>1, <1>9 DEF Forward
    <2>2. over => Len(events) >= 2
      BY <1>3, <1>4, <1>9
    <2>3. heard' \in 0..made
      BY <1>3, <1>6, <2>1, <2>2
    <2>4. /\ ~ over' => heard' + Len(events') = made'
          /\ over' => heard' + Len(events') = made' + 1
      BY <1>1, <1>2, <1>3, <1>6, <2>1
    <2>5. stream' = "open" => heard' + Len(events') = made' + (IF over' THEN 1 ELSE 0)
      <3>1. CASE over'
        BY <2>4, <3>1
      <3>2. CASE ~ over'
        <4>1. heard' + Len(events') = made' /\ made' + 0 = made'
          BY <1>1, <1>6, <2>4, <3>2
        <4>2. QED
          BY <3>2, <4>1
      <3>3. QED
        BY <3>1, <3>2
    <2>6. over' => drive' \in {"done", "raised"}
      BY <1>1, <1>2, <1>6
    <2>7. Queue'
      BY <1>1, <1>2, <1>3, <1>5, <1>6, <2>1, <2>3, <2>5, <2>6 DEF Queue
    <2>8. QED
      BY <1>7, <2>1, <2>7 DEF IInv
  <1>10. QED
    BY <1>8, <1>9

\* A step of the generator, of the database or of the reader.
LEMMA StreamingStep ==
    ASSUME IInv, Streaming \/ SaveRaises \/ Leave
    PROVE  IInv'
  <1>1. BriefsTypeOK'
    BY QuietType DEF IInv, Streaming, Forward, Join, Save, Tell, SaveRaises, Leave
  <1>2. ASSUME Forward PROVE Queue' /\ Ending'
    BY <1>2, ForwardStep
  <1>3. ASSUME Join PROVE Queue' /\ Ending'
    BY <1>3 DEF Join, IInv, Queue, Ending, task
  <1>4. ASSUME Save PROVE Queue' /\ Ending'
    BY <1>4 DEF Save, Saved, IInv, Queue, Ending, task
  <1>5. ASSUME Tell PROVE Queue' /\ Ending'
    BY <1>5 DEF Tell, IInv, Queue, Ending, task
  <1>6. ASSUME SaveRaises PROVE Queue' /\ Ending'
    BY <1>6 DEF SaveRaises, IInv, Queue, Ending, task
  <1>7. ASSUME Leave PROVE Queue' /\ Ending'
    BY <1>7 DEF Leave, IInv, Queue, Ending, task
  <1>8. Queue' /\ Ending'
    BY <1>2, <1>3, <1>4, <1>5, <1>6, <1>7, ForwardStep DEF Streaming, IInv
  <1>9. QED
    BY <1>1, <1>8 DEF IInv

\* Every step keeps the invariant.
LEMMA StepIInv == IInv /\ [Next]_vars => IInv'
  <1> SUFFICES ASSUME IInv, [Next]_vars PROVE IInv'
    OBVIOUS
  <1>1. ASSUME UNCHANGED <<task, events, reader>>, BriefsTypeOK'
        PROVE  IInv'
    BY <1>1 DEF IInv, Queue, Ending, task, reader
  <1>2. ASSUME NEW b \in Brief, Working(b)
        PROVE  IInv'
    BY <1>1, <1>2, ProgressType DEF Working, IInv
  <1>3. CASE Passing
    BY <1>1, <1>3, ExpireType DEF Passing, IInv
  <1>4. CASE UNCHANGED vars
    BY <1>1, <1>4, QuietType DEF vars, IInv
  <1>5. QED
    BY <1>2, <1>3, <1>4, DrivingStep, StreamingStep DEF Next

LEMMA Invariance == Spec => []IInv
  BY InitIInv, StepIInv, PTL DEF Spec

-----------------------------------------------------------------------------
(***************************************************************************)
(* The theorems.                                                           *)
(***************************************************************************)

\* The briefs, the budget's window, the queue and the row keep their types: of
\* the briefs at most one sleeps, the one that has the budget's lock.
THEOREM TypeCorrect == Spec => []TypeOK
  <1>1. IInv => TypeOK
    BY DEF IInv, Queue, Ending, TypeOK
  <1>2. QED
    BY <1>1, Invariance, PTL

\* What the stream says of the run's end is what is committed of it, and a run
\* that is over and still says "running" had its reader leave or its save raise
\* (meetings.py 302-349).
THEOREM ToldTheTruth == Spec => []TheReaderIsToldTheTruth
  <1>1. IInv => TheReaderIsToldTheTruth
    BY DEF IInv, Ending, TheReaderIsToldTheTruth
  <1>2. QED
    BY <1>1, Invariance, PTL

\* A reader that is told how the run ended has heard every report before, and no
\* report is put behind the end of the queue (meetings.py 287-307).
THEOREM ReportsFirst == Spec => []ReportsComeBeforeTheEnd
  <1>1. IInv => ReportsComeBeforeTheEnd
    <2> SUFFICES ASSUME IInv PROVE ReportsComeBeforeTheEnd
      OBVIOUS
    <2>1. told # "nothing" => heard = made
      BY DEF IInv, Queue, Ending
    <2>2. DOMAIN events = 1..Len(events) /\ Len(events) \in Nat
      BY DEF IInv, Queue
    <2>3. \A i \in 1..Len(events) : events[i] = "end" <=> over /\ i = Len(events)
      BY DEF IInv, Queue
    <2>4. ASSUME NEW i \in DOMAIN events, NEW j \in DOMAIN events, events[i] = "end"
          PROVE  j <= i
      <3>1. i \in 1..Len(events) /\ j \in 1..Len(events)
        BY <2>2
      <3>2. i = Len(events)
        BY <2>3, <2>4, <3>1
      <3>3. QED
        BY <2>2, <3>1, <3>2
    <2>5. QED
      BY <2>1, <2>4 DEF ReportsComeBeforeTheEnd
  <1>2. QED
    BY <1>1, Invariance, PTL

\* The Skeptic is served by another provider than the Analyst whenever any model
\* of its chain is, whatever credentials and overrides the service runs with
\* (model_router.py 236-255).
THEOREM Independence == Spec => []ReviewIsIndependent
  <1>1. Init => ReviewIsIndependent
    BY ChainsAreIndependent DEF Init, InitBriefs
  <1>2. [Next]_vars => UNCHANGED chains
    <2>1. ASSUME NEW b \in Brief, Working(b)
          PROVE  UNCHANGED chains
      BY <2>1 DEF Working, Progress, Enter, PauseEnds, CallUnpaced, Reserve, Wake, Book,
                  Return, Raise, given
    <2>2. Driving => UNCHANGED chains
      BY DEF Driving, Extract, StartBriefs, Extracted, Finish, Raises, AnnounceEnd,
             briefVars, given
    <2>3. Streaming \/ SaveRaises \/ Leave => UNCHANGED chains
      BY DEF Streaming, Forward, Join, Save, Tell, SaveRaises, Leave, briefVars
    <2>4. Passing \/ UNCHANGED vars => UNCHANGED chains
      BY DEF Passing, Expire, given, vars, briefVars
    <2>5. QED
      BY <2>1, <2>2, <2>3, <2>4 DEF Next
  <1>3. ReviewIsIndependent /\ [Next]_vars => ReviewIsIndependent'
    BY <1>2 DEF ReviewIsIndependent, IndependentReview
  <1>4. QED
    BY <1>1, <1>3, PTL DEF Spec

-----------------------------------------------------------------------------
(***************************************************************************)
(* How many tokens several counts make.                                    *)
(***************************************************************************)

\* There are finitely many tokens in finitely many counts, and the tokens of one
\* count are as many as it says.
LEMMA TokensAreFinite ==
    ASSUME NEW D, IsFiniteSet(D), NEW counts \in [D -> Nat]
    PROVE  /\ IsFiniteSet(Tokens(counts)) /\ Total(counts) \in Nat
           /\ \A i \in D : /\ IsFiniteSet({i} \X (1..counts[i]))
                           /\ Cardinality({i} \X (1..counts[i])) = counts[i]
  <1> DEFINE one == [i \in D |-> {i} \X (1..counts[i])]
             all == {one[i] : i \in D}
  <1>1. ASSUME NEW i \in D
        PROVE  IsFiniteSet(one[i]) /\ Cardinality(one[i]) = counts[i]
    <2>1. IsFiniteSet({i}) /\ Cardinality({i}) = 1
      BY FS_Singleton
    <2>2. counts[i] \in Nat
      OBVIOUS
    <2>3. IsFiniteSet(1..counts[i]) /\ Cardinality(1..counts[i]) = counts[i]
      BY <2>2, FS_Interval
    <2>4. /\ IsFiniteSet({i} \X (1..counts[i]))
          /\ Cardinality({i} \X (1..counts[i])) = Cardinality({i}) * Cardinality(1..counts[i])
      BY <2>1, <2>3, FS_Product
    <2>5. one[i] = {i} \X (1..counts[i])
      OBVIOUS
    <2> HIDE DEF one
    <2>6. QED
      BY <2>1, <2>2, <2>3, <2>4, <2>5
  <1>2. Tokens(counts) = UNION all
    BY Zenon DEF Tokens
  <1>3. IsFiniteSet(all)
    <2>1. one \in [D -> all]
      OBVIOUS
    <2>2. \A T \in all : \E i \in D : one[i] = T
      OBVIOUS
    <2> HIDE DEF one, all
    <2>3. one \in Surjection(D, all)
      BY <2>1, <2>2 DEF Surjection
    <2>4. QED
      BY <2>3, FS_Surjection
  <1>4. \A T \in all : IsFiniteSet(T)
    BY <1>1
  <1>5. IsFiniteSet(UNION all)
    <2> HIDE DEF all
    <2>1. QED
      BY <1>3, <1>4, FS_UNION
  <1>6. Total(counts) \in Nat
    BY <1>2, <1>5, FS_CardinalityType DEF Total
  <1>7. QED
    BY <1>1, <1>2, <1>5, <1>6

\* A token belongs to one of the counts, and is within it.
LEMMA TokenOf ==
    ASSUME NEW counts, NEW i, NEW k
    PROVE  <<i, k>> \in Tokens(counts) <=> i \in DOMAIN counts /\ k \in 1..counts[i]
  BY DEF Tokens

\* Counts that are found among others, each at a place of its own, make no more
\* tokens than they do.
LEMMA FoundAmong ==
    ASSUME NEW C, IsFiniteSet(C), NEW fewer \in [C -> Nat],
           NEW D, IsFiniteSet(D), NEW more \in [D -> Nat],
           NEW place \in Injection(C, D), \A c \in C : more[place[c]] = fewer[c]
    PROVE  Total(fewer) <= Total(more)
  <1>1. /\ place \in [C -> D]
        /\ \A a, b \in C : place[a] = place[b] => a = b
    BY DEF Injection, IsInjective
  <1> DEFINE moved == [p \in Tokens(fewer) |-> <<place[p[1]], p[2]>>]
  <1>2. \A p \in Tokens(fewer) : \E c \in C : \E k \in 1..fewer[c] : p = <<c, k>>
    BY DEF Tokens
  <1>3. ASSUME NEW c \in C, NEW k \in 1..fewer[c]
        PROVE  <<place[c], k>> \in Tokens(more)
    BY <1>1, TokenOf
  <1>4. \A p \in Tokens(fewer) : <<place[p[1]], p[2]>> \in Tokens(more)
    BY <1>2, <1>3
  <1>5. moved \in [Tokens(fewer) -> Tokens(more)]
    BY <1>4
  <1>6. ASSUME NEW p \in Tokens(fewer), NEW q \in Tokens(fewer), moved[p] = moved[q]
        PROVE  p = q
    <2>1. PICK c \in C : \E k \in 1..fewer[c] : p = <<c, k>>
      BY <1>2
    <2>2. PICK d \in C : \E l \in 1..fewer[d] : q = <<d, l>>
      BY <1>2
    <2>3. /\ p = <<p[1], p[2]>> /\ p[1] = c
          /\ q = <<q[1], q[2]>> /\ q[1] = d
      BY <2>1, <2>2
    <2>4. moved[p] = <<place[p[1]], p[2]>> /\ moved[q] = <<place[q[1]], q[2]>>
      OBVIOUS
    <2>5. place[c] = place[d] /\ p[2] = q[2]
      BY <1>6, <2>3, <2>4
    <2>6. QED
      BY <1>1, <2>3, <2>5
  <1> HIDE DEF moved
  <1>7. moved \in Injection(Tokens(fewer), Tokens(more))
    BY <1>5, <1>6 DEF Injection, IsInjective
  <1>8. IsFiniteSet(Tokens(more))
    BY TokensAreFinite
  <1>9. QED
    BY <1>7, <1>8, FS_Injection DEF Total

\* One more count makes no more tokens than itself and the others together.
LEMMA OneMore ==
    ASSUME NEW C, IsFiniteSet(C), NEW b, NEW counts \in [C \cup {b} -> Nat]
    PROVE  Total(counts) <= Total([c \in C |-> counts[c]]) + counts[b]
  <1> DEFINE rest == [c \in C |-> counts[c]]
             mine == {b} \X (1..counts[b])
  <1>1. rest \in [C -> Nat]
    OBVIOUS
  <1>2. IsFiniteSet(C \cup {b})
    BY FS_AddElement
  <1>3. IsFiniteSet(mine) /\ Cardinality(mine) = counts[b] /\ counts[b] \in Nat
    BY <1>2, TokensAreFinite
  <1>4. Tokens(counts) \in SUBSET (Tokens(rest) \cup mine)
    BY DEF Tokens
  <1> HIDE DEF rest, mine
  <1>5. IsFiniteSet(Tokens(rest)) /\ Total(rest) \in Nat
    BY <1>1, TokensAreFinite
  <1>6. /\ IsFiniteSet(Tokens(rest) \cup mine)
        /\ Cardinality(Tokens(rest) \cup mine)
             = Total(rest) + Cardinality(mine) - Cardinality(Tokens(rest) \cap mine)
    BY <1>3, <1>5, FS_Union DEF Total
  <1>7. Cardinality(Tokens(rest) \cap mine) \in Nat
    BY <1>3, FS_Intersection, FS_CardinalityType
  <1>8. Total(counts) <= Cardinality(Tokens(rest) \cup mine)
    BY <1>4, <1>6, FS_Subset DEF Total
  <1>9. Total(counts) \in Nat
    BY <1>2, TokensAreFinite
  <1>10. Cardinality(Tokens(rest) \cup mine) \in Nat
    BY <1>6, FS_CardinalityType
  <1>11. QED
    BY <1>3, <1>5, <1>6, <1>7, <1>8, <1>9, <1>10 DEF rest

-----------------------------------------------------------------------------
(***************************************************************************)
(* What is booked covers what is in flight.                                *)
(***************************************************************************)

\* Each of some calls has a booking of its size that is no other's.
Covered(calls, sizes, booked) ==
    \E slot \in Injection(calls, DOMAIN booked) : \A c \in calls : booked[slot[c]] = sizes[c]

\* Several calls beside each other stay below the ceiling.
Within(calls, sizes) ==
    Cardinality(calls) > 1 => Total([c \in calls |-> sizes[c]]) <= Ceiling

\* Calls that are covered are finitely many, and no more tokens than are booked.
LEMMA CoveredCalls ==
    ASSUME NEW sizes \in [Brief -> Nat], NEW calls \in SUBSET Brief,
           NEW booked \in Seq(Nat), Covered(calls, sizes, booked)
    PROVE  /\ IsFiniteSet(calls) /\ (booked = <<>> => calls = {})
           /\ Total([c \in calls |-> sizes[c]]) <= Total(booked)
           /\ Total([c \in calls |-> sizes[c]]) \in Nat /\ Total(booked) \in Nat
  <1>1. PICK slot \in Injection(calls, DOMAIN booked) :
               \A c \in calls : booked[slot[c]] = sizes[c]
    BY DEF Covered
  <1>2. DOMAIN booked = 1..Len(booked) /\ Len(booked) \in Nat
    BY LenProperties
  <1>3. IsFiniteSet(DOMAIN booked)
    BY <1>2, FS_Interval
  <1>4. IsFiniteSet(calls)
    BY <1>1, <1>3, FS_Injection
  <1>5. [c \in calls |-> sizes[c]] \in [calls -> Nat]
    OBVIOUS
  <1>6. booked \in [DOMAIN booked -> Nat]
    BY <1>2, ElementOfSeq
  <1>7. Total([c \in calls |-> sizes[c]]) <= Total(booked)
    BY <1>1, <1>3, <1>4, <1>5, <1>6, FoundAmong
  <1>8. booked = <<>> => calls = {}
    BY <1>1 DEF Injection, IsInjective
  <1>9. QED
    BY <1>3, <1>4, <1>5, <1>6, <1>7, <1>8, TokensAreFinite

\* Fewer calls are covered by the same bookings.
LEMMA FewerCalls ==
    ASSUME NEW sizes \in [Brief -> Nat], NEW calls \in SUBSET Brief,
           NEW fewer \in SUBSET calls,
           NEW booked \in Seq(Nat), Covered(calls, sizes, booked), Within(calls, sizes)
    PROVE  Covered(fewer, sizes, booked) /\ Within(fewer, sizes)
  <1>1. PICK slot \in Injection(calls, DOMAIN booked) :
               \A c \in calls : booked[slot[c]] = sizes[c]
    BY DEF Covered
  <1>2. [c \in fewer |-> slot[c]] \in Injection(fewer, DOMAIN booked)
    BY <1>1 DEF Injection, IsInjective
  <1>3. Covered(fewer, sizes, booked)
    BY <1>1, <1>2 DEF Covered
  <1>4. IsFiniteSet(calls) /\ Total([c \in calls |-> sizes[c]]) \in Nat
    BY CoveredCalls
  <1>5. /\ IsFiniteSet(fewer) /\ Cardinality(fewer) <= Cardinality(calls)
        /\ Cardinality(fewer) \in Nat /\ Cardinality(calls) \in Nat
    BY <1>4, FS_Subset, FS_CardinalityType
  <1>6. [c \in fewer |-> c] \in Injection(fewer, calls)
    BY DEF Injection, IsInjective
  <1>7. Total([c \in fewer |-> sizes[c]]) <= Total([c \in calls |-> sizes[c]])
    <2> DEFINE few == [c \in fewer |-> sizes[c]]
               all == [c \in calls |-> sizes[c]]
               same == [c \in fewer |-> c]
    <2>1. few \in [fewer -> Nat] /\ all \in [calls -> Nat]
      OBVIOUS
    <2>2. \A c \in fewer : all[same[c]] = few[c]
      OBVIOUS
    <2>3. same \in Injection(fewer, calls)
      BY <1>6
    <2> HIDE DEF few, all, same
    <2>4. Total(few) <= Total(all)
      BY <1>4, <1>5, <2>1, <2>2, <2>3, FoundAmong
    <2>5. QED
      BY <2>4 DEF few, all
  <1>8. Total([c \in fewer |-> sizes[c]]) \in Nat
    BY <1>5, TokensAreFinite
  <1>9. Within(fewer, sizes)
    BY <1>4, <1>5, <1>7, <1>8, CeilingAssumption DEF Within
  <1>10. QED
    BY <1>3, <1>9

\* A call that settles takes one booking of its size; another call that had that
\* one takes over the settled call's.
LEMMA SettledCall ==
    ASSUME NEW sizes \in [Brief -> Nat], NEW calls \in SUBSET Brief, NEW b \in calls,
           NEW booked \in Seq(Nat), Covered(calls, sizes, booked), NEW actual \in Nat
    PROVE  Covered(calls \ {b}, sizes, Reconcile(booked, sizes[b], actual))
  <1>1. PICK slot \in Injection(calls, DOMAIN booked) :
               \A c \in calls : booked[slot[c]] = sizes[c]
    BY DEF Covered
  <1>2. /\ \A c \in calls : slot[c] \in DOMAIN booked
        /\ \A c, d \in calls : slot[c] = slot[d] => c = d
    BY <1>1 DEF Injection, IsInjective
  <1> DEFINE mine == {i \in DOMAIN booked : booked[i] = sizes[b]}
             last == Highest(mine)
             settled == [booked EXCEPT ![last] = actual]
             moved == [c \in calls \ {b} |-> IF slot[c] = last THEN slot[b] ELSE slot[c]]
  <1>3. slot[b] \in mine
    BY <1>1, <1>2
  <1>4. last \in mine
    <2>1. DOMAIN booked = 1..Len(booked) /\ Len(booked) \in Nat
      BY LenProperties
    <2>2. IsFiniteSet(DOMAIN booked) /\ DOMAIN booked \in SUBSET Int
      BY <2>1, FS_Interval
    <2>3. mine \in SUBSET DOMAIN booked
      OBVIOUS
    <2> HIDE DEF mine
    <2>4. IsFiniteSet(mine) /\ mine \in SUBSET Int /\ mine # {}
      BY <1>3, <2>2, <2>3, FS_Subset
    <2>5. QED
      BY <2>4, HighestIsGreatest
  <1>5. Reconcile(booked, sizes[b], actual) = settled
    BY <1>3 DEF Reconcile
  <1>6. last \in DOMAIN booked /\ booked[last] = sizes[b]
    BY <1>4
  <1> HIDE DEF mine, last
  <1>7. /\ DOMAIN settled = DOMAIN booked
        /\ \A i \in DOMAIN booked : i # last => settled[i] = booked[i]
    BY <1>6
  <1> HIDE DEF settled
  <1>8. ASSUME NEW c \in calls \ {b}
        PROVE  moved[c] \in DOMAIN booked /\ moved[c] # last /\ booked[moved[c]] = sizes[c]
    BY <1>1, <1>2, <1>6
  <1>9. ASSUME NEW c \in calls \ {b}, NEW d \in calls \ {b}, moved[c] = moved[d]
        PROVE  c = d
    BY <1>2, <1>9
  <1>10. moved \in [calls \ {b} -> DOMAIN booked]
    BY <1>8
  <1> HIDE DEF moved
  <1>11. moved \in Injection(calls \ {b}, DOMAIN settled)
    BY <1>7, <1>9, <1>10 DEF Injection, IsInjective
  <1>12. \A c \in calls \ {b} : settled[moved[c]] = sizes[c]
    BY <1>7, <1>8
  <1>13. QED
    BY <1>5, <1>11, <1>12 DEF Covered

\* A call that books for itself is covered, and below the ceiling with the others.
LEMMA BookedCall ==
    ASSUME NEW sizes \in [Brief -> Nat], NEW calls \in SUBSET Brief,
           NEW b \in Brief \ calls,
           NEW booked \in Seq(Nat), Covered(calls, sizes, booked),
           Total(booked) + sizes[b] <= Ceiling \/ booked = <<>>
    PROVE  /\ Covered(calls \cup {b}, sizes, Append(booked, sizes[b]))
           /\ Within(calls \cup {b}, sizes)
  <1>1. PICK slot \in Injection(calls, DOMAIN booked) :
               \A c \in calls : booked[slot[c]] = sizes[c]
    BY DEF Covered
  <1>2. /\ \A c \in calls : slot[c] \in DOMAIN booked
        /\ \A c, d \in calls : slot[c] = slot[d] => c = d
    BY <1>1 DEF Injection, IsInjective
  <1> DEFINE more == Append(booked, sizes[b])
             new == [c \in calls \cup {b} |-> IF c = b THEN Len(booked) + 1 ELSE slot[c]]
  <1>3. /\ DOMAIN booked = 1..Len(booked) /\ Len(booked) \in Nat
        /\ DOMAIN more = 1..(Len(booked) + 1)
        /\ more[Len(booked) + 1] = sizes[b]
        /\ \A i \in DOMAIN booked : more[i] = booked[i]
    BY LenProperties, AppendProperties
  <1> HIDE DEF more
  <1>4. ASSUME NEW c \in calls \cup {b}
        PROVE  new[c] \in DOMAIN more /\ more[new[c]] = sizes[c]
    BY <1>1, <1>2, <1>3
  <1>5. ASSUME NEW c \in calls \cup {b}, NEW d \in calls \cup {b}, new[c] = new[d]
        PROVE  c = d
    BY <1>2, <1>3, <1>5
  <1>6. new \in [calls \cup {b} -> DOMAIN more]
    BY <1>4
  <1> HIDE DEF new
  <1>7. new \in Injection(calls \cup {b}, DOMAIN more)
    BY <1>5, <1>6 DEF Injection, IsInjective
  <1>8. Covered(calls \cup {b}, sizes, more)
    BY <1>4, <1>7 DEF Covered
  <1>9. Within(calls \cup {b}, sizes)
    <2> DEFINE all == [c \in calls \cup {b} |-> sizes[c]]
               others == [c \in calls |-> sizes[c]]
    <2>1. /\ IsFiniteSet(calls) /\ (booked = <<>> => calls = {})
          /\ Total(others) <= Total(booked)
          /\ Total(others) \in Nat /\ Total(booked) \in Nat
      BY CoveredCalls
    <2>2. booked = <<>> => Cardinality(calls \cup {b}) = 1
      <3>1. booked = <<>> => calls \cup {b} = {b}
        BY <2>1
      <3>2. QED
        BY <3>1, FS_Singleton
    <2>3. all \in [calls \cup {b} -> Nat] /\ all[b] = sizes[b] /\ sizes[b] \in Nat
      OBVIOUS
    <2>4. others = [c \in calls |-> all[c]]
      OBVIOUS
    <2>5. IsFiniteSet(calls \cup {b})
      BY <2>1, FS_AddElement
    <2> HIDE DEF all, others
    <2>6. Total(all) <= Total(others) + sizes[b]
      BY <2>1, <2>3, <2>4, OneMore
    <2>7. Total(all) \in Nat
      BY <2>3, <2>5, TokensAreFinite
    <2>8. Total(booked) + sizes[b] <= Ceiling => Total(all) <= Ceiling
      BY <2>1, <2>3, <2>6, <2>7, CeilingAssumption
    <2>9. QED
      BY <2>2, <2>8 DEF Within, all
  <1>10. QED
    BY <1>8, <1>9 DEF more

\* Until a spend leaves the window, everything booked is in it, what is in flight
\* is covered by it and stays below the ceiling.
Burst ==
    /\ ~ rolled => aged = 0
    /\ ~ rolled /\ Paced =>
         Covered(InFlight, estimate, spends) /\ Within(InFlight, estimate)

LEMMA InitBurst == Init => Burst
  <1> SUFFICES ASSUME Init PROVE Burst
    OBVIOUS
  <1>1. InFlight = {} /\ aged = 0
    BY DEF Init, InitBriefs, InFlight, Phase
  <1>2. Covered({}, estimate, spends)
    <2>1. [c \in {} |-> c] \in Injection({}, DOMAIN spends)
      BY DEF Injection, IsInjective
    <2>2. QED
      BY <2>1 DEF Covered
  <1>3. Within({}, estimate)
    BY FS_EmptySet DEF Within
  <1>4. QED
    BY <1>1, <1>2, <1>3 DEF Burst

\* A step that books nothing and settles nothing may take calls away.
LEMMA QuietBurst ==
    ASSUME BriefsTypeOK, Burst, UNCHANGED <<chains, estimate, spends>>,
           ((rolled' <=> rolled) /\ aged' = aged) \/ rolled',
           Paced => InFlight' \in SUBSET InFlight
    PROVE  Burst'
  <1>1. (Paced' <=> Paced) /\ estimate' = estimate /\ spends' = spends
    BY DEF Paced
  <1>2. estimate \in [Brief -> Nat] /\ spends \in Seq(Nat) /\ InFlight \in SUBSET Brief
    BY EstimateAssumption DEF BriefsTypeOK, InFlight
  <1>3. ASSUME ~ rolled', Paced
        PROVE  Covered(InFlight', estimate, spends) /\ Within(InFlight', estimate)
    <2>1. Covered(InFlight, estimate, spends) /\ Within(InFlight, estimate)
      BY <1>3 DEF Burst
    <2>2. InFlight' \in SUBSET InFlight
      BY <1>3
    <2>3. QED
      BY <1>2, <2>1, <2>2, FewerCalls
  <1>4. ~ rolled' => aged' = 0
    BY DEF Burst
  <1>5. Covered(InFlight', estimate, spends) => Covered(InFlight, estimate, spends)'
    BY <1>1 DEF Covered
  <1>6. Within(InFlight', estimate) => Within(InFlight, estimate)'
    BY <1>1 DEF Within
  <1>7. QED
    BY <1>1, <1>3, <1>4, <1>5, <1>6 DEF Burst

\* A brief that moves to or from a call changes what is in flight by itself.
LEMMA MoveInFlight ==
    ASSUME BriefsTypeOK, NEW b \in Brief, NEW phase, Move(b, phase)
    PROVE  InFlight' = IF phase = "calling" THEN InFlight \cup {b} ELSE InFlight \ {b}
  BY DEF BriefsTypeOK, Move, InFlight, Phase

\* Whatever a brief does next.
LEMMA ProgressBurst ==
    ASSUME BriefsTypeOK, Burst, NEW b \in Brief, Progress(b)
    PROVE  Burst'
  <1>1. /\ estimate \in [Brief -> Nat] /\ spends \in Seq(Nat) /\ InFlight \in SUBSET Brief
        /\ estimate[b] \in Nat
    BY EstimateAssumption DEF BriefsTypeOK, InFlight
  <1>2. CASE Enter(b) \/ PauseEnds(b) \/ CallUnpaced(b)
    <2>1. UNCHANGED <<chains, estimate, spends, rolled, aged>>
      BY <1>2 DEF Enter, PauseEnds, CallUnpaced, given
    <2>2. PICK phase : /\ Move(b, phase)
                       /\ Paced => phase # "calling"
      BY <1>2 DEF Enter, PauseEnds, CallUnpaced
    <2>3. Paced => InFlight' = InFlight \ {b}
      BY <2>2, MoveInFlight
    <2>4. QED
      BY <2>1, <2>3, QuietBurst
  <1>3. CASE Reserve(b)
    <2>1. /\ UNCHANGED <<chains, estimate>> /\ (rolled' <=> rolled) /\ aged' = 0
          /\ b \notin InFlight /\ Paced /\ Paced'
      BY <1>3 DEF Reserve, Book, given, InFlight, Paced
    <2>2. SUFFICES ASSUME ~ rolled
                   PROVE  Covered(InFlight, estimate, spends)' /\ Within(InFlight, estimate)'
      BY <2>1 DEF Burst
    <2>3. /\ aged = 0
          /\ Covered(InFlight, estimate, spends) /\ Within(InFlight, estimate)
      BY <2>1, <2>2 DEF Burst
    <2>4. InWindow = spends
      BY <1>1, <2>3, SubSeqFull DEF InWindow
    <2>5. CASE Fits(b)
      <3>1. spends' = Append(spends, estimate[b]) /\ Move(b, "calling")
        BY <1>3, <2>4, <2>5 DEF Reserve, Book
      <3>2. InFlight' = InFlight \cup {b}
        BY <3>1, MoveInFlight
      <3>3. Total(spends) + estimate[b] <= Ceiling \/ spends = <<>>
        BY <2>4, <2>5 DEF Fits
      <3>4. /\ Covered(InFlight \cup {b}, estimate, Append(spends, estimate[b]))
            /\ Within(InFlight \cup {b}, estimate)
        BY <1>1, <2>1, <2>3, <3>3, BookedCall
      <3>5. QED
        BY <2>1, <3>1, <3>2, <3>4 DEF Covered, Within
    <2>6. CASE ~ Fits(b)
      <3>1. spends' = spends /\ Move(b, "sleeping")
        BY <1>3, <2>4, <2>6 DEF Reserve, Book
      <3>2. InFlight' = InFlight
        BY <2>1, <3>1, MoveInFlight
      <3>3. QED
        BY <2>1, <2>3, <3>1, <3>2 DEF Covered, Within
    <2>7. QED
      BY <2>5, <2>6
  <1>4. CASE Wake(b)
    <2>1. aged > 0 /\ (rolled' <=> rolled)
      BY <1>4 DEF Wake, Book
    <2>2. rolled
      BY <2>1 DEF Burst, BriefsTypeOK
    <2>3. QED
      BY <2>1, <2>2 DEF Burst
  <1>5. ASSUME NEW actual \in Actual, Return(b, actual)
        PROVE  Burst'
    <2>1. /\ UNCHANGED <<chains, estimate, aged>> /\ (rolled' <=> rolled)
          /\ b \in InFlight /\ (Paced' <=> Paced) /\ Move(b, "answered")
      BY <1>5 DEF Return, given, InFlight, Paced
    <2>2. InFlight' = InFlight \ {b}
      BY <2>1, MoveInFlight
    <2>3. CASE ~ Paced
      BY <1>5, <2>1, <2>2, <2>3, QuietBurst DEF Return
    <2>4. CASE Paced
      <3>1. spends' = Reconcile(spends, estimate[b], actual) /\ actual \in Nat
        BY <1>5, <2>4, ActualAssumption DEF Return
      <3>2. SUFFICES ASSUME ~ rolled
                     PROVE  Covered(InFlight, estimate, spends)' /\ Within(InFlight, estimate)'
        BY <2>1 DEF Burst
      <3>3. Covered(InFlight, estimate, spends) /\ Within(InFlight, estimate)
        BY <2>4, <3>2 DEF Burst
      <3>4. Covered(InFlight \ {b}, estimate, Reconcile(spends, estimate[b], actual))
        BY <1>1, <2>1, <3>1, <3>3, SettledCall
      <3>5. InFlight \ {b} \in SUBSET InFlight
        OBVIOUS
      <3>6. Within(InFlight \ {b}, estimate)
        BY <1>1, <3>3, <3>5, FewerCalls
      <3>7. QED
        BY <2>1, <2>2, <3>1, <3>4, <3>6 DEF Covered, Within
    <2>5. QED
      BY <2>3, <2>4
  <1>6. CASE Raise(b)
    <2>1. UNCHANGED <<chains, estimate, spends, aged, rolled>>
      BY <1>6 DEF Raise, given
    <2>2. InFlight' \in SUBSET InFlight
      BY <1>6 DEF Raise, InFlight, Phase, BriefsTypeOK
    <2>3. QED
      BY <2>1, <2>2, QuietBurst
  <1>7. QED
    BY <1>2, <1>3, <1>4, <1>5, <1>6 DEF Progress

LEMMA StepBurst == BriefsTypeOK /\ Burst /\ [Next]_vars => Burst'
  <1> SUFFICES ASSUME BriefsTypeOK, Burst, [Next]_vars PROVE Burst'
    OBVIOUS
  <1>1. ASSUME UNCHANGED briefVars
        PROVE  Burst'
    <2>1. InFlight' = InFlight
      BY <1>1 DEF briefVars, InFlight, Phase
    <2>2. QED
      BY <1>1, <2>1, QuietBurst DEF briefVars
  <1>2. ASSUME StartBriefs
        PROVE  Burst'
    <2>1. UNCHANGED <<chains, estimate, spends, aged, rolled>> /\ InFlight' = {}
      BY <1>2 DEF StartBriefs, given, InFlight, Phase
    <2>2. QED
      BY <2>1, QuietBurst
  <1>3. ASSUME Expire
        PROVE  Burst'
    <2>1. UNCHANGED <<chains, estimate, spends>> /\ rolled' /\ InFlight' = InFlight
      BY <1>3 DEF Expire, given, InFlight, Phase
    <2>2. QED
      BY <2>1, QuietBurst
  <1>4. ASSUME NEW b \in Brief, Working(b)
        PROVE  Burst'
    BY <1>4, ProgressBurst DEF Working
  <1>5. Driving => UNCHANGED briefVars \/ StartBriefs
    BY DEF Driving, Extract, Extracted, Finish, Raises, AnnounceEnd
  <1>6. Streaming \/ SaveRaises \/ Leave => UNCHANGED briefVars
    BY DEF Streaming, Forward, Join, Save, Tell, SaveRaises, Leave
  <1>7. UNCHANGED vars => UNCHANGED briefVars
    BY DEF vars
  <1>8. QED
    BY <1>1, <1>2, <1>3, <1>4, <1>5, <1>6, <1>7 DEF Next, Passing

\* What is booked covers what is in flight: within one window, calls that run
\* beside each other were estimated below the ceiling together, unless one is
\* alone, whichever booking a call's settling replaces (rate_budget.py 63-107).
THEOREM Bursts == Spec => []BurstsStayBelowTheCeiling
  <1>1. Burst => BurstsStayBelowTheCeiling
    BY DEF Burst, Within, BurstsStayBelowTheCeiling
  <1>2. IInv => BriefsTypeOK
    BY DEF IInv
  <1>3. QED
    BY <1>1, <1>2, InitBurst, StepBurst, Invariance, PTL DEF Spec

=============================================================================
