------------------------------- MODULE Router -------------------------------
(***************************************************************************)
(* Which model serves an agent: an ordered chain of candidates per tier,   *)
(* filtered by the credentials that are configured.  A setting is          *)
(* [available, override]: the providers with credentials, and for each     *)
(* tier a sequence of at most one model put in front of its chain.         *)
(***************************************************************************)
EXTENDS SequencesExt, Selection

Provider == {"groq", "google", "openai"}
Model(provider, name) == [provider |-> provider, name |-> name]

\* The models the chains name, and any other one an override may name.
ModelName == {"gpt-5.4-mini", "gpt-4.1-mini", "gpt-oss-120b", "gpt-oss-20b",
              "gemini-2.5-flash-lite", "another"}
ModelSpec == [provider : Provider, name : ModelName]

TierChains ==
    [reason  |-> <<Model("openai", "gpt-5.4-mini"), Model("groq", "gpt-oss-120b"),
                   Model("google", "gemini-2.5-flash-lite"), Model("groq", "gpt-oss-20b")>>,
     skeptic |-> <<Model("groq", "gpt-oss-120b"), Model("google", "gemini-2.5-flash-lite"),
                   Model("openai", "gpt-4.1-mini"), Model("openai", "gpt-5.4-mini")>>]

\* The members of a chain that are served by one of some providers.
ServedBy(chain, providers) == Select(chain, {n \in DOMAIN chain : chain[n].provider \in providers})

\* The override first, then the rest of the chain, as far as there are
\* credentials.
Usable(setting, tier) ==
    LET override == setting.override[tier]
        chain == TierChains[tier]
        others == {n \in DOMAIN chain : chain[n].provider \in setting.available
                                         /\ chain[n] \notin Range(override)}
    IN ServedBy(override, setting.available) \o Select(chain, others)

\* Mutant of PreferADifferentProvider: the order of preference is left alone.
KeepTheOrder(setting, candidates) == candidates

\* The Analyst's provider goes to the back of the Skeptic's chain.
PreferADifferentProvider(setting, candidates) ==
    LET analyst == Usable(setting, "reason") IN
    IF analyst = <<>> THEN candidates
    ELSE ServedBy(candidates, Provider \ {analyst[1].provider})
           \o ServedBy(candidates, {analyst[1].provider})

\* The chain of a tier; empty when there is no model for it, which raises.
Chain(setting, tier) ==
    IF tier = "skeptic" THEN PreferADifferentProvider(setting, Usable(setting, tier))
                        ELSE Usable(setting, tier)

\* What an operator's settings give each tier.
Chains(setting) ==
    [reason |-> Chain(setting, "reason"), skeptic |-> Chain(setting, "skeptic")]

\* What /health says of the review.
IndependentReview(chains) ==
    /\ chains.reason # <<>>
    /\ chains.skeptic # <<>>
    /\ chains.reason[1].provider # chains.skeptic[1].provider

=============================================================================
