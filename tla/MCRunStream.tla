---------------------------- MODULE MCRunStream -----------------------------
(***************************************************************************)
(* A small instance of RunStream: the Analyst's three briefs, two at a     *)
(* time, with credentials that make its primary unpaced, paced or absent.  *)
(***************************************************************************)
EXTENDS RunStream

CONSTANTS decisions, commitments, blockers

MCBrief == {decisions, commitments, blockers}

Credentials(available, reason, skeptic) ==
    [available |-> available, override |-> [reason |-> reason, skeptic |-> skeptic]]

\* An Analyst that is paced and reviewed by another provider, that is not paced,
\* that has one provider only or none, and one the operator overrode.
MCSettings ==
    {Credentials({"groq", "google"}, <<>>, <<>>),
     Credentials({"groq", "openai"}, <<>>, <<Model("openai", "gpt-4.1-mini")>>),
     Credentials({"google"}, <<>>, <<>>),
     Credentials({}, <<>>, <<>>),
     Credentials({"groq", "google"}, <<Model("google", "gemini-2.5-flash-lite")>>, <<>>)}

\* Two prompts of one length beside a longer one, and one above the ceiling.
Prompts(d, c, b) ==
    [x \in MCBrief |-> CASE x = decisions -> d [] x = commitments -> c [] x = blockers -> b]
MCEstimates == {Prompts(4, 7, 4), Prompts(4, 11, 4)}
=============================================================================
