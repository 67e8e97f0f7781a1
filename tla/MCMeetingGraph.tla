--------------------------- MODULE MCMeetingGraph ---------------------------
(***************************************************************************)
(* A small instance of MeetingGraph: two obligations, one already on the   *)
(* ledger, found together, alone or not at all.                            *)
(***************************************************************************)
EXTENDS MeetingGraph

MCObligations == {"plan", "demo"}
MCFindings == {<<>>, <<"demo">>, <<"plan", "demo">>}
MCOnLedger == {"plan"}
=============================================================================
