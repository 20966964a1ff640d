--------------------------- MODULE MCPdcchPlaces ---------------------------
(***************************************************************************)
(* MCPdcch for CORESETs under the hypotheses of the theorems.              *)
(***************************************************************************)
EXTENDS MCPdcch

ASSUME HypothesesHold == PlacesAgree /\ SentApart /\ SizesDiffer
=============================================================================
