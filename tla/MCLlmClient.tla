---------------------------- MODULE MCLlmClient ----------------------------
(* LlmClient with three calls for two permits.                             *)
EXTENDS LlmClient

CONSTANTS c1, c2, c3

ThreeCalls == {c1, c2, c3}
=============================================================================
