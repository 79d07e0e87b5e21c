---------------------------- MODULE MCCallReport ----------------------------
(* Every body of up to MaxTokens tokens is walked: lambdas in and beside each *)
(* other, declarations, uses and calls in any of them. The calls of bodies of *)
(* up to MaxReported tokens are reported: every list of up to MaxSites        *)
(* entries for them.                                                          *)
EXTENDS CallReport
MCKeys == 1..MaxReported
=============================================================================
