----------------------------- MODULE MCRateLimit -----------------------------
(* Two clients, at most two requests in any three ticks. *)
EXTENDS RateLimit

CONSTANTS c1, c2
=============================================================================
