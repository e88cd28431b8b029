--------------------------- MODULE MCRateLimiter ---------------------------
(* Small instances of RateLimiter for TLC. *)
EXTENDS RateLimiter

CONSTANTS r1, r2, ann, bob
=============================================================================
