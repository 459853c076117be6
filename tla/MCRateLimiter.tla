--------------------------- MODULE MCRateLimiter ---------------------------
(* RateLimiter with interchangeable clients.                               *)
EXTENDS RateLimiter, TLC

CONSTANTS a, b, c

KeySymmetry == Permutations(Keys)
=============================================================================
