--------------------------- MODULE MCRateLimiter ---------------------------
(* Model-checking instance of RateLimiter: interchangeable keys, save "".    *)
EXTENDS RateLimiter, TLC

Symmetry == Permutations(Keys \ {EmptyIP})
=============================================================================
