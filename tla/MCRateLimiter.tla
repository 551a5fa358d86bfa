--------------------------- MODULE MCRateLimiter ---------------------------
(* RateLimiter with a small bucket.                                        *)
EXTENDS RateLimiter, TLC

CONSTANTS a, w1, w2

OneClient == {a}
TwoWorkers == {w1, w2}
WorkerSymmetry == Permutations(TwoWorkers)
=============================================================================
