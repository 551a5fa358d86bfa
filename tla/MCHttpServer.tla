---------------------------- MODULE MCHttpServer ----------------------------
(* HttpServer with three requests of the four kinds that differ in what    *)
(* they count: a probe and a scrape, the mock LLM, and no route at all.    *)
EXTENDS HttpServer, TLC

CONSTANTS r1, r2, r3

ThreeRequests == {r1, r2, r3}
RequestSymmetry == Permutations(ThreeRequests)
SomeTargets == {"readyz", "metrics", "mock", "unrouted"}
OneDuration == {1}
=============================================================================
