--------------------------- MODULE MCRateLimiter ----------------------------
(* Instances of RateLimiter for TLC: half a token a tick, bursts of two. *)
EXTENDS RateLimiter, TLC

CONSTANTS c1, c2, c3, s1, s2

CallerSymmetry == Permutations(Callers)

=============================================================================
