--------------------------- MODULE MCRateLimiter ---------------------------
(* The instance of RateLimiter that MCRateLimiter.cfg checks. *)
EXTENDS RateLimiter, TLC

\* The threads are interchangeable, and no action names one.
Symmetry == Permutations(Threads)
=============================================================================
