---------------------------- MODULE MCRateLimiter ---------------------------
(* A small instance of RateLimiter for TLC. *)
EXTENDS RateLimiter, TLC

CONSTANTS p1, p2

\* p1 has two requests a minute; p2 is configured with no limit at all, which the
\* code raises to one request a minute, and has no bucket at first.  A minute is
\* five ticks, so that p1 earns a token in two and a half, and a fifth of every bucket
\* is held back from Normal requests, two fifths from Low ones: p1's bucket can hold
\* every price, p2's none but a Manual request's.
MCRpm == p1 :> 2 @@ p2 :> 0

=============================================================================
